---------------------------- MODULE HorpkgInit ----------------------------
(***************************************************************************)
(* horpkg init (build-hnp/horpkg/src/cmd_init.c with config.c, auth.c,     *)
(* signing.c and download.c): the signing assets of one account, kept in   *)
(* ~/.horpkg on this device and as certificates in Huawei's cloud.         *)
(*                                                                         *)
(* A step ends where something outside memory has changed or answered, so  *)
(* the process may die between any two steps; the next run starts over     *)
(* from the files and the cloud.  An answer may be lost: the cloud has     *)
(* done what it was asked and init takes it for a failure.                 *)
(*                                                                         *)
(* Keys and certificates are numbers in the order of their creation.  A    *)
(* .cer, .p7b or cert_id is the certificate it names.                      *)
(***************************************************************************)
EXTENDS Integers, Sequences

CONSTANTS
  MaxFaults,       \* calls that fail and crashes, over all runs
  MaxLosses,       \* times ~/.horpkg is lost
  MaxExpiries      \* certificates that expire

ASSUME InitAssumption == MaxFaults \in Nat /\ MaxLosses \in Nat /\ MaxExpiries \in Nat

VARIABLES
  config,          \* config.json: a configuration, Missing or Broken
  p12, csr,        \* key of horpkg.p12, key that horpkg.csr is for
  cer, p7b,        \* certificate in horpkg.cer, certificate the profile lists
  cloud,           \* certificate -> [key, valid, name]
  device,          \* hdc-lite reaches the device
  session,         \* the tokens of the last login are still accepted
  pc, after,       \* where init is, and where it goes on after a save
  g_config,        \* the configuration in memory
  cert, found,     \* local_cert.id and cloud_cert.id
  outcome,         \* "complete" after a run that reported so
  missed,          \* a certificate was not found because the list failed
  keys, faults, losses, expiries

files  == <<config, p12, csr, cer, p7b>>
locals == <<after, g_config, cert, found>>
counts == <<faults, losses, expiries>>
vars == <<files, cloud, device, session, pc, locals, outcome, missed, keys, counts>>

None == 0          \* no file, no certificate
Junk == -1         \* a file without a certificate in it
Missing == [state |-> "missing"]
Broken  == [state |-> "broken"]
Config(uuid, auth, id) == [state |-> "ok", device_uuid |-> uuid, auth |-> auth, cert_id |-> id]
Defaults == Config(FALSE, FALSE, None)

ValidCerts(name) == {c \in DOMAIN cloud : cloud[c].valid /\ cloud[c].name = name}
First(S) == IF S = {} THEN None ELSE CHOOSE c \in S : \A d \in S : c <= d

\* A new installation, or one of an older version whose certificate is
\* called "horpkg"; its files may be gone.
Init ==
  /\ cloud \in {<<>>, <<[key |-> 1, valid |-> TRUE, name |-> "horpkg"]>>}
  /\ keys = Len(cloud)
  /\ p12 \in {None, Len(cloud)} /\ csr \in {None, p12} /\ cer = p12
  /\ config \in {Missing, Broken} \cup {Config(TRUE, TRUE, Len(cloud))}
  /\ p7b = None
  /\ device = TRUE /\ session = TRUE
  /\ pc = "idle" /\ after = "idle" /\ g_config = Defaults
  /\ cert = None /\ found = None /\ outcome = "none"
  /\ missed = FALSE /\ faults = 0 /\ losses = 0 /\ expiries = 0

-----------------------------------------------------------------------------
(* Ends of a run, and what goes wrong *)

Fault == faults < MaxFaults /\ faults' = faults + 1 /\ UNCHANGED <<losses, expiries>>
NoFault == UNCHANGED counts

End(result) ==
  /\ pc' = "idle" /\ after' = "idle" /\ g_config' = Defaults
  /\ cert' = None /\ found' = None /\ outcome' = result

Goto(label) == pc' = label /\ UNCHANGED <<locals, outcome>>

\* config_save() and then on to label.
Save(label) == pc' = "save" /\ after' = label /\ UNCHANGED <<cert, found, outcome>>

\* A step that fails with "return 1" and leaves everything outside as it is.
Fails(label) ==
  /\ pc = label /\ Fault /\ End("none")
  /\ UNCHANGED <<files, cloud, session, missed, keys, device>>

CallFails ==
  \E label \in {"login", "exchange", "access", "delete", "keystore", "csr", "request", "download"} :
    Fails(label)

Crash ==
  /\ pc # "idle" /\ Fault /\ End("none")
  /\ UNCHANGED <<files, cloud, session, missed, keys, device>>

LoseDirectory ==
  /\ pc = "idle" /\ losses < MaxLosses /\ losses' = losses + 1
  /\ config' = Missing /\ p12' = None /\ csr' = None /\ cer' = None /\ p7b' = None
  /\ UNCHANGED <<cloud, session, pc, locals, outcome, missed, keys, faults, expiries, device>>

SessionExpires ==
  /\ session /\ session' = FALSE
  /\ UNCHANGED <<files, cloud, pc, locals, outcome, missed, keys, counts, device>>

CertificateExpires ==
  /\ expiries < MaxExpiries /\ expiries' = expiries + 1
  /\ \E c \in DOMAIN cloud : cloud[c].valid /\ cloud' = [cloud EXCEPT ![c].valid = FALSE]
  /\ UNCHANGED <<files, session, pc, locals, outcome, missed, keys, faults, losses, device>>

-----------------------------------------------------------------------------
(* Configuration, device, account *)

\* main: config_load, defaults when the file is missing or no JSON.
Load ==
  /\ pc = "idle" /\ pc' = "connect"
  /\ g_config' = IF config.state = "ok" THEN config ELSE Defaults
  /\ outcome' = "none"
  /\ UNCHANGED <<files, cloud, session, after, cert, found, missed, keys, counts, device>>

\* The first half of config_save: the file is opened for writing.
SaveOpen ==
  /\ pc = "save" /\ config' = Broken /\ Goto("write") /\ NoFault
  /\ UNCHANGED <<p12, csr, cer, p7b, cloud, session, missed, keys, device>>

SaveWrite ==
  /\ pc = "write" /\ config' = g_config /\ Goto(after) /\ NoFault
  /\ UNCHANGED <<p12, csr, cer, p7b, cloud, session, missed, keys, device>>

\* Only store_uuid gives up when the file cannot be written.
SaveFails ==
  /\ pc \in {"save", "write"} /\ Fault
  /\ IF after = "auth" THEN End("none") ELSE Goto(after)
  /\ UNCHANGED <<files, cloud, session, missed, keys, device>>

\* The user names another address, and it may be right.
SetupConnect ==
  /\ ~device
  /\ \/ device' = TRUE /\ Goto("uuid") /\ NoFault
     \/ UNCHANGED device /\ End("none") /\ Fault

Unplug ==
  /\ device /\ device' = FALSE /\ Fault
  /\ UNCHANGED <<files, cloud, session, pc, locals, outcome, missed, keys>>

\* main: init needs the device; the user is asked for another way to it once.
Connect ==
  /\ pc = "connect"
  /\ \/ device /\ UNCHANGED device /\ Goto("uuid") /\ NoFault
     \/ SetupConnect
  /\ UNCHANGED <<files, cloud, session, missed, keys>>

\* is_initialized: the stored id is that of the device.
UuidKnown ==
  /\ pc = "uuid" /\ device /\ g_config.device_uuid /\ Goto("auth") /\ NoFault
  /\ UNCHANGED <<files, cloud, session, missed, keys, device>>

\* Otherwise store_uuid, if the device can be asked.
StoreUuid ==
  /\ pc = "uuid" /\ ~(device /\ g_config.device_uuid) /\ NoFault
  /\ IF device
     THEN g_config' = [g_config EXCEPT !.device_uuid = TRUE] /\ Save("auth")
     ELSE End("none")
  /\ UNCHANGED <<files, cloud, session, missed, keys, device>>

\* The device list tells whether the saved tokens are still good.
TokensAccepted ==
  /\ pc = "auth" /\ g_config.auth /\ session /\ Save("survey") /\ NoFault
  /\ UNCHANGED <<files, cloud, session, g_config, missed, keys, device>>

\* No tokens, tokens refused, or no answer: all the same.
TokensRefused ==
  /\ pc = "auth" /\ Goto("login")
  /\ IF g_config.auth /\ session THEN Fault ELSE NoFault
  /\ UNCHANGED <<files, cloud, session, missed, keys, device>>

\* auth_init_oauth: the user logs in and the page delivers a temporary token,
Login ==
  /\ pc = "login" /\ Goto("exchange") /\ NoFault
  /\ UNCHANGED <<files, cloud, device, session, missed, keys>>

\* which is exchanged for a JWT,
ExchangeTempForJwt ==
  /\ pc = "exchange" /\ Goto("access") /\ NoFault
  /\ UNCHANGED <<files, cloud, device, session, missed, keys>>

\* and that for an access token.
GetAccessToken ==
  /\ pc = "access" /\ session' = TRUE /\ NoFault
  /\ g_config' = [g_config EXCEPT !.auth = TRUE] /\ Save("survey")
  /\ UNCHANGED <<files, cloud, device, missed, keys>>

-----------------------------------------------------------------------------
(* Key and certificate *)

\* The first valid certificate of the current name, else of the old one.
CloudCert == IF ValidCerts("auto") # {} THEN First(ValidCerts("auto"))
                                        ELSE First(ValidCerts("horpkg"))

\* Defect: a certificate in the cloud is kept although its key is lost.
Survey_KeepOrphan ==
  /\ pc = "survey"
  /\ \E c \in {CloudCert} :
       /\ found' = c
       /\ cert' = IF p12 # None /\ c # None THEN c ELSE g_config.cert_id
       /\ pc' = CASE p12 # None /\ c = None -> "csr"
                  [] p12 # None /\ c # None -> "fetch"
                  [] OTHER -> "keystore"
  /\ NoFault
  /\ UNCHANGED <<files, cloud, session, after, g_config, outcome, missed, keys, device>>

\* The four scenarios.  An error of the list is taken for "none".
Survey ==
  /\ pc = "survey"
  /\ \E c \in {CloudCert, None} :
       /\ found' = c
       /\ cert' = IF p12 # None /\ c # None THEN c ELSE g_config.cert_id
       /\ pc' = CASE p12 # None /\ c = None -> "csr"
                  [] p12 # None /\ c # None -> "fetch"
                  [] p12 = None /\ c # None -> "delete"
                  [] OTHER -> "keystore"
       /\ missed' = (missed \/ c # CloudCert)
       /\ IF c # CloudCert THEN Fault ELSE NoFault
  /\ UNCHANGED <<files, cloud, session, after, g_config, outcome, keys, device>>

\* Without its key the certificate is of no use.
DeleteCert ==
  /\ pc = "delete" /\ cloud' = [cloud EXCEPT ![found].valid = FALSE]
  /\ \/ Goto("keystore") /\ NoFault
     \/ End("none") /\ Fault
  /\ UNCHANGED <<files, session, missed, keys, device>>

GenerateKeystore ==
  /\ pc = "keystore" /\ keys' = keys + 1 /\ p12' = keys + 1
  /\ Goto("csr") /\ NoFault
  /\ UNCHANGED <<config, csr, cer, p7b, cloud, session, missed, device>>

GenerateCsr ==
  /\ pc = "csr" /\ csr' = p12 /\ Goto("request") /\ NoFault
  /\ UNCHANGED <<config, p12, cer, p7b, cloud, session, missed, keys, device>>

RequestCert ==
  /\ pc = "request"
  /\ cloud' = Append(cloud, [key |-> csr, valid |-> TRUE, name |-> "auto"])
  /\ \/ /\ cert' = Len(cloud') /\ pc' = "download" /\ NoFault
        /\ UNCHANGED <<after, g_config, found, outcome>>
     \/ End("none") /\ Fault
  /\ UNCHANGED <<files, session, missed, keys, device>>

\* Download of the certificate just issued.
DownloadCert ==
  /\ pc = "download" /\ cer' = cert /\ Goto("record") /\ NoFault
  /\ UNCHANGED <<config, p12, csr, p7b, cloud, session, missed, keys, device>>

\* Defect: a missing .cer is left missing.
FetchCert_Never ==
  /\ pc = "fetch" /\ Goto("remake") /\ NoFault
  /\ UNCHANGED <<files, cloud, session, missed, keys, device>>

\* Download of the cloud's certificate when there is no .cer; a failure
\* is only reported.
FetchCert ==
  /\ pc = "fetch" /\ Goto("remake")
  /\ \/ cer = None /\ cer' = found /\ NoFault
     \/ cer = None /\ UNCHANGED cer /\ Fault
     \/ cer # None /\ UNCHANGED cer /\ NoFault
  /\ UNCHANGED <<config, p12, csr, p7b, cloud, session, missed, keys, device>>

\* download_file has opened the file when the transfer breaks off; what a
\* web server answers instead of the file passes for the file.
TransferFails ==
  /\ Fault
  /\ \/ pc = "download" /\ cer' = Junk /\ UNCHANGED p7b /\ (End("none") \/ Goto("record"))
     \/ pc = "fetch" /\ cer = None /\ cer' = Junk /\ UNCHANGED p7b /\ Goto("remake")
     \/ pc = "provision" /\ p7b = None /\ p7b' = Junk /\ UNCHANGED cer /\ End("complete")
  /\ UNCHANGED <<config, p12, csr, cloud, session, missed, keys, device>>

\* A missing .csr is made again, or not.
RemakeCsr ==
  /\ pc = "remake" /\ Goto("record")
  /\ \/ csr' = (IF csr = None THEN p12 ELSE csr) /\ NoFault
     \/ csr = None /\ UNCHANGED csr /\ Fault
  /\ UNCHANGED <<config, p12, cer, p7b, cloud, session, missed, keys, device>>

RecordCertId ==
  /\ pc = "record" /\ g_config' = [g_config EXCEPT !.cert_id = cert] /\ Save("provision")
  /\ NoFault
  /\ UNCHANGED <<files, cloud, session, missed, keys, device>>

\* A profile for the devices of the account that lists the certificate.
MakeProfile ==
  /\ p7b = None
  /\ \/ p7b' = cert /\ NoFault
     \/ UNCHANGED p7b /\ Fault

\* signing_ensure_provision_for_bundle: a profile that is there is kept.
\* The run is complete whether or not there is one.
Provision ==
  /\ pc = "provision" /\ End("complete")
  /\ \/ p7b # None /\ UNCHANGED p7b /\ NoFault
     \/ MakeProfile
  /\ UNCHANGED <<config, p12, csr, cer, cloud, session, missed, keys, device>>

-----------------------------------------------------------------------------

\* Configuration and device, account, key and certificate, profile.
Prepare == Load \/ Connect \/ UuidKnown \/ StoreUuid \/ SaveOpen \/ SaveWrite
Authenticate == TokensAccepted \/ TokensRefused \/ Login \/ ExchangeTempForJwt \/ GetAccessToken
Certify == DeleteCert \/ GenerateKeystore \/ GenerateCsr \/ RequestCert \/ DownloadCert
Complete == FetchCert \/ RemakeCsr \/ RecordCertId \/ Provision

Step == Prepare \/ Authenticate \/ Survey \/ Certify \/ Complete

Next ==
  \/ Step \/ SaveFails \/ CallFails \/ TransferFails \/ Crash
  \/ LoseDirectory \/ SessionExpires \/ CertificateExpires \/ Unplug

\* The user runs init again and again, and a run goes on while it can.
Spec == Init /\ [][Next]_vars /\ WF_vars(Step)

-----------------------------------------------------------------------------
(* Properties *)

Certs == {c \in DOMAIN cloud : cloud[c].valid}

\* However runs fail, crash or repeat, and whatever answers are lost, the
\* account never has two valid certificates of this program (init would pick
\* either), unless the list failed while there was one.
OneCertificate == ~missed => \A c, d \in Certs : c = d

\* Between runs, what is on the device belongs to the certificate in the
\* cloud: its key, the .cer and the profile are absent, its own, or no
\* certificate at all.  A run that stopped half way never mixes two
\* generations (only the stored id may be old) as long as none expires.
FilesAgree ==
  pc = "idle" /\ ~missed /\ expiries = 0 =>
    \A c \in Certs :
      p12 \in {None, cloud[c].key} /\ cer \in {None, Junk, c} /\ p7b \in {None, Junk, c}

Ready ==
  \E c \in Certs : p12 = cloud[c].key /\ cer = c /\ p7b = c /\ config = Config(TRUE, TRUE, c)

\* Once nothing fails any more, running init again makes everything ready,
\* from whatever the failures, crashes and losses left behind; only what a
\* broken transfer or a renewed certificate left on the disk stays there.
InitConverges ==
  []<>(outcome = "complete"
       /\ (Ready \/ missed \/ expiries > 0 \/ Junk \in {cer, p7b}))

=============================================================================
