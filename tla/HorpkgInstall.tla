--------------------------- MODULE HorpkgInstall ---------------------------
(***************************************************************************)
(* horpkg install (build-hnp/horpkg/src/cmd_install.c with hap_parser.c,   *)
(* hnp_utils.c, hdc.c and what it uses of auth.c and signing.c): a local   *)
(* HAP is normalised, signed with the profile of its bundle and installed  *)
(* with hdc-lite.                                                          *)
(*                                                                         *)
(* Profiles, work directories and the device outlive a run; the user runs  *)
(* install again and again, with any HAP, and init in between.  What is in *)
(* an archive is the set of HAPs its files come from.  The signed and the  *)
(* normalised HAP are removed at the end of every run, or written over.    *)
(***************************************************************************)
EXTENDS Integers, FiniteSets

CONSTANTS
  Haps,            \* [bundle, module, config, abis]: what is in a HAP; module and
                   \* config are the permissions module.json and config.json request
  OPEN_PERMS, ACL_AUTO, \* the permissions of either list of acl_whitelist.c
  Runtime,         \* the bundle org.horpkg.runtime
  NoBundle,        \* no bundleName, or two different ones
  Pids,            \* process numbers, which come round again
  MaxFaults,       \* calls that fail and crashes, over all runs
  MaxRenewals      \* certificates that init replaces

ASSUME InstallAssumption ==
  /\ Runtime # NoBundle
  /\ \A h \in Haps : "bundle" \in DOMAIN h /\ IsFiniteSet(h.abis)
  /\ MaxFaults \in Nat /\ MaxRenewals \in Nat

VARIABLES
  device,          \* bundle -> the HAP installed, or None
  profile,         \* bundle -> <bundle>.p7b: [cert, acl], None or Junk
  cer, cert_id,    \* certificate in horpkg.cer, certificate config.json names
  tokens, session, \* tokens in config.json, and whether they are accepted
  work, unpacked,  \* pid -> HAPs extracted in its work directory; HNPs unpacked there
  pc, hap, pin, pid,
  todo,            \* ABIs whose HNPs are still to be normalised
  package,         \* what is signed and installed: [files, mixed, lost]
  attempt,         \* of signing
  outcome,         \* of the last run: installed, failed or cancelled
  clean,           \* nothing has failed in this run
  used, recycled,  \* pids that have a work directory; this run found one
  faults

config == <<profile, cer, cert_id, tokens, session>>
dirs   == <<work, unpacked, used>>
given  == <<hap, pin>>
locals == <<pid, recycled, todo, package, attempt>>
vars == <<device, config, dirs, given, pc, locals, outcome, clean, faults>>

None == [state |-> "none"]
Junk == [state |-> "junk"]
Profile(cert, acl) == [state |-> "ok", cert |-> cert, acl |-> acl]
Bundles == {h.bundle : h \in Haps} \ {NoBundle}
NoHap == [bundle |-> NoBundle, module |-> {}, config |-> {}, abis |-> {}]
AsGiven(h) == [state |-> "ok", files |-> {h}, mixed |-> FALSE, lost |-> FALSE]

\* hap_parser_get_permissions: config.json counts when module.json requests none.
Permissions(h) == IF h.module # {} THEN h.module ELSE h.config

\* check_permission_type: open, granted to whoever asks for it, or not at all.
Restricted(h) == Permissions(h) \ (OPEN_PERMS \cup ACL_AUTO) # {}
Acl(h) == (Permissions(h) \ OPEN_PERMS) \cap ACL_AUTO

Init ==
  /\ device \in [Bundles -> {None}] \cup [Bundles -> {NoHap}]
  /\ profile = [b \in Bundles |-> None]
  /\ cer = 0 /\ cert_id = 0 /\ tokens = FALSE /\ session = FALSE
  /\ work = [p \in Pids |-> {}] /\ unpacked = {}
  /\ pc = "idle" /\ hap = NoHap /\ pin = FALSE /\ pid = 0 /\ used = {} /\ recycled = FALSE
  /\ todo = {} /\ package = None /\ attempt = 0
  /\ outcome = "none" /\ clean = TRUE /\ faults = 0

-----------------------------------------------------------------------------
(* Ends of a run, and what goes wrong *)

Fault == faults < MaxFaults /\ faults' = faults + 1 /\ clean' = FALSE
NoFault == UNCHANGED <<faults, clean>>

Goto(label) == pc' = label /\ UNCHANGED <<locals, outcome>>
End(result) ==
  /\ pc' = "idle" /\ pid' = 0 /\ recycled' = FALSE /\ todo' = {} /\ package' = None
  /\ attempt' = 0 /\ outcome' = result

\* A step that gives up and leaves everything outside as it is.
CallFails ==
  /\ pc \in {"session", "verify", "ready", "uninstall", "ensure", "hdc"}
  /\ Fault /\ End("failed") /\ UNCHANGED <<device, config, dirs, given>>

Crash ==
  /\ pc # "idle" /\ Fault /\ End("failed") /\ UNCHANGED <<device, config, dirs, given>>

\* The cloud forgets the session.
SessionExpires ==
  /\ session /\ session' = FALSE /\ faults < MaxFaults /\ faults' = faults + 1
  /\ UNCHANGED <<device, profile, cer, cert_id, tokens, dirs, given, pc, locals,
                 outcome, clean>>

\* init gets another certificate, whose id may not reach config.json, or
\* records the id of one it could not download.
Renew ==
  /\ pc = "idle" /\ cer < MaxRenewals
  /\ \/ cer' = cer + 1 /\ cert_id' = cer' /\ UNCHANGED faults
     \/ /\ faults < MaxFaults /\ faults' = faults + 1
        /\ \/ cer' = cer + 1 /\ UNCHANGED cert_id
           \/ cer = 0 /\ cert_id' = 1 /\ UNCHANGED cer
  /\ outcome' = "none"
  /\ UNCHANGED <<device, profile, tokens, session, dirs, given, pc, locals, clean>>

-----------------------------------------------------------------------------
(* Session and HAP *)

\* cmd_install: the device is the one that was initialised.
Run ==
  /\ pc = "idle"
  /\ hap' \in Haps /\ pin' \in {FALSE, hap'.bundle = Runtime} /\ pid' \in Pids
  /\ pc' = "session" /\ outcome' = "running" /\ clean' = TRUE
  /\ UNCHANGED <<device, config, dirs, recycled, todo, package, attempt, faults>>

\* auth_ensure_valid_session: the device list accepts the tokens,
SessionValid ==
  /\ pc = "session" /\ tokens /\ session /\ Goto("parse") /\ NoFault
  /\ UNCHANGED <<device, config, dirs, given>>

\* or the user logs in again.
Reauthenticate ==
  /\ pc = "session" /\ ~(tokens /\ session)
  /\ tokens' = TRUE /\ session' = TRUE
  /\ Goto(IF tokens THEN "verify" ELSE "parse") /\ NoFault
  /\ UNCHANGED <<device, profile, cer, cert_id, dirs, given>>

VerifySession ==
  /\ pc = "verify" /\ session /\ Goto("parse") /\ NoFault
  /\ UNCHANGED <<device, config, dirs, given>>

\* hap_parser_get_bundle_name, and the PIN for the reserved bundle.
ParseHap ==
  /\ pc = "parse" /\ NoFault
  /\ CASE hap.bundle = NoBundle -> End("failed")
       [] hap.bundle = Runtime  -> IF pin THEN Goto("ready") ELSE End("failed")
       [] OTHER                 -> Goto("normalise")
  /\ UNCHANGED <<device, config, dirs, given>>

\* signing_ensure_provision_for_bundle: a profile that is there is kept,
\* whatever it was made for; a new one names the stored certificate.
EnsureProfile(acl, label) ==
  \/ /\ profile[hap.bundle] # None /\ Goto(label) /\ NoFault
     /\ UNCHANGED profile
  \/ /\ profile[hap.bundle] = None /\ Goto(label) /\ NoFault
     /\ profile' = [profile EXCEPT ![hap.bundle] = Profile(cert_id, acl)]
  \/ /\ profile[hap.bundle] = None /\ Fault
     /\ profile' = [profile EXCEPT ![hap.bundle] = Junk]
     /\ Goto(label) \/ End("failed")

\* Defect: the runtime is not checked before the old one is removed.
EnsureRuntimeSigningReady_Blind ==
  /\ pc = "ready" /\ Goto("uninstall") /\ NoFault
  /\ UNCHANGED <<device, config, dirs, given>>

\* ensure_runtime_signing_ready: tokens, id and file of the certificate, and a
\* profile, for no permissions.
EnsureRuntimeSigningReady ==
  /\ pc = "ready"
  /\ IF ~tokens \/ cert_id = 0 \/ cer = 0
     THEN End("failed") /\ NoFault /\ UNCHANGED profile
     ELSE EnsureProfile({}, "uninstall")
  /\ UNCHANGED <<device, cer, cert_id, tokens, session, dirs, given>>

\* uninstall_runtime_bundle_if_installed fails when it is not installed.
UninstallRuntime ==
  /\ pc = "uninstall" /\ NoFault
  /\ IF device[Runtime] = None
     THEN End("failed") /\ UNCHANGED device
     ELSE Goto("normalise") /\ device' = [device EXCEPT ![Runtime] = None]
  /\ UNCHANGED <<config, dirs, given>>

-----------------------------------------------------------------------------
(* Normalisation of the HNPs in the HAP *)

\* Without restool and hnpcli, or when extracting fails, the HAP stays as it is.
NoTools ==
  /\ pc = "normalise" /\ package' = AsGiven(hap) /\ pc' = "sign" /\ NoFault
  /\ UNCHANGED <<device, config, dirs, given, pid, recycled, todo, attempt, outcome>>

\* Defect: all runs use one directory.
ExtractHap_Shared ==
  /\ pc = "normalise" /\ NoFault
  /\ work' = [p \in Pids |-> work[p] \cup {hap}]
  /\ package' = [AsGiven(hap) EXCEPT !.files = work'[pid]] /\ todo' = hap.abis
  /\ pc' = "hnp" /\ used' = used \cup {pid} /\ recycled' = (pid \in used)
  /\ UNCHANGED <<device, config, unpacked, given, pid, attempt, outcome>>

\* hnp_repack_hap extracts into hnp_repack_<pid>, which nobody removes.
ExtractHap ==
  /\ pc = "normalise" /\ NoFault
  /\ work' = [work EXCEPT ![pid] = @ \cup {hap}]
  /\ package' = [AsGiven(hap) EXCEPT !.files = work'[pid]] /\ todo' = hap.abis
  /\ pc' = "hnp" /\ used' = used \cup {pid} /\ recycled' = (pid \in used)
  /\ UNCHANGED <<device, config, unpacked, given, pid, attempt, outcome>>

\* The HNP of one ABI is unpacked, over the one of the ABI before, and packed
\* again; if that fails it stays as it is, or is gone when the new one cannot
\* be moved to its place.
NormaliseHnp ==
  /\ pc = "hnp"
  /\ \E abi \in todo : todo' = todo \ {abi}
  /\ unpacked' = unpacked \cup {pid}
  /\ \/ package' = [package EXCEPT !.mixed = @ \/ pid \in unpacked] /\ NoFault
     \/ UNCHANGED package /\ Fault
     \/ package' = [package EXCEPT !.lost = TRUE] /\ Fault
  /\ UNCHANGED <<device, config, work, used, given, pc, pid, recycled, attempt, outcome>>

\* restool and zip; the HAP stays as it is when one fails.
Repack ==
  /\ pc = "hnp" /\ todo = {} /\ pc' = "sign"
  /\ \/ UNCHANGED package /\ NoFault
     \/ package' = AsGiven(hap) /\ Fault
  /\ UNCHANGED <<device, config, dirs, given, pid, recycled, todo, attempt, outcome>>

-----------------------------------------------------------------------------
(* Signing and installation *)

\* sign_hap: tokens, certificate and permissions.
SignHap ==
  /\ pc = "sign" /\ NoFault
  /\ IF ~tokens \/ cert_id = 0 \/ Restricted(hap) THEN End("failed") ELSE Goto("ensure")
  /\ UNCHANGED <<device, config, dirs, given>>

EnsureProvision ==
  /\ pc = "ensure" /\ EnsureProfile(Acl(hap), "tool")
  /\ UNCHANGED <<device, cer, cert_id, tokens, session, dirs, given>>

\* hapsigntool wants a profile that lists the certificate.
ProfileFits == profile[hap.bundle].state = "ok" /\ profile[hap.bundle].cert = cer

HapSignTool ==
  /\ pc = "tool" /\ cer # 0 /\ ProfileFits /\ Goto("hdc") /\ NoFault
  /\ UNCHANGED <<device, config, dirs, given>>

\* Defect: the profile that did not fit is tried again.
SigningFails_Keep ==
  /\ pc = "tool" /\ cer # 0
  /\ IF ProfileFits THEN Fault ELSE NoFault
  /\ IF attempt = 0
     THEN attempt' = 1 /\ pc' = "ensure" /\ UNCHANGED <<pid, recycled, todo, package, outcome>>
     ELSE End("failed")
  /\ UNCHANGED <<device, config, dirs, given>>

\* The first failure deletes the profile and tries again.
SigningFails ==
  /\ pc = "tool" /\ cer # 0
  /\ IF ProfileFits THEN Fault ELSE NoFault
  /\ IF attempt = 0
     THEN /\ profile' = [profile EXCEPT ![hap.bundle] = None]
          /\ attempt' = 1 /\ pc' = "ensure" /\ UNCHANGED <<pid, recycled, todo, package, outcome>>
     ELSE End("failed") /\ UNCHANGED profile
  /\ UNCHANGED <<device, cer, cert_id, tokens, session, dirs, given>>

NoCertificate ==
  /\ pc = "tool" /\ cer = 0 /\ End("failed") /\ NoFault
  /\ UNCHANGED <<device, config, dirs, given>>

\* local_install_prompt, when the bundle is installed.
Cancel ==
  /\ pc = "hdc" /\ device[hap.bundle] # None /\ End("cancelled") /\ NoFault
  /\ UNCHANGED <<device, config, dirs, given>>

\* The device takes the package if its profile allows what it asks for.
\* A line with "error" in it passes for a failure.
HdcInstall ==
  /\ pc = "hdc" /\ Acl(hap) \subseteq profile[hap.bundle].acl
  /\ device' = [device EXCEPT ![hap.bundle] = hap]
  /\ \/ End("installed") /\ NoFault
     \/ End("failed") /\ Fault
  /\ UNCHANGED <<config, dirs, given>>

HdcRefuses ==
  /\ pc = "hdc" /\ ~(Acl(hap) \subseteq profile[hap.bundle].acl)
  /\ End("failed") /\ NoFault
  /\ UNCHANGED <<device, config, dirs, given>>

-----------------------------------------------------------------------------

Prepare == SessionValid \/ Reauthenticate \/ VerifySession \/ ParseHap
Reserved == EnsureRuntimeSigningReady \/ UninstallRuntime
Normalise == NoTools \/ ExtractHap \/ NormaliseHnp \/ Repack
Sign == SignHap \/ EnsureProvision \/ HapSignTool \/ SigningFails \/ NoCertificate
Install == Cancel \/ HdcInstall \/ HdcRefuses

Next ==
  \/ Run \/ Prepare \/ Reserved \/ Normalise \/ Sign \/ Install
  \/ CallFails \/ Crash \/ SessionExpires \/ Renew

Spec == Init /\ [][Next]_vars

-----------------------------------------------------------------------------
(* Properties *)

\* Whatever earlier runs and renewals left behind, a run in which nothing
\* fails installs the HAP, unless it cannot: the HAP or the PIN is not
\* accepted, init has not done its work, the runtime is not there to be
\* removed, or the profile was made for a HAP with fewer permissions, which
\* nothing repairs.  A broken or outdated profile is replaced in the run.
\* A run that removed the runtime fails for no other reason either.
CleanRunsInstall ==
  [][outcome = "running" /\ outcome' = "failed" /\ clean' =>
       \/ hap.bundle = NoBundle \/ Restricted(hap)
       \/ cer = 0 \/ cert_id # cer
       \/ hap.bundle = Runtime /\ (~pin \/ (pc = "uninstall" /\ device[Runtime] = None))
       \/ profile[hap.bundle].state = "ok" /\ ~(Acl(hap) \subseteq profile[hap.bundle].acl)]_vars

\* What is to be installed has no files of another HAP, and no HNP has files of
\* another ABI, unless the number of its process had been used before (the
\* work directory of the earlier one is still there) or it has several ABIs.
\* An HNP of it is missing only when a call failed in this run.
OwnFiles ==
  pc = "hdc" =>
    /\ \/ package.files = {hap} /\ (package.mixed => Cardinality(hap.abis) > 1)
       \/ recycled
    /\ package.lost => ~clean

\* An app is never removed or replaced by another one, however a run ends.
\* Only the runtime is removed: on the PIN, and when the run has found tokens,
\* a certificate, its id and a profile.  Whether these fit each other shows
\* only afterwards.
AppsKept ==
  [][\A b \in Bundles : device[b] # None /\ device'[b] # device[b] =>
       \/ device'[b] # None /\ device'[b] = hap /\ hap.bundle = b
       \/ b = Runtime /\ pin /\ tokens /\ cert_id # 0 /\ cer # 0 /\ profile[b] # None]_vars
=============================================================================
