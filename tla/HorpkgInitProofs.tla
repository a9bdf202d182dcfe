-------------------------- MODULE HorpkgInitProofs --------------------------
(***************************************************************************)
(* Two safety properties of HorpkgInit, for any number of failures,        *)
(* crashes, lost directories and expired certificates: the account has one *)
(* valid certificate at most, and the files on the device are of the       *)
(* generation of this certificate.                                         *)
(***************************************************************************)
EXTENDS HorpkgInit, SequenceTheorems, TLAPS

Certificate == [key : Int, valid : BOOLEAN, name : {"auto", "horpkg"}]

\* What the types have to say: certificates, keys, and where a save goes on.
TypeInv ==
  /\ cloud \in Seq(Certificate)
  /\ csr \in Int /\ p12 \in Int /\ keys \in Int
  /\ missed \in BOOLEAN
  /\ after \in {"idle", "auth", "survey", "provision"}

\* Between the decision for a new certificate and its issue there is none,
\* and the one about to be deleted is the only one.
Single == \A c, d \in Certs : c = d
Bare   == pc \in {"keystore", "csr", "request"} => Certs = {}
Doomed == pc = "delete" => Certs \subseteq {found}

Inv == TypeInv /\ (~missed => Single /\ Bare /\ Doomed)

Critical == {"keystore", "csr", "request", "delete"}
-----------------------------------------------------------------------------
(* The certificates *)

\* Certificates are numbered as they are issued.
LEMMA CertsAreNumbers ==
  ASSUME TypeInv
  PROVE  /\ DOMAIN cloud = 1 .. Len(cloud) /\ Len(cloud) \in Nat
         /\ Certs \subseteq DOMAIN cloud /\ DOMAIN cloud \subseteq Int
         /\ \A name : ValidCerts(name) \subseteq Certs
         /\ Certs = ValidCerts("auto") \cup ValidCerts("horpkg")
<1>1. DOMAIN cloud = 1 .. Len(cloud) /\ Len(cloud) \in Nat
  BY DEF TypeInv
<1>2. \A c \in DOMAIN cloud : cloud[c] \in Certificate
  BY DEF TypeInv
<1>3. \A c \in DOMAIN cloud : cloud[c].name \in {"auto", "horpkg"}
  BY <1>2 DEF Certificate
<1> QED BY <1>1, <1>3 DEF Certs, ValidCerts

\* A certificate that is revoked or expires leaves the others as they are.
LEMMA RevokedIsGone ==
  ASSUME TypeInv, NEW STATE c, cloud' = [cloud EXCEPT ![c].valid = FALSE]
  PROVE  cloud' \in Seq(Certificate) /\ Certs' \subseteq Certs \ {c}
<1>1. CASE c \in DOMAIN cloud
  <2>1. cloud[c] \in Certificate
    BY <1>1 DEF TypeInv
  <2>2. [cloud[c] EXCEPT !.valid = FALSE] \in Certificate
    BY <2>1 DEF Certificate
  <2>3. cloud' = [cloud EXCEPT ![c] = [cloud[c] EXCEPT !.valid = FALSE]]
    OBVIOUS
  <2>4. cloud' \in Seq(Certificate)
    BY <1>1, <2>2, <2>3, ExceptSeq DEF TypeInv
  <2>5. \A d \in DOMAIN cloud : cloud'[d].valid = (IF d = c THEN FALSE ELSE cloud[d].valid)
    BY <1>1, <2>1, <2>3 DEF Certificate
  <2>6. DOMAIN cloud' = DOMAIN cloud
    BY <2>3
  <2> QED BY <2>4, <2>5, <2>6 DEF Certs
<1>2. CASE c \notin DOMAIN cloud
  <2>1. cloud' = cloud
    BY <1>2 DEF TypeInv
  <2> QED BY <1>2, <2>1 DEF Certs, TypeInv
<1> QED BY <1>1, <1>2

\* A certificate that is issued comes on top of those there are.
LEMMA IssuedIsNew ==
  ASSUME TypeInv, cloud' = Append(cloud, [key |-> csr, valid |-> TRUE, name |-> "auto"])
  PROVE  /\ cloud' \in Seq(Certificate)
         /\ Certs' = Certs \cup {Len(cloud')} /\ Len(cloud') = Len(cloud) + 1
         /\ cloud'[Len(cloud')].key = csr
         /\ \A c \in Certs : cloud'[c] = cloud[c]
<1> DEFINE new == [key |-> csr, valid |-> TRUE, name |-> "auto"]
<1>1. new \in Certificate
  BY DEF TypeInv, Certificate
<1>2. /\ cloud' \in Seq(Certificate) /\ Len(cloud') = Len(cloud) + 1
      /\ \A c \in 1 .. Len(cloud) : cloud'[c] = cloud[c]
      /\ cloud'[Len(cloud) + 1] = new
  BY <1>1, AppendProperties DEF TypeInv
<1>3. DOMAIN cloud' = DOMAIN cloud \cup {Len(cloud')} /\ Len(cloud') \notin DOMAIN cloud
  BY <1>2, CertsAreNumbers
<1> QED BY <1>2, <1>3, CertsAreNumbers DEF Certs

\* What Survey finds, when the list does not fail and there is one at most.
LEMMA SurveyFindsIt ==
  ASSUME TypeInv, Single
  PROVE  Certs = IF CloudCert = None THEN {} ELSE {CloudCert}
<1>1. ASSUME NEW S, S \subseteq Certs
      PROVE  S = IF First(S) = None THEN {} ELSE {First(S)}
  <2>1. CASE S = {}
    BY <2>1 DEF First
  <2>2. CASE S # {}
    <3>1. PICK c \in S : TRUE
      BY <2>2
    <3>2. S = {c} /\ c \in DOMAIN cloud
      BY <1>1, <3>1, CertsAreNumbers DEF Single
    <3>3. c \in 1 .. Len(cloud) /\ Len(cloud) \in Nat
      BY <3>2, CertsAreNumbers
    <3>4. First(S) = c
      BY <3>2, <3>3 DEF First
    <3> QED BY <3>2, <3>3, <3>4 DEF None
  <2> QED BY <2>1, <2>2
<1>2. /\ ValidCerts("auto") = IF First(ValidCerts("auto")) = None THEN {} ELSE {First(ValidCerts("auto"))}
      /\ ValidCerts("horpkg") = IF First(ValidCerts("horpkg")) = None THEN {}
                                ELSE {First(ValidCerts("horpkg"))}
  BY <1>1, CertsAreNumbers
<1>3. CASE ValidCerts("auto") # {}
  <2>1. CloudCert = First(ValidCerts("auto"))
    BY <1>3 DEF CloudCert
  <2>2. Certs = ValidCerts("auto")
    BY <1>3, CertsAreNumbers DEF Single
  <2> QED BY <1>2, <1>3, <2>1, <2>2
<1>4. CASE ValidCerts("auto") = {}
  BY <1>2, <1>4, CertsAreNumbers DEF CloudCert
<1> QED BY <1>3, <1>4
-----------------------------------------------------------------------------
(* One certificate *)

\* A step that touches neither the cloud nor the key, and decides nothing.
LEMMA Quiet ==
  ASSUME Inv, UNCHANGED <<cloud, csr, p12, keys, missed>>, pc' \notin Critical,
         after' \in {"idle", "auth", "survey", "provision"}
  PROVE  Inv'
BY DEF Inv, TypeInv, Single, Bare, Doomed, Certs, Critical

\* A new installation and an empty account.
LEMMA InitHolds == Init => Inv
<1> SUFFICES ASSUME Init PROVE Inv
  OBVIOUS
<1>1. Len(cloud) \in {0, 1} /\ cloud \in Seq(Certificate)
  <2>1. CASE cloud = <<>>
    BY <2>1
  <2>2. CASE cloud = <<[key |-> 1, valid |-> TRUE, name |-> "horpkg"]>>
    BY <2>2 DEF Certificate
  <2> QED BY <2>1, <2>2 DEF Init
<1>2. TypeInv
  <2>1. keys \in Int /\ p12 \in Int
    BY <1>1 DEF Init, None
  <2>2. csr \in Int
    BY <2>1 DEF Init, None
  <2> QED BY <1>1, <2>1, <2>2 DEF Init, TypeInv
<1>3. Single
  BY <1>1, <1>2, CertsAreNumbers DEF Single
<1>4. pc = "idle"
  BY DEF Init
<1> QED BY <1>2, <1>3, <1>4 DEF Inv, Bare, Doomed

\* A new key, or a request made for the key.
LEMMA KeysArePrepared ==
  ASSUME Inv, GenerateKeystore \/ GenerateCsr \/ RemakeCsr
  PROVE  Inv'
<1>1. CASE GenerateKeystore
  BY <1>1 DEF GenerateKeystore, Goto, locals, Inv, TypeInv, Single, Bare, Doomed, Certs
<1>2. CASE GenerateCsr
  BY <1>2 DEF GenerateCsr, Goto, locals, Inv, TypeInv, Single, Bare, Doomed, Certs
<1>3. CASE RemakeCsr
  BY <1>3 DEF RemakeCsr, Goto, locals, Inv, TypeInv, Single, Bare, Doomed, Certs
<1> QED BY <1>1, <1>2, <1>3

\* Everything is gone but the cloud.
LEMMA DirectoryIsLost ==
  ASSUME Inv, LoseDirectory
  PROVE  Inv'
BY DEF LoseDirectory, locals, None, Inv, TypeInv, Single, Bare, Doomed, Certs

\* The list of certificates decides what the run goes on to do.
LEMMA SurveyDecides ==
  ASSUME Inv, Survey
  PROVE  Inv'
<1>1. PICK c \in {CloudCert, None} :
        /\ found' = c
        /\ pc' = CASE p12 # None /\ c = None -> "csr"
                   [] p12 # None /\ c # None -> "fetch"
                   [] p12 = None /\ c # None -> "delete"
                   [] OTHER -> "keystore"
        /\ missed' = (missed \/ c # CloudCert)
  BY DEF Survey
<1>2. UNCHANGED <<cloud, p12, csr, keys, after>>
  BY DEF Survey, files
<1>3. TypeInv' /\ Certs' = Certs
  BY <1>1, <1>2 DEF Inv, TypeInv, Certs
<1>4. ASSUME ~missed' PROVE (Single /\ Bare /\ Doomed)'
  <2>1. ~missed /\ c = CloudCert
    BY <1>1, <1>4 DEF Inv, TypeInv
  <2>2. Certs = IF c = None THEN {} ELSE {c}
    BY <2>1, SurveyFindsIt DEF Inv
  <2>3. Single'
    BY <1>3, <2>1 DEF Inv, Single
  <2>4. c = None => pc' # "delete"
    BY <1>1
  <2>5. c # None => pc' \notin {"keystore", "csr", "request"}
    BY <1>1
  <2> QED BY <1>1, <1>3, <2>2, <2>3, <2>4, <2>5 DEF Bare, Doomed
<1> QED BY <1>3, <1>4 DEF Inv

\* The one step that removes a certificate, and the one that adds one.
LEMMA CertificateIsDeleted ==
  ASSUME Inv, DeleteCert
  PROVE  Inv'
<1>1. /\ cloud' = [cloud EXCEPT ![found].valid = FALSE]
      /\ UNCHANGED <<csr, p12, keys, missed>>
      /\ pc = "delete" /\ pc' \in {"keystore", "idle"} /\ after' \in {after, "idle"}
  BY DEF DeleteCert, files, Goto, End, locals
<1>2. cloud' \in Seq(Certificate) /\ Certs' \subseteq Certs \ {found}
  BY <1>1, RevokedIsGone DEF Inv
<1>3. TypeInv'
  BY <1>1, <1>2 DEF Inv, TypeInv
<1>4. ~missed' => Certs' = {}
  BY <1>1, <1>2 DEF Inv, Doomed
<1> QED BY <1>1, <1>3, <1>4 DEF Inv, Single, Bare, Doomed

LEMMA CertificateIsIssued ==
  ASSUME Inv, RequestCert
  PROVE  Inv'
<1>1. /\ cloud' = Append(cloud, [key |-> csr, valid |-> TRUE, name |-> "auto"])
      /\ UNCHANGED <<csr, p12, keys, missed>>
      /\ pc = "request" /\ pc' \in {"download", "idle"} /\ after' \in {after, "idle"}
  BY DEF RequestCert, files, End
<1>2. cloud' \in Seq(Certificate) /\ Certs' = Certs \cup {Len(cloud')}
  BY <1>1, IssuedIsNew DEF Inv
<1>3. TypeInv'
  BY <1>1, <1>2 DEF Inv, TypeInv
<1>4. ~missed' => Certs' = {Len(cloud')}
  BY <1>1, <1>2 DEF Inv, Bare
<1> QED BY <1>1, <1>3, <1>4 DEF Inv, Single, Bare, Doomed

\* A certificate that expires leaves fewer valid ones.
LEMMA CertificateIsOver ==
  ASSUME Inv, CertificateExpires
  PROVE  Inv'
<1>1. PICK c \in DOMAIN cloud : cloud' = [cloud EXCEPT ![c].valid = FALSE]
  BY DEF CertificateExpires
<1>2. UNCHANGED <<csr, p12, keys, missed, pc, after, found>>
  BY DEF CertificateExpires, files, locals
<1>3. cloud' \in Seq(Certificate) /\ Certs' \subseteq Certs
  BY <1>1, RevokedIsGone DEF Inv
<1> QED BY <1>2, <1>3 DEF Inv, TypeInv, Single, Bare, Doomed

\* All other steps.
LEMMA OtherStepsAreQuiet ==
  ASSUME Inv,
         \/ Prepare \/ Authenticate \/ DownloadCert \/ FetchCert \/ RecordCertId \/ Provision
         \/ SaveFails \/ CallFails \/ TransferFails \/ Crash \/ SessionExpires \/ Unplug
  PROVE  Inv'
<1> USE DEF files, locals, Critical
<1>1. CASE Load \/ Connect \/ UuidKnown
  BY <1>1, Quiet DEF Load, Connect, SetupConnect, UuidKnown, Goto, End, Inv, TypeInv
<1>2. CASE StoreUuid
  BY <1>2, Quiet DEF StoreUuid, Save, End, Inv, TypeInv
<1>3. CASE SaveOpen \/ SaveWrite \/ SaveFails
  BY <1>3, Quiet DEF SaveOpen, SaveWrite, SaveFails, Goto, End, Inv, TypeInv
<1>4. CASE TokensAccepted \/ TokensRefused \/ Login \/ ExchangeTempForJwt \/ GetAccessToken
  BY <1>4, Quiet DEF TokensAccepted, TokensRefused, Login, ExchangeTempForJwt, GetAccessToken,
       Goto, Save, Inv, TypeInv
<1>5. CASE DownloadCert \/ FetchCert \/ RecordCertId
  BY <1>5, Quiet DEF DownloadCert, FetchCert, RecordCertId, Goto, Save, Inv, TypeInv
<1>6. CASE Provision \/ TransferFails
  BY <1>6, Quiet DEF Provision, TransferFails, Goto, End, Inv, TypeInv
<1>7. CASE CallFails \/ Crash
  BY <1>7, Quiet DEF CallFails, Fails, Crash, End
<1>8. CASE SessionExpires \/ Unplug
  BY <1>8 DEF SessionExpires, Unplug, Inv, TypeInv, Single, Bare, Doomed, Certs
<1> QED BY <1>1, <1>2, <1>3, <1>4, <1>5, <1>6, <1>7, <1>8 DEF Prepare, Authenticate

\* Every other step leaves the account alone.
LEMMA NextKeepsInv == Inv /\ [Next]_vars => Inv'
<1> SUFFICES ASSUME Inv, [Next]_vars PROVE Inv'
  OBVIOUS
<1>1. CASE UNCHANGED vars
  BY <1>1 DEF vars, files, locals, Inv, TypeInv, Single, Bare, Doomed, Certs
<1>2. CASE Next
  BY <1>2, KeysArePrepared, DirectoryIsLost, SurveyDecides, CertificateIsDeleted,
     CertificateIsIssued, CertificateIsOver, OtherStepsAreQuiet
     DEF Next, Step, Certify, Complete
<1> QED BY <1>1, <1>2

\* For any number of failures, crashes, lost answers, lost directories and
\* expired certificates, the account never has two valid certificates, unless a
\* list that failed hid one from init (signing_get_cert_list_and_find).
THEOREM OnlyOneCertificate == Spec => []OneCertificate
<1>1. Inv => OneCertificate
  BY DEF Inv, Single, OneCertificate
<1> QED BY <1>1, InitHolds, NextKeepsInv, PTL DEF Spec
-----------------------------------------------------------------------------
(* The files *)

\* The run knows the certificate and has its key, also while it saves the id.
Working(label, next) ==
  \/ label \in {"download", "fetch", "remake", "record", "provision"}
  \/ label \in {"save", "write"} /\ next = "provision"

\* No key, no other file; and the request is made for the key.
KeyInv ==
  /\ p12 = None => csr = None /\ cer = None /\ p7b = None
  /\ csr \in {None, p12}
  /\ pc = "request" => csr = p12
  /\ pc \in {"keystore", "delete"} => p12 = None
  /\ pc \in {"csr", "request"} \/ Working(pc, after) => p12 # None

\* What the files have to do with the certificate, and the run with both.
GenerationInv ==
  /\ \A c \in Certs : p12 \in {None, cloud[c].key} /\ cer \in {None, Junk, c} /\ p7b \in {None, Junk, c}
  /\ Certs = {} => cer = None /\ p7b = None
  /\ Working(pc, after) => Certs = {cert}
  /\ pc = "fetch" => found = cert

FilesInv ==
  /\ keys \in Nat /\ expiries \in Nat
  /\ ~missed /\ expiries = 0 => KeyInv /\ GenerationInv

\* A step that leaves the files and the cloud alone and decides nothing.
LEMMA QuietForFiles ==
  ASSUME Inv, FilesInv, UNCHANGED <<cloud, csr, p12, cer, p7b, keys, missed, expiries>>,
         pc' \notin {"keystore", "delete", "csr", "request", "fetch"},
         Working(pc', after') => Working(pc, after) /\ cert' = cert
  PROVE  FilesInv'
<1>1. Certs' = Certs
  BY DEF Certs
<1>2. KeyInv => KeyInv'
  BY DEF KeyInv
<1>3. GenerationInv => GenerationInv'
  BY <1>1 DEF GenerationInv
<1> QED BY <1>2, <1>3 DEF FilesInv

\* The files, from here on: absent at first.
LEMMA InitHoldsForFiles == Init => FilesInv
<1> SUFFICES ASSUME Init PROVE FilesInv
  OBVIOUS
<1>1. keys \in Nat /\ expiries \in Nat
  BY DEF Init
<1>2. KeyInv
  BY DEF Init, KeyInv, Working
<1>3. GenerationInv
  <2>1. CASE cloud = <<>>
    BY <2>1 DEF Init, GenerationInv, Working, Certs, None
  <2>2. CASE cloud = <<[key |-> 1, valid |-> TRUE, name |-> "horpkg"]>>
    <3>1. Certs = {1} /\ cloud[1].key = 1 /\ Len(cloud) = 1
      BY <2>2 DEF Certs
    <3> QED BY <3>1 DEF Init, GenerationInv, Working, None
  <2> QED BY <2>1, <2>2 DEF Init
<1> QED BY <1>1, <1>2, <1>3 DEF FilesInv

\* A new key is made only when no certificate is left that needs the old one.
LEMMA KeyIsMade ==
  ASSUME Inv, FilesInv, GenerateKeystore
  PROVE  FilesInv'
<1>1. /\ pc = "keystore" /\ pc' = "csr" /\ keys' = keys + 1 /\ p12' = keys + 1
      /\ UNCHANGED <<cloud, csr, cer, p7b, missed, expiries, after, cert, found>>
  BY DEF GenerateKeystore, Goto, locals, NoFault, counts
<1>2. Certs' = Certs
  BY <1>1 DEF Certs
<1>3. p12' # None /\ keys' \in Nat
  BY <1>1 DEF FilesInv, None
<1>4. ASSUME ~missed, expiries = 0 PROVE (KeyInv /\ GenerationInv)'
  <2>1. Certs = {} /\ KeyInv /\ GenerationInv
    BY <1>1, <1>4 DEF Inv, Bare, FilesInv
  <2> QED BY <1>1, <1>2, <1>3, <2>1 DEF KeyInv, GenerationInv, Working
<1> QED BY <1>1, <1>3, <1>4 DEF FilesInv

\* A request is made from the key that is there.
LEMMA RequestIsMade ==
  ASSUME Inv, FilesInv, GenerateCsr \/ RemakeCsr
  PROVE  FilesInv'
<1>1. /\ UNCHANGED <<cloud, p12, cer, p7b, keys, missed, expiries, after, cert, found>>
      /\ csr' \in {csr, p12}
      /\ \/ pc = "csr" /\ pc' = "request" /\ csr' = p12
         \/ pc = "remake" /\ pc' = "record"
  BY DEF GenerateCsr, RemakeCsr, Goto, locals, Fault, NoFault, counts
<1>2. Certs' = Certs
  BY <1>1 DEF Certs
<1>3. KeyInv => KeyInv'
  BY <1>1 DEF KeyInv, Working
<1>4. GenerationInv => GenerationInv'
  BY <1>1, <1>2 DEF GenerationInv, Working
<1> QED BY <1>1, <1>3, <1>4 DEF FilesInv

\* Files that are gone contradict nothing.
LEMMA DirectoryIsLostForFiles ==
  ASSUME Inv, FilesInv, LoseDirectory
  PROVE  FilesInv'
<1>1. /\ pc = "idle" /\ p12' = None /\ csr' = None /\ cer' = None /\ p7b' = None
      /\ UNCHANGED <<cloud, pc, after, cert, found, keys, missed, expiries>>
  BY DEF LoseDirectory, locals
<1>2. Certs' = Certs
  BY <1>1 DEF Certs
<1> QED BY <1>1, <1>2 DEF FilesInv, KeyInv, GenerationInv, Working

\* What the list shows decides which files are kept.
LEMMA SurveyDecidesForFiles ==
  ASSUME Inv, FilesInv, Survey
  PROVE  FilesInv'
<1>1. PICK c \in {CloudCert, None} :
        /\ found' = c
        /\ cert' = IF p12 # None /\ c # None THEN c ELSE g_config.cert_id
        /\ pc' = CASE p12 # None /\ c = None -> "csr"
                   [] p12 # None /\ c # None -> "fetch"
                   [] p12 = None /\ c # None -> "delete"
                   [] OTHER -> "keystore"
        /\ missed' = (missed \/ c # CloudCert)
  BY DEF Survey
<1>2. UNCHANGED <<cloud, csr, p12, cer, p7b, keys, expiries, after>>
  BY DEF Survey, files, Fault, NoFault, counts
<1>3. Certs' = Certs
  BY <1>2 DEF Certs
<1>4. ASSUME ~missed', expiries' = 0 PROVE (KeyInv /\ GenerationInv)'
  <2>1. ~missed /\ c = CloudCert /\ KeyInv /\ GenerationInv
    BY <1>1, <1>2, <1>4 DEF Inv, TypeInv, FilesInv
  <2>2. Certs = IF c = None THEN {} ELSE {c}
    BY <2>1, SurveyFindsIt DEF Inv
  <2>3. /\ pc' \in {"csr", "fetch", "delete", "keystore"}
        /\ pc' \in {"delete", "keystore"} => p12 = None
        /\ pc' \in {"csr", "fetch"} => p12 # None
        /\ pc' = "fetch" => c # None /\ cert' = c
    BY <1>1
  <2>4. KeyInv'
    BY <1>2, <2>1, <2>3 DEF KeyInv, Working
  <2>5. GenerationInv'
    BY <1>1, <1>2, <1>3, <2>1, <2>2, <2>3 DEF GenerationInv, Working
  <2> QED BY <2>4, <2>5
<1> QED BY <1>2, <1>4 DEF FilesInv

\* After the deletion there is no certificate for files to contradict.
LEMMA CertificateIsDeletedForFiles ==
  ASSUME Inv, FilesInv, DeleteCert
  PROVE  FilesInv'
<1>1. /\ cloud' = [cloud EXCEPT ![found].valid = FALSE]
      /\ UNCHANGED <<csr, p12, cer, p7b, keys, missed, expiries>>
      /\ pc = "delete" /\ pc' \in {"keystore", "idle"}
  BY DEF DeleteCert, files, Goto, End, locals, Fault, NoFault, counts
<1>2. Certs' \subseteq Certs \ {found}
  BY <1>1, RevokedIsGone DEF Inv
<1>3. ASSUME ~missed, expiries = 0 PROVE (KeyInv /\ GenerationInv)'
  <2>1. Certs' = {} /\ KeyInv
    BY <1>1, <1>2, <1>3 DEF Inv, Doomed, FilesInv
  <2> QED BY <1>1, <2>1 DEF KeyInv, GenerationInv, Working
<1> QED BY <1>1, <1>3 DEF FilesInv

\* A certificate is issued for the request, hence for the key.
LEMMA CertificateIsIssuedForFiles ==
  ASSUME Inv, FilesInv, RequestCert
  PROVE  FilesInv'
<1>1. /\ cloud' = Append(cloud, [key |-> csr, valid |-> TRUE, name |-> "auto"])
      /\ UNCHANGED <<csr, p12, cer, p7b, keys, missed, expiries>>
      /\ pc = "request"
      /\ (pc' = "download" /\ cert' = Len(cloud')) \/ pc' = "idle"
  BY DEF RequestCert, files, End, Fault, NoFault, counts
<1>2. Certs' = Certs \cup {Len(cloud')} /\ cloud'[Len(cloud')].key = csr
  BY <1>1, IssuedIsNew DEF Inv
<1>3. ASSUME ~missed, expiries = 0 PROVE (KeyInv /\ GenerationInv)'
  <2>1. Certs = {} /\ KeyInv /\ GenerationInv
    BY <1>1, <1>3 DEF Inv, Bare, FilesInv
  <2>2. Certs' = {Len(cloud')} /\ cer = None /\ p7b = None /\ csr = p12
    BY <1>1, <1>2, <2>1 DEF KeyInv, GenerationInv
  <2>3. KeyInv'
    BY <1>1, <2>1 DEF KeyInv, Working
  <2>4. GenerationInv'
    BY <1>1, <1>2, <2>2 DEF GenerationInv, Working
  <2> QED BY <2>3, <2>4
<1> QED BY <1>1, <1>3 DEF FilesInv

\* A file of the certificate the run works on arrives, whole or broken.
LEMMA FileArrives ==
  ASSUME Inv, FilesInv, Working(pc, after), pc \notin {"save", "write"},
         UNCHANGED <<cloud, csr, p12, keys, missed, expiries>>,
         cer' \in {cer, cert, Junk}, p7b' \in {p7b, cert, Junk},
         pc' \in {"idle", "remake", "record"},
         pc' # "idle" => cert' = cert
  PROVE  FilesInv'
<1>1. Certs' = Certs
  BY DEF Certs
<1>2. ASSUME ~missed, expiries = 0 PROVE (KeyInv /\ GenerationInv)'
  <2>1. Certs = {cert} /\ KeyInv /\ GenerationInv
    BY <1>2 DEF FilesInv, GenerationInv
  <2>2. KeyInv'
    BY <2>1 DEF KeyInv, Working
  <2>3. GenerationInv'
    BY <1>1, <2>1 DEF GenerationInv, Working
  <2> QED BY <2>2, <2>3
<1> QED BY <1>2 DEF FilesInv

\* What arrives, whole or in part, belongs to the certificate asked for.
LEMMA DownloadsArrive ==
  ASSUME Inv, FilesInv, DownloadCert \/ FetchCert \/ Provision \/ TransferFails
  PROVE  FilesInv'
<1>1. CASE ~missed /\ expiries = 0
  <2>1. pc = "fetch" => found = cert
    BY <1>1 DEF FilesInv, GenerationInv
  <2>2. UNCHANGED <<cloud, csr, p12, keys, missed, expiries>>
    BY DEF DownloadCert, FetchCert, Provision, MakeProfile, TransferFails, Fault, NoFault, counts
  <2>3. pc \in {"download", "fetch", "provision"}
    BY DEF DownloadCert, FetchCert, Provision, TransferFails
  <2>4. pc' \in {"idle", "remake", "record"} /\ (pc' # "idle" => cert' = cert)
    BY DEF DownloadCert, FetchCert, Provision, TransferFails, Goto, End, locals
  <2>5. cer' \in {cer, cert, Junk} /\ p7b' \in {p7b, cert, Junk}
    BY <2>1 DEF DownloadCert, FetchCert, Provision, MakeProfile, TransferFails
  <2> QED BY <2>2, <2>3, <2>4, <2>5, FileArrives DEF Working
<1>2. CASE ~(~missed /\ expiries = 0)
  <2>1. UNCHANGED <<keys, missed, expiries>>
    BY DEF DownloadCert, FetchCert, Provision, MakeProfile, TransferFails, Fault, NoFault, counts
  <2> QED BY <1>2, <2>1 DEF FilesInv
<1> QED BY <1>1, <1>2

\* Every other step touches neither files nor certificates.
LEMMA OtherStepsAreQuietForFiles ==
  ASSUME Inv, FilesInv,
         \/ Prepare \/ Authenticate \/ RecordCertId
         \/ SaveFails \/ CallFails \/ Crash \/ SessionExpires \/ Unplug
  PROVE  FilesInv'
<1> USE DEF files, locals, counts, NoFault, Fault, Working
<1>1. CASE Load \/ Connect \/ UuidKnown
  BY <1>1, QuietForFiles DEF Load, Connect, SetupConnect, UuidKnown, Goto, End
<1>2. CASE StoreUuid
  BY <1>2, QuietForFiles DEF StoreUuid, Save, End
<1>3. CASE SaveOpen \/ SaveWrite \/ SaveFails
  BY <1>3, QuietForFiles DEF SaveOpen, SaveWrite, SaveFails, Goto, End, Inv, TypeInv
<1>4. CASE TokensAccepted \/ TokensRefused \/ Login \/ ExchangeTempForJwt \/ GetAccessToken
  BY <1>4, QuietForFiles DEF TokensAccepted, TokensRefused, Login, ExchangeTempForJwt, GetAccessToken,
       Goto, Save
<1>5. CASE RecordCertId
  BY <1>5, QuietForFiles DEF RecordCertId, Save
<1>6. CASE CallFails \/ Crash
  BY <1>6, QuietForFiles DEF CallFails, Fails, Crash, End
<1>7. CASE SessionExpires \/ Unplug
  <2>1. UNCHANGED <<files, cloud, pc, locals, missed, keys, expiries>>
    BY <1>7 DEF SessionExpires, Unplug
  <2>2. Certs' = Certs
    BY <2>1 DEF Certs
  <2> QED BY <2>1, <2>2 DEF FilesInv, KeyInv, GenerationInv
<1> QED BY <1>1, <1>2, <1>3, <1>4, <1>5, <1>6, <1>7 DEF Prepare, Authenticate

\* The steps together.
LEMMA NextKeepsFilesInv == Inv /\ FilesInv /\ [Next]_vars => FilesInv'
<1> SUFFICES ASSUME Inv, FilesInv, [Next]_vars PROVE FilesInv'
  OBVIOUS
<1>1. CASE UNCHANGED vars
  BY <1>1 DEF vars, files, locals, counts, FilesInv, KeyInv, GenerationInv, Working, Certs
<1>2. CASE CertificateExpires
  BY <1>2 DEF CertificateExpires, FilesInv
<1>3. CASE Next /\ ~CertificateExpires
  BY <1>3, KeyIsMade, RequestIsMade, DirectoryIsLostForFiles, SurveyDecidesForFiles,
     CertificateIsDeletedForFiles, CertificateIsIssuedForFiles, DownloadsArrive,
     OtherStepsAreQuietForFiles
     DEF Next, Step, Certify, Complete
<1> QED BY <1>1, <1>2, <1>3

\* However init runs end, and however often they are repeated, the files between
\* two runs are of the generation of the certificate in the cloud, as long as
\* none expires and the list hides none (cmd_init's four scenarios).
THEOREM FilesAreOfOneGeneration == Spec => []FilesAgree
<1>1. FilesInv => FilesAgree
  BY DEF FilesInv, GenerationInv, FilesAgree
<1> QED BY <1>1, InitHolds, NextKeepsInv, InitHoldsForFiles, NextKeepsFilesInv, PTL DEF Spec
=============================================================================
