------------------------ MODULE HorpkgInstallProofs ------------------------
(***************************************************************************)
(* The three safety properties of HorpkgInstall, for any HAPs, any lists   *)
(* of permissions, any number of processes, failures and renewals.         *)
(***************************************************************************)
EXTENDS HorpkgInstall, FiniteSetTheorems, TLAPS

\* A run with a HAP whose bundle is known.
Known == {"normalise", "hnp", "sign", "ensure", "tool", "hdc"}
Packed == {"hnp", "sign", "ensure", "tool", "hdc"}
Packages == [state : {"ok"}, files : SUBSET Haps, mixed : BOOLEAN, lost : BOOLEAN]

TypeInv ==
  /\ DOMAIN profile = Bundles /\ DOMAIN device = Bundles
  /\ clean \in BOOLEAN /\ recycled \in BOOLEAN
  /\ work \in [Pids -> SUBSET Haps]
  /\ pc # "idle" => hap \in Haps /\ pid \in Pids /\ outcome = "running"
  /\ pc \in Known => hap.bundle \in Bundles
  /\ pc \in {"ready", "uninstall"} => hap.bundle = Runtime /\ pin
  /\ pc \in Packed => package \in Packages

\* The runtime is removed only when there is what a new one is signed with.
RuntimeInv ==
  pc = "uninstall" => tokens /\ cert_id # 0 /\ cer # 0 /\ profile[Runtime] # None

\* What a package is made of, and which ABIs of its HAP have been unpacked.
IsPure == package.files = {hap} /\ (package.mixed => Cardinality(hap.abis) > 1)
DirsInv ==
  /\ \A p \in Pids \ used : work[p] = {} /\ p \notin unpacked
  /\ pc \in Packed /\ ~recycled => IsPure
  /\ pc \in Packed /\ package.lost => ~clean
  /\ pc = "hnp" => pid \in used
  /\ pc = "hnp" /\ ~recycled =>
       todo \subseteq hap.abis /\ (pid \in unpacked => todo # hap.abis)

\* The reasons for which a run in which nothing fails ends without success,
\* and what such a run knows about the profile it made.
Excused ==
  \/ hap.bundle = NoBundle \/ Restricted(hap)
  \/ cer = 0 \/ cert_id # cer
  \/ hap.bundle = Runtime /\ (~pin \/ (pc = "uninstall" /\ device[Runtime] = None))
  \/ profile[hap.bundle].state = "ok" /\ ~(Acl(hap) \subseteq profile[hap.bundle].acl)
CleanInv ==
  /\ pc \notin {"idle", "session"} => tokens
  /\ pc \notin {"ensure", "tool", "hdc"} => attempt = 0
  /\ attempt \in {0, 1}
  /\ clean /\ attempt = 1 /\ pc = "ensure" => profile[hap.bundle] = None
  /\ clean /\ attempt = 1 /\ pc = "tool" =>
       profile[hap.bundle].state = "ok" /\ profile[hap.bundle].cert = cert_id
  /\ pc = "hdc" => profile[hap.bundle].state = "ok"
-----------------------------------------------------------------------------
(* Types *)

\* What the assumption says of the bundles, ABIs and package of a HAP.
LEMMA HapFacts ==
  /\ \A h \in Haps : h # None /\ (h.bundle # NoBundle => h.bundle \in Bundles)
  /\ \A h \in Haps : IsFiniteSet(h.abis)
  /\ \A h \in Haps : AsGiven(h) \in Packages
<1>1. \A h \in Haps : h # None
  <2>1. DOMAIN None = {"state"}
    BY DEF None
  <2> QED BY <2>1, InstallAssumption
<1> QED BY <1>1, InstallAssumption DEF Bundles, AsGiven, Packages

\* TypeInv holds in the initial states,
LEMMA TypesHoldAtFirst == Init => TypeInv
<1> SUFFICES ASSUME Init PROVE TypeInv
  OBVIOUS
<1>1. DOMAIN device = Bundles
  BY DEF Init
<1> QED BY <1>1 DEF Init, TypeInv, Known, Packed

\* EnsureProfile goes on or gives up; it leaves a profile, and one that is there.
LEMMA ProfileEnsured ==
  ASSUME NEW STATE acl, NEW STATE label, EnsureProfile(acl, label), TypeInv
  PROVE  /\ DOMAIN profile' = Bundles /\ clean' \in BOOLEAN
         /\ Goto(label) \/ End("failed")
         /\ hap.bundle \in Bundles /\ Goto(label) => profile'[hap.bundle] # None
         /\ profile[hap.bundle] # None => profile' = profile
<1>1. DOMAIN profile = Bundles /\ clean \in BOOLEAN
  BY DEF TypeInv
<1>2. Profile(cert_id, acl) # None /\ Junk # None
  BY DEF Profile, None, Junk
<1> QED BY <1>1, <1>2 DEF EnsureProfile, Fault, NoFault

\* and every step keeps it.
LEMMA TypesAreKept == TypeInv /\ [Next]_vars => TypeInv'
<1> SUFFICES ASSUME TypeInv, [Next]_vars PROVE TypeInv'
  OBVIOUS
<1> USE DEF TypeInv, Known, Packed, config, dirs, given, locals, Goto, End, Fault, NoFault
<1>1. CASE UNCHANGED vars
  BY <1>1 DEF vars
<1>2. CASE Run \/ Renew \/ SessionExpires \/ Crash \/ CallFails
  BY <1>2, HapFacts DEF Run, Renew, SessionExpires, Crash, CallFails
<1>3. CASE SessionValid \/ Reauthenticate \/ VerifySession
  BY <1>3 DEF SessionValid, Reauthenticate, VerifySession
<1>4. CASE ParseHap
  BY <1>4, HapFacts DEF ParseHap
<1>5. CASE EnsureRuntimeSigningReady \/ EnsureProvision
  <2>1. /\ UNCHANGED <<device, dirs, given>>
        /\ DOMAIN profile' = Bundles /\ clean' \in BOOLEAN
    BY <1>5, ProfileEnsured DEF EnsureRuntimeSigningReady, EnsureProvision
  <2>2. \/ End("failed")
        \/ pc = "ready" /\ Goto("uninstall")
        \/ pc = "ensure" /\ Goto("tool")
    BY <1>5, ProfileEnsured DEF EnsureRuntimeSigningReady, EnsureProvision
  <2>3. CASE End("failed")
    BY <2>1, <2>3
  <2>4. CASE pc = "ready" /\ Goto("uninstall")
    BY <2>1, <2>4
  <2>5. CASE pc = "ensure" /\ Goto("tool")
    BY <2>1, <2>5
  <2> QED BY <2>2, <2>3, <2>4, <2>5
<1>6. CASE UninstallRuntime
  BY <1>6, HapFacts, InstallAssumption DEF UninstallRuntime
<1>7. CASE NoTools \/ Repack
  <2>1. hap \in Haps /\ AsGiven(hap) \in Packages
    BY <1>7, HapFacts DEF NoTools, Repack
  <2>2. CASE NoTools
    BY <2>1, <2>2 DEF NoTools
  <2>3. CASE Repack
    BY <2>1, <2>3 DEF Repack
  <2> QED BY <1>7, <2>2, <2>3
<1>8. CASE ExtractHap
  <2>1. work' \in [Pids -> SUBSET Haps] /\ work'[pid] \in SUBSET Haps
    BY <1>8 DEF ExtractHap
  <2>2. package' \in Packages
    BY <2>1, <1>8 DEF ExtractHap, AsGiven, Packages
  <2> QED BY <1>8, <2>1, <2>2 DEF ExtractHap
<1>9. CASE NormaliseHnp
  BY <1>9 DEF NormaliseHnp, Packages
<1>10. CASE SignHap \/ HapSignTool \/ SigningFails \/ NoCertificate
  BY <1>10 DEF SignHap, HapSignTool, SigningFails, NoCertificate
<1>11. CASE Install
  BY <1>11 DEF Install, Cancel, HdcInstall, HdcRefuses
<1> QED BY <1>1, <1>2, <1>3, <1>4, <1>5, <1>6, <1>7, <1>8, <1>9, <1>10, <1>11
        DEF Next, Prepare, Reserved, Normalise, Sign

\* Type correctness: whenever a step uses the HAP, its process number, its
\* profile or the package, there is one.
THEOREM TypeOkInv == Spec => []TypeInv
<1> QED BY TypesHoldAtFirst, TypesAreKept, PTL DEF Spec
-----------------------------------------------------------------------------
(* The device *)

\* Between the check of the runtime and its removal nothing touches its profile.
LEMMA RuntimeIsKept == TypeInv /\ RuntimeInv /\ [Next]_vars => RuntimeInv'
<1> SUFFICES ASSUME TypeInv, RuntimeInv, [Next]_vars, pc' = "uninstall"
             PROVE  tokens' /\ cert_id' # 0 /\ cer' # 0 /\ profile'[Runtime] # None
  BY DEF RuntimeInv
<1> USE DEF config, dirs, given, locals, Goto, End, NoFault
<1>1. CASE UNCHANGED vars \/ SessionExpires
  BY <1>1 DEF vars, SessionExpires, RuntimeInv
<1>2. CASE EnsureRuntimeSigningReady
  <2>1. /\ tokens /\ cert_id # 0 /\ cer # 0 /\ UNCHANGED <<tokens, cert_id, cer>>
        /\ hap.bundle = Runtime /\ hap.bundle \in Bundles
    BY <1>2, HapFacts, InstallAssumption DEF EnsureRuntimeSigningReady, TypeInv
  <2>2. Goto("uninstall") /\ EnsureProfile({}, "uninstall")
    BY <1>2, <2>1, ProfileEnsured DEF EnsureRuntimeSigningReady
  <2>3. hap.bundle = Runtime /\ profile'[hap.bundle] # None
    BY <2>1, <2>2, ProfileEnsured
  <2> QED BY <2>1, <2>3
<1>3. pc' # "uninstall" \/ UNCHANGED vars \/ SessionExpires \/ EnsureRuntimeSigningReady
  <2>1. CASE Run \/ Renew \/ Crash \/ CallFails
    BY <2>1 DEF Run, Renew, Crash, CallFails
  <2>2. CASE Prepare \/ UninstallRuntime
    BY <2>2 DEF Prepare, SessionValid, Reauthenticate, VerifySession, ParseHap, UninstallRuntime
  <2>3. CASE Normalise
    BY <2>3 DEF Normalise, NoTools, ExtractHap, NormaliseHnp, Repack
  <2>4. CASE EnsureProvision
    BY <2>4, ProfileEnsured DEF EnsureProvision
  <2>5. CASE SignHap \/ HapSignTool \/ SigningFails \/ NoCertificate
    BY <2>5 DEF SignHap, HapSignTool, SigningFails, NoCertificate
  <2>6. CASE Install
    BY <2>6 DEF Install, Cancel, HdcInstall, HdcRefuses
  <2> QED BY <2>1, <2>2, <2>3, <2>4, <2>5, <2>6 DEF Next, Reserved, Sign
<1> QED BY <1>1, <1>2, <1>3

\* What a step does to the apps, and when it removes the runtime.
LEMMA StepsKeepApps ==
  ASSUME TypeInv, RuntimeInv, Next
  PROVE  \A b \in Bundles : device[b] # None /\ device'[b] # device[b] =>
           \/ device'[b] # None /\ device'[b] = hap /\ hap.bundle = b
           \/ b = Runtime /\ pin /\ tokens /\ cert_id # 0 /\ cer # 0 /\ profile[b] # None
<1> USE DEF config, dirs, given, locals
<1>1. CASE UninstallRuntime
  BY <1>1 DEF UninstallRuntime, TypeInv, RuntimeInv
<1>2. CASE HdcInstall
  <2>1. hap \in Haps /\ hap # None
    BY <1>2, HapFacts DEF HdcInstall, TypeInv
  <2> QED BY <1>2, <2>1 DEF HdcInstall, TypeInv
<1>3. UninstallRuntime \/ HdcInstall \/ UNCHANGED device
  <2>1. CASE Run \/ Renew \/ Crash \/ CallFails \/ SessionExpires
    BY <2>1 DEF Run, Renew, Crash, CallFails, SessionExpires
  <2>2. CASE Prepare
    BY <2>2 DEF Prepare, SessionValid, Reauthenticate, VerifySession, ParseHap
  <2>3. CASE Normalise
    BY <2>3 DEF Normalise, NoTools, ExtractHap, NormaliseHnp, Repack
  <2>4. CASE EnsureRuntimeSigningReady \/ EnsureProvision
    BY <2>4 DEF EnsureRuntimeSigningReady, EnsureProvision
  <2>5. CASE SignHap \/ HapSignTool \/ SigningFails \/ NoCertificate
    BY <2>5 DEF SignHap, HapSignTool, SigningFails, NoCertificate
  <2>6. CASE Cancel \/ HdcRefuses
    BY <2>6 DEF Cancel, HdcRefuses
  <2> QED BY <2>1, <2>2, <2>3, <2>4, <2>5, <2>6 DEF Next, Reserved, Sign, Install
<1> QED BY <1>1, <1>2, <1>3

\* No app is removed or replaced by another one; the runtime is removed only on
\* the PIN and when there are tokens, a certificate, its id and a profile.
THEOREM NoAppIsLost == Spec => AppsKept
<1> DEFINE Kept ==
      \A b \in Bundles : device[b] # None /\ device'[b] # device[b] =>
        \/ device'[b] # None /\ device'[b] = hap /\ hap.bundle = b
        \/ b = Runtime /\ pin /\ tokens /\ cert_id # 0 /\ cer # 0 /\ profile[b] # None
<1>1. Init => TypeInv /\ RuntimeInv
  BY TypesHoldAtFirst DEF Init, RuntimeInv
<1>2. TypeInv /\ RuntimeInv /\ [Next]_vars => [Kept]_vars
  <2> SUFFICES ASSUME TypeInv, RuntimeInv, Next PROVE Kept
    OBVIOUS
  <2> QED BY StepsKeepApps
<1>3. TypeInv /\ RuntimeInv /\ [Next]_vars => TypeInv' /\ RuntimeInv'
  BY TypesAreKept, RuntimeIsKept
<1> QED BY <1>1, <1>2, <1>3, PTL DEF Spec, AppsKept
-----------------------------------------------------------------------------
(* Work directories *)

\* A finite set with two different elements has more than one.
LEMMA TwoElements ==
  ASSUME NEW S, IsFiniteSet(S), NEW a \in S, NEW b \in S, a # b
  PROVE  Cardinality(S) > 1
<1>1. IsFiniteSet({a}) /\ Cardinality({a}) = 1
  BY FS_Singleton
<1>2. Cardinality(S) \in Nat /\ Cardinality(S) >= 1 /\ Cardinality(S) # 1
  BY <1>1, FS_CardinalityType, FS_Subset, {a} \in SUBSET S, {a} # S
<1> QED BY <1>2

\* Every step keeps what is known of the work directories.
LEMMA DirsAreKept == TypeInv /\ DirsInv /\ [Next]_vars => DirsInv'
<1> SUFFICES ASSUME TypeInv, DirsInv, [Next]_vars PROVE DirsInv'
  OBVIOUS
<1> USE DEF DirsInv, IsPure, Packed, config, dirs, given, locals, Goto, End, Fault, NoFault
<1>1. CASE UNCHANGED vars
  BY <1>1 DEF vars
<1>2. CASE Run \/ Renew \/ Crash \/ CallFails \/ SessionExpires
  <2>1. CASE Run \/ Renew
    BY <2>1 DEF Run, Renew
  <2>2. CASE Crash \/ CallFails
    BY <2>2 DEF Crash, CallFails
  <2>3. CASE SessionExpires
    BY <2>3 DEF SessionExpires
  <2> QED BY <1>2, <2>1, <2>2, <2>3
<1>3. CASE Prepare \/ UninstallRuntime
  BY <1>3 DEF Prepare, SessionValid, Reauthenticate, VerifySession, ParseHap, UninstallRuntime
<1>4. CASE NoTools
  BY <1>4 DEF NoTools, AsGiven
<1>5. CASE ExtractHap
  <2>1. pid \in Pids /\ hap \in Haps /\ work \in [Pids -> SUBSET Haps]
    BY <1>5 DEF ExtractHap, TypeInv
  <2>2. /\ pid \in used' /\ used \subseteq used' /\ todo' = hap.abis
        /\ \A p \in Pids \ {pid} : work'[p] = work[p]
    BY <1>5, <2>1 DEF ExtractHap
  <2>3. ~recycled' => work'[pid] = {hap} /\ pid \notin unpacked'
    BY <1>5, <2>1 DEF ExtractHap
  <2>4. package'.files = work'[pid] /\ package'.mixed = FALSE /\ package'.lost = FALSE
    BY <1>5, <2>1 DEF ExtractHap, AsGiven
  <2> QED BY <1>5, <2>1, <2>2, <2>3, <2>4 DEF ExtractHap
<1>6. CASE NormaliseHnp
  <2>1. hap \in Haps /\ package \in Packages /\ IsFiniteSet(hap.abis)
    BY <1>6, HapFacts DEF NormaliseHnp, TypeInv
  <2>2. PICK abi \in todo : todo' = todo \ {abi}
    BY <1>6 DEF NormaliseHnp
  <2>3. pid \in used /\ pid \in unpacked' /\ unpacked' = unpacked \cup {pid}
    BY <1>6 DEF NormaliseHnp
  <2>4. ASSUME ~recycled, pid \in unpacked PROVE Cardinality(hap.abis) > 1
    <3>1. abi \in hap.abis /\ \E other \in hap.abis : other \notin todo
      BY <1>6, <2>2, <2>4 DEF NormaliseHnp
    <3> QED BY <2>1, <2>2, <3>1, TwoElements
  <2>5. /\ package'.files = package.files
        /\ package'.mixed => package.mixed \/ pid \in unpacked
    BY <1>6, <2>1 DEF NormaliseHnp, Packages
  <2>6. ~recycled => todo' \subseteq hap.abis /\ todo' # hap.abis
    BY <1>6, <2>2 DEF NormaliseHnp
  <2>7. UNCHANGED <<work, used, hap, pc, pid, recycled>>
    BY <1>6 DEF NormaliseHnp
  <2>8. ~recycled => IsPure'
    BY <1>6, <2>4, <2>5, <2>7 DEF NormaliseHnp
  <2>9. package'.lost => ~clean'
    BY <1>6, <2>1 DEF NormaliseHnp, Packages, TypeInv
  <2> HIDE DEF IsPure
  <2> QED BY <2>3, <2>6, <2>7, <2>8, <2>9
<1>7. CASE Repack
  BY <1>7 DEF Repack, AsGiven
<1>8. CASE EnsureRuntimeSigningReady \/ EnsureProvision
  <2>1. UNCHANGED <<dirs, given>>
    BY <1>8 DEF EnsureRuntimeSigningReady, EnsureProvision
  <2>2. \/ pc' \notin Packed
        \/ pc = "ensure" /\ Goto("tool") /\ (clean' => clean)
    BY <1>8, ProfileEnsured DEF EnsureRuntimeSigningReady, EnsureProvision, EnsureProfile
  <2>3. CASE pc' \notin Packed
    BY <2>1, <2>3
  <2>4. CASE pc = "ensure" /\ Goto("tool") /\ (clean' => clean)
    BY <2>1, <2>4
  <2> QED BY <2>2, <2>3, <2>4
<1>9. CASE SignHap \/ HapSignTool \/ SigningFails \/ NoCertificate
  BY <1>9 DEF SignHap, HapSignTool, SigningFails, NoCertificate
<1>10. CASE Install
  BY <1>10 DEF Install, Cancel, HdcInstall, HdcRefuses
<1> QED BY <1>1, <1>2, <1>3, <1>4, <1>5, <1>6, <1>7, <1>8, <1>9, <1>10
        DEF Next, Reserved, Normalise, Sign

\* What is installed holds the files of its HAP only, and no HNP those of two
\* ABIs, but for a process number used before and a HAP with several ABIs.
THEOREM PackagesArePure == Spec => []OwnFiles
<1>1. Init => TypeInv /\ DirsInv
  BY TypesHoldAtFirst DEF Init, DirsInv, Packed
<1>2. TypeInv /\ DirsInv => OwnFiles
  BY DEF TypeInv, DirsInv, IsPure, Packed, OwnFiles
<1> QED BY <1>1, <1>2, TypesAreKept, DirsAreKept, PTL DEF Spec
-----------------------------------------------------------------------------
(* Runs in which nothing fails *)

\* Every step keeps what a run in which nothing failed knows.
LEMMA CleanInvIsKept == TypeInv /\ CleanInv /\ [Next]_vars => CleanInv'
<1> SUFFICES ASSUME TypeInv, CleanInv, [Next]_vars PROVE CleanInv'
  OBVIOUS
<1> USE DEF CleanInv, config, dirs, given, locals, Goto, End, NoFault
<1>1. CASE UNCHANGED vars \/ SessionExpires
  BY <1>1 DEF vars, SessionExpires, Excused
<1>2. CASE Run \/ Renew
  BY <1>2 DEF Run, Renew, TypeInv
<1>3. CASE Crash \/ CallFails
  BY <1>3 DEF Crash, CallFails, Fault
<1>4. CASE SessionValid \/ Reauthenticate \/ VerifySession
  BY <1>4 DEF SessionValid, Reauthenticate, VerifySession, TypeInv
<1>5. CASE ParseHap
  BY <1>5 DEF ParseHap, Excused, TypeInv
<1>6. CASE EnsureRuntimeSigningReady
  <2>1. pc = "ready" /\ tokens' = tokens /\ attempt = 0 /\ outcome = "running" /\ tokens
    BY <1>6 DEF EnsureRuntimeSigningReady, TypeInv
  <2>2. CASE cert_id = 0 \/ cer = 0
    BY <1>6, <2>1, <2>2 DEF EnsureRuntimeSigningReady
  <2>3. CASE ~(cert_id = 0 \/ cer = 0)
    <3>1. EnsureProfile({}, "uninstall")
      BY <1>6, <2>3 DEF EnsureRuntimeSigningReady
    <3>2. Goto("uninstall") \/ (End("failed") /\ clean' = FALSE)
      BY <3>1 DEF EnsureProfile, Fault
    <3>3. CASE Goto("uninstall")
      BY <2>1, <3>3
    <3>4. CASE End("failed") /\ clean' = FALSE
      BY <2>1, <3>4
    <3> QED BY <3>2, <3>3, <3>4
  <2> QED BY <2>2, <2>3
<1>7. CASE UninstallRuntime
  BY <1>7 DEF UninstallRuntime, TypeInv, Excused
<1>8. CASE Normalise
  BY <1>8 DEF Normalise, NoTools, ExtractHap, NormaliseHnp, Repack, TypeInv, Fault
<1>9. CASE SignHap
  BY <1>9 DEF SignHap, TypeInv, Excused
<1>10. CASE EnsureProvision
  <2>1. /\ pc = "ensure" /\ UNCHANGED <<tokens, hap, cert_id>> /\ outcome = "running" /\ tokens
        /\ hap.bundle \in Bundles /\ DOMAIN profile = Bundles
    BY <1>10 DEF EnsureProvision, TypeInv, Known
  <2>2. CASE Goto("tool") /\ NoFault /\ profile[hap.bundle] # None
    BY <2>1, <2>2
  <2>3. CASE /\ Goto("tool") /\ NoFault
             /\ profile' = [profile EXCEPT ![hap.bundle] = Profile(cert_id, Acl(hap))]
    BY <2>1, <2>3 DEF Profile
  <2>4. CASE Fault /\ (Goto("tool") \/ End("failed"))
    BY <2>1, <2>4 DEF Fault
  <2> QED BY <1>10, <2>2, <2>3, <2>4 DEF EnsureProvision, EnsureProfile
<1>11. CASE HapSignTool
  BY <1>11 DEF HapSignTool, ProfileFits, TypeInv
<1>12. CASE SigningFails
  <2>1. /\ pc = "tool" /\ UNCHANGED <<tokens, hap, cer, cert_id>> /\ outcome = "running" /\ tokens
        /\ hap.bundle \in Bundles /\ DOMAIN profile = Bundles
    BY <1>12 DEF SigningFails, TypeInv, Known
  <2>2. CASE attempt = 0
    BY <1>12, <2>1, <2>2 DEF SigningFails
  <2>3. CASE attempt = 1
    <3>1. clean' => clean /\ ~ProfileFits
      BY <1>12 DEF SigningFails, Fault
    <3>2. clean' => cert_id # cer
      BY <2>1, <2>3, <3>1 DEF ProfileFits
    <3> QED BY <1>12, <2>1, <2>3, <3>2 DEF SigningFails, Excused
  <2> QED BY <2>2, <2>3
<1>13. CASE NoCertificate
  BY <1>13 DEF NoCertificate, TypeInv, Excused
<1>14. CASE Install
  BY <1>14 DEF Install, Cancel, HdcInstall, HdcRefuses, Fault, TypeInv, Excused
<1> QED BY <1>1, <1>2, <1>3, <1>4, <1>5, <1>6, <1>7, <1>8, <1>9, <1>10, <1>11, <1>12,
           <1>13, <1>14 DEF Next, Prepare, Reserved, Sign

\* A run in which nothing failed ends without success only for a reason.
LEMMA FailuresAreExcused ==
  ASSUME TypeInv, CleanInv, Next, outcome = "running", outcome' = "failed", clean'
  PROVE  Excused
<1> USE DEF CleanInv, config, dirs, given, locals, Goto, End, NoFault
<1>1. CASE Run \/ Renew \/ SessionExpires \/ Crash \/ CallFails
  BY <1>1 DEF Run, Renew, SessionExpires, Crash, CallFails, Fault
<1>2. CASE Prepare
  BY <1>2 DEF Prepare, SessionValid, Reauthenticate, VerifySession, ParseHap, Excused, TypeInv
<1>3. CASE EnsureRuntimeSigningReady
  <2>1. tokens
    BY <1>3 DEF EnsureRuntimeSigningReady
  <2>2. CASE cert_id = 0 \/ cer = 0
    BY <2>2 DEF Excused
  <2>3. CASE ~(cert_id = 0 \/ cer = 0)
    BY <1>3, <2>1, <2>3 DEF EnsureRuntimeSigningReady, EnsureProfile, Fault
  <2> QED BY <2>2, <2>3
<1>4. CASE UninstallRuntime
  BY <1>4 DEF UninstallRuntime, TypeInv, Excused
<1>5. CASE Normalise
  BY <1>5 DEF Normalise, NoTools, ExtractHap, NormaliseHnp, Repack
<1>6. CASE SignHap
  BY <1>6 DEF SignHap, Excused
<1>7. CASE EnsureProvision
  BY <1>7 DEF EnsureProvision, EnsureProfile, Fault
<1>8. CASE HapSignTool \/ NoCertificate
  BY <1>8 DEF HapSignTool, NoCertificate, Excused
<1>9. CASE SigningFails
  <2>1. attempt = 1 /\ clean /\ ~ProfileFits /\ pc = "tool"
    BY <1>9 DEF SigningFails, Fault
  <2>2. cert_id # cer
    BY <2>1 DEF ProfileFits
  <2> QED BY <2>2 DEF Excused
<1>10. CASE Install
  BY <1>10 DEF Install, Cancel, HdcInstall, HdcRefuses, Fault, Excused
<1> QED BY <1>1, <1>2, <1>3, <1>4, <1>5, <1>6, <1>7, <1>8, <1>9, <1>10 DEF Next, Reserved, Sign

\* A run in which nothing fails installs its HAP, or one of the reasons listed
\* in CleanRunsInstall holds: what earlier runs left behind is none of them.
THEOREM CleanRunsSucceed == Spec => CleanRunsInstall
<1> DEFINE Reasons == outcome = "running" /\ outcome' = "failed" /\ clean' => Excused
<1>1. Init => TypeInv /\ CleanInv
  BY TypesHoldAtFirst DEF Init, CleanInv
<1>2. TypeInv /\ CleanInv /\ [Next]_vars => [Reasons]_vars
  <2> SUFFICES ASSUME TypeInv, CleanInv, Next PROVE Reasons
    OBVIOUS
  <2> QED BY FailuresAreExcused
<1>3. TypeInv /\ CleanInv /\ [Next]_vars => TypeInv' /\ CleanInv'
  BY TypesAreKept, CleanInvIsKept
<1> QED BY <1>1, <1>2, <1>3, PTL DEF Spec, CleanRunsInstall, Excused
=============================================================================
