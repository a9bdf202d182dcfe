---------------------------- MODULE HorpkgCore ----------------------------
(***************************************************************************)
(* core_install_hnp (build-hnp/horpkg/src/core_hnp_installer.c): packages  *)
(* for the command line live together in one bundle, org.horpkg.core.  The *)
(* workspace ~/.horpkg/core keeps a copy of every HNP and core_state.json, *)
(* the list of packages; every installation of one makes the HAP anew from *)
(* the list and installs it over the old one.                              *)
(*                                                                         *)
(* A step ends where a file or the device has changed, so the process may  *)
(* die between any two steps.  Signing is sign_hap of HorpkgInstall, which *)
(* succeeds or fails.  An HNP is the release <<package, version>> it is    *)
(* of; entries of the state file are in the order they were added.         *)
(***************************************************************************)
EXTENDS Integers, Sequences

CONSTANTS
  Packages, Versions,
  FileOf(_, _),    \* basename of the HNP of a package and version
  Url,             \* the packages whose source is recorded
  MaxFaults,       \* calls that fail and crashes, over all runs
  MaxLosses        \* files of the workspace that are lost

ASSUME CoreAssumption == MaxFaults \in Nat /\ MaxLosses \in Nat /\ Url \subseteq Packages

VARIABLES
  state_file,      \* core_state.json: entries, Missing or Broken
  hnps,            \* file name -> the release in hnp/<abi>/, None or Partial
  hap,             \* org.horpkg.core.hap: [listed, files], or Broken
  device,          \* what the device has installed of it
  pc, arg, entries, i, \* the run: its package and version, and where it is
  outcome,         \* "installed" after a run that reported so
  faults, losses

workspace == <<state_file, hnps, hap>>
run  == <<arg, entries, i>>
vars == <<workspace, device, pc, run, outcome, faults, losses>>

Missing == [state |-> "missing"]
Broken  == [state |-> "broken"]
Saved(seq) == [state |-> "ok", entries |-> seq]
None == <<>>
Partial == <<"partial">>

FileNames == {FileOf(p, v) : p \in Packages, v \in Versions}
Entry(p, v) == [package |-> p, version |-> v, file_name |-> FileOf(p, v)]
Base == [listed |-> {}, files |-> [f \in FileNames |-> None]]
NoArg == <<>>

Init ==
  /\ state_file = Missing /\ hnps = [f \in FileNames |-> None]
  /\ hap = Base /\ device = Base
  /\ pc = "idle" /\ arg = NoArg /\ entries = <<>> /\ i = 0
  /\ outcome = "none" /\ faults = 0 /\ losses = 0

-----------------------------------------------------------------------------
(* Ends of a run, and what goes wrong *)

Fault == faults < MaxFaults /\ faults' = faults + 1 /\ UNCHANGED losses
NoFault == UNCHANGED <<faults, losses>>

Goto(label) == pc' = label /\ UNCHANGED outcome
End(result) == pc' = "idle" /\ arg' = NoArg /\ entries' = <<>> /\ i' = 0 /\ outcome' = result

\* A step that returns -1 and leaves the files as they are: tools, restool,
\* zip, a download that does not start, signing, the device.
CallFails ==
  /\ pc \in {"copy", "save", "reset", "list", "index", "append", "install"}
  /\ Fault /\ End("failed") /\ UNCHANGED <<workspace, device>>

Crash ==
  /\ pc # "idle" /\ Fault /\ End("failed") /\ UNCHANGED <<workspace, device>>

LoseHnp ==
  /\ pc = "idle" /\ losses < MaxLosses /\ losses' = losses + 1
  /\ \E f \in FileNames : hnps[f] # None /\ hnps' = [hnps EXCEPT ![f] = None]
  /\ UNCHANGED <<state_file, hap, device, pc, run, outcome, faults>>

-----------------------------------------------------------------------------
(* core_install_hnp *)

\* The workspace is there and holds some HAP; core_state_load gives up for
\* good on a state file that is no JSON.
Load(p, v) ==
  /\ pc = "idle" /\ state_file # Broken
  /\ arg' = <<p, v>> /\ pc' = "copy" /\ outcome' = "running" /\ i' = 0
  /\ entries' = IF state_file = Missing THEN <<>> ELSE state_file.entries
  /\ NoFault /\ UNCHANGED <<workspace, device>>

\* copy_file(hnp_path, local_hnp_path) writes over the file in place; a read
\* that fails looks like the end of the HNP.
CopyHnp ==
  /\ pc = "copy" /\ Goto("save")
  /\ \/ hnps' = [hnps EXCEPT ![FileOf(arg[1], arg[2])] = arg] /\ NoFault
     \/ hnps' = [hnps EXCEPT ![FileOf(arg[1], arg[2])] = Partial] /\ Fault
  /\ UNCHANGED <<state_file, hap, device, run>>

\* Defect: the list has only the new package.
Enter_Alone(seq, e) == <<e>>

\* The entry of the package is replaced, or one is added at the end.
Enter(seq, e) ==
  IF \E k \in DOMAIN seq : seq[k].package = e.package
  THEN [k \in DOMAIN seq |-> IF seq[k].package = e.package THEN e ELSE seq[k]]
  ELSE Append(seq, e)

\* core_state_save opens the file,
SaveOpen ==
  /\ pc = "save" /\ state_file' = Broken /\ Goto("write") /\ NoFault
  /\ entries' = Enter(entries, Entry(arg[1], arg[2]))
  /\ UNCHANGED <<hnps, hap, device, arg, i>>

\* and writes the list, before anything of it has been tried.
SaveWrite ==
  /\ pc = "write" /\ state_file' = Saved(entries) /\ Goto("reset") /\ NoFault
  /\ UNCHANGED <<hnps, hap, device, run>>

-----------------------------------------------------------------------------
(* rebuild_core_hap *)

\* Defect: the HAP of the last run is added to.
ResetCoreHap_Keep ==
  /\ pc = "reset" /\ Goto("list") /\ NoFault
  /\ UNCHANGED <<workspace, device, run>>

\* reset_core_hap copies the bundled HAP over the last one.
ResetCoreHap ==
  /\ pc = "reset" /\ hap' = Base /\ Goto("list") /\ NoFault
  /\ UNCHANGED <<state_file, hnps, device, run>>

\* rewrite_module_json: hnpPackages lists every file name once.
RewriteModuleJson ==
  /\ pc = "list" /\ Goto("index") /\ NoFault
  /\ hap' = [hap EXCEPT !.listed = {entries[k].file_name : k \in DOMAIN entries}]
  /\ UNCHANGED <<state_file, hnps, device, run>>

\* regenerate_resources_index: unpacks the HAP and has restool index it.
RegenerateResourcesIndex ==
  /\ pc = "index" /\ pc' = "append" /\ i' = 1 /\ NoFault
  /\ UNCHANGED <<workspace, device, arg, entries, outcome>>

Current == entries[i]

\* Defect: a missing HNP is left out.
EnsureLocalEntryFile_Skip ==
  /\ pc = "append" /\ i <= Len(entries) /\ hnps[Current.file_name] = None
  /\ i' = i + 1 /\ NoFault
  /\ UNCHANGED <<workspace, device, pc, arg, entries, outcome>>

\* ensure_local_entry_file: a missing HNP is downloaded again, if its source
\* is known.  What a broken download leaves passes for the HNP.
EnsureLocalEntryFile ==
  /\ pc = "append" /\ i <= Len(entries) /\ hnps[Current.file_name] = None
  /\ \/ /\ Current.package \in Url /\ UNCHANGED <<pc, run, outcome>> /\ NoFault
        /\ hnps' = [hnps EXCEPT ![Current.file_name] = <<Current.package, Current.version>>]
     \/ /\ Current.package \in Url /\ End("failed") /\ Fault
        /\ hnps' = [hnps EXCEPT ![Current.file_name] = Partial]
     \/ Current.package \notin Url /\ End("failed") /\ NoFault /\ UNCHANGED hnps
  /\ UNCHANGED <<state_file, hap, device>>

\* append_hnp_to_hap adds the file, or replaces the one of that name.
AppendHnpToHap ==
  /\ pc = "append" /\ i <= Len(entries) /\ hnps[Current.file_name] # None
  /\ hap' = [hap EXCEPT !.files[Current.file_name] = hnps[Current.file_name]]
  /\ i' = i + 1 /\ NoFault
  /\ UNCHANGED <<state_file, hnps, device, pc, arg, entries, outcome>>

SignCoreHap ==
  /\ pc = "append" /\ i > Len(entries) /\ Goto("install") /\ NoFault
  /\ UNCHANGED <<workspace, device, run>>

\* The device installs the HAP over the one it has; the answer may be lost.
InstallCoreBundle ==
  /\ pc = "install" /\ device' = hap
  /\ \/ End("installed") /\ NoFault
     \/ End("failed") /\ Fault
  /\ UNCHANGED workspace

-----------------------------------------------------------------------------

Start == \E p \in Packages, v \in Versions : Load(p, v)
Enrol == CopyHnp \/ SaveOpen \/ SaveWrite
Rebuild ==
  \/ ResetCoreHap \/ RewriteModuleJson \/ RegenerateResourcesIndex
  \/ EnsureLocalEntryFile \/ AppendHnpToHap \/ SignCoreHap \/ InstallCoreBundle

Next == Start \/ Enrol \/ Rebuild \/ CallFails \/ Crash \/ LoseHnp

\* A run goes on while it can, and the user installs now and then.
Spec == Init /\ [][Next]_vars /\ WF_vars(Start \/ Enrol \/ Rebuild)

-----------------------------------------------------------------------------
(* Properties *)

State == IF state_file \in {Missing, Broken} THEN <<>> ELSE state_file.entries
Recorded(p) == \E k \in DOMAIN State : State[k].package = p

\* The core bundle has a release of p, or as much of one as could be read.
Has(core, p) ==
  \E v \in Versions : FileOf(p, v) \in core.listed /\ core.files[FileOf(p, v)] \in {<<p, v>>, Partial}

\* No other package has an HNP of the same name.  When one has, it is written
\* over this one's, also by a run that then fails.
Alone(p) == \A q \in Packages \ {p} : \A v, w \in Versions : FileOf(p, v) # FileOf(q, w)

\* The device never has a bundle of which module.json and the files disagree,
\* or two HNPs of a package: files of an earlier run are not left in it.
DeviceConsistent ==
  /\ \A f \in FileNames : f \in device.listed <=> device.files[f] # None
  /\ \A p \in Packages : Alone(p) =>
       \A v, w \in Versions :
         {FileOf(p, v), FileOf(p, w)} \subseteq device.listed => FileOf(p, v) = FileOf(p, w)

\* Whatever is installed, and however it fails, no package that the device
\* had is gone afterwards.
PackagesKept ==
  [][\A p \in Packages : Alone(p) /\ Has(device, p) => Has(device', p)]_vars

\* A package that once was recorded gets to the device in the end, also when
\* the run that recorded it failed or crashed: the next one takes it along.
\* Only a broken state file or an HNP without a source stop everything.
RecordedArrives ==
  \A p \in Packages : Alone(p) =>
    (Recorded(p) ~>
      \/ Has(device, p) \/ (pc = "idle" /\ state_file = Broken)
      \/ \E k \in DOMAIN State : State[k].package \notin Url /\ hnps[State[k].file_name] = None)
=============================================================================
