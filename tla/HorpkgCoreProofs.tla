------------------------- MODULE HorpkgCoreProofs -------------------------
(***************************************************************************)
(* The two safety properties of HorpkgCore, for any packages, versions and *)
(* names of their HNPs, any number of failures and losses.                 *)
(***************************************************************************)
EXTENDS HorpkgCore, TLAPS

Entries == {Entry(p, v) : p \in Packages, v \in Versions}
PackagesOf(seq) == {seq[k].package : k \in DOMAIN seq}
Names(seq) == {seq[k].file_name : k \in DOMAIN seq}
\* A list of entries, one for a package.
IsList(seq) ==
  /\ seq \in Seq(Entries)
  /\ \A j, k \in DOMAIN seq : seq[j].package = seq[k].package => j = k

\* What a file may hold: nothing, a part, or a release it is named for.
Contents == {None, Partial} \cup (Packages \X Versions)
Holds(f, x) ==
  x \in {None, Partial} \/ \E p \in Packages, v \in Versions : x = <<p, v>> /\ FileOf(p, v) = f
Named(files) == \A f \in FileNames : Holds(f, files[f])
Cores == [listed : SUBSET FileNames, files : [FileNames -> Contents]]

TypeInv ==
  /\ state_file \in {Missing, Broken} \/ (state_file = Saved(state_file.entries) /\ IsList(state_file.entries))
  /\ hnps \in [FileNames -> Contents] /\ Named(hnps)
  /\ hap \in Cores /\ Named(hap.files) /\ device \in Cores /\ Named(device.files)
  /\ pc # "idle" => arg \in Packages \X Versions /\ IsList(entries)

\* How far the HAP has come that is made of the list.
HapInv ==
  /\ pc \in {"reset", "list", "index", "append", "install"} => state_file = Saved(entries)
  /\ pc = "list" => hap = Base
  /\ pc \in {"index", "append", "install"} => hap.listed = Names(entries)
  /\ pc = "index" => \A f \in FileNames : hap.files[f] = None
  /\ pc = "append" =>
       /\ i \in 1 .. Len(entries) + 1
       /\ \A f \in FileNames : hap.files[f] # None <=> \E k \in 1 .. i - 1 : entries[k].file_name = f
  /\ pc = "install" => \A f \in FileNames : hap.files[f] # None <=> f \in Names(entries)

\* What the device has is on the list, and will be in the next HAP.
DeviceInv ==
  /\ DeviceConsistent
  /\ \A p \in Packages : Alone(p) /\ Has(device, p) =>
       /\ state_file # Broken => p \in PackagesOf(State)
       /\ pc # "idle" => p \in PackagesOf(entries)
-----------------------------------------------------------------------------
(* Lists *)

\* The entries of a list, and their names.
LEMMA EntryFacts ==
  ASSUME NEW seq, IsList(seq)
  PROVE  /\ Len(seq) \in Nat /\ DOMAIN seq = 1 .. Len(seq)
         /\ \A k \in DOMAIN seq : \E p \in Packages, v \in Versions :
              seq[k].package = p /\ seq[k].version = v /\ seq[k].file_name = FileOf(p, v)
         /\ Names(seq) \subseteq FileNames
<1>1. Len(seq) \in Nat /\ DOMAIN seq = 1 .. Len(seq) /\ \A k \in DOMAIN seq : seq[k] \in Entries
  BY DEF IsList
<1>2. \A e \in Entries : \E p \in Packages, v \in Versions :
        e.package = p /\ e.version = v /\ e.file_name = FileOf(p, v)
  BY DEF Entries, Entry
<1> QED BY <1>1, <1>2 DEF Names, FileNames

\* Enter makes a list of a list, and no package is gone from it.
LEMMA EnterKeeps ==
  ASSUME NEW seq, IsList(seq), NEW p \in Packages, NEW v \in Versions
  PROVE  /\ IsList(Enter(seq, Entry(p, v)))
         /\ PackagesOf(seq) \subseteq PackagesOf(Enter(seq, Entry(p, v)))
<1> DEFINE e == Entry(p, v)
           new == Enter(seq, e)
<1>1. e \in Entries /\ e.package = p
  BY DEF Entries, Entry
<1>2. Len(seq) \in Nat /\ DOMAIN seq = 1 .. Len(seq) /\ seq \in Seq(Entries)
  BY DEF IsList
<1> HIDE DEF e
<1>3. CASE \E k \in DOMAIN seq : seq[k].package = e.package
  <2>1. new = [k \in 1 .. Len(seq) |-> IF seq[k].package = e.package THEN e ELSE seq[k]]
    BY <1>2, <1>3 DEF Enter
  <2> HIDE DEF new
  <2>2. new \in Seq(Entries) /\ DOMAIN new = DOMAIN seq
    <3>1. new \in [1 .. Len(seq) -> Entries]
      BY <1>1, <1>2, <2>1
    <3> QED BY <1>2, <3>1
  <2>3. \A k \in DOMAIN seq : new[k].package = seq[k].package
    BY <1>2, <2>1
  <2> QED BY <2>2, <2>3 DEF IsList, PackagesOf, new, e
<1>4. CASE ~ \E k \in DOMAIN seq : seq[k].package = e.package
  <2>1. new = Append(seq, e)
    BY <1>4 DEF Enter
  <2> HIDE DEF new
  <2>2. /\ new \in Seq(Entries) /\ DOMAIN new = 1 .. Len(seq) + 1
        /\ new[Len(seq) + 1] = e /\ \A k \in DOMAIN seq : new[k] = seq[k]
    BY <1>1, <1>2, <2>1
  <2>3. \A j, k \in DOMAIN new : new[j].package = new[k].package => j = k
    <3> SUFFICES ASSUME NEW j \in DOMAIN new, NEW k \in DOMAIN new,
                        new[j].package = new[k].package
                 PROVE  j = k
      OBVIOUS
    <3> QED BY <1>2, <1>4, <2>2 DEF IsList
  <2>4. PackagesOf(seq) \subseteq PackagesOf(new)
    BY <1>2, <2>2 DEF PackagesOf
  <2> QED BY <2>2, <2>3, <2>4 DEF IsList, new, e
<1> QED BY <1>3, <1>4

\* On a list, an HNP that is Alone is the one of its package.
LEMMA OneHnp ==
  ASSUME NEW seq, IsList(seq), NEW p \in Packages, Alone(p),
         NEW v \in Versions, NEW w \in Versions, FileOf(p, v) \in Names(seq)
  PROVE  /\ p \in PackagesOf(seq)
         /\ FileOf(p, w) \in Names(seq) => FileOf(p, w) = FileOf(p, v)
<1>1. ASSUME NEW u \in Versions, FileOf(p, u) \in Names(seq)
      PROVE  \E k \in DOMAIN seq : seq[k].package = p /\ seq[k].file_name = FileOf(p, u)
  BY <1>1, EntryFacts DEF Names, Alone
<1> QED BY <1>1 DEF PackagesOf, IsList
-----------------------------------------------------------------------------
(* Types *)

\* Nothing is in the workspace and on the device at first.
LEMMA HoldsAtFirst == Init => TypeInv /\ HapInv /\ DeviceInv
<1> SUFFICES ASSUME Init PROVE TypeInv /\ HapInv /\ DeviceInv
  OBVIOUS
<1>1. Base \in Cores /\ Base.listed = {} /\ \A f \in FileNames : Base.files[f] = None
  BY DEF Base, Cores, Contents
<1>2. Named(Base.files) /\ Named(hnps) /\ hnps \in [FileNames -> Contents]
  BY <1>1 DEF Init, Named, Holds, Contents
<1>3. TypeInv /\ HapInv
  BY <1>1, <1>2 DEF Init, TypeInv, HapInv
<1>4. DeviceInv
  BY <1>1 DEF Init, DeviceInv, DeviceConsistent, Has
<1> QED BY <1>3, <1>4

\* Every step keeps the types.
LEMMA TypesAreKept == TypeInv /\ HapInv /\ [Next]_vars => TypeInv'
<1> SUFFICES ASSUME TypeInv, HapInv, [Next]_vars PROVE TypeInv'
  OBVIOUS
<1> USE DEF TypeInv, workspace, run, Goto, End
<1>1. CASE UNCHANGED vars
  BY <1>1 DEF vars
<1>2. CASE CallFails \/ Crash
  BY <1>2 DEF CallFails, Crash
<1>3. CASE LoseHnp
  BY <1>3 DEF LoseHnp, Named, Holds, Contents
<1>4. CASE Start
  <2>1. PICK p \in Packages, v \in Versions : Load(p, v)
    BY <1>4 DEF Start
  <2>2. IsList(<<>>)
    BY DEF IsList
  <2> QED BY <2>1, <2>2 DEF Load
<1>5. CASE CopyHnp
  <2>1. PICK p \in Packages, v \in Versions : arg = <<p, v>>
    BY <1>5 DEF CopyHnp
  <2>2. /\ FileOf(p, v) \in FileNames /\ arg \in Contents /\ Partial \in Contents
        /\ Holds(FileOf(p, v), arg) /\ Holds(FileOf(p, v), Partial)
    BY <2>1 DEF FileNames, Contents, Holds
  <2>3. PICK x \in {arg, Partial} : hnps' = [hnps EXCEPT ![FileOf(p, v)] = x]
    BY <1>5, <2>1 DEF CopyHnp
  <2>4. hnps' \in [FileNames -> Contents] /\ Named(hnps')
    BY <2>2, <2>3 DEF Named
  <2> QED BY <1>5, <2>4 DEF CopyHnp
<1>6. CASE SaveOpen
  <2>1. PICK p \in Packages, v \in Versions : arg = <<p, v>>
    BY <1>6 DEF SaveOpen
  <2> QED BY <1>6, <2>1, EnterKeeps DEF SaveOpen
<1>7. CASE SaveWrite
  BY <1>7 DEF SaveWrite, Saved
<1>8. CASE ResetCoreHap
  <2>1. Base \in Cores /\ Named(Base.files)
    BY DEF Base, Cores, Contents, Named, Holds
  <2> QED BY <1>8, <2>1 DEF ResetCoreHap
<1>9. CASE RewriteModuleJson
  <2>1. Names(entries) \in SUBSET FileNames
    BY <1>9, EntryFacts DEF RewriteModuleJson
  <2>2. hap' \in Cores /\ hap'.files = hap.files
    BY <1>9, <2>1 DEF RewriteModuleJson, Cores, Names
  <2> QED BY <1>9, <2>2 DEF RewriteModuleJson
<1>10. CASE RegenerateResourcesIndex
  BY <1>10 DEF RegenerateResourcesIndex
<1>11. CASE EnsureLocalEntryFile
  <2>1. IsList(entries) /\ i \in DOMAIN entries
    BY <1>11, EntryFacts DEF EnsureLocalEntryFile, HapInv
  <2>2. PICK p \in Packages, v \in Versions :
          Current.package = p /\ Current.version = v /\ Current.file_name = FileOf(p, v)
    BY <2>1, EntryFacts DEF Current
  <2>3. /\ FileOf(p, v) \in FileNames /\ <<p, v>> \in Contents /\ Partial \in Contents
        /\ Holds(FileOf(p, v), <<p, v>>) /\ Holds(FileOf(p, v), Partial)
    BY DEF FileNames, Contents, Holds
  <2>4. hnps' = hnps \/ \E x \in {<<p, v>>, Partial} : hnps' = [hnps EXCEPT ![FileOf(p, v)] = x]
    BY <1>11, <2>2 DEF EnsureLocalEntryFile
  <2>5. hnps' \in [FileNames -> Contents] /\ Named(hnps')
    BY <2>3, <2>4 DEF Named
  <2> QED BY <1>11, <2>5 DEF EnsureLocalEntryFile
<1>12. CASE AppendHnpToHap
  <2> DEFINE f == Current.file_name
  <2>1. IsList(entries) /\ i \in DOMAIN entries
    BY <1>12, EntryFacts DEF AppendHnpToHap, HapInv
  <2>2. f \in FileNames
    BY <2>1, EntryFacts DEF Current, FileNames
  <2>3. hap'.files = [hap.files EXCEPT ![f] = hnps[f]] /\ hap' \in Cores
    BY <1>12, <2>2 DEF AppendHnpToHap, Cores
  <2>4. Named(hap'.files)
    BY <2>2, <2>3 DEF Named, Cores
  <2> QED BY <1>12, <2>3, <2>4 DEF AppendHnpToHap
<1>13. CASE SignCoreHap
  BY <1>13 DEF SignCoreHap
<1>14. CASE InstallCoreBundle
  BY <1>14 DEF InstallCoreBundle
<1> QED BY <1>1, <1>2, <1>3, <1>4, <1>5, <1>6, <1>7, <1>8, <1>9, <1>10, <1>11, <1>12, <1>13,
           <1>14 DEF Next, Enrol, Rebuild
-----------------------------------------------------------------------------
(* The HAP that is made *)

\* Every step of a run brings the HAP to where HapInv says.
LEMMA HapIsKept == TypeInv /\ HapInv /\ [Next]_vars => HapInv'
<1> SUFFICES ASSUME TypeInv, HapInv, [Next]_vars PROVE HapInv'
  OBVIOUS
<1> USE DEF HapInv, workspace, run, Goto, End
<1>1. CASE UNCHANGED vars
  BY <1>1 DEF vars, Names
<1>2. CASE CallFails \/ Crash \/ LoseHnp
  BY <1>2 DEF CallFails, Crash, LoseHnp
<1>3. CASE Start \/ CopyHnp \/ SaveOpen
  BY <1>3 DEF Start, Load, CopyHnp, SaveOpen
<1>4. CASE SaveWrite
  BY <1>4 DEF SaveWrite
<1>5. CASE ResetCoreHap
  BY <1>5 DEF ResetCoreHap
<1>6. CASE RewriteModuleJson
  <2>1. hap = Base /\ hap.files \in [FileNames -> {None}] /\ hap' = [hap EXCEPT !.listed = Names(entries)]
    BY <1>6 DEF RewriteModuleJson, Names, Base
  <2>2. hap'.listed = Names(entries) /\ \A f \in FileNames : hap'.files[f] = None
    BY <2>1 DEF Base
  <2> QED BY <1>6, <2>2 DEF RewriteModuleJson, Names
<1>7. CASE RegenerateResourcesIndex
  <2>1. IsList(entries) /\ Len(entries) \in Nat
    BY <1>7, EntryFacts DEF RegenerateResourcesIndex, TypeInv
  <2> QED BY <1>7, <2>1 DEF RegenerateResourcesIndex, Names
<1>8. CASE EnsureLocalEntryFile
  BY <1>8 DEF EnsureLocalEntryFile, Names
<1>9. CASE AppendHnpToHap
  <2> DEFINE f == Current.file_name
  <2>1. /\ IsList(entries) /\ i \in 1 .. Len(entries) /\ Len(entries) \in Nat
        /\ f \in FileNames /\ f = entries[i].file_name
    BY <1>9, EntryFacts DEF AppendHnpToHap, TypeInv, Current, FileNames
  <2>2. hap \in Cores /\ hap' = [hap EXCEPT !.files[f] = hnps[f]] /\ hnps[f] # None
    BY <1>9 DEF AppendHnpToHap, TypeInv
  <2> HIDE DEF f
  <2>3. hap'.listed = hap.listed /\ hap'.files = [hap.files EXCEPT ![f] = hnps[f]]
    BY <2>2 DEF Cores
  <2>4. \A g \in FileNames : hap'.files[g] # None <=> hap.files[g] # None \/ g = f
    BY <2>1, <2>2, <2>3 DEF Cores
  <2>5. i' = i + 1 /\ pc = "append" /\ UNCHANGED <<pc, entries, state_file>>
    BY <1>9 DEF AppendHnpToHap
  <2>6. \A g \in FileNames :
          (\E k \in 1 .. i : entries[k].file_name = g)
            <=> (\E k \in 1 .. i - 1 : entries[k].file_name = g) \/ g = f
    BY <2>1
  <2>7. \A g \in FileNames : hap'.files[g] # None <=> \E k \in 1 .. i' - 1 : entries'[k].file_name = g
    BY <2>1, <2>4, <2>5, <2>6
  <2> QED BY <2>1, <2>3, <2>5, <2>7 DEF Names
<1>10. CASE SignCoreHap
  <2>1. IsList(entries) /\ i = Len(entries) + 1 /\ DOMAIN entries = 1 .. i - 1
    BY <1>10, EntryFacts DEF SignCoreHap, TypeInv
  <2> QED BY <1>10, <2>1 DEF SignCoreHap, Names
<1>11. CASE InstallCoreBundle
  BY <1>11 DEF InstallCoreBundle
<1> QED BY <1>1, <1>2, <1>3, <1>4, <1>5, <1>6, <1>7, <1>8, <1>9, <1>10, <1>11
        DEF Next, Enrol, Rebuild
-----------------------------------------------------------------------------
(* The device *)

\* A finished HAP is consistent, and has a package if and only if it is listed.
LEMMA FinishedHap ==
  ASSUME TypeInv, HapInv, pc = "install"
  PROVE  /\ \A f \in FileNames : f \in hap.listed <=> hap.files[f] # None
         /\ \A p \in Packages : Alone(p) =>
              /\ Has(hap, p) <=> p \in PackagesOf(entries)
              /\ \A v, w \in Versions :
                   {FileOf(p, v), FileOf(p, w)} \subseteq hap.listed => FileOf(p, v) = FileOf(p, w)
<1>1. /\ IsList(entries) /\ hap.listed = Names(entries) /\ Named(hap.files)
      /\ \A f \in FileNames : hap.files[f] # None <=> f \in Names(entries)
  BY DEF TypeInv, HapInv
<1>2. ASSUME NEW p \in Packages, Alone(p)
      PROVE  /\ Has(hap, p) => p \in PackagesOf(entries)
             /\ \A v, w \in Versions :
                  {FileOf(p, v), FileOf(p, w)} \subseteq hap.listed => FileOf(p, v) = FileOf(p, w)
  BY <1>1, <1>2, OneHnp DEF Has
<1>3. ASSUME NEW p \in Packages, Alone(p), p \in PackagesOf(entries)
      PROVE  Has(hap, p)
  <2>1. PICK v \in Versions : FileOf(p, v) \in Names(entries)
    BY <1>1, <1>3, EntryFacts DEF PackagesOf, Names
  <2> DEFINE f == FileOf(p, v)
  <2>2. f \in FileNames /\ hap.files[f] # None /\ Holds(f, hap.files[f])
    BY <1>1, <2>1 DEF FileNames, Named
  <2>3. CASE hap.files[f] = Partial
    BY <1>1, <2>1, <2>3 DEF Has
  <2>4. CASE \E q \in Packages, u \in Versions : hap.files[f] = <<q, u>> /\ FileOf(q, u) = f
    <3>1. PICK u \in Versions : hap.files[f] = <<p, u>> /\ FileOf(p, u) = f
      BY <1>3, <2>4 DEF Alone
    <3> QED BY <1>1, <2>1, <3>1 DEF Has
  <2> QED BY <2>2, <2>3, <2>4 DEF Holds
<1> QED BY <1>1, <1>2, <1>3

\* A step that loses no package from the lists and leaves the device alone.
LEMMA ListsGrow ==
  ASSUME DeviceInv, UNCHANGED device,
         state_file' # Broken => PackagesOf(State) \subseteq PackagesOf(State'),
         state_file # Broken \/ state_file' = Broken,
         pc' # "idle" => pc # "idle" /\ PackagesOf(entries) \subseteq PackagesOf(entries')
  PROVE  DeviceInv'
BY DEF DeviceInv, DeviceConsistent, Has, Alone

\* Every step keeps what the device has on the list, and only a finished HAP is
\* installed.
LEMMA DeviceIsKept ==
  TypeInv /\ HapInv /\ DeviceInv /\ [Next]_vars =>
    /\ DeviceInv'
    /\ \A p \in Packages : Alone(p) /\ Has(device, p) => Has(device', p)
<1> SUFFICES ASSUME TypeInv, HapInv, DeviceInv, [Next]_vars
             PROVE  /\ DeviceInv'
                    /\ \A p \in Packages : Alone(p) /\ Has(device, p) => Has(device', p)
  OBVIOUS
<1> USE DEF workspace, run, Goto, End
<1>1. CASE UNCHANGED vars
  BY <1>1, ListsGrow DEF vars, State
<1>2. CASE CallFails \/ Crash \/ LoseHnp
  BY <1>2, ListsGrow DEF CallFails, Crash, LoseHnp, State
<1>3. CASE Start
  <2>1. /\ UNCHANGED <<device, state_file>> /\ state_file # Broken
        /\ entries' = State
    BY <1>3 DEF Start, Load, State
  <2>2. \A p \in Packages : Alone(p) /\ Has(device, p) => p \in PackagesOf(State)
    BY <2>1 DEF DeviceInv
  <2> QED BY <2>1, <2>2 DEF DeviceInv, DeviceConsistent, Has, State
<1>4. CASE CopyHnp
  BY <1>4, ListsGrow DEF CopyHnp, State
<1>5. CASE SaveOpen
  <2>1. PICK p \in Packages, v \in Versions : arg = <<p, v>>
    BY <1>5 DEF SaveOpen, TypeInv
  <2>2. PackagesOf(entries) \subseteq PackagesOf(entries')
    BY <1>5, <2>1, EnterKeeps DEF SaveOpen, TypeInv
  <2> QED BY <1>5, <2>2, ListsGrow DEF SaveOpen
<1>6. CASE SaveWrite
  <2>1. /\ UNCHANGED <<device, entries>> /\ pc = "write" /\ pc' # "idle"
        /\ State' = entries
    BY <1>6 DEF SaveWrite, State, Saved, Missing, Broken
  <2> QED BY <2>1 DEF DeviceInv, DeviceConsistent, Has
<1>7. CASE ResetCoreHap \/ RewriteModuleJson \/ RegenerateResourcesIndex
  BY <1>7, ListsGrow DEF ResetCoreHap, RewriteModuleJson, RegenerateResourcesIndex, State
<1>8. CASE EnsureLocalEntryFile \/ AppendHnpToHap \/ SignCoreHap
  BY <1>8, ListsGrow DEF EnsureLocalEntryFile, AppendHnpToHap, SignCoreHap, State
<1>9. CASE InstallCoreBundle
  <2>1. /\ pc = "install" /\ device' = hap /\ pc' = "idle" /\ UNCHANGED state_file
        /\ state_file = Saved(entries)
    BY <1>9 DEF InstallCoreBundle, HapInv
  <2>2. State' = entries
    BY <2>1 DEF State, Saved, Missing, Broken
  <2>3. \A p \in Packages : Alone(p) => (Has(device', p) <=> p \in PackagesOf(entries))
    BY <2>1, FinishedHap DEF Has
  <2>4. DeviceConsistent'
    BY <2>1, FinishedHap DEF DeviceConsistent
  <2> QED BY <2>1, <2>2, <2>3, <2>4 DEF DeviceInv
<1> QED BY <1>1, <1>2, <1>3, <1>4, <1>5, <1>6, <1>7, <1>8, <1>9 DEF Next, Enrol, Rebuild

\* On the device module.json and the files of the core bundle agree, and there
\* is one HNP of a package: a HAP is made from the list alone.
THEOREM CoreIsConsistent == Spec => []DeviceConsistent
<1>1. TypeInv /\ HapInv /\ DeviceInv /\ [Next]_vars => TypeInv' /\ HapInv' /\ DeviceInv'
  BY TypesAreKept, HapIsKept, DeviceIsKept
<1>2. DeviceInv => DeviceConsistent
  BY DEF DeviceInv
<1> QED BY HoldsAtFirst, <1>1, <1>2, PTL DEF Spec

\* No package is lost from the device: what it has is on the list, and what is
\* on the list is in every HAP that gets to be installed.
THEOREM NoPackageIsLost == Spec => PackagesKept
<1> DEFINE Kept == \A p \in Packages : Alone(p) /\ Has(device, p) => Has(device', p)
<1>1. TypeInv /\ HapInv /\ DeviceInv /\ [Next]_vars => TypeInv' /\ HapInv' /\ DeviceInv'
  BY TypesAreKept, HapIsKept, DeviceIsKept
<1>2. TypeInv /\ HapInv /\ DeviceInv /\ [Next]_vars => [Kept]_vars
  BY DeviceIsKept
<1> QED BY HoldsAtFirst, <1>1, <1>2, PTL DEF Spec, PackagesKept
=============================================================================
