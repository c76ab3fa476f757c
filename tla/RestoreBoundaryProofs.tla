------------------------ MODULE RestoreBoundaryProofs ------------------------
(***************************************************************************)
(* Theorems about RestoreBoundary, for every number of failures and ends   *)
(* of the app: what was there before is kept, and no cursor without what   *)
(* it stands for.                                                          *)
(***************************************************************************)
EXTENDS RestoreBoundary, TLAPS

-----------------------------------------------------------------------------
(* The inductive invariant.                                                *)

Snapshot(d) == disk[d]["snapshot"]
Failed(d) == disk[d]["failed"]

Listed(library) == library # Missing /\ library.arrival = "listed"
Mapped(files) == files # Missing /\ files.mapped
Advanced(files) == files # Missing /\ files.cursor

Copying == {"copy notebooks", "copy device"}
Acting ==
    {"send", "download", "move", "index", "compare", "unmap", "map", "cursor"}
Swapping ==
    {"put notebooks", "take device", "put device", "return device",
     "withdraw notebooks", "return notebooks"}

\* What the boundary protects has no cursor yet.
CapturedUnadvanced == step # "idle" => ~Advanced(captured["device"])

\* Where the captured contents are, at each step.  Only a handoff that is complete
\* may have lost a copy.
Protected ==
    /\ step \in Copying \union {"clean"} => \A d \in Dir : Target(d) = captured[d]
    /\ step = "copy device" => Snapshot("notebooks") = captured["notebooks"]
    /\ step \in Acting \union {"discard", "take notebooks", "put notebooks",
                               "return notebooks"} => Intact
    /\ step = "verify" => Intact \/ HandedOff
    /\ step \in {"put notebooks", "return notebooks"} => Target("notebooks") = Missing
    /\ step \in {"take device", "put device", "return device", "withdraw notebooks"} =>
          /\ Target("notebooks") = captured["notebooks"]
          /\ Snapshot("notebooks") = Missing
          /\ Snapshot("device") = captured["device"]
    /\ step \in {"put device", "return device"} => Target("device") = Missing

\* The name that a directory takes in a rollback is free until then.
NamesFree ==
    /\ step \notin Swapping \union {"idle", "clean"} => Failed("notebooks") = Missing
    /\ step \in {"put notebooks", "take device"}
         \/ step \notin Swapping \union {"idle", "clean"} => Failed("device") = Missing

\* How far the handoff has come.
Advancing ==
    /\ step \in Acting => ~Advanced(Target("device"))
    /\ step \in {"compare", "unmap", "map", "cursor", "discard"} =>
          Listed(Target("notebooks"))
    /\ step \in {"cursor", "discard"} => Mapped(Target("device"))
    /\ step = "discard" => Advanced(Target("device"))

\* What the attempt made of the library and of the sync files, wherever a rollback
\* has it.
LibraryNow == IF step \in Swapping THEN Failed("notebooks") ELSE Target("notebooks")
FilesNow ==
    IF step \in {"put device", "return device"} THEN Failed("device")
    ELSE Target("device")

\* A cursor goes with the mappings and with the content.
CursorWithContent ==
    Advanced(FilesNow) =>
        /\ Mapped(FilesNow)
        /\ \/ Listed(LibraryNow)
           \/ step = "idle" /\ Listed(Failed("notebooks"))

BoundaryInv ==
    /\ TypeOK
    /\ PriorStateKept
    /\ CapturedUnadvanced
    /\ Protected
    /\ NamesFree
    /\ Advancing
    /\ CursorWithContent

-----------------------------------------------------------------------------
(* What the operations on directories do.                                  *)

\* The types of what the directories hold.
DiskOK ==
    /\ disk \in [Dir -> [Place -> Content]]
    /\ \A d \in Dir : disk[d] \in [Place -> Holds(d)]

\* The two directories are two.
LEMMA Directories ==
    /\ Dir = {"notebooks", "device"} /\ Place = {"target", "snapshot", "failed"}
    /\ "notebooks" # "device"
    /\ Holds("notebooks") = {Missing} \union Library
    /\ Holds("device") = {Missing} \union SyncFiles
    /\ Missing \notin Library /\ Missing \notin SyncFiles
  BY MissingAssumption DEF Dir, Place, Holds

\* A rename, a copy or a write changes one directory and keeps the types.
LEMMA OneDirectoryChanges ==
    ASSUME DiskOK, NEW d \in Dir, NEW content \in [Place -> Holds(d)],
           disk' = [disk EXCEPT ![d] = content]
    PROVE  /\ DiskOK'
           /\ disk'[d] = content
           /\ \A e \in Dir : e # d => disk'[e] = disk[e]
  <1>1. Holds(d) \subseteq Content
    BY DEF Holds, Content
  <1>2. disk' \in [Dir -> [Place -> Content]]
    BY <1>1 DEF DiskOK
  <1>3. disk'[d] = content /\ \A e \in Dir : e # d => disk'[e] = disk[e]
    BY DEF DiskOK
  <1> QED
    BY <1>2, <1>3 DEF DiskOK, Holds

\* What is written takes the place of the target and of nothing else.
LEMMA WriteEffect ==
    ASSUME DiskOK, NEW d \in Dir, NEW content \in Holds(d), Write(d, content)
    PROVE  /\ DiskOK'
           /\ Target(d)' = content /\ Snapshot(d)' = Snapshot(d) /\ Failed(d)' = Failed(d)
           /\ \A e \in Dir : e # d => disk'[e] = disk[e]
  <1> DEFINE new == [disk[d] EXCEPT !["target"] = content]
  <1>1. /\ new \in [Place -> Holds(d)]
        /\ new["target"] = content /\ new["snapshot"] = disk[d]["snapshot"]
        /\ new["failed"] = disk[d]["failed"]
    BY DEF DiskOK, Place
  <1>2. disk' = [disk EXCEPT ![d] = new]
    BY DEF Write, DiskOK
  <1> QED
    BY <1>1, <1>2, OneDirectoryChanges DEF Target, Snapshot, Failed

\* A rename moves what one place held to the other.
LEMMA RenameEffect ==
    ASSUME DiskOK, NEW d \in Dir, NEW from \in Place, NEW to \in Place, from # to,
           Rename(d, from, to)
    PROVE  /\ DiskOK'
           /\ disk'[d][to] = disk[d][from] /\ disk'[d][from] = Missing
           /\ \A p \in Place : p \notin {from, to} => disk'[d][p] = disk[d][p]
           /\ \A e \in Dir : e # d => disk'[e] = disk[e]
  <1> DEFINE new == [disk[d] EXCEPT ![to] = disk[d][from], ![from] = Missing]
  <1>1. /\ new \in [Place -> Holds(d)]
        /\ new[to] = disk[d][from] /\ new[from] = Missing
        /\ \A p \in Place : p \notin {from, to} => new[p] = disk[d][p]
    BY DEF DiskOK, Holds
  <1>2. disk' = [disk EXCEPT ![d] = new]
    BY DEF Rename, DiskOK
  <1> HIDE DEF new
  <1>3. DiskOK' /\ disk'[d] = new /\ \A e \in Dir : e # d => disk'[e] = disk[e]
    BY <1>1, <1>2, OneDirectoryChanges
  <1> QED
    BY <1>1, <1>3

\* The deletion of the snapshot directory leaves the targets.
LEMMA DroppedEffect ==
    ASSUME DiskOK, disk' = Dropped
    PROVE  /\ DiskOK'
           /\ \A d \in Dir : /\ Target(d)' = Target(d)
                             /\ Snapshot(d)' = Missing /\ Failed(d)' = Missing
  <1>1. ASSUME NEW d \in Dir
        PROVE  /\ disk'[d] \in [Place -> Holds(d)]
               /\ disk'[d]["target"] = disk[d]["target"]
               /\ disk'[d]["snapshot"] = Missing /\ disk'[d]["failed"] = Missing
    BY DEF Dropped, DiskOK, Place, Holds
  <1>2. \A d \in Dir : disk'[d] \in [Place -> Content]
    BY <1>1 DEF Holds, Content
  <1>3. disk' \in [Dir -> [Place -> Content]]
    BY <1>2 DEF Dropped
  <1> QED
    BY <1>1, <1>3 DEF DiskOK, Target, Snapshot, Failed

-----------------------------------------------------------------------------
(* The invariant holds initially and is kept by every action.              *)

LEMMA TypeParts ==
    TypeOK <=> /\ DiskOK
               /\ captured \in [Dir -> Content]
               /\ \A d \in Dir : captured[d] \in Holds(d)
               /\ saved \in SUBSET Note /\ agreed \in SUBSET Note
               /\ index \in Library /\ step \in Steps
               /\ budget \in [failures: Nat, ends: Nat, returns: BOOLEAN]
  BY DEF TypeOK, DiskOK

LEMMA TypesKept ==
    ASSUME DiskOK', captured' \in [Dir -> Content],
           \A d \in Dir : captured'[d] \in Holds(d),
           saved' \in SUBSET Note, agreed' \in SUBSET Note, index' \in Library,
           step' \in Steps,
           budget' \in [failures: Nat, ends: Nat, returns: BOOLEAN]
    PROVE  TypeOK'
  BY DEF TypeOK, DiskOK

LEMMA BudgetDecreases ==
    ASSUME budget \in [failures: Nat, ends: Nat, returns: BOOLEAN],
           (\E n \in {1, 2} : Fails(n)) \/ End
    PROVE  budget' \in [failures: Nat, ends: Nat, returns: BOOLEAN]
  <1>1. ASSUME NEW n \in {1, 2}, Fails(n)
        PROVE  budget' \in [failures: Nat, ends: Nat, returns: BOOLEAN]
    <2>1. budget.failures - n \in Nat
      BY <1>1 DEF Fails
    <2> QED
      BY <1>1, <2>1 DEF Fails
  <1>2. ASSUME End PROVE budget' \in [failures: Nat, ends: Nat, returns: BOOLEAN]
    <2>1. budget.ends - 1 \in Nat
      BY <1>2 DEF End
    <2> QED
      BY <1>2, <2>1 DEF End
  <1> QED
    BY <1>1, <1>2

LEMMA InitBoundary == Init => BoundaryInv
  <1> SUFFICES ASSUME Init PROVE BoundaryInv
    OBVIOUS
  <1> USE Directories
  <1>1. PICK n \in {Missing, [NoLibrary EXCEPT !.notes = {"before"}]},
             f \in {Missing, NoSyncFiles} :
          /\ disk = [d \in Dir |-> [p \in Place |->
                      IF p # "target" THEN Missing
                      ELSE IF d = "notebooks" THEN n ELSE f]]
          /\ captured = [d \in Dir |-> IF d = "notebooks" THEN n ELSE f]
          /\ saved = IF n = Missing THEN {} ELSE n.notes
    BY DEF Init
  <1>2. n \in {Missing} \union Library /\ f \in {Missing} \union SyncFiles
        /\ saved \in SUBSET Note /\ ~Advanced(f)
    <2>1. NoLibrary \in Library /\ [NoLibrary EXCEPT !.notes = {"before"}] \in Library
      BY DEF NoLibrary, Library, Note
    <2>2. NoSyncFiles \in SyncFiles /\ ~NoSyncFiles.cursor
      BY DEF NoSyncFiles, SyncFiles
    <2>3. n = Missing \/ n.notes \in SUBSET Note
      BY <2>1 DEF Library
    <2> QED
      BY <1>1, <2>1, <2>2, <2>3 DEF Advanced
  <1>3. TypeOK
    <2>1. step \in Steps /\ budget \in [failures: Nat, ends: Nat, returns: BOOLEAN]
          /\ agreed \in SUBSET Note /\ index \in Library
      BY BudgetsAssumption DEF Init, Steps, NoLibrary, Library
    <2>2. disk \in [Dir -> [Place -> Content]] /\ captured \in [Dir -> Content]
      BY <1>1, <1>2 DEF Content
    <2>3. \A d \in Dir : disk[d] \in [Place -> Holds(d)] /\ captured[d] \in Holds(d)
      BY <1>1, <1>2
    <2> QED
      BY <1>2, <2>1, <2>2, <2>3 DEF TypeOK
  <1>4. \A d \in Dir : Target(d) = captured[d]
    BY <1>1 DEF Target
  <1>5. step = "idle" /\ Target("device") = f
    BY <1>1 DEF Init, Target
  <1> QED
    BY <1>2, <1>3, <1>4, <1>5 DEF BoundaryInv, PriorStateKept, CapturedUnadvanced,
       Protected, NamesFree, Advancing, CursorWithContent, FilesNow, Copying, Acting,
       Swapping

LEMMA BeginKeeps == BoundaryInv /\ Begin => BoundaryInv'
  <1> SUFFICES ASSUME BoundaryInv, Begin PROVE BoundaryInv'
    OBVIOUS
  <1> USE Directories
  <1>1. /\ DiskOK'
        /\ \A d \in Dir : /\ Target(d)' = Target(d)
                          /\ Snapshot(d)' = Missing /\ Failed(d)' = Missing
    BY DroppedEffect, TypeParts DEF BoundaryInv, Begin
  <1>2. step' = "copy notebooks" /\ ~Advanced(Target("device"))
    BY DEF Begin, At, Files, Advanced
  <1>3. captured' \in [Dir -> Content] /\ \A d \in Dir : captured'[d] = Target(d)'
    <2>1. \A d \in Dir : Target(d) \in Content
      BY TypeParts DEF BoundaryInv, DiskOK, Target, Place
    <2>2. captured' = [d \in Dir |-> Target(d)]
      BY DEF Begin
    <2> QED
      BY <1>1, <2>1, <2>2
  <1>4. TypeOK'
    <2>1. \A d \in Dir : captured'[d] \in Holds(d)
      BY <1>1, <1>3 DEF DiskOK, Target, Place
    <2>2. agreed' \in SUBSET Note
      <3>1. Notes.notes \in SUBSET Note
        BY TypeParts DEF BoundaryInv, DiskOK, Notes, Target, Library, NoLibrary, Place
      <3> QED
        BY <3>1 DEF Begin
    <2> QED
      BY <1>1, <1>2, <1>3, <2>1, <2>2, TypeParts, TypesKept DEF BoundaryInv, Begin, Steps
  <1> QED
    BY <1>1, <1>2, <1>3, <1>4 DEF BoundaryInv, PriorStateKept, CapturedUnadvanced,
       Protected, NamesFree, Advancing, CursorWithContent, FilesNow, Copying, Acting,
       Swapping

LEMMA CopyKeeps == \A d \in Dir : BoundaryInv /\ Copy(d) => BoundaryInv'
  <1> SUFFICES ASSUME NEW d \in Dir, BoundaryInv, Copy(d) PROVE BoundaryInv'
    OBVIOUS
  <1> USE Directories
  <1> DEFINE new == [disk[d] EXCEPT !["snapshot"] = Target(d)]
  <1>1. /\ new \in [Place -> Holds(d)]
        /\ new["target"] = Target(d) /\ new["snapshot"] = Target(d)
        /\ new["failed"] = Failed(d)
    BY TypeParts DEF BoundaryInv, DiskOK, Place, Target, Failed
  <1>2. disk' = [disk EXCEPT ![d] = new]
    BY TypeParts DEF BoundaryInv, DiskOK, Copy
  <1>3. /\ DiskOK' /\ disk'[d] = new
        /\ \A e \in Dir : e # d => disk'[e] = disk[e]
    BY <1>1, <1>2, OneDirectoryChanges, TypeParts DEF BoundaryInv
  <1>4. /\ \A e \in Dir : Target(e)' = Target(e) /\ Failed(e)' = Failed(e)
        /\ Snapshot(d)' = Target(d)
        /\ \A e \in Dir : e # d => Snapshot(e)' = Snapshot(e)
    BY <1>1, <1>3 DEF Target, Failed, Snapshot
  <1>5. \/ d = "notebooks" /\ step = "copy notebooks" /\ step' = "copy device"
        \/ d = "device" /\ step = "copy device" /\ step' = "send"
    BY DEF Copy, At
  <1>6. TypeOK'
    BY <1>3, <1>5, TypeParts, TypesKept DEF BoundaryInv, Copy, notesVars, Steps
  <1>7. captured' = captured
    BY DEF Copy
  <1> USE DEF BoundaryInv, Copying, Acting, Swapping
  <1>8. PriorStateKept' /\ CapturedUnadvanced'
    BY <1>4, <1>5, <1>7 DEF PriorStateKept, CapturedUnadvanced, Protected, Snapshot
  <1>9. Protected'
    BY <1>4, <1>5, <1>7 DEF Protected, Intact, Snapshot
  <1>10. NamesFree' /\ Advancing'
    BY <1>4, <1>5, <1>7 DEF NamesFree, Advancing, CapturedUnadvanced, Protected
  <1>11. CursorWithContent'
    BY <1>4, <1>5 DEF CursorWithContent, FilesNow, LibraryNow
  <1> QED
    BY <1>6, <1>8, <1>9, <1>10, <1>11

\* An action that leaves the directories alone is judged by its steps.
LEMMA WithoutWritesKeeps ==
    ASSUME BoundaryInv,
           \/ Send \/ Download \/ DirectoryAppeared \/ Compare \/ InventoryDiffers
           \/ (IndexFails /\ disk' = disk)
           \/ ActionFails \/ Verify \/ SwapFails \/ ReturnFails \/ RollbackFails \/ End
           \/ UNCHANGED vars
    PROVE  BoundaryInv'
  <1> USE Directories
  <1>1. disk' = disk /\ captured' = captured
    BY DEF Send, Download, DirectoryAppeared, Compare, InventoryDiffers, IndexFails,
       ActionFails, Verify, SwapFails, ReturnFails, RollbackFails, End, vars, FailAt
  <1>2. DiskOK'
    BY <1>1, TypeParts DEF BoundaryInv, DiskOK, Place
  <1>3. step' \in Steps
    <2>1. CASE Send \/ Download \/ DirectoryAppeared \/ Compare \/ InventoryDiffers
      BY <2>1 DEF Send, Download, DirectoryAppeared, Compare, InventoryDiffers, FailAt, At,
         Steps
    <2>2. CASE IndexFails \/ ActionFails \/ Verify \/ SwapFails \/ ReturnFails \/ RollbackFails \/ End
      BY <2>2 DEF IndexFails, ActionFails, Verify, SwapFails, ReturnFails, RollbackFails, End, FailAt,
         At, Steps
    <2>3. CASE UNCHANGED vars
      BY <2>3, TypeParts DEF BoundaryInv, vars
    <2> QED
      BY <2>1, <2>2, <2>3
  <1>4. budget' \in [failures: Nat, ends: Nat, returns: BOOLEAN]
    <2>1. CASE IndexFails \/ ActionFails \/ SwapFails \/ ReturnFails \/ RollbackFails \/ End
      <3>1. (\E n \in {1, 2} : Fails(n)) \/ End
        BY <2>1 DEF IndexFails, ActionFails, SwapFails, ReturnFails, RollbackFails
      <3> QED
        BY <3>1, TypeParts, BudgetDecreases DEF BoundaryInv
    <2>2. CASE Send \/ Download \/ DirectoryAppeared \/ Compare \/ InventoryDiffers
               \/ Verify \/ UNCHANGED vars
      BY <2>2, TypeParts DEF BoundaryInv, Send, Download, DirectoryAppeared, Compare,
         InventoryDiffers, Verify, vars
    <2> QED
      BY <2>1, <2>2
  <1>5. saved' \in SUBSET Note /\ agreed' \in SUBSET Note /\ index' \in Library
    BY TypeParts DEF BoundaryInv, Send, Download, DirectoryAppeared, Compare,
       InventoryDiffers, IndexFails, ActionFails, Verify, SwapFails, ReturnFails, RollbackFails,
       End, vars, FailAt, notesVars
  <1>6. TypeOK'
    BY <1>1, <1>2, <1>3, <1>4, <1>5, TypeParts, TypesKept DEF BoundaryInv
  <1>7. /\ \A d \in Dir : /\ Target(d)' = Target(d) /\ Snapshot(d)' = Snapshot(d)
                          /\ Failed(d)' = Failed(d) /\ captured'[d] = captured[d]
        /\ HandedOff' = HandedOff /\ Intact' = Intact /\ PriorStateKept'
    BY <1>1 DEF Target, Snapshot, Failed, HandedOff, Intact, Files, Notes,
       PriorStateKept, BoundaryInv
  <1> USE <1>6, <1>7 DEF BoundaryInv, CapturedUnadvanced, Protected, NamesFree,
       Advancing, CursorWithContent, FilesNow, LibraryNow, Copying, Acting, Swapping, At
  <1>8. CASE Send \/ Download
    BY <1>8 DEF Send, Download
  <1>9. CASE Compare
    BY <1>9 DEF Compare
  <1>10. CASE DirectoryAppeared \/ InventoryDiffers \/ IndexFails \/ ActionFails
    BY <1>10 DEF DirectoryAppeared, InventoryDiffers, IndexFails, ActionFails, FailAt
  <1>11. CASE Verify
    BY <1>11 DEF Verify
  <1>12. CASE SwapFails
    BY <1>12 DEF SwapFails
  <1>13. CASE ReturnFails
    BY <1>13 DEF ReturnFails, Advanced
  <1>14. CASE RollbackFails
    BY <1>14 DEF RollbackFails
  <1>15. CASE End
    <2>1. step' = "idle" /\ step # "idle"
      BY <1>15 DEF End
    <2>2. CASE step \in {"put device", "return device", "clean"}
      BY <2>1, <2>2 DEF Advanced
    <2>3. CASE step \notin {"put device", "return device", "clean"}
      BY <2>1, <2>3
    <2> QED
      BY <2>2, <2>3
  <1>16. CASE UNCHANGED vars
    <2>1. step' = step
      BY <1>16 DEF vars
    <2>2. CapturedUnadvanced' /\ Protected'
      BY <2>1
    <2>3. NamesFree' /\ Advancing'
      BY <2>1
    <2>4. CursorWithContent'
      BY <2>1
    <2> QED
      BY <2>2, <2>3, <2>4
  <1> HIDE DEF BoundaryInv, CapturedUnadvanced, Protected, NamesFree, Advancing,
       CursorWithContent, FilesNow, LibraryNow, Copying, Acting, Swapping, At
  <1> HIDE <1>6, <1>7
  <1> QED
    BY <1>8, <1>9, <1>10, <1>11, <1>12, <1>13, <1>14, <1>15, <1>16

LEMMA ContentsTyped ==
    ASSUME TypeOK
    PROVE  /\ Notes \in Library /\ Files \in SyncFiles
           /\ \A d \in Dir : /\ Target(d) \in Holds(d) /\ Snapshot(d) \in Holds(d)
                             /\ Failed(d) \in Holds(d)
  <1>1. \A d \in Dir : /\ Target(d) \in Holds(d) /\ Snapshot(d) \in Holds(d)
                       /\ Failed(d) \in Holds(d)
    BY TypeParts DEF DiskOK, Target, Snapshot, Failed, Place
  <1>2. NoLibrary \in Library /\ NoSyncFiles \in SyncFiles
    BY DEF NoLibrary, NoSyncFiles, Library, SyncFiles
  <1> QED
    BY <1>1, <1>2, Directories DEF Notes, Files

\* Actions that write to the library.
LEMMA LibraryWritesKeep ==
    ASSUME BoundaryInv,
           \/ Save \/ MoveDirectory \/ WriteIndex
           \/ IndexFails /\ disk' # disk
    PROVE  BoundaryInv'
  <1> USE Directories
  <1>1. Notes \in Library /\ index \in Library
    BY ContentsTyped, TypeParts DEF BoundaryInv
  <1>2. PICK new \in Library :
          /\ Write("notebooks", new)
          /\ Save => new.arrival = Notes.arrival
          /\ WriteIndex => new.arrival = "listed"
    <2>1. \A library \in Library : \A n \in SUBSET Note :
             \A a \in {"absent", "moved", "listed"} :
               /\ [library EXCEPT !.notes = n] \in Library
               /\ [library EXCEPT !.notes = n].arrival = library.arrival
               /\ [library EXCEPT !.arrival = a] \in Library
               /\ [library EXCEPT !.arrival = a].arrival = a
      BY DEF Library
    <2>2. CASE Save
      <3>1. Notes.notes \union {"during"} \in SUBSET Note
        BY <1>1 DEF Library, Note
      <3>2. Write("notebooks", [Notes EXCEPT !.notes = Notes.notes \union {"during"}])
        BY <2>2 DEF Save
      <3>3. ~WriteIndex
        BY <2>2 DEF Save, WriteIndex, At
      <3> QED
        BY <1>1, <2>1, <3>1, <3>2, <3>3
    <2>3. CASE MoveDirectory
      <3>1. PICK a \in {"absent", "moved", "listed"} :
              Write("notebooks", [Notes EXCEPT !.arrival = a])
        <4>1. Notes.arrival \in {"absent", "moved", "listed"}
          BY <1>1 DEF Library
        <4> QED
          BY <2>3, <4>1 DEF MoveDirectory
      <3>2. ~Save /\ ~WriteIndex
        BY <2>3 DEF MoveDirectory, Save, WriteIndex, At
      <3> QED
        BY <1>1, <2>1, <3>1, <3>2
    <2>4. CASE WriteIndex
      <3>1. ~Save
        BY <2>4 DEF Save, WriteIndex, At
      <3> QED
        BY <1>1, <2>1, <2>4, <3>1 DEF WriteIndex, Library
    <2>5. CASE IndexFails /\ disk' # disk
      <3>1. Write("notebooks", index) /\ ~Save /\ ~WriteIndex
        BY <2>5 DEF IndexFails, Withdraw, FailAt, Save, WriteIndex, At
      <3> QED
        BY <1>1, <3>1
    <2> QED
      BY <2>2, <2>3, <2>4, <2>5
  <1>3. /\ DiskOK' /\ Target("notebooks")' = new /\ new # Missing
        /\ Snapshot("notebooks")' = Snapshot("notebooks")
        /\ Failed("notebooks")' = Failed("notebooks")
        /\ Target("device")' = Target("device") /\ Snapshot("device")' = Snapshot("device")
        /\ Failed("device")' = Failed("device")
    BY <1>2, WriteEffect, TypeParts DEF BoundaryInv, Target, Snapshot, Failed
  <1>4. captured' = captured /\ agreed' = agreed /\ saved' \in SUBSET Note
        /\ index' \in Library
    BY <1>1, TypeParts DEF BoundaryInv, Save, MoveDirectory, WriteIndex, IndexFails, FailAt,
       notesVars, Note
  <1>5. \/ Save /\ step \in ActionSteps /\ step' = step
        \/ step = "move" /\ step' = "index"
        \/ WriteIndex /\ step = "index" /\ step' = "compare"
        \/ step = "index" /\ step' = "verify"
    BY DEF Save, MoveDirectory, WriteIndex, IndexFails, FailAt, At
  <1>6. Save => (Listed(Target("notebooks")) => Listed(new))
    BY <1>2, <1>3 DEF Listed, Notes
  <1>7. budget' \in [failures: Nat, ends: Nat, returns: BOOLEAN]
    BY TypeParts, BudgetDecreases DEF BoundaryInv, Save, MoveDirectory, WriteIndex,
       IndexFails
  <1>8. TypeOK'
    BY <1>3, <1>4, <1>5, <1>7, TypeParts, TypesKept DEF BoundaryInv, Steps, ActionSteps
  <1>9. Intact /\ Intact'
    BY <1>3, <1>4, <1>5 DEF BoundaryInv, Protected, Acting, Intact, Snapshot, ActionSteps
  <1>10. PriorStateKept'
    BY <1>4, <1>9 DEF PriorStateKept, Intact
  <1>11. CapturedUnadvanced' /\ Protected'
    BY <1>4, <1>5, <1>9 DEF BoundaryInv, CapturedUnadvanced, Protected, Copying, Acting,
       ActionSteps
  <1>12. NamesFree'
    BY <1>3, <1>5 DEF BoundaryInv, NamesFree, Swapping, ActionSteps
  <1>13. Advancing'
    BY <1>2, <1>3, <1>5, <1>6 DEF BoundaryInv, Advancing, Acting, Listed, ActionSteps
  <1>14. CursorWithContent'
    BY <1>3, <1>5, <1>6 DEF BoundaryInv, Advancing, Acting, CursorWithContent, FilesNow,
       LibraryNow, Swapping, ActionSteps
  <1> QED
    BY <1>8, <1>10, <1>11, <1>12, <1>13, <1>14 DEF BoundaryInv

\* Actions that write to the sync files.
LEMMA SyncFileWritesKeep ==
    ASSUME BoundaryInv, DeleteMappings \/ WriteMappings \/ StoreCursor
    PROVE  BoundaryInv'
  <1> USE Directories
  <1>1. PICK mapped \in BOOLEAN, cursor \in BOOLEAN :
          /\ Write("device", [mapped |-> mapped, cursor |-> cursor])
          /\ \/ step = "unmap" /\ step' = "map" /\ ~cursor
             \/ step = "map" /\ step' = "cursor" /\ ~cursor /\ mapped
             \/ step = "cursor" /\ step' = "discard" /\ mapped /\ cursor
    <2>1. Files \in SyncFiles
      BY ContentsTyped DEF BoundaryInv
    <2>2. /\ step \in {"unmap", "map", "cursor"} => ~Files.cursor
          /\ step = "cursor" => Files.mapped
      BY DEF BoundaryInv, Advancing, Acting, Advanced, Mapped, Files, NoSyncFiles
    <2>3. \A b \in BOOLEAN :
             /\ [Files EXCEPT !.mapped = b] = [mapped |-> b, cursor |-> Files.cursor]
             /\ [Files EXCEPT !.cursor = b] = [mapped |-> Files.mapped, cursor |-> b]
             /\ Files.mapped \in BOOLEAN /\ Files.cursor \in BOOLEAN
      BY <2>1 DEF SyncFiles
    <2>4. CASE DeleteMappings
      BY <2>2, <2>3, <2>4 DEF DeleteMappings, Unmap, At
    <2>5. CASE WriteMappings
      BY <2>2, <2>3, <2>5 DEF WriteMappings, At
    <2>6. CASE StoreCursor
      BY <2>2, <2>3, <2>6 DEF StoreCursor, At
    <2> QED
      BY <2>4, <2>5, <2>6
  <1> DEFINE new == [mapped |-> mapped, cursor |-> cursor]
  <1>2. new \in Holds("device") /\ new # Missing
    <2>1. new \in SyncFiles
      BY DEF SyncFiles
    <2> QED
      BY <2>1
  <1>3. /\ DiskOK' /\ Target("device")' = new
        /\ Snapshot("device")' = Snapshot("device")
        /\ Failed("device")' = Failed("device")
        /\ Target("notebooks")' = Target("notebooks")
        /\ Snapshot("notebooks")' = Snapshot("notebooks")
        /\ Failed("notebooks")' = Failed("notebooks")
    BY <1>1, <1>2, WriteEffect, TypeParts DEF BoundaryInv, Target, Snapshot, Failed
  <1>4. captured' = captured /\ UNCHANGED notesVars /\ budget' = budget
    BY DEF DeleteMappings, WriteMappings, StoreCursor, notesVars
  <1>5. TypeOK'
    BY <1>1, <1>3, <1>4, TypeParts, TypesKept DEF BoundaryInv, Steps, notesVars
  <1>6. Intact /\ Intact'
    BY <1>1, <1>3, <1>4 DEF BoundaryInv, Protected, Acting, Intact, Snapshot
  <1>7. PriorStateKept'
    BY <1>4, <1>6 DEF PriorStateKept, Intact
  <1>8. CapturedUnadvanced' /\ Protected'
    BY <1>1, <1>4, <1>6 DEF BoundaryInv, CapturedUnadvanced, Protected, Copying, Acting
  <1>9. NamesFree'
    BY <1>1, <1>3 DEF BoundaryInv, NamesFree, Swapping
  <1>10. Advancing'
    BY <1>1, <1>2, <1>3 DEF BoundaryInv, Advancing, Acting, Mapped, Advanced
  <1>11. CursorWithContent'
    BY <1>1, <1>2, <1>3, <1>10 DEF BoundaryInv, Advancing, CursorWithContent, FilesNow,
       LibraryNow, Acting, Swapping, Mapped, Advanced
  <1> QED
    BY <1>5, <1>7, <1>8, <1>9, <1>10, <1>11 DEF BoundaryInv

\* Actions that delete the snapshot directory, or a part of it.
LEMMA DeletionsKeep ==
    ASSUME BoundaryInv, CopyFails \/ Discard \/ Clean \/ DiscardFails
    PROVE  BoundaryInv'
  <1> USE Directories
  <1>1. saved' = saved /\ agreed' = agreed /\ index' = index
    BY DEF CopyFails, Discard, Clean, DiscardFails, FailAt, notesVars
  <1>2. budget' \in [failures: Nat, ends: Nat, returns: BOOLEAN]
    BY TypeParts, BudgetDecreases DEF BoundaryInv, CopyFails, Discard, Clean, DiscardFails
  <1>3. CASE CopyFails \/ Discard \/ Clean
    <2>1. /\ DiskOK'
          /\ \A d \in Dir : /\ Target(d)' = Target(d)
                            /\ Snapshot(d)' = Missing /\ Failed(d)' = Missing
      BY <1>3, DroppedEffect, TypeParts DEF BoundaryInv, CopyFails, Discard, Clean
    <2>2. /\ step' = "idle"
          /\ \/ step \in {"copy notebooks", "copy device", "clean"} /\ captured' = captured
             \/ step = "discard" /\ captured' = [d \in Dir |-> Target(d)]
      BY <1>3 DEF CopyFails, Discard, Clean, At
    <2>3. \A d \in Dir : Target(d) \in Content /\ Target(d) \in Holds(d)
      BY TypeParts DEF BoundaryInv, DiskOK, Target, Place
    <2>4. captured' \in [Dir -> Content] /\ \A d \in Dir : captured'[d] \in Holds(d)
      <3>1. CASE captured' = captured
        BY <3>1, TypeParts DEF BoundaryInv
      <3>2. CASE captured' = [d \in Dir |-> Target(d)]
        BY <2>3, <3>2
      <3> QED
        BY <2>2, <3>1, <3>2
    <2>5. TypeOK'
      <3>1. step' \in Steps
        BY <2>2 DEF Steps
      <3> QED
        BY <1>1, <1>2, <2>1, <2>4, <3>1, TypeParts, TypesKept DEF BoundaryInv
    <2>6. \A d \in Dir : Target(d)' = captured'[d]
      BY <2>1, <2>2 DEF BoundaryInv, Protected, Copying
    <2>7. PriorStateKept'
      BY <2>6 DEF PriorStateKept
    <2>8. CursorWithContent'
      BY <2>1, <2>2 DEF BoundaryInv, Protected, CapturedUnadvanced, Copying, Advancing,
         CursorWithContent, FilesNow, LibraryNow, Swapping
    <2>9. CapturedUnadvanced' /\ Protected' /\ NamesFree' /\ Advancing'
      BY <2>2 DEF CapturedUnadvanced, Protected, NamesFree, Advancing, Copying, Acting,
         Swapping
    <2> QED
      BY <2>5, <2>7, <2>8, <2>9 DEF BoundaryInv
  <1>4. CASE DiscardFails
    <2>1. step = "discard" /\ step' = "verify" /\ captured' = captured
      BY <1>4 DEF DiscardFails, FailAt
    <2>2. /\ DiskOK'
          /\ \A d \in Dir : Target(d)' = Target(d) /\ Failed(d)' = Failed(d)
      <3>1. CASE UNCHANGED disk
        BY <3>1, TypeParts DEF BoundaryInv, DiskOK, Target, Failed
      <3>2. ASSUME NEW d \in Dir, disk' = [disk EXCEPT ![d]["snapshot"] = Missing]
            PROVE  /\ DiskOK'
                   /\ \A e \in Dir : Target(e)' = Target(e) /\ Failed(e)' = Failed(e)
        <4> DEFINE new == [disk[d] EXCEPT !["snapshot"] = Missing]
        <4>1. /\ new \in [Place -> Holds(d)]
              /\ new["target"] = Target(d) /\ new["failed"] = Failed(d)
          BY TypeParts DEF BoundaryInv, DiskOK, Place, Target, Failed, Holds
        <4>2. disk' = [disk EXCEPT ![d] = new]
          BY <3>2, TypeParts DEF BoundaryInv, DiskOK
        <4>3. /\ DiskOK' /\ disk'[d] = new
              /\ \A e \in Dir : e # d => disk'[e] = disk[e]
          BY <4>1, <4>2, OneDirectoryChanges, TypeParts DEF BoundaryInv
        <4> QED
          BY <4>1, <4>3 DEF Target, Failed
      <3> QED
        BY <1>4, <3>1, <3>2 DEF DiscardFails
    <2>3. TypeOK'
      BY <1>1, <1>2, <2>1, <2>2, TypeParts, TypesKept DEF BoundaryInv, Steps
    <2>4. HandedOff'
      <3>1. /\ Listed(Target("notebooks")) /\ Mapped(Target("device"))
            /\ Advanced(Target("device"))
        BY <2>1 DEF BoundaryInv, Advancing
      <3> QED
        BY <2>2, <3>1 DEF HandedOff, Files, Notes, Listed, Mapped, Advanced
    <2>5. PriorStateKept' /\ Protected'
      BY <2>1, <2>4 DEF PriorStateKept, Protected, Copying, Acting
    <2>6. CapturedUnadvanced' /\ NamesFree' /\ Advancing' /\ CursorWithContent'
      BY <2>1, <2>2 DEF BoundaryInv, CapturedUnadvanced, NamesFree, Advancing,
         CursorWithContent, FilesNow, LibraryNow, Acting, Swapping
    <2> QED
      BY <2>3, <2>5, <2>6 DEF BoundaryInv
  <1> QED
    BY <1>3, <1>4

\* What the renames of a rollback come to, a rename of nothing included: what is
\* moved arrives, since the name it takes is free.
LEMMA TakeEffect ==
    ASSUME BoundaryInv, NEW d \in Dir, Take(d)
    PROVE  /\ DiskOK' /\ Target(d)' = Missing /\ Failed(d)' = Target(d)
           /\ Snapshot(d)' = Snapshot(d)
           /\ \A e \in Dir : e # d => disk'[e] = disk[e]
  <1>1. Failed(d) = Missing
    BY Directories DEF Take, At, BoundaryInv, NamesFree, Swapping
  <1>2. CASE Target(d) = Missing
    <2>1. disk' = disk
      BY <1>2 DEF Take
    <2> QED
      BY <1>1, <1>2, <2>1, TypeParts DEF BoundaryInv, DiskOK, Target, Failed, Snapshot
  <1>3. CASE Target(d) # Missing
    <2>1. Rename(d, "target", "failed")
      BY <1>3 DEF Take
    <2> QED
      BY <2>1, RenameEffect, Directories, TypeParts
      DEF BoundaryInv, Target, Failed, Snapshot
  <1> QED
    BY <1>2, <1>3

LEMMA PutEffect ==
    ASSUME BoundaryInv, NEW d \in Dir, Put(d)
    PROVE  /\ DiskOK' /\ Target(d)' = captured[d] /\ Failed(d)' = Failed(d)
           /\ Snapshot(d)' = Missing
           /\ \A e \in Dir : e # d => disk'[e] = disk[e]
  <1>1. Target(d) = Missing /\ Snapshot(d) = captured[d]
    BY Directories DEF Put, At, BoundaryInv, Protected, Intact, Snapshot
  <1>2. CASE captured[d] = Missing
    <2>1. disk' = disk
      BY <1>2 DEF Put
    <2> QED
      BY <1>1, <1>2, <2>1, TypeParts DEF BoundaryInv, DiskOK, Target, Failed, Snapshot
  <1>3. CASE captured[d] # Missing
    <2>1. Rename(d, "snapshot", "target")
      BY <1>3 DEF Put
    <2> QED
      BY <1>1, <2>1, RenameEffect, Directories, TypeParts
      DEF BoundaryInv, Target, Failed, Snapshot
  <1> QED
    BY <1>2, <1>3

LEMMA ReturnEffect ==
    ASSUME BoundaryInv, NEW d \in Dir, Return(d)
    PROVE  /\ DiskOK' /\ Target(d)' = Failed(d) /\ Snapshot(d)' = Snapshot(d)
           /\ Failed(d)' = Missing
           /\ \A e \in Dir : e # d => disk'[e] = disk[e]
  <1>1. Target(d) = Missing
    BY Directories DEF Return, At, BoundaryInv, Protected
  <1>2. CASE Failed(d) = Missing
    <2>1. disk' = disk
      BY <1>2 DEF Return, Failed
    <2> QED
      BY <1>1, <1>2, <2>1, TypeParts DEF BoundaryInv, DiskOK, Target, Failed, Snapshot
  <1>3. CASE Failed(d) # Missing
    <2>1. Rename(d, "failed", "target")
      BY <1>3 DEF Return, Failed
    <2> QED
      BY <2>1, RenameEffect, Directories, TypeParts
      DEF BoundaryInv, Target, Failed, Snapshot
  <1> QED
    BY <1>2, <1>3

LEMMA WithdrawEffect ==
    ASSUME BoundaryInv, WithdrawCopy
    PROVE  /\ DiskOK' /\ Target("notebooks")' = Missing
           /\ Snapshot("notebooks")' = captured["notebooks"]
           /\ Failed("notebooks")' = Failed("notebooks")
           /\ disk'["device"] = disk["device"]
  <1>1. /\ Target("notebooks") = captured["notebooks"]
        /\ Snapshot("notebooks") = Missing
    BY DEF WithdrawCopy, At, BoundaryInv, Protected
  <1>2. CASE captured["notebooks"] = Missing
    <2>1. disk' = disk
      BY <1>2 DEF WithdrawCopy
    <2> QED
      BY <1>1, <1>2, <2>1, TypeParts DEF BoundaryInv, DiskOK, Target, Failed, Snapshot
  <1>3. CASE captured["notebooks"] # Missing
    <2>1. Rename("notebooks", "target", "snapshot")
      BY <1>3 DEF WithdrawCopy, TakeBack
    <2> QED
      BY <1>1, <2>1, RenameEffect, Directories, TypeParts
      DEF BoundaryInv, Target, Failed, Snapshot
  <1> QED
    BY <1>2, <1>3

LEMMA SwapsKeep ==
    ASSUME BoundaryInv, WithdrawCopy \/ \E d \in Dir : Take(d) \/ Put(d) \/ Return(d)
    PROVE  BoundaryInv'
  <1> USE Directories
  <1>1. DiskOK'
    BY TakeEffect, PutEffect, ReturnEffect, WithdrawEffect
  <1>2. UNCHANGED <<captured, notesVars, budget>> /\ step' \in Steps
    BY DEF Take, Put, Return, WithdrawCopy, At, Steps
  <1>3. TypeOK'
    BY <1>1, <1>2, TypeParts, TypesKept DEF BoundaryInv, notesVars
  <1>4. \A d, e \in Dir : e # d /\ (Take(d) \/ Put(d) \/ Return(d)) =>
           Target(e)' = Target(e) /\ Snapshot(e)' = Snapshot(e) /\ Failed(e)' = Failed(e)
    BY TakeEffect, PutEffect, ReturnEffect DEF Target, Snapshot, Failed
  <1>5. WithdrawCopy => /\ Target("device")' = Target("device")
                        /\ Snapshot("device")' = Snapshot("device")
                        /\ Failed("device")' = Failed("device")
    BY WithdrawEffect DEF Target, Snapshot, Failed
  <1> USE DEF BoundaryInv, Copying, Acting, Swapping, At
  <1>6. CapturedUnadvanced' /\ Advancing'
    BY <1>2 DEF CapturedUnadvanced, Advancing, Take, Put, Return, WithdrawCopy
  <1>7. /\ Take("notebooks") =>
              /\ step = "take notebooks" /\ step' = "put notebooks"
              /\ Target("notebooks")' = Missing
              /\ Snapshot("notebooks")' = Snapshot("notebooks")
              /\ Snapshot("device")' = Snapshot("device")
        /\ Take("device") =>
              /\ step = "take device" /\ step' = "put device"
              /\ Target("device")' = Missing
              /\ Snapshot("device")' = Snapshot("device")
              /\ Target("notebooks")' = Target("notebooks")
              /\ Snapshot("notebooks")' = Snapshot("notebooks")
    BY <1>4, TakeEffect DEF Take
  <1>8. /\ Put("notebooks") =>
              /\ step = "put notebooks" /\ step' = "take device"
              /\ Target("notebooks")' = captured["notebooks"]
              /\ Snapshot("notebooks")' = Missing
              /\ Snapshot("device")' = Snapshot("device")
        /\ Put("device") =>
              /\ step = "put device" /\ step' = "clean"
              /\ Target("device")' = captured["device"]
              /\ Target("notebooks")' = Target("notebooks")
    BY <1>4, PutEffect DEF Put
  <1>9. /\ Return("notebooks") =>
              /\ step = "return notebooks" /\ step' = "idle"
              /\ Snapshot("notebooks")' = Snapshot("notebooks")
              /\ Snapshot("device")' = Snapshot("device")
        /\ Return("device") =>
              /\ step = "return device" /\ step' = "withdraw notebooks"
              /\ Snapshot("device")' = Snapshot("device")
              /\ Target("notebooks")' = Target("notebooks")
              /\ Snapshot("notebooks")' = Snapshot("notebooks")
    BY <1>4, ReturnEffect DEF Return
  <1>10. Protected'
    <2> USE DEF Protected, Intact, Snapshot
    <2>1. CASE Take("notebooks")
      BY <1>2, <1>7, <2>1
    <2>2. CASE Take("device")
      BY <1>2, <1>7, <2>2
    <2>3. CASE Put("notebooks")
      BY <1>2, <1>8, <2>3
    <2>4. CASE Put("device")
      BY <1>2, <1>8, <2>4
    <2>5. CASE Return("notebooks")
      BY <1>9, <2>5
    <2>6. CASE Return("device")
      BY <1>2, <1>9, <2>6
    <2>7. CASE WithdrawCopy
      BY <1>2, <1>5, <2>7, WithdrawEffect DEF WithdrawCopy
    <2> QED
      BY <2>1, <2>2, <2>3, <2>4, <2>5, <2>6, <2>7
  <1>11. PriorStateKept'
    <2>1. \A d \in Dir : captured[d] \in {Target(d)', Snapshot(d)'}
      <3> USE DEF Protected, Intact, Snapshot
      <3>1. CASE Take("notebooks")
        BY <1>7, <3>1
      <3>2. CASE Take("device")
        BY <1>7, <3>2
      <3>3. CASE Put("notebooks")
        BY <1>8, <3>3
      <3>4. CASE Put("device")
        BY <1>8, <3>4
      <3>5. CASE Return("notebooks")
        BY <1>9, <3>5
      <3>6. CASE Return("device")
        BY <1>9, <3>6
      <3>7. CASE WithdrawCopy
        BY <1>5, <3>7, WithdrawEffect DEF WithdrawCopy
      <3> QED
        BY <3>1, <3>2, <3>3, <3>4, <3>5, <3>6, <3>7
    <2> QED
      BY <1>2, <2>1 DEF PriorStateKept, Snapshot
  <1>12. NamesFree'
    BY <1>4, <1>5, TakeEffect, PutEffect, ReturnEffect, WithdrawEffect
    DEF NamesFree, Take, Put, Return, WithdrawCopy
  <1>13. CursorWithContent'
    <2> USE DEF CursorWithContent, FilesNow, LibraryNow
    <2>1. CASE Take("notebooks") \/ Take("device")
      BY <1>4, <2>1, TakeEffect DEF Take
    <2>2. CASE Put("notebooks")
      BY <1>4, <2>2, PutEffect DEF Put
    <2>3. CASE Put("device")
      BY <2>3, PutEffect DEF Put, Protected, CapturedUnadvanced
    <2>4. CASE Return("notebooks") \/ Return("device")
      BY <1>4, <2>4, ReturnEffect DEF Return
    <2>5. CASE WithdrawCopy
      BY <1>5, <2>5, WithdrawEffect DEF WithdrawCopy
    <2> QED
      BY <2>1, <2>2, <2>3, <2>4, <2>5
  <1> QED
    BY <1>3, <1>6, <1>10, <1>11, <1>12, <1>13

-----------------------------------------------------------------------------
(* The theorems.                                                           *)

LEMMA NextKeepsBoundary == BoundaryInv /\ [Next]_vars => BoundaryInv'
  <1> SUFFICES ASSUME BoundaryInv, [Next]_vars PROVE BoundaryInv'
    OBVIOUS
  <1>1. CASE Begin
    BY <1>1, BeginKeeps
  <1>2. CASE Save \/ MoveDirectory \/ WriteIndex \/ (IndexFails /\ disk' # disk)
    BY <1>2, LibraryWritesKeep
  <1>3. CASE IndexFails /\ disk' = disk
    BY <1>3, WithoutWritesKeeps
  <1>4. CASE Act
    BY <1>2, <1>3, <1>4, CopyKeeps, DeletionsKeep, SyncFileWritesKeep, WithoutWritesKeeps
    DEF Act
  <1>5. CASE RollBack
    BY <1>5, SwapsKeep, DeletionsKeep, WithoutWritesKeeps DEF RollBack
  <1>6. CASE End \/ UNCHANGED vars
    BY <1>6, WithoutWritesKeeps
  <1> QED
    BY <1>1, <1>2, <1>4, <1>5, <1>6 DEF Next

LEMMA BoundaryInvariant == Spec => []BoundaryInv
  BY InitBoundary, NextKeepsBoundary, PTL DEF Spec

\* The directories hold what belongs there.
THEOREM BoundaryTypes == Spec => []TypeOK
  <1>1. BoundaryInv => TypeOK
    BY DEF BoundaryInv
  <1> QED
    BY <1>1, BoundaryInvariant, PTL

\* Whatever fails, however often, and wherever the app ends: until the handoff is
\* complete, what the directories held before the attempt is in its place or in
\* the snapshot.
THEOREM PriorStateIsKept == Spec => []PriorStateKept
  <1>1. BoundaryInv => PriorStateKept
    BY DEF BoundaryInv
  <1> QED
    BY <1>1, BoundaryInvariant, PTL

\* Between attempts a cursor is stored only where everything is mapped and listed,
\* but for a complete handoff whose rollback did not end.
THEOREM HandoffIsInOrder == Spec => []HandoffInOrder
  <1>1. BoundaryInv => HandoffInOrder
    BY DEF BoundaryInv, HandoffInOrder, CursorWithContent, HandedOff, Stranded, Files,
       Notes, FilesNow, LibraryNow, Listed, Mapped, Advanced, Failed, Swapping, NoSyncFiles
  <1> QED
    BY <1>1, BoundaryInvariant, PTL

\* A behaviour in which the app does not end, and what is taken back is taken back.
Uninterrupted == budget.ends = 0 /\ ~budget.returns

\* Nothing but a failure or an end is counted.
LEMMA OnlyFaultsSpend ==
    ASSUME [Next]_vars
    PROVE  budget' = budget \/ (\E n \in {1, 2} : Fails(n)) \/ End
  <1>1. CASE Begin \/ Save \/ UNCHANGED vars
    BY <1>1 DEF Begin, Save, vars
  <1>2. CASE Act
    BY <1>2 DEF Act, Copy, CopyFails, Send, Download, MoveDirectory, DirectoryAppeared,
       WriteIndex, IndexFails, Compare, InventoryDiffers, DeleteMappings, WriteMappings,
       StoreCursor, ActionFails, Discard, DiscardFails
  <1>3. CASE RollBack
    BY <1>3 DEF RollBack, Verify, Take, Put, Return, SwapFails, WithdrawCopy, ReturnFails,
       Clean, RollbackFails
  <1> QED
    BY <1>1, <1>2, <1>3 DEF Next

UninterruptedInv ==
    /\ BoundaryInv
    /\ Uninterrupted
    /\ step = "idle" /\ Advanced(Target("device")) => Listed(Target("notebooks"))

\* In such a behaviour there is no exception: between attempts, whatever failed, a
\* cursor is stored only where everything is mapped and listed.
THEOREM UninterruptedHandoffIsInOrder ==
    Spec /\ Uninterrupted => [](step = "idle" /\ Files.cursor => HandedOff)
  <1>1. Init /\ Uninterrupted => UninterruptedInv
    <2> SUFFICES ASSUME Init, Uninterrupted PROVE UninterruptedInv
      OBVIOUS
    <2>1. Target("device") = Missing \/ Target("device") = NoSyncFiles
      BY Directories DEF Init, Target
    <2>2. ~Advanced(Target("device"))
      BY <2>1 DEF Advanced, NoSyncFiles
    <2> QED
      BY <2>2, InitBoundary DEF UninterruptedInv
  <1>2. UninterruptedInv /\ [Next]_vars => UninterruptedInv'
    <2> SUFFICES ASSUME UninterruptedInv, [Next]_vars PROVE UninterruptedInv'
      OBVIOUS
    <2>1. BoundaryInv'
      BY NextKeepsBoundary DEF UninterruptedInv
    <2>2. ~End /\ ~ReturnFails
      <3>1. budget.ends = 0 /\ ~budget.returns
        BY DEF UninterruptedInv, Uninterrupted
      <3>2. ~End
        BY <3>1 DEF End
      <3>3. ~ReturnFails
        BY <3>1, Zenon DEF ReturnFails
      <3> QED
        BY <3>2, <3>3
    <2>3. Uninterrupted'
      <3>1. budget' = budget \/ \E n \in {1, 2} : Fails(n)
        BY <2>2, OnlyFaultsSpend
      <3>2. budget'.ends = budget.ends /\ budget'.returns = budget.returns
        BY <3>1, TypeParts DEF UninterruptedInv, BoundaryInv, Fails
      <3> QED
        BY <3>2 DEF UninterruptedInv, Uninterrupted
    <2>4. step # "idle" /\ step' = "idle" =>
            Failed("notebooks")' = Missing \/ ~Advanced(Target("device"))'
      <3> SUFFICES ASSUME step # "idle", step' = "idle"
                   PROVE  Failed("notebooks")' = Missing \/ ~Advanced(Target("device"))'
        OBVIOUS
      <3> USE Directories DEF UninterruptedInv
      <3>1. \/ CopyFails \/ Discard \/ Clean \/ Return("notebooks")
            \/ (Verify \/ SwapFails \/ RollbackFails)
        BY <2>2 DEF Next, vars, Begin, Save, Act, RollBack, Copy, Send, Download,
           MoveDirectory, DirectoryAppeared, WriteIndex, IndexFails, Compare,
           InventoryDiffers, DeleteMappings, WriteMappings, StoreCursor, ActionFails,
           DiscardFails, Take, Put, Return, WithdrawCopy, At, FailAt
      <3>2. CASE CopyFails \/ Discard \/ Clean
        BY <3>2, DroppedEffect, TypeParts DEF BoundaryInv, CopyFails, Discard, Clean
      <3>3. CASE Return("notebooks")
        BY <3>3, ReturnEffect
      <3>4. CASE Verify \/ SwapFails \/ RollbackFails
        <4>1. disk' = disk /\ step \in {"verify", "take notebooks", "clean"}
          BY <3>4 DEF Verify, SwapFails, RollbackFails, At
        <4>2. CASE step = "clean"
          BY <4>1, <4>2 DEF BoundaryInv, Protected, CapturedUnadvanced, Target
        <4>3. CASE step \in {"verify", "take notebooks"}
          BY <4>1, <4>3 DEF BoundaryInv, NamesFree, Swapping, Failed
        <4> QED
          BY <4>1, <4>2, <4>3
      <3> QED
        BY <3>1, <3>2, <3>3, <3>4
    <2>5. CASE step # "idle"
      <3>1. step' = "idle" /\ Advanced(Target("device"))' => Listed(Target("notebooks"))'
        BY <2>1, <2>4, <2>5 DEF BoundaryInv, CursorWithContent, FilesNow, LibraryNow,
           Swapping, Listed
      <3> QED
        BY <2>1, <2>3, <3>1 DEF UninterruptedInv
    <2>6. CASE step = "idle"
      <3>1. ~Save /\ ~Act
        BY <2>6 DEF Save, ActionSteps, Act, Copy, CopyFails, Send, Download, MoveDirectory,
           DirectoryAppeared, WriteIndex, IndexFails, Compare, InventoryDiffers,
           DeleteMappings, WriteMappings, StoreCursor, ActionFails, Discard, DiscardFails,
           At, FailAt
      <3>2. ~RollBack
        BY <2>6 DEF RollBack, Verify, Take, Put, SwapFails, Return, WithdrawCopy,
           ReturnFails, Clean, RollbackFails, At
      <3>3. step' # "idle" \/ UNCHANGED vars
        BY <2>2, <3>1, <3>2 DEF Next, Begin, At
      <3> QED
        BY <2>1, <2>3, <3>3 DEF UninterruptedInv, vars, Target
    <2> QED
      BY <2>5, <2>6
  <1>3. UninterruptedInv => (step = "idle" /\ Files.cursor => HandedOff)
    BY DEF UninterruptedInv, BoundaryInv, CursorWithContent, HandedOff, Files, Notes,
       FilesNow, Listed, Mapped, Advanced, NoSyncFiles
  <1> QED
    BY <1>1, <1>2, <1>3, PTL DEF Spec

=============================================================================
