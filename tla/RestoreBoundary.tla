--------------------------- MODULE RestoreBoundary ---------------------------
(***************************************************************************)
(* The first sign-in of a device: notebooks of the cloud are added to the  *)
(* library, they are mapped, and at last the cursor is stored, all inside  *)
(* a boundary that copies the library and the device's sync files first    *)
(* and puts the copies back if anything fails.  The user goes on working    *)
(* meanwhile.                                                              *)
(*                                                                         *)
(* The boundary renames and deletes whole directories, one after another;  *)
(* any of these can fail, and the app can end between two of them.  What   *)
(* is on the disk then is what the next attempt starts from: nothing looks *)
(* for the copies of an attempt that did not end.                          *)
(***************************************************************************)
EXTENDS Naturals

CONSTANTS
    Missing, \* there is no such directory
    Budgets  \* how often something fails and the app ends, and whether what
             \* takes a failed rollback back may fail too; one is chosen

ASSUME BudgetsAssumption ==
    Budgets \subseteq [failures: Nat, ends: Nat, returns: BOOLEAN]

VARIABLES
    disk,     \* disk[d][p]: what directory d holds at place p
    captured, \* what the directories held when the attempt began
    saved,    \* the notes the user has saved, before the attempt and during it
    agreed,   \* the notes the library may hold when the attempt compares it
    index,    \* what index.json listed when notebooks were about to be added
    step,     \* where the attempt is
    budget    \* what may still happen

notesVars == <<saved, agreed, index>>
vars == <<disk, captured, saved, agreed, index, step, budget>>

\* The library and the sync files of the device; where they belong, their copies
\* in the snapshot, and what a rollback moves out of the way.
Dir == {"notebooks", "device"}
Place == {"target", "snapshot", "failed"}

\* The notes of the user, in notebooks of their own, by when they are saved, and
\* the notebook that comes from the cloud.
Note == {"before", "during"}
Library == [notes: SUBSET Note, arrival: {"absent", "moved", "listed"}]

\* resources.json maps the resources, state.json has the cursor.
SyncFiles == [mapped: BOOLEAN, cursor: BOOLEAN]

ASSUME MissingAssumption == Missing \notin Library \union SyncFiles

Holds(d) == {Missing} \union IF d = "notebooks" THEN Library ELSE SyncFiles
Content == {Missing} \union Library \union SyncFiles

Steps ==
    {"idle", "copy notebooks", "copy device", "send", "download", "move", "index",
     "compare", "unmap", "map", "cursor", "discard", "verify", "take notebooks",
     "put notebooks", "take device", "put device", "return device",
     "withdraw notebooks", "return notebooks", "clean"}

\* From the copies to the end of the attempt, unless it is rolled back.
ActionSteps ==
    {"send", "download", "move", "index", "compare", "unmap", "map", "cursor",
     "discard"}

\* Directories hold what belongs there, at each place.
TypeOK ==
    /\ disk \in [Dir -> [Place -> Content]] /\ captured \in [Dir -> Content]
    /\ \A d \in Dir : disk[d] \in [Place -> Holds(d)] /\ captured[d] \in Holds(d)
    /\ saved \in SUBSET Note /\ agreed \in SUBSET Note /\ index \in Library
    /\ step \in Steps
    /\ budget \in [failures: Nat, ends: Nat, returns: BOOLEAN]

NoLibrary == [notes |-> {}, arrival |-> "absent"]
NoSyncFiles == [mapped |-> FALSE, cursor |-> FALSE]

\* The app may have been used before the sign-in, or not.
Init ==
    /\ \E n \in {Missing, [NoLibrary EXCEPT !.notes = {"before"}]},
          f \in {Missing, NoSyncFiles} :
        /\ disk = [d \in Dir |-> [p \in Place |->
                    IF p # "target" THEN Missing
                    ELSE IF d = "notebooks" THEN n ELSE f]]
        /\ captured = [d \in Dir |-> IF d = "notebooks" THEN n ELSE f]
        /\ saved = IF n = Missing THEN {} ELSE n.notes
    /\ agreed = {} /\ index = NoLibrary
    /\ step = "idle"
    /\ budget \in Budgets

-----------------------------------------------------------------------------
Target(d) == disk[d]["target"]

\* A directory that is missing is created when something is written to it.
Notes == IF Target("notebooks") = Missing THEN NoLibrary ELSE Target("notebooks")
Files == IF Target("device") = Missing THEN NoSyncFiles ELSE Target("device")

At(from, to) == step = from /\ step' = to

Write(d, content) == disk' = [disk EXCEPT ![d]["target"] = content]

\* Fault: whatever is renamed, the library is what arrives.
RenameLibrary(d, from, to) ==
    disk' = [disk EXCEPT ![d][to] = disk["notebooks"][from], ![d][from] = Missing]

\* A directory is renamed; the name it takes is free.
Rename(d, from, to) ==
    disk' = [disk EXCEPT ![d][to] = disk[d][from], ![d][from] = Missing]

\* The snapshot directory with everything in it is deleted.
Dropped == [d \in Dir |-> [disk[d] EXCEPT !["snapshot"] = Missing,
                                          !["failed"] = Missing]]

Fails(n) ==
    /\ budget.failures >= n
    /\ budget' = [budget EXCEPT !.failures = @ - n]

\* Something fails and the boundary turns to the rollback.
FailAt(s) == step = s /\ step' = "verify" /\ UNCHANGED <<captured, notesVars>>

-----------------------------------------------------------------------------
(* The copies.                                                             *)

\* An attempt is made as long as there is no cursor.  It has a snapshot directory
\* of its own; that of an attempt that did not end stays, and nothing reads it.
\* (A device that has a cursor enters the boundary for notebooks of its own that
\* the cloud does not list yet; this module is about the first sign-in only.)
\* What is to be sent is settled before: a library that lists notebooks is merged,
\* and nothing else may be in it later; an empty one is restored, uncompared.
Begin ==
    /\ At("idle", "copy notebooks")
    /\ ~Files.cursor
    /\ disk' = Dropped
    /\ captured' = [d \in Dir |-> Target(d)]
    /\ agreed' = IF Notes.notes = {} /\ Notes.arrival # "listed"
                 THEN Note ELSE Notes.notes
    /\ UNCHANGED <<saved, index, budget>>

\* The copy is listed in the manifest and compared with it.
Copy(d) ==
    /\ \/ d = "notebooks" /\ At("copy notebooks", "copy device")
       \/ d = "device" /\ At("copy device", "send")
    /\ disk' = [disk EXCEPT ![d]["snapshot"] = Target(d)]
    /\ UNCHANGED <<captured, notesVars, budget>>

\* A snapshot that cannot be completed is deleted; nothing else was written.
CopyFails ==
    /\ step \in {"copy notebooks", "copy device"} /\ step' = "idle"
    /\ Fails(1)
    /\ disk' = Dropped
    /\ UNCHANGED <<captured, notesVars>>

-----------------------------------------------------------------------------
(* The action inside the boundary.                                         *)

Send ==
    /\ At("send", "download")
    /\ UNCHANGED <<disk, captured, notesVars, budget>>

\* The user creates a notebook, at any step of the action.
Save ==
    /\ step \in ActionSteps /\ "during" \notin saved
    /\ saved' = saved \union {"during"}
    /\ Write("notebooks", [Notes EXCEPT !.notes = @ \union {"during"}])
    /\ UNCHANGED <<captured, agreed, index, step, budget>>

Download ==
    /\ At("download", "move")
    /\ UNCHANGED <<disk, captured, notesVars, budget>>

\* index.json is read.  A notebook that it does not list has been downloaded, and
\* the directory is renamed into the library, unless one of that name is there.
MoveDirectory ==
    /\ Notes.arrival # "moved"
    /\ At("move", "index")
    /\ index' = Notes
    /\ Write("notebooks", [Notes EXCEPT !.arrival = IF @ = "absent" THEN "moved" ELSE @])
    /\ UNCHANGED <<captured, saved, agreed, budget>>

DirectoryAppeared ==
    /\ Notes.arrival = "moved"
    /\ FailAt("move")
    /\ UNCHANGED <<disk, budget>>

\* What was read is written again, with what was added: a notebook that the user
\* created in between is not listed any more.
WriteIndex ==
    /\ At("index", "compare")
    /\ Write("notebooks", [index EXCEPT !.arrival = "listed"])
    /\ UNCHANGED <<captured, notesVars, budget>>

\* Fault: the directories that were moved stay.
KeepMoved == UNCHANGED disk

\* The indexes get their former contents and the directories are deleted.
Withdraw == Write("notebooks", index)

\* Withdrawing may fail as well.
IndexFails ==
    /\ FailAt("index")
    /\ \/ Fails(1) /\ Withdraw
       \/ Fails(2) /\ UNCHANGED disk

\* The library must list what the cloud has, and nothing else.
Compare ==
    /\ Notes.notes \subseteq agreed
    /\ At("compare", "unmap")
    /\ UNCHANGED <<disk, captured, notesVars, budget>>

InventoryDiffers ==
    /\ ~(Notes.notes \subseteq agreed)
    /\ FailAt("compare")
    /\ UNCHANGED <<disk, budget>>

\* Fault: the cursor is stored with the first of the mappings.
MapAndAdvance == Write("device", [Files EXCEPT !.mapped = FALSE, !.cursor = TRUE])

\* resources.json is deleted ...
Unmap == Write("device", [Files EXCEPT !.mapped = FALSE])

DeleteMappings ==
    /\ At("unmap", "map")
    /\ Unmap
    /\ UNCHANGED <<captured, notesVars, budget>>

\* ... before its successor is renamed into its place.
WriteMappings ==
    /\ At("map", "cursor")
    /\ Write("device", [Files EXCEPT !.mapped = TRUE])
    /\ UNCHANGED <<captured, notesVars, budget>>

StoreCursor ==
    /\ At("cursor", "discard")
    /\ Write("device", [Files EXCEPT !.cursor = TRUE])
    /\ UNCHANGED <<captured, notesVars, budget>>

ActionFails ==
    /\ \E s \in {"send", "download", "move", "unmap", "map", "cursor"} : FailAt(s)
    /\ Fails(1)
    /\ UNCHANGED disk

Discard ==
    /\ At("discard", "idle")
    /\ disk' = Dropped
    /\ captured' = [d \in Dir |-> Target(d)]
    /\ UNCHANGED <<notesVars, budget>>

\* The snapshot may be deleted in part, or not at all.
DiscardFails ==
    /\ FailAt("discard")
    /\ Fails(1)
    /\ \/ UNCHANGED disk
       \/ \E d \in Dir : disk' = [disk EXCEPT ![d]["snapshot"] = Missing]

-----------------------------------------------------------------------------
(* The rollback.                                                           *)

Intact == \A d \in Dir : disk[d]["snapshot"] = captured[d]

\* Nothing is put back from a snapshot that is not what was captured.
Verify ==
    /\ At("verify", IF Intact THEN "take notebooks" ELSE "idle")
    /\ UNCHANGED <<disk, captured, notesVars, budget>>

\* What is there is moved out of the way, and the copy moved in.
Take(d) ==
    /\ \/ d = "notebooks" /\ At("take notebooks", "put notebooks")
       \/ d = "device" /\ At("take device", "put device")
    /\ IF Target(d) = Missing THEN UNCHANGED disk ELSE Rename(d, "target", "failed")
    /\ UNCHANGED <<captured, notesVars, budget>>

Put(d) ==
    /\ \/ d = "notebooks" /\ At("put notebooks", "take device")
       \/ d = "device" /\ At("put device", "clean")
    /\ IF captured[d] = Missing THEN UNCHANGED disk
       ELSE Rename(d, "snapshot", "target")
    /\ UNCHANGED <<captured, notesVars, budget>>

\* A rename that fails is followed by the return of what was moved before it.
SwapFails ==
    /\ \/ At("take notebooks", "idle")
       \/ At("put notebooks", "return notebooks")
       \/ At("take device", "withdraw notebooks")
       \/ At("put device", "return device")
    /\ Fails(1)
    /\ UNCHANGED <<disk, captured, notesVars>>

Return(d) ==
    /\ \/ d = "device" /\ At("return device", "withdraw notebooks")
       \/ d = "notebooks" /\ At("return notebooks", "idle")
    /\ IF disk[d]["failed"] = Missing THEN UNCHANGED disk
       ELSE Rename(d, "failed", "target")
    /\ UNCHANGED <<captured, notesVars, budget>>

\* Fault: the copy is deleted to make room.
DropCopy == Write("notebooks", Missing)

\* The copy of the library goes back to the snapshot.
TakeBack == Rename("notebooks", "target", "snapshot")

WithdrawCopy ==
    /\ At("withdraw notebooks", "return notebooks")
    /\ IF captured["notebooks"] = Missing THEN UNCHANGED disk ELSE TakeBack
    /\ UNCHANGED <<captured, notesVars, budget>>

\* If a return fails, those after it are not tried, but for the library's after
\* the device's.
ReturnFails ==
    /\ \/ At("return device", "withdraw notebooks")
       \/ step \in {"withdraw notebooks", "return notebooks"} /\ step' = "idle"
    /\ budget.returns
    /\ Fails(1)
    /\ UNCHANGED <<disk, captured, notesVars>>

Clean ==
    /\ At("clean", "idle")
    /\ disk' = Dropped
    /\ UNCHANGED <<captured, notesVars, budget>>

RollbackFails ==
    /\ step \in {"verify", "clean"} /\ step' = "idle"
    /\ Fails(1)
    /\ UNCHANGED <<disk, captured, notesVars>>

\* The app ends; the disk stays as it is.
End ==
    /\ step # "idle" /\ step' = "idle"
    /\ budget.ends > 0
    /\ budget' = [budget EXCEPT !.ends = @ - 1]
    /\ UNCHANGED <<disk, captured, notesVars>>

-----------------------------------------------------------------------------
Act ==
    \/ \E d \in Dir : Copy(d)
    \/ CopyFails
    \/ Send
    \/ Download
    \/ MoveDirectory
    \/ DirectoryAppeared
    \/ WriteIndex
    \/ IndexFails
    \/ Compare
    \/ InventoryDiffers
    \/ DeleteMappings
    \/ WriteMappings
    \/ StoreCursor
    \/ ActionFails
    \/ Discard
    \/ DiscardFails

RollBack ==
    \/ Verify
    \/ \E d \in Dir : Take(d) \/ Put(d) \/ Return(d)
    \/ SwapFails
    \/ WithdrawCopy
    \/ ReturnFails
    \/ Clean
    \/ RollbackFails

Next == Begin \/ Save \/ Act \/ RollBack \/ End

Spec == Init /\ [][Next]_vars

\* An attempt goes on to its end, and the next one is made as long as there is
\* no cursor: the library screen asks for a cycle every thirty seconds.
FairSpec == Spec /\ WF_vars(Begin) /\ WF_vars(Act \/ RollBack)

-----------------------------------------------------------------------------
(* Properties.                                                             *)

HandedOff == Files.cursor /\ Files.mapped /\ Notes.arrival = "listed"

\* Whatever fails, however often, and wherever the app ends: until the handoff
\* is complete, what the directories held before the attempt is still there,
\* in its place or in the snapshot.
PriorStateKept ==
    \/ HandedOff
    \/ \A d \in Dir : captured[d] \in {Target(d), disk[d]["snapshot"]}

\* The library that a rollback moved out of the way and did not bring back.
Stranded ==
    LET library == disk["notebooks"]["failed"]
    IN  library # Missing /\ library.arrival = "listed"

\* Between attempts there is a cursor only where everything is mapped and listed,
\* "incomplete handoff never advertises an initialized Cursor" (product brief): an
\* app that starts anew never polls for changes to content it does not have.  The
\* one exception is a complete handoff whose rollback was itself cut short: then
\* the content is what that rollback moved away.
HandoffInOrder ==
    step = "idle" /\ Files.cursor => HandedOff \/ (Files.mapped /\ Stranded)

\* What the user saved while the app synchronized is still there if the attempt was
\* not completed: "Content that could not be reconciled safely was not overwritten"
\* (library_screen.dart).
SavedWorkKept == step = "idle" /\ ~HandedOff => saved \subseteq Notes.notes

\* In a behaviour in which the app does not end and what is taken back is taken
\* back, the handoff is completed at last, for good: no failure leaves the disk in
\* a state that the next attempt cannot start from.
HandoffCompletes == (budget.ends = 0 /\ ~budget.returns) => <>[]HandedOff

=============================================================================
