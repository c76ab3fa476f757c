------------------------------ MODULE SyncStore ------------------------------
(***************************************************************************)
(* The authoritative library of one account, as the server's synchroni-    *)
(* zation service keeps it: notebooks, their pages and infinite canvases,  *)
(* each with a revision, plus the immutable revision history, the change   *)
(* events other devices read, the tombstones of soft-deleted resources and *)
(* the conflict records of stale edits.                                    *)
(*                                                                         *)
(* One action is one operation of a committed batch, or one restore or     *)
(* resolve request.  Each runs in a database transaction that locks every  *)
(* row it writes (SELECT ... FOR UPDATE), so its effect is one step.  An   *)
(* operation that fails rolls its batch back and an operation that finds   *)
(* nothing to do answers "unchanged": neither changes state and neither is *)
(* an action.                                                              *)
(***************************************************************************)
EXTENDS Integers, Sequences, FiniteSets

CONSTANTS
    Notebook,      \* notebook identifiers, the reserved copies included
    Page,          \* page identifiers, the reserved copies included
    Canvas,        \* infinite canvas identifiers
    Parent,        \* the notebook of each page and canvas
    Content,       \* content documents; equal documents have equal hashes
    Meta,          \* values of the metadata an upsert merges field by field
    NoContent,     \* "content" omitted: a metadata-only upsert; the payload of a delete
    MaxRevision,   \* bound on the revision of each row
    MaxTombstones, \* bound on the tombstones
    MaxConflicts   \* bound on the conflict records

Resource == Notebook \union Page \union Canvas

ASSUME StoreAssumption ==
    /\ IsFiniteSet(Page)
    /\ Notebook \intersect Page = {}
    /\ Notebook \intersect Canvas = {}
    /\ Page \intersect Canvas = {}
    /\ Parent \in [Page \union Canvas -> Notebook]
    /\ NoContent \notin Content
    /\ MaxRevision \in [Resource -> Nat]
    /\ MaxTombstones \in Nat
    /\ MaxConflicts \in Nat

VARIABLES
    rows,       \* the identifiers that have a row
    revision,   \* revision[r]: 0 while r has no row
    content,    \* content[r]
    meta,       \* meta[r]
    deleted,    \* deleted[r]: deleted_at is set
    position,   \* position[p]: the page's index column; kept when deleted
    history,    \* the rows of table revisions
    changes,    \* the change events of rows, with the snapshot they publish
    tombstones, \* tombstones in creation order
    conflicts,  \* conflict records in creation order
    notices     \* the change events of tombstones and conflict records

vars == <<rows, revision, content, meta, deleted, position, history, changes,
          tombstones, conflicts, notices>>

columns == <<rows, content, meta, deleted, position>>

Resolution == {"keep_original", "use_conflict", "keep_both"}

Tombstone ==
    [id: Resource, base: Nat, deletedRevision: Nat, content: Content,
     position: Nat, state: {"active", "restored"},
     kind: {"none", "delete_after_edit", "edit_after_delete"}]

Conflict ==
    [id: Resource, copy: Resource, base: Nat, current: Nat,
     submitted: Content, displaced: Content,
     status: {"pending", "resolved"}, resolution: Resolution \union {"none"}]

Revision == [id: Resource, revision: Nat, content: Content]

\* The event of a delete has no payload.
Change ==
    [id: Resource, revision: Nat, operation: {"upsert", "delete"},
     payload: {NoContent} \union [content: Content, meta: Meta, position: Nat]]

Notice ==
    [of: {"tombstone", "conflict"}, index: Nat,
     state: {"active", "restored", "pending", "resolved"}]

TypeOK ==
    /\ rows \subseteq Resource
    /\ revision \in [Resource -> Nat]
    /\ content \in [Resource -> Content \union {NoContent}]
    /\ meta \in [Resource -> Meta]
    /\ deleted \in [Resource -> BOOLEAN]
    /\ position \in [Page -> Nat]
    /\ history \subseteq Revision
    /\ changes \subseteq Change
    /\ tombstones \in Seq(Tombstone)
    /\ conflicts \in Seq(Conflict)
    /\ notices \subseteq Notice

Init ==
    /\ rows = {}
    /\ revision = [r \in Resource |-> 0]
    /\ content = [r \in Resource |-> NoContent]
    /\ meta \in [Resource -> Meta] /\ \A r, s \in Resource : meta[r] = meta[s]
    /\ deleted = [r \in Resource |-> FALSE]
    /\ position = [p \in Page |-> 0]
    /\ history = {}
    /\ changes = {}
    /\ tombstones = <<>>
    /\ conflicts = <<>>
    /\ notices = {}

-----------------------------------------------------------------------------
(* The pages of a notebook and their order.                                *)

PageRows(n) == {p \in Page \intersect rows : Parent[p] = n}

ActivePages(n) == {p \in PageRows(n) : ~deleted[p]}

Siblings(p) == ActivePages(Parent[p]) \ {p}

\* The index of page q in the pages S listed in order of position.
Index(S, q) == Cardinality({s \in S : position[s] < position[q]})

\* Faults: numbering that starts one too low, and no renumbering at all.
CompactedTooLow(p) ==
    [q \in Page |-> IF q \in Siblings(p) THEN Index(Siblings(p), q) - 1
                                         ELSE position[q]]
NotCompacted(p) == [q \in Page |-> IF q = p THEN position[p] ELSE position[q]]

\* Positions once p has gone: its siblings are numbered without a gap.
Compacted(p) ==
    [q \in Page |-> IF q \in Siblings(p) THEN Index(Siblings(p), q)
                                         ELSE position[q]]

\* Fault: the page returns to its old index and nobody makes room.
ReinsertedWithoutShift(p, at) == [position EXCEPT ![p] = at]

\* Positions once p is back at index "at", or at the end of a shorter list.
Reinserted(p, at) ==
    LET S    == Siblings(p)
        spot == IF at < Cardinality(S) THEN at ELSE Cardinality(S)
    IN  [q \in Page |->
            CASE q = p -> spot
              [] q \in S /\ Index(S, q) < spot  -> Index(S, q)
              [] q \in S /\ Index(S, q) >= spot -> Index(S, q) + 1
              [] OTHER -> position[q]]

\* What a pageOrder in a notebook's metadata can make of the positions: the
\* same pages in another order; the baseline order must be the current one.
Reordered(n) ==
    LET S == ActivePages(n)
        Orders == {f \in [S -> 0..(Cardinality(S) - 1)] :
                        \A p, q \in S : f[p] = f[q] => p = q}
    IN  {[q \in Page |-> IF q \in S THEN f[q] ELSE position[q]] :
            f \in {g \in Orders : \E p \in S : g[p] # Index(S, p)}}

\* Fault: only the pages that move towards the end get a revision.
MovedBack(pos) ==
    {q \in Page \intersect rows : ~deleted[q] /\ pos[q] > position[q]}

\* The active pages whose row a new placement changes.
Moved(pos) ==
    {q \in Page \intersect rows : ~deleted[q] /\ pos[q] # position[q]}

-----------------------------------------------------------------------------
(* Revisions, history and change events.                                   *)

\* Each row of S gets its next revision.
Advance(S) ==
    /\ \A r \in S : revision[r] < MaxRevision[r]
    /\ revision' = [r \in Resource |->
                        IF r \in S THEN revision[r] + 1 ELSE revision[r]]

\* Fault: the history row is filled in before the content is.
AppendOldContent(S) ==
    history' = history \union
        {[id |-> r, revision |-> revision'[r], content |-> content[r]] : r \in S}

\* Each row of S gets a row in the revision history ...
AppendRevisions(S) ==
    history' = history \union
        {[id |-> r, revision |-> revision'[r], content |-> content'[r]] : r \in S}

PositionOf(r) == IF r \in Page THEN position[r] ELSE 0

Snapshot(r) == [content |-> content[r], meta |-> meta[r], position |-> PositionOf(r)]

\* Fault: the snapshot is taken before the metadata and position are written.
AppendOldSnapshot(S) ==
    changes' = changes \union
        {[id |-> r, revision |-> revision'[r],
          operation |-> IF deleted'[r] THEN "delete" ELSE "upsert",
          payload |-> IF deleted'[r] THEN NoContent
                      ELSE [Snapshot(r) EXCEPT !.content = content'[r]]] : r \in S}

\* ... and a change event with a snapshot of its new columns, if it is not deleted.
AppendChanges(S) ==
    changes' = changes \union
        {[id |-> r, revision |-> revision'[r],
          operation |-> IF deleted'[r] THEN "delete" ELSE "upsert",
          payload |-> IF deleted'[r] THEN NoContent ELSE Snapshot(r)'] : r \in S}

Publish(S) == AppendRevisions(S) /\ AppendChanges(S)

\* Fault: identifiers reserved for copies are taken for free.
FreshInRows(id) == id \notin rows

\* An identifier that no row uses and no conflict record reserves.
Fresh(id) ==
    /\ id \notin rows
    /\ \A i \in DOMAIN conflicts : conflicts[i].copy # id

SameKind(r, s) ==
    \/ r \in Notebook /\ s \in Notebook
    \/ r \in Page /\ s \in Page /\ Parent[r] = Parent[s]


NewContent(r, c) == IF c = NoContent THEN content[r] ELSE c

\* Three-way merge of a metadata field: desired wins if the row still holds
\* the baseline (or already the desired value).
MetaConflict(r, baseline, desired) ==
    desired # baseline /\ meta[r] \notin {baseline, desired}

MergedMeta(r, baseline, desired) ==
    IF desired # baseline THEN desired ELSE meta[r]

RevisionConflict(r, base, c) ==
    NewContent(r, c) # content[r] /\ revision[r] # base

-----------------------------------------------------------------------------
(* Creation through the merge endpoint.                                    *)

\* A new row gets its first revision in the same step.
Insert(r, c, m, pos) ==
    /\ Fresh(r)
    /\ Advance({r})
    /\ rows' = rows \union {r}
    /\ content' = [content EXCEPT ![r] = c]
    /\ meta' = [meta EXCEPT ![r] = m]
    /\ position' = pos
    /\ UNCHANGED deleted
    /\ Publish({r})
    /\ UNCHANGED <<tombstones, conflicts, notices>>

CreateNotebook(n, c, m) == Insert(n, c, m, position)

\* The position a created page asks for is the number of pages its device saw
\* in the notebook, perhaps some time ago; the unique index refuses a position
\* that is occupied.
CreatePage(p, at, c, m) ==
    /\ Parent[p] \in rows /\ ~deleted[Parent[p]]
    /\ \A q \in ActivePages(Parent[p]) : position[q] # at
    /\ Insert(p, c, m, [position EXCEPT ![p] = at])

CreateCanvas(k, c, m) ==
    /\ Parent[k] \in rows /\ ~deleted[Parent[k]]
    /\ Insert(k, c, m, position)

-----------------------------------------------------------------------------
(* Upserts of a committed batch.                                           *)

\* The content or metadata is written: nobody else's content is in the way.
Save(r, base, c, baseline, desired, pos) ==
    LET touched == {r} \union Moved(pos) IN
    /\ r \in rows /\ ~deleted[r]
    /\ ~MetaConflict(r, baseline, desired)
    /\ ~RevisionConflict(r, base, c)
    /\ \/ NewContent(r, c) # content[r]
       \/ MergedMeta(r, baseline, desired) # meta[r]
       \/ pos # position
    /\ Advance(touched)
    /\ content' = [content EXCEPT ![r] = NewContent(r, c)]
    /\ meta' = [meta EXCEPT ![r] = MergedMeta(r, baseline, desired)]
    /\ position' = pos
    /\ UNCHANGED <<rows, deleted>>
    /\ Publish(touched)
    /\ UNCHANGED <<tombstones, conflicts, notices>>

\* A stale edit of a notebook or page becomes a conflict record; the row, and
\* the metadata the edit carried, are left alone.  A stale canvas fails.
RecordConflict(r, base, c, baseline, desired, copy) ==
    /\ r \in rows /\ ~deleted[r] /\ r \notin Canvas
    /\ c # NoContent
    /\ ~MetaConflict(r, baseline, desired)
    /\ RevisionConflict(r, base, c)
    /\ Fresh(copy) /\ SameKind(r, copy)
    /\ Len(conflicts) < MaxConflicts
    /\ conflicts' = Append(conflicts,
           [id |-> r, copy |-> copy, base |-> base, current |-> revision[r],
            submitted |-> c, displaced |-> content[r],
            status |-> "pending", resolution |-> "none"])
    /\ notices' = notices \union
           {[of |-> "conflict", index |-> Len(conflicts'), state |-> "pending"]}
    /\ UNCHANGED <<columns, revision, history, changes, tombstones>>

\* The edit of a row another device deleted brings the row back with the
\* edited content; a page returns to the place its tombstone remembers.
PreserveEditAfterDelete(r, c, t) ==
    LET pos == IF r \in Page THEN Reinserted(r, tombstones[t].position)
                             ELSE position
        touched == {r} \union Moved(pos)
    IN
    /\ r \in rows /\ deleted[r]
    /\ tombstones[t].id = r /\ tombstones[t].state = "active"
    /\ c \notin {NoContent, content[r]}
    /\ Advance(touched)
    /\ content' = [content EXCEPT ![r] = c]
    /\ deleted' = [deleted EXCEPT ![r] = FALSE]
    /\ position' = pos
    /\ UNCHANGED <<rows, meta>>
    /\ Publish(touched)
    /\ tombstones' = [tombstones EXCEPT
           ![t] = [@ EXCEPT !.state = "restored", !.kind = "edit_after_delete"]]
    /\ notices' = notices \union
           {[of |-> "tombstone", index |-> t, state |-> "restored"]}
    /\ UNCHANGED conflicts

-----------------------------------------------------------------------------
(* Deletes of a committed batch, and the restore request.                  *)

AddTombstone(r, base, deletedRevision, state, kind) ==
    /\ Len(tombstones) < MaxTombstones
    /\ tombstones' = Append(tombstones,
           [id |-> r, base |-> base, deletedRevision |-> deletedRevision,
            content |-> content[r], position |-> PositionOf(r),
            state |-> state, kind |-> kind])
    /\ notices' = notices \union
           {[of |-> "tombstone", index |-> Len(tombstones'), state |-> state]}

\* Fault: the refused delete leaves an active tombstone.
RefuseAsActive(r, base) ==
    /\ r \in rows /\ ~deleted[r]
    /\ base # revision[r]
    /\ AddTombstone(r, base, 0, "active", "delete_after_edit")
    /\ UNCHANGED <<columns, revision, history, changes, conflicts>>

\* A delete made before a later edit: the edit stays, the delete is recorded.
RefuseStaleDelete(r, base) ==
    /\ r \in rows /\ ~deleted[r]
    /\ base # revision[r]
    /\ AddTombstone(r, base, 0, "restored", "delete_after_edit")
    /\ UNCHANGED <<columns, revision, history, changes, conflicts>>

\* Fault: deleted siblings count.
LastPageRow(r) ==
    r \in Page /\ PageRows(Parent[r]) = {r}

\* The last active page of a notebook cannot be deleted.
LastPage(r) == r \in Page /\ Siblings(r) = {}

Delete(r, base) ==
    LET pos == IF r \in Page THEN Compacted(r) ELSE position
        touched == {r} \union Moved(pos)
    IN
    /\ r \in rows /\ ~deleted[r]
    /\ base = revision[r]
    /\ ~LastPage(r)
    /\ Advance(touched)
    /\ deleted' = [deleted EXCEPT ![r] = TRUE]
    /\ position' = pos
    /\ UNCHANGED <<rows, content, meta>>
    /\ Publish(touched)
    /\ AddTombstone(r, base, revision[r] + 1, "active", "none")
    /\ UNCHANGED conflicts

Restore(t) ==
    LET r == tombstones[t].id
        pos == IF r \in Page THEN Reinserted(r, tombstones[t].position)
                             ELSE position
        touched == {r} \union Moved(pos)
    IN
    /\ tombstones[t].state = "active"
    /\ deleted[r]
    /\ Advance(touched)
    /\ content' = [content EXCEPT ![r] = tombstones[t].content]
    /\ deleted' = [deleted EXCEPT ![r] = FALSE]
    /\ position' = pos
    /\ UNCHANGED <<rows, meta>>
    /\ Publish(touched)
    /\ tombstones' = [tombstones EXCEPT ![t].state = "restored"]
    /\ notices' = notices \union
           {[of |-> "tombstone", index |-> t, state |-> "restored"]}
    /\ UNCHANGED conflicts

-----------------------------------------------------------------------------
(* Resolution of a conflict record.                                        *)

\* Fault: nobody is told.
CloseSilently(k, resolution) ==
    /\ conflicts[k].status = "pending"
    /\ conflicts' = [conflicts EXCEPT
           ![k] = [@ EXCEPT !.status = "resolved", !.resolution = resolution]]
    /\ UNCHANGED <<notices, tombstones>>

Close(k, resolution) ==
    /\ conflicts[k].status = "pending"
    /\ conflicts' = [conflicts EXCEPT
           ![k] = [@ EXCEPT !.status = "resolved", !.resolution = resolution]]
    /\ notices' = notices \union
           {[of |-> "conflict", index |-> k, state |-> "resolved"]}
    /\ UNCHANGED tombstones

KeepOriginal(k) ==
    /\ Close(k, "keep_original")
    /\ UNCHANGED <<columns, revision, history, changes>>

\* Fault: a delete of the original is not looked for.
StaleIfChanged(k) ==
    LET x == conflicts[k] IN RevisionConflict(x.id, x.current, x.submitted)

\* The submitted content replaces the original, unless the original changed
\* again after the conflict was recorded.
StaleResolution(k) ==
    LET x == conflicts[k] IN
    \/ deleted[x.id]
    \/ RevisionConflict(x.id, x.current, x.submitted)

UseConflict(k) ==
    LET x == conflicts[k]
        touched == IF content[x.id] # x.submitted THEN {x.id} ELSE {}
    IN
    /\ Close(k, "use_conflict")
    /\ ~StaleResolution(k)
    /\ Advance(touched)
    /\ content' = [content EXCEPT ![x.id] = x.submitted]
    /\ UNCHANGED <<rows, meta, deleted, position>>
    /\ Publish(touched)

\* The position after every page row of the notebook, deleted ones included.
PositionAfterAll(p) ==
    LET taken == {position[q] : q \in PageRows(Parent[p])}
    IN  1 + CHOOSE m \in taken : \A n \in taken : n <= m

\* The submitted content becomes a resource of its own, whatever has become
\* of the original.
KeepBoth(k) ==
    LET x == conflicts[k] IN
    /\ Close(k, "keep_both")
    /\ Advance({x.copy})
    /\ rows' = rows \union {x.copy}
    /\ content' = [content EXCEPT ![x.copy] = x.submitted]
    /\ meta' = [meta EXCEPT ![x.copy] = meta[x.id]]
    /\ position' = IF x.copy \in Page
                   THEN [position EXCEPT ![x.copy] = PositionAfterAll(x.id)]
                   ELSE position
    /\ UNCHANGED deleted
    /\ Publish({x.copy})

-----------------------------------------------------------------------------
(* The operations of a batch.  A device bases an upsert or a delete on a    *)
(* revision it has seen.                                                   *)

SaveNotebook(n, base, c, baseline, desired) ==
    \E pos \in {position} \union Reordered(n) :
        Save(n, base, c, baseline, desired, pos)

SavePage(p, base, c, baseline, desired) ==
    Save(p, base, c, baseline, desired, position)

SaveCanvas(k, base, c, baseline, desired) ==
    Save(k, base, c, baseline, desired, position)

Upsert(r, base, c, baseline, desired) ==
    \/ r \in Notebook /\ SaveNotebook(r, base, c, baseline, desired)
    \/ r \in Page /\ SavePage(r, base, c, baseline, desired)
    \/ r \in Canvas /\ SaveCanvas(r, base, c, baseline, desired)
    \/ \E copy \in Resource : RecordConflict(r, base, c, baseline, desired, copy)
    \/ \E t \in DOMAIN tombstones : PreserveEditAfterDelete(r, c, t)

DeleteOrRefuse(r, base) == Delete(r, base) \/ RefuseStaleDelete(r, base)

Create ==
    \E c \in Content, m \in Meta :
        \/ \E n \in Notebook : CreateNotebook(n, c, m)
        \/ \E p \in Page : \E at \in 0..Cardinality(PageRows(Parent[p])) :
              CreatePage(p, at, c, m)
        \/ \E k \in Canvas : CreateCanvas(k, c, m)

Commit ==
    \E r \in rows : \E base \in 1..revision[r] :
        \/ \E c \in Content \union {NoContent}, baseline, desired \in Meta :
              Upsert(r, base, c, baseline, desired)
        \/ DeleteOrRefuse(r, base)

Resolve(k) == KeepOriginal(k) \/ UseConflict(k) \/ KeepBoth(k)

Next ==
    \/ Create
    \/ Commit
    \/ \E t \in DOMAIN tombstones : Restore(t)
    \/ \E k \in DOMAIN conflicts : Resolve(k)

Spec == Init /\ [][Next]_vars

-----------------------------------------------------------------------------
(* Properties.                                                             *)

Recorded(r, n, c) == [id |-> r, revision |-> n, content |-> c] \in history

\* The revision history of a row has exactly one entry for each revision it
\* ever had, and the latest entry is the row's content: an edit that was
\* displaced by a later one, by a delete or by a resolution stays recoverable
\* (content.py, tombstones.py and conflicts.py each append their own rows).
HistoryComplete ==
    \A r \in Resource :
        /\ \A n \in 1..revision[r] : \E c \in Content : Recorded(r, n, c)
        /\ \A h, g \in history :
              h.id = g.id /\ h.revision = g.revision => h = g
        /\ \A h \in history : h.id = r => h.revision \in 1..revision[r]
        /\ r \in rows => revision[r] > 0 /\ Recorded(r, revision[r], content[r])

\* The change events of a row are numbered by its revisions without a gap or
\* a repetition and the last one publishes what the row holds now, or that it is
\* deleted, so that a device which applies them in order ends with the server's
\* row.  The app
\* refuses a range whose revisions are not consecutive.
FeedConverges ==
    \A r \in rows :
        /\ {x.revision : x \in {y \in changes : y.id = r}} = 1..revision[r]
        /\ \A x, y \in changes : x.id = y.id /\ x.revision = y.revision => x = y
        /\ \E x \in changes :
              /\ x.id = r /\ x.revision = revision[r]
              /\ x.operation = "delete" <=> deleted[r]
              /\ deleted[r] \/ x.payload = Snapshot(r)

\* A row is hidden exactly while one tombstone is active for it, and that
\* tombstone can bring back what the row held when it was deleted.
DeletedIffActiveTombstone ==
    \A r \in rows :
        LET active == {t \in DOMAIN tombstones :
                          tombstones[t].id = r /\ tombstones[t].state = "active"}
        IN  /\ deleted[r] <=> active # {}
            /\ \A t, u \in active : t = u
            /\ \A t \in active :
                  /\ tombstones[t].deletedRevision = revision[r]
                  /\ tombstones[t].content = content[r]

\* No two active pages of a notebook claim one position, whatever order the
\* deletes, restores, reorders and copies come in: the unique index
\* uq_pages_active_notebook_owner_position never refuses one of them.
ActivePositionsDistinct ==
    \A p, q \in Page \intersect rows :
        (Parent[p] = Parent[q] /\ ~deleted[p] /\ ~deleted[q]
            /\ position[p] = position[q]) => p = q

Dense(n) ==
    {position[p] : p \in ActivePages(n)} = 0..(Cardinality(ActivePages(n)) - 1)

\* A delete, a restore or a reorder leaves the active pages of its notebook
\* numbered 0, 1, 2, ... with no gap, even though a page created from a stale
\* count, or a copy kept beside its original, may have left one before.
DenseAfterRestructuring ==
    [][\A p \in Page \intersect rows :
          deleted'[p] # deleted[p] \/ position'[p] # position[p]
             => Dense(Parent[p])']_vars

\* A notebook that has pages keeps one that is not deleted.
NotebookKeepsPage ==
    \A p \in Page \intersect rows : ActivePages(Parent[p]) # {}

\* A conflict record holds both sides of the conflict for good: the displaced
\* side is the history entry it names, the submitted side is kept until the
\* resolution, and the resolution puts it where it says.
ConflictsRecoverable ==
    \A k \in DOMAIN conflicts :
        LET x == conflicts[k] IN
        /\ Recorded(x.id, x.current, x.displaced)
        /\ x.resolution = "use_conflict" =>
              \E n \in x.current..revision[x.id] : Recorded(x.id, n, x.submitted)
        /\ x.resolution = "keep_both" => Recorded(x.copy, 1, x.submitted)
        /\ x.resolution # "keep_both" => x.copy \notin rows
        /\ \A l \in DOMAIN conflicts : conflicts[l].copy = x.copy => l = k

\* Whatever state a tombstone or conflict record is in, and every state it
\* was in before, has been published.
NoticesComplete ==
    /\ \A t \in DOMAIN tombstones :
          [of |-> "tombstone", index |-> t, state |-> tombstones[t].state]
              \in notices
    /\ \A k \in DOMAIN conflicts : \A s \in {"pending", conflicts[k].status} :
          [of |-> "conflict", index |-> k, state |-> s] \in notices

\* Using the conflicting version replaces the content the conflict was
\* recorded against and nothing newer.
ResolutionSeesCurrent ==
    [][\A k \in DOMAIN conflicts :
          LET x == conflicts[k] IN
          x.status = "pending" /\ conflicts'[k].resolution = "use_conflict" =>
             content[x.id] \in {x.displaced, x.submitted} /\ ~deleted[x.id]]_vars

\* A row's columns never change without its revision, and a revision is one
\* step: the numbers a device uses as a base name one state of the row.
RevisionNamesState ==
    [][\A r \in rows :
          /\ revision'[r] \in {revision[r], revision[r] + 1}
          /\ revision'[r] = revision[r] =>
                /\ content'[r] = content[r] /\ meta'[r] = meta[r]
                /\ deleted'[r] = deleted[r]
                /\ r \in Page => position'[r] = position[r]]_vars

=============================================================================
