-------------------------- MODULE SyncStoreProofs --------------------------
(***************************************************************************)
(* Theorems about SyncStore, for every library and every bound.            *)
(*                                                                         *)
(* Those about the history and the feed rest on one fact, StepPublishes:   *)
(* whatever the operation, the rows it changes are exactly the rows that   *)
(* get a next revision, a history entry and a change event.                *)
(*                                                                         *)
(* Those about the structure of a library, from "Numbering pages" on, are  *)
(* about the order of the active pages of a notebook, the records of       *)
(* conflicts and deletes, and what they keep recoverable.  The ones about  *)
(* positions rest on Ranks: where positions are distinct, the index of a   *)
(* page among its siblings numbers them 0, 1, ... without a gap.  The      *)
(* others rest on the invariant of the conflict records, which says which  *)
(* identifiers are still reserved for a copy.                              *)
(***************************************************************************)
EXTENDS SyncStore, FiniteSetTheorems, FunctionTheorems, SequenceTheorems, TLAPS

-----------------------------------------------------------------------------
(* Finite sets of pages and their positions.                               *)

LEMMA PagesFinite ==
    ASSUME NEW S \in SUBSET Page
    PROVE  IsFiniteSet(S) /\ Cardinality(S) \in Nat
  BY StoreAssumption, FS_Subset, FS_CardinalityType

LEMMA IndexInNat ==
    ASSUME NEW S \in SUBSET Page, NEW q
    PROVE  Index(S, q) \in Nat
  BY PagesFinite, {s \in S : position[s] < position[q]} \in SUBSET Page DEF Index

\* Some page of a nonempty set has a position no other page of it exceeds.
LEMMA LastPosition ==
    ASSUME position \in [Page -> Nat], NEW S \in SUBSET Page, S # {}
    PROVE  \E p \in S : \A q \in S : position[q] <= position[p]
  <1> DEFINE above(p) == {q \in S : position[q] >= position[p]}
             T == {above(p) : p \in S}
  <1>1. IsWellFoundedOn(StrictSubsetOrdering(S), SUBSET S)
    BY PagesFinite, FS_StrictSubsetOrderingWellFounded, FS_FiniteSubsetsOfFinite
  <1>2. T \subseteq SUBSET S /\ T # {}
    BY ZenonT(30)
  <1> HIDE DEF T
  <1>3. PICK X \in T : \A Y \in T : <<Y, X>> \notin StrictSubsetOrdering(S)
    BY <1>1, <1>2, WFMin
  <1>4. PICK p \in S : X = above(p)
    BY DEF T
  <1>5. ASSUME NEW q \in S, ~(position[q] <= position[p])
        PROVE  FALSE
    <2>1. position[q] \in Nat /\ position[p] \in Nat /\ position[q] > position[p]
      BY <1>5
    <2>2. above(q) \in T
      BY DEF T
    <2>3. above(q) \subseteq above(p)
      <3> SUFFICES ASSUME NEW s \in S, position[s] >= position[q]
                   PROVE  position[s] >= position[p]
        OBVIOUS
      <3>1. position[s] \in Nat
        OBVIOUS
      <3> QED
        BY <2>1, <3>1
    <2>4. p \in above(p) /\ p \notin above(q)
      BY <2>1
    <2> QED
      BY <1>3, <1>4, <2>2, <2>3, <2>4 DEF StrictSubsetOrdering
  <1> QED
    BY <1>5

\* A new numbering that moves no page but p and active ones.
Places(pos, p) ==
    /\ pos \in [Page -> Nat]
    /\ \A q \in Page \ {p} : pos[q] # position[q] => q \in rows /\ ~deleted[q]

LEMMA CompactedPlaces ==
    ASSUME position \in [Page -> Nat], NEW p \in Page
    PROVE  Places(Compacted(p), p)
  <1>1. \A q : Index(Siblings(p), q) \in Nat
    BY IndexInNat DEF Siblings, ActivePages, PageRows
  <1> QED
    BY <1>1 DEF Places, Compacted, Siblings, ActivePages, PageRows

LEMMA ReinsertedPlaces ==
    ASSUME position \in [Page -> Nat], NEW p \in Page, NEW at \in Nat
    PROVE  Places(Reinserted(p, at), p)
  <1>1. \A q : Index(Siblings(p), q) \in Nat
    BY IndexInNat DEF Siblings, ActivePages, PageRows
  <1>2. Cardinality(Siblings(p)) \in Nat
    BY PagesFinite DEF Siblings, ActivePages, PageRows
  <1> DEFINE S == Siblings(p)
             index(q) == Index(S, q)
             spot == IF at < Cardinality(S) THEN at ELSE Cardinality(S)
             new(q) == CASE q = p -> spot
                         [] q \in S /\ index(q) < spot -> index(q)
                         [] q \in S /\ index(q) >= spot -> index(q) + 1
                         [] OTHER -> position[q]
  <1>3. p \notin S
    BY DEF Siblings
  <1>4. spot \in Nat
    BY <1>2
  <1> HIDE DEF spot, S, index
  <1>5. ASSUME NEW q \in Page
        PROVE  new(q) \in Nat /\ (new(q) # position[q] => q \in S \union {p})
    <2>1. index(q) \in Nat /\ position[q] \in Nat
      BY <1>1 DEF index, S
    <2>2. CASE q = p
      BY <2>2, <1>3, <1>4
    <2>3. CASE q # p /\ q \in S /\ index(q) < spot
      BY <2>1, <2>3, <1>4
    <2>4. CASE q # p /\ q \in S /\ index(q) >= spot
      BY <2>1, <2>4, <1>4
    <2>5. CASE q # p /\ q \notin S
      BY <2>1, <2>5
    <2> QED
      BY <2>1, <1>4, <2>2, <2>3, <2>4, <2>5
  <1>6. Reinserted(p, at) = [q \in Page |-> new(q)]
    BY DEF Reinserted, S, index, spot
  <1> QED
    BY <1>5, <1>6 DEF Places, S, Siblings, ActivePages, PageRows

LEMMA ReorderedPlaces ==
    ASSUME position \in [Page -> Nat], NEW n, NEW p, NEW pos \in Reordered(n)
    PROVE  Places(pos, p)
  <1> DEFINE S == ActivePages(n)
  <1>1. Cardinality(S) \in Nat
    BY PagesFinite DEF ActivePages, PageRows
  <1>2. PICK f \in [S -> 0..(Cardinality(S) - 1)] :
            pos = [q \in Page |-> IF q \in S THEN f[q] ELSE position[q]]
    BY DEF Reordered
  <1> HIDE DEF S
  <1>3. \A q \in S : f[q] \in Nat
    BY <1>1
  <1> QED
    BY <1>2, <1>3 DEF Places, S, ActivePages, PageRows

-----------------------------------------------------------------------------
(* Every operation publishes the rows it changes.                          *)

\* What the columns hold, and which rows the records point to.
WellFormed ==
    /\ TypeOK
    /\ \A r \in rows : content[r] \in Content
    /\ \A r \in Resource \ rows : revision[r] = 0 /\ ~deleted[r]
    /\ \A t \in DOMAIN tombstones : tombstones[t].id \in rows
    /\ \A k \in DOMAIN conflicts :
          /\ conflicts[k].id \in rows
          /\ SameKind(conflicts[k].id, conflicts[k].copy)

\* A step that changes the rows S, all of them with a new revision, and adds
\* those of them that are new.
Published(S) ==
    /\ S \subseteq Resource
    /\ rows' = rows \union S
    /\ Advance(S)
    /\ Publish(S)
    /\ content' \in [Resource -> Content \union {NoContent}]
    /\ meta' \in [Resource -> Meta]
    /\ deleted' \in [Resource -> BOOLEAN]
    /\ position' \in [Page -> Nat]
    /\ \A r \in S : content'[r] \in Content
    /\ \A r \in Resource \ S :
          content'[r] = content[r] /\ meta'[r] = meta[r] /\ deleted'[r] = deleted[r]
    /\ \A p \in Page \ S : position'[p] = position[p]

LEMMA InsertPublishes ==
    ASSUME WellFormed, NEW r \in Resource, NEW c \in Content, NEW m \in Meta,
           NEW pos \in [Page -> Nat], \A q \in Page \ {r} : pos[q] = position[q],
           Insert(r, c, m, pos)
    PROVE  Published({r})
  BY DEF WellFormed, TypeOK, Insert, Published

LEMMA SavePublishes ==
    ASSUME WellFormed, NEW r \in Resource, NEW base,
           NEW c \in Content \union {NoContent},
           NEW baseline \in Meta, NEW desired \in Meta,
           NEW pos, Places(pos, r), Save(r, base, c, baseline, desired, pos)
    PROVE  Published({r} \union Moved(pos))
  <1>1. /\ pos \in [Page -> Nat]
        /\ Moved(pos) \subseteq rows \intersect Page
        /\ \A q \in Page \ ({r} \union Moved(pos)) : pos[q] = position[q]
    BY DEF Places, Moved
  <1>2. NewContent(r, c) \in Content
    BY DEF WellFormed, NewContent, Save
  <1>3. MergedMeta(r, baseline, desired) \in Meta
    BY DEF WellFormed, TypeOK, MergedMeta
  <1> QED
    BY <1>1, <1>2, <1>3 DEF WellFormed, TypeOK, Save, Published, Resource

\* What a tombstone remembers, and that its row exists.
LEMMA TombstoneType ==
    ASSUME WellFormed, NEW t \in DOMAIN tombstones
    PROVE  /\ tombstones[t] \in Tombstone
           /\ tombstones[t].id \in rows
           /\ tombstones[t].content \in Content
           /\ tombstones[t].position \in Nat
           /\ t \in 1..Len(tombstones)
  <1>1. tombstones \in Seq(Tombstone) /\ t \in 1..Len(tombstones)
    BY LenProperties DEF WellFormed, TypeOK
  <1>2. tombstones[t] \in Tombstone
    BY <1>1, ElementOfSeq
  <1> QED
    BY <1>1, <1>2 DEF WellFormed, Tombstone

LEMMA ConflictType ==
    ASSUME WellFormed, NEW k \in DOMAIN conflicts
    PROVE  /\ conflicts[k] \in Conflict
           /\ conflicts[k].id \in rows
           /\ SameKind(conflicts[k].id, conflicts[k].copy)
           /\ conflicts[k].copy \in Resource
           /\ conflicts[k].submitted \in Content
           /\ k \in 1..Len(conflicts)
  <1>1. conflicts \in Seq(Conflict) /\ k \in 1..Len(conflicts)
    BY LenProperties DEF WellFormed, TypeOK
  <1>2. conflicts[k] \in Conflict
    BY <1>1, ElementOfSeq
  <1> QED
    BY <1>1, <1>2 DEF WellFormed, Conflict

\* The numbering of a page that comes back.
BackAt(r, at) == IF r \in Page THEN Reinserted(r, at) ELSE position

LEMMA BackAtPlaces ==
    ASSUME WellFormed, NEW r \in Resource, NEW at \in Nat
    PROVE  Places(BackAt(r, at), r)
  <1>1. position \in [Page -> Nat]
    BY DEF WellFormed, TypeOK
  <1>2. CASE r \in Page
    BY <1>1, <1>2, ReinsertedPlaces DEF BackAt
  <1>3. CASE r \notin Page
    BY <1>1, <1>3 DEF BackAt, Places
  <1> QED
    BY <1>2, <1>3

LEMMA PreservePublishes ==
    ASSUME WellFormed, NEW r \in Resource, NEW c \in Content \union {NoContent},
           NEW t \in DOMAIN tombstones, PreserveEditAfterDelete(r, c, t)
    PROVE  \E S : Published(S)
  <1> DEFINE pos == BackAt(r, tombstones[t].position)
             S == {r} \union Moved(pos)
  <1>1. /\ pos \in [Page -> Nat]
        /\ Moved(pos) \subseteq rows \intersect Page
        /\ \A q \in Page \ S : pos[q] = position[q]
    BY TombstoneType, BackAtPlaces DEF Places, Moved
  <1>2. /\ r \in rows /\ c \in Content
        /\ Advance(S) /\ Publish(S)
        /\ content' = [content EXCEPT ![r] = c]
        /\ deleted' = [deleted EXCEPT ![r] = FALSE]
        /\ position' = pos
        /\ UNCHANGED <<rows, meta>>
    BY DEF PreserveEditAfterDelete, BackAt
  <1> HIDE DEF pos
  <1>9. Published(S)
    BY <1>1, <1>2 DEF WellFormed, TypeOK, Published, Resource
  <1> QED
    BY <1>9

LEMMA RestorePublishes ==
    ASSUME WellFormed, NEW t \in DOMAIN tombstones, Restore(t)
    PROVE  \E S : Published(S)
  <1> DEFINE r == tombstones[t].id
             pos == BackAt(r, tombstones[t].position)
             S == {r} \union Moved(pos)
  <1>0. r \in rows /\ r \in Resource /\ tombstones[t].content \in Content
    BY TombstoneType DEF WellFormed, TypeOK
  <1>1. /\ pos \in [Page -> Nat]
        /\ Moved(pos) \subseteq rows \intersect Page
        /\ \A q \in Page \ S : pos[q] = position[q]
    BY <1>0, TombstoneType, BackAtPlaces DEF Places, Moved
  <1>2. /\ Advance(S) /\ Publish(S)
        /\ content' = [content EXCEPT ![r] = tombstones[t].content]
        /\ deleted' = [deleted EXCEPT ![r] = FALSE]
        /\ position' = pos
        /\ UNCHANGED <<rows, meta>>
    BY DEF Restore, BackAt
  <1> HIDE DEF pos, r
  <1>9. Published(S)
    BY <1>0, <1>1, <1>2 DEF WellFormed, TypeOK, Published, Resource
  <1> QED
    BY <1>9

LEMMA DeletePublishes ==
    ASSUME WellFormed, NEW r \in Resource, NEW base, Delete(r, base)
    PROVE  \E S : Published(S)
  <1> DEFINE pos == IF r \in Page THEN Compacted(r) ELSE position
             S == {r} \union Moved(pos)
  <1>0. position \in [Page -> Nat]
    BY DEF WellFormed, TypeOK
  <1>1. Places(pos, r)
    BY <1>0, CompactedPlaces DEF Places
  <1>2. /\ pos \in [Page -> Nat]
        /\ Moved(pos) \subseteq rows \intersect Page
        /\ \A q \in Page \ S : pos[q] = position[q]
    BY <1>1 DEF Places, Moved
  <1>3. /\ r \in rows
        /\ Advance(S) /\ Publish(S)
        /\ deleted' = [deleted EXCEPT ![r] = TRUE]
        /\ position' = pos
        /\ UNCHANGED <<rows, content, meta>>
    BY DEF Delete
  <1> HIDE DEF pos
  <1>9. Published(S)
    BY <1>2, <1>3 DEF WellFormed, TypeOK, Published, Resource
  <1> QED
    BY <1>9

LEMMA UseConflictPublishes ==
    ASSUME WellFormed, NEW k \in DOMAIN conflicts, UseConflict(k)
    PROVE  \E S : Published(S)
  <1> DEFINE x == conflicts[k]
             S == IF content[x.id] # x.submitted THEN {x.id} ELSE {}
  <1>1. x.id \in rows /\ x.id \in Resource /\ x.submitted \in Content
    BY ConflictType DEF WellFormed, TypeOK
  <1>2. /\ Advance(S) /\ Publish(S)
        /\ content' = [content EXCEPT ![x.id] = x.submitted]
        /\ UNCHANGED <<rows, meta, deleted, position>>
    BY DEF UseConflict
  <1> HIDE DEF x
  <1> QED
    BY <1>1, <1>2 DEF WellFormed, TypeOK, Published

\* The place of a kept copy is a position, and lies behind every page.
LEMMA PositionAfterAllIsLast ==
    ASSUME WellFormed, NEW p \in Page \intersect rows
    PROVE  /\ PositionAfterAll(p) \in Nat
           /\ \A q \in PageRows(Parent[p]) : position[q] < PositionAfterAll(p)
  <1> DEFINE P == PageRows(Parent[p])
             taken == {position[q] : q \in P}
             top == CHOOSE m \in taken : \A n \in taken : n <= m
  <1>1. position \in [Page -> Nat] /\ P \in SUBSET Page /\ p \in P
    BY DEF WellFormed, TypeOK, PageRows
  <1>2. \E m \in taken : \A n \in taken : n <= m
    BY <1>1, LastPosition
  <1>3. top \in taken /\ \A n \in taken : n <= top
    BY <1>2
  <1>4. PositionAfterAll(p) = 1 + top
    BY DEF PositionAfterAll
  <1> HIDE DEF top
  <1>5. top \in Nat /\ \A q \in P : position[q] \in Nat /\ position[q] <= top
    BY <1>1, <1>3
  <1> QED
    BY <1>4, <1>5

LEMMA KeepBothPublishes ==
    ASSUME WellFormed, NEW k \in DOMAIN conflicts, KeepBoth(k)
    PROVE  \E S : Published(S)
  <1> DEFINE x == conflicts[k]
             pos == IF x.copy \in Page
                    THEN [position EXCEPT ![x.copy] = PositionAfterAll(x.id)]
                    ELSE position
  <1>1. /\ x.id \in rows /\ x.id \in Resource /\ x.copy \in Resource
        /\ x.submitted \in Content /\ SameKind(x.id, x.copy)
    BY ConflictType DEF WellFormed, TypeOK
  <1>2. /\ Advance({x.copy}) /\ Publish({x.copy})
        /\ rows' = rows \union {x.copy}
        /\ content' = [content EXCEPT ![x.copy] = x.submitted]
        /\ meta' = [meta EXCEPT ![x.copy] = meta[x.id]]
        /\ position' = pos
        /\ UNCHANGED deleted
    BY DEF KeepBoth
  <1>3. x.copy \in Page => PositionAfterAll(x.id) \in Nat
    BY <1>1, PositionAfterAllIsLast, StoreAssumption DEF SameKind
  <1>4. /\ pos \in [Page -> Nat]
        /\ \A q \in Page \ {x.copy} : pos[q] = position[q]
    BY <1>3 DEF WellFormed, TypeOK
  <1> HIDE DEF x, pos
  <1>9. Published({x.copy})
    BY <1>1, <1>2, <1>4 DEF WellFormed, TypeOK, Published
  <1> QED
    BY <1>9

\* A step that only writes a record.
LEMMA NothingPublishes ==
    ASSUME WellFormed, UNCHANGED <<columns, revision, history, changes>>
    PROVE  Published({})
  BY DEF WellFormed, TypeOK, columns, Published, Advance, Publish,
         AppendRevisions, AppendChanges

LEMMA StepPublishes ==
    ASSUME WellFormed, Next
    PROVE  \E S : Published(S)
  <1>0. position \in [Page -> Nat] /\ rows \subseteq Resource
    BY DEF WellFormed, TypeOK
  <1>1. CASE Create
    <2>1. PICK c \in Content, m \in Meta :
              \/ \E n \in Notebook : CreateNotebook(n, c, m)
              \/ \E p \in Page : \E at \in 0..Cardinality(PageRows(Parent[p])) :
                    CreatePage(p, at, c, m)
              \/ \E k \in Canvas : CreateCanvas(k, c, m)
      BY <1>1 DEF Create
    <2>2. CASE \E n \in Notebook : CreateNotebook(n, c, m)
      <3>1. PICK n \in Notebook : Insert(n, c, m, position)
        BY <2>2 DEF CreateNotebook
      <3> QED
        BY <1>0, <3>1, InsertPublishes DEF Resource
    <2>3. CASE \E p \in Page : \E at \in 0..Cardinality(PageRows(Parent[p])) :
                  CreatePage(p, at, c, m)
      <3>0. PICK p \in Page : \E at \in 0..Cardinality(PageRows(Parent[p])) :
                CreatePage(p, at, c, m)
        BY <2>3
      <3>1. PICK at \in 0..Cardinality(PageRows(Parent[p])) :
                Insert(p, c, m, [position EXCEPT ![p] = at])
        BY <3>0 DEF CreatePage
      <3>2. at \in Nat
        BY PagesFinite DEF PageRows
      <3>3. /\ [position EXCEPT ![p] = at] \in [Page -> Nat]
            /\ \A q \in Page \ {p} : [position EXCEPT ![p] = at][q] = position[q]
        BY <1>0, <3>2
      <3>4. Published({p})
        BY <3>1, <3>3, InsertPublishes DEF Resource
      <3> QED
        BY <3>4
    <2>4. CASE \E k \in Canvas : CreateCanvas(k, c, m)
      <3>1. PICK k \in Canvas : Insert(k, c, m, position)
        BY <2>4 DEF CreateCanvas
      <3> QED
        BY <1>0, <3>1, InsertPublishes DEF Resource
    <2> QED
      BY <2>1, <2>2, <2>3, <2>4
  <1>2. CASE Commit
    <2>5. PICK r \in rows : \E base \in 1..revision[r] :
              \/ \E c \in Content \union {NoContent}, baseline, desired \in Meta :
                    Upsert(r, base, c, baseline, desired)
              \/ DeleteOrRefuse(r, base)
      BY <1>2 DEF Commit
    <2>1. PICK base \in 1..revision[r] :
              \/ \E c \in Content \union {NoContent}, baseline, desired \in Meta :
                    Upsert(r, base, c, baseline, desired)
              \/ DeleteOrRefuse(r, base)
      BY <2>5
    <2>0. r \in Resource
      BY <1>0
    <2>2. ASSUME NEW c \in Content \union {NoContent},
                 NEW baseline \in Meta, NEW desired \in Meta,
                 Upsert(r, base, c, baseline, desired)
          PROVE  \E S : Published(S)
      <3>1. ASSUME NEW pos \in {position} \union Reordered(r),
                   Save(r, base, c, baseline, desired, pos)
            PROVE  \E S : Published(S)
        <4>1. Places(position, r)
          BY <1>0 DEF Places
        <4>2. Places(pos, r)
          BY <1>0, <3>1, <4>1, ReorderedPlaces
        <4> QED
          BY <2>0, <2>2, <3>1, <4>2, SavePublishes
      <3>2. ASSUME NEW copy, RecordConflict(r, base, c, baseline, desired, copy)
            PROVE  \E S : Published(S)
        BY <3>2, NothingPublishes DEF RecordConflict
      <3> QED
        BY <2>0, <2>2, <3>1, <3>2, PreservePublishes
           DEF Upsert, SaveNotebook, SavePage, SaveCanvas
    <2>3. CASE Delete(r, base)
      BY <2>0, <2>3, DeletePublishes
    <2>4. CASE RefuseStaleDelete(r, base)
      BY <2>4, NothingPublishes DEF RefuseStaleDelete
    <2> QED
      BY <2>1, <2>2, <2>3, <2>4 DEF DeleteOrRefuse
  <1>3. CASE \E t \in DOMAIN tombstones : Restore(t)
    BY <1>3, RestorePublishes
  <1>4. ASSUME NEW k \in DOMAIN conflicts, Resolve(k)
        PROVE  \E S : Published(S)
    <2>1. CASE KeepOriginal(k)
      BY <2>1, NothingPublishes DEF KeepOriginal
    <2> QED
      BY <1>4, <2>1, UseConflictPublishes, KeepBothPublishes DEF Resolve
  <1> QED
    BY <1>1, <1>2, <1>3, <1>4 DEF Next

-----------------------------------------------------------------------------
(* Types.                                                                  *)

LEMMA PublishedTypes ==
    ASSUME WellFormed, NEW S, Published(S)
    PROVE  /\ rows' \subseteq Resource
           /\ revision' \in [Resource -> Nat]
           /\ history' \subseteq Revision
           /\ changes' \subseteq Change
           /\ \A r \in rows' : content'[r] \in Content
           /\ \A r \in Resource \ rows' : revision'[r] = 0 /\ ~deleted'[r]
  <1> USE DEF WellFormed, TypeOK, Published
  <1>1. revision' \in [Resource -> Nat]
    BY DEF Advance
  <1>2. \A r \in S : [id |-> r, revision |-> revision'[r], content |-> content'[r]]
                        \in Revision
    BY <1>1 DEF Revision
  <1>3. history' \subseteq Revision
    BY <1>2 DEF Publish, AppendRevisions
  <1>4. \A r \in S :
            [id |-> r, revision |-> revision'[r],
             operation |-> IF deleted'[r] THEN "delete" ELSE "upsert",
             payload |-> IF deleted'[r] THEN NoContent ELSE Snapshot(r)'] \in Change
    <2>1. \A r \in S : Snapshot(r)' \in [content: Content, meta: Meta, position: Nat]
      BY DEF Snapshot, PositionOf
    <2> QED
      BY <1>1, <2>1 DEF Change
  <1>5. changes' \subseteq Change
    BY <1>4 DEF Publish, AppendChanges
  <1>6. \A r \in Resource \ rows' : revision'[r] = 0 /\ ~deleted'[r]
    BY DEF Advance
  <1> QED
    BY <1>1, <1>3, <1>5, <1>6

\* The records, and the rows they point to.
RecordsWellFormed ==
    /\ tombstones \in Seq(Tombstone)
    /\ conflicts \in Seq(Conflict)
    /\ notices \subseteq Notice
    /\ \A t \in DOMAIN tombstones : tombstones[t].id \in rows
    /\ \A k \in DOMAIN conflicts :
          /\ conflicts[k].id \in rows
          /\ SameKind(conflicts[k].id, conflicts[k].copy)

LEMMA AddTombstoneTypes ==
    ASSUME WellFormed, NEW r \in rows, NEW base \in Nat, NEW d \in Nat,
           NEW state \in {"active", "restored"},
           NEW kind \in {"none", "delete_after_edit"},
           AddTombstone(r, base, d, state, kind),
           rows' = rows, UNCHANGED conflicts
    PROVE  RecordsWellFormed'
  <1> DEFINE x == [id |-> r, base |-> base, deletedRevision |-> d,
                   content |-> content[r], position |-> PositionOf(r),
                   state |-> state, kind |-> kind]
  <1>1. x \in Tombstone
    BY DEF WellFormed, TypeOK, Tombstone, PositionOf
  <1>2. tombstones \in Seq(Tombstone) /\ tombstones' = Append(tombstones, x)
    BY DEF WellFormed, TypeOK, AddTombstone
  <1>3. /\ tombstones' \in Seq(Tombstone) /\ Len(tombstones') = Len(tombstones) + 1
        /\ \A t \in 1..Len(tombstones) : tombstones'[t] = tombstones[t]
        /\ tombstones'[Len(tombstones) + 1] = x
    BY <1>1, <1>2, AppendProperties
  <1>4. notices' \subseteq Notice
    BY <1>3, LenProperties DEF WellFormed, TypeOK, AddTombstone, Notice
  <1>5. \A t \in DOMAIN tombstones' : tombstones'[t].id \in rows
    <2>1. /\ Len(tombstones) \in Nat
          /\ DOMAIN tombstones = 1..Len(tombstones)
          /\ DOMAIN tombstones' = 1..(Len(tombstones) + 1)
      BY <1>2, <1>3, LenProperties
    <2>2. \A t \in 1..Len(tombstones) : tombstones'[t].id \in rows
      BY <1>3, <2>1 DEF WellFormed
    <2>3. tombstones'[Len(tombstones) + 1].id \in rows
      BY <1>3
    <2> QED
      BY <2>1, <2>2, <2>3
  <1> QED
    BY <1>3, <1>4, <1>5 DEF WellFormed, TypeOK, RecordsWellFormed

\* A tombstone becomes "restored".
LEMMA MarkTombstoneTypes ==
    ASSUME WellFormed, NEW t \in DOMAIN tombstones, NEW y \in Tombstone,
           y.id = tombstones[t].id,
           tombstones' = [tombstones EXCEPT ![t] = y],
           notices' = notices \union
               {[of |-> "tombstone", index |-> t, state |-> "restored"]},
           rows' = rows, UNCHANGED conflicts
    PROVE  RecordsWellFormed'
  <1>1. /\ t \in 1..Len(tombstones) /\ Len(tombstones) \in Nat
        /\ tombstones \in Seq(Tombstone) /\ DOMAIN tombstones = 1..Len(tombstones)
    BY LenProperties DEF WellFormed, TypeOK
  <1>2. tombstones' \in Seq(Tombstone) /\ Len(tombstones') = Len(tombstones)
    BY <1>1, ExceptSeq
  <1>3. DOMAIN tombstones' = 1..Len(tombstones)
    BY <1>2, LenProperties
  <1>4. \A u \in 1..Len(tombstones) :
            tombstones'[u] = IF u = t THEN y ELSE tombstones[u]
    BY <1>1, ExceptSeq
  <1>5. \A u \in DOMAIN tombstones' : tombstones'[u].id \in rows
    BY <1>1, <1>3, <1>4 DEF WellFormed
  <1>6. notices' \subseteq Notice
    BY <1>1 DEF WellFormed, TypeOK, Notice
  <1> QED
    BY <1>2, <1>5, <1>6 DEF WellFormed, TypeOK, RecordsWellFormed

LEMMA RecordConflictTypes ==
    ASSUME WellFormed, NEW r \in rows, NEW base \in Nat,
           NEW c \in Content \union {NoContent}, NEW baseline, NEW desired,
           NEW copy \in Resource, RecordConflict(r, base, c, baseline, desired, copy)
    PROVE  RecordsWellFormed'
  <1> DEFINE x == [id |-> r, copy |-> copy, base |-> base, current |-> revision[r],
                   submitted |-> c, displaced |-> content[r],
                   status |-> "pending", resolution |-> "none"]
  <1>1. x \in Conflict
    BY DEF WellFormed, TypeOK, Conflict, RecordConflict, Resolution
  <1>2. /\ conflicts \in Seq(Conflict) /\ conflicts' = Append(conflicts, x)
        /\ SameKind(r, copy) /\ UNCHANGED <<rows, tombstones>>
    BY DEF WellFormed, TypeOK, RecordConflict, columns
  <1>3. /\ conflicts' \in Seq(Conflict) /\ Len(conflicts') = Len(conflicts) + 1
        /\ \A k \in 1..Len(conflicts) : conflicts'[k] = conflicts[k]
        /\ conflicts'[Len(conflicts) + 1] = x
    BY <1>1, <1>2, AppendProperties
  <1>4. notices' \subseteq Notice
    BY <1>3, LenProperties DEF WellFormed, TypeOK, RecordConflict, Notice
  <1>5. \A k \in DOMAIN conflicts' :
            conflicts'[k].id \in rows
            /\ SameKind(conflicts'[k].id, conflicts'[k].copy)
    <2>1. /\ Len(conflicts) \in Nat
          /\ DOMAIN conflicts = 1..Len(conflicts)
          /\ DOMAIN conflicts' = 1..(Len(conflicts) + 1)
      BY <1>2, <1>3, LenProperties
    <2>2. \A k \in 1..Len(conflicts) :
              conflicts'[k].id \in rows
              /\ SameKind(conflicts'[k].id, conflicts'[k].copy)
      BY <1>3, <2>1 DEF WellFormed
    <2> QED
      BY <1>2, <1>3, <2>1, <2>2
  <1> QED
    BY <1>2, <1>3, <1>4, <1>5 DEF WellFormed, TypeOK, RecordsWellFormed, SameKind

LEMMA CloseTypes ==
    ASSUME WellFormed, NEW k \in DOMAIN conflicts, NEW resolution \in Resolution,
           Close(k, resolution), rows \subseteq rows'
    PROVE  RecordsWellFormed'
  <1> DEFINE y == [conflicts[k] EXCEPT !.status = "resolved",
                                       !.resolution = resolution]
  <1>1. /\ k \in 1..Len(conflicts) /\ Len(conflicts) \in Nat
        /\ conflicts \in Seq(Conflict) /\ DOMAIN conflicts = 1..Len(conflicts)
    BY LenProperties DEF WellFormed, TypeOK
  <1>2. conflicts[k] \in Conflict
    BY ConflictType
  <1>3. y \in Conflict /\ y.id = conflicts[k].id /\ y.copy = conflicts[k].copy
    BY <1>2 DEF Conflict
  <1>4. conflicts' = [conflicts EXCEPT ![k] = y]
    BY DEF Close
  <1> HIDE DEF y
  <1>5. conflicts' \in Seq(Conflict) /\ Len(conflicts') = Len(conflicts)
    BY <1>1, <1>3, <1>4, ExceptSeq
  <1>6. DOMAIN conflicts' = 1..Len(conflicts)
    BY <1>5, LenProperties
  <1>7. \A l \in 1..Len(conflicts) :
            conflicts'[l] = IF l = k THEN y ELSE conflicts[l]
    BY <1>1, <1>3, <1>4, ExceptSeq
  <1>8. \A l \in DOMAIN conflicts' :
            conflicts'[l].id \in rows
            /\ SameKind(conflicts'[l].id, conflicts'[l].copy)
    BY <1>1, <1>3, <1>6, <1>7 DEF WellFormed
  <1>9. notices' \subseteq Notice
    BY <1>1 DEF WellFormed, TypeOK, Notice, Close
  <1> QED
    BY <1>5, <1>8, <1>9 DEF WellFormed, TypeOK, RecordsWellFormed, SameKind, Close

LEMMA StepKeepsRecords ==
    ASSUME WellFormed, Next
    PROVE  RecordsWellFormed'
  <1>0. rows \subseteq Resource /\ revision \in [Resource -> Nat]
    BY DEF WellFormed, TypeOK
  <1>1. ASSUME UNCHANGED <<tombstones, conflicts, notices>>, rows \subseteq rows'
        PROVE  RecordsWellFormed'
    BY <1>1 DEF WellFormed, TypeOK, RecordsWellFormed, SameKind
  <1>2. CASE Create
    <2>1. UNCHANGED <<tombstones, conflicts, notices>> /\ rows \subseteq rows'
      BY <1>2 DEF Create, CreateNotebook, CreatePage, CreateCanvas, Insert
    <2> QED
      BY <1>1, <2>1
  <1>3. ASSUME NEW r \in rows, NEW base \in 1..revision[r],
               NEW c \in Content \union {NoContent},
               NEW baseline \in Meta, NEW desired \in Meta,
               Upsert(r, base, c, baseline, desired)
        PROVE  RecordsWellFormed'
    <2>1. ASSUME NEW pos, Save(r, base, c, baseline, desired, pos)
          PROVE  RecordsWellFormed'
      BY <1>1, <2>1 DEF Save
    <2>2. ASSUME NEW copy \in Resource,
                 RecordConflict(r, base, c, baseline, desired, copy)
          PROVE  RecordsWellFormed'
      BY <1>0, <2>2, RecordConflictTypes
    <2>3. ASSUME NEW t \in DOMAIN tombstones, PreserveEditAfterDelete(r, c, t)
          PROVE  RecordsWellFormed'
      <3> DEFINE y == [tombstones[t] EXCEPT !.state = "restored",
                                            !.kind = "edit_after_delete"]
      <3>1. y \in Tombstone /\ y.id = tombstones[t].id
        BY TombstoneType DEF Tombstone
      <3> QED
        BY <2>3, <3>1, MarkTombstoneTypes DEF PreserveEditAfterDelete
    <2> QED
      BY <1>3, <2>1, <2>2, <2>3 DEF Upsert, SaveNotebook, SavePage, SaveCanvas
  <1>4. ASSUME NEW r \in rows, NEW base \in 1..revision[r], DeleteOrRefuse(r, base)
        PROVE  RecordsWellFormed'
    <2>1. base \in Nat /\ revision[r] + 1 \in Nat
      BY <1>0
    <2>2. CASE Delete(r, base)
      BY <2>1, <2>2, AddTombstoneTypes DEF Delete
    <2>3. CASE RefuseStaleDelete(r, base)
      BY <2>1, <2>3, AddTombstoneTypes DEF RefuseStaleDelete, columns
    <2> QED
      BY <1>4, <2>2, <2>3 DEF DeleteOrRefuse
  <1>5. ASSUME NEW t \in DOMAIN tombstones, Restore(t)
        PROVE  RecordsWellFormed'
    <2> DEFINE y == [tombstones[t] EXCEPT !.state = "restored"]
    <2>1. y \in Tombstone /\ y.id = tombstones[t].id
      BY TombstoneType DEF Tombstone
    <2> QED
      BY <1>5, <2>1, MarkTombstoneTypes DEF Restore
  <1>6. ASSUME NEW k \in DOMAIN conflicts, Resolve(k)
        PROVE  RecordsWellFormed'
    <2>1. PICK resolution \in Resolution :
              Close(k, resolution) /\ rows \subseteq rows'
      BY <1>6 DEF Resolve, KeepOriginal, UseConflict, KeepBoth, columns, Resolution
    <2> QED
      BY <2>1, CloseTypes
  <1> QED
    BY <1>2, <1>3, <1>4, <1>5, <1>6 DEF Next, Commit

LEMMA InitWellFormed ==
    ASSUME Init
    PROVE  WellFormed
  <1>1. <<>> \in Seq(Tombstone) /\ <<>> \in Seq(Conflict) /\ DOMAIN <<>> = {}
    OBVIOUS
  <1> QED
    BY <1>1 DEF Init, WellFormed, TypeOK

LEMMA StepKeepsWellFormed ==
    ASSUME WellFormed, [Next]_vars
    PROVE  WellFormed'
  <1>1. CASE Next
    <2>1. PICK S : Published(S)
      BY <1>1, StepPublishes
    <2>2. RecordsWellFormed'
      BY <1>1, StepKeepsRecords
    <2> QED
      BY <2>1, <2>2, PublishedTypes
         DEF WellFormed, TypeOK, Published, RecordsWellFormed
  <1>2. CASE UNCHANGED vars
    BY <1>2 DEF vars, WellFormed, TypeOK, SameKind
  <1> QED
    BY <1>1, <1>2

\* The columns of every row and every record keep their types: positions stay
\* natural numbers through every renumbering, the content of a row is always
\* a document and records refer to rows that exist.
THEOREM TypeCorrect == Spec => []WellFormed
  <1>1. Init => WellFormed
    BY InitWellFormed
  <1>2. WellFormed /\ [Next]_vars => WellFormed'
    BY StepKeepsWellFormed
  <1> QED
    BY <1>1, <1>2, PTL DEF Spec

THEOREM TypeInvariant == Spec => []TypeOK
  <1>1. WellFormed => TypeOK
    BY DEF WellFormed
  <1> QED
    BY <1>1, TypeCorrect, PTL

-----------------------------------------------------------------------------
(* The revision history.                                                   *)

HistoryInv == WellFormed /\ HistoryComplete

LEMMA PublishedKeepsHistory ==
    ASSUME HistoryInv, NEW S, Published(S)
    PROVE  HistoryComplete'
  <1> USE DEF HistoryInv
  <1>0. /\ revision \in [Resource -> Nat] /\ S \subseteq Resource
        /\ \A r \in Resource :
              revision'[r] = IF r \in S THEN revision[r] + 1 ELSE revision[r]
        /\ \A r \in S : content'[r] \in Content
        /\ \A r \in Resource \ S : content'[r] = content[r]
        /\ rows' = rows \union S /\ rows \subseteq Resource
        /\ history \subseteq Revision
    BY DEF WellFormed, TypeOK, Published, Advance
  <1> DEFINE new == {[id |-> r, revision |-> revision'[r], content |-> content'[r]] :
                        r \in S}
  <1>1. history' = history \union new
    BY DEF Published, Publish, AppendRevisions
  <1>2. \A h \in history : h.id \in Resource /\ h.revision \in 1..revision[h.id]
    BY <1>0 DEF HistoryComplete, Revision
  <1>3. ASSUME NEW r \in Resource, NEW n \in 1..revision'[r]
        PROVE  \E c \in Content : Recorded(r, n, c)'
    <2>1. CASE r \in S /\ n = revision'[r]
      BY <1>0, <1>1, <2>1 DEF Recorded
    <2>2. CASE ~(r \in S /\ n = revision'[r])
      <3>1. n \in 1..revision[r]
        BY <1>0, <2>2
      <3>2. PICK c \in Content : Recorded(r, n, c)
        BY <3>1 DEF HistoryComplete
      <3> QED
        BY <1>1, <3>2 DEF Recorded
    <2> QED
      BY <2>1, <2>2
  <1>4. ASSUME NEW h \in history', NEW g \in history',
               h.id = g.id, h.revision = g.revision
        PROVE  h = g
    <2>1. CASE h \in history /\ g \in history
      BY <1>2, <1>4, <2>1 DEF HistoryComplete
    <2>2. CASE h \in new /\ g \in new
      BY <1>4, <2>2
    <2>3. ASSUME NEW a \in history, NEW b \in new,
                 a.id = b.id, a.revision = b.revision
          PROVE  FALSE
      BY <1>0, <1>2, <2>3
    <2> QED
      BY <1>1, <1>4, <2>1, <2>2, <2>3
  <1>5. ASSUME NEW r \in Resource, NEW h \in history', h.id = r
        PROVE  h.revision \in 1..revision'[r]
    <2>1. CASE h \in history
      BY <1>0, <1>2, <1>5, <2>1
    <2>2. CASE h \in new
      BY <1>0, <1>5, <2>2
    <2> QED
      BY <1>1, <2>1, <2>2
  <1>6. ASSUME NEW r \in rows'
        PROVE  revision'[r] > 0 /\ Recorded(r, revision[r], content[r])'
    <2>1. CASE r \in S
      BY <1>0, <1>1, <2>1 DEF Recorded
    <2>2. CASE r \notin S
      <3>1. revision[r] > 0 /\ Recorded(r, revision[r], content[r])
        BY <1>0, <2>2 DEF HistoryComplete
      <3> QED
        BY <1>0, <1>1, <2>2, <3>1 DEF Recorded
    <2> QED
      BY <2>1, <2>2
  <1> QED
    BY <1>3, <1>4, <1>5, <1>6 DEF HistoryComplete

LEMMA HistoryInvariant == Spec => []HistoryInv
  <1>1. Init => HistoryInv
    <2> SUFFICES ASSUME Init PROVE HistoryComplete
      BY InitWellFormed DEF HistoryInv
    <2> QED
      BY DEF Init, HistoryComplete
  <1>2. HistoryInv /\ [Next]_vars => HistoryInv'
    <2> SUFFICES ASSUME HistoryInv, [Next]_vars PROVE HistoryComplete'
      BY StepKeepsWellFormed DEF HistoryInv
    <2>1. CASE Next
      BY <2>1, StepPublishes, PublishedKeepsHistory DEF HistoryInv
    <2>2. CASE UNCHANGED vars
      BY <2>2 DEF vars, HistoryInv, HistoryComplete, Recorded
    <2> QED
      BY <2>1, <2>2
  <1> QED
    BY <1>1, <1>2, PTL DEF Spec

\* No operation loses a version: the history of every row has one entry for
\* each of its revisions and the last entry is the row.
THEOREM HistoryIsComplete == Spec => []HistoryComplete
  <1>1. HistoryInv => HistoryComplete
    BY DEF HistoryInv
  <1> QED
    BY <1>1, HistoryInvariant, PTL

\* A base revision names one state of a row: no operation, whatever pages it
\* renumbers on the way, changes a row without its next revision.
THEOREM RevisionsNameStates == Spec => RevisionNamesState
  <1> DEFINE step == \A r \in rows :
          /\ revision'[r] \in {revision[r], revision[r] + 1}
          /\ revision'[r] = revision[r] =>
                /\ content'[r] = content[r] /\ meta'[r] = meta[r]
                /\ deleted'[r] = deleted[r]
                /\ r \in Page => position'[r] = position[r]
  <1>1. WellFormed /\ [Next]_vars => [step]_vars
    <2> SUFFICES ASSUME WellFormed, Next PROVE step
      OBVIOUS
    <2>1. PICK S : Published(S)
      BY StepPublishes
    <2> QED
      BY <2>1 DEF Published, Advance, WellFormed, TypeOK
  <1>2. RevisionNamesState <=> [][step]_vars
    BY PTL DEF RevisionNamesState
  <1> HIDE DEF step
  <1> QED
    BY <1>1, <1>2, TypeCorrect, PTL DEF Spec

-----------------------------------------------------------------------------
(* The change feed.                                                        *)

\* What the feed says of the rows, also of those that do not exist yet.
FeedInv ==
    /\ WellFormed
    /\ \A x \in changes : x.revision \in 1..revision[x.id]
    /\ FeedConverges

LEMMA PublishedKeepsFeed ==
    ASSUME FeedInv, NEW S, Published(S)
    PROVE  FeedInv' \/ ~WellFormed'
  <1> USE DEF FeedInv
  <1> SUFFICES /\ \A x \in changes' : x.revision \in 1..revision'[x.id]
               /\ FeedConverges'
    OBVIOUS
  <1>0. /\ revision \in [Resource -> Nat] /\ S \subseteq Resource
        /\ \A r \in Resource :
              revision'[r] = IF r \in S THEN revision[r] + 1 ELSE revision[r]
        /\ \A r \in Resource \ rows : revision[r] = 0
        /\ \A r \in Resource \ S :
              content'[r] = content[r] /\ meta'[r] = meta[r] /\ deleted'[r] = deleted[r]
        /\ \A p \in Page \ S : position'[p] = position[p]
        /\ deleted' \in [Resource -> BOOLEAN]
        /\ rows' = rows \union S /\ rows \subseteq Resource
        /\ changes \subseteq Change
    BY DEF WellFormed, TypeOK, Published, Advance
  <1> DEFINE entry(r) ==
                [id |-> r, revision |-> revision'[r],
                 operation |-> IF deleted'[r] THEN "delete" ELSE "upsert",
                 payload |-> IF deleted'[r] THEN NoContent ELSE Snapshot(r)']
             new == {entry(r) : r \in S}
             numbers(r) == {x.revision : x \in {y \in changes : y.id = r}}
             numbersAfter(r) == {x.revision : x \in {y \in changes' : y.id = r}}
  <1>1. changes' = changes \union new
    BY DEF Published, Publish, AppendChanges
  <1>2. \A x \in changes : x.id \in Resource
    BY <1>0 DEF Change
  <1>3. \A x \in changes' : x.revision \in 1..revision'[x.id]
    BY <1>0, <1>1, <1>2
  <1>4. \A r \in Resource : numbers(r) = 1..revision[r]
    <2>1. \A r \in rows : numbers(r) = 1..revision[r]
      BY DEF FeedConverges
    <2>2. ASSUME NEW r \in Resource \ rows
          PROVE  numbers(r) = 1..revision[r]
      BY <1>0, <2>2
    <2> QED
      BY <2>1, <2>2
  <1>5. ASSUME NEW r \in rows'
        PROVE  numbersAfter(r) = 1..revision'[r]
    <2>1. CASE r \in S
      <3>1. ASSUME NEW n
            PROVE  n \in numbersAfter(r) <=> n \in numbers(r) \/ n = revision'[r]
        <4>1. ASSUME NEW x \in changes', x.id = r
              PROVE  x \in changes \/ x.revision = revision'[r]
          BY <1>1, <4>1
        <4>2. entry(r) \in changes' /\ entry(r).id = r
              /\ entry(r).revision = revision'[r] /\ changes \subseteq changes'
          BY <1>1, <2>1
        <4> HIDE DEF entry, new
        <4> QED
          BY <4>1, <4>2
      <3>2. revision[r] \in Nat /\ revision'[r] = revision[r] + 1
            /\ numbers(r) = 1..revision[r]
        BY <1>0, <1>4, <2>1
      <3> HIDE DEF numbers, numbersAfter
      <3>3. \A n : n \in numbersAfter(r) <=> n \in 1..revision'[r]
        BY <3>1, <3>2
      <3> QED
        BY <3>3
    <2>2. CASE r \notin S
      <3>1. numbersAfter(r) = numbers(r)
        BY <1>1, <2>2
      <3> QED
        BY <1>0, <1>4, <2>2, <3>1
    <2> QED
      BY <2>1, <2>2
  <1>6. ASSUME NEW x \in changes', NEW y \in changes',
               x.id = y.id, x.revision = y.revision
        PROVE  x = y
    <2>1. CASE x \in changes /\ y \in changes
      <3>1. x.id \in rows
        BY <1>0, <1>2, <2>1
      <3> QED
        BY <1>6, <2>1, <3>1 DEF FeedConverges
    <2>2. CASE x \in new /\ y \in new
      BY <1>6, <2>2
    <2>3. ASSUME NEW a \in changes, NEW b \in new,
                 a.id = b.id, a.revision = b.revision
          PROVE  FALSE
      BY <1>0, <1>2, <2>3
    <2> QED
      BY <1>1, <1>6, <2>1, <2>2, <2>3
  <1>7. ASSUME NEW r \in rows'
        PROVE  \E x \in changes' :
                  /\ x.id = r /\ x.revision = revision'[r]
                  /\ x.operation = "delete" <=> deleted'[r]
                  /\ deleted'[r] \/ x.payload = Snapshot(r)'
    <2>1. CASE r \in S
      <3>1. entry(r) \in changes'
        BY <1>1, <2>1
      <3> QED
        BY <1>0, <2>1, <3>1
    <2>2. CASE r \notin S
      <3>1. PICK x \in changes :
                  /\ x.id = r /\ x.revision = revision[r]
                  /\ x.operation = "delete" <=> deleted[r]
                  /\ deleted[r] \/ x.payload = Snapshot(r)
        BY <1>0, <2>2 DEF FeedConverges
      <3>2. Snapshot(r)' = Snapshot(r)
        BY <1>0, <2>2 DEF Snapshot, PositionOf
      <3> QED
        BY <1>0, <1>1, <2>2, <3>1, <3>2
    <2> QED
      BY <2>1, <2>2
  <1> HIDE DEF new, entry
  <1> QED
    BY <1>3, <1>5, <1>6, <1>7 DEF FeedConverges

\* A device that applies the change events of a row in order ends with the
\* row the server holds.
THEOREM FeedIsConvergent == Spec => []FeedConverges
  <1>1. Init => FeedInv
    <2> SUFFICES ASSUME Init PROVE FeedInv
      OBVIOUS
    <2> QED
      BY InitWellFormed DEF Init, FeedInv, FeedConverges
  <1>2. FeedInv /\ [Next]_vars => FeedInv'
    <2> SUFFICES ASSUME FeedInv, [Next]_vars PROVE FeedInv'
      OBVIOUS
    <2>1. WellFormed'
      BY StepKeepsWellFormed DEF FeedInv
    <2>2. CASE Next
      BY <2>1, <2>2, StepPublishes, PublishedKeepsFeed DEF FeedInv
    <2>3. CASE UNCHANGED vars
      BY <2>1, <2>3 DEF vars, FeedInv, FeedConverges, Snapshot, PositionOf
    <2> QED
      BY <2>2, <2>3
  <1>3. FeedInv => FeedConverges
    BY DEF FeedInv
  <1> QED
    BY <1>1, <1>2, <1>3, PTL DEF Spec

-----------------------------------------------------------------------------
(* Numbering pages.                                                        *)

\* As many numbers as there are pages, no two pages with one number: all of
\* them are used.
LEMMA InjectiveIsDense ==
    ASSUME NEW S, IsFiniteSet(S), NEW f \in [S -> 0..(Cardinality(S) - 1)],
           \A p, q \in S : f[p] = f[q] => p = q
    PROVE  {f[p] : p \in S} = 0..(Cardinality(S) - 1)
  <1> DEFINE T == 0..(Cardinality(S) - 1)
  <1>1. Cardinality(S) \in Nat
    BY FS_CardinalityType
  <1>2. IsFiniteSet(T) /\ Cardinality(T) = Cardinality(S)
    BY <1>1, FS_Interval, SMTT(30)
  <1>3. f \in Injection(S, T)
    BY Fun_IsInj
  <1> HIDE DEF T
  <1>4. f \in Surjection(S, T)
    BY <1>2, <1>3, FS_Injection
  <1>5. f \in [S -> T] /\ \A t \in T : \E s \in S : f[s] = t
    BY <1>4, Fun_SurjectionProperties
  <1>6. {f[p] : p \in S} = T
    <2>1. \A p \in S : f[p] \in T
      BY <1>5
    <2>2. \A t \in T : t \in {f[p] : p \in S}
      BY <1>5
    <2> QED
      BY <2>1, <2>2
  <1> QED
    BY <1>6 DEF T

\* The index of a page is its rank among pages at distinct positions.
LEMMA Ranks ==
    ASSUME position \in [Page -> Nat], NEW S \in SUBSET Page,
           \A p, q \in S : position[p] = position[q] => p = q
    PROVE  /\ IsFiniteSet(S) /\ Cardinality(S) \in Nat
           /\ \A q \in S : Index(S, q) \in 0..(Cardinality(S) - 1)
           /\ \A p, q \in S : position[p] < position[q] => Index(S, p) < Index(S, q)
           /\ \A p, q \in S : Index(S, p) = Index(S, q) => p = q
  <1> DEFINE below(q) == {s \in S : position[s] < position[q]}
  <1>1. IsFiniteSet(S) /\ Cardinality(S) \in Nat
    BY PagesFinite
  <1>2. ASSUME NEW q \in S
        PROVE  /\ IsFiniteSet(below(q))
               /\ Index(S, q) = Cardinality(below(q)) /\ Index(S, q) \in Nat
    BY PagesFinite, IndexInNat, below(q) \in SUBSET Page DEF Index
  <1>3. ASSUME NEW q \in S
        PROVE  Index(S, q) \in 0..(Cardinality(S) - 1)
    <2>1. below(q) \in SUBSET (S \ {q})
      OBVIOUS
    <2>2. IsFiniteSet(S \ {q}) /\ Cardinality(S \ {q}) = Cardinality(S) - 1
      BY <1>1, FS_RemoveElement
    <2>3. Cardinality(below(q)) <= Cardinality(S) - 1
      BY <2>1, <2>2, FS_Subset
    <2> QED
      BY <1>1, <1>2, <2>3
  <1>4. ASSUME NEW p \in S, NEW q \in S, position[p] < position[q]
        PROVE  Index(S, p) < Index(S, q)
    <2>1. below(p) \in SUBSET (below(q) \ {p})
      <3> SUFFICES ASSUME NEW s \in S, position[s] < position[p]
                   PROVE  position[s] < position[q] /\ s # p
        OBVIOUS
      <3>1. position[s] \in Nat /\ position[p] \in Nat /\ position[q] \in Nat
        OBVIOUS
      <3> QED
        BY <1>4, <3>1
    <2>2. /\ IsFiniteSet(below(q) \ {p})
          /\ Cardinality(below(q) \ {p}) = Cardinality(below(q)) - 1
      BY <1>2, <1>4, FS_RemoveElement
    <2>3. Cardinality(below(p)) <= Cardinality(below(q)) - 1
      BY <2>1, <2>2, FS_Subset
    <2> HIDE DEF below
    <2> QED
      BY <1>2, <2>3
  <1>5. ASSUME NEW p \in S, NEW q \in S, Index(S, p) = Index(S, q)
        PROVE  p = q
    <2>1. position[p] \in Nat /\ position[q] \in Nat
      OBVIOUS
    <2>2. Index(S, p) \in Nat /\ Index(S, q) \in Nat
      BY <1>2
    <2>3. ~(position[p] < position[q]) /\ ~(position[q] < position[p])
      BY <1>4, <1>5, <2>2
    <2> QED
      BY <2>1, <2>3
  <1> QED
    BY <1>1, <1>3, <1>4, <1>5

\* No two of the pages S claim one position in the placement pos, ...
Apart(S, pos) == \A p, q \in S : pos[p] = pos[q] => p = q

\* ... and together they are numbered without a gap.
Numbered(S, pos) == {pos[p] : p \in S} = 0..(Cardinality(S) - 1)

\* The siblings of a page that goes are numbered again.
LEMMA CompactedIsNumbered ==
    ASSUME position \in [Page -> Nat], NEW p \in Page,
           Apart(Siblings(p), position)
    PROVE  Apart(Siblings(p), Compacted(p)) /\ Numbered(Siblings(p), Compacted(p))
  <1> DEFINE S == Siblings(p)
             f == [q \in S |-> Index(S, q)]
  <1>1. S \in SUBSET Page
    BY DEF Siblings, ActivePages, PageRows
  <1>2. \A q \in S : Compacted(p)[q] = Index(S, q)
    BY <1>1 DEF Compacted
  <1> HIDE DEF S
  <1>3. /\ IsFiniteSet(S)
        /\ \A q \in S : Index(S, q) \in 0..(Cardinality(S) - 1)
        /\ \A q, s \in S : Index(S, q) = Index(S, s) => q = s
    BY <1>1, Ranks DEF Apart, S
  <1>4. {f[q] : q \in S} = 0..(Cardinality(S) - 1)
    BY <1>3, InjectiveIsDense, ZenonT(30)
  <1>5. {Compacted(p)[q] : q \in S} = {f[q] : q \in S}
    BY <1>2
  <1> QED
    BY <1>2, <1>3, <1>4, <1>5 DEF Apart, Numbered, S

\* A page that comes back is numbered among its siblings.
LEMMA ReinsertedIsNumbered ==
    ASSUME position \in [Page -> Nat], NEW p \in Page, NEW at \in Nat,
           Apart(Siblings(p), position)
    PROVE  /\ Apart(Siblings(p) \union {p}, Reinserted(p, at))
           /\ Numbered(Siblings(p) \union {p}, Reinserted(p, at))
  <1> DEFINE S == Siblings(p)
             T == S \union {p}
             n == Cardinality(S)
             spot == IF at < n THEN at ELSE n
             new == Reinserted(p, at)
             f == [q \in T |-> new[q]]
  <1>1. S \in SUBSET Page /\ p \notin S
    BY DEF Siblings, ActivePages, PageRows
  <1>2. /\ IsFiniteSet(S) /\ n \in Nat
        /\ \A q \in S : Index(S, q) \in 0..(n - 1)
        /\ \A q, s \in S : Index(S, q) = Index(S, s) => q = s
    BY <1>1, Ranks DEF Apart
  <1>3. IsFiniteSet(T) /\ Cardinality(T) = n + 1
    BY <1>1, <1>2, FS_AddElement
  <1>4. spot \in 0..n
    BY <1>2
  <1>5. new[p] = spot
    <2>1. new[p] = CASE p = p -> spot
                     [] p \in S /\ Index(S, p) < spot  -> Index(S, p)
                     [] p \in S /\ Index(S, p) >= spot -> Index(S, p) + 1
                     [] OTHER -> position[p]
      BY DEF Reinserted
    <2> HIDE DEF new, S, spot
    <2> QED
      BY <1>1, <2>1
  <1>6. \A q \in S : new[q] = IF Index(S, q) < spot THEN Index(S, q)
                                                    ELSE Index(S, q) + 1
    <2> SUFFICES ASSUME NEW q \in S
                 PROVE  new[q] = IF Index(S, q) < spot THEN Index(S, q)
                                                       ELSE Index(S, q) + 1
      OBVIOUS
    <2>1. q \in Page /\ q # p
      BY <1>1
    <2>2. Index(S, q) \in Int /\ spot \in Int
      BY <1>2, <1>4
    <2>3. new[q] = CASE q = p -> spot
                     [] q \in S /\ Index(S, q) < spot  -> Index(S, q)
                     [] q \in S /\ Index(S, q) >= spot -> Index(S, q) + 1
                     [] OTHER -> position[q]
      BY <2>1 DEF Reinserted
    <2> HIDE DEF new, S, spot
    <2> QED
      BY <2>1, <2>2, <2>3
  <1> HIDE DEF S, spot, new
  <1>7. \A q \in T : new[q] \in 0..n
    BY <1>2, <1>4, <1>5, <1>6
  <1>8. \A q \in S : new[q] # spot
    BY <1>2, <1>4, <1>6
  <1>9. ASSUME NEW q \in S, NEW s \in S, new[q] = new[s]
        PROVE  q = s
    <2>1. Index(S, q) = Index(S, s)
      BY <1>2, <1>4, <1>6, <1>9
    <2> QED
      BY <1>2, <2>1
  <1>10. \A q, s \in T : new[q] = new[s] => q = s
    BY <1>5, <1>8, <1>9
  <1>11. {f[q] : q \in T} = 0..(Cardinality(T) - 1)
    <2>1. f \in [T -> 0..(Cardinality(T) - 1)]
      BY <1>2, <1>3, <1>7
    <2>2. \A q, s \in T : f[q] = f[s] => q = s
      BY <1>10
    <2> HIDE DEF f, T
    <2> QED
      BY <1>3, <2>1, <2>2, InjectiveIsDense
  <1>12. {new[q] : q \in T} = {f[q] : q \in T}
    OBVIOUS
  <1> QED
    BY <1>10, <1>11, <1>12 DEF Apart, Numbered, S, new

\* So are the pages of a notebook in a new order.
LEMMA ReorderedIsNumbered ==
    ASSUME position \in [Page -> Nat], NEW n, NEW pos \in Reordered(n)
    PROVE  Apart(ActivePages(n), pos) /\ Numbered(ActivePages(n), pos)
  <1> DEFINE S == ActivePages(n)
  <1>1. S \in SUBSET Page
    BY DEF ActivePages, PageRows
  <1>2. PICK f \in [S -> 0..(Cardinality(S) - 1)] :
            /\ \A p, q \in S : f[p] = f[q] => p = q
            /\ pos = [q \in Page |-> IF q \in S THEN f[q] ELSE position[q]]
    BY DEF Reordered
  <1> HIDE DEF S
  <1>3. IsFiniteSet(S)
    BY <1>1, PagesFinite
  <1>4. \A q \in S : pos[q] = f[q]
    BY <1>1, <1>2
  <1>5. {f[q] : q \in S} = 0..(Cardinality(S) - 1)
    BY <1>2, <1>3, InjectiveIsDense
  <1>6. {pos[q] : q \in S} = {f[q] : q \in S}
    BY <1>4
  <1> QED
    BY <1>2, <1>4, <1>5, <1>6 DEF Apart, Numbered, S

-----------------------------------------------------------------------------
(* The conflict records.                                                   *)

\* What a conflict record keeps recoverable: what ConflictsRecoverable asks of
\* it, that only a pending one has no resolution, and that the revision it was
\* recorded against is one the row has had.
RecordHolds(k) ==
    LET x == conflicts[k] IN
    /\ Recorded(x.id, x.current, x.displaced)
    /\ x.resolution = "use_conflict" =>
          \E n \in x.current..revision[x.id] : Recorded(x.id, n, x.submitted)
    /\ x.resolution = "keep_both" => Recorded(x.copy, 1, x.submitted)
    /\ x.resolution # "keep_both" => x.copy \notin rows
    /\ x.status = "pending" <=> x.resolution = "none"
    /\ x.current \in 1..revision[x.id]

CopiesDistinct ==
    \A k, l \in DOMAIN conflicts : conflicts[k].copy = conflicts[l].copy => k = l

ConflictsInv ==
    /\ HistoryInv
    /\ CopiesDistinct
    /\ \A k \in DOMAIN conflicts : RecordHolds(k)

LEMMA ConflictsInvImplies == ConflictsInv => ConflictsRecoverable
  BY DEF ConflictsInv, CopiesDistinct, RecordHolds, ConflictsRecoverable

\* Rows, revisions and their history only grow.
LEMMA StepGrows ==
    ASSUME HistoryInv, Next
    PROVE  /\ HistoryInv'
           /\ history \subseteq history' /\ rows \subseteq rows'
           /\ \A r \in Resource : revision[r] \in Nat /\ revision'[r] \in Nat
                                  /\ revision[r] <= revision'[r]
  <1>1. PICK S : Published(S)
    BY StepPublishes DEF HistoryInv
  <1>2. HistoryInv'
    BY <1>1, PublishedKeepsHistory, StepKeepsWellFormed DEF HistoryInv
  <1>3. history \subseteq history' /\ rows \subseteq rows'
    BY <1>1 DEF Published, Publish, AppendRevisions
  <1>4. ASSUME NEW r \in Resource
        PROVE  /\ revision[r] \in Nat /\ revision'[r] \in Nat
               /\ revision[r] <= revision'[r]
    BY <1>1 DEF HistoryInv, WellFormed, TypeOK, Published, Advance
  <1> QED
    BY <1>2, <1>3, <1>4

\* What a step may do to the conflict records and to the identifiers in use.
LEMMA ConflictSteps ==
    ASSUME WellFormed, Next
    PROVE  \/ UNCHANGED <<conflicts, rows>>
           \/ /\ UNCHANGED conflicts
              /\ \E r \in Resource : Fresh(r) /\ rows' = rows \union {r}
           \/ \E r \in rows, base \in Nat, c \in Content,
                 baseline \in Meta, desired \in Meta, copy \in Resource :
                RecordConflict(r, base, c, baseline, desired, copy)
           \/ \E k \in DOMAIN conflicts : Resolve(k)
  <1>1. CASE Create
    <2>1. UNCHANGED conflicts
      BY <1>1 DEF Create, CreateNotebook, CreatePage, CreateCanvas, Insert
    <2>2. \E r \in Resource : Fresh(r) /\ rows' = rows \union {r}
      BY <1>1 DEF Create, CreateNotebook, CreatePage, CreateCanvas, Insert, Resource
    <2> QED
      BY <2>1, <2>2
  <1>2. ASSUME NEW r \in rows, NEW base \in 1..revision[r],
               NEW c \in Content \union {NoContent},
               NEW baseline \in Meta, NEW desired \in Meta,
               Upsert(r, base, c, baseline, desired)
        PROVE  \/ UNCHANGED <<conflicts, rows>>
               \/ \E copy \in Resource :
                    c \in Content /\ RecordConflict(r, base, c, baseline, desired, copy)
    BY <1>2 DEF Upsert, SaveNotebook, SavePage, SaveCanvas, Save, RecordConflict,
                PreserveEditAfterDelete
  <1>3. ASSUME NEW r \in rows, NEW base \in 1..revision[r], DeleteOrRefuse(r, base)
        PROVE  UNCHANGED <<conflicts, rows>>
    BY <1>3 DEF DeleteOrRefuse, Delete, RefuseStaleDelete, columns
  <1>4. ASSUME NEW t \in DOMAIN tombstones, Restore(t)
        PROVE  UNCHANGED <<conflicts, rows>>
    BY <1>4 DEF Restore
  <1>5. \A r \in rows : 1..revision[r] \subseteq Nat
    BY DEF WellFormed, TypeOK
  <1>6. CASE Commit
    <2>1. PICK r \in rows : \E base \in 1..revision[r] :
              \/ \E c \in Content \union {NoContent}, baseline, desired \in Meta :
                    Upsert(r, base, c, baseline, desired)
              \/ DeleteOrRefuse(r, base)
      BY <1>6 DEF Commit
    <2>2. PICK base \in 1..revision[r] :
              \/ \E c \in Content \union {NoContent}, baseline, desired \in Meta :
                    Upsert(r, base, c, baseline, desired)
              \/ DeleteOrRefuse(r, base)
      BY <2>1
    <2>3. base \in Nat
      BY <1>5
    <2> QED
      BY <1>2, <1>3, <2>2, <2>3
  <1> QED
    BY <1>1, <1>4, <1>6 DEF Next

\* A record that a step leaves alone still holds, as long as its copy's
\* identifier is not taken.
LEMMA RecordStays ==
    ASSUME ConflictsInv, Next, NEW k \in DOMAIN conflicts,
           conflicts'[k] = conflicts[k],
           conflicts[k].resolution # "keep_both" => conflicts[k].copy \notin rows'
    PROVE  RecordHolds(k)'
  <1>1. RecordHolds(k) /\ WellFormed
    BY DEF ConflictsInv, HistoryInv
  <1>2. conflicts[k].id \in Resource
    BY <1>1, ConflictType DEF WellFormed, TypeOK
  <1>3. /\ history \subseteq history'
        /\ revision[conflicts[k].id] \in Nat /\ revision'[conflicts[k].id] \in Nat
        /\ revision[conflicts[k].id] <= revision'[conflicts[k].id]
    BY <1>2, StepGrows DEF ConflictsInv
  <1>4. conflicts[k].current \in Nat
    BY <1>1, ConflictType DEF Conflict
  <1> DEFINE x == conflicts[k]
             entry(r, n, c) == [id |-> r, revision |-> n, content |-> c]
  <1>5. /\ entry(x.id, x.current, x.displaced) \in history'
        /\ x.resolution = "keep_both" => entry(x.copy, 1, x.submitted) \in history'
        /\ x.status = "pending" <=> x.resolution = "none"
    BY <1>1, <1>3 DEF RecordHolds, Recorded
  <1>6. x.current \in 1..revision'[x.id]
    BY <1>1, <1>3, <1>4 DEF RecordHolds
  <1>7. ASSUME x.resolution = "use_conflict"
        PROVE  \E n \in x.current..revision'[x.id] :
                    entry(x.id, n, x.submitted) \in history'
    <2>1. PICK n \in x.current..revision[x.id] : Recorded(x.id, n, x.submitted)
      BY <1>1, <1>7 DEF RecordHolds
    <2>2. n \in x.current..revision'[x.id]
      BY <1>3, <1>4, <2>1
    <2> QED
      BY <1>3, <2>1, <2>2 DEF Recorded
  <1> QED
    BY <1>5, <1>6, <1>7 DEF RecordHolds, Recorded

LEMMA RecordingKeeps ==
    ASSUME ConflictsInv, Next, NEW r \in rows, NEW base \in Nat, NEW c \in Content,
           NEW baseline \in Meta, NEW desired \in Meta, NEW copy \in Resource,
           RecordConflict(r, base, c, baseline, desired, copy)
    PROVE  CopiesDistinct' /\ \A k \in DOMAIN conflicts' : RecordHolds(k)'
  <1> DEFINE x == [id |-> r, copy |-> copy, base |-> base, current |-> revision[r],
                   submitted |-> c, displaced |-> content[r],
                   status |-> "pending", resolution |-> "none"]
  <1>1. WellFormed /\ HistoryComplete
    BY DEF ConflictsInv, HistoryInv
  <1>2. x \in Conflict
    BY <1>1 DEF WellFormed, TypeOK, Conflict, RecordConflict, Resolution
  <1>3. /\ conflicts \in Seq(Conflict) /\ conflicts' = Append(conflicts, x)
        /\ Fresh(copy) /\ UNCHANGED <<rows, revision, history>>
    BY <1>1 DEF WellFormed, TypeOK, RecordConflict, columns
  <1>0. PICK n \in Nat : n = Len(conflicts)
    BY <1>3, LenProperties
  <1>4. /\ conflicts' \in Seq(Conflict) /\ Len(conflicts') = n + 1
        /\ \A k \in 1..n : conflicts'[k] = conflicts[k]
        /\ conflicts'[n + 1] = x
    BY <1>0, <1>2, <1>3, AppendProperties
  <1>5. DOMAIN conflicts = 1..n /\ DOMAIN conflicts' = 1..(n + 1)
    BY <1>0, <1>3, <1>4, LenProperties
  <1>6. /\ x.copy = copy /\ x.id = r /\ x.current = revision[r]
        /\ x.displaced = content[r] /\ x.resolution = "none" /\ x.status = "pending"
    OBVIOUS
  <1> HIDE DEF x
  <1>7. CopiesDistinct'
    <2> SUFFICES ASSUME NEW k \in 1..(n + 1), NEW l \in 1..(n + 1),
                        conflicts'[k].copy = conflicts'[l].copy
                 PROVE  k = l
      BY <1>5 DEF CopiesDistinct
    <2>1. \A i \in 1..n : conflicts'[i].copy # copy
      BY <1>3, <1>4, <1>5 DEF Fresh
    <2>2. CASE k \in 1..n /\ l \in 1..n
      BY <1>4, <1>5, <2>2 DEF ConflictsInv, CopiesDistinct
    <2>3. CASE k = n + 1 \/ l = n + 1
      BY <1>4, <1>5, <1>6, <2>1, <2>3
    <2> QED
      BY <1>5, <2>2, <2>3
  <1>8. ASSUME NEW k \in 1..n
        PROVE  RecordHolds(k)'
    <2>1. RecordHolds(k) /\ k \in DOMAIN conflicts
      BY <1>5 DEF ConflictsInv
    <2> QED
      BY <1>3, <1>4, <1>8, <2>1 DEF RecordHolds, Recorded
  <1>9. RecordHolds(n + 1)'
    <2>1. /\ Recorded(r, revision[r], content[r])
          /\ revision[r] \in Nat /\ revision[r] > 0
      BY <1>1 DEF HistoryComplete, WellFormed, TypeOK
    <2>2. copy \notin rows
      BY <1>3 DEF Fresh
    <2>3. revision[r] \in 1..revision[r]
      BY <2>1
    <2> QED
      BY <1>3, <1>4, <1>6, <2>1, <2>2, <2>3 DEF RecordHolds, Recorded
  <1>10. \A k \in 1..(n + 1) : RecordHolds(k)'
    <2>1. \A k \in 1..(n + 1) : k \in 1..n \/ k = n + 1
      BY <1>5
    <2> QED
      BY <1>8, <1>9, <2>1
  <1> QED
    BY <1>5, <1>7, <1>10

\* A resolution closes its record and no other.
LEMMA Closing ==
    ASSUME WellFormed, NEW k \in DOMAIN conflicts, NEW resolution \in Resolution,
           Close(k, resolution)
    PROVE  /\ DOMAIN conflicts' = DOMAIN conflicts
           /\ \A l \in DOMAIN conflicts : l # k => conflicts'[l] = conflicts[l]
           /\ conflicts'[k].id = conflicts[k].id
           /\ conflicts'[k].copy = conflicts[k].copy
           /\ conflicts'[k].current = conflicts[k].current
           /\ conflicts'[k].displaced = conflicts[k].displaced
           /\ conflicts'[k].submitted = conflicts[k].submitted
           /\ conflicts'[k].status = "resolved"
           /\ conflicts'[k].resolution = resolution
           /\ conflicts[k].status = "pending"
  <1> DEFINE y == [conflicts[k] EXCEPT !.status = "resolved",
                                       !.resolution = resolution]
  <1>1. conflicts[k] \in Conflict
    BY ConflictType
  <1>2. /\ y.id = conflicts[k].id /\ y.copy = conflicts[k].copy
        /\ y.current = conflicts[k].current /\ y.displaced = conflicts[k].displaced
        /\ y.submitted = conflicts[k].submitted
        /\ y.status = "resolved" /\ y.resolution = resolution
    BY <1>1 DEF Conflict
  <1>3. conflicts' = [conflicts EXCEPT ![k] = y] /\ conflicts[k].status = "pending"
    BY DEF Close
  <1> HIDE DEF y
  <1>4. conflicts'[k] = y /\ DOMAIN conflicts' = DOMAIN conflicts
    BY <1>3
  <1>5. \A l \in DOMAIN conflicts : l # k => conflicts'[l] = conflicts[l]
    BY <1>3
  <1> QED
    BY <1>2, <1>3, <1>4, <1>5

LEMMA ResolvingKeeps ==
    ASSUME ConflictsInv, Next, NEW k \in DOMAIN conflicts, Resolve(k)
    PROVE  CopiesDistinct' /\ \A l \in DOMAIN conflicts' : RecordHolds(l)'
  <1> DEFINE x == conflicts[k]
  <1>1. WellFormed /\ HistoryComplete /\ RecordHolds(k)
    BY DEF ConflictsInv, HistoryInv
  <1>2. /\ x.id \in rows /\ x.id \in Resource /\ x.copy \in Resource
        /\ x.submitted \in Content /\ x.current \in Nat
    BY <1>1, ConflictType DEF WellFormed, TypeOK, Conflict
  <1>3. PICK resolution \in Resolution : Close(k, resolution)
    BY DEF Resolve, KeepOriginal, UseConflict, KeepBoth, Resolution
  <1>4. /\ DOMAIN conflicts' = DOMAIN conflicts
        /\ \A l \in DOMAIN conflicts : l # k => conflicts'[l] = conflicts[l]
        /\ conflicts'[k].id = x.id /\ conflicts'[k].copy = x.copy
        /\ conflicts'[k].current = x.current
        /\ conflicts'[k].displaced = x.displaced
        /\ conflicts'[k].submitted = x.submitted
        /\ conflicts'[k].status = "resolved"
        /\ conflicts'[k].resolution = resolution
        /\ x.status = "pending"
    BY <1>1, <1>3, Closing
  <1>5. x.resolution = "none" /\ x.copy \notin rows
    BY <1>1, <1>4 DEF RecordHolds
  <1>6. CopiesDistinct'
    BY <1>4 DEF CopiesDistinct, ConflictsInv
  <1>7. /\ HistoryComplete' /\ history \subseteq history' /\ rows \subseteq rows'
        /\ revision[x.id] \in Nat /\ revision'[x.id] \in Nat
        /\ revision[x.id] <= revision'[x.id]
    BY <1>2, StepGrows DEF ConflictsInv, HistoryInv
  <1>8. rows' = rows \/ (KeepBoth(k) /\ rows' = rows \union {x.copy})
    BY DEF Resolve, KeepOriginal, UseConflict, KeepBoth, columns
  <1>9. ASSUME NEW l \in DOMAIN conflicts, l # k
        PROVE  RecordHolds(l)'
    <2>1. conflicts[l].copy # x.copy
      BY <1>9 DEF ConflictsInv, CopiesDistinct
    <2>2. conflicts[l].resolution # "keep_both" => conflicts[l].copy \notin rows
      BY DEF ConflictsInv, RecordHolds
    <2> QED
      BY <1>4, <1>8, <1>9, <2>1, <2>2, RecordStays
  <1>10. RecordHolds(k)'
    <2>1. /\ [id |-> x.id, revision |-> x.current, content |-> x.displaced] \in history'
          /\ x.current \in 1..revision'[x.id]
      BY <1>1, <1>2, <1>7 DEF RecordHolds, Recorded
    <2>2. CASE KeepOriginal(k)
      <3>1. conflicts'[k].resolution = "keep_original" /\ rows' = rows
        BY <1>1, <2>2, Closing DEF KeepOriginal, Resolution, columns
      <3> QED
        BY <1>4, <1>5, <2>1, <3>1 DEF RecordHolds, Recorded
    <2>3. CASE UseConflict(k)
      <3>1. conflicts'[k].resolution = "use_conflict" /\ rows' = rows
        BY <1>1, <2>3, Closing DEF UseConflict, Resolution
      <3>2. content'[x.id] = x.submitted
        BY <1>1, <1>2, <2>3 DEF UseConflict, WellFormed, TypeOK
      <3>4. [id |-> x.id, revision |-> revision'[x.id], content |-> x.submitted]
                \in history'
        BY <1>2, <1>7, <3>2 DEF HistoryComplete, Recorded
      <3>5. revision'[x.id] \in x.current..revision'[x.id]
        BY <1>2, <1>7, <2>1
      <3> QED
        BY <1>4, <1>5, <2>1, <3>1, <3>4, <3>5 DEF RecordHolds, Recorded
    <2>4. CASE KeepBoth(k)
      <3>1. conflicts'[k].resolution = "keep_both" /\ x.copy \in rows'
        BY <1>1, <2>4, Closing DEF KeepBoth, Resolution
      <3>2. content'[x.copy] = x.submitted
        BY <1>1, <1>2, <2>4 DEF KeepBoth, WellFormed, TypeOK
      <3>3. revision'[x.copy] = 1
        BY <1>1, <1>2, <1>5, <2>4 DEF KeepBoth, Advance, WellFormed, TypeOK
      <3>5. [id |-> x.copy, revision |-> 1, content |-> x.submitted] \in history'
        BY <1>2, <1>7, <3>1, <3>2, <3>3 DEF HistoryComplete, Recorded
      <3> QED
        BY <1>4, <2>1, <3>1, <3>5 DEF RecordHolds, Recorded
    <2> QED
      BY <2>2, <2>3, <2>4 DEF Resolve
  <1> QED
    BY <1>4, <1>6, <1>9, <1>10


LEMMA ConflictsInvariant == Spec => []ConflictsInv
  <1>1. Init => ConflictsInv
    <2> SUFFICES ASSUME Init PROVE ConflictsInv
      OBVIOUS
    <2>1. DOMAIN conflicts = {}
      BY DEF Init
    <2>2. HistoryComplete
      BY DEF Init, HistoryComplete
    <2> QED
      BY <2>1, <2>2, InitWellFormed DEF ConflictsInv, HistoryInv, CopiesDistinct
  <1>2. ConflictsInv /\ [Next]_vars => ConflictsInv'
    <2> SUFFICES ASSUME ConflictsInv, [Next]_vars PROVE ConflictsInv'
      OBVIOUS
    <2>1. CASE UNCHANGED vars
      <3>1. WellFormed'
        BY <2>1, StepKeepsWellFormed DEF ConflictsInv, HistoryInv
      <3> QED
        BY <2>1, <3>1 DEF vars, ConflictsInv, HistoryInv, HistoryComplete, Recorded,
                     CopiesDistinct, RecordHolds
    <2>2. CASE Next
      <3>1. HistoryInv' /\ WellFormed
        BY <2>2, StepGrows DEF ConflictsInv, HistoryInv
      <3>2. ASSUME UNCHANGED conflicts,
                   rows' = rows \/ \E r \in Resource : Fresh(r) /\ rows' = rows \union {r}
            PROVE  CopiesDistinct' /\ \A k \in DOMAIN conflicts' : RecordHolds(k)'
        <4>1. CopiesDistinct'
          BY <3>2 DEF ConflictsInv, CopiesDistinct
        <4>2. ASSUME NEW k \in DOMAIN conflicts
              PROVE  RecordHolds(k)'
          <5>1. conflicts[k].resolution # "keep_both" => conflicts[k].copy \notin rows
            BY DEF ConflictsInv, RecordHolds
          <5>2. conflicts[k].resolution # "keep_both" => conflicts[k].copy \notin rows'
            BY <3>2, <5>1 DEF Fresh
          <5> QED
            BY <2>2, <3>2, <5>2, RecordStays
        <4> QED
          BY <3>2, <4>1, <4>2
      <3>3. CopiesDistinct' /\ \A k \in DOMAIN conflicts' : RecordHolds(k)'
        BY <2>2, <3>1, <3>2, ConflictSteps, RecordingKeeps, ResolvingKeeps
      <3> QED
        BY <3>1, <3>3 DEF ConflictsInv
    <2> QED
      BY <2>1, <2>2
  <1> QED
    BY <1>1, <1>2, PTL DEF Spec

\* A conflict record holds both sides of the conflict for good: the displaced
\* side is the history entry it names, the submitted side is kept until the
\* resolution, and the resolution puts it where it says.
THEOREM ConflictsAreRecoverable == Spec => []ConflictsRecoverable
  BY ConflictsInvariant, ConflictsInvImplies, PTL

\* Using the conflicting version replaces the content the conflict was recorded
\* against and nothing newer, and brings nothing back that was deleted since.
THEOREM ResolutionsSeeCurrent == Spec => ResolutionSeesCurrent
  <1>1. ASSUME ConflictsInv, Next, NEW k \in DOMAIN conflicts,
               conflicts[k].status = "pending",
               conflicts'[k].resolution = "use_conflict"
        PROVE  /\ content[conflicts[k].id] \in
                        {conflicts[k].displaced, conflicts[k].submitted}
               /\ ~deleted[conflicts[k].id]
    <2> DEFINE x == conflicts[k]
    <2>1. /\ WellFormed /\ HistoryComplete /\ RecordHolds(k)
          /\ x.resolution = "none"
      BY <1>1 DEF ConflictsInv, HistoryInv, RecordHolds
    <2>2. x.id \in rows /\ x.id \in Resource /\ x.submitted \in Content
      BY <2>1, ConflictType DEF WellFormed, TypeOK
    <2>3. UseConflict(k)
      <3>1. conflicts'[k] # conflicts[k]
        BY <1>1, <2>1
      <3>2. CASE \E r \in rows, base \in Nat, c \in Content,
                   baseline \in Meta, desired \in Meta, copy \in Resource :
                RecordConflict(r, base, c, baseline, desired, copy)
        <4>1. PICK y : conflicts' = Append(conflicts, y)
          BY <3>2 DEF RecordConflict
        <4>2. conflicts'[k] = conflicts[k]
          BY <2>1, <4>1, ConflictType DEF WellFormed, TypeOK
        <4> QED
          BY <3>1, <4>2
      <3>3. CASE \E l \in DOMAIN conflicts : Resolve(l)
        <4>1. PICK l \in DOMAIN conflicts : Resolve(l)
          BY <3>3
        <4>2. PICK resolution \in Resolution : Close(l, resolution)
          BY <4>1 DEF Resolve, KeepOriginal, UseConflict, KeepBoth, Resolution
        <4>3. l = k
          BY <2>1, <3>1, <4>2, Closing
        <4>4. CASE KeepOriginal(k)
          BY <1>1, <2>1, <4>4, Closing DEF KeepOriginal, Resolution
        <4>5. CASE KeepBoth(k)
          BY <1>1, <2>1, <4>5, Closing DEF KeepBoth, Resolution
        <4> QED
          BY <4>1, <4>3, <4>4, <4>5 DEF Resolve
      <3> QED
        BY <1>1, <2>1, <3>1, <3>2, <3>3, ConflictSteps
    <2>4. ~deleted[x.id] /\ ~RevisionConflict(x.id, x.current, x.submitted)
      BY <2>3 DEF UseConflict, StaleResolution
    <2>5. content[x.id] = x.submitted \/ revision[x.id] = x.current
      BY <2>2, <2>4, StoreAssumption DEF RevisionConflict, NewContent
    <2>6. CASE revision[x.id] = x.current
      <3>1. Recorded(x.id, x.current, x.displaced) /\ Recorded(x.id, x.current, content[x.id])
        BY <2>1, <2>2, <2>6 DEF RecordHolds, HistoryComplete
      <3>2. content[x.id] = x.displaced
        BY <2>1, <2>2, <3>1 DEF HistoryComplete, Recorded
      <3> QED
        BY <2>4, <3>2
    <2> QED
      BY <2>4, <2>5, <2>6
  <1>2. ConflictsInv /\ [Next]_vars =>
            [\A k \in DOMAIN conflicts :
                LET x == conflicts[k] IN
                x.status = "pending" /\ conflicts'[k].resolution = "use_conflict" =>
                  content[x.id] \in {x.displaced, x.submitted} /\ ~deleted[x.id]]_vars
    BY <1>1
  <1> QED
    BY <1>2, ConflictsInvariant, PTL DEF Spec, ResolutionSeesCurrent

-----------------------------------------------------------------------------
(* What a step does to the rows of a library.                              *)

\* A row is added; a page comes to a place no active page of its notebook has.
RowAdded(r) ==
    /\ r \in Resource \ rows
    /\ rows' = rows \union {r}
    /\ \A s \in Resource \ {r} : content'[s] = content[s] /\ revision'[s] = revision[s]
    /\ \A p \in Page \ {r} : position'[p] = position[p]
    /\ r \in Page => \A q \in ActivePages(Parent[r]) : position[q] # position'[r]
    /\ UNCHANGED <<deleted, tombstones>>

\* Active rows are written, or none; pages may be put in another order, and a
\* delete that was refused may be recorded.
RowsWritten ==
    /\ \A s \in rows : deleted[s] => content'[s] = content[s] /\ revision'[s] = revision[s]
    /\ position' = position \/ \E n \in Notebook : position' \in Reordered(n)
    /\ UNCHANGED <<rows, deleted>>
    /\ \/ UNCHANGED tombstones
       \/ \E y \in Tombstone :
            tombstones' = Append(tombstones, y) /\ y.state = "restored"

\* An active row is hidden, its siblings close up.
RowHidden(r) ==
    /\ r \in rows /\ ~deleted[r] /\ ~LastPage(r)
    /\ \A s \in rows : deleted[s] => revision'[s] = revision[s]
    /\ revision'[r] = revision[r] + 1
    /\ deleted' = [deleted EXCEPT ![r] = TRUE]
    /\ position' = IF r \in Page THEN Compacted(r) ELSE position
    /\ UNCHANGED <<rows, content>>
    /\ \E y \in Tombstone :
          /\ tombstones' = Append(tombstones, y)
          /\ y.id = r /\ y.state = "active"
          /\ y.deletedRevision = revision[r] + 1 /\ y.content = content[r]

\* A hidden row comes back where its tombstone says.
RowReturned(t) ==
    LET r == tombstones[t].id IN
    /\ t \in DOMAIN tombstones /\ tombstones[t].state = "active"
    /\ r \in rows /\ deleted[r]
    /\ \A s \in rows \ {r} :
          deleted[s] => content'[s] = content[s] /\ revision'[s] = revision[s]
    /\ deleted' = [deleted EXCEPT ![r] = FALSE]
    /\ position' = BackAt(r, tombstones[t].position)
    /\ UNCHANGED rows
    /\ DOMAIN tombstones' = DOMAIN tombstones
    /\ \A u \in DOMAIN tombstones \ {t} : tombstones'[u] = tombstones[u]
    /\ tombstones'[t].state = "restored"

LEMMA CreationAdds ==
    ASSUME WellFormed, Create
    PROVE  \E r : RowAdded(r)
  <1> USE DEF WellFormed, TypeOK
  <1>1. ASSUME NEW r \in Resource, NEW c \in Content, NEW m \in Meta,
               NEW pos \in [Page -> Nat], Insert(r, c, m, pos),
               \A p \in Page \ {r} : pos[p] = position[p],
               r \in Page => \A q \in ActivePages(Parent[r]) : position[q] # pos[r]
        PROVE  RowAdded(r)
    <2>1. /\ rows' = rows \union {r} /\ position' = pos /\ r \notin rows
          /\ content' = [content EXCEPT ![r] = c]
          /\ UNCHANGED <<deleted, tombstones>>
      BY <1>1 DEF Insert, Fresh
    <2>2. \A s \in Resource \ {r} : revision'[s] = revision[s]
      BY <1>1 DEF Insert, Advance
    <2>3. \A s \in Resource \ {r} : content'[s] = content[s]
      BY <2>1
    <2> QED
      BY <1>1, <2>1, <2>2, <2>3 DEF RowAdded
  <1>2. PICK c \in Content, m \in Meta :
            \/ \E n \in Notebook : CreateNotebook(n, c, m)
            \/ \E p \in Page : \E at \in 0..Cardinality(PageRows(Parent[p])) :
                  CreatePage(p, at, c, m)
            \/ \E k \in Canvas : CreateCanvas(k, c, m)
    BY DEF Create
  <1>3. ASSUME NEW n \in Notebook \union Canvas, Insert(n, c, m, position)
        PROVE  \E r : RowAdded(r)
    <2>1. n \in Resource /\ n \notin Page
      BY StoreAssumption DEF Resource
    <2> QED
      BY <1>1, <1>3, <2>1
  <1>4. ASSUME NEW p \in Page, NEW at \in 0..Cardinality(PageRows(Parent[p])),
               CreatePage(p, at, c, m)
        PROVE  \E r : RowAdded(r)
    <2>1. at \in Nat
      BY PagesFinite DEF PageRows
    <2> DEFINE pos == [position EXCEPT ![p] = at]
    <2>2. /\ pos \in [Page -> Nat] /\ pos[p] = at
          /\ \A q \in Page \ {p} : pos[q] = position[q]
      BY <2>1
    <2>3. Insert(p, c, m, pos) /\ \A q \in ActivePages(Parent[p]) : position[q] # at
      BY <1>4 DEF CreatePage
    <2> HIDE DEF pos
    <2> QED
      BY <1>1, <2>2, <2>3 DEF Resource
  <1> QED
    BY <1>2, <1>3, <1>4 DEF CreateNotebook, CreateCanvas

LEMMA UpsertWrites ==
    ASSUME WellFormed, NEW r \in rows, NEW base \in 1..revision[r],
           NEW c \in Content \union {NoContent}, NEW baseline \in Meta,
           NEW desired \in Meta, Upsert(r, base, c, baseline, desired)
    PROVE  RowsWritten \/ \E t \in DOMAIN tombstones : RowReturned(t)
  <1> USE DEF WellFormed, TypeOK
  <1>1. ASSUME NEW pos, Save(r, base, c, baseline, desired, pos),
               pos = position \/ \E n \in Notebook : pos \in Reordered(n)
        PROVE  RowsWritten
    <2>1. ~deleted[r] /\ \A q \in Moved(pos) : ~deleted[q]
      BY <1>1 DEF Save, Moved
    <2>2. \A s \in rows : deleted[s] => revision'[s] = revision[s]
      BY <1>1, <2>1 DEF Save, Advance
    <2>3. \A s \in rows : deleted[s] => content'[s] = content[s]
      BY <1>1, <2>1 DEF Save
    <2> QED
      BY <1>1, <2>2, <2>3 DEF Save, RowsWritten
  <1>2. ASSUME NEW copy, RecordConflict(r, base, c, baseline, desired, copy)
        PROVE  RowsWritten
    BY <1>2 DEF RecordConflict, columns, RowsWritten
  <1>3. ASSUME NEW t \in DOMAIN tombstones, PreserveEditAfterDelete(r, c, t)
        PROVE  RowReturned(t)
    <2> DEFINE pos == BackAt(r, tombstones[t].position)
    <2>1. /\ tombstones[t].id = r /\ tombstones[t].state = "active" /\ deleted[r]
          /\ Advance({r} \union Moved(pos)) /\ position' = pos
          /\ content' = [content EXCEPT ![r] = c]
          /\ deleted' = [deleted EXCEPT ![r] = FALSE]
          /\ UNCHANGED rows
      BY <1>3 DEF PreserveEditAfterDelete, BackAt
    <2> HIDE DEF pos
    <2>2. \A s \in rows \ {r} :
              deleted[s] => content'[s] = content[s] /\ revision'[s] = revision[s]
      BY <2>1 DEF Moved, Advance
    <2> DEFINE y == [tombstones[t] EXCEPT !.state = "restored",
                                          !.kind = "edit_after_delete"]
    <2>3. y.state = "restored"
      BY TombstoneType DEF Tombstone
    <2>4. tombstones' = [tombstones EXCEPT ![t] = y]
      BY <1>3 DEF PreserveEditAfterDelete
    <2> HIDE DEF y
    <2>5. /\ DOMAIN tombstones' = DOMAIN tombstones
          /\ \A u \in DOMAIN tombstones \ {t} : tombstones'[u] = tombstones[u]
          /\ tombstones'[t].state = "restored"
      BY <2>3, <2>4
    <2> QED
      BY <2>1, <2>2, <2>5 DEF RowReturned, pos
  <1>4. CASE r \in Notebook /\ SaveNotebook(r, base, c, baseline, desired)
    <2>1. PICK pos \in {position} \union Reordered(r) :
              Save(r, base, c, baseline, desired, pos)
      BY <1>4 DEF SaveNotebook
    <2> QED
      BY <1>1, <1>4, <2>1
  <1> QED
    BY <1>1, <1>2, <1>3, <1>4 DEF Upsert, SavePage, SaveCanvas

LEMMA DeletionHides ==
    ASSUME WellFormed, NEW r \in rows, NEW base \in 1..revision[r],
           DeleteOrRefuse(r, base)
    PROVE  RowsWritten \/ RowHidden(r)
  <1> USE DEF WellFormed, TypeOK
  <1>1. base \in Nat /\ revision[r] \in Nat /\ content[r] \in Content
        /\ PositionOf(r) \in Nat /\ r \in Resource
    BY DEF PositionOf
  <1>2. CASE RefuseStaleDelete(r, base)
    <2> DEFINE y == [id |-> r, base |-> base, deletedRevision |-> 0,
                     content |-> content[r], position |-> PositionOf(r),
                     state |-> "restored", kind |-> "delete_after_edit"]
    <2>1. y \in Tombstone /\ y.state = "restored"
      BY <1>1 DEF Tombstone
    <2>2. tombstones' = Append(tombstones, y)
      BY <1>2 DEF RefuseStaleDelete, AddTombstone
    <2> HIDE DEF y
    <2> QED
      BY <1>2, <2>1, <2>2 DEF RefuseStaleDelete, RowsWritten, columns
  <1>3. CASE Delete(r, base)
    <2> DEFINE pos == IF r \in Page THEN Compacted(r) ELSE position
               y == [id |-> r, base |-> base, deletedRevision |-> revision[r] + 1,
                     content |-> content[r], position |-> PositionOf(r),
                     state |-> "active", kind |-> "none"]
    <2>1. /\ y \in Tombstone /\ y.id = r /\ y.state = "active"
          /\ y.deletedRevision = revision[r] + 1 /\ y.content = content[r]
      BY <1>1 DEF Tombstone
    <2>2. tombstones' = Append(tombstones, y)
      BY <1>3 DEF Delete, AddTombstone
    <2>3. /\ ~deleted[r] /\ ~LastPage(r)
          /\ Advance({r} \union Moved(pos)) /\ position' = pos
          /\ deleted' = [deleted EXCEPT ![r] = TRUE]
          /\ UNCHANGED <<rows, content>>
      BY <1>3 DEF Delete
    <2> HIDE DEF pos, y
    <2>4. /\ revision'[r] = revision[r] + 1
          /\ \A s \in rows : deleted[s] => revision'[s] = revision[s]
      BY <1>1, <2>3 DEF Moved, Advance
    <2> QED
      BY <2>1, <2>2, <2>3, <2>4 DEF RowHidden, pos
  <1> QED
    BY <1>2, <1>3 DEF DeleteOrRefuse

LEMMA RestoreReturns ==
    ASSUME WellFormed, NEW t \in DOMAIN tombstones, Restore(t)
    PROVE  RowReturned(t)
  <1> USE DEF WellFormed, TypeOK
  <1> DEFINE r == tombstones[t].id
             pos == BackAt(r, tombstones[t].position)
             y == [tombstones[t] EXCEPT !.state = "restored"]
  <1>1. r \in rows /\ r \in Resource
    BY TombstoneType
  <1>2. /\ tombstones[t].state = "active" /\ deleted[r]
        /\ Advance({r} \union Moved(pos)) /\ position' = pos
        /\ content' = [content EXCEPT ![r] = tombstones[t].content]
        /\ deleted' = [deleted EXCEPT ![r] = FALSE]
        /\ UNCHANGED rows
    BY DEF Restore, BackAt
  <1>3. y.state = "restored" /\ tombstones' = [tombstones EXCEPT ![t] = y]
    BY TombstoneType DEF Tombstone, Restore
  <1> HIDE DEF pos, r, y
  <1>4. \A s \in rows \ {r} :
            deleted[s] => content'[s] = content[s] /\ revision'[s] = revision[s]
    BY <1>1, <1>2 DEF Moved, Advance
  <1>5. /\ DOMAIN tombstones' = DOMAIN tombstones
        /\ \A u \in DOMAIN tombstones \ {t} : tombstones'[u] = tombstones[u]
        /\ tombstones'[t].state = "restored"
    BY <1>3
  <1> QED
    BY <1>1, <1>2, <1>4, <1>5 DEF RowReturned, pos, r

\* A copy that is kept becomes a new row, behind every page of its notebook.
LEMMA ResolutionWrites ==
    ASSUME ConflictsInv, NEW k \in DOMAIN conflicts, Resolve(k)
    PROVE  RowsWritten \/ \E r : RowAdded(r)
  <1> DEFINE x == conflicts[k]
  <1>1. WellFormed /\ RecordHolds(k)
    BY DEF ConflictsInv, HistoryInv
  <1>2. /\ x.id \in rows /\ x.id \in Resource /\ x.copy \in Resource
        /\ x.submitted \in Content /\ SameKind(x.id, x.copy)
    BY <1>1, ConflictType DEF WellFormed, TypeOK
  <1>3. CASE KeepOriginal(k)
    BY <1>3 DEF KeepOriginal, Close, columns, RowsWritten
  <1>4. CASE UseConflict(k)
    <2>1. ~deleted[x.id] /\ UNCHANGED <<rows, deleted, position, tombstones>>
      BY <1>4 DEF UseConflict, StaleResolution, Close
    <2>2. \A s \in rows : s # x.id => content'[s] = content[s] /\ revision'[s] = revision[s]
      BY <1>1, <1>4 DEF UseConflict, Advance, WellFormed, TypeOK
    <2> QED
      BY <2>1, <2>2 DEF RowsWritten
  <1>5. CASE KeepBoth(k)
    <2>1. x.copy \notin rows
      BY <1>1, <1>5 DEF RecordHolds, KeepBoth, Close
    <2>2. /\ rows' = rows \union {x.copy} /\ Advance({x.copy})
          /\ content' = [content EXCEPT ![x.copy] = x.submitted]
          /\ position' = IF x.copy \in Page
                         THEN [position EXCEPT ![x.copy] = PositionAfterAll(x.id)]
                         ELSE position
          /\ UNCHANGED <<deleted, tombstones>>
      BY <1>5 DEF KeepBoth, Close
    <2> HIDE DEF x
    <2>3. \A s \in Resource \ {x.copy} :
              content'[s] = content[s] /\ revision'[s] = revision[s]
      BY <1>1, <1>2, <2>2 DEF Advance, WellFormed, TypeOK
    <2>4. /\ position \in [Page -> Nat]
          /\ \A p \in Page \ {x.copy} : position'[p] = position[p]
      BY <1>1, <2>2 DEF WellFormed, TypeOK
    <2>5. ASSUME x.copy \in Page, NEW q \in ActivePages(Parent[x.copy])
          PROVE  position[q] # position'[x.copy]
      <3>1. x.id \in Page /\ Parent[x.copy] = Parent[x.id]
        BY <1>2, <2>5, StoreAssumption DEF SameKind
      <3>2. q \in PageRows(Parent[x.id]) /\ q \in Page
        BY <2>5, <3>1 DEF ActivePages, PageRows
      <3>3. PositionAfterAll(x.id) \in Nat /\ position[q] < PositionAfterAll(x.id)
        BY <1>1, <1>2, <3>1, <3>2, PositionAfterAllIsLast
      <3>4. position'[x.copy] = PositionAfterAll(x.id) /\ position[q] \in Nat
        BY <2>2, <2>4, <2>5, <3>2
      <3> QED
        BY <3>3, <3>4
    <2> QED
      BY <1>2, <2>1, <2>2, <2>3, <2>4, <2>5 DEF RowAdded
  <1> QED
    BY <1>3, <1>4, <1>5 DEF Resolve

\* Every step is one of the four.
LEMMA StructureSteps ==
    ASSUME ConflictsInv, Next
    PROVE  \/ RowsWritten
           \/ \E r : RowAdded(r)
           \/ \E r : RowHidden(r)
           \/ \E t : RowReturned(t)
  <1>1. WellFormed
    BY DEF ConflictsInv, HistoryInv
  <1>2. CASE Commit
    <2>1. PICK r \in rows : \E base \in 1..revision[r] :
              \/ \E c \in Content \union {NoContent}, baseline, desired \in Meta :
                    Upsert(r, base, c, baseline, desired)
              \/ DeleteOrRefuse(r, base)
      BY <1>2 DEF Commit
    <2> QED
      BY <1>1, <2>1, UpsertWrites, DeletionHides
  <1> QED
    BY <1>1, <1>2, CreationAdds, RestoreReturns, ResolutionWrites DEF Next

-----------------------------------------------------------------------------
(* The pages of a notebook.                                                *)

\* The active pages of a notebook after a step that adds no row.
LEMMA ActiveAfter ==
    ASSUME WellFormed, rows' = rows, NEW n
    PROVE  ActivePages(n)' = {p \in PageRows(n) : ~deleted'[p]}
  BY DEF ActivePages, PageRows

LEMMA PagesKept ==
    ASSUME ConflictsInv, NotebookKeepsPage, Next
    PROVE  NotebookKeepsPage'
  <1>1. WellFormed /\ WellFormed'
    BY StepGrows DEF ConflictsInv, HistoryInv
  <1>2. CASE RowsWritten
    BY <1>2 DEF RowsWritten, NotebookKeepsPage, ActivePages, PageRows
  <1>3. ASSUME NEW r, RowAdded(r)
        PROVE  NotebookKeepsPage'
    <2>1. /\ rows' = rows \union {r} /\ deleted' = deleted
          /\ r \in Resource \ rows /\ ~deleted[r]
      BY <1>1, <1>3 DEF RowAdded, WellFormed
    <2> SUFFICES ASSUME NEW p \in Page \intersect rows'
                 PROVE  ActivePages(Parent[p])' # {}
      BY DEF NotebookKeepsPage
    <2>2. CASE p = r
      BY <2>1, <2>2 DEF ActivePages, PageRows
    <2>3. CASE p # r
      BY <2>1, <2>3 DEF NotebookKeepsPage, ActivePages, PageRows
    <2> QED
      BY <2>2, <2>3
  <1>4. ASSUME NEW r, RowHidden(r)
        PROVE  NotebookKeepsPage'
    <2>1. /\ rows' = rows /\ deleted' = [deleted EXCEPT ![r] = TRUE]
          /\ r \in Page => Siblings(r) # {}
      BY <1>4 DEF RowHidden, LastPage
    <2> SUFFICES ASSUME NEW p \in Page \intersect rows
                 PROVE  ActivePages(Parent[p])' # {}
      BY <2>1 DEF NotebookKeepsPage
    <2>2. PICK q \in ActivePages(Parent[p]) : q # r
      <3>1. CASE r \in Page /\ Parent[r] = Parent[p]
        BY <2>1, <3>1 DEF Siblings
      <3>2. CASE ~(r \in Page /\ Parent[r] = Parent[p])
        BY <3>2 DEF NotebookKeepsPage, ActivePages, PageRows
      <3> QED
        BY <3>1, <3>2
    <2>3. q \in Resource /\ ~deleted'[q] /\ q \in PageRows(Parent[p])
      BY <1>1, <2>1, <2>2 DEF ActivePages, PageRows, WellFormed, TypeOK
    <2> QED
      BY <1>1, <2>1, <2>3, ActiveAfter
  <1>5. ASSUME NEW t, RowReturned(t)
        PROVE  NotebookKeepsPage'
    <2>1. rows' = rows /\ \A s \in Resource : ~deleted[s] => ~deleted'[s]
      BY <1>1, <1>5 DEF RowReturned, WellFormed, TypeOK
    <2> QED
      BY <1>1, <2>1 DEF NotebookKeepsPage, ActivePages, PageRows, Resource
  <1> QED
    BY <1>2, <1>3, <1>4, <1>5, StructureSteps

\* A notebook that has pages keeps one that is not deleted: the last one is
\* never deleted, whatever copies, restores and deletes come before.
THEOREM NotebooksKeepPages == Spec => []NotebookKeepsPage
  <1>1. Init => NotebookKeepsPage
    BY DEF Init, NotebookKeepsPage
  <1>2. ConflictsInv /\ NotebookKeepsPage /\ [Next]_vars => NotebookKeepsPage'
    <2>1. CASE UNCHANGED vars
      BY <2>1 DEF vars, NotebookKeepsPage, ActivePages, PageRows
    <2> QED
      BY <2>1, PagesKept
  <1> QED
    BY <1>1, <1>2, ConflictsInvariant, PTL DEF Spec

-----------------------------------------------------------------------------
(* The positions of active pages.                                          *)

\* ActivePositionsDistinct, notebook by notebook.
AllApart == \A n \in Notebook : Apart(ActivePages(n), position)

LEMMA ApartIsDistinct ==
    ASSUME WellFormed
    PROVE  ActivePositionsDistinct <=> AllApart
  <1>1. ASSUME AllApart PROVE ActivePositionsDistinct
    <2> SUFFICES ASSUME NEW p \in Page \intersect rows, NEW q \in Page \intersect rows,
                        Parent[p] = Parent[q], ~deleted[p], ~deleted[q],
                        position[p] = position[q]
                 PROVE  p = q
      BY DEF ActivePositionsDistinct
    <2>1. Parent[p] \in Notebook
      BY StoreAssumption
    <2>2. p \in ActivePages(Parent[p]) /\ q \in ActivePages(Parent[p])
      BY DEF ActivePages, PageRows
    <2> QED
      BY <1>1, <2>1, <2>2 DEF AllApart, Apart
  <1>2. ASSUME ActivePositionsDistinct PROVE AllApart
    BY <1>2 DEF ActivePositionsDistinct, AllApart, Apart, ActivePages, PageRows
  <1> QED
    BY <1>1, <1>2

\* In a notebook no page of which moves, appears or comes back, positions stay
\* distinct.
LEMMA StillApart ==
    ASSUME NEW n, Apart(ActivePages(n), position),
           ActivePages(n)' \subseteq ActivePages(n),
           \A p \in ActivePages(n) : position'[p] = position[p]
    PROVE  Apart(ActivePages(n)', position')
  BY DEF Apart

\* What a delete leaves of its notebook.
LEMMA HiddenPage ==
    ASSUME WellFormed, AllApart, NEW r \in Page, RowHidden(r)
    PROVE  /\ ActivePages(Parent[r])' = Siblings(r)
           /\ Apart(Siblings(r), position') /\ Numbered(Siblings(r), position')
           /\ \A n : n # Parent[r] =>
                /\ ActivePages(n)' = ActivePages(n)
                /\ \A p \in PageRows(n) : position'[p] = position[p]
  <1>1. /\ position' = Compacted(r) /\ rows' = rows
        /\ deleted' = [deleted EXCEPT ![r] = TRUE]
        /\ r \in rows /\ position \in [Page -> Nat] /\ rows \subseteq Resource
        /\ deleted \in [Resource -> BOOLEAN]
    BY DEF RowHidden, WellFormed, TypeOK
  <1>2. \A p \in rows : deleted'[p] <=> deleted[p] \/ p = r
    BY <1>1
  <1>3. ActivePages(Parent[r])' = Siblings(r)
    BY <1>1, <1>2 DEF Siblings, ActivePages, PageRows
  <1>4. Apart(Siblings(r), position)
    <2>1. Parent[r] \in Notebook
      BY StoreAssumption
    <2> QED
      BY <2>1 DEF AllApart, Apart, Siblings
  <1>5. Apart(Siblings(r), position') /\ Numbered(Siblings(r), position')
    BY <1>1, <1>4, CompactedIsNumbered
  <1>6. ASSUME NEW n, n # Parent[r]
        PROVE  /\ ActivePages(n)' = ActivePages(n)
               /\ \A p \in PageRows(n) : position'[p] = position[p]
    <2>1. ActivePages(n)' = ActivePages(n)
      BY <1>1, <1>2, <1>6 DEF ActivePages, PageRows
    <2>2. \A p \in PageRows(n) : p \in Page /\ p \notin Siblings(r)
      BY <1>6 DEF Siblings, ActivePages, PageRows
    <2>3. \A p \in PageRows(n) : position'[p] = position[p]
      BY <1>1, <2>2 DEF Compacted
    <2> QED
      BY <2>1, <2>3
  <1> QED
    BY <1>3, <1>5, <1>6

\* A page that comes back moves no page but itself and its siblings.
LEMMA ReinsertedElsewhere ==
    ASSUME NEW p \in Page, NEW at, NEW q \in Page \ (Siblings(p) \union {p})
    PROVE  Reinserted(p, at)[q] = position[q]
  <1> DEFINE S == Siblings(p)
             spot == IF at < Cardinality(S) THEN at ELSE Cardinality(S)
  <1>1. Reinserted(p, at)[q] =
            CASE q = p -> spot
              [] q \in S /\ Index(S, q) < spot  -> Index(S, q)
              [] q \in S /\ Index(S, q) >= spot -> Index(S, q) + 1
              [] OTHER -> position[q]
    BY DEF Reinserted
  <1>2. q # p /\ q \notin S
    OBVIOUS
  <1> HIDE DEF S, spot
  <1> QED
    BY <1>1, <1>2

\* What a return makes of its notebook.
LEMMA ReturnedPage ==
    ASSUME WellFormed, AllApart, NEW t, RowReturned(t), NEW r \in Page,
           r = tombstones[t].id
    PROVE  /\ ActivePages(Parent[r])' = Siblings(r) \union {r}
           /\ Apart(Siblings(r) \union {r}, position')
           /\ Numbered(Siblings(r) \union {r}, position')
           /\ \A n : n # Parent[r] =>
                /\ ActivePages(n)' = ActivePages(n)
                /\ \A p \in PageRows(n) : position'[p] = position[p]
  <1>1. /\ position' = Reinserted(r, tombstones[t].position) /\ rows' = rows
        /\ deleted' = [deleted EXCEPT ![r] = FALSE]
        /\ r \in rows /\ position \in [Page -> Nat] /\ rows \subseteq Resource
        /\ deleted \in [Resource -> BOOLEAN] /\ t \in DOMAIN tombstones
    BY DEF RowReturned, BackAt, WellFormed, TypeOK
  <1>2. tombstones[t].position \in Nat
    BY <1>1, TombstoneType
  <1>3. \A p \in rows : deleted'[p] <=> deleted[p] /\ p # r
    BY <1>1
  <1>4. ActivePages(Parent[r])' = Siblings(r) \union {r}
    BY <1>1, <1>3 DEF Siblings, ActivePages, PageRows
  <1>5. Apart(Siblings(r), position)
    <2>1. Parent[r] \in Notebook
      BY StoreAssumption
    <2> QED
      BY <2>1 DEF AllApart, Apart, Siblings
  <1>6. /\ Apart(Siblings(r) \union {r}, position')
        /\ Numbered(Siblings(r) \union {r}, position')
    BY <1>1, <1>2, <1>5, ReinsertedIsNumbered
  <1>7. ASSUME NEW n, n # Parent[r]
        PROVE  /\ ActivePages(n)' = ActivePages(n)
               /\ \A p \in PageRows(n) : position'[p] = position[p]
    <2>1. ActivePages(n)' = ActivePages(n)
      BY <1>1, <1>3, <1>7 DEF ActivePages, PageRows
    <2>2. \A p \in PageRows(n) : p \in Page /\ p # r /\ p \notin Siblings(r)
      BY <1>7 DEF Siblings, ActivePages, PageRows
    <2>3. \A p \in PageRows(n) : position'[p] = position[p]
      BY <1>1, <2>2, ReinsertedElsewhere
    <2> QED
      BY <2>1, <2>3
  <1> QED
    BY <1>4, <1>6, <1>7

\* After a step positions are distinct, and where a page has moved, gone or
\* come back its notebook is numbered without a gap.
PlacesKept ==
    /\ AllApart'
    /\ \A p \in Page \intersect rows :
          deleted'[p] # deleted[p] \/ position'[p] # position[p]
             => Numbered(ActivePages(Parent[p])', position')

LEMMA WritingKeepsPlaces ==
    ASSUME WellFormed, AllApart, RowsWritten
    PROVE  PlacesKept
  <1>1. /\ rows' = rows /\ deleted' = deleted /\ position \in [Page -> Nat]
        /\ \A n : ActivePages(n)' = ActivePages(n)
    BY DEF RowsWritten, ActivePages, PageRows, WellFormed, TypeOK
  <1>2. CASE position' = position
    BY <1>1, <1>2 DEF PlacesKept, AllApart, Apart
  <1>3. ASSUME NEW n \in Notebook, position' \in Reordered(n)
        PROVE  PlacesKept
    <2>1. /\ Apart(ActivePages(n), position')
          /\ Numbered(ActivePages(n), position')
      BY <1>1, <1>3, ReorderedIsNumbered
    <2>2. \A p \in Page : p \notin ActivePages(n) => position'[p] = position[p]
      BY <1>3 DEF Reordered
    <2>3. \A p \in Page : p \in ActivePages(n) => Parent[p] = n
      BY DEF ActivePages, PageRows
    <2>4. ASSUME NEW m \in Notebook
          PROVE  Apart(ActivePages(m), position')
      <3>1. CASE m = n
        BY <2>1, <3>1
      <3>2. CASE m # n
        <4>1. \A p \in ActivePages(m) : position'[p] = position[p]
          BY <2>2, <2>3, <3>2 DEF ActivePages, PageRows
        <4> QED
          BY <4>1 DEF AllApart, Apart
      <3> QED
        BY <3>1, <3>2
    <2>5. AllApart'
      BY <1>1, <2>4 DEF AllApart
    <2>6. ASSUME NEW p \in Page \intersect rows,
                 deleted'[p] # deleted[p] \/ position'[p] # position[p]
          PROVE  Numbered(ActivePages(Parent[p])', position')
      <3>1. p \in ActivePages(n)
        BY <1>1, <2>2, <2>6
      <3>2. Parent[p] = n
        BY <2>3, <3>1
      <3>3. ActivePages(Parent[p])' = ActivePages(n)
        BY <1>1, <3>2
      <3> QED
        BY <2>1, <3>3
    <2> QED
      BY <2>5, <2>6 DEF PlacesKept
  <1> QED
    BY <1>2, <1>3 DEF RowsWritten

LEMMA AddingKeepsPlaces ==
    ASSUME WellFormed, AllApart, NEW r, RowAdded(r)
    PROVE  PlacesKept
  <1>1. /\ r \in Resource \ rows /\ rows' = rows \union {r} /\ deleted' = deleted
        /\ \A p \in Page \ {r} : position'[p] = position[p]
        /\ r \in Page => \A q \in ActivePages(Parent[r]) : position[q] # position'[r]
    BY DEF RowAdded
  <1>2. ASSUME NEW n \in Notebook
        PROVE  Apart(ActivePages(n)', position')
    <2>1. /\ \A p \in ActivePages(n) : position'[p] = position[p]
          /\ \A p \in ActivePages(n)' :
                p \in ActivePages(n) \/ (p = r /\ r \in Page /\ Parent[r] = n)
      BY <1>1 DEF ActivePages, PageRows
    <2> SUFFICES ASSUME NEW p \in ActivePages(n)', NEW q \in ActivePages(n)',
                        position'[p] = position'[q]
                 PROVE  p = q
      BY DEF Apart
    <2>2. CASE p \in ActivePages(n) /\ q \in ActivePages(n)
      BY <2>1, <2>2 DEF AllApart, Apart
    <2>3. CASE p \notin ActivePages(n) \/ q \notin ActivePages(n)
      BY <1>1, <2>1, <2>3
    <2> QED
      BY <2>2, <2>3
  <1>3. \A p \in Page \intersect rows : deleted'[p] = deleted[p] /\ position'[p] = position[p]
    BY <1>1
  <1>4. AllApart'
    BY <1>2 DEF AllApart
  <1> QED
    BY <1>3, <1>4 DEF PlacesKept

LEMMA HidingKeepsPlaces ==
    ASSUME WellFormed, AllApart, NEW r, RowHidden(r)
    PROVE  PlacesKept
  <1>1. /\ rows' = rows /\ deleted' = [deleted EXCEPT ![r] = TRUE]
        /\ r \in rows /\ r \in Resource /\ deleted \in [Resource -> BOOLEAN]
        /\ position' = IF r \in Page THEN Compacted(r) ELSE position
    BY DEF RowHidden, WellFormed, TypeOK
  <1>2. CASE r \notin Page
    <2>1. position' = position /\ \A p \in Page : deleted'[p] = deleted[p]
      BY <1>1, <1>2 DEF Resource
    <2>2. \A n : ActivePages(n)' = ActivePages(n)
      BY <1>1, <2>1 DEF ActivePages, PageRows
    <2>3. AllApart'
      BY <2>1, <2>2 DEF AllApart, Apart
    <2> QED
      BY <2>1, <2>3 DEF PlacesKept
  <1>3. CASE r \in Page
    <2>1. /\ ActivePages(Parent[r])' = Siblings(r)
          /\ Apart(Siblings(r), position') /\ Numbered(Siblings(r), position')
          /\ \A n : n # Parent[r] =>
               /\ ActivePages(n)' = ActivePages(n)
               /\ \A p \in PageRows(n) : position'[p] = position[p]
      BY <1>3, HiddenPage
    <2>2. ASSUME NEW n \in Notebook
          PROVE  Apart(ActivePages(n)', position')
      <3>1. CASE n = Parent[r]
        BY <2>1, <3>1
      <3>2. CASE n # Parent[r]
        <4>1. /\ ActivePages(n)' = ActivePages(n)
              /\ \A p \in ActivePages(n) : position'[p] = position[p]
          BY <2>1, <3>2 DEF ActivePages
        <4> QED
          BY <4>1 DEF AllApart, Apart
      <3> QED
        BY <3>1, <3>2
    <2>3. AllApart'
      BY <2>2 DEF AllApart
    <2>4. ASSUME NEW p \in Page \intersect rows,
                 deleted'[p] # deleted[p] \/ position'[p] # position[p]
          PROVE  Parent[p] = Parent[r]
      <3>1. SUFFICES ASSUME Parent[p] # Parent[r] PROVE FALSE
        OBVIOUS
      <3>2. p \in PageRows(Parent[p]) /\ p # r
        BY <3>1 DEF PageRows
      <3>3. position'[p] = position[p]
        BY <2>1, <3>1, <3>2
      <3>4. deleted'[p] = deleted[p]
        BY <1>1, <3>2
      <3> QED
        BY <2>4, <3>3, <3>4
    <2>5. ASSUME NEW p \in Page, Parent[p] = Parent[r]
          PROVE  ActivePages(Parent[p])' = Siblings(r)
      BY <2>1, <2>5 DEF ActivePages, PageRows
    <2>6. ASSUME NEW p \in Page \intersect rows,
                 deleted'[p] # deleted[p] \/ position'[p] # position[p]
          PROVE  Numbered(ActivePages(Parent[p])', position')
      <3>1. ActivePages(Parent[p])' = Siblings(r)
        BY <2>4, <2>5, <2>6
      <3> QED
        BY <2>1, <3>1
    <2> QED
      BY <2>3, <2>6 DEF PlacesKept
  <1> QED
    BY <1>2, <1>3

LEMMA ReturningKeepsPlaces ==
    ASSUME WellFormed, AllApart, NEW t, RowReturned(t)
    PROVE  PlacesKept
  <1>0. PICK r : r = tombstones[t].id
    OBVIOUS
  <1>1. /\ rows' = rows /\ deleted' = [deleted EXCEPT ![r] = FALSE]
        /\ r \in rows /\ r \in Resource /\ deleted \in [Resource -> BOOLEAN]
        /\ position' = BackAt(r, tombstones[t].position)
    BY <1>0 DEF RowReturned, WellFormed, TypeOK
  <1>2. CASE r \notin Page
    <2>1. position' = position /\ \A p \in Page : deleted'[p] = deleted[p]
      BY <1>1, <1>2 DEF BackAt, Resource
    <2>2. \A n : ActivePages(n)' = ActivePages(n)
      BY <1>1, <2>1 DEF ActivePages, PageRows
    <2>3. AllApart'
      BY <2>1, <2>2 DEF AllApart, Apart
    <2> QED
      BY <2>1, <2>3 DEF PlacesKept
  <1>3. CASE r \in Page
    <2> DEFINE T == Siblings(r) \union {r}
    <2>1. /\ ActivePages(Parent[r])' = T
          /\ Apart(T, position') /\ Numbered(T, position')
          /\ \A n : n # Parent[r] =>
               /\ ActivePages(n)' = ActivePages(n)
               /\ \A p \in PageRows(n) : position'[p] = position[p]
      BY <1>0, <1>3, ReturnedPage
    <2> HIDE DEF T
    <2>2. ASSUME NEW n \in Notebook
          PROVE  Apart(ActivePages(n)', position')
      <3>1. CASE n = Parent[r]
        BY <2>1, <3>1
      <3>2. CASE n # Parent[r]
        <4>1. /\ ActivePages(n)' = ActivePages(n)
              /\ \A p \in ActivePages(n) : position'[p] = position[p]
          BY <2>1, <3>2 DEF ActivePages
        <4> QED
          BY <4>1 DEF AllApart, Apart
      <3> QED
        BY <3>1, <3>2
    <2>3. AllApart'
      BY <2>2 DEF AllApart
    <2>4. ASSUME NEW p \in Page \intersect rows,
                 deleted'[p] # deleted[p] \/ position'[p] # position[p]
          PROVE  Parent[p] = Parent[r]
      <3>1. SUFFICES ASSUME Parent[p] # Parent[r] PROVE FALSE
        OBVIOUS
      <3>2. p \in PageRows(Parent[p]) /\ p # r
        BY <3>1 DEF PageRows
      <3>3. position'[p] = position[p]
        BY <2>1, <3>1, <3>2
      <3>4. deleted'[p] = deleted[p]
        BY <1>1, <3>2
      <3> QED
        BY <2>4, <3>3, <3>4
    <2>5. ASSUME NEW p \in Page, Parent[p] = Parent[r]
          PROVE  ActivePages(Parent[p])' = T
      BY <2>1, <2>5 DEF ActivePages, PageRows
    <2>6. ASSUME NEW p \in Page \intersect rows,
                 deleted'[p] # deleted[p] \/ position'[p] # position[p]
          PROVE  Numbered(ActivePages(Parent[p])', position')
      <3>1. ActivePages(Parent[p])' = T
        BY <2>4, <2>5, <2>6
      <3> QED
        BY <2>1, <3>1
    <2> QED
      BY <2>3, <2>6 DEF PlacesKept
  <1> QED
    BY <1>2, <1>3

LEMMA StepKeepsPlaces ==
    ASSUME ConflictsInv, AllApart, Next
    PROVE  PlacesKept
  <1>1. WellFormed
    BY DEF ConflictsInv, HistoryInv
  <1> QED
    BY <1>1, StructureSteps, WritingKeepsPlaces, AddingKeepsPlaces,
       HidingKeepsPlaces, ReturningKeepsPlaces

LEMMA PlacesInvariant == Spec => []AllApart
  <1>1. Init => AllApart
    BY DEF Init, AllApart, Apart, ActivePages, PageRows
  <1>2. ConflictsInv /\ AllApart /\ [Next]_vars => AllApart'
    <2>1. CASE UNCHANGED vars
      BY <2>1 DEF vars, AllApart, Apart, ActivePages, PageRows
    <2>2. ASSUME ConflictsInv, AllApart, Next PROVE AllApart'
      BY <2>2, StepKeepsPlaces DEF PlacesKept
    <2> QED
      BY <2>1, <2>2
  <1> QED
    BY <1>1, <1>2, ConflictsInvariant, PTL DEF Spec

\* No two active pages of a notebook claim one position, whatever order the
\* deletes, restores, reorders and copies come in: the unique index of the
\* pages table never refuses one of them.
THEOREM PositionsStayDistinct == Spec => []ActivePositionsDistinct
  <1>1. WellFormed /\ AllApart => ActivePositionsDistinct
    BY ApartIsDistinct
  <1>2. ConflictsInv => WellFormed
    BY DEF ConflictsInv, HistoryInv
  <1> QED
    BY <1>1, <1>2, ConflictsInvariant, PlacesInvariant, PTL

\* A delete, a restore or a reorder leaves the active pages of its notebook
\* numbered without a gap, whatever gaps a stale creation or a kept copy had
\* left before.
THEOREM RestructuringLeavesDense == Spec => DenseAfterRestructuring
  <1>1. ConflictsInv /\ AllApart /\ [Next]_vars =>
            [\A p \in Page \intersect rows :
                deleted'[p] # deleted[p] \/ position'[p] # position[p]
                   => Dense(Parent[p])']_vars
    <2> SUFFICES ASSUME ConflictsInv, AllApart, Next,
                        NEW p \in Page \intersect rows,
                        deleted'[p] # deleted[p] \/ position'[p] # position[p]
                 PROVE  Dense(Parent[p])'
      OBVIOUS
    <2>1. Numbered(ActivePages(Parent[p])', position')
      BY StepKeepsPlaces DEF PlacesKept
    <2> QED
      BY <2>1 DEF Numbered, Dense
  <1> QED
    BY <1>1, ConflictsInvariant, PlacesInvariant, PTL
       DEF Spec, DenseAfterRestructuring

-----------------------------------------------------------------------------
(* The tombstones.                                                         *)

Active(t) == t \in DOMAIN tombstones /\ tombstones[t].state = "active"

\* DeletedIffActiveTombstone, tombstone by tombstone.
TombstonesHold ==
    /\ \A r \in rows : deleted[r] => \E t : Active(t) /\ tombstones[t].id = r
    /\ \A t : Active(t) =>
          /\ deleted[tombstones[t].id]
          /\ tombstones[t].deletedRevision = revision[tombstones[t].id]
          /\ tombstones[t].content = content[tombstones[t].id]
    /\ \A t, u : Active(t) /\ Active(u) /\ tombstones[t].id = tombstones[u].id => t = u

LEMMA TombstonesHoldImplies == TombstonesHold => DeletedIffActiveTombstone
  <1> SUFFICES ASSUME TombstonesHold, NEW r \in rows
               PROVE  LET active == {t \in DOMAIN tombstones :
                                       tombstones[t].id = r
                                       /\ tombstones[t].state = "active"}
                      IN  /\ deleted[r] <=> active # {}
                          /\ \A t, u \in active : t = u
                          /\ \A t \in active :
                                /\ tombstones[t].deletedRevision = revision[r]
                                /\ tombstones[t].content = content[r]
    BY DEF DeletedIffActiveTombstone
  <1> DEFINE active == {t \in DOMAIN tombstones :
                           tombstones[t].id = r /\ tombstones[t].state = "active"}
  <1>1. \A t : t \in active <=> Active(t) /\ tombstones[t].id = r
    BY DEF Active
  <1> HIDE DEF active
  <1>2. deleted[r] => \E t : Active(t) /\ tombstones[t].id = r
    BY DEF TombstonesHold
  <1>3. \A t : Active(t) /\ tombstones[t].id = r =>
           /\ deleted[r]
           /\ tombstones[t].deletedRevision = revision[r]
           /\ tombstones[t].content = content[r]
    BY DEF TombstonesHold
  <1>4. deleted[r] <=> active # {}
    BY <1>1, <1>2, <1>3
  <1>5. \A t, u \in active : t = u
    BY <1>1 DEF TombstonesHold
  <1>6. \A t \in active : tombstones[t].deletedRevision = revision[r]
                          /\ tombstones[t].content = content[r]
    BY <1>1, <1>3
  <1> QED
    BY <1>4, <1>5, <1>6 DEF active

\* What an added tombstone changes.
LEMMA TombstoneAdded ==
    ASSUME WellFormed, NEW y, tombstones' = Append(tombstones, y)
    PROVE  \E n : /\ n \notin DOMAIN tombstones
                  /\ DOMAIN tombstones' = DOMAIN tombstones \union {n}
                  /\ \A t \in DOMAIN tombstones : tombstones'[t] = tombstones[t]
                  /\ tombstones'[n] = y
  <1>1. /\ tombstones \in Seq(Tombstone) /\ Len(tombstones) \in Nat
        /\ DOMAIN tombstones = 1..Len(tombstones)
    BY LenProperties DEF WellFormed, TypeOK
  <1>2. PICK n \in Nat : n = Len(tombstones) + 1
    BY <1>1
  <1>3. DOMAIN tombstones = 1..(n - 1)
    BY <1>1, <1>2
  <1>4. /\ DOMAIN Append(tombstones, y) = 1..n
        /\ Append(tombstones, y)[n] = y
        /\ \A t \in 1..(n - 1) : Append(tombstones, y)[t] = tombstones[t]
    BY <1>1, <1>2
  <1>5. n \in Nat \ {0}
    BY <1>1, <1>2
  <1>6. 1..n = 1..(n - 1) \union {n} /\ n \notin 1..(n - 1)
    BY <1>5
  <1> QED
    BY <1>3, <1>4, <1>6

LEMMA WritingKeepsTombstones ==
    ASSUME WellFormed, WellFormed', TombstonesHold, RowsWritten
    PROVE  TombstonesHold'
  <1>1. /\ rows' = rows /\ deleted' = deleted
        /\ \A s \in rows : deleted[s] => content'[s] = content[s] /\ revision'[s] = revision[s]
        /\ \A t \in DOMAIN tombstones : tombstones[t].id \in rows
    BY DEF RowsWritten, WellFormed
  <1>2. \A t : Active(t)' <=> Active(t)
    <2>1. CASE UNCHANGED tombstones
      BY <2>1 DEF Active
    <2>2. CASE \E y \in Tombstone :
                  tombstones' = Append(tombstones, y) /\ y.state = "restored"
      <3>1. PICK y \in Tombstone :
                  tombstones' = Append(tombstones, y) /\ y.state = "restored"
        BY <2>2
      <3>2. PICK n : /\ n \notin DOMAIN tombstones
                     /\ DOMAIN tombstones' = DOMAIN tombstones \union {n}
                     /\ \A t \in DOMAIN tombstones : tombstones'[t] = tombstones[t]
                     /\ tombstones'[n] = y
        BY <3>1, TombstoneAdded
      <3> QED
        BY <3>1, <3>2 DEF Active
    <2> QED
      BY <2>1, <2>2 DEF RowsWritten
  <1>3. \A t : Active(t) => tombstones'[t] = tombstones[t]
    <2>1. CASE UNCHANGED tombstones
      BY <2>1
    <2>2. CASE \E y \in Tombstone :
                  tombstones' = Append(tombstones, y) /\ y.state = "restored"
      BY <2>2, TombstoneAdded DEF Active
    <2> QED
      BY <2>1, <2>2 DEF RowsWritten
  <1>4. \A t : Active(t) => tombstones[t].id \in rows
    BY <1>1 DEF Active
  <1> QED
    BY <1>1, <1>2, <1>3, <1>4 DEF TombstonesHold

LEMMA AddingKeepsTombstones ==
    ASSUME WellFormed, TombstonesHold, NEW r, RowAdded(r)
    PROVE  TombstonesHold'
  <1>1. /\ rows' = rows \union {r} /\ r \in Resource \ rows
        /\ deleted' = deleted /\ tombstones' = tombstones /\ ~deleted[r]
        /\ \A s \in rows : content'[s] = content[s] /\ revision'[s] = revision[s]
        /\ \A t \in DOMAIN tombstones : tombstones[t].id \in rows
    BY DEF RowAdded, WellFormed, TypeOK
  <1>2. \A t : Active(t)' <=> Active(t)
    BY <1>1 DEF Active
  <1>3. \A t : Active(t) => tombstones[t].id \in rows
    BY <1>1 DEF Active
  <1> QED
    BY <1>1, <1>2, <1>3 DEF TombstonesHold

LEMMA HidingKeepsTombstones ==
    ASSUME WellFormed, TombstonesHold, NEW r, RowHidden(r)
    PROVE  TombstonesHold'
  <1>1. /\ rows' = rows /\ content' = content /\ r \in rows /\ ~deleted[r]
        /\ revision'[r] = revision[r] + 1
        /\ \A s \in rows : deleted[s] => revision'[s] = revision[s]
        /\ \A s \in rows : deleted'[s] <=> deleted[s] \/ s = r
        /\ \A t \in DOMAIN tombstones : tombstones[t].id \in rows
    BY DEF RowHidden, WellFormed, TypeOK
  <1>2. PICK y : /\ tombstones' = Append(tombstones, y)
                 /\ y.id = r /\ y.state = "active"
                 /\ y.deletedRevision = revision[r] + 1 /\ y.content = content[r]
    BY DEF RowHidden
  <1>3. PICK n : /\ n \notin DOMAIN tombstones
                 /\ DOMAIN tombstones' = DOMAIN tombstones \union {n}
                 /\ \A t \in DOMAIN tombstones : tombstones'[t] = tombstones[t]
                 /\ tombstones'[n] = y
    BY <1>2, TombstoneAdded
  <1>4. \A t : Active(t)' <=> Active(t) \/ t = n
    BY <1>2, <1>3 DEF Active
  <1>5. \A t : Active(t) => /\ tombstones'[t] = tombstones[t]
                            /\ tombstones[t].id \in rows /\ tombstones[t].id # r
                            /\ deleted[tombstones[t].id] /\ t # n
    BY <1>1, <1>3 DEF Active, TombstonesHold
  <1>6. ASSUME NEW s \in rows, deleted'[s]
        PROVE  \E t : Active(t)' /\ tombstones'[t].id = s
    <2>1. CASE s = r
      BY <1>2, <1>3, <1>4, <2>1
    <2>2. CASE deleted[s]
      <3>1. PICK t : Active(t) /\ tombstones[t].id = s
        BY <2>2 DEF TombstonesHold
      <3>2. Active(t)' /\ tombstones'[t].id = s
        BY <1>4, <1>5, <3>1
      <3> QED
        BY <3>2
    <2> QED
      BY <1>1, <1>6, <2>1, <2>2
  <1>7. ASSUME NEW t, Active(t)'
        PROVE  /\ deleted'[tombstones'[t].id]
               /\ tombstones'[t].deletedRevision = revision'[tombstones'[t].id]
               /\ tombstones'[t].content = content'[tombstones'[t].id]
    <2>1. CASE t = n
      BY <1>1, <1>2, <1>3, <2>1
    <2>2. CASE Active(t)
      BY <1>1, <1>5, <2>2 DEF TombstonesHold
    <2> QED
      BY <1>4, <1>7, <2>1, <2>2
  <1>8. ASSUME NEW t, NEW u, Active(t)', Active(u)',
               tombstones'[t].id = tombstones'[u].id
        PROVE  t = u
    <2>1. tombstones'[n].id = r
      BY <1>2, <1>3
    <2>2. CASE Active(t) /\ Active(u)
      <3>1. tombstones[t].id = tombstones[u].id
        BY <1>5, <1>8, <2>2
      <3> QED
        BY <2>2, <3>1 DEF TombstonesHold
    <2>3. CASE t = n /\ Active(u)
      BY <1>5, <1>8, <2>1, <2>3
    <2>4. CASE Active(t) /\ u = n
      BY <1>5, <1>8, <2>1, <2>4
    <2> QED
      BY <1>4, <1>8, <2>2, <2>3, <2>4
  <1> QED
    BY <1>1, <1>6, <1>7, <1>8 DEF TombstonesHold

LEMMA ReturningKeepsTombstones ==
    ASSUME WellFormed, TombstonesHold, NEW t, RowReturned(t)
    PROVE  TombstonesHold'
  <1>0. PICK r : r = tombstones[t].id
    OBVIOUS
  <1>1. /\ rows' = rows /\ r \in rows
        /\ \A s \in rows \ {r} :
              deleted[s] => content'[s] = content[s] /\ revision'[s] = revision[s]
        /\ \A s \in rows : deleted'[s] <=> deleted[s] /\ s # r
        /\ \A u \in DOMAIN tombstones : tombstones[u].id \in rows
        /\ DOMAIN tombstones' = DOMAIN tombstones /\ t \in DOMAIN tombstones
        /\ \A u \in DOMAIN tombstones \ {t} : tombstones'[u] = tombstones[u]
        /\ tombstones'[t].state = "restored" /\ tombstones[t].state = "active"
    BY <1>0 DEF RowReturned, WellFormed, TypeOK
  <1>2. \A u : Active(u)' <=> Active(u) /\ u # t
    BY <1>1 DEF Active
  <1>3. Active(t)
    BY <1>1 DEF Active
  <1>4. \A u : Active(u) /\ u # t =>
                    /\ tombstones'[u] = tombstones[u]
                    /\ tombstones[u].id \in rows /\ tombstones[u].id # r
    BY <1>0, <1>1, <1>3 DEF Active, TombstonesHold
  <1>5. \A s \in rows : deleted'[s] => \E u : Active(u)' /\ tombstones'[u].id = s
    BY <1>0, <1>1, <1>2, <1>4 DEF TombstonesHold
  <1>6. \A u : Active(u)' =>
            /\ deleted'[tombstones'[u].id]
            /\ tombstones'[u].deletedRevision = revision'[tombstones'[u].id]
            /\ tombstones'[u].content = content'[tombstones'[u].id]
    BY <1>1, <1>2, <1>4 DEF TombstonesHold
  <1>7. \A u, v : Active(u)' /\ Active(v)' /\ tombstones'[u].id = tombstones'[v].id => u = v
    BY <1>2, <1>4 DEF TombstonesHold
  <1> QED
    BY <1>1, <1>5, <1>6, <1>7 DEF TombstonesHold

\* A row is hidden exactly while one tombstone is active for it, and that
\* tombstone can bring back what the row held when it was deleted.
THEOREM HiddenRowsHaveTheirTombstone == Spec => []DeletedIffActiveTombstone
  <1>1. Init => TombstonesHold
    BY DEF Init, TombstonesHold, Active
  <1>2. ConflictsInv /\ TombstonesHold /\ [Next]_vars => TombstonesHold'
    <2>1. CASE UNCHANGED vars
      BY <2>1 DEF vars, TombstonesHold, Active
    <2>2. ASSUME ConflictsInv, TombstonesHold, Next PROVE TombstonesHold'
      <3>1. WellFormed /\ WellFormed'
        BY <2>2, StepGrows DEF ConflictsInv, HistoryInv
      <3> QED
        BY <2>2, <3>1, StructureSteps, WritingKeepsTombstones,
           AddingKeepsTombstones, HidingKeepsTombstones, ReturningKeepsTombstones
    <2> QED
      BY <2>1, <2>2
  <1> QED
    BY <1>1, <1>2, TombstonesHoldImplies, ConflictsInvariant, PTL DEF Spec

-----------------------------------------------------------------------------
(* What other devices are told of tombstones and conflict records.         *)

TombstoneNotice(t, s) == [of |-> "tombstone", index |-> t, state |-> s]
ConflictNotice(k, s) == [of |-> "conflict", index |-> k, state |-> s]

\* A step publishes every state it gives a tombstone or a conflict record and
\* takes back nothing that was published.
TombstonesNoticed ==
    \A t \in DOMAIN tombstones' :
        \/ t \in DOMAIN tombstones /\ tombstones'[t].state = tombstones[t].state
        \/ TombstoneNotice(t, tombstones'[t].state) \in notices'

ConflictsNoticed ==
    \A k \in DOMAIN conflicts' :
        \/ /\ k \in DOMAIN conflicts
           /\ \/ conflicts'[k].status = conflicts[k].status
              \/ ConflictNotice(k, conflicts'[k].status) \in notices'
        \/ /\ conflicts'[k].status = "pending"
           /\ ConflictNotice(k, "pending") \in notices'

Noticed == notices \subseteq notices' /\ TombstonesNoticed /\ ConflictsNoticed

LEMMA AddedTombstoneNoticed ==
    ASSUME WellFormed, UNCHANGED conflicts,
           NEW r, NEW base, NEW n, NEW state, NEW kind,
           AddTombstone(r, base, n, state, kind)
    PROVE  Noticed
  <1> DEFINE y == [id |-> r, base |-> base, deletedRevision |-> n,
                   content |-> content[r], position |-> PositionOf(r),
                   state |-> state, kind |-> kind]
  <1>1. /\ tombstones' = Append(tombstones, y)
        /\ notices' = notices \union {TombstoneNotice(Len(tombstones'), state)}
    BY DEF AddTombstone, TombstoneNotice
  <1>2. y.state = state
    OBVIOUS
  <1> HIDE DEF y
  <1>3. tombstones \in Seq(Tombstone) /\ Len(tombstones) \in Nat
    BY LenProperties DEF WellFormed, TypeOK
  <1>4. Len(tombstones') = Len(tombstones) + 1
    BY <1>1, <1>3
  <1>5. ASSUME NEW t \in DOMAIN tombstones'
        PROVE  \/ t \in DOMAIN tombstones /\ tombstones'[t].state = tombstones[t].state
               \/ TombstoneNotice(t, tombstones'[t].state) \in notices'
    <2>1. CASE t = Len(tombstones')
      <3>1. tombstones'[t] = y
        BY <1>1, <1>3, <1>4, <2>1
      <3> QED
        BY <1>1, <1>2, <2>1, <3>1
    <2>2. CASE t # Len(tombstones')
      <3>1. t \in DOMAIN tombstones /\ tombstones'[t] = tombstones[t]
        BY <1>1, <1>3, <1>4, <2>2
      <3> QED
        BY <3>1
    <2> QED
      BY <2>1, <2>2
  <1> QED
    BY <1>1, <1>5 DEF Noticed, TombstonesNoticed, ConflictsNoticed

LEMMA RestoredTombstoneNoticed ==
    ASSUME WellFormed, UNCHANGED conflicts, NEW t \in DOMAIN tombstones,
           NEW y, y.state = "restored",
           tombstones' = [tombstones EXCEPT ![t] = y],
           notices' = notices \union {TombstoneNotice(t, "restored")}
    PROVE  Noticed
  <1>1. DOMAIN tombstones' = DOMAIN tombstones /\ tombstones'[t] = y
    OBVIOUS
  <1>2. \A u \in DOMAIN tombstones : u # t => tombstones'[u] = tombstones[u]
    OBVIOUS
  <1>3. TombstonesNoticed
    BY <1>1, <1>2 DEF TombstonesNoticed
  <1> QED
    BY <1>3 DEF Noticed, ConflictsNoticed

LEMMA RecordedConflictNoticed ==
    ASSUME WellFormed, NEW r \in rows, NEW base, NEW c,
           NEW baseline, NEW desired, NEW copy,
           RecordConflict(r, base, c, baseline, desired, copy)
    PROVE  Noticed
  <1> DEFINE y == [id |-> r, copy |-> copy, base |-> base, current |-> revision[r],
                   submitted |-> c, displaced |-> content[r],
                   status |-> "pending", resolution |-> "none"]
  <1>1. /\ conflicts' = Append(conflicts, y) /\ UNCHANGED tombstones
        /\ notices' = notices \union {ConflictNotice(Len(conflicts'), "pending")}
    BY DEF RecordConflict, ConflictNotice
  <1>2. y.status = "pending"
    OBVIOUS
  <1> HIDE DEF y
  <1>3. conflicts \in Seq(Conflict) /\ Len(conflicts) \in Nat
    BY LenProperties DEF WellFormed, TypeOK
  <1>4. Len(conflicts') = Len(conflicts) + 1
    BY <1>1, <1>3
  <1>5. ASSUME NEW k \in DOMAIN conflicts'
        PROVE  \/ k \in DOMAIN conflicts /\ conflicts'[k].status = conflicts[k].status
               \/ /\ conflicts'[k].status = "pending"
                  /\ ConflictNotice(k, "pending") \in notices'
    <2>1. CASE k = Len(conflicts')
      <3>1. conflicts'[k] = y
        BY <1>1, <1>3, <1>4, <2>1
      <3> QED
        BY <1>1, <1>2, <2>1, <3>1
    <2>2. CASE k # Len(conflicts')
      <3>1. k \in DOMAIN conflicts /\ conflicts'[k] = conflicts[k]
        BY <1>1, <1>3, <1>4, <2>2
      <3> QED
        BY <3>1
    <2> QED
      BY <2>1, <2>2
  <1> QED
    BY <1>1, <1>5 DEF Noticed, TombstonesNoticed, ConflictsNoticed

LEMMA ResolutionNoticed ==
    ASSUME WellFormed, NEW k \in DOMAIN conflicts, Resolve(k)
    PROVE  Noticed
  <1>1. PICK resolution \in Resolution : Close(k, resolution)
    BY DEF Resolve, KeepOriginal, UseConflict, KeepBoth, Resolution
  <1>2. /\ DOMAIN conflicts' = DOMAIN conflicts
        /\ \A l \in DOMAIN conflicts : l # k => conflicts'[l] = conflicts[l]
        /\ conflicts'[k].status = "resolved"
    BY <1>1, Closing
  <1>3. /\ UNCHANGED tombstones
        /\ notices' = notices \union {ConflictNotice(k, "resolved")}
    BY <1>1 DEF Close, ConflictNotice
  <1>4. ConflictsNoticed
    BY <1>2, <1>3 DEF ConflictsNoticed
  <1> QED
    BY <1>3, <1>4 DEF Noticed, TombstonesNoticed

LEMMA StepIsNoticed ==
    ASSUME WellFormed, Next
    PROVE  Noticed
  <1>1. CASE UNCHANGED <<tombstones, conflicts, notices>>
    BY <1>1 DEF Noticed, TombstonesNoticed, ConflictsNoticed
  <1>2. CASE Create
    <2>1. UNCHANGED <<tombstones, conflicts, notices>>
      BY <1>2 DEF Create, CreateNotebook, CreatePage, CreateCanvas, Insert
    <2> QED
      BY <1>1, <2>1
  <1>3. ASSUME NEW t \in DOMAIN tombstones, Restore(t)
        PROVE  Noticed
    <2> DEFINE y == [tombstones[t] EXCEPT !.state = "restored"]
    <2>1. y.state = "restored"
      BY TombstoneType DEF Tombstone
    <2>2. /\ tombstones' = [tombstones EXCEPT ![t] = y] /\ UNCHANGED conflicts
          /\ notices' = notices \union {TombstoneNotice(t, "restored")}
      BY <1>3 DEF Restore, TombstoneNotice
    <2> HIDE DEF y
    <2> QED
      BY <2>1, <2>2, RestoredTombstoneNoticed
  <1>4. ASSUME NEW r, NEW c, NEW t \in DOMAIN tombstones,
               PreserveEditAfterDelete(r, c, t)
        PROVE  Noticed
    <2> DEFINE y == [tombstones[t] EXCEPT !.state = "restored",
                                          !.kind = "edit_after_delete"]
    <2>1. y.state = "restored"
      BY TombstoneType DEF Tombstone
    <2>2. /\ tombstones' = [tombstones EXCEPT ![t] = y] /\ UNCHANGED conflicts
          /\ notices' = notices \union {TombstoneNotice(t, "restored")}
      BY <1>4 DEF PreserveEditAfterDelete, TombstoneNotice
    <2> HIDE DEF y
    <2> QED
      BY <2>1, <2>2, RestoredTombstoneNoticed
  <1>5. ASSUME NEW r \in rows, NEW base, DeleteOrRefuse(r, base)
        PROVE  Noticed
    <2>1. UNCHANGED conflicts
      BY <1>5 DEF DeleteOrRefuse, Delete, RefuseStaleDelete
    <2>2. \/ AddTombstone(r, base, revision[r] + 1, "active", "none")
          \/ AddTombstone(r, base, 0, "restored", "delete_after_edit")
      BY <1>5 DEF DeleteOrRefuse, Delete, RefuseStaleDelete
    <2> QED
      BY <2>1, <2>2, AddedTombstoneNoticed
  <1>6. ASSUME NEW r \in rows, NEW base, NEW c, NEW baseline, NEW desired,
               Upsert(r, base, c, baseline, desired)
        PROVE  Noticed
    <2>1. \/ UNCHANGED <<tombstones, conflicts, notices>>
          \/ \E copy \in Resource : RecordConflict(r, base, c, baseline, desired, copy)
          \/ \E t \in DOMAIN tombstones : PreserveEditAfterDelete(r, c, t)
      BY <1>6 DEF Upsert, SaveNotebook, SavePage, SaveCanvas, Save
    <2> QED
      BY <1>1, <1>4, <2>1, RecordedConflictNoticed
  <1>7. CASE Commit
    <2>1. PICK r \in rows : \E base \in 1..revision[r] :
              \/ \E c \in Content \union {NoContent}, baseline, desired \in Meta :
                    Upsert(r, base, c, baseline, desired)
              \/ DeleteOrRefuse(r, base)
      BY <1>7 DEF Commit
    <2> QED
      BY <1>5, <1>6, <2>1
  <1> QED
    BY <1>2, <1>3, <1>7, ResolutionNoticed DEF Next

\* Whatever state a tombstone or conflict record is in, and every state it was
\* in before, has been published: no device can miss a delete, a restore, a
\* conflict or its resolution.
THEOREM NoticesStayComplete == Spec => []NoticesComplete
  <1>1. Init => NoticesComplete
    BY DEF Init, NoticesComplete
  <1>2. ASSUME NoticesComplete, Noticed
        PROVE  NoticesComplete'
    <2>1. ASSUME NEW t \in DOMAIN tombstones'
          PROVE  TombstoneNotice(t, tombstones'[t].state) \in notices'
      <3>1. t \in DOMAIN tombstones => TombstoneNotice(t, tombstones[t].state) \in notices'
        BY <1>2 DEF NoticesComplete, TombstoneNotice, Noticed
      <3>2. \/ t \in DOMAIN tombstones /\ tombstones'[t].state = tombstones[t].state
            \/ TombstoneNotice(t, tombstones'[t].state) \in notices'
        BY <1>2 DEF Noticed, TombstonesNoticed
      <3> QED
        BY <3>1, <3>2
    <2>2. ASSUME NEW k \in DOMAIN conflicts'
          PROVE  /\ ConflictNotice(k, "pending") \in notices'
                 /\ ConflictNotice(k, conflicts'[k].status) \in notices'
      <3>1. k \in DOMAIN conflicts =>
               /\ ConflictNotice(k, "pending") \in notices'
               /\ ConflictNotice(k, conflicts[k].status) \in notices'
        BY <1>2 DEF NoticesComplete, ConflictNotice, Noticed
      <3>2. \/ /\ k \in DOMAIN conflicts
               /\ \/ conflicts'[k].status = conflicts[k].status
                  \/ ConflictNotice(k, conflicts'[k].status) \in notices'
            \/ /\ conflicts'[k].status = "pending"
               /\ ConflictNotice(k, "pending") \in notices'
        BY <1>2 DEF Noticed, ConflictsNoticed
      <3> QED
        BY <3>1, <3>2
    <2> QED
      BY <2>1, <2>2 DEF NoticesComplete, TombstoneNotice, ConflictNotice
  <1>3. ConflictsInv /\ NoticesComplete /\ [Next]_vars => NoticesComplete'
    <2>1. CASE UNCHANGED vars
      BY <2>1 DEF vars, NoticesComplete
    <2>2. ConflictsInv => WellFormed
      BY DEF ConflictsInv, HistoryInv
    <2> QED
      BY <1>2, <2>1, <2>2, StepIsNoticed
  <1> QED
    BY <1>1, <1>3, ConflictsInvariant, PTL DEF Spec

=============================================================================
