-------------------------- MODULE ChangeFeedProofs --------------------------
(***************************************************************************)
(* That the change feed tells the revisions of every resource in order,    *)
(* for any number of resources, transactions and devices.                  *)
(***************************************************************************)
EXTENDS ChangeFeed, FiniteSetTheorems, WellFoundedInduction, TLAPS

All(r) == Of(r) \union UNION {WrittenTo(t, r) : t \in Transaction}

\* What the server keeps.
ServerTypeOK ==
    /\ sequence \in Nat
    /\ revision \in [Resource -> Nat]
    /\ lock \in [Resource -> Transaction \union {None}]
    /\ written \in [Transaction -> SUBSET Event]
    /\ events \subseteq Event

\* A transaction has written only rows that it holds, and only so many.
WritesAreLocked ==
    \A t \in Transaction :
        /\ IsFiniteSet(written[t])
        /\ \A e \in written[t] : lock[e.resource] = t

NumbersWereTaken ==
    /\ \A e \in events : e.sequence <= sequence
    /\ \A t \in Transaction : \A e \in written[t] : e.sequence <= sequence

\* Committed and uncommitted events of a resource together are in order ...
InOrder == \A r \in Resource : \A e, f \in All(r) :
    e.sequence < f.sequence <=> e.revision < f.revision

\* ... and a transaction goes on where the committed events end.
Consecutive == \A r \in Resource :
    /\ {e.revision : e \in Of(r)} = 1..revision[r]
    /\ \A t \in Transaction :
          {e.revision : e \in WrittenTo(t, r)} = (revision[r] + 1)..Seen(t, r)

FeedInv == ServerTypeOK /\ WritesAreLocked /\ NumbersWereTaken /\ InOrder /\ Consecutive

-----------------------------------------------------------------------------

\* No one has yet written to the feed.
LEMMA FeedInit == Init => FeedInv
<1> SUFFICES ASSUME Init PROVE FeedInv
  OBVIOUS
<1> USE DEF Init
<1>1. ServerTypeOK
  BY DEF ServerTypeOK
<1>2. WritesAreLocked
  BY FS_EmptySet DEF WritesAreLocked
<1>3. NumbersWereTaken
  BY DEF NumbersWereTaken
<1>4. InOrder
  BY DEF InOrder, All, Of, WrittenTo
<1>5. Consecutive
  <2> SUFFICES ASSUME NEW r \in Resource
               PROVE /\ {e.revision : e \in Of(r)} = 1..revision[r]
                     /\ \A t \in Transaction :
                          {e.revision : e \in WrittenTo(t, r)}
                            = (revision[r] + 1)..Seen(t, r)
    BY DEF Consecutive
  <2>1. Of(r) = {} /\ revision[r] = 0
    BY DEF Of
  <2>2. \A t \in Transaction : WrittenTo(t, r) = {}
    BY DEF WrittenTo
  <2>3. \A t \in Transaction : Seen(t, r) = 0
    BY <2>1, <2>2, FS_EmptySet, SMTT(30) DEF Seen
  <2> QED
    BY <2>1, <2>2, <2>3
<1> QED
  BY <1>1, <1>2, <1>3, <1>4, <1>5 DEF FeedInv

\* Only its holder has written to a row, and what it sees is a number.
LEMMA RowsHaveOneWriter ==
    ASSUME ServerTypeOK, WritesAreLocked, NEW r \in Resource
    PROVE  \A t \in Transaction :
              /\ IsFiniteSet(WrittenTo(t, r))
              /\ Seen(t, r) \in Nat /\ Seen(t, r) >= revision[r]
              /\ lock[r] # t => (WrittenTo(t, r) = {} /\ Seen(t, r) = revision[r])
<1> TAKE t \in Transaction
<1>1. WrittenTo(t, r) \subseteq written[t] /\ IsFiniteSet(written[t])
  BY DEF WrittenTo, WritesAreLocked
<1>2. IsFiniteSet(WrittenTo(t, r)) /\ Cardinality(WrittenTo(t, r)) \in Nat
  BY <1>1, FS_Subset, FS_CardinalityType
<1>3. revision[r] \in Nat
  BY DEF ServerTypeOK
<1>4. ASSUME lock[r] # t
      PROVE  WrittenTo(t, r) = {} /\ Seen(t, r) = revision[r]
  <2>1. WrittenTo(t, r) = {}
    BY <1>4 DEF WrittenTo, WritesAreLocked
  <2> QED
    BY <2>1, <1>3, FS_EmptySet DEF Seen
<1> QED
  BY <1>2, <1>3, <1>4 DEF Seen

\* The next event of a row carries the next number and the next revision.
LEMMA WriteKeeps ==
    ASSUME FeedInv, NEW t \in Transaction, NEW r \in Resource, Write(t, r)
    PROVE  FeedInv'
<1> USE DEF FeedInv
<1> DEFINE n == [sequence |-> sequence + 1, resource |-> r, revision |-> Seen(t, r) + 1]
<1>1. /\ lock[r] \in {t, None} /\ lock' = [lock EXCEPT ![r] = t]
      /\ sequence' = sequence + 1
      /\ written' = [written EXCEPT ![t] = @ \union {n}]
      /\ UNCHANGED <<revision, events>>
  BY DEF Write, InsertEvent
<1>2. Seen(t, r) \in Nat /\ Seen(t, r) >= revision[r]
  BY RowsHaveOneWriter
<1>3. n \in Event
  BY <1>2 DEF Event, ServerTypeOK
<1>4. ServerTypeOK'
  BY <1>1, <1>3 DEF ServerTypeOK
<1>5. n \notin written[t]
  BY DEF ServerTypeOK, NumbersWereTaken
<1>6. WritesAreLocked'
  <2> SUFFICES ASSUME NEW u \in Transaction
               PROVE /\ IsFiniteSet(written'[u])
                     /\ \A e \in written'[u] : lock'[e.resource] = u
    BY DEF WritesAreLocked
  <2>1. written'[u] = IF u = t THEN written[t] \union {n} ELSE written[u]
    BY <1>1 DEF ServerTypeOK
  <2>2. IsFiniteSet(written'[u])
    <3>1. IsFiniteSet(written[t]) /\ IsFiniteSet(written[u])
      BY DEF WritesAreLocked
    <3>2. IsFiniteSet(written[t] \union {n})
      BY <3>1, FS_AddElement
    <3> QED
      BY <2>1, <3>1, <3>2
  <2>3. ASSUME NEW e \in written'[u] PROVE lock'[e.resource] = u
    <3>1. CASE e = n /\ u = t
      BY <3>1, <1>1 DEF ServerTypeOK
    <3>2. CASE e \in written[u]
      <4>1. lock[e.resource] = u /\ e.resource \in Resource
        BY <3>2 DEF WritesAreLocked, ServerTypeOK, Event
      <4>2. e.resource = r => u = t
        BY <4>1, <1>1, FeedAssumption
      <4> QED
        BY <4>1, <4>2, <1>1 DEF ServerTypeOK
    <3> QED
      BY <2>1, <3>1, <3>2
  <2> QED
    BY <2>2, <2>3
<1>7. NumbersWereTaken'
  BY <1>1, <1>3 DEF NumbersWereTaken, ServerTypeOK, Event
<1>8. \A q \in Resource, u \in Transaction :
        WrittenTo(u, q)' = IF u = t /\ q = r THEN WrittenTo(t, r) \union {n}
                           ELSE WrittenTo(u, q)
  BY <1>1 DEF WrittenTo, ServerTypeOK
<1>9. \A q \in Resource : Of(q)' = Of(q)
  BY <1>1 DEF Of
<1>10. \A q \in Resource : All(q)' = IF q = r THEN All(r) \union {n} ELSE All(q)
  BY <1>8, <1>9 DEF All
<1>11. \A e \in All(r) : /\ e.sequence \in Nat /\ e.sequence < n.sequence
                         /\ e.revision \in Nat /\ e.revision < n.revision
  <2> TAKE e \in All(r)
  <2>1. CASE e \in Of(r)
    <3>1. e.sequence \in Nat /\ e.revision \in Nat /\ e.sequence <= sequence
      BY <2>1 DEF Of, ServerTypeOK, Event, NumbersWereTaken
    <3>2. e.revision \in 1..revision[r]
      BY <2>1 DEF Consecutive
    <3> QED
      BY <3>1, <3>2, <1>2 DEF ServerTypeOK
  <2>2. CASE \E u \in Transaction : e \in WrittenTo(u, r)
    <3>1. PICK u \in Transaction : e \in WrittenTo(u, r)
      BY <2>2
    <3>2. u = t
      BY <3>1, <1>1, RowsHaveOneWriter, FeedAssumption
    <3>3. e.sequence \in Nat /\ e.revision \in Nat /\ e.sequence <= sequence
      BY <3>1 DEF WrittenTo, ServerTypeOK, Event, NumbersWereTaken
    <3>4. e.revision \in (revision[r] + 1)..Seen(t, r)
      BY <3>1, <3>2 DEF Consecutive
    <3> QED
      BY <3>3, <3>4, <1>2 DEF ServerTypeOK
  <2> QED
    BY <2>1, <2>2 DEF All
<1>12. InOrder'
  <2> SUFFICES ASSUME NEW q \in Resource, NEW e \in All(q)', NEW f \in All(q)'
               PROVE e.sequence < f.sequence <=> e.revision < f.revision
    BY DEF InOrder
  <2>1. CASE q # r
    BY <2>1, <1>10 DEF InOrder
  <2>2. CASE q = r /\ e \in All(r) /\ f \in All(r)
    BY <2>2 DEF InOrder
  <2>3. CASE q = r /\ e = n /\ f \in All(r)
    BY <2>3, <1>11, <1>3 DEF Event
  <2>4. CASE q = r /\ f = n /\ e \in All(r)
    BY <2>4, <1>11
  <2>5. CASE e = n /\ f = n
    BY <2>5, <1>3 DEF Event
  <2> QED
    BY <2>1, <2>2, <2>3, <2>4, <2>5, <1>10
<1>13. Consecutive'
  <2> SUFFICES ASSUME NEW q \in Resource
               PROVE /\ {e.revision : e \in Of(q)'} = 1..revision'[q]
                     /\ \A u \in Transaction :
                          {e.revision : e \in WrittenTo(u, q)'}
                            = (revision'[q] + 1)..Seen(u, q)'
    BY DEF Consecutive
  <2>1. {e.revision : e \in Of(q)'} = 1..revision'[q]
    BY <1>1, <1>9 DEF Consecutive
  <2>2. ASSUME NEW u \in Transaction
        PROVE  {e.revision : e \in WrittenTo(u, q)'} = (revision'[q] + 1)..Seen(u, q)'
    <3>1. CASE ~(u = t /\ q = r)
      <4>1. WrittenTo(u, q)' = WrittenTo(u, q) /\ revision' = revision
        BY <3>1, <1>1, <1>8
      <4>2. Seen(u, q)' = Seen(u, q)
        BY <4>1 DEF Seen
      <4> QED
        BY <4>1, <4>2 DEF Consecutive
    <3>2. CASE u = t /\ q = r
      <4>1. WrittenTo(u, q)' = WrittenTo(t, r) \union {n} /\ revision' = revision
        BY <3>2, <1>1, <1>8
      <4>2. n \notin WrittenTo(t, r) /\ IsFiniteSet(WrittenTo(t, r))
        BY <1>5, RowsHaveOneWriter DEF WrittenTo
      <4>3. Cardinality(WrittenTo(t, r) \union {n}) = Cardinality(WrittenTo(t, r)) + 1
        BY <4>2, FS_AddElement
      <4>4. Cardinality(WrittenTo(t, r)) \in Nat /\ revision[r] \in Nat
        BY <4>2, FS_CardinalityType DEF ServerTypeOK
      <4>5. Seen(u, q)' = Seen(t, r) + 1
        BY <4>1, <4>3, <4>4, <3>2 DEF Seen
      <4>6. {e.revision : e \in WrittenTo(t, r)} = (revision[r] + 1)..Seen(t, r)
        BY DEF Consecutive
      <4>7. {e.revision : e \in WrittenTo(t, r) \union {n}}
              = {e.revision : e \in WrittenTo(t, r)} \union {Seen(t, r) + 1}
        <5>1. n.revision = Seen(t, r) + 1
          OBVIOUS
        <5> QED
          BY <5>1, Zenon
      <4>8. ((revision[r] + 1)..Seen(t, r)) \union {Seen(t, r) + 1}
              = (revision[r] + 1)..(Seen(t, r) + 1)
        BY <1>2, <4>4
      <4> QED
        BY <4>1, <4>5, <4>6, <4>7, <4>8, <3>2
    <3> QED
      BY <3>1, <3>2
  <2> QED
    BY <2>1, <2>2
<1> QED
  BY <1>4, <1>6, <1>7, <1>12, <1>13

\* A commit only moves the border between what is committed and what is not.
LEMMA CommitKeeps ==
    ASSUME FeedInv, NEW t \in Transaction, Commit(t)
    PROVE  FeedInv'
<1> USE DEF FeedInv
<1>1. /\ lock' = [r \in Resource |-> IF lock[r] = t THEN None ELSE lock[r]]
      /\ written' = [written EXCEPT ![t] = {}]
      /\ revision' = [r \in Resource |-> Seen(t, r)]
      /\ events' = events \union written[t]
      /\ sequence' = sequence
  BY DEF Commit, End
<1>2. \A u \in Transaction : written'[u] = IF u = t THEN {} ELSE written[u]
  BY <1>1 DEF ServerTypeOK
<1>3. \A u \in Transaction, r \in Resource :
         WrittenTo(u, r)' = IF u = t THEN {} ELSE WrittenTo(u, r)
  BY <1>2 DEF WrittenTo
<1>4. \A r \in Resource : Of(r)' = Of(r) \union WrittenTo(t, r)
  BY <1>1 DEF Of, WrittenTo
<1>5. \A r \in Resource : All(r)' = All(r)
  <2> TAKE r \in Resource
  <2>1. UNION {WrittenTo(u, r) : u \in Transaction}
          = WrittenTo(t, r) \union UNION {WrittenTo(u, r)' : u \in Transaction}
    BY <1>3
  <2> QED
    BY <2>1, <1>4 DEF All
<1>6. ServerTypeOK'
  <2>1. \A r \in Resource : Seen(t, r) \in Nat
    BY RowsHaveOneWriter
  <2> QED
    BY <1>1, <2>1 DEF ServerTypeOK
<1>7. WritesAreLocked'
  <2> SUFFICES ASSUME NEW u \in Transaction
               PROVE /\ IsFiniteSet(written'[u])
                     /\ \A e \in written'[u] : lock'[e.resource] = u
    BY DEF WritesAreLocked
  <2>1. CASE u = t
    BY <2>1, <1>2, FS_EmptySet
  <2>2. CASE u # t
    BY <2>2, <1>1, <1>2 DEF WritesAreLocked, ServerTypeOK, Event
  <2> QED
    BY <2>1, <2>2
<1>8. NumbersWereTaken'
  BY <1>1, <1>2 DEF NumbersWereTaken
<1>9. InOrder'
  BY <1>5 DEF InOrder
<1>10. Consecutive'
  <2> SUFFICES ASSUME NEW r \in Resource
               PROVE /\ {e.revision : e \in Of(r)'} = 1..revision'[r]
                     /\ \A u \in Transaction :
                          {e.revision : e \in WrittenTo(u, r)'}
                            = (revision'[r] + 1)..Seen(u, r)'
    BY DEF Consecutive
  <2>1. revision'[r] = Seen(t, r) /\ Seen(t, r) \in Nat
        /\ revision[r] \in Nat /\ Seen(t, r) >= revision[r]
    BY <1>1, RowsHaveOneWriter DEF ServerTypeOK
  <2>2. {e.revision : e \in Of(r)'} = 1..revision'[r]
    <3>1. {e.revision : e \in Of(r)'}
            = {e.revision : e \in Of(r)} \union {e.revision : e \in WrittenTo(t, r)}
      BY <1>4, Zenon
    <3>2. (1..revision[r]) \union ((revision[r] + 1)..Seen(t, r)) = 1..Seen(t, r)
      BY <2>1
    <3> QED
      BY <2>1, <3>1, <3>2 DEF Consecutive
  <2>3. ASSUME NEW u \in Transaction
        PROVE  {e.revision : e \in WrittenTo(u, r)'} = (revision'[r] + 1)..Seen(u, r)'
    <3>1. \/ WrittenTo(u, r)' = {}
          \/ lock[r] = u /\ u # t /\ WrittenTo(u, r)' = WrittenTo(u, r)
      BY <1>3, RowsHaveOneWriter
    <3>2. CASE WrittenTo(u, r)' = {}
      <4>1. Seen(u, r)' = revision'[r]
        BY <3>2, <2>1, FS_EmptySet DEF Seen
      <4>2. (revision'[r] + 1)..revision'[r] = {}
        BY <2>1
      <4> QED
        BY <3>2, <4>1, <4>2
    <3>3. CASE lock[r] = u /\ u # t /\ WrittenTo(u, r)' = WrittenTo(u, r)
      <4>1. revision'[r] = revision[r]
        BY <3>3, <2>1, RowsHaveOneWriter
      <4>2. Seen(u, r)' = Seen(u, r)
        BY <3>3, <4>1 DEF Seen
      <4> QED
        BY <3>3, <4>1, <4>2 DEF Consecutive
    <3> QED
      BY <3>1, <3>2, <3>3
  <2> QED
    BY <2>2, <2>3
<1> QED
  BY <1>6, <1>7, <1>8, <1>9, <1>10

\* A rolled back transaction leaves a hole in the numbers, none in the revisions.
LEMMA RollBackKeeps ==
    ASSUME FeedInv, NEW t \in Transaction, RollBack(t)
    PROVE  FeedInv'
<1> USE DEF FeedInv
<1>1. /\ lock' = [r \in Resource |-> IF lock[r] = t THEN None ELSE lock[r]]
      /\ written' = [written EXCEPT ![t] = {}]
      /\ revision' = revision /\ events' = events /\ sequence' = sequence
  BY DEF RollBack, End
<1>2. \A u \in Transaction : written'[u] = IF u = t THEN {} ELSE written[u]
  BY <1>1 DEF ServerTypeOK
<1>3. \A u \in Transaction, r \in Resource :
         WrittenTo(u, r)' = IF u = t THEN {} ELSE WrittenTo(u, r)
  BY <1>2 DEF WrittenTo
<1>4. \A r \in Resource : Of(r)' = Of(r)
  BY <1>1 DEF Of
<1>5. \A r \in Resource : All(r)' \subseteq All(r)
  BY <1>3, <1>4 DEF All
<1>6. ServerTypeOK'
  BY <1>1 DEF ServerTypeOK
<1>7. WritesAreLocked'
  <2> SUFFICES ASSUME NEW u \in Transaction
               PROVE /\ IsFiniteSet(written'[u])
                     /\ \A e \in written'[u] : lock'[e.resource] = u
    BY DEF WritesAreLocked
  <2>1. CASE u = t
    BY <2>1, <1>2, FS_EmptySet
  <2>2. CASE u # t
    BY <2>2, <1>1, <1>2 DEF WritesAreLocked, ServerTypeOK, Event
  <2> QED
    BY <2>1, <2>2
<1>8. NumbersWereTaken'
  BY <1>1, <1>2 DEF NumbersWereTaken
<1>9. InOrder'
  BY <1>5 DEF InOrder
<1>10. Consecutive'
  <2> SUFFICES ASSUME NEW r \in Resource, NEW u \in Transaction
               PROVE {e.revision : e \in WrittenTo(u, r)'}
                        = (revision'[r] + 1)..Seen(u, r)'
    BY <1>1, <1>4 DEF Consecutive
  <2>1. CASE u = t
    <3>1. WrittenTo(u, r)' = {} /\ revision'[r] = revision[r] /\ revision[r] \in Nat
      BY <2>1, <1>1, <1>3 DEF ServerTypeOK
    <3>2. Seen(u, r)' = revision'[r]
      BY <3>1, FS_EmptySet DEF Seen
    <3>3. (revision'[r] + 1)..revision'[r] = {}
      BY <3>1
    <3> QED
      BY <3>1, <3>2, <3>3
  <2>2. CASE u # t
    <3>1. WrittenTo(u, r)' = WrittenTo(u, r)
      BY <2>2, <1>3
    <3>2. Seen(u, r)' = Seen(u, r)
      BY <3>1, <1>1 DEF Seen
    <3> QED
      BY <3>1, <3>2, <1>1 DEF Consecutive
  <2> QED
    BY <2>1, <2>2
<1> QED
  BY <1>6, <1>7, <1>8, <1>9, <1>10

\* Devices only read.
LEMMA ReadsKeep ==
    ASSUME FeedInv, UNCHANGED serverVars
    PROVE  FeedInv'
<1>1. \A r \in Resource : Of(r)' = Of(r)
  BY DEF Of, serverVars
<1>2. \A t \in Transaction, r \in Resource :
        WrittenTo(t, r)' = WrittenTo(t, r) /\ Seen(t, r)' = Seen(t, r)
  BY DEF WrittenTo, Seen, serverVars
<1>3. \A r \in Resource : All(r)' = All(r)
  BY <1>1, <1>2 DEF All
<1>4. ServerTypeOK' /\ WritesAreLocked' /\ NumbersWereTaken'
  BY DEF FeedInv, ServerTypeOK, WritesAreLocked, NumbersWereTaken, serverVars
<1>5. InOrder'
  BY <1>3 DEF FeedInv, InOrder
<1>6. Consecutive'
  BY <1>1, <1>2 DEF FeedInv, Consecutive, serverVars
<1> QED
  BY <1>4, <1>5, <1>6 DEF FeedInv

-----------------------------------------------------------------------------

\* The feed and the uncommitted events together stay in order under every step.
THEOREM FeedKeepsOrder == Spec => []FeedInv
<1>1. Init => FeedInv
  BY FeedInit
<1>2. FeedInv /\ [Next]_vars => FeedInv'
  <2> SUFFICES ASSUME FeedInv, [Next]_vars
               PROVE FeedInv'
    OBVIOUS
  <2>1. ASSUME NEW t \in Transaction, NEW r \in Resource, Write(t, r)
        PROVE FeedInv'
    BY <2>1, WriteKeeps
  <2>2. ASSUME NEW t \in Transaction, Commit(t)
        PROVE FeedInv'
    BY <2>2, CommitKeeps
  <2>3. ASSUME NEW t \in Transaction, RollBack(t)
        PROVE FeedInv'
    BY <2>3, RollBackKeeps
  <2>4. ASSUME NEW d \in Device, ListChanges(d)
        PROVE FeedInv'
    BY <2>4, ReadsKeep DEF ListChanges
  <2>5. ASSUME NEW d \in Device, Bootstrap(d)
        PROVE FeedInv'
    BY <2>5, ReadsKeep DEF Bootstrap
  <2>6. ASSUME NEW d \in Device, NEW r \in Resource, ReadInventory(d, r)
        PROVE FeedInv'
    BY <2>6, ReadsKeep DEF ReadInventory
  <2>7. CASE UNCHANGED vars
    BY <2>7, ReadsKeep DEF vars, serverVars
  <2> QED
    BY <2>1, <2>2, <2>3, <2>4, <2>5, <2>6, <2>7 DEF Next
<1> QED
  BY <1>1, <1>2, PTL DEF Spec

\* The committed feed tells every revision of every resource once and in order
\* (what the apply service of a device demands of it).
THEOREM FeedTellsRevisionsInOrder == Spec => []RevisionsInOrder
<1>1. FeedInv => RevisionsInOrder
  BY DEF FeedInv, InOrder, Consecutive, All, RevisionsInOrder
<1> QED
  BY <1>1, FeedKeepsOrder, PTL

-----------------------------------------------------------------------------
(* What the devices keep.                                                  *)

\* A bounded set of numbers has a largest.
LEMMA MaxIsLargest ==
    ASSUME NEW S \in SUBSET Nat, S # {}, NEW b \in Nat, \A x \in S : x <= b
    PROVE  /\ Max(S) \in S /\ \A y \in S : y <= Max(S)
           /\ Max(S) \in 0..b
<1> DEFINE above(n) == {m \in S : m >= n}
           T == {above(n) : n \in S}
<1>1. IsWellFoundedOn(StrictSubsetOrdering(S), SUBSET S)
  BY FS_BoundedSetOfNaturals, FS_StrictSubsetOrderingWellFounded, FS_FiniteSubsetsOfFinite
<1>2. T \subseteq SUBSET S /\ T # {}
  OBVIOUS
<1> HIDE DEF T
<1>3. PICK X \in T : \A Y \in T : <<Y, X>> \notin StrictSubsetOrdering(S)
  BY <1>1, <1>2, WFMin
<1>4. PICK n \in S : X = above(n)
  BY DEF T
<1>5. ASSUME NEW m \in S, ~(n >= m)
      PROVE  FALSE
  <2>1. above(m) \in T
    BY DEF T
  <2>2. above(m) \subseteq above(n)
    <3> SUFFICES ASSUME NEW k \in S, k >= m PROVE k >= n
      OBVIOUS
    <3>1. k \in Nat /\ m \in Nat /\ n \in Nat
      OBVIOUS
    <3> QED
      BY <1>5, <3>1
  <2>3. n \in above(n) /\ n \notin above(m)
    BY <1>5
  <2> QED
    BY <1>3, <1>4, <2>1, <2>2, <2>3 DEF StrictSubsetOrdering
<1>6. Max(S) \in S /\ \A y \in S : Max(S) >= y
  BY <1>5 DEF Max
<1>7. Max(S) \in Nat /\ Max(S) <= b
  BY <1>6
<1> QED
  BY <1>6, <1>7

\* What is listed was committed, and the numbers of a page are taken ones.
LEMMA PageIsCommitted ==
    ASSUME FeedInv, NEW n
    PROVE  /\ FirstPage(n) \subseteq events
           /\ \A e \in events : /\ e.sequence \in Nat /\ e.sequence <= sequence
                                /\ e.revision \in Nat
                                /\ e.resource \in Resource
                                /\ e.revision <= revision[e.resource]
<1>1. FirstPage(n) \subseteq events
  BY DEF FirstPage, After
<1>2. ASSUME NEW e \in events
      PROVE  /\ e.sequence \in Nat /\ e.sequence <= sequence /\ e.revision \in Nat
             /\ e.resource \in Resource
             /\ e.revision <= revision[e.resource]
  <2>1. e \in Event
    BY DEF FeedInv, ServerTypeOK
  <2>2. e.sequence \in Nat /\ e.revision \in Nat /\ e.resource \in Resource
    BY <2>1 DEF Event
  <2>3. e.revision \in {f.revision : f \in Of(e.resource)}
    BY DEF Of
  <2>4. e.revision \in 1..revision[e.resource] /\ revision[e.resource] \in Nat
    BY <2>2, <2>3 DEF FeedInv, Consecutive, ServerTypeOK
  <2> QED
    BY <2>2, <2>4 DEF FeedInv, NumbersWereTaken
<1> QED
  BY <1>1, <1>2

\* A device never goes back in what it has received, and never behind a page.
LEMMA ReceivedIsLatest ==
    ASSUME FeedInv, copy \in [Device -> [Resource -> Nat]], NEW d \in Device,
           NEW page \in SUBSET events
    PROVE  /\ Received(d, page) \in [Resource -> Nat]
           /\ \A r \in Resource : copy[d][r] <= Received(d, page)[r]
           /\ \A e \in page : e.revision <= Received(d, page)[e.resource]
<1>1. ASSUME NEW r \in Resource
      PROVE  /\ Received(d, page)[r] \in Nat
             /\ copy[d][r] <= Received(d, page)[r]
             /\ \A e \in page : e.resource = r => e.revision <= Received(d, page)[r]
  <2> DEFINE S == {copy[d][r]} \union {e.revision : e \in {f \in page : f.resource = r}}
             b == copy[d][r] + revision[r]
  <2>1. copy[d][r] \in Nat /\ revision[r] \in Nat
    BY DEF FeedInv, ServerTypeOK
  <2>2. \A e \in page : /\ e.revision \in Nat
                        /\ e.resource = r => e.revision <= revision[r]
    BY PageIsCommitted
  <2>3. S \in SUBSET Nat /\ S # {} /\ b \in Nat /\ \A x \in S : x <= b
    BY <2>1, <2>2
  <2>4. Received(d, page)[r] = Max(S)
    BY DEF Received
  <2>5. \A e \in page : e.resource = r => e.revision \in S
    OBVIOUS
  <2> HIDE DEF S, b
  <2>6. Max(S) \in S /\ \A y \in S : y <= Max(S)
    BY <2>3, MaxIsLargest
  <2> QED
    BY <2>3, <2>4, <2>5, <2>6 DEF S
<1>2. Received(d, page) \in [Resource -> Nat]
  BY <1>1 DEF Received
<1>3. \A e \in page : e.resource \in Resource
  BY PageIsCommitted
<1> QED
  BY <1>1, <1>2, <1>3

\* The last number visible is one that was taken.
LEMMA LatestIsTaken ==
    ASSUME FeedInv
    PROVE  /\ LatestSequence \in 0..sequence
           /\ \A e \in events : e.sequence <= LatestSequence
<1> DEFINE S == {0} \union {e.sequence : e \in events}
<1>1. S \in SUBSET Nat /\ S # {} /\ sequence \in Nat /\ \A x \in S : x <= sequence
  BY PageIsCommitted DEF FeedInv, ServerTypeOK
<1>2. \A e \in events : e.sequence \in S
  OBVIOUS
<1> HIDE DEF S
<1>3. /\ Max(S) \in S /\ \A y \in S : y <= Max(S)
      /\ Max(S) \in 0..sequence
  BY <1>1, MaxIsLargest
<1>4. LatestSequence = Max(S)
  BY DEF LatestSequence, S
<1> QED
  BY <1>2, <1>3, <1>4

\* The last event of a page has a number that was taken, beyond the cursor.
LEMMA PageEnds ==
    ASSUME FeedInv, NEW n \in Nat, FirstPage(n) # {}
    PROVE  LET last == Max({e.sequence : e \in FirstPage(n)})
           IN  /\ last \in 0..sequence
               /\ \E e \in FirstPage(n) : e.sequence = last
               /\ \A e \in FirstPage(n) : e.sequence <= last
<1> DEFINE S == {e.sequence : e \in FirstPage(n)}
<1>1. S \in SUBSET Nat /\ S # {} /\ sequence \in Nat /\ \A x \in S : x <= sequence
  BY PageIsCommitted DEF FeedInv, ServerTypeOK
<1>2. \A e \in FirstPage(n) : e.sequence \in S
  OBVIOUS
<1>3. \A x \in S : \E e \in FirstPage(n) : e.sequence = x
  OBVIOUS
<1> HIDE DEF S
<1>4. /\ Max(S) \in S /\ \A y \in S : y <= Max(S)
      /\ Max(S) \in 0..sequence
  BY <1>1, MaxIsLargest
<1> SUFFICES /\ Max(S) \in 0..sequence
             /\ \E e \in FirstPage(n) : e.sequence = Max(S)
             /\ \A e \in FirstPage(n) : e.sequence <= Max(S)
  BY DEF S
<1> QED
  BY <1>2, <1>3, <1>4

DeviceTypeOK ==
    /\ cursor \in [Device -> 0..sequence] /\ base \in [Device -> 0..sequence]
    /\ copy \in [Device -> [Resource -> Nat]]
    /\ unread \in [Device -> SUBSET Resource]

\* Only finitely many events are committed, so that a page ends somewhere.
ReadsInv == FeedInv /\ DeviceTypeOK /\ IsFiniteSet(events)

LEMMA StepKeepsReads == ReadsInv /\ FeedInv' /\ [Next]_vars => ReadsInv'
<1> SUFFICES ASSUME ReadsInv, FeedInv', [Next]_vars PROVE ReadsInv'
  OBVIOUS
<1> USE DEF ReadsInv, DeviceTypeOK
<1>1. sequence \in Nat
  BY DEF FeedInv, ServerTypeOK
<1>2. ASSUME NEW t \in Transaction, NEW r \in Resource, Write(t, r)
      PROVE  ReadsInv'
  <2>1. sequence' = sequence + 1 /\ events' = events /\ UNCHANGED deviceVars
    BY <1>2 DEF Write, InsertEvent
  <2>2. 0..sequence \subseteq 0..sequence'
    BY <1>1, <2>1
  <2> QED
    BY <2>1, <2>2 DEF deviceVars
<1>3. ASSUME NEW t \in Transaction, Commit(t) \/ RollBack(t)
      PROVE  ReadsInv'
  <2>1. sequence' = sequence /\ UNCHANGED deviceVars
        /\ (events' = events \/ events' = events \union written[t])
    BY <1>3 DEF Commit, RollBack
  <2>2. IsFiniteSet(written[t])
    BY DEF FeedInv, WritesAreLocked
  <2>3. IsFiniteSet(events')
    BY <2>1, <2>2, FS_Union
  <2> QED
    BY <2>1, <2>3 DEF deviceVars
<1>4. ASSUME NEW d \in Device, ListChanges(d)
      PROVE  ReadsInv'
  <2> DEFINE page == FirstPage(cursor[d])
             last == Max({e.sequence : e \in page})
  <2>1. page # {} /\ page \in SUBSET events /\ cursor[d] \in Nat
    BY <1>1, <1>4, PageIsCommitted DEF ListChanges
  <2>2. last \in 0..sequence /\ Received(d, page) \in [Resource -> Nat]
    BY <2>1, PageEnds, ReceivedIsLatest
  <2>3. /\ copy' = [copy EXCEPT ![d] = Received(d, page)]
        /\ cursor' = [cursor EXCEPT ![d] = last]
        /\ UNCHANGED <<serverVars, base, unread>>
    BY <1>4 DEF ListChanges
  <2> HIDE DEF page, last
  <2> QED
    BY <2>2, <2>3 DEF serverVars
<1>5. ASSUME NEW d \in Device, Bootstrap(d)
      PROVE  ReadsInv'
  <2>1. LatestSequence \in 0..sequence
    BY LatestIsTaken
  <2> QED
    BY <1>5, <2>1 DEF Bootstrap, serverVars
<1>6. ASSUME NEW d \in Device, NEW r \in Resource, ReadInventory(d, r)
      PROVE  ReadsInv'
  <2>1. revision[r] \in Nat
    BY DEF FeedInv, ServerTypeOK
  <2>2. [copy[d] EXCEPT ![r] = revision[r]] \in [Resource -> Nat]
    BY <2>1
  <2>3. copy' = [copy EXCEPT ![d] = [copy[d] EXCEPT ![r] = revision[r]]]
    BY <1>6 DEF ReadInventory
  <2> QED
    BY <1>6, <2>2, <2>3 DEF ReadInventory, serverVars
<1>7. CASE UNCHANGED vars
  BY <1>7 DEF vars
<1> QED
  BY <1>2, <1>3, <1>4, <1>5, <1>6, <1>7 DEF Next

LEMMA ReadsInvariant == Spec => []ReadsInv
<1>1. Init => ReadsInv
  BY FeedInit, FS_EmptySet DEF Init, ReadsInv, DeviceTypeOK
<1> QED
  BY <1>1, StepKeepsReads, FeedKeepsOrder, PTL DEF Spec

\* Rows, events and cursors stay well-formed: a cursor is the number of an event
\* that was taken, also where it is the last of a page or of all.
THEOREM FeedTypes == Spec => []TypeOK
<1>1. ReadsInv => TypeOK
  BY DEF ReadsInv, DeviceTypeOK, FeedInv, ServerTypeOK, TypeOK
<1> QED
  BY <1>1, ReadsInvariant, PTL

-----------------------------------------------------------------------------
(* What a device reads.                                                    *)

\* A page has every event up to its last.
LEMMA PageHasNoGap ==
    ASSUME ReadsInv, NEW n \in Nat, NEW f \in FirstPage(n), NEW e \in After(n),
           e.sequence <= f.sequence
    PROVE  e \in FirstPage(n)
<1> DEFINE upto(g) == {h \in After(n) : h.sequence <= g.sequence}
<1>1. IsFiniteSet(upto(f)) /\ f \in After(n)
  <2>1. upto(f) \subseteq events
    BY DEF After
  <2> QED
    BY <2>1, FS_Subset DEF ReadsInv, FirstPage
<1>2. upto(e) \subseteq upto(f)
  <2> SUFFICES ASSUME NEW h \in After(n), h.sequence <= e.sequence
               PROVE  h.sequence <= f.sequence
    OBVIOUS
  <2>1. h \in events /\ e \in events /\ f \in events
    BY <1>1 DEF After
  <2>2. h.sequence \in Nat /\ e.sequence \in Nat /\ f.sequence \in Nat
    BY <2>1, PageIsCommitted DEF ReadsInv
  <2> QED
    BY <2>2
<1>3. Cardinality(upto(e)) <= Cardinality(upto(f))
  BY <1>1, <1>2, FS_Subset
<1>4. Cardinality(upto(e)) \in Nat /\ Cardinality(upto(f)) \in Nat
  BY <1>1, <1>2, FS_Subset, FS_CardinalityType
<1>5. Cardinality(upto(f)) <= PageSize
  BY DEF FirstPage
<1>6. Cardinality(upto(e)) <= PageSize
  BY <1>3, <1>4, <1>5, FeedAssumption
<1> QED
  BY <1>6 DEF FirstPage

\* What one device reads is not missed by it, and concerns no other.
LEMMA ListChangesMissesNothing ==
    ASSUME ReadsInv, NEW d \in Device, ListChanges(d), NEW b \in Device
    PROVE  Missed(b, cursor[b])' \subseteq Missed(b, cursor[b])
<1> USE DEF ReadsInv, DeviceTypeOK
<1> DEFINE page == FirstPage(cursor[d])
           last == Max({e.sequence : e \in page})
<1>1. /\ page # {} /\ page \in SUBSET events /\ cursor[d] \in Nat
      /\ unread[d] = {}
  <2>1. sequence \in Nat
    BY DEF FeedInv, ServerTypeOK
  <2> QED
    BY <2>1, PageIsCommitted DEF ListChanges
<1>2. /\ Received(d, page) \in [Resource -> Nat]
      /\ \A r \in Resource : copy[d][r] <= Received(d, page)[r]
      /\ \A e \in page : e.revision <= Received(d, page)[e.resource]
  BY <1>1, ReceivedIsLatest
<1>3. \E f \in page : f.sequence = last
  BY <1>1, PageEnds
<1>4. /\ copy' = [copy EXCEPT ![d] = Received(d, page)]
      /\ cursor' = [cursor EXCEPT ![d] = last]
      /\ unread' = unread /\ events' = events
  BY DEF ListChanges, serverVars
<1>5. CASE b # d
  <2>1. copy'[b] = copy[b] /\ cursor'[b] = cursor[b] /\ unread'[b] = unread[b]
    BY <1>4, <1>5
  <2> QED
    BY <1>4, <2>1 DEF Missed
<1>6. CASE b = d
  <2> SUFFICES ASSUME NEW e \in events, e.sequence <= last,
                      e.revision > Received(d, page)[e.resource]
               PROVE  e.sequence <= cursor[d] /\ e.revision > copy[d][e.resource]
    <3>1. copy'[d] = Received(d, page) /\ cursor'[d] = last /\ unread'[d] = {}
      BY <1>1, <1>4
    <3> HIDE DEF page, last
    <3> QED
      BY <1>1, <1>4, <1>6, <3>1 DEF Missed
  <2>1. /\ e.sequence \in Nat /\ e.revision \in Nat /\ e.resource \in Resource
    BY PageIsCommitted
  <2>2. copy[d][e.resource] \in Nat /\ Received(d, page)[e.resource] \in Nat
        /\ copy[d][e.resource] <= Received(d, page)[e.resource]
    BY <1>2, <2>1
  <2>3. e \notin page
    <3>1. e \in page => e.revision <= Received(d, page)[e.resource]
      BY <1>2
    <3> QED
      BY <2>1, <2>2, <3>1
  <2>4. e \notin After(cursor[d])
    BY <1>1, <1>3, <2>3, PageHasNoGap
  <2> QED
    BY <1>1, <2>1, <2>2, <2>4 DEF After
<1> QED
  BY <1>5, <1>6

\* A device never passes over an event that it could see: neither where a page
\* ends nor between the cursor and the inventory of a bootstrap.
THEOREM FeedReadsMissNothing == Spec => ReadsMissNothing
<1>1. ReadsInv /\ [Next]_vars =>
        [events' = events => \A d \in Device :
            Missed(d, cursor[d])' \subseteq Missed(d, cursor[d])]_vars
  <2> SUFFICES ASSUME ReadsInv, [Next]_vars, events' = events, NEW b \in Device
               PROVE  Missed(b, cursor[b])' \subseteq Missed(b, cursor[b])
    OBVIOUS
  <2> USE DEF ReadsInv, DeviceTypeOK
  <2>1. ASSUME NEW d \in Device, ListChanges(d)
        PROVE  Missed(b, cursor[b])' \subseteq Missed(b, cursor[b])
    BY <2>1, ListChangesMissesNothing
  <2>2. ASSUME NEW d \in Device, Bootstrap(d)
        PROVE  Missed(b, cursor[b])' \subseteq Missed(b, cursor[b])
    <3>1. CASE b # d
      BY <2>2, <3>1 DEF Bootstrap, serverVars, Missed
    <3>2. CASE b = d
      <4>1. unread'[d] = Resource
        BY <2>2 DEF Bootstrap
      <4>2. Missed(b, cursor[b])' = {}
        BY <3>2, <4>1, PageIsCommitted DEF Missed
      <4> QED
        BY <4>2
    <3> QED
      BY <3>1, <3>2
  <2>3. ASSUME NEW d \in Device, NEW r \in Resource, ReadInventory(d, r)
        PROVE  Missed(b, cursor[b])' \subseteq Missed(b, cursor[b])
    <3>1. copy' = [copy EXCEPT ![d] = [copy[d] EXCEPT ![r] = revision[r]]]
          /\ unread' = [unread EXCEPT ![d] = @ \ {r}] /\ cursor' = cursor
      BY <2>3 DEF ReadInventory
    <3>2. \A e \in events : e.revision \in Nat /\ e.resource \in Resource
                            /\ e.revision <= revision[e.resource]
      BY PageIsCommitted
    <3>3. CASE b # d
      BY <3>1, <3>3 DEF Missed
    <3>4. CASE b = d
      <4> SUFFICES ASSUME NEW e \in events, e.sequence <= cursor[d],
                          e.revision > copy'[d][e.resource],
                          e.resource \notin unread'[d]
                   PROVE  e.revision > copy[d][e.resource] /\ e.resource \notin unread[d]
        BY <3>1, <3>4 DEF Missed
      <4>1. e.resource # r
        <5>1. copy'[d][r] = revision[r] /\ revision[r] \in Nat
          BY <3>1 DEF FeedInv, ServerTypeOK
        <5> QED
          BY <3>2, <5>1
      <4> QED
        BY <3>1, <3>2, <4>1
    <3> QED
      BY <3>3, <3>4
  <2>4. ASSUME UNCHANGED deviceVars
        PROVE  Missed(b, cursor[b])' \subseteq Missed(b, cursor[b])
    BY <2>4 DEF deviceVars, Missed
  <2>5. CASE \/ \E t \in Transaction :
                   (\E r \in Resource : Write(t, r)) \/ Commit(t) \/ RollBack(t)
             \/ UNCHANGED vars
    <3>1. UNCHANGED deviceVars
      BY <2>5 DEF Write, Commit, RollBack, vars, deviceVars
    <3> QED
      BY <2>4, <3>1
  <2> QED
    BY <2>1, <2>2, <2>3, <2>5 DEF Next
<1> QED
  BY <1>1, ReadsInvariant, PTL DEF Spec, ReadsMissNothing

=============================================================================
