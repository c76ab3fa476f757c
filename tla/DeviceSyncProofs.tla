-------------------------- MODULE DeviceSyncProofs --------------------------
(***************************************************************************)
(* Theorems about DeviceSync, for every number of devices, pages and edits *)
(* and every scenario.                                                     *)
(***************************************************************************)
EXTENDS DeviceSync, FiniteSetTheorems, SequenceTheorems, WellFoundedInduction, TLAPS

-----------------------------------------------------------------------------
(* Finite sets: their largest number, their elements in a row.             *)

\* A finite set of numbers that is not empty has a largest.
LEMMA MaxIsLargest ==
    ASSUME NEW S \in SUBSET Nat, S # {}, IsFiniteSet(S)
    PROVE  Max(S) \in S /\ \A y \in S : Max(S) >= y
<1> DEFINE above(n) == {m \in S : m >= n}
           T == {above(n) : n \in S}
<1>1. IsWellFoundedOn(StrictSubsetOrdering(S), SUBSET S)
  BY FS_StrictSubsetOrderingWellFounded, FS_FiniteSubsetsOfFinite
<1>2. T \subseteq SUBSET S /\ T # {}
  OBVIOUS
<1> HIDE DEF T
<1>3. PICK X \in T : \A Y \in T : <<Y, X>> \notin StrictSubsetOrdering(S)
  BY <1>1, <1>2, WFMin
<1>4. PICK n \in S : X = above(n)
  BY DEF T
<1>5. ASSUME NEW m \in S, ~(n >= m)
      PROVE  FALSE
  <2>1. above(m) \in T
    BY DEF T
  <2>2. above(m) \subseteq above(n)
    <3> SUFFICES ASSUME NEW k \in S, k >= m PROVE k >= n
      OBVIOUS
    <3>1. k \in Nat /\ m \in Nat /\ n \in Nat
      OBVIOUS
    <3> QED
      BY <1>5, <3>1
  <2>3. n \in above(n) /\ n \notin above(m)
    BY <1>5
  <2> QED
    BY <1>3, <1>4, <2>1, <2>2, <2>3 DEF StrictSubsetOrdering
<1> QED
  BY <1>5 DEF Max

\* The elements of a finite set make a sequence.
LEMMA SetToSeqIsSeq ==
    ASSUME NEW S, IsFiniteSet(S)
    PROVE  SetToSeq(S) \in Seq(S)
<1>1. Cardinality(S) \in Nat /\ ExistsBijection(1..Cardinality(S), S)
  BY FS_CardinalityType
<1>2. \E f \in [1..Cardinality(S) -> S] : IsInjective(f)
  BY <1>1 DEF ExistsBijection, Bijection, Injection
<1>3. SetToSeq(S) \in [1..Cardinality(S) -> S]
  BY <1>2 DEF SetToSeq
<1> QED
  BY <1>1, <1>3, SeqDef

\* The keys of the stored responses are finitely many.
LEMMA KeysFinite ==
    ASSUME NEW R \in SUBSET Response, IsFiniteSet(R)
    PROVE  IsFiniteSet({x.key : x \in R}) /\ {x.key : x \in R} \subseteq Nat
<1> DEFINE K == {x.key : x \in R}
           f == [x \in R |-> x.key]
<1>1. f \in Surjection(R, K)
  BY DEF Surjection
<1>2. IsFiniteSet(K)
  BY <1>1, FS_Surjection
<1>3. K \subseteq Nat
  BY DEF Response
<1> QED
  BY <1>2, <1>3

\* A batch gets a key that no batch of the device had.
LEMMA KeyIsFresh ==
    ASSUME NEW d \in Device, answered[d] \in SUBSET Response,
           IsFiniteSet(answered[d]), wire[d].key \in Nat
    PROVE  /\ FreshKey(d) \in Nat /\ FreshKey(d) > wire[d].key
           /\ \A x \in answered[d] : FreshKey(d) > x.key
<1> DEFINE K == {wire[d].key} \union {x.key : x \in answered[d]}
           T == {x.key : x \in answered[d]}
<1>1. IsFiniteSet(K) /\ K \subseteq Nat /\ K # {}
  <2>1. IsFiniteSet(T) /\ T \subseteq Nat
    BY KeysFinite
  <2>2. K = T \union {wire[d].key}
    OBVIOUS
  <2> HIDE DEF K, T
  <2> QED
    BY <2>1, <2>2, FS_AddElement
<1>2. wire[d].key \in K /\ \A x \in answered[d] : x.key \in K
  OBVIOUS
<1>3. FreshKey(d) = 1 + Max(K)
  BY DEF FreshKey
<1> HIDE DEF K
<1>4. Max(K) \in Nat /\ \A y \in K : y \in Nat /\ Max(K) >= y
  BY <1>1, MaxIsLargest
<1> QED
  BY <1>2, <1>3, <1>4

\* What a device adds to the change feed.
LEMMA EventsAreASequence ==
    ASSUME NEW S \in SUBSET Page, NEW f \in [Page -> Nat]
    PROVE  SetToSeq({<<p, f[p]>> : p \in S}) \in Seq({<<p, f[p]>> : p \in S})
<1> DEFINE E == {<<p, f[p]>> : p \in S}
           g == [p \in S |-> <<p, f[p]>>]
<1>1. IsFiniteSet(S)
  BY DeviceAssumption, FS_Subset
<1>2. g \in Surjection(S, E)
  BY DEF Surjection
<1>3. IsFiniteSet(E)
  BY <1>1, <1>2, FS_Surjection
<1> QED
  BY <1>3, SetToSeqIsSeq

\* What is queued when the content of every page is queued once more.
LEMMA SavesAreASequence ==
    ASSUME NEW f \in [Page -> Edit]
    PROVE  SetToSeq({[page |-> p, edit |-> f[p]] : p \in Page})
             \in Seq({[page |-> p, edit |-> f[p]] : p \in Page})
<1> DEFINE E == {[page |-> p, edit |-> f[p]] : p \in Page}
           g == [p \in Page |-> [page |-> p, edit |-> f[p]]]
<1>1. g \in Surjection(Page, E)
  BY DEF Surjection
<1>2. IsFiniteSet(E)
  BY <1>1, DeviceAssumption, FS_Surjection
<1> QED
  BY <1>2, SetToSeqIsSeq

-----------------------------------------------------------------------------
(* What the variables hold.                                                *)

CloudTypes ==
    /\ versions \in [Page -> Seq(Edit)] /\ \A p \in Page : versions[p] # <<>>
    /\ own \in [Device -> [Page -> Nat]]
    /\ kept \in [Page -> SUBSET Edit]
    /\ feed \in Seq(Page \X Nat)
    /\ answered \in [Device -> SUBSET Response]
    /\ \A d \in Device : IsFiniteSet(answered[d])

FileTypes ==
    /\ local \in [Device -> [Page -> Edit]]
    /\ mapping \in [Device -> [Page -> Nat]]
    /\ file \in [Device -> File]

EditorTypes ==
    /\ editor \in [Device -> [page: Page \union {None}, edit: Edit]]
    /\ \A d \in Device : editor[d] # Closed => editor[d].page \in Page
    /\ queue \in [Device -> Seq([page: Page, edit: Edit])]
    /\ tracker \in [Device -> [base: Nat, file: File \union {None}]]

CycleTypes ==
    /\ cycle \in [Device -> [stage: Stages, pull: BOOLEAN, again: BOOLEAN]]
    /\ held \in [Device -> File \union {None}]
    /\ fetched \in [Device -> [response: Response, from: Nat, upto: Nat,
                               snapshot: [Page -> Nat]]]
    /\ wire \in [Device -> Batch]
    /\ added \in [Device -> [made: Nat, sent: Nat]]

BookTypes ==
    /\ lineage \in [Edit -> SUBSET Edit]
    /\ edits \in Edit
    /\ budget \in Budget

\* No cursor is ahead of the feed, of those in the files, those in memory and
\* the one the cycle is moving to.
CursorsReal == \A d \in Device :
    /\ file[d].cursor <= Len(feed)
    /\ fetched[d].upto <= Len(feed)
    /\ tracker[d].file # None => tracker[d].file.cursor <= Len(feed)
    /\ held[d] # None => held[d].cursor <= Len(feed)

\* A bootstrap that is about to be applied tells revisions that exist.
SnapshotsReal == \A d \in Device : Stage(d) = "apply" =>
    \A p \in Page : fetched[d].snapshot[p] \in 1..Len(versions[p])

TypesInv ==
    /\ CloudTypes /\ FileTypes /\ EditorTypes /\ CycleTypes /\ BookTypes
    /\ CursorsReal /\ SnapshotsReal

LEMMA TypesInvGivesTypeOK == TypesInv => TypeOK
  BY DEF TypesInv, CloudTypes, FileTypes, EditorTypes, CycleTypes, BookTypes,
         CursorsReal, TypeOK

LEMMA ConstantTypes ==
    /\ NoOp \in Op /\ NoOps \in Ops /\ NoBatch \in Batch
    /\ NoResponse \in Response
    /\ NothingFetched \in [response: Response, from: Nat, upto: Nat,
                           snapshot: [Page -> Nat]]
    /\ NotRead \in [base: Nat, file: File \union {None}]
    /\ Closed \in [page: Page \union {None}, edit: Edit]
    /\ Idle \in [stage: Stages, pull: BOOLEAN, again: BOOLEAN]
    /\ 0 \in Edit
<1>1. 0 \in Edit
  BY DeviceAssumption DEF Edit
<1>2. NoOp \in Op
  BY <1>1 DEF NoOp, Op
<1>3. NoOps \in Ops
  BY <1>2 DEF NoOps, Ops
<1>4. NoBatch \in Batch
  BY <1>3 DEF NoBatch, Batch
<1>5. NoResponse \in Response
  BY DEF NoResponse, Response, Result
<1>6. NothingFetched \in [response: Response, from: Nat, upto: Nat,
                          snapshot: [Page -> Nat]]
  BY <1>5 DEF NothingFetched
<1>7. NotRead \in [base: Nat, file: File \union {None}]
  BY DEF NotRead
<1>8. Closed \in [page: Page \union {None}, edit: Edit]
  BY <1>1 DEF Closed
<1>9. Idle \in [stage: Stages, pull: BOOLEAN, again: BOOLEAN]
  BY DEF Idle, Stages
<1> QED
  BY <1>1, <1>2, <1>3, <1>4, <1>5, <1>6, <1>7, <1>8, <1>9

LEMMA InitTypes == Init => TypesInv
<1> SUFFICES ASSUME Init PROVE TypesInv
  OBVIOUS
<1>1. CloudTypes
  <2>1. <<0>> \in Seq(Edit) /\ <<0>> # <<>> /\ <<>> \in Seq(Page \X Nat)
    BY ConstantTypes
  <2>2. IsFiniteSet({})
    BY FS_EmptySet
  <2> QED
    BY <2>1, <2>2 DEF Init, CloudTypes
<1>2. FileTypes
  BY ConstantTypes DEF Init, FileTypes, File
<1>3. EditorTypes
  BY ConstantTypes DEF Init, EditorTypes
<1>4. CycleTypes
  BY ConstantTypes DEF Init, CycleTypes
<1>5. BookTypes
  BY ConstantTypes, DeviceAssumption DEF Init, BookTypes
<1>6. CursorsReal
  BY DEF Init, CursorsReal, NothingFetched, NotRead
<1>7. SnapshotsReal
  BY DEF Init, SnapshotsReal, Stage, Idle
<1> QED
  BY <1>1, <1>2, <1>3, <1>4, <1>5, <1>6, <1>7 DEF TypesInv

-----------------------------------------------------------------------------
(* The pieces the steps are made of.                                       *)

LEMMA FileParts ==
    ASSUME NEW f \in File
    PROVE  /\ f.pending \in Ops /\ f.batch \in Batch /\ f.cursor \in Nat
           /\ \A ops \in Ops : LET g == [f EXCEPT !.pending = ops]
                               IN  /\ g \in File /\ g.pending = ops
                                   /\ g.batch = f.batch /\ g.cursor = f.cursor
           /\ \A n \in Nat : LET g == [f EXCEPT !.cursor = n]
                             IN  /\ g \in File /\ g.pending = f.pending
                                 /\ g.batch = f.batch /\ g.cursor = n
           /\ \A ops \in Ops, b \in Batch :
                 LET g == [f EXCEPT !.pending = ops, !.batch = b]
                 IN  /\ g \in File /\ g.pending = ops
                     /\ g.batch = b /\ g.cursor = f.cursor
  BY DEF File

LEMMA CoalescedTypes ==
    ASSUME NEW op \in Op, NEW n \in Nat, NEW e \in Edit
    PROVE  Coalesced(op, n, e) \in Op
  BY DEF Coalesced, Op

LEMMA SeenTypes ==
    ASSUME TypesInv, NEW d \in Device
    PROVE  /\ Seen(d) \in File /\ Seen(d).cursor <= Len(feed)
           /\ file[d] \in File /\ file[d].cursor <= Len(feed)
  BY DEF TypesInv, FileTypes, CycleTypes, CursorsReal, Seen

LEMMA GoingTo ==
    ASSUME cycle \in [Device -> [stage: Stages, pull: BOOLEAN, again: BOOLEAN]],
           NEW d \in Device, NEW s \in Stages, GoTo(d, s)
    PROVE  /\ cycle' \in [Device -> [stage: Stages, pull: BOOLEAN, again: BOOLEAN]]
           /\ cycle'[d].stage = s
           /\ \A x \in Device \ {d} : cycle'[x] = cycle[x]
  BY DEF GoTo

LEMMA Stopping ==
    ASSUME cycle \in [Device -> [stage: Stages, pull: BOOLEAN, again: BOOLEAN]],
           NEW d \in Device, Stop(d)
    PROVE  /\ cycle' \in [Device -> [stage: Stages, pull: BOOLEAN, again: BOOLEAN]]
           /\ cycle'[d].stage = "idle"
           /\ \A x \in Device \ {d} : cycle'[x] = cycle[x]
  BY ConstantTypes DEF Stop, Idle

\* Writing state.json keeps its cursor, and those in memory, within the feed.
LEMMA StateWritten ==
    ASSUME TypesInv, NEW d \in Device, NEW f \in File, f.cursor <= Len(feed),
           WriteState(d, f), UNCHANGED <<feed, tracker>>,
           \A x \in Device : fetched'[x].upto <= Len(feed)
    PROVE  /\ file' \in [Device -> File]
           /\ held' \in [Device -> File \union {None}]
           /\ CursorsReal'
<1>1. /\ file' = [file EXCEPT ![d] = f] /\ held' = [held EXCEPT ![d] = None]
      /\ file \in [Device -> File] /\ held \in [Device -> File \union {None}]
  BY DEF WriteState, TypesInv, FileTypes, CycleTypes
<1>2. CursorsReal'
  <2> SUFFICES ASSUME NEW x \in Device
               PROVE  /\ file'[x].cursor <= Len(feed)
                      /\ tracker[x].file # None => tracker[x].file.cursor <= Len(feed)
                      /\ held'[x] # None => held'[x].cursor <= Len(feed)
    BY DEF CursorsReal
  <2> QED
    BY <1>1 DEF TypesInv, CursorsReal
<1> QED
  BY <1>1, <1>2

\* A step that leaves the bootstraps that are about to be applied alone.
LEMMA SnapshotsKept ==
    ASSUME SnapshotsReal, versions' = versions, NEW d \in Device,
           \A x \in Device \ {d} : cycle'[x] = cycle[x] /\ fetched'[x] = fetched[x],
           cycle'[d].stage = "apply" =>
              cycle'[d].stage = cycle[d].stage /\ fetched'[d] = fetched[d]
    PROVE  SnapshotsReal'
  BY DEF SnapshotsReal, Stage

-----------------------------------------------------------------------------
(* The steps of the editor and the tracker.                                *)

LEMMA OpenTypes ==
    ASSUME TypesInv, NEW d \in Device, NEW p \in Page, Open(d, p)
    PROVE  TypesInv'
<1> USE DEF TypesInv
<1>1. CloudTypes' /\ FileTypes' /\ CycleTypes' /\ BookTypes'
  BY DEF Open, cloudVars, fileVars, bookVars, CloudTypes, FileTypes, CycleTypes, BookTypes
<1>2. EditorTypes'
  <2>1. local[d][p] \in Edit
    BY DEF FileTypes
  <2>2. /\ editor' = [editor EXCEPT ![d] = [page |-> p, edit |-> local[d][p]]]
        /\ UNCHANGED <<queue, tracker>>
    BY DEF Open
  <2>3. [page |-> p, edit |-> local[d][p]] \in [page: Page \union {None}, edit: Edit]
    BY <2>1
  <2> QED
    BY <2>2, <2>3 DEF EditorTypes
<1>3. CursorsReal' /\ SnapshotsReal'
  BY DEF Open, CursorsReal, SnapshotsReal, Stage, cloudVars, fileVars
<1> QED
  BY <1>1, <1>2, <1>3

LEMMA CloseTypes ==
    ASSUME TypesInv, NEW d \in Device, Close(d)
    PROVE  TypesInv'
<1> USE DEF TypesInv
<1>1. CloudTypes' /\ FileTypes' /\ CycleTypes' /\ BookTypes'
  BY DEF Close, cloudVars, fileVars, bookVars, CloudTypes, FileTypes, CycleTypes, BookTypes
<1>2. EditorTypes'
  BY ConstantTypes DEF Close, EditorTypes
<1>3. CursorsReal' /\ SnapshotsReal'
  BY DEF Close, CursorsReal, SnapshotsReal, Stage, cloudVars, fileVars
<1> QED
  BY <1>1, <1>2, <1>3

LEMMA SaveTypes ==
    ASSUME TypesInv, NEW d \in Device, Save(d)
    PROVE  TypesInv'
<1> USE DEF TypesInv
<1> DEFINE p == editor[d].page
           e == edits + 1
<1>1. p \in Page /\ editor[d].edit \in Edit
  BY DEF Save, EditorTypes
<1>2. e \in Edit
  BY DeviceAssumption DEF Save, BookTypes, Edit
<1>3. CloudTypes' /\ CycleTypes'
  BY DEF Save, cloudVars, CloudTypes, CycleTypes
<1>4. FileTypes'
  BY <1>1, <1>2 DEF Save, FileTypes
<1>5. EditorTypes'
  <2>1. /\ editor' = [editor EXCEPT ![d].edit = e]
        /\ queue' = [queue EXCEPT ![d] = Append(@, [page |-> p, edit |-> e])]
        /\ tracker' = tracker
    BY DEF Save
  <2>2. Append(queue[d], [page |-> p, edit |-> e]) \in Seq([page: Page, edit: Edit])
    BY <1>1, <1>2, AppendProperties DEF EditorTypes
  <2>3. queue' \in [Device -> Seq([page: Page, edit: Edit])]
    BY <2>1, <2>2 DEF EditorTypes
  <2>4. editor' \in [Device -> [page: Page \union {None}, edit: Edit]]
    BY <2>1, <1>2 DEF EditorTypes
  <2>5. ASSUME NEW x \in Device, editor'[x] # Closed
        PROVE  editor'[x].page \in Page
    BY <2>1, <2>5, <1>1 DEF EditorTypes
  <2> QED
    BY <2>1, <2>3, <2>4, <2>5 DEF EditorTypes
<1>6. BookTypes'
  <2>1. lineage' \in [Edit -> SUBSET Edit]
    BY <1>1, <1>2 DEF Save, BookTypes
  <2>2. budget' \in Budget
    <3>1. /\ budget' = [budget EXCEPT !.saves[d][p] = @ - 1]
          /\ budget.saves[d][p] > 0 /\ budget \in Budget
      BY DEF Save, BookTypes
    <3>2. /\ budget.saves \in [Device -> [Page -> Nat]]
          /\ budget.saves[d][p] - 1 \in Nat
      BY <1>1, <3>1 DEF Budget
    <3> HIDE DEF p
    <3>3. [budget.saves EXCEPT ![d][p] = @ - 1] \in [Device -> [Page -> Nat]]
      BY <1>1, <3>2
    <3>4. budget' = [budget EXCEPT !.saves = [budget.saves EXCEPT ![d][p] = @ - 1]]
      BY <3>1
    <3> QED
      BY <3>1, <3>3, <3>4 DEF Budget
  <2> QED
    BY <1>2, <2>1, <2>2 DEF Save, BookTypes
<1>7. CursorsReal' /\ SnapshotsReal'
  BY DEF Save, CursorsReal, SnapshotsReal, Stage, cloudVars
<1> QED
  BY <1>3, <1>4, <1>5, <1>6, <1>7

LEMMA AddPageTypes ==
    ASSUME TypesInv, NEW d \in Device, AddPage(d)
    PROVE  TypesInv'
<1> USE DEF TypesInv
<1>1. CloudTypes' /\ FileTypes' /\ EditorTypes'
  BY DEF AddPage, cloudVars, fileVars, CloudTypes, FileTypes, EditorTypes
<1>2. CycleTypes'
  <2>1. added' = [added EXCEPT ![d].made = @ + 1]
    BY DEF AddPage
  <2>2. added' \in [Device -> [made: Nat, sent: Nat]]
    <3>1. added \in [Device -> [made: Nat, sent: Nat]]
      BY DEF CycleTypes
    <3>2. [added[d] EXCEPT !.made = @ + 1] \in [made: Nat, sent: Nat]
      BY <3>1
    <3> QED
      BY <2>1, <3>1, <3>2
  <2> QED
    BY <2>2 DEF AddPage, CycleTypes
<1>3. BookTypes'
  <2>1. budget' \in Budget
    <3>1. /\ budget' = [budget EXCEPT !.additions[d] = @ - 1]
          /\ budget.additions[d] > 0 /\ budget \in Budget
      BY DEF AddPage, BookTypes
    <3>2. [budget.additions EXCEPT ![d] = @ - 1] \in [Device -> Nat]
      BY <3>1 DEF Budget
    <3>3. budget' = [budget EXCEPT !.additions = [budget.additions EXCEPT ![d] = @ - 1]]
      BY <3>1
    <3> QED
      BY <3>1, <3>2, <3>3 DEF Budget
  <2> QED
    BY <2>1 DEF AddPage, BookTypes
<1>4. CursorsReal' /\ SnapshotsReal'
  BY DEF AddPage, CursorsReal, SnapshotsReal, Stage, cloudVars, fileVars
<1> QED
  BY <1>1, <1>2, <1>3, <1>4

LEMMA OverlapTypes ==
    ASSUME BookTypes, Overlap, UNCHANGED <<lineage, edits>>
    PROVE  BookTypes'
<1>1. budget' \in Budget
  BY DEF Overlap, BookTypes, Budget
<1> QED
  BY <1>1 DEF BookTypes

LEMMA FailureTypes ==
    ASSUME BookTypes, Failure, UNCHANGED <<lineage, edits>>
    PROVE  BookTypes'
<1>1. budget' \in Budget
  BY DEF Failure, BookTypes, Budget
<1> QED
  BY <1>1 DEF BookTypes

\* What the tracker handles next.
LEMMA NextSave ==
    ASSUME TypesInv, NEW d \in Device, queue[d] # <<>>
    PROVE  /\ Head(queue[d]) \in [page: Page, edit: Edit]
           /\ Tail(queue[d]) \in Seq([page: Page, edit: Edit])
           /\ Base(d) \in Nat
<1>1. queue[d] \in Seq([page: Page, edit: Edit])
  BY DEF TypesInv, EditorTypes
<1>2. /\ Head(queue[d]) \in [page: Page, edit: Edit]
      /\ Tail(queue[d]) \in Seq([page: Page, edit: Edit])
  BY <1>1, HeadTailProperties
<1>3. mapping[d][Head(queue[d]).page] \in Nat /\ tracker[d].base \in Nat
  BY <1>2 DEF TypesInv, FileTypes, EditorTypes
<1> QED
  BY <1>2, <1>3 DEF Base

LEMMA ReadMappingTypes ==
    ASSUME TypesInv, NEW d \in Device, ReadMapping(d)
    PROVE  TypesInv'
<1> USE DEF TypesInv
<1>1. CloudTypes' /\ FileTypes' /\ CycleTypes'
  BY DEF ReadMapping, cloudVars, fileVars, CloudTypes, FileTypes, CycleTypes
<1>2. /\ tracker' = [tracker EXCEPT ![d].base = mapping[d][Head(queue[d]).page]]
      /\ mapping[d][Head(queue[d]).page] \in Nat
      /\ tracker \in [Device -> [base: Nat, file: File \union {None}]]
  <2>1. Head(queue[d]).page \in Page
    BY NextSave DEF ReadMapping
  <2> QED
    BY <2>1 DEF ReadMapping, FileTypes, EditorTypes
<1>3. /\ tracker' \in [Device -> [base: Nat, file: File \union {None}]]
      /\ \A x \in Device : tracker'[x].file = tracker[x].file
  BY <1>2
<1>4. EditorTypes'
  BY <1>3 DEF ReadMapping, EditorTypes
<1>5. BookTypes'
  BY OverlapTypes DEF ReadMapping
<1>6. CursorsReal' /\ SnapshotsReal'
  BY <1>3 DEF ReadMapping, CursorsReal, SnapshotsReal, Stage, cloudVars, fileVars
<1> QED
  BY <1>1, <1>4, <1>5, <1>6

LEMMA ReadStateTypes ==
    ASSUME TypesInv, NEW d \in Device, ReadState(d)
    PROVE  TypesInv'
<1> USE DEF TypesInv
<1>1. CloudTypes' /\ FileTypes' /\ CycleTypes'
  BY DEF ReadState, cloudVars, fileVars, CloudTypes, FileTypes, CycleTypes
<1>2. /\ tracker' = [tracker EXCEPT ![d] = [base |-> Base(d), file |-> file[d]]]
      /\ [base |-> Base(d), file |-> file[d]] \in [base: Nat, file: File \union {None}]
      /\ tracker \in [Device -> [base: Nat, file: File \union {None}]]
  BY NextSave DEF ReadState, FileTypes, EditorTypes
<1>3. /\ tracker' \in [Device -> [base: Nat, file: File \union {None}]]
      /\ tracker'[d].file = file[d]
      /\ \A x \in Device \ {d} : tracker'[x] = tracker[x]
  BY <1>2
<1>4. EditorTypes'
  BY <1>3 DEF ReadState, EditorTypes
<1>5. BookTypes'
  BY OverlapTypes DEF ReadState
<1>6. CursorsReal' /\ SnapshotsReal'
  BY <1>3 DEF ReadState, CursorsReal, SnapshotsReal, Stage, cloudVars, fileVars
<1> QED
  BY <1>1, <1>4, <1>5, <1>6

\* What the tracker writes: the state it has seen with one operation more.
LEMMA Tracked ==
    ASSUME TypesInv, NEW d \in Device, Track(d)
    PROVE  LET item == Head(queue[d])
               seen == IF tracker[d].file = None THEN file[d] ELSE tracker[d].file
               op == Coalesced(seen.pending[item.page], Base(d), item.edit)
               f == [seen EXCEPT !.pending = [seen.pending EXCEPT ![item.page] = op]]
           IN  /\ item.page \in Page /\ item.edit \in Edit
               /\ seen \in File /\ seen.cursor <= Len(feed)
               /\ op \in Op /\ f \in File /\ f.cursor <= Len(feed)
               /\ f.batch = seen.batch /\ f.cursor = seen.cursor
               /\ f.pending = [seen.pending EXCEPT ![item.page] = op]
               /\ file' = [file EXCEPT ![d] = f]
<1> DEFINE item == Head(queue[d])
           seen == IF tracker[d].file = None THEN file[d] ELSE tracker[d].file
           op == Coalesced(seen.pending[item.page], Base(d), item.edit)
           f == [seen EXCEPT !.pending = [seen.pending EXCEPT ![item.page] = op]]
<1>1. item.page \in Page /\ item.edit \in Edit /\ Base(d) \in Nat
  BY NextSave DEF Track
<1>2. seen \in File /\ seen.cursor <= Len(feed)
  BY SeenTypes DEF TypesInv, EditorTypes, CursorsReal
<1>3. seen.pending \in Ops
  BY <1>2, FileParts
<1>4. op \in Op
  <2>1. seen.pending[item.page] \in Op
    BY <1>1, <1>3 DEF Ops
  <2> HIDE DEF seen, item
  <2> QED
    BY <1>1, <2>1, CoalescedTypes
<1>5. file' = [file EXCEPT ![d] = f]
  BY DEF Track
<1> HIDE DEF seen, item, op
<1>6. [seen.pending EXCEPT ![item.page] = op] \in Ops
  BY <1>1, <1>3, <1>4 DEF Ops
<1>7. /\ f \in File /\ f.batch = seen.batch /\ f.cursor = seen.cursor
      /\ f.pending = [seen.pending EXCEPT ![item.page] = op]
  BY <1>2, <1>6, FileParts, ZenonT(30)
<1> QED
  BY <1>1, <1>2, <1>4, <1>5, <1>7 DEF seen, item, op

LEMMA TrackTypes ==
    ASSUME TypesInv, NEW d \in Device, Track(d)
    PROVE  TypesInv'
<1> USE DEF TypesInv
<1>1. CloudTypes' /\ CycleTypes' /\ BookTypes'
  BY DEF Track, cloudVars, bookVars, CloudTypes, CycleTypes, BookTypes
<1>2. PICK f \in File : f.cursor <= Len(feed) /\ file' = [file EXCEPT ![d] = f]
  BY Tracked
<1>3. FileTypes'
  BY <1>2 DEF Track, FileTypes
<1>4. /\ queue' = [queue EXCEPT ![d] = Tail(@)]
      /\ tracker' = [tracker EXCEPT ![d] = NotRead]
      /\ editor' = editor
      /\ Tail(queue[d]) \in Seq([page: Page, edit: Edit])
  BY NextSave DEF Track
<1>5. EditorTypes'
  BY <1>4, ConstantTypes DEF EditorTypes
<1>6. CursorsReal'
  <2> SUFFICES ASSUME NEW x \in Device
               PROVE  /\ file'[x].cursor <= Len(feed)
                      /\ tracker'[x].file # None => tracker'[x].file.cursor <= Len(feed)
    BY DEF Track, CursorsReal, cloudVars
  <2>1. file'[x].cursor <= Len(feed)
    BY <1>2 DEF CursorsReal, FileTypes
  <2>2. tracker'[x] = tracker[x] \/ tracker'[x].file = None
    BY <1>4 DEF EditorTypes, NotRead
  <2> QED
    BY <2>1, <2>2 DEF CursorsReal
<1>7. SnapshotsReal'
  BY DEF Track, SnapshotsReal, Stage, cloudVars
<1> QED
  BY <1>1, <1>3, <1>5, <1>6, <1>7

-----------------------------------------------------------------------------
(* The steps of a push.                                                    *)

LEMMA StartCycleTypes ==
    ASSUME TypesInv, NEW d \in Device, StartCycle(d)
    PROVE  TypesInv'
<1> USE DEF TypesInv
<1>1. CloudTypes' /\ FileTypes' /\ EditorTypes' /\ BookTypes'
  BY DEF StartCycle, cloudVars, fileVars, bookVars,
         CloudTypes, FileTypes, EditorTypes, BookTypes
<1>2. /\ cycle' \in [Device -> [stage: Stages, pull: BOOLEAN, again: BOOLEAN]]
      /\ cycle'[d].stage = "push" /\ \A x \in Device \ {d} : cycle'[x] = cycle[x]
  BY DEF StartCycle, CycleTypes, Stages
<1>3. CycleTypes'
  BY <1>2 DEF StartCycle, CycleTypes
<1>4. CursorsReal' /\ SnapshotsReal'
  BY <1>2, SnapshotsKept DEF StartCycle, CursorsReal, cloudVars, fileVars
<1> QED
  BY <1>1, <1>3, <1>4

LEMMA HoldStateTypes ==
    ASSUME TypesInv, NEW d \in Device, HoldState(d)
    PROVE  TypesInv'
<1> USE DEF TypesInv
<1>1. CloudTypes' /\ FileTypes' /\ EditorTypes'
  BY DEF HoldState, cloudVars, fileVars, CloudTypes, FileTypes, EditorTypes
<1>2. held' = [held EXCEPT ![d] = file[d]] /\ file[d] \in File
  BY DEF HoldState, FileTypes
<1>3. CycleTypes'
  BY <1>2 DEF HoldState, CycleTypes
<1>4. BookTypes'
  BY OverlapTypes DEF HoldState
<1>5. CursorsReal' /\ SnapshotsReal'
  BY <1>2 DEF HoldState, CursorsReal, SnapshotsReal, Stage, cloudVars, fileVars, CycleTypes
<1> QED
  BY <1>1, <1>3, <1>4, <1>5

\* What the cycle writes when it prepares a batch.
LEMMA Prepared ==
    ASSUME TypesInv, NEW d \in Device, Prepare(d)
    PROVE  \/ /\ GoTo(d, "pages") /\ WriteState(d, Seen(d)) /\ UNCHANGED wire
              /\ Seen(d).batch = NoBatch /\ Seen(d).pending = NoOps
           \/ \E f \in File :
                 /\ GoTo(d, "sent") /\ WriteState(d, f)
                 /\ wire' = [wire EXCEPT ![d] = f.batch]
                 /\ f.cursor = Seen(d).cursor /\ f.batch \in Batch
                 /\ \/ Seen(d).batch # NoBatch /\ f = Seen(d)
                    \/ /\ Seen(d).batch = NoBatch /\ f.pending = NoOps
                       /\ f.batch = [key |-> FreshKey(d), ops |-> Seen(d).pending]
                       /\ FreshKey(d) \in Nat /\ FreshKey(d) > wire[d].key
                       /\ \A x \in answered[d] : FreshKey(d) > x.key
<1> DEFINE s == Seen(d)
           batch == IF s.batch # NoBatch THEN s.batch
                    ELSE [key |-> FreshKey(d), ops |-> s.pending]
           pending == IF s.batch = NoBatch THEN NoOps ELSE s.pending
           f == [s EXCEPT !.pending = pending, !.batch = batch]
<1>1. s \in File
  BY SeenTypes
<1>2. /\ FreshKey(d) \in Nat /\ FreshKey(d) > wire[d].key
      /\ \A x \in answered[d] : FreshKey(d) > x.key
  <2>1. wire[d].key \in Nat
    BY DEF TypesInv, CycleTypes, Batch
  <2> QED
    BY <2>1, KeyIsFresh DEF TypesInv, CloudTypes
<1>3. CASE s.batch = NoBatch /\ s.pending = NoOps
  BY <1>3 DEF Prepare
<1>4. CASE ~(s.batch = NoBatch /\ s.pending = NoOps)
  <2>1. /\ GoTo(d, "sent") /\ WriteState(d, f)
        /\ wire' = [wire EXCEPT ![d] = batch]
    BY <1>4 DEF Prepare
  <2>2. batch \in Batch /\ pending \in Ops
    <3>1. s.batch \in Batch /\ s.pending \in Ops
      BY <1>1, FileParts
    <3> QED
      BY <3>1, <1>2, ConstantTypes DEF Batch
  <2> HIDE DEF batch, pending, s
  <2>3. f \in File /\ f.pending = pending /\ f.batch = batch /\ f.cursor = s.cursor
    BY <1>1, <2>2 DEF File
  <2>4. CASE s.batch # NoBatch
    <3>1. batch = s.batch /\ pending = s.pending
      BY <2>4 DEF batch, pending
    <3>2. f = s
      BY <1>1, <3>1 DEF File
    <3> QED
      BY <2>1, <2>2, <2>3, <2>4, <3>2 DEF s
  <2>5. CASE s.batch = NoBatch
    <3>1. pending = NoOps /\ batch = [key |-> FreshKey(d), ops |-> s.pending]
      BY <2>5 DEF batch, pending
    <3> QED
      BY <1>2, <2>1, <2>2, <2>3, <2>5, <3>1 DEF s
  <2> QED
    BY <2>4, <2>5
<1> QED
  BY <1>3, <1>4

LEMMA PrepareTypes ==
    ASSUME TypesInv, NEW d \in Device, Prepare(d)
    PROVE  TypesInv'
<1> USE DEF TypesInv
<1>1. CloudTypes' /\ EditorTypes' /\ BookTypes'
  BY DEF Prepare, cloudVars, bookVars, CloudTypes, EditorTypes, BookTypes
<1>2. PICK s \in Stages \ {"apply"}, f \in File :
          /\ GoTo(d, s) /\ WriteState(d, f) /\ f.cursor <= Len(feed)
          /\ wire' \in [Device -> Batch]
  BY Prepared, SeenTypes DEF CycleTypes, Stages
<1>3. UNCHANGED <<feed, tracker, fetched>>
  BY DEF Prepare, cloudVars
<1>4. /\ file' \in [Device -> File] /\ held' \in [Device -> File \union {None}]
      /\ CursorsReal'
  BY <1>2, <1>3, StateWritten DEF CursorsReal
<1>5. FileTypes'
  BY <1>4 DEF Prepare, FileTypes
<1>6. /\ cycle' \in [Device -> [stage: Stages, pull: BOOLEAN, again: BOOLEAN]]
      /\ cycle'[d].stage = s /\ \A x \in Device \ {d} : cycle'[x] = cycle[x]
  BY <1>2, GoingTo DEF CycleTypes
<1>7. CycleTypes'
  BY <1>2, <1>4, <1>6 DEF Prepare, CycleTypes
<1>8. SnapshotsReal'
  BY <1>2, <1>6, SnapshotsKept DEF Prepare, cloudVars
<1> QED
  BY <1>1, <1>4, <1>5, <1>7, <1>8

\* A commit adds versions, events and a response and takes none away; the new
\* events tell the new versions, and an operation the server applied is
\* answered with a revision that is not below the last one.
LEMMA Committed ==
    ASSUME CloudTypes, wire \in [Device -> Batch], NEW d \in Device, ServerCommit(d)
    PROVE  /\ CloudTypes'
           /\ \A p \in Page : /\ Len(versions'[p]) >= Len(versions[p])
                              /\ \A i \in 1..Len(versions[p]) :
                                    versions'[p][i] = versions[p][i]
           /\ Len(feed') >= Len(feed)
           /\ \A i \in 1..Len(feed) : feed'[i] = feed[i]
           /\ \A i \in 1..Len(feed') : i > Len(feed) =>
                 feed'[i][2] = Len(versions'[feed'[i][1]])
           /\ \A x \in Device \ {d} : answered'[x] = answered[x]
           /\ answered[d] \subseteq answered'[d]
           /\ \E x \in answered'[d] : x.key = wire[d].key
           /\ \A x \in answered'[d] \ answered[d] :
                 /\ x.key = wire[d].key
                 /\ \A p \in Page : x.results[p].outcome # "none" =>
                       x.results[p].revision = Len(versions'[p])
<1> DEFINE ops == wire[d].ops
           changed == {p \in Page : Applies(ops[p], p)}
           Outcome(p) == IF ops[p] = NoOp THEN "none"
                         ELSE IF Conflicts(ops[p], p) THEN "conflict" ELSE "applied"
           Revision(p) == IF ops[p] = NoOp THEN 0 ELSE Len(versions'[p])
           response == [key |-> wire[d].key,
                        results |-> [p \in Page |-> [outcome |-> Outcome(p),
                                                     revision |-> Revision(p)]]]
           next == [p \in Page |-> CloudRevision(p) + 1]
           events == {<<p, next[p]>> : p \in changed}
<1>1. CASE \E x \in answered[d] : x.key = wire[d].key
  <2>1. UNCHANGED cloudVars
    BY <1>1 DEF ServerCommit
  <2> QED
    BY <1>1, <2>1 DEF cloudVars, CloudTypes
<1>2. CASE ~\E x \in answered[d] : x.key = wire[d].key
  <2>1. versions' = [p \in Page |-> IF p \in changed THEN Append(versions[p], ops[p].edit)
                                    ELSE versions[p]]
    BY <1>2 DEF ServerCommit
  <2>2. kept' = [p \in Page |-> IF Conflicts(ops[p], p) THEN kept[p] \union {ops[p].edit}
                                ELSE kept[p]]
    BY <1>2 DEF ServerCommit
  <2>3. feed' = feed \o SetToSeq(events)
    <3>1. events = {<<p, CloudRevision(p) + 1>> : p \in changed}
      OBVIOUS
    <3> HIDE DEF events
    <3> QED
      BY <1>2, <3>1 DEF ServerCommit
  <2>4. answered' = [answered EXCEPT ![d] = @ \union {response}]
    BY <1>2 DEF ServerCommit
  <2>5. wire[d].key \in Nat /\ \A p \in Page : ops[p] \in Op /\ ops[p].edit \in Edit
    BY DEF Batch, Ops, Op
  <2>6. ASSUME NEW p \in Page
        PROVE  /\ versions'[p] \in Seq(Edit) /\ versions'[p] # <<>>
               /\ Len(versions'[p]) = Len(versions[p]) + (IF p \in changed THEN 1 ELSE 0)
               /\ \A i \in 1..Len(versions[p]) : versions'[p][i] = versions[p][i]
    <3>1. versions[p] \in Seq(Edit) /\ versions[p] # <<>>
      BY DEF CloudTypes
    <3>2. CASE p \in changed
      <4>1. versions'[p] = Append(versions[p], ops[p].edit)
        BY <2>1, <3>2
      <4> QED
        <5> HIDE DEF ops, changed, events, response
        <5> QED
          BY <2>5, <3>1, <3>2, <4>1
    <3>3. CASE p \notin changed
      <4>1. versions'[p] = versions[p]
        BY <2>1, <3>3
      <4> HIDE DEF changed
      <4>2. Len(versions[p]) \in Nat
        BY <3>1
      <4> QED
        BY <3>1, <3>3, <4>1, <4>2
    <3> QED
      BY <3>2, <3>3
  <2>7. \A p \in Page : Len(versions[p]) \in Nat /\ Len(versions'[p]) \in Nat
    BY <2>6 DEF CloudTypes
  <2>8. versions' \in [Page -> Seq(Edit)]
    <3>1. DOMAIN versions' = Page /\ versions' = [p \in Page |-> versions'[p]]
      BY <2>1
    <3> QED
      BY <2>6, <3>1
  <2>9. kept' \in [Page -> SUBSET Edit] /\ own' \in [Device -> [Page -> Nat]]
    <3>1. kept' \in [Page -> SUBSET Edit]
      BY <2>2, <2>5 DEF CloudTypes
    <3> DEFINE mine == [p \in Page |-> IF p \in changed THEN CloudRevision(p) + 1
                                      ELSE own[d][p]]
    <3>2. \A p \in Page : CloudRevision(p) + 1 \in Nat /\ own[d][p] \in Nat
      BY <2>7 DEF CloudRevision, CloudTypes
    <3>3. mine \in [Page -> Nat]
      <4> HIDE DEF changed
      <4> QED
        BY <3>2
    <3>4. own' = [own EXCEPT ![d] = mine]
      BY <1>2 DEF ServerCommit
    <3> HIDE DEF mine
    <3> QED
      BY <3>1, <3>3, <3>4 DEF CloudTypes
  <2>10. SetToSeq(events) \in Seq(events) /\ SetToSeq(events) \in Seq(Page \X Nat)
    <3>1. next \in [Page -> Nat]
      BY <2>7 DEF CloudRevision
    <3> HIDE DEF next
    <3>2. events \subseteq Page \X Nat
      BY <3>1
    <3>3. SetToSeq(events) \in Seq(events)
      BY <3>1, EventsAreASequence
    <3> HIDE DEF events
    <3> QED
      BY <3>2, <3>3, SeqMonotonic
  <2>11. /\ feed' \in Seq(Page \X Nat) /\ Len(feed') >= Len(feed)
         /\ \A i \in 1..Len(feed) : feed'[i] = feed[i]
         /\ \A i \in 1..Len(feed') : i > Len(feed) => feed'[i] \in events
    <3> HIDE DEF events
    <3>1. feed \in Seq(Page \X Nat)
      BY DEF CloudTypes
    <3> DEFINE more == SetToSeq(events)
    <3>2. more \in Seq(events) /\ more \in Seq(Page \X Nat) /\ feed' = feed \o more
      BY <2>3, <2>10
    <3> HIDE DEF more
    <3>3. /\ feed' \in Seq(Page \X Nat) /\ Len(feed') = Len(feed) + Len(more)
          /\ \A i \in 1..Len(feed) + Len(more) :
                feed'[i] = IF i <= Len(feed) THEN feed[i] ELSE more[i - Len(feed)]
          /\ Len(feed) \in Nat /\ Len(more) \in Nat
      BY <3>1, <3>2, ConcatProperties, LenProperties
    <3>4. \A j \in 1..Len(more) : more[j] \in events
      BY <3>2, ElementOfSeq
    <3>5. Len(feed') >= Len(feed) /\ \A i \in 1..Len(feed) : feed'[i] = feed[i]
      BY <3>3
    <3>6. ASSUME NEW i \in 1..Len(feed'), i > Len(feed)
          PROVE  feed'[i] \in events
      <4>1. i - Len(feed) \in 1..Len(more) /\ i \in 1..Len(feed) + Len(more)
        BY <3>3, <3>6
      <4>2. feed'[i] = more[i - Len(feed)]
        BY <3>3, <3>6, <4>1
      <4> QED
        BY <3>4, <4>1, <4>2
    <3> QED
      BY <3>3, <3>5, <3>6
  <2>12. \A i \in 1..Len(feed') : i > Len(feed) =>
            feed'[i][2] = Len(versions'[feed'[i][1]])
    <3> SUFFICES ASSUME NEW i \in 1..Len(feed'), i > Len(feed)
                 PROVE  feed'[i][2] = Len(versions'[feed'[i][1]])
      OBVIOUS
    <3>1. feed'[i] \in events
      BY <2>11
    <3>2. PICK p \in changed : feed'[i] = <<p, next[p]>>
      BY <3>1
    <3>3. p \in Page /\ next[p] = Len(versions[p]) + 1
      BY DEF CloudRevision
    <3>4. Len(versions'[p]) = Len(versions[p]) + 1
      BY <2>6, <3>3
    <3> QED
      BY <3>2, <3>3, <3>4
  <2>13. response \in Response
    <3>1. \A p \in Page : Revision(p) \in Nat
      BY <2>7
    <3>2. \A p \in Page : Outcome(p) \in {"none", "applied", "conflict"}
      OBVIOUS
    <3> HIDE DEF Revision, Outcome
    <3> QED
      BY <2>5, <3>1, <3>2 DEF Response, Result
  <2>14. \A p \in Page : response.results[p].outcome # "none" =>
            response.results[p].revision = Len(versions'[p])
    OBVIOUS
  <2> HIDE DEF response
  <2>15. answered' \in [Device -> SUBSET Response]
    BY <2>4, <2>13 DEF CloudTypes
  <2>16. \A x \in Device : IsFiniteSet(answered'[x])
    BY <2>4, FS_AddElement DEF CloudTypes
  <2>17. response.key = wire[d].key
    BY DEF response
  <2>18. answered'[d] = answered[d] \union {response}
    BY <2>4 DEF CloudTypes
  <2>19. CloudTypes'
    BY <2>6, <2>8, <2>9, <2>11, <2>15, <2>16 DEF CloudTypes
  <2>20. \A x \in Device \ {d} : answered'[x] = answered[x]
    BY <2>4 DEF CloudTypes
  <2> HIDE DEF changed
  <2>21. ASSUME NEW p \in Page PROVE Len(versions'[p]) >= Len(versions[p])
    <3> DEFINE m == Len(versions[p])
               n == Len(versions'[p])
    <3>1. m \in Nat /\ n \in Nat /\ n = m + (IF p \in changed THEN 1 ELSE 0)
      BY <2>6, <2>7
    <3> HIDE DEF m, n
    <3>2. n >= m
      BY <3>1
    <3> QED
      BY <3>2 DEF m, n
  <2> QED
    BY <2>6, <2>11, <2>12, <2>14, <2>17, <2>18, <2>19, <2>20, <2>21
<1> QED
  BY <1>1, <1>2

LEMMA ServerCommitTypes ==
    ASSUME TypesInv, NEW d \in Device, ServerCommit(d)
    PROVE  TypesInv'
<1> USE DEF TypesInv
<1>1. /\ FileTypes' /\ EditorTypes' /\ BookTypes'
      /\ UNCHANGED <<file, tracker, held, added>>
  BY DEF ServerCommit, fileVars, bookVars, FileTypes, EditorTypes, BookTypes
<1>2. wire \in [Device -> Batch]
  BY DEF CycleTypes
<1>3. CloudTypes'
  BY <1>2, Committed
<1>4. /\ \A p \in Page : Len(versions'[p]) >= Len(versions[p])
      /\ Len(feed') >= Len(feed)
  BY <1>2, Committed
<1>5. /\ cycle' \in [Device -> [stage: Stages, pull: BOOLEAN, again: BOOLEAN]]
      /\ cycle' = cycle \/ cycle'[d].stage = "answered"
      /\ \A x \in Device \ {d} : cycle'[x] = cycle[x]
  BY GoingTo DEF ServerCommit, CycleTypes, Stages
<1>6. /\ fetched' \in [Device -> [response: Response, from: Nat, upto: Nat,
                                  snapshot: [Page -> Nat]]]
      /\ \A x \in Device : /\ fetched'[x].upto = fetched[x].upto
                           /\ fetched'[x].snapshot = fetched[x].snapshot
  <2>1. CASE Stage(d) = "sent"
    <3> DEFINE r == CHOOSE x \in answered'[d] : x.key = wire[d].key
    <3>1. fetched' = [fetched EXCEPT ![d].response = r]
      BY <2>1 DEF ServerCommit
    <3>2. \E x \in answered'[d] : x.key = wire[d].key
      BY <1>2, Committed
    <3>3. r \in answered'[d]
      BY <3>2
    <3>4. r \in Response
      BY <1>3, <3>3 DEF CloudTypes
    <3> HIDE DEF r
    <3> QED
      BY <3>1, <3>4 DEF CycleTypes
  <2>2. CASE Stage(d) # "sent"
    BY <2>2 DEF ServerCommit, CycleTypes
  <2> QED
    BY <2>1, <2>2
<1>7. wire' \in [Device -> Batch]
  BY <1>2, ConstantTypes DEF ServerCommit
<1>8. CycleTypes'
  BY <1>1, <1>5, <1>6, <1>7 DEF CycleTypes
<1>9. CursorsReal'
  <2>1. Len(feed) \in Nat /\ Len(feed') \in Nat
    BY <1>3 DEF CloudTypes
  <2> SUFFICES ASSUME NEW x \in Device
               PROVE  /\ file[x].cursor <= Len(feed') /\ fetched[x].upto <= Len(feed')
                      /\ tracker[x].file # None => tracker[x].file.cursor <= Len(feed')
                      /\ held[x] # None => held[x].cursor <= Len(feed')
    BY <1>1, <1>6 DEF CursorsReal
  <2>2. /\ file[x].cursor \in Nat /\ fetched[x].upto \in Nat
        /\ tracker[x].file # None => tracker[x].file.cursor \in Nat
        /\ held[x] # None => held[x].cursor \in Nat
    BY DEF FileTypes, EditorTypes, CycleTypes, File
  <2>3. /\ file[x].cursor <= Len(feed) /\ fetched[x].upto <= Len(feed)
        /\ tracker[x].file # None => tracker[x].file.cursor <= Len(feed)
        /\ held[x] # None => held[x].cursor <= Len(feed)
    BY DEF CursorsReal
  <2> QED
    BY <1>4, <2>1, <2>2, <2>3
<1>10. SnapshotsReal'
  <2> SUFFICES ASSUME NEW x \in Device, cycle'[x].stage = "apply", NEW p \in Page
               PROVE  fetched[x].snapshot[p] \in 1..Len(versions'[p])
    BY <1>6 DEF SnapshotsReal, Stage
  <2>1. fetched[x].snapshot[p] \in 1..Len(versions[p])
    BY <1>5 DEF SnapshotsReal, Stage
  <2>2. Len(versions[p]) \in Nat /\ Len(versions'[p]) \in Nat
    BY <1>3 DEF CloudTypes
  <2> QED
    BY <1>4, <2>1, <2>2
<1> QED
  BY <1>1, <1>3, <1>8, <1>9, <1>10

LEMMA ResultTypes ==
    ASSUME TypesInv, NEW d \in Device, NEW p \in Page
    PROVE  Results(d)[p].revision \in Nat
  BY DEF TypesInv, CycleTypes, Results, Response, Result

LEMMA UpdateRemoteTypes ==
    ASSUME TypesInv, NEW d \in Device, UpdateRemote(d)
    PROVE  TypesInv'
<1> USE DEF TypesInv
<1>1. CloudTypes' /\ EditorTypes' /\ BookTypes'
  BY DEF UpdateRemote, cloudVars, bookVars, CloudTypes, EditorTypes, BookTypes
<1>2. FileTypes'
  <2> DEFINE m == [p \in Page |-> IF Results(d)[p].outcome = "applied"
                                  THEN Results(d)[p].revision ELSE mapping[d][p]]
  <2>1. m \in [Page -> Nat]
    BY ResultTypes DEF FileTypes
  <2>2. mapping' = [mapping EXCEPT ![d] = m] /\ UNCHANGED <<local, file>>
    BY DEF UpdateRemote
  <2> HIDE DEF m
  <2> QED
    BY <2>1, <2>2 DEF FileTypes
<1>3. /\ cycle' \in [Device -> [stage: Stages, pull: BOOLEAN, again: BOOLEAN]]
      /\ cycle'[d].stage = "mapped" /\ \A x \in Device \ {d} : cycle'[x] = cycle[x]
  BY GoingTo DEF UpdateRemote, CycleTypes, Stages
<1>4. CycleTypes'
  BY <1>3 DEF UpdateRemote, CycleTypes
<1>5. CursorsReal' /\ SnapshotsReal'
  BY <1>3, SnapshotsKept DEF UpdateRemote, CursorsReal, cloudVars
<1> QED
  BY <1>1, <1>2, <1>4, <1>5

LEMMA RebasedTypes ==
    ASSUME TypesInv, NEW d \in Device, NEW ops \in Ops
    PROVE  Rebased(ops, Results(d)) \in Ops
<1>1. \A p \in Page : /\ ops[p] \in Op
                      /\ [ops[p] EXCEPT !.base = Results(d)[p].revision] \in Op
  BY ResultTypes DEF Ops, Op
<1> QED
  BY <1>1 DEF Rebased, Ops

LEMMA MarkCommitSucceededTypes ==
    ASSUME TypesInv, NEW d \in Device, MarkCommitSucceeded(d)
    PROVE  TypesInv'
<1> USE DEF TypesInv
<1>1. CloudTypes' /\ EditorTypes' /\ BookTypes'
  BY DEF MarkCommitSucceeded, cloudVars, bookVars, CloudTypes, EditorTypes, BookTypes
<1>2. UNCHANGED <<versions, feed, local, mapping, tracker, fetched, wire, added>>
  BY DEF MarkCommitSucceeded, cloudVars
<1>3. /\ cycle' \in [Device -> [stage: Stages, pull: BOOLEAN, again: BOOLEAN]]
      /\ cycle'[d].stage \in {"follow", "idle"}
      /\ \A x \in Device \ {d} : cycle'[x] = cycle[x]
  BY GoingTo, Stopping DEF MarkCommitSucceeded, CycleTypes, Stages
<1>4. /\ file' \in [Device -> File] /\ held' \in [Device -> File \union {None}]
      /\ CursorsReal'
  <2>1. CASE Seen(d).batch.key = fetched[d].response.key
    <3> DEFINE ops == Rebased(Seen(d).pending, Results(d))
               f == [Seen(d) EXCEPT !.pending = ops, !.batch = NoBatch]
    <3>1. Seen(d) \in File /\ Seen(d).cursor <= Len(feed)
      BY SeenTypes
    <3>2. ops \in Ops
      BY <3>1, FileParts, RebasedTypes
    <3>3. f \in File /\ f.cursor = Seen(d).cursor
      <4> HIDE DEF ops
      <4> QED
        BY <3>1, <3>2, ConstantTypes DEF File
    <3>4. WriteState(d, f)
      BY <2>1 DEF MarkCommitSucceeded
    <3> HIDE DEF f
    <3> QED
      BY <1>2, <3>1, <3>3, <3>4, StateWritten DEF CursorsReal
  <2>2. CASE Seen(d).batch.key # fetched[d].response.key
    <3>1. file' = file /\ held' = [held EXCEPT ![d] = None]
      BY <2>2 DEF MarkCommitSucceeded
    <3> QED
      BY <1>2, <3>1 DEF FileTypes, CycleTypes, CursorsReal
  <2> QED
    BY <2>1, <2>2
<1>5. FileTypes' /\ CycleTypes'
  BY <1>2, <1>3, <1>4 DEF FileTypes, CycleTypes
<1>6. SnapshotsReal'
  BY <1>2, <1>3, SnapshotsKept
<1> QED
  BY <1>1, <1>4, <1>5, <1>6

LEMMA QueueMetadataTypes ==
    ASSUME TypesInv, NEW d \in Device, QueueMetadata(d)
    PROVE  TypesInv'
<1> USE DEF TypesInv
<1>1. CloudTypes' /\ EditorTypes' /\ BookTypes'
  BY DEF QueueMetadata, cloudVars, bookVars, CloudTypes, EditorTypes, BookTypes
<1>2. UNCHANGED <<versions, feed, local, mapping, tracker, fetched, wire, added>>
  BY DEF QueueMetadata, cloudVars
<1>3. /\ cycle' \in [Device -> [stage: Stages, pull: BOOLEAN, again: BOOLEAN]]
      /\ cycle'[d].stage = "push"
      /\ \A x \in Device \ {d} : cycle'[x] = cycle[x]
  BY GoingTo DEF QueueMetadata, CycleTypes, Stages
<1>4. /\ file' \in [Device -> File] /\ held' \in [Device -> File \union {None}]
      /\ CursorsReal'
  <2> DEFINE s == Seen(d)
             ops == [p \in Page |->
                IF Results(d)[p].outcome = "conflict" /\ s.pending[p] = NoOp
                THEN [kind |-> "metadata", base |-> Results(d)[p].revision, edit |-> 0]
                ELSE s.pending[p]]
             f == [s EXCEPT !.pending = ops]
  <2>1. s \in File /\ s.cursor <= Len(feed)
    BY SeenTypes
  <2>2. ops \in Ops
    <3>1. \A p \in Page : s.pending[p] \in Op
      BY <2>1 DEF File, Ops
    <3>2. \A p \in Page : [kind |-> "metadata", base |-> Results(d)[p].revision,
                           edit |-> 0] \in Op
      BY ResultTypes, ConstantTypes DEF Op
    <3> HIDE DEF s
    <3> QED
      BY <3>1, <3>2 DEF Ops
  <2>3. f \in File /\ f.cursor = s.cursor
    <3> HIDE DEF ops, s
    <3> QED
      BY <2>1, <2>2 DEF File
  <2>4. WriteState(d, f)
    BY DEF QueueMetadata
  <2> HIDE DEF f
  <2> QED
    BY <1>2, <2>1, <2>3, <2>4, StateWritten DEF CursorsReal
<1>5. FileTypes' /\ CycleTypes'
  BY <1>2, <1>3, <1>4 DEF FileTypes, CycleTypes
<1>6. SnapshotsReal'
  BY <1>2, <1>3, SnapshotsKept
<1> QED
  BY <1>1, <1>4, <1>5, <1>6

LEMMA UploadPagesTypes ==
    ASSUME TypesInv, NEW d \in Device, UploadPages(d)
    PROVE  TypesInv'
<1> USE DEF TypesInv
<1>1. CloudTypes' /\ FileTypes' /\ EditorTypes' /\ BookTypes'
  BY DEF UploadPages, cloudVars, fileVars, bookVars,
         CloudTypes, FileTypes, EditorTypes, BookTypes
<1>2. /\ cycle' \in [Device -> [stage: Stages, pull: BOOLEAN, again: BOOLEAN]]
      /\ cycle'[d].stage \in {"remap", "pull", "idle"}
      /\ \A x \in Device \ {d} : cycle'[x] = cycle[x]
  BY GoingTo, Stopping DEF UploadPages, CycleTypes, Stages
<1>3. added' \in [Device -> [made: Nat, sent: Nat]]
  <2>1. added' = added \/ added' = [added EXCEPT ![d].sent = added[d].made]
    BY DEF UploadPages
  <2> QED
    BY <2>1 DEF CycleTypes
<1>4. CycleTypes'
  BY <1>2, <1>3 DEF UploadPages, CycleTypes
<1>5. CursorsReal' /\ SnapshotsReal'
  BY <1>2, SnapshotsKept DEF UploadPages, CursorsReal, cloudVars, fileVars
<1> QED
  BY <1>1, <1>4, <1>5

\* A bootstrap tells the last revision of every page.
LEMMA SnapshotTypes ==
    ASSUME CloudTypes
    PROVE  /\ Snapshot \in [Page -> Nat]
           /\ \A p \in Page : /\ Snapshot[p] = Len(versions[p])
                              /\ Snapshot[p] \in 1..Len(versions[p])
<1>1. \A p \in Page : Len(versions[p]) \in Nat \ {0}
  BY EmptySeq DEF CloudTypes
<1> QED
  BY <1>1 DEF Snapshot, CloudRevision

LEMMA ReplaceMappingsTypes ==
    ASSUME TypesInv, NEW d \in Device, ReplaceMappings(d)
    PROVE  TypesInv'
<1> USE DEF TypesInv
<1>1. CloudTypes' /\ EditorTypes' /\ BookTypes'
  BY DEF ReplaceMappings, cloudVars, bookVars, CloudTypes, EditorTypes, BookTypes
<1>2. FileTypes'
  BY SnapshotTypes DEF ReplaceMappings, FileTypes
<1>3. /\ cycle' \in [Device -> [stage: Stages, pull: BOOLEAN, again: BOOLEAN]]
      /\ cycle'[d].stage = "requeue" /\ \A x \in Device \ {d} : cycle'[x] = cycle[x]
  BY GoingTo DEF ReplaceMappings, CycleTypes, Stages
<1>4. CycleTypes'
  BY <1>3 DEF ReplaceMappings, CycleTypes
<1>5. CursorsReal' /\ SnapshotsReal'
  BY <1>3, SnapshotsKept DEF ReplaceMappings, CursorsReal, cloudVars
<1> QED
  BY <1>1, <1>2, <1>4, <1>5

LEMMA QueueLatestTypes ==
    ASSUME TypesInv, NEW d \in Device, QueueLatestCreatedContent(d)
    PROVE  TypesInv'
<1> USE DEF TypesInv
<1>1. CloudTypes' /\ FileTypes' /\ BookTypes'
  BY DEF QueueLatestCreatedContent, cloudVars, fileVars, bookVars,
         CloudTypes, FileTypes, BookTypes
<1>2. EditorTypes'
  <2> DEFINE S == {[page |-> p, edit |-> local[d][p]] : p \in Page}
  <2>1. local[d] \in [Page -> Edit]
    BY DEF FileTypes
  <2>2. SetToSeq(S) \in Seq(S)
    BY <2>1, SavesAreASequence
  <2>3. S \subseteq [page: Page, edit: Edit]
    BY <2>1
  <2>4. queue' = [queue EXCEPT ![d] = @ \o SetToSeq(S)]
    BY DEF QueueLatestCreatedContent
  <2> HIDE DEF S
  <2>5. SetToSeq(S) \in Seq([page: Page, edit: Edit])
    BY <2>2, <2>3, SeqMonotonic
  <2>6. queue[d] \o SetToSeq(S) \in Seq([page: Page, edit: Edit])
    <3>1. queue[d] \in Seq([page: Page, edit: Edit])
      BY DEF EditorTypes
    <3> QED
      BY <2>5, <3>1, ConcatProperties
  <2> QED
    BY <2>4, <2>6 DEF QueueLatestCreatedContent, EditorTypes
<1>3. /\ cycle' \in [Device -> [stage: Stages, pull: BOOLEAN, again: BOOLEAN]]
      /\ cycle'[d].stage = "drain" /\ \A x \in Device \ {d} : cycle'[x] = cycle[x]
  BY GoingTo DEF QueueLatestCreatedContent, CycleTypes, Stages
<1>4. CycleTypes'
  BY <1>3 DEF QueueLatestCreatedContent, CycleTypes
<1>5. CursorsReal' /\ SnapshotsReal'
  BY <1>3, SnapshotsKept
     DEF QueueLatestCreatedContent, CursorsReal, cloudVars, fileVars
<1> QED
  BY <1>1, <1>2, <1>4, <1>5

LEMMA PushAgainTypes ==
    ASSUME TypesInv, NEW d \in Device, PushAgain(d)
    PROVE  TypesInv'
<1> USE DEF TypesInv
<1>1. CloudTypes' /\ FileTypes' /\ EditorTypes' /\ BookTypes'
  BY DEF PushAgain, cloudVars, fileVars, bookVars,
         CloudTypes, FileTypes, EditorTypes, BookTypes
<1>2. /\ cycle' \in [Device -> [stage: Stages, pull: BOOLEAN, again: BOOLEAN]]
      /\ cycle'[d].stage = "push" /\ \A x \in Device \ {d} : cycle'[x] = cycle[x]
  <2> DEFINE c == [cycle EXCEPT ![d].stage = "push"]
  <2>1. cycle' = [c EXCEPT ![d].again = TRUE]
    BY DEF PushAgain
  <2>2. /\ c \in [Device -> [stage: Stages, pull: BOOLEAN, again: BOOLEAN]]
        /\ c[d].stage = "push" /\ \A x \in Device \ {d} : c[x] = cycle[x]
    BY DEF CycleTypes, Stages
  <2> HIDE DEF c
  <2> QED
    BY <2>1, <2>2
<1>3. CycleTypes'
  BY <1>2 DEF PushAgain, CycleTypes
<1>4. CursorsReal' /\ SnapshotsReal'
  BY <1>2, SnapshotsKept DEF PushAgain, CursorsReal, cloudVars, fileVars
<1> QED
  BY <1>1, <1>3, <1>4

-----------------------------------------------------------------------------
(* The steps of a pull, and the failures.                                  *)

LEMMA ListChangesTypes ==
    ASSUME TypesInv, NEW d \in Device, ListChanges(d)
    PROVE  TypesInv'
<1> USE DEF TypesInv
<1>1. CloudTypes' /\ FileTypes' /\ EditorTypes' /\ BookTypes'
  BY DEF ListChanges, cloudVars, fileVars, bookVars,
         CloudTypes, FileTypes, EditorTypes, BookTypes
<1>2. /\ cycle' \in [Device -> [stage: Stages, pull: BOOLEAN, again: BOOLEAN]]
      /\ cycle'[d].stage \in {"listed", "idle"}
      /\ \A x \in Device \ {d} : cycle'[x] = cycle[x]
  BY GoingTo, Stopping DEF ListChanges, CycleTypes, Stages
<1>3. /\ fetched' \in [Device -> [response: Response, from: Nat, upto: Nat,
                                  snapshot: [Page -> Nat]]]
      /\ \A x \in Device \ {d} : fetched'[x] = fetched[x]
      /\ fetched'[d].upto <= Len(feed)
  <2>1. Len(feed) \in Nat /\ file[d].cursor \in Nat
    BY DEF CloudTypes, FileTypes, File
  <2>2. CASE fetched' = fetched
    BY <2>2 DEF CycleTypes, CursorsReal
  <2>3. CASE fetched' = [fetched EXCEPT ![d].from = file[d].cursor, ![d].upto = Len(feed)]
    <3> DEFINE g == [fetched[d] EXCEPT !.from = file[d].cursor, !.upto = Len(feed)]
    <3>1. fetched' = [fetched EXCEPT ![d] = g]
      BY <2>3 DEF CycleTypes
    <3>2. /\ g \in [response: Response, from: Nat, upto: Nat, snapshot: [Page -> Nat]]
          /\ g.upto = Len(feed)
      BY <2>1 DEF CycleTypes
    <3> HIDE DEF g
    <3> QED
      BY <2>1, <3>1, <3>2 DEF CycleTypes
  <2> QED
    BY <2>2, <2>3 DEF ListChanges
<1>4. CycleTypes'
  BY <1>2, <1>3 DEF ListChanges, CycleTypes
<1>5. CursorsReal'
  BY <1>3 DEF ListChanges, CursorsReal, cloudVars, fileVars
<1>6. SnapshotsReal'
  BY <1>2, <1>3, SnapshotsKept DEF ListChanges, cloudVars
<1> QED
  BY <1>1, <1>4, <1>5, <1>6

LEMMA BootstrapTypes ==
    ASSUME TypesInv, NEW d \in Device, Bootstrap(d)
    PROVE  TypesInv'
<1> USE DEF TypesInv
<1>1. CloudTypes' /\ FileTypes' /\ EditorTypes' /\ BookTypes'
  BY DEF Bootstrap, cloudVars, fileVars, bookVars,
         CloudTypes, FileTypes, EditorTypes, BookTypes
<1>2. /\ cycle' \in [Device -> [stage: Stages, pull: BOOLEAN, again: BOOLEAN]]
      /\ \A x \in Device \ {d} : cycle'[x] = cycle[x]
  BY GoingTo DEF Bootstrap, CycleTypes, Stages
<1>3. fetched' = [fetched EXCEPT ![d].snapshot = Snapshot]
  BY DEF Bootstrap
<1>4. /\ fetched' \in [Device -> [response: Response, from: Nat, upto: Nat,
                                  snapshot: [Page -> Nat]]]
      /\ \A x \in Device \ {d} : fetched'[x] = fetched[x]
      /\ fetched'[d].upto = fetched[d].upto /\ fetched'[d].snapshot = Snapshot
  BY <1>3, SnapshotTypes DEF CycleTypes
<1>5. CycleTypes'
  BY <1>2, <1>4 DEF Bootstrap, CycleTypes
<1>6. CursorsReal'
  BY <1>4 DEF Bootstrap, CursorsReal, cloudVars, fileVars
<1>7. SnapshotsReal'
  BY <1>2, <1>4, SnapshotTypes DEF Bootstrap, SnapshotsReal, Stage, cloudVars
<1> QED
  BY <1>1, <1>5, <1>6, <1>7

LEMMA ApplyIfSafeTypes ==
    ASSUME TypesInv, NEW d \in Device, ApplyIfSafe(d)
    PROVE  TypesInv'
<1> USE DEF TypesInv
<1>1. CloudTypes' /\ EditorTypes' /\ BookTypes'
  BY DEF ApplyIfSafe, cloudVars, bookVars, CloudTypes, EditorTypes, BookTypes
<1>2. FileTypes'
  <2> DEFINE content == [p \in Page |-> IF p \in Changed(d)
                                        THEN versions[p][fetched[d].snapshot[p]]
                                        ELSE local[d][p]]
  <2>1. content \in [Page -> Edit]
    <3>1. Stage(d) = "apply"
      BY DEF ApplyIfSafe
    <3>2. ASSUME NEW p \in Page
          PROVE  versions[p][fetched[d].snapshot[p]] \in Edit
      <4>1. fetched[d].snapshot[p] \in 1..Len(versions[p])
        BY <3>1 DEF SnapshotsReal
      <4> QED
        BY <4>1, ElementOfSeq DEF CloudTypes
    <3> QED
      BY <3>2 DEF FileTypes
  <2>2. local' = local \/ local' = [local EXCEPT ![d] = content]
    BY DEF ApplyIfSafe
  <2> HIDE DEF content
  <2> QED
    BY <2>1, <2>2 DEF ApplyIfSafe, FileTypes
<1>3. /\ cycle' \in [Device -> [stage: Stages, pull: BOOLEAN, again: BOOLEAN]]
      /\ cycle'[d].stage \in {"applied", "idle"}
      /\ \A x \in Device \ {d} : cycle'[x] = cycle[x]
  BY GoingTo, Stopping DEF ApplyIfSafe, CycleTypes, Stages
<1>4. CycleTypes'
  BY <1>3 DEF ApplyIfSafe, CycleTypes
<1>5. CursorsReal' /\ SnapshotsReal'
  BY <1>3, SnapshotsKept DEF ApplyIfSafe, CursorsReal, cloudVars
<1> QED
  BY <1>1, <1>2, <1>4, <1>5

LEMMA RebuildMappingsTypes ==
    ASSUME TypesInv, NEW d \in Device, RebuildMappings(d)
    PROVE  TypesInv'
<1> USE DEF TypesInv
<1>1. CloudTypes' /\ EditorTypes' /\ BookTypes'
  BY DEF RebuildMappings, cloudVars, bookVars, CloudTypes, EditorTypes, BookTypes
<1>2. FileTypes'
  BY DEF RebuildMappings, FileTypes, CycleTypes
<1>3. /\ cycle' \in [Device -> [stage: Stages, pull: BOOLEAN, again: BOOLEAN]]
      /\ cycle'[d].stage = "advance" /\ \A x \in Device \ {d} : cycle'[x] = cycle[x]
  BY GoingTo DEF RebuildMappings, CycleTypes, Stages
<1>4. CycleTypes'
  BY <1>3 DEF RebuildMappings, CycleTypes
<1>5. CursorsReal' /\ SnapshotsReal'
  BY <1>3, SnapshotsKept DEF RebuildMappings, CursorsReal, cloudVars
<1> QED
  BY <1>1, <1>2, <1>4, <1>5

\* Nothing is fetched any more when a cycle ends.
LEMMA NothingLeft ==
    ASSUME TypesInv, NEW d \in Device,
           fetched' = [fetched EXCEPT ![d] = NothingFetched]
    PROVE  /\ fetched' \in [Device -> [response: Response, from: Nat, upto: Nat,
                                       snapshot: [Page -> Nat]]]
           /\ \A x \in Device \ {d} : fetched'[x] = fetched[x]
           /\ \A x \in Device : fetched'[x].upto <= Len(feed)
<1>1. 0 <= Len(feed)
  BY DEF TypesInv, CloudTypes
<1>2. fetched \in [Device -> [response: Response, from: Nat, upto: Nat,
                              snapshot: [Page -> Nat]]]
  BY DEF TypesInv, CycleTypes
<1>3. NothingFetched.upto = 0
  BY DEF NothingFetched
<1> QED
  BY <1>1, <1>2, <1>3, ConstantTypes DEF TypesInv, CursorsReal

LEMMA MarkChangesAppliedTypes ==
    ASSUME TypesInv, NEW d \in Device, MarkChangesApplied(d)
    PROVE  TypesInv'
<1> USE DEF TypesInv
<1>1. CloudTypes' /\ EditorTypes' /\ BookTypes'
  BY DEF MarkChangesApplied, cloudVars, bookVars, CloudTypes, EditorTypes, BookTypes
<1>2. UNCHANGED <<versions, feed, local, mapping, tracker, wire, added>>
  BY DEF MarkChangesApplied, cloudVars
<1>3. /\ cycle' \in [Device -> [stage: Stages, pull: BOOLEAN, again: BOOLEAN]]
      /\ cycle'[d].stage = "idle" /\ \A x \in Device \ {d} : cycle'[x] = cycle[x]
  BY Stopping DEF MarkChangesApplied, CycleTypes
<1>4. /\ fetched' \in [Device -> [response: Response, from: Nat, upto: Nat,
                                  snapshot: [Page -> Nat]]]
      /\ \A x \in Device \ {d} : fetched'[x] = fetched[x]
      /\ \A x \in Device : fetched'[x].upto <= Len(feed)
  BY NothingLeft DEF MarkChangesApplied
<1>5. /\ file' \in [Device -> File] /\ held' \in [Device -> File \union {None}]
      /\ CursorsReal'
  <2> DEFINE f == [Seen(d) EXCEPT !.cursor = fetched[d].upto]
  <2>1. fetched[d].upto \in Nat /\ fetched[d].upto <= Len(feed)
    BY DEF CycleTypes, CursorsReal
  <2>2. f \in File /\ f.cursor = fetched[d].upto
    BY <2>1, SeenTypes DEF File
  <2>3. WriteState(d, f)
    BY DEF MarkChangesApplied
  <2> HIDE DEF f
  <2> QED
    BY <1>2, <1>4, <2>1, <2>2, <2>3, StateWritten
<1>6. FileTypes' /\ CycleTypes'
  BY <1>2, <1>3, <1>4, <1>5 DEF FileTypes, CycleTypes
<1>7. SnapshotsReal'
  BY <1>2, <1>3, <1>4, SnapshotsKept
<1> QED
  BY <1>1, <1>5, <1>6, <1>7

LEMMA LoseConnectionTypes ==
    ASSUME TypesInv, NEW d \in Device, LoseConnection(d)
    PROVE  TypesInv'
<1> USE DEF TypesInv
<1>1. CloudTypes' /\ FileTypes' /\ EditorTypes'
  BY DEF LoseConnection, cloudVars, fileVars, CloudTypes, FileTypes, EditorTypes
<1>2. BookTypes'
  BY FailureTypes DEF LoseConnection
<1>3. /\ cycle' \in [Device -> [stage: Stages, pull: BOOLEAN, again: BOOLEAN]]
      /\ cycle'[d].stage = "idle" /\ \A x \in Device \ {d} : cycle'[x] = cycle[x]
  BY Stopping DEF LoseConnection, CycleTypes
<1>4. /\ fetched' \in [Device -> [response: Response, from: Nat, upto: Nat,
                                  snapshot: [Page -> Nat]]]
      /\ \A x \in Device \ {d} : fetched'[x] = fetched[x]
      /\ \A x \in Device : fetched'[x].upto <= Len(feed)
  BY NothingLeft DEF LoseConnection
<1>5. held' = [held EXCEPT ![d] = None]
  BY DEF LoseConnection
<1>6. CycleTypes'
  BY <1>3, <1>4, <1>5 DEF LoseConnection, CycleTypes
<1>7. CursorsReal'
  BY <1>4, <1>5 DEF LoseConnection, CursorsReal, CycleTypes, cloudVars, fileVars
<1>8. SnapshotsReal'
  BY <1>3, <1>4, SnapshotsKept DEF LoseConnection, cloudVars
<1> QED
  BY <1>1, <1>2, <1>6, <1>7, <1>8

LEMMA CrashTypes ==
    ASSUME TypesInv, NEW d \in Device, Crash(d)
    PROVE  TypesInv'
<1> USE DEF TypesInv
<1>1. CloudTypes' /\ FileTypes'
  BY DEF Crash, cloudVars, fileVars, CloudTypes, FileTypes
<1>2. BookTypes'
  BY FailureTypes DEF Crash
<1>3. /\ cycle' \in [Device -> [stage: Stages, pull: BOOLEAN, again: BOOLEAN]]
      /\ cycle'[d].stage = "idle" /\ \A x \in Device \ {d} : cycle'[x] = cycle[x]
  BY Stopping DEF Crash, CycleTypes
<1>4. /\ fetched' \in [Device -> [response: Response, from: Nat, upto: Nat,
                                  snapshot: [Page -> Nat]]]
      /\ \A x \in Device \ {d} : fetched'[x] = fetched[x]
      /\ \A x \in Device : fetched'[x].upto <= Len(feed)
  BY NothingLeft DEF Crash
<1>5. /\ held' = [held EXCEPT ![d] = None]
      /\ tracker' = [tracker EXCEPT ![d] = NotRead]
      /\ queue' = [queue EXCEPT ![d] = <<>>]
      /\ editor' = [editor EXCEPT ![d] = Closed]
  BY DEF Crash
<1>6. CycleTypes'
  BY <1>3, <1>4, <1>5 DEF Crash, CycleTypes
<1>7. EditorTypes'
  <2>1. <<>> \in Seq([page: Page, edit: Edit])
    BY EmptySeq
  <2> QED
    BY <1>5, <2>1, ConstantTypes DEF EditorTypes
<1>8. CursorsReal'
  <2> SUFFICES ASSUME NEW x \in Device
               PROVE  /\ tracker'[x].file # None => tracker'[x].file.cursor <= Len(feed)
                      /\ held'[x] # None => held'[x].cursor <= Len(feed)
    BY <1>4 DEF Crash, CursorsReal, cloudVars, fileVars
  <2>1. tracker'[x] = tracker[x] \/ tracker'[x].file = None
    BY <1>5 DEF EditorTypes, NotRead
  <2>2. held'[x] = held[x] \/ held'[x] = None
    BY <1>5 DEF CycleTypes
  <2> QED
    BY <2>1, <2>2 DEF CursorsReal
<1>9. SnapshotsReal'
  BY <1>3, <1>4, SnapshotsKept DEF Crash, cloudVars
<1> QED
  BY <1>1, <1>2, <1>6, <1>7, <1>8, <1>9

LEMMA StepTypes == TypesInv /\ [Next]_vars => TypesInv'
<1> SUFFICES ASSUME TypesInv, [Next]_vars PROVE TypesInv'
  OBVIOUS
<1>1. CASE UNCHANGED vars
  BY <1>1 DEF vars, cloudVars, fileVars, appVars, bookVars, TypesInv, CloudTypes,
              FileTypes, EditorTypes, CycleTypes, BookTypes, CursorsReal,
              SnapshotsReal, Stage
<1>2. CASE Next
  <2> PICK d \in Device :
         \/ Edits(d) \/ Tracks(d) \/ StartCycle(d) \/ HoldState(d)
         \/ TrackerDone(d) /\ (Pushes(d) \/ Pulls(d))
         \/ ServerCommit(d) \/ LoseConnection(d) \/ Crash(d)
    BY <1>2 DEF Next
  <2>1. CASE Edits(d)
    BY <2>1, OpenTypes, CloseTypes, SaveTypes, AddPageTypes DEF Edits
  <2>2. CASE Tracks(d)
    BY <2>2, ReadMappingTypes, ReadStateTypes, TrackTypes DEF Tracks
  <2>3. CASE StartCycle(d) \/ HoldState(d)
    BY <2>3, StartCycleTypes, HoldStateTypes
  <2>4. CASE Pushes(d)
    BY <2>4, PrepareTypes, UpdateRemoteTypes, MarkCommitSucceededTypes,
       QueueMetadataTypes, UploadPagesTypes, ReplaceMappingsTypes, QueueLatestTypes,
       PushAgainTypes DEF Pushes
  <2>5. CASE Pulls(d)
    BY <2>5, ListChangesTypes, BootstrapTypes, ApplyIfSafeTypes, RebuildMappingsTypes,
       MarkChangesAppliedTypes DEF Pulls
  <2>6. CASE ServerCommit(d) \/ LoseConnection(d) \/ Crash(d)
    BY <2>6, ServerCommitTypes, LoseConnectionTypes, CrashTypes
  <2> QED
    BY <2>1, <2>2, <2>3, <2>4, <2>5, <2>6
<1> QED
  BY <1>1, <1>2

LEMMA TypesInvariant == Spec => []TypesInv
  BY InitTypes, StepTypes, PTL DEF Spec

\* The variables hold what the code keeps in them, whatever overlaps or fails; no
\* cursor ever runs ahead of the change feed.
THEOREM DeviceTypes == Spec => []TypeOK
  BY TypesInvariant, TypesInvGivesTypeOK, PTL

-----------------------------------------------------------------------------
(* Scenarios in which the writes of a device's files do not overlap.       *)

\* What kind of scenario it is stays as it was; the number of overlaps that are
\* left never grows.
LEMMA ScenarioKept ==
    ASSUME TypesInv, [Next]_vars
    PROVE  /\ budget'.parallel = budget.parallel
           /\ budget'.opensInPull = budget.opensInPull
           /\ budget'.endsUntracked = budget.endsUntracked
           /\ budget.overlaps = 0 => budget'.overlaps = 0
<1> DEFINE Same == /\ budget'.parallel = budget.parallel
                   /\ budget'.opensInPull = budget.opensInPull
                   /\ budget'.endsUntracked = budget.endsUntracked
                   /\ budget.overlaps = 0 => budget'.overlaps = 0
<1>1. budget \in Budget
  BY DEF TypesInv, BookTypes
<1>2. CASE budget' = budget
  BY <1>2
<1>3. CASE \E d \in Device : Save(d)
  BY <1>1, <1>3 DEF Save, Budget
<1>4. CASE \E d \in Device : AddPage(d)
  BY <1>1, <1>4 DEF AddPage, Budget
<1>5. CASE Overlap
  BY <1>1, <1>5 DEF Overlap, Budget
<1>6. CASE Failure
  BY <1>1, <1>6 DEF Failure, Budget
<1>7. \/ budget' = budget \/ Overlap \/ Failure
      \/ \E d \in Device : Save(d) \/ AddPage(d)
  <2>1. CASE UNCHANGED vars
    BY <2>1 DEF vars, bookVars
  <2>2. ASSUME NEW d \in Device,
               \/ Edits(d) \/ Tracks(d) \/ StartCycle(d) \/ HoldState(d)
               \/ ServerCommit(d) \/ LoseConnection(d) \/ Crash(d)
        PROVE  \/ budget' = budget \/ Overlap \/ Failure \/ Save(d) \/ AddPage(d)
    BY <2>2 DEF Edits, Open, Close, Tracks, ReadMapping, ReadState, Track, StartCycle,
                HoldState, ServerCommit, LoseConnection, Crash, bookVars
  <2>3. ASSUME NEW d \in Device, Pushes(d) \/ Pulls(d)
        PROVE  budget' = budget
    BY <2>3 DEF Pushes, Pulls, Prepare, UpdateRemote, MarkCommitSucceeded, QueueMetadata,
                UploadPages, ReplaceMappings, QueueLatestCreatedContent, PushAgain,
                ListChanges, Bootstrap, ApplyIfSafe, RebuildMappings,
                MarkChangesApplied, bookVars
  <2> QED
    BY <2>1, <2>2, <2>3 DEF Next
<1> QED
  BY <1>2, <1>3, <1>4, <1>5, <1>6, <1>7

\* Nothing is ever read of state.json without being written at once.
Calm ==
    /\ budget.overlaps = 0
    /\ \A d \in Device : held[d] = None /\ tracker[d] = NotRead

CalmInv == ~budget.parallel => Calm

LEMMA InitCalm == Init => CalmInv
<1>1. Init => budget \in Budget /\ (budget.overlaps > 0 => budget.parallel)
  BY DeviceAssumption DEF Init
<1>2. Init /\ ~budget.parallel => budget.overlaps = 0
  BY <1>1 DEF Budget
<1> QED
  BY <1>2 DEF CalmInv, Calm, Init

LEMMA StepCalm == TypesInv /\ CalmInv /\ [Next]_vars => CalmInv'
<1> SUFFICES ASSUME TypesInv, CalmInv, [Next]_vars, ~budget'.parallel
             PROVE  Calm'
  BY DEF CalmInv
<1>1. Calm /\ budget.overlaps = 0 /\ budget'.overlaps = 0
  BY ScenarioKept DEF CalmInv, Calm
<1>2. /\ held \in [Device -> File \union {None}]
      /\ tracker \in [Device -> [base: Nat, file: File \union {None}]]
  BY DEF TypesInv, EditorTypes, CycleTypes
<1>3. ~Overlap
  BY <1>1 DEF Overlap
<1>4. \/ held' = held
      \/ \E d \in Device : held' = [held EXCEPT ![d] = None]
  <2>1. CASE UNCHANGED vars
    BY <2>1 DEF vars, appVars
  <2>2. ASSUME NEW d \in Device,
               \/ Edits(d) \/ Tracks(d) \/ StartCycle(d) \/ HoldState(d)
               \/ ServerCommit(d) \/ LoseConnection(d) \/ Crash(d)
        PROVE  held' = held \/ held' = [held EXCEPT ![d] = None]
    BY <1>3, <2>2
       DEF Edits, Open, Close, Save, AddPage, Tracks, ReadMapping, ReadState, Track,
           StartCycle, HoldState, ServerCommit, LoseConnection, Crash
  <2>3. ASSUME NEW d \in Device, Pushes(d) \/ Pulls(d)
        PROVE  held' = held \/ held' = [held EXCEPT ![d] = None]
    BY <2>3 DEF Pushes, Pulls, Prepare, UpdateRemote, MarkCommitSucceeded, QueueMetadata,
                UploadPages, ReplaceMappings, QueueLatestCreatedContent, PushAgain,
                ListChanges, Bootstrap, ApplyIfSafe, RebuildMappings,
                MarkChangesApplied, WriteState
  <2> QED
    BY <2>1, <2>2, <2>3 DEF Next
<1>5. \/ tracker' = tracker
      \/ \E d \in Device : tracker' = [tracker EXCEPT ![d] = NotRead]
  <2>1. CASE UNCHANGED vars
    BY <2>1 DEF vars, appVars
  <2>2. ASSUME NEW d \in Device,
               \/ Edits(d) \/ Tracks(d) \/ StartCycle(d) \/ HoldState(d)
               \/ ServerCommit(d) \/ LoseConnection(d) \/ Crash(d)
        PROVE  tracker' = tracker \/ tracker' = [tracker EXCEPT ![d] = NotRead]
    BY <1>3, <2>2
       DEF Edits, Open, Close, Save, AddPage, Tracks, ReadMapping, ReadState, Track,
           StartCycle, HoldState, ServerCommit, LoseConnection, Crash
  <2>3. ASSUME NEW d \in Device, Pushes(d) \/ Pulls(d)
        PROVE  tracker' = tracker
    BY <2>3 DEF Pushes, Pulls, Prepare, UpdateRemote, MarkCommitSucceeded, QueueMetadata,
                UploadPages, ReplaceMappings, QueueLatestCreatedContent, PushAgain,
                ListChanges, Bootstrap, ApplyIfSafe, RebuildMappings, MarkChangesApplied
  <2> QED
    BY <2>1, <2>2, <2>3 DEF Next
<1> QED
  BY <1>1, <1>2, <1>4, <1>5 DEF Calm

LEMMA CalmInvariant == Spec => []CalmInv
  BY InitCalm, StepCalm, TypesInvariant, PTL DEF Spec

\* Without overlaps the cycle works on what is in state.json, and the tracker
\* adds to it.
LEMMA CalmReads ==
    ASSUME Calm, NEW d \in Device
    PROVE  Seen(d) = file[d] /\ tracker[d].file = None
                             /\ Base(d) = mapping[d][Head(queue[d]).page]
  BY DEF Calm, Seen, Base, NotRead

-----------------------------------------------------------------------------
(* The cursor and the mapping.                                             *)

\* The revisions m cover the first n events of a feed.
Covers(f, m, n) == \A i \in 1..n : f[i][2] <= m[f[i][1]]

\* What a response says was applied covers the first n events of a feed.
AnswerCovers(f, x, n) == \A i \in 1..n :
    x.results[f[i][1]].outcome = "applied" => f[i][2] <= x.results[f[i][1]].revision

\* The feed tells of revisions that exist.
FeedReal == \A i \in 1..Len(feed) : feed[i][2] <= Len(versions[feed[i][1]])

\* The mapping of a device covers its cursor.  So does the answer to the batch
\* it has frozen, which the mapping takes over; no batch is frozen while the
\* device works on changes, and the bootstrap it takes over covers the cursor
\* and what the cursor moves to.
DeviceCovered(d) ==
    /\ Covers(feed, mapping[d], file[d].cursor)
    /\ file[d].batch # NoBatch => \A x \in answered[d] :
          x.key = file[d].batch.key => AnswerCovers(feed, x, file[d].cursor)
    /\ Stage(d) = "sent" => file[d].batch # NoBatch /\ wire[d] = file[d].batch
    /\ Stage(d) = "answered" => /\ file[d].batch # NoBatch
                                /\ fetched[d].response \in answered[d]
                                /\ fetched[d].response.key = file[d].batch.key
    /\ Stage(d) \in {"listed", "apply", "applied", "advance"} => file[d].batch = NoBatch
    /\ Stage(d) \in {"apply", "applied"} =>
          /\ Covers(feed, fetched[d].snapshot, file[d].cursor)
          /\ Covers(feed, fetched[d].snapshot, fetched[d].upto)
    /\ Stage(d) = "advance" => Covers(feed, mapping[d], fetched[d].upto)

Covered == FeedReal /\ \A d \in Device : DeviceCovered(d)

CoveredInv == ~budget.parallel => Covered

\* An event tells a page and a revision.
LEMMA EventsTyped ==
    ASSUME NEW f \in Seq(Page \X Nat)
    PROVE  /\ Len(f) \in Nat
           /\ \A i \in 1..Len(f) : f[i][1] \in Page /\ f[i][2] \in Nat
<1>1. Len(f) \in Nat /\ \A i \in 1..Len(f) : f[i] \in Page \X Nat
  BY ElementOfSeq, LenProperties
<1> QED
  BY <1>1

\* The feed only grows.
FeedGrows == Len(feed') >= Len(feed) /\ \A i \in 1..Len(feed) : feed'[i] = feed[i]

LEMMA CoversKept ==
    ASSUME CloudTypes, CloudTypes', FeedGrows, NEW m, NEW n \in Nat, n <= Len(feed)
    PROVE  Covers(feed, m, n) => Covers(feed', m, n)
<1>1. Len(feed) \in Nat
  BY DEF CloudTypes
<1>2. \A i \in 1..n : feed'[i] = feed[i]
  BY <1>1 DEF FeedGrows
<1> QED
  BY <1>2 DEF Covers

LEMMA AnswerCoversKept ==
    ASSUME CloudTypes, CloudTypes', FeedGrows, NEW x, NEW n \in Nat, n <= Len(feed)
    PROVE  AnswerCovers(feed, x, n) => AnswerCovers(feed', x, n)
<1>1. Len(feed) \in Nat
  BY DEF CloudTypes
<1>2. \A i \in 1..n : feed'[i] = feed[i]
  BY <1>1 DEF FeedGrows
<1> QED
  BY <1>2 DEF AnswerCovers

LEMMA InitCovered == Init => CoveredInv
<1> SUFFICES ASSUME Init PROVE Covered
  BY DEF CoveredInv
<1>1. Len(feed) = 0
  BY DEF Init
<1>2. FeedReal
  BY <1>1 DEF FeedReal
<1>3. ASSUME NEW d \in Device PROVE DeviceCovered(d)
  BY DEF Init, DeviceCovered, Covers, Stage, Idle
<1> QED
  BY <1>2, <1>3 DEF Covered

\* A step that leaves what a device knows alone, whatever the others do.
LEMMA OthersCovered ==
    ASSUME TypesInv, TypesInv', FeedGrows, NEW x \in Device, DeviceCovered(x),
           file'[x].batch = file[x].batch, file'[x].cursor = file[x].cursor,
           mapping'[x] = mapping[x], fetched'[x] = fetched[x],
           \/ cycle'[x].stage = cycle[x].stage
           \/ cycle'[x].stage \notin {"sent", "answered", "listed", "apply", "applied",
                                      "advance"},
           cycle'[x].stage = "sent" => wire'[x] = wire[x],
           answered'[x] = answered[x]
    PROVE  DeviceCovered(x)'
<1>1. CloudTypes /\ CloudTypes'
  BY DEF TypesInv
<1>2. /\ file[x].cursor \in Nat /\ fetched[x].upto \in Nat
      /\ file[x].cursor <= Len(feed) /\ fetched[x].upto <= Len(feed)
  BY DEF TypesInv, FileTypes, CycleTypes, File, CursorsReal
<1>3. /\ \A m : Covers(feed, m, file[x].cursor) => Covers(feed', m, file[x].cursor)
      /\ \A m : Covers(feed, m, fetched[x].upto) => Covers(feed', m, fetched[x].upto)
      /\ \A r : AnswerCovers(feed, r, file[x].cursor) =>
                AnswerCovers(feed', r, file[x].cursor)
  BY <1>1, <1>2, CoversKept, AnswerCoversKept
<1> QED
  BY <1>3 DEF DeviceCovered, Stage

\* A step of one device alone, which reads the cloud at most.
Alone(d) ==
    /\ UNCHANGED <<versions, feed, answered>>
    /\ \A x \in Device \ {d} : /\ file'[x] = file[x] /\ mapping'[x] = mapping[x]
                               /\ fetched'[x] = fetched[x] /\ cycle'[x] = cycle[x]
                               /\ wire'[x] = wire[x]

LEMMA AloneCovered ==
    ASSUME TypesInv, TypesInv', Covered, NEW d \in Device, Alone(d), DeviceCovered(d)'
    PROVE  Covered'
<1>1. FeedGrows
  BY DEF Alone, FeedGrows, TypesInv, CloudTypes
<1>2. FeedReal'
  BY DEF Covered, FeedReal, Alone
<1>3. ASSUME NEW x \in Device \ {d} PROVE DeviceCovered(x)'
  BY <1>1, OthersCovered DEF Alone, Covered
<1> QED
  BY <1>2, <1>3 DEF Covered

\* A step that is of no consequence for what the device has covered.
LEMMA QuietCovered ==
    ASSUME TypesInv, TypesInv', Covered, NEW d \in Device, Alone(d),
           file'[d].batch = file[d].batch, file'[d].cursor = file[d].cursor,
           mapping'[d] = mapping[d],
           \/ cycle'[d].stage = cycle[d].stage /\ fetched'[d] = fetched[d]
                                               /\ wire'[d] = wire[d]
           \/ cycle'[d].stage \notin {"sent", "answered", "listed", "apply", "applied",
                                      "advance"}
    PROVE  Covered'
<1>1. FeedGrows /\ answered' = answered
  BY DEF Alone, FeedGrows, TypesInv, CloudTypes
<1>2. CASE cycle'[d].stage = cycle[d].stage /\ fetched'[d] = fetched[d] /\ wire'[d] = wire[d]
  BY <1>1, <1>2, OthersCovered, AloneCovered DEF Covered
<1>3. CASE cycle'[d].stage \notin {"sent", "answered", "listed", "apply", "applied", "advance"}
  <2>1. feed' = feed /\ DeviceCovered(d)
    BY DEF Alone, Covered
  <2>2. DeviceCovered(d)'
    BY <1>1, <1>3, <2>1 DEF DeviceCovered, Stage
  <2> QED
    BY <2>2, AloneCovered
<1> QED
  BY <1>2, <1>3

LEMMA EditsCovered ==
    ASSUME TypesInv, TypesInv', Covered, NEW d \in Device, Edits(d)
    PROVE  Covered'
<1>1. UNCHANGED <<versions, feed, answered, file, mapping, fetched, cycle, wire>>
  BY DEF Edits, Open, Close, Save, AddPage, cloudVars, fileVars
<1>2. Alone(d)
  BY <1>1 DEF Alone
<1> QED
  BY <1>1, <1>2, QuietCovered

LEMMA TrackCovered ==
    ASSUME TypesInv, TypesInv', Calm, Covered, NEW d \in Device, Track(d)
    PROVE  Covered'
<1>1. UNCHANGED <<versions, feed, answered, mapping, fetched, cycle, wire>>
  BY DEF Track, cloudVars
<1>2. PICK q, op : file' = [file EXCEPT ![d] = [file[d] EXCEPT !.pending[q] = op]]
  <2>1. tracker[d].file = None
    BY CalmReads
  <2> QED
    BY <2>1 DEF Track
<1>3. /\ file'[d].batch = file[d].batch /\ file'[d].cursor = file[d].cursor
      /\ \A x \in Device \ {d} : file'[x] = file[x]
  <2>1. file[d] \in File
    BY DEF TypesInv, FileTypes
  <2>2. /\ [file[d] EXCEPT !.pending[q] = op].batch = file[d].batch
        /\ [file[d] EXCEPT !.pending[q] = op].cursor = file[d].cursor
    BY <2>1 DEF File
  <2> QED
    BY <1>2, <2>2 DEF TypesInv, FileTypes
<1>4. Alone(d)
  BY <1>1, <1>3 DEF Alone
<1> QED
  BY <1>1, <1>3, <1>4, QuietCovered

\* Steps of the cycle that write neither the mapping nor the batch nor the cursor.
LEMMA CycleCovered ==
    ASSUME TypesInv, TypesInv', Covered, NEW d \in Device,
           \/ StartCycle(d) \/ UploadPages(d) \/ QueueLatestCreatedContent(d)
           \/ PushAgain(d) \/ LoseConnection(d) \/ Crash(d)
    PROVE  Covered'
<1>1. UNCHANGED <<versions, feed, answered, file, mapping, wire>>
  BY DEF StartCycle, UploadPages, QueueLatestCreatedContent, PushAgain, LoseConnection,
         Crash, cloudVars, fileVars
<1>2. fetched' = fetched \/ fetched' = [fetched EXCEPT ![d] = NothingFetched]
  BY DEF StartCycle, UploadPages, QueueLatestCreatedContent, PushAgain, LoseConnection,
         Crash
<1>3. cycle \in [Device -> [stage: Stages, pull: BOOLEAN, again: BOOLEAN]]
  BY DEF TypesInv, CycleTypes
<1>4. /\ \A x \in Device \ {d} : cycle'[x] = cycle[x]
      /\ cycle'[d].stage \in {"push", "remap", "pull", "drain", "idle"}
  <2>1. CASE StartCycle(d)
    BY <1>3, <2>1 DEF StartCycle
  <2>2. CASE UploadPages(d)
    BY <1>3, <2>2, GoingTo, Stopping DEF UploadPages, Stages
  <2>3. CASE QueueLatestCreatedContent(d)
    BY <1>3, <2>3, GoingTo DEF QueueLatestCreatedContent, Stages
  <2>4. CASE PushAgain(d)
    BY <1>3, <2>4 DEF PushAgain
  <2>5. CASE LoseConnection(d) \/ Crash(d)
    BY <1>3, <2>5, Stopping DEF LoseConnection, Crash
  <2> QED
    BY <2>1, <2>2, <2>3, <2>4, <2>5
<1>5. \A x \in Device \ {d} : fetched'[x] = fetched[x]
  BY <1>2 DEF TypesInv, CycleTypes
<1>6. Alone(d)
  BY <1>1, <1>4, <1>5 DEF Alone
<1> QED
  BY <1>1, <1>4, <1>6, QuietCovered

LEMMA QueueMetadataCovered ==
    ASSUME TypesInv, TypesInv', Calm, Covered, NEW d \in Device, QueueMetadata(d)
    PROVE  Covered'
<1>1. UNCHANGED <<versions, feed, answered, mapping, fetched, wire>>
  BY DEF QueueMetadata, cloudVars
<1>2. /\ cycle'[d].stage = "push" /\ \A x \in Device \ {d} : cycle'[x] = cycle[x]
  BY GoingTo DEF QueueMetadata, TypesInv, CycleTypes, Stages
<1>3. /\ file'[d].batch = file[d].batch /\ file'[d].cursor = file[d].cursor
      /\ \A x \in Device \ {d} : file'[x] = file[x]
  <2>1. PICK ops : file' = [file EXCEPT ![d] = [file[d] EXCEPT !.pending = ops]]
    BY CalmReads DEF QueueMetadata, WriteState
  <2>2. file[d] \in File
    BY DEF TypesInv, FileTypes
  <2>3. /\ [file[d] EXCEPT !.pending = ops].batch = file[d].batch
        /\ [file[d] EXCEPT !.pending = ops].cursor = file[d].cursor
    BY <2>2 DEF File
  <2> QED
    BY <2>1, <2>3 DEF TypesInv, FileTypes
<1>4. Alone(d)
  BY <1>1, <1>2, <1>3 DEF Alone
<1> QED
  BY <1>1, <1>2, <1>3, <1>4, QuietCovered

\* A batch that is frozen anew has a key no answer has.
LEMMA PrepareCovered ==
    ASSUME TypesInv, TypesInv', Calm, Covered, NEW d \in Device, Prepare(d)
    PROVE  Covered'
<1>1. UNCHANGED <<versions, feed, answered, mapping, fetched>>
  BY DEF Prepare, cloudVars
<1>2. Seen(d) = file[d] /\ file[d] \in File /\ wire[d].key \in Nat
  BY CalmReads DEF TypesInv, FileTypes, CycleTypes, Batch
<1>3. CASE GoTo(d, "pages") /\ WriteState(d, file[d]) /\ UNCHANGED wire
  <2>1. /\ cycle'[d].stage = "pages" /\ \A x \in Device \ {d} : cycle'[x] = cycle[x]
    BY <1>3, GoingTo DEF TypesInv, CycleTypes, Stages
  <2>2. file' = file
    BY <1>3 DEF WriteState, TypesInv, FileTypes
  <2>3. Alone(d)
    BY <1>1, <1>3, <2>1, <2>2 DEF Alone
  <2> QED
    BY <1>1, <2>1, <2>2, <2>3, QuietCovered
<1>4. ASSUME NEW f \in File,
             /\ GoTo(d, "sent") /\ WriteState(d, f)
             /\ wire' = [wire EXCEPT ![d] = f.batch]
             /\ f.cursor = file[d].cursor,
             \/ file[d].batch # NoBatch /\ f = file[d]
             \/ /\ file[d].batch = NoBatch
                /\ f.batch = [key |-> FreshKey(d), ops |-> file[d].pending]
                /\ FreshKey(d) \in Nat /\ FreshKey(d) > wire[d].key
                /\ \A x \in answered[d] : FreshKey(d) > x.key
      PROVE  Covered'
  <2>1. /\ cycle'[d].stage = "sent" /\ \A x \in Device \ {d} : cycle'[x] = cycle[x]
    BY <1>4, GoingTo DEF TypesInv, CycleTypes, Stages
  <2>2. /\ file'[d] = f /\ \A x \in Device \ {d} : file'[x] = file[x]
        /\ wire'[d] = f.batch /\ \A x \in Device \ {d} : wire'[x] = wire[x]
    BY <1>4 DEF WriteState, TypesInv, FileTypes, CycleTypes
  <2>3. Alone(d)
    BY <1>1, <2>1, <2>2 DEF Alone
  <2>4. f.batch # NoBatch
    <3>1. CASE file[d].batch = NoBatch
      BY <1>2, <1>4, <3>1 DEF NoBatch
    <3> QED
      BY <1>4, <3>1
  <2>5. \A x \in answered[d] : x.key = f.batch.key => AnswerCovers(feed, x, f.cursor)
    <3>1. CASE f = file[d]
      BY <2>4, <3>1 DEF Covered, DeviceCovered
    <3>2. CASE f.batch.key = FreshKey(d) /\ \A x \in answered[d] : FreshKey(d) > x.key
      <4>1. \A x \in answered[d] : x.key \in Nat
        BY DEF TypesInv, CloudTypes, Response
      <4> QED
        BY <3>2, <4>1
    <3> QED
      BY <1>4, <3>1, <3>2
  <2>6. Covers(feed, mapping[d], f.cursor)
    BY <1>4 DEF Covered, DeviceCovered
  <2>7. DeviceCovered(d)'
    BY <1>1, <2>1, <2>2, <2>4, <2>5, <2>6 DEF DeviceCovered, Stage
  <2> QED
    BY <2>3, <2>7, AloneCovered
<1> QED
  BY <1>2, <1>3, <1>4, Prepared

\* The answer to a new batch tells the last revisions of its pages, which no
\* event is ahead of; a batch that was committed before is answered as then.
LEMMA ServerCommitCovered ==
    ASSUME TypesInv, TypesInv', Covered, NEW d \in Device, ServerCommit(d)
    PROVE  Covered'
<1>1. /\ CloudTypes /\ CloudTypes' /\ wire \in [Device -> Batch]
      /\ UNCHANGED <<file, mapping>>
  BY DEF TypesInv, CycleTypes, ServerCommit, fileVars
<1>2. /\ \A p \in Page : Len(versions'[p]) >= Len(versions[p])
      /\ FeedGrows
      /\ \A i \in 1..Len(feed') : i > Len(feed) =>
            feed'[i][2] = Len(versions'[feed'[i][1]])
      /\ \A x \in Device \ {d} : answered'[x] = answered[x]
      /\ \E r \in answered'[d] : r.key = wire[d].key
      /\ \A r \in answered'[d] \ answered[d] :
            \A p \in Page : r.results[p].outcome # "none" =>
               r.results[p].revision = Len(versions'[p])
  BY <1>1, Committed DEF FeedGrows
<1>3. /\ Len(feed) \in Nat /\ Len(feed') \in Nat
      /\ \A i \in 1..Len(feed) : feed[i][1] \in Page /\ feed[i][2] \in Nat
      /\ \A i \in 1..Len(feed') : feed'[i][1] \in Page /\ feed'[i][2] \in Nat
      /\ \A p \in Page : Len(versions[p]) \in Nat /\ Len(versions'[p]) \in Nat
  <2>1. feed \in Seq(Page \X Nat) /\ feed' \in Seq(Page \X Nat)
    BY <1>1 DEF CloudTypes
  <2>2. \A p \in Page : Len(versions[p]) \in Nat /\ Len(versions'[p]) \in Nat
    <3>1. \A p \in Page : versions[p] \in Seq(Edit) /\ versions'[p] \in Seq(Edit)
      BY <1>1 DEF CloudTypes
    <3> QED
      BY <3>1
  <2> QED
    BY <2>1, <2>2, EventsTyped
<1>4. FeedReal'
  <2> SUFFICES ASSUME NEW i \in 1..Len(feed')
               PROVE  feed'[i][2] <= Len(versions'[feed'[i][1]])
    BY DEF FeedReal
  <2>1. CASE i <= Len(feed)
    <3>1. i \in 1..Len(feed) /\ feed'[i] = feed[i]
      BY <1>2, <1>3, <2>1 DEF FeedGrows
    <3>2. feed[i][2] <= Len(versions[feed[i][1]])
      BY <3>1 DEF Covered, FeedReal
    <3> QED
      BY <1>2, <1>3, <3>1, <3>2
  <2>2. CASE i > Len(feed)
    BY <1>2, <1>3, <2>2
  <2> QED
    BY <1>3, <2>1, <2>2
<1>5. ASSUME NEW r \in answered'[d] \ answered[d], NEW n \in Nat, n <= Len(feed')
      PROVE  AnswerCovers(feed', r, n)
  <2> SUFFICES ASSUME NEW i \in 1..n, r.results[feed'[i][1]].outcome = "applied"
               PROVE  feed'[i][2] <= r.results[feed'[i][1]].revision
    BY DEF AnswerCovers
  <2>1. i \in 1..Len(feed') /\ feed'[i][1] \in Page
    BY <1>3, <1>5
  <2>2. r.results[feed'[i][1]].revision = Len(versions'[feed'[i][1]])
    BY <1>2, <2>1
  <2> QED
    BY <1>4, <2>1, <2>2 DEF FeedReal
<1>6. \A x \in Device \ {d} : cycle'[x] = cycle[x] /\ fetched'[x] = fetched[x]
                                                /\ wire'[x] = wire[x]
  BY GoingTo DEF ServerCommit, TypesInv, CycleTypes, Stages
<1>7. ASSUME NEW x \in Device \ {d} PROVE DeviceCovered(x)'
  BY <1>1, <1>2, <1>6, <1>7, OthersCovered DEF Covered
<1>8. DeviceCovered(d)'
  <2> DEFINE n == file[d].cursor
  <2>1. /\ n \in Nat /\ n <= Len(feed) /\ n <= Len(feed')
        /\ fetched[d].upto \in Nat /\ fetched[d].upto <= Len(feed)
    <3>1. n \in Nat /\ n <= Len(feed) /\ fetched[d].upto \in Nat
                    /\ fetched[d].upto <= Len(feed)
      BY DEF TypesInv, FileTypes, CycleTypes, File, CursorsReal
    <3> QED
      BY <1>2, <1>3, <3>1 DEF FeedGrows
  <2>2. /\ \A m : Covers(feed, m, n) => Covers(feed', m, n)
        /\ \A m : Covers(feed, m, fetched[d].upto) => Covers(feed', m, fetched[d].upto)
        /\ \A r : AnswerCovers(feed, r, n) => AnswerCovers(feed', r, n)
    BY <1>1, <1>2, <2>1, CoversKept, AnswerCoversKept
  <2>3. file[d].batch # NoBatch => \A r \in answered'[d] :
            r.key = file[d].batch.key => AnswerCovers(feed', r, n)
    BY <1>5, <2>1, <2>2 DEF Covered, DeviceCovered
  <2>4. CASE Stage(d) = "sent"
    <3> DEFINE r == CHOOSE x \in answered'[d] : x.key = wire[d].key
    <3>1. r \in answered'[d] /\ r.key = wire[d].key
      BY <1>2
    <3>2. GoTo(d, "answered") /\ fetched' = [fetched EXCEPT ![d].response = r]
      BY <2>4 DEF ServerCommit
    <3> HIDE DEF r
    <3>3. cycle'[d].stage = "answered" /\ fetched'[d].response = r
      BY <3>2, GoingTo DEF TypesInv, CycleTypes, Stages
    <3>4. file[d].batch # NoBatch /\ wire[d] = file[d].batch
          /\ Covers(feed, mapping[d], n)
      BY <2>4 DEF Covered, DeviceCovered
    <3> QED
      BY <1>1, <2>2, <2>3, <3>1, <3>3, <3>4 DEF DeviceCovered, Stage
  <2>5. CASE Stage(d) # "sent"
    <3>1. UNCHANGED <<cycle, fetched>>
      BY <2>5 DEF ServerCommit
    <3>2. answered[d] \subseteq answered'[d]
      BY <1>1, Committed
    <3>3. DeviceCovered(d)
      BY DEF Covered
    <3> QED
      BY <1>1, <2>2, <2>3, <2>5, <3>1, <3>2, <3>3 DEF DeviceCovered, Stage
  <2> QED
    BY <2>4, <2>5
<1> QED
  BY <1>4, <1>7, <1>8 DEF Covered

LEMMA UpdateRemoteCovered ==
    ASSUME TypesInv, TypesInv', Covered, NEW d \in Device, UpdateRemote(d)
    PROVE  Covered'
<1> DEFINE m == [p \in Page |-> IF Results(d)[p].outcome = "applied"
                                THEN Results(d)[p].revision ELSE mapping[d][p]]
<1>1. /\ UNCHANGED <<versions, feed, answered, file, fetched, wire>>
      /\ mapping' = [mapping EXCEPT ![d] = m]
  BY DEF UpdateRemote, cloudVars
<1>2. /\ cycle'[d].stage = "mapped" /\ \A x \in Device \ {d} : cycle'[x] = cycle[x]
  BY GoingTo DEF UpdateRemote, TypesInv, CycleTypes, Stages
<1>3. mapping'[d] = m /\ \A x \in Device \ {d} : mapping'[x] = mapping[x]
  BY <1>1 DEF TypesInv, FileTypes
<1>4. Alone(d)
  BY <1>1, <1>2, <1>3 DEF Alone
<1>5. /\ Covers(feed, mapping[d], file[d].cursor)
      /\ AnswerCovers(feed, fetched[d].response, file[d].cursor)
  BY DEF UpdateRemote, Covered, DeviceCovered
<1>6. Covers(feed, m, file[d].cursor)
  <2> SUFFICES ASSUME NEW i \in 1..file[d].cursor
               PROVE  feed[i][2] <= m[feed[i][1]]
    BY DEF Covers
  <2>1. feed[i][1] \in Page
    <3>1. i \in 1..Len(feed)
      BY DEF TypesInv, FileTypes, File, CursorsReal, CloudTypes
    <3> QED
      BY <3>1, EventsTyped DEF TypesInv, CloudTypes
  <2> QED
    BY <1>5, <2>1 DEF Covers, AnswerCovers, Results
<1>7. DeviceCovered(d)'
  <2>1. DeviceCovered(d)
    BY DEF Covered
  <2> QED
    BY <1>1, <1>2, <1>3, <1>6, <2>1 DEF DeviceCovered, Stage
<1> QED
  BY <1>4, <1>7, AloneCovered

LEMMA MarkCommitSucceededCovered ==
    ASSUME TypesInv, TypesInv', Calm, Covered, NEW d \in Device, MarkCommitSucceeded(d)
    PROVE  Covered'
<1>1. UNCHANGED <<versions, feed, answered, mapping, fetched, wire>>
  BY DEF MarkCommitSucceeded, cloudVars
<1>2. /\ cycle'[d].stage \in {"follow", "idle"}
      /\ \A x \in Device \ {d} : cycle'[x] = cycle[x]
  BY GoingTo, Stopping DEF MarkCommitSucceeded, TypesInv, CycleTypes, Stages
<1>3. /\ file'[d].batch = file[d].batch \/ file'[d].batch = NoBatch
      /\ file'[d].cursor = file[d].cursor
      /\ \A x \in Device \ {d} : file'[x] = file[x]
  <2>1. CASE file' = file
    BY <2>1
  <2>2. CASE \E ops : file' = [file EXCEPT ![d] = [file[d] EXCEPT !.pending = ops,
                                                                  !.batch = NoBatch]]
    <3>1. PICK ops : file' = [file EXCEPT ![d] = [file[d] EXCEPT !.pending = ops,
                                                                 !.batch = NoBatch]]
      BY <2>2
    <3>2. file[d] \in File
      BY DEF TypesInv, FileTypes
    <3> DEFINE f == [file[d] EXCEPT !.pending = ops, !.batch = NoBatch]
    <3>3. f.batch = NoBatch /\ f.cursor = file[d].cursor
      BY <3>2 DEF File
    <3> QED
      BY <3>1, <3>3 DEF TypesInv, FileTypes
  <2> QED
    BY <2>1, <2>2, CalmReads DEF MarkCommitSucceeded, WriteState
<1>4. Alone(d)
  BY <1>1, <1>2, <1>3 DEF Alone
<1>5. DeviceCovered(d)'
  <2>1. DeviceCovered(d)
    BY DEF Covered
  <2> QED
    BY <1>1, <1>2, <1>3, <2>1 DEF DeviceCovered, Stage
<1> QED
  BY <1>4, <1>5, AloneCovered

\* A bootstrap covers the whole feed.
LEMMA SnapshotCovers ==
    ASSUME TypesInv, FeedReal, NEW n \in Nat, n <= Len(feed)
    PROVE  Covers(feed, Snapshot, n)
<1> SUFFICES ASSUME NEW i \in 1..n PROVE feed[i][2] <= Snapshot[feed[i][1]]
  BY DEF Covers
<1>1. i \in 1..Len(feed)
  BY DEF TypesInv, CloudTypes
<1>2. feed[i][1] \in Page
  BY <1>1, ElementOfSeq DEF TypesInv, CloudTypes
<1> QED
  BY <1>1, <1>2, SnapshotTypes DEF FeedReal, TypesInv

LEMMA ReplaceMappingsCovered ==
    ASSUME TypesInv, TypesInv', Covered, NEW d \in Device, ReplaceMappings(d)
    PROVE  Covered'
<1>1. /\ UNCHANGED <<versions, feed, answered, file, fetched, wire>>
      /\ mapping' = [mapping EXCEPT ![d] = Snapshot]
  BY DEF ReplaceMappings, cloudVars
<1>2. /\ cycle'[d].stage = "requeue" /\ \A x \in Device \ {d} : cycle'[x] = cycle[x]
  BY GoingTo DEF ReplaceMappings, TypesInv, CycleTypes, Stages
<1>3. mapping'[d] = Snapshot /\ \A x \in Device \ {d} : mapping'[x] = mapping[x]
  BY <1>1 DEF TypesInv, FileTypes
<1>4. Alone(d)
  BY <1>1, <1>2, <1>3 DEF Alone
<1>5. Covers(feed, Snapshot, file[d].cursor)
  BY SnapshotCovers DEF Covered, TypesInv, FileTypes, File, CursorsReal
<1>6. DeviceCovered(d)'
  <2>1. DeviceCovered(d)
    BY DEF Covered
  <2> QED
    BY <1>1, <1>2, <1>3, <1>5, <2>1 DEF DeviceCovered, Stage
<1> QED
  BY <1>4, <1>6, AloneCovered

LEMMA ListChangesCovered ==
    ASSUME TypesInv, TypesInv', Covered, NEW d \in Device, ListChanges(d)
    PROVE  Covered'
<1>1. UNCHANGED <<versions, feed, answered, file, mapping, wire>>
  BY DEF ListChanges, cloudVars, fileVars
<1>2. /\ \/ cycle'[d].stage = "idle"
         \/ cycle'[d].stage = "listed" /\ file[d].batch = NoBatch
      /\ \A x \in Device \ {d} : cycle'[x] = cycle[x]
  BY GoingTo, Stopping DEF ListChanges, HasPendingWork, TypesInv, CycleTypes, Stages
<1>3. \A x \in Device \ {d} : fetched'[x] = fetched[x]
  BY DEF ListChanges, TypesInv, CycleTypes
<1>4. Alone(d)
  BY <1>1, <1>2, <1>3 DEF Alone
<1>5. DeviceCovered(d)'
  <2>1. DeviceCovered(d)
    BY DEF Covered
  <2> QED
    BY <1>1, <1>2, <2>1 DEF DeviceCovered, Stage
<1> QED
  BY <1>4, <1>5, AloneCovered

LEMMA BootstrapCovered ==
    ASSUME TypesInv, TypesInv', Covered, NEW d \in Device, Bootstrap(d)
    PROVE  Covered'
<1>1. UNCHANGED <<versions, feed, answered, file, mapping, wire>>
  BY DEF Bootstrap, cloudVars, fileVars
<1>2. /\ cycle'[d].stage = "apply" /\ \A x \in Device \ {d} : cycle'[x] = cycle[x]
  BY GoingTo DEF Bootstrap, TypesInv, CycleTypes, Stages
<1>3. /\ fetched'[d].snapshot = Snapshot /\ fetched'[d].upto = fetched[d].upto
      /\ \A x \in Device \ {d} : fetched'[x] = fetched[x]
  BY DEF Bootstrap, TypesInv, CycleTypes
<1>4. Alone(d)
  BY <1>1, <1>2, <1>3 DEF Alone
<1>5. /\ Covers(feed, Snapshot, file[d].cursor)
      /\ Covers(feed, Snapshot, fetched[d].upto)
  BY SnapshotCovers DEF Covered, TypesInv, FileTypes, CycleTypes, File, CursorsReal
<1>6. DeviceCovered(d)'
  <2>1. DeviceCovered(d) /\ file[d].batch = NoBatch
    BY DEF Covered, DeviceCovered, Bootstrap
  <2> QED
    BY <1>1, <1>2, <1>3, <1>5, <2>1 DEF DeviceCovered, Stage
<1> QED
  BY <1>4, <1>6, AloneCovered

LEMMA ApplyIfSafeCovered ==
    ASSUME TypesInv, TypesInv', Covered, NEW d \in Device, ApplyIfSafe(d)
    PROVE  Covered'
<1>1. UNCHANGED <<versions, feed, answered, file, mapping, wire, fetched>>
  BY DEF ApplyIfSafe, cloudVars
<1>2. /\ cycle'[d].stage \in {"applied", "idle"}
      /\ \A x \in Device \ {d} : cycle'[x] = cycle[x]
  BY GoingTo, Stopping DEF ApplyIfSafe, TypesInv, CycleTypes, Stages
<1>3. Alone(d)
  BY <1>1, <1>2 DEF Alone
<1>4. DeviceCovered(d)'
  <2>1. DeviceCovered(d) /\ Stage(d) = "apply"
    BY DEF Covered, ApplyIfSafe
  <2> QED
    BY <1>1, <1>2, <2>1 DEF DeviceCovered, Stage
<1> QED
  BY <1>3, <1>4, AloneCovered

LEMMA RebuildMappingsCovered ==
    ASSUME TypesInv, TypesInv', Covered, NEW d \in Device, RebuildMappings(d)
    PROVE  Covered'
<1>1. /\ UNCHANGED <<versions, feed, answered, file, fetched, wire>>
      /\ mapping' = [mapping EXCEPT ![d] = fetched[d].snapshot]
  BY DEF RebuildMappings, cloudVars
<1>2. /\ cycle'[d].stage = "advance" /\ \A x \in Device \ {d} : cycle'[x] = cycle[x]
  BY GoingTo DEF RebuildMappings, TypesInv, CycleTypes, Stages
<1>3. /\ mapping'[d] = fetched[d].snapshot
      /\ \A x \in Device \ {d} : mapping'[x] = mapping[x]
  BY <1>1 DEF TypesInv, FileTypes
<1>4. Alone(d)
  BY <1>1, <1>2, <1>3 DEF Alone
<1>5. DeviceCovered(d)'
  <2>1. DeviceCovered(d) /\ Stage(d) = "applied"
    BY DEF Covered, RebuildMappings
  <2> QED
    BY <1>1, <1>2, <1>3, <2>1 DEF DeviceCovered, Stage
<1> QED
  BY <1>4, <1>5, AloneCovered

LEMMA MarkChangesAppliedCovered ==
    ASSUME TypesInv, TypesInv', Calm, Covered, NEW d \in Device, MarkChangesApplied(d)
    PROVE  Covered'
<1>1. UNCHANGED <<versions, feed, answered, mapping, wire>>
  BY DEF MarkChangesApplied, cloudVars
<1>2. /\ cycle'[d].stage = "idle" /\ \A x \in Device \ {d} : cycle'[x] = cycle[x]
  BY Stopping DEF MarkChangesApplied, TypesInv, CycleTypes
<1>3. \A x \in Device \ {d} : fetched'[x] = fetched[x]
  BY NothingLeft DEF MarkChangesApplied
<1>4. /\ file'[d].batch = file[d].batch /\ file'[d].cursor = fetched[d].upto
      /\ \A x \in Device \ {d} : file'[x] = file[x]
  <2>1. file' = [file EXCEPT ![d] = [file[d] EXCEPT !.cursor = fetched[d].upto]]
    BY CalmReads DEF MarkChangesApplied, WriteState
  <2>2. file[d] \in File
    BY DEF TypesInv, FileTypes
  <2>3. /\ [file[d] EXCEPT !.cursor = fetched[d].upto].batch = file[d].batch
        /\ [file[d] EXCEPT !.cursor = fetched[d].upto].cursor = fetched[d].upto
    BY <2>2 DEF File
  <2> QED
    BY <2>1, <2>3 DEF TypesInv, FileTypes
<1>5. Alone(d)
  BY <1>1, <1>2, <1>3, <1>4 DEF Alone
<1>6. DeviceCovered(d)'
  <2>1. DeviceCovered(d) /\ Stage(d) = "advance"
    BY DEF Covered, MarkChangesApplied
  <2> QED
    BY <1>1, <1>2, <1>4, <2>1 DEF DeviceCovered, Stage
<1> QED
  BY <1>5, <1>6, AloneCovered

LEMMA StepCovered ==
    TypesInv /\ TypesInv' /\ CalmInv /\ CoveredInv /\ [Next]_vars => CoveredInv'
<1> SUFFICES ASSUME TypesInv, TypesInv', CalmInv, CoveredInv, [Next]_vars,
                    ~budget'.parallel
             PROVE  Covered'
  BY DEF CoveredInv
<1>1. Calm /\ Covered
  BY ScenarioKept DEF CalmInv, CoveredInv
<1>2. ~Overlap
  BY <1>1 DEF Overlap, Calm
<1>3. CASE UNCHANGED vars
  BY <1>1, <1>3 DEF vars, cloudVars, fileVars, appVars, Covered, FeedReal,
                    DeviceCovered, Stage
<1>4. CASE Next
  <2> PICK d \in Device :
         \/ Edits(d) \/ Tracks(d) \/ StartCycle(d) \/ HoldState(d)
         \/ TrackerDone(d) /\ (Pushes(d) \/ Pulls(d))
         \/ ServerCommit(d) \/ LoseConnection(d) \/ Crash(d)
    BY <1>4 DEF Next
  <2>1. CASE Edits(d)
    BY <1>1, <2>1, EditsCovered
  <2>2. CASE Tracks(d) \/ HoldState(d)
    BY <1>1, <1>2, <2>2, TrackCovered DEF Tracks, ReadMapping, ReadState, HoldState
  <2>3. CASE StartCycle(d) \/ LoseConnection(d) \/ Crash(d)
    BY <1>1, <2>3, CycleCovered
  <2>4. CASE Pushes(d)
    BY <1>1, <2>4, PrepareCovered, UpdateRemoteCovered, MarkCommitSucceededCovered,
       QueueMetadataCovered, CycleCovered, ReplaceMappingsCovered DEF Pushes
  <2>5. CASE Pulls(d)
    BY <1>1, <2>5, ListChangesCovered, BootstrapCovered, ApplyIfSafeCovered,
       RebuildMappingsCovered, MarkChangesAppliedCovered DEF Pulls
  <2>6. CASE ServerCommit(d)
    BY <1>1, <2>6, ServerCommitCovered
  <2> QED
    BY <2>1, <2>2, <2>3, <2>4, <2>5, <2>6
<1> QED
  BY <1>3, <1>4

LEMMA CoveredInvariant == Spec => []CoveredInv
  BY InitCovered, StepCovered, TypesInvariant, CalmInvariant, PTL DEF Spec

\* When the tracker and the cycle take turns to write the files of a device,
\* whatever the cursor has passed is in the mapping, whatever is lost, repeated
\* or crashes, and however many devices write how many pages.
THEOREM CursorStaysCovered == Spec => [](~budget.parallel => CursorCovered)
<1>1. CoveredInv => (~budget.parallel => CursorCovered)
  BY DEF CoveredInv, Covered, DeviceCovered, Covers, CursorCovered
<1> QED
  BY <1>1, CoveredInvariant, PTL

-----------------------------------------------------------------------------
(* Orderly scenarios: what becomes of an edit.                             *)

\* Edit y is x or was built upon it.
Follows(x, y) == x = y \/ x \in lineage[y]

\* An edit is built upon earlier ones, and upon all they were built upon.
LineageOrdered ==
    /\ \A e \in Edit : e > edits => lineage[e] = {}
    /\ \A y \in Edit : \A x \in lineage[y] : x < y /\ lineage[x] \subseteq lineage[y]

\* The content of a page the tracker still has to handle.
Waiting(d, p) == {i \in DOMAIN queue[d] : queue[d][i].page = p}

\* No edit is in use before it was made.
VersionsMade == \A p \in Page : \A i \in 1..Len(versions[p]) : versions[p][i] <= edits

EditsMade(d) == \A p \in Page :
    /\ local[d][p] <= edits
    /\ wire[d].ops[p].kind = "content" => wire[d].ops[p].edit <= edits
    /\ \A e \in Queued(d, p) : e <= edits

\* While a cycle may pull, the editor is closed; while it works on changes,
\* nothing is waiting or to be sent.
PullsUndisturbed(d) ==
    /\ cycle[d].pull => editor[d] = Closed
    /\ Stage(d) \in {"pull", "listed", "apply", "applied", "advance"} => cycle[d].pull
    /\ Stage(d) \in {"listed", "apply", "applied", "advance"} =>
          queue[d] = <<>> /\ file[d].pending = NoOps /\ file[d].batch = NoBatch

\* The content of a page gets ever later from state.json over the tracker's queue
\* to the local file, which the open editor agrees with.
EditsInOrder(d) ==
    /\ editor[d] # Closed => editor[d].edit = local[d][editor[d].page]
    /\ \A p \in Page : \A j \in Waiting(d, p) :
          /\ Follows(queue[d][j].edit, local[d][p])
          /\ \A i \in Waiting(d, p) : i < j => Follows(queue[d][i].edit, queue[d][j].edit)
          /\ file[d].pending[p].kind = "content" =>
                Follows(file[d].pending[p].edit, queue[d][j].edit)
    /\ \A p \in Page : file[d].pending[p].kind = "content" =>
          Follows(file[d].pending[p].edit, local[d][p])

\* The server has the content of a batch it has answered; what is on its way
\* under the key of the frozen batch is that batch.
AnsweredReached(d) ==
    /\ \A x \in answered[d] : x.key = file[d].batch.key =>
          \A p \in Page : file[d].batch.ops[p].kind = "content" =>
             file[d].batch.ops[p].edit \in Reached(p)
    /\ file[d].batch # NoBatch => file[d].batch.key > 0
    /\ wire[d] # NoBatch => wire[d].key > 0
                            /\ (wire[d].key = file[d].batch.key => wire[d] = file[d].batch)
    /\ Stage(d) \in {"answered", "mapped"} => fetched[d].response \in answered[d]

\* The local content has reached the server, is to be sent or is waiting for
\* the tracker.
LocalSafe(d) == \A p \in Page :
    \/ local[d][p] \in Reached(p) \union Queued(d, p)
    \/ \E i \in Waiting(d, p) : queue[d][i].edit = local[d][p]

DeviceOrdered(d) ==
    /\ EditsMade(d) /\ PullsUndisturbed(d) /\ EditsInOrder(d)
    /\ AnsweredReached(d) /\ LocalSafe(d)

Ordered == LineageOrdered /\ VersionsMade /\ \A d \in Device : DeviceOrdered(d)

OrderedInv == Orderly => Ordered

LEMMA FollowsThrough ==
    ASSUME LineageOrdered, NEW x, NEW y \in Edit, NEW z \in Edit,
           Follows(x, y), Follows(y, z)
    PROVE  Follows(x, z)
  BY DEF LineageOrdered, Follows

\* Two edits do not follow each other.
LEMMA FollowsOneWay ==
    ASSUME LineageOrdered, NEW x \in Edit, NEW y \in Edit,
           Follows(x, y), Follows(y, x)
    PROVE  x = y
<1>1. CASE x \in lineage[y] /\ y \in lineage[x]
  <2>1. x < y /\ y < x
    BY <1>1 DEF LineageOrdered
  <2> QED
    BY <2>1 DEF Edit
<1> QED
  BY <1>1 DEF Follows

LEMMA FollowsMade ==
    ASSUME LineageOrdered, NEW x \in Edit, NEW y \in Edit, edits \in Edit,
           Follows(x, y), y <= edits
    PROVE  x <= edits
<1>1. CASE x \in lineage[y]
  <2>1. x < y
    BY <1>1 DEF LineageOrdered
  <2> QED
    BY <2>1 DEF Edit
<1> QED
  BY <1>1 DEF Follows

LEMMA QueuedIs ==
    \A d, p, e : e \in Queued(d, p) <=>
        \/ file[d].pending[p].kind = "content" /\ e = file[d].pending[p].edit
        \/ file[d].batch.ops[p].kind = "content" /\ e = file[d].batch.ops[p].edit
  BY DEF Queued

LEMMA QueuedWillBe ==
    \A d, p, e : e \in Queued(d, p)' <=>
        \/ file'[d].pending[p].kind = "content" /\ e = file'[d].pending[p].edit
        \/ file'[d].batch.ops[p].kind = "content" /\ e = file'[d].batch.ops[p].edit
  BY DEF Queued

LEMMA InitOrdered == Init => OrderedInv
<1> SUFFICES ASSUME Init PROVE Ordered
  BY DEF OrderedInv
<1>1. LineageOrdered
  BY DEF Init, LineageOrdered
<1>2. 0 \in Edit /\ edits = 0
  BY ConstantTypes DEF Init
<1>3. VersionsMade
  BY <1>2 DEF Init, VersionsMade
<1>4. ASSUME NEW d \in Device PROVE DeviceOrdered(d)
  <2>1. /\ file[d].pending = NoOps /\ file[d].batch = NoBatch /\ wire[d] = NoBatch
        /\ queue[d] = <<>> /\ editor[d] = Closed /\ cycle[d] = Idle
        /\ answered[d] = {} /\ \A p \in Page : local[d][p] = 0
    BY DEF Init
  <2>2. \A p \in Page : /\ NoOps[p].kind = "none" /\ NoBatch.ops[p].kind = "none"
                        /\ Waiting(d, p) = {}
    BY <2>1 DEF NoOps, NoOp, NoBatch, Waiting
  <2>3. EditsMade(d)
    BY <1>2, <2>1, <2>2, QueuedIs DEF EditsMade
  <2>4. PullsUndisturbed(d) /\ AnsweredReached(d)
    BY <2>1 DEF PullsUndisturbed, AnsweredReached, Stage, Idle
  <2>5. EditsInOrder(d)
    BY <2>1, <2>2 DEF EditsInOrder
  <2>6. LocalSafe(d)
    <3>1. \A p \in Page : 0 \in Reached(p)
      BY DEF Init, Reached
    <3> QED
      BY <2>1, <3>1 DEF LocalSafe
  <2> QED
    BY <2>3, <2>4, <2>5, <2>6 DEF DeviceOrdered
<1> QED
  BY <1>1, <1>3, <1>4 DEF Ordered

\* The edits a device has at hand are edits.
LEMMA EditsTyped ==
    ASSUME TypesInv, NEW d \in Device
    PROVE  /\ edits \in Edit
           /\ queue[d] \in Seq([page: Page, edit: Edit])
           /\ \A i \in DOMAIN queue[d] : queue[d][i].page \in Page
                                         /\ queue[d][i].edit \in Edit
           /\ \A p \in Page :
                 /\ local[d][p] \in Edit
                 /\ file[d].pending[p] \in Op /\ file[d].batch.ops[p] \in Op
                 /\ wire[d].ops[p] \in Op
                 /\ file[d].pending[p].edit \in Edit
                 /\ file[d].batch.ops[p].edit \in Edit /\ wire[d].ops[p].edit \in Edit
                 /\ \A e \in Queued(d, p) : e \in Edit
<1>1. /\ edits \in Edit /\ local[d] \in [Page -> Edit]
      /\ file[d] \in File /\ wire[d] \in Batch
      /\ queue[d] \in Seq([page: Page, edit: Edit])
  BY DEF TypesInv, BookTypes, FileTypes, EditorTypes, CycleTypes
<1>2. ASSUME NEW p \in Page
      PROVE  /\ file[d].pending[p] \in Op /\ file[d].batch.ops[p] \in Op
             /\ wire[d].ops[p] \in Op
  BY <1>1 DEF File, Batch, Ops
<1>3. \A op \in Op : op.edit \in Edit
  BY DEF Op
<1>4. \A i \in DOMAIN queue[d] : queue[d][i] \in [page: Page, edit: Edit]
  BY <1>1, ElementOfSeq, LenProperties
<1> QED
  BY <1>1, <1>2, <1>3, <1>4, QueuedIs

\* What a step may do without disturbing a device it does not touch.
Grows ==
    /\ \A y \in Edit : lineage[y] \subseteq lineage'[y]
    /\ edits <= edits' /\ edits' \in Edit
    /\ \A p \in Page : Reached(p) \subseteq Reached(p)'

LEMMA OthersOrdered ==
    ASSUME TypesInv, Grows, NEW x \in Device, DeviceOrdered(x),
           file'[x] = file[x], local'[x] = local[x], editor'[x] = editor[x],
           queue'[x] = queue[x], cycle'[x] = cycle[x], wire'[x] = wire[x],
           fetched'[x] = fetched[x], answered'[x] = answered[x]
    PROVE  DeviceOrdered(x)'
<1>1. \A u, v \in Edit : Follows(u, v) => Follows(u, v)'
  BY DEF Follows, Grows
<1>2. \A p : Waiting(x, p)' = Waiting(x, p) /\ Queued(x, p)' = Queued(x, p)
  BY DEF Waiting, Queued
<1>3. EditsMade(x)'
  <2> SUFFICES ASSUME NEW p \in Page
               PROVE  /\ local[x][p] <= edits'
                      /\ wire[x].ops[p].kind = "content" => wire[x].ops[p].edit <= edits'
                      /\ \A e \in Queued(x, p) : e <= edits'
    BY <1>2 DEF EditsMade
  <2>1. \A e \in Edit : e <= edits => e <= edits'
    BY EditsTyped DEF Grows, Edit
  <2> QED
    BY <2>1, EditsTyped DEF DeviceOrdered, EditsMade
<1>4. PullsUndisturbed(x)'
  BY DEF DeviceOrdered, PullsUndisturbed, Stage
<1>5. EditsInOrder(x)'
  <2>1. /\ editor'[x] # Closed => editor'[x].edit = local'[x][editor'[x].page]
    BY DEF DeviceOrdered, EditsInOrder
  <2>2. ASSUME NEW p \in Page, NEW j \in Waiting(x, p)
        PROVE  /\ Follows(queue[x][j].edit, local[x][p])'
               /\ \A i \in Waiting(x, p) : i < j =>
                     Follows(queue[x][i].edit, queue[x][j].edit)'
               /\ file[x].pending[p].kind = "content" =>
                     Follows(file[x].pending[p].edit, queue[x][j].edit)'
    <3>1. \A i \in Waiting(x, p) : queue[x][i].edit \in Edit
      BY EditsTyped DEF Waiting
    <3>2. local[x][p] \in Edit /\ file[x].pending[p].edit \in Edit
      BY EditsTyped
    <3>3. /\ Follows(queue[x][j].edit, local[x][p])
          /\ \A i \in Waiting(x, p) : i < j => Follows(queue[x][i].edit, queue[x][j].edit)
          /\ file[x].pending[p].kind = "content" =>
                Follows(file[x].pending[p].edit, queue[x][j].edit)
      BY DEF DeviceOrdered, EditsInOrder
    <3> QED
      BY <1>1, <3>1, <3>2, <3>3 DEF Follows
  <2>3. ASSUME NEW p \in Page, file[x].pending[p].kind = "content"
        PROVE  Follows(file[x].pending[p].edit, local[x][p])'
    <3>1. local[x][p] \in Edit /\ file[x].pending[p].edit \in Edit
      BY EditsTyped
    <3>2. Follows(file[x].pending[p].edit, local[x][p])
      BY <2>3 DEF DeviceOrdered, EditsInOrder
    <3> QED
      BY <1>1, <3>1, <3>2 DEF Follows
  <2> QED
    BY <1>2, <2>1, <2>2, <2>3 DEF EditsInOrder, Follows
<1>6. AnsweredReached(x)'
  BY DEF DeviceOrdered, AnsweredReached, Stage, Grows
<1>7. LocalSafe(x)'
  BY <1>2 DEF DeviceOrdered, LocalSafe, Grows
<1> QED
  BY <1>3, <1>4, <1>5, <1>6, <1>7 DEF DeviceOrdered

\* A step of one device that leaves the cloud alone and makes no edit.
OnItsOwn(d) ==
    /\ UNCHANGED <<versions, kept, answered, lineage, edits>>
    /\ \A x \in Device \ {d} :
          /\ file'[x] = file[x] /\ local'[x] = local[x] /\ editor'[x] = editor[x]
          /\ queue'[x] = queue[x] /\ cycle'[x] = cycle[x] /\ wire'[x] = wire[x]
          /\ fetched'[x] = fetched[x]

LEMMA OnItsOwnOrdered ==
    ASSUME TypesInv, Ordered, NEW d \in Device, OnItsOwn(d), DeviceOrdered(d)'
    PROVE  Ordered'
<1>1. Grows
  <2>1. edits <= edits' /\ edits' \in Edit
    BY DEF OnItsOwn, TypesInv, BookTypes, Edit
  <2> QED
    BY <2>1 DEF OnItsOwn, Grows, Reached
<1>2. LineageOrdered' /\ VersionsMade'
  BY DEF OnItsOwn, Ordered, LineageOrdered, VersionsMade
<1>3. ASSUME NEW x \in Device \ {d} PROVE DeviceOrdered(x)'
  BY <1>1, OthersOrdered DEF OnItsOwn, Ordered
<1> QED
  BY <1>2, <1>3 DEF Ordered

\* A step that writes no content and no state.json of the device.
LEMMA QuietOrdered ==
    ASSUME TypesInv, Ordered, NEW d \in Device, OnItsOwn(d),
           UNCHANGED <<file, local, queue, wire>>, PullsUndisturbed(d)',
           editor'[d] # Closed => editor'[d].edit = local[d][editor'[d].page],
           cycle'[d].stage \in {"answered", "mapped"} =>
              fetched'[d].response \in answered[d]
    PROVE  Ordered'
<1> DeviceOrdered(d)
  BY DEF Ordered
<1>1. \A p : /\ Waiting(d, p)' = Waiting(d, p) /\ Queued(d, p)' = Queued(d, p)
             /\ Reached(p)' = Reached(p)
  BY DEF Waiting, Queued, Reached, OnItsOwn
<1>2. EditsMade(d)'
  BY <1>1 DEF OnItsOwn, DeviceOrdered, EditsMade
<1>3. EditsInOrder(d)'
  BY <1>1 DEF OnItsOwn, DeviceOrdered, EditsInOrder, Follows
<1>4. AnsweredReached(d)'
  BY <1>1 DEF OnItsOwn, DeviceOrdered, AnsweredReached, Stage
<1>5. LocalSafe(d)'
  BY <1>1 DEF DeviceOrdered, LocalSafe
<1>6. DeviceOrdered(d)'
  BY <1>2, <1>3, <1>4, <1>5 DEF DeviceOrdered
<1> QED
  BY <1>6, OnItsOwnOrdered

LEMMA OpenOrdered ==
    ASSUME TypesInv, Orderly, Ordered, NEW d \in Device, NEW p \in Page, Open(d, p)
    PROVE  Ordered'
<1>1. /\ UNCHANGED <<file, local, queue, wire, versions, kept, answered, lineage, edits,
                     cycle, fetched>>
      /\ editor' = [editor EXCEPT ![d] = [page |-> p, edit |-> local[d][p]]]
      /\ ~cycle[d].pull
  BY DEF Open, Orderly, cloudVars, fileVars, bookVars
<1>2. /\ editor'[d] = [page |-> p, edit |-> local[d][p]]
      /\ \A x \in Device \ {d} : editor'[x] = editor[x]
  BY <1>1 DEF TypesInv, EditorTypes
<1>3. OnItsOwn(d)
  BY <1>1, <1>2 DEF OnItsOwn
<1>4. PullsUndisturbed(d)'
  BY <1>1 DEF Ordered, DeviceOrdered, PullsUndisturbed, Stage
<1>5. cycle[d].stage \in {"answered", "mapped"} => fetched[d].response \in answered[d]
  BY DEF Ordered, DeviceOrdered, AnsweredReached, Stage
<1> QED
  BY <1>1, <1>2, <1>3, <1>4, <1>5, QuietOrdered

LEMMA CloseOrdered ==
    ASSUME TypesInv, Ordered, NEW d \in Device, Close(d) \/ AddPage(d)
    PROVE  Ordered'
<1>1. /\ UNCHANGED <<file, local, queue, wire, versions, kept, answered, lineage, edits,
                     cycle, fetched>>
      /\ editor' = editor \/ editor' = [editor EXCEPT ![d] = Closed]
  BY DEF Close, AddPage, cloudVars, fileVars, bookVars
<1>2. /\ editor'[d] = editor[d] \/ editor'[d] = Closed
      /\ \A x \in Device \ {d} : editor'[x] = editor[x]
  BY <1>1 DEF TypesInv, EditorTypes
<1>3. OnItsOwn(d)
  BY <1>1, <1>2 DEF OnItsOwn
<1>4. DeviceOrdered(d)
  BY DEF Ordered
<1>5. PullsUndisturbed(d)'
  BY <1>1, <1>2, <1>4 DEF DeviceOrdered, PullsUndisturbed, Stage
<1>6. editor'[d] # Closed => editor'[d].edit = local[d][editor'[d].page]
  BY <1>2, <1>4 DEF DeviceOrdered, EditsInOrder
<1>7. cycle[d].stage \in {"answered", "mapped"} => fetched[d].response \in answered[d]
  BY <1>4 DEF DeviceOrdered, AnsweredReached, Stage
<1> QED
  BY <1>1, <1>3, <1>5, <1>6, <1>7, QuietOrdered

\* Steps of the cycle that move it on and write no state.json.
LEMMA CycleOrdered ==
    ASSUME TypesInv, Ordered, NEW d \in Device, ~budget.parallel,
           \/ StartCycle(d) \/ LoseConnection(d)
           \/ TrackerDone(d) /\
                 (\/ UpdateRemote(d) \/ UploadPages(d) \/ ReplaceMappings(d) \/ PushAgain(d)
                  \/ ListChanges(d) \/ Bootstrap(d) \/ RebuildMappings(d))
    PROVE  Ordered'
<1>1. UNCHANGED <<file, local, queue, wire, versions, kept, answered, lineage, edits,
                  editor>>
  BY DEF StartCycle, LoseConnection, UpdateRemote, UploadPages, ReplaceMappings,
         PushAgain, ListChanges, Bootstrap, RebuildMappings, cloudVars, fileVars, bookVars
<1>2. /\ cycle \in [Device -> [stage: Stages, pull: BOOLEAN, again: BOOLEAN]]
      /\ DeviceOrdered(d)
  BY DEF TypesInv, CycleTypes, Ordered
<1>3. ASSUME NEW s \in Stages, GoTo(d, s)
      PROVE  /\ cycle'[d].stage = s /\ cycle'[d].pull = cycle[d].pull
             /\ \A x \in Device \ {d} : cycle'[x] = cycle[x]
  BY <1>2, <1>3 DEF GoTo
<1>4. ASSUME Stop(d)
      PROVE  /\ cycle'[d].stage = "idle" /\ ~cycle'[d].pull
             /\ \A x \in Device \ {d} : cycle'[x] = cycle[x]
  BY <1>2, <1>4 DEF Stop, Idle
<1>5. \A x \in Device \ {d} : fetched'[x] = fetched[x]
  BY DEF StartCycle, LoseConnection, UpdateRemote, UploadPages, ReplaceMappings,
         PushAgain, ListChanges, Bootstrap, RebuildMappings, TypesInv, CycleTypes
<1>6. /\ \A x \in Device \ {d} : cycle'[x] = cycle[x]
      /\ PullsUndisturbed(d)'
      /\ cycle'[d].stage \in {"answered", "mapped"} =>
            fetched'[d].response \in answered[d]
  <2>1. CASE StartCycle(d)
    <3>1. cycle' = [cycle EXCEPT ![d] = [stage |-> "push", pull |-> editor[d] = Closed,
                                         again |-> FALSE]]
      BY <2>1 DEF StartCycle
    <3>2. /\ cycle'[d].stage = "push" /\ cycle'[d].pull = (editor[d] = Closed)
          /\ \A x \in Device \ {d} : cycle'[x] = cycle[x]
      BY <1>2, <3>1
    <3> QED
      BY <1>1, <3>2 DEF PullsUndisturbed, Stage
  <2>2. CASE LoseConnection(d)
    BY <1>1, <1>4, <2>2 DEF LoseConnection, PullsUndisturbed, Stage
  <2>3. CASE UpdateRemote(d)
    <3>1. GoTo(d, "mapped") /\ fetched' = fetched /\ Stage(d) = "answered"
      BY <2>3 DEF UpdateRemote
    <3>2. cycle'[d].stage = "mapped" /\ cycle'[d].pull = cycle[d].pull
          /\ \A x \in Device \ {d} : cycle'[x] = cycle[x]
      BY <1>3, <3>1 DEF Stages
    <3> QED
      BY <1>1, <1>2, <3>1, <3>2
         DEF DeviceOrdered, PullsUndisturbed, AnsweredReached, Stage
  <2>4. CASE UploadPages(d)
    <3>1. \/ GoTo(d, "remap") \/ Stop(d)
          \/ GoTo(d, "pull") /\ cycle[d].pull
      BY <2>4 DEF UploadPages
    <3>2. /\ \/ cycle'[d].stage = "remap" /\ cycle'[d].pull = cycle[d].pull
             \/ cycle'[d].stage = "idle" /\ ~cycle'[d].pull
             \/ cycle'[d].stage = "pull" /\ cycle'[d].pull /\ cycle[d].pull
          /\ \A x \in Device \ {d} : cycle'[x] = cycle[x]
      BY <1>3, <1>4, <3>1 DEF Stages
    <3> QED
      BY <1>1, <1>2, <3>2 DEF DeviceOrdered, PullsUndisturbed, Stage
  <2>5. CASE ReplaceMappings(d)
    <3>1. GoTo(d, "requeue")
      BY <2>5 DEF ReplaceMappings
    <3>2. cycle'[d].stage = "requeue" /\ cycle'[d].pull = cycle[d].pull
          /\ \A x \in Device \ {d} : cycle'[x] = cycle[x]
      BY <1>3, <3>1 DEF Stages
    <3> QED
      BY <1>1, <1>2, <3>2 DEF DeviceOrdered, PullsUndisturbed, Stage
  <2>6. CASE PushAgain(d)
    <3> DEFINE c == [cycle EXCEPT ![d].stage = "push"]
    <3>1. cycle' = [c EXCEPT ![d].again = TRUE]
      BY <2>6 DEF PushAgain
    <3>2. /\ c \in [Device -> [stage: Stages, pull: BOOLEAN, again: BOOLEAN]]
          /\ c[d].stage = "push" /\ c[d].pull = cycle[d].pull
          /\ \A x \in Device \ {d} : c[x] = cycle[x]
      BY <1>2 DEF Stages
    <3> HIDE DEF c
    <3>3. /\ cycle'[d].stage = "push" /\ cycle'[d].pull = cycle[d].pull
          /\ \A x \in Device \ {d} : cycle'[x] = cycle[x]
      BY <3>1, <3>2
    <3> QED
      BY <1>1, <1>2, <3>3 DEF DeviceOrdered, PullsUndisturbed, Stage
  <2>7. CASE TrackerDone(d) /\ ListChanges(d)
    <3>1. Stage(d) = "pull" /\ queue[d] = <<>>
      BY <2>7 DEF ListChanges, TrackerDone
    <3>2. \/ Stop(d)
          \/ GoTo(d, "listed") /\ file[d].pending = NoOps /\ file[d].batch = NoBatch
      BY <2>7 DEF ListChanges, HasPendingWork
    <3>3. /\ \/ cycle'[d].stage = "idle" /\ ~cycle'[d].pull
             \/ /\ cycle'[d].stage = "listed" /\ cycle'[d].pull = cycle[d].pull
                /\ file[d].pending = NoOps /\ file[d].batch = NoBatch
          /\ \A x \in Device \ {d} : cycle'[x] = cycle[x]
      BY <1>3, <1>4, <3>2 DEF Stages
    <3> QED
      BY <1>1, <1>2, <3>1, <3>3 DEF DeviceOrdered, PullsUndisturbed, Stage
  <2>8. CASE Bootstrap(d)
    <3>1. GoTo(d, "apply") /\ Stage(d) = "listed"
      BY <2>8 DEF Bootstrap
    <3>2. cycle'[d].stage = "apply" /\ cycle'[d].pull = cycle[d].pull
          /\ \A x \in Device \ {d} : cycle'[x] = cycle[x]
      BY <1>3, <3>1 DEF Stages
    <3> QED
      BY <1>1, <1>2, <3>1, <3>2 DEF DeviceOrdered, PullsUndisturbed, Stage
  <2>9. CASE RebuildMappings(d)
    <3>1. GoTo(d, "advance") /\ Stage(d) = "applied"
      BY <2>9 DEF RebuildMappings
    <3>2. cycle'[d].stage = "advance" /\ cycle'[d].pull = cycle[d].pull
          /\ \A x \in Device \ {d} : cycle'[x] = cycle[x]
      BY <1>3, <3>1 DEF Stages
    <3> QED
      BY <1>1, <1>2, <3>1, <3>2 DEF DeviceOrdered, PullsUndisturbed, Stage
  <2> QED
    BY <2>1, <2>2, <2>3, <2>4, <2>5, <2>6, <2>7, <2>8, <2>9
<1>7. OnItsOwn(d)
  BY <1>1, <1>5, <1>6 DEF OnItsOwn
<1>8. editor'[d] # Closed => editor'[d].edit = local[d][editor'[d].page]
  BY <1>1, <1>2 DEF DeviceOrdered, EditsInOrder
<1> QED
  BY <1>1, <1>6, <1>7, <1>8, QuietOrdered

\* The tracker takes the first save in its queue.
LEMMA TrackFirst ==
    ASSUME TypesInv, Calm, NEW d \in Device, Track(d)
    PROVE  LET item == Head(queue[d])
           IN  /\ item = queue[d][1] /\ 1 \in DOMAIN queue[d]
               /\ item.page \in Page /\ item.edit \in Edit
               /\ file'[d].batch = file[d].batch
               /\ file'[d].pending[item.page].kind = "content"
               /\ file'[d].pending[item.page].edit = item.edit
               /\ \A p \in Page \ {item.page} : file'[d].pending[p] = file[d].pending[p]
               /\ \A x \in Device \ {d} : file'[x] = file[x]
               /\ \A x \in Device \ {d} : queue'[x] = queue[x]
               /\ \A i : i \in DOMAIN queue'[d] <=> i \in Nat \ {0} /\ i + 1 \in DOMAIN queue[d]
               /\ \A i \in DOMAIN queue'[d] : queue'[d][i] = queue[d][i + 1]
<1> DEFINE item == Head(queue[d])
           op == Coalesced(file[d].pending[item.page], Base(d), item.edit)
<1>1. file' = [file EXCEPT ![d] = [file[d] EXCEPT !.pending[item.page] = op]]
  BY CalmReads DEF Track
<1>2. queue[d] \in Seq([page: Page, edit: Edit]) /\ queue[d] # <<>>
  BY EditsTyped DEF Track
<1>3. item.page \in Page /\ item.edit \in Edit
  BY <1>2, NextSave
<1>4. op.kind = "content" /\ op.edit = item.edit
  <2>1. file[d].pending[item.page] \in Op
    BY <1>3, EditsTyped
  <2> HIDE DEF item
  <2> QED
    BY <2>1 DEF Coalesced, Op
<1>5. file[d] \in File /\ file[d].pending \in Ops
  BY FileParts DEF TypesInv, FileTypes
<1>6. /\ item = queue[d][1] /\ Len(queue[d]) \in Nat \ {0}
      /\ DOMAIN queue[d] = 1..Len(queue[d])
  BY <1>2, EmptySeq, LenProperties
<1>7. queue' = [queue EXCEPT ![d] = Tail(queue[d])]
  BY DEF Track
<1> HIDE DEF item, op
<1>8. file'[d] = [file[d] EXCEPT !.pending[item.page] = op]
      /\ \A x \in Device \ {d} : file'[x] = file[x]
  BY <1>1 DEF TypesInv, FileTypes
<1>9. /\ file'[d].batch = file[d].batch
      /\ file'[d].pending = [file[d].pending EXCEPT ![item.page] = op]
  BY <1>5, <1>8 DEF File
<1>10. /\ queue'[d] = Tail(queue[d])
       /\ \A x \in Device \ {d} : queue'[x] = queue[x]
  BY <1>7 DEF TypesInv, EditorTypes
<1>11. /\ Tail(queue[d]) \in Seq([page: Page, edit: Edit])
       /\ Len(Tail(queue[d])) = Len(queue[d]) - 1
       /\ \A i \in 1..Len(Tail(queue[d])) : Tail(queue[d])[i] = queue[d][i + 1]
       /\ DOMAIN Tail(queue[d]) = 1..Len(Tail(queue[d]))
  BY <1>2, HeadTailProperties, LenProperties
<1>12. \A i : i \in DOMAIN queue'[d] <=> i \in Nat \ {0} /\ i + 1 \in DOMAIN queue[d]
  BY <1>6, <1>10, <1>11
<1>13. \A i \in DOMAIN queue'[d] : queue'[d][i] = queue[d][i + 1]
  BY <1>10, <1>11
<1> QED
  BY <1>3, <1>4, <1>5, <1>6, <1>8, <1>9, <1>10, <1>12, <1>13 DEF item, Ops

LEMMA TrackOrdered ==
    ASSUME TypesInv, TypesInv', Calm, Ordered, NEW d \in Device, Track(d)
    PROVE  Ordered'
<1> DEFINE q == queue[d][1].page
           e == queue[d][1].edit
<1>1. UNCHANGED <<local, wire, versions, kept, answered, lineage, edits, editor, cycle,
                  fetched>>
  BY DEF Track, cloudVars, bookVars
<1>2. /\ 1 \in DOMAIN queue[d] /\ q \in Page /\ e \in Edit
      /\ file'[d].batch = file[d].batch
      /\ file'[d].pending[q].kind = "content" /\ file'[d].pending[q].edit = e
      /\ \A p \in Page \ {q} : file'[d].pending[p] = file[d].pending[p]
      /\ \A x \in Device \ {d} : file'[x] = file[x] /\ queue'[x] = queue[x]
      /\ \A i : i \in DOMAIN queue'[d] <=> i \in Nat \ {0} /\ i + 1 \in DOMAIN queue[d]
      /\ \A i \in DOMAIN queue'[d] : queue'[d][i] = queue[d][i + 1]
  BY TrackFirst
<1>3. OnItsOwn(d)
  BY <1>1, <1>2 DEF OnItsOwn
<1>4. DeviceOrdered(d) /\ LineageOrdered
  BY DEF Ordered
<1>5. DOMAIN queue[d] \subseteq Nat \ {0}
  BY EditsTyped, LenProperties
<1>6. ASSUME NEW p \in Page, NEW j \in Waiting(d, p)'
      PROVE  /\ j \in Nat \ {0} /\ j + 1 \in Waiting(d, p) /\ queue'[d][j] = queue[d][j + 1]
             /\ 1 < j + 1
  BY <1>2, <1>6 DEF Waiting
<1>7. 1 \in Waiting(d, q)
  BY <1>2 DEF Waiting
<1>8. Follows(e, local[d][q]) /\ e <= edits
  <2>1. Follows(e, local[d][q])
    BY <1>2, <1>4, <1>7 DEF DeviceOrdered, EditsInOrder
  <2>2. local[d][q] <= edits /\ local[d][q] \in Edit /\ edits \in Edit
    BY <1>2, <1>4, EditsTyped DEF DeviceOrdered, EditsMade
  <2> QED
    BY <1>2, <1>4, <2>1, <2>2, FollowsMade
<1>9. EditsMade(d)'
  <2> SUFFICES ASSUME NEW p \in Page, NEW f \in Queued(d, p)' PROVE f <= edits
    BY <1>1, <1>4 DEF DeviceOrdered, EditsMade
  <2>1. f \in Queued(d, p) \/ f = e
    <3> HIDE DEF q, e
    <3>1. file'[d].batch = file[d].batch
      BY <1>2
    <3>2. CASE p = q
      <4>1. file'[d].pending[p].edit = e
        BY <1>2, <3>2
      <4> QED
        BY <3>1, <4>1, QueuedIs, QueuedWillBe
    <3>3. CASE p # q
      <4>1. file'[d].pending[p] = file[d].pending[p]
        BY <1>2, <3>3
      <4> QED
        BY <3>1, <4>1, QueuedIs, QueuedWillBe
    <3> QED
      BY <3>2, <3>3
  <2> QED
    BY <1>4, <1>8, <2>1 DEF DeviceOrdered, EditsMade
<1>10. PullsUndisturbed(d)'
  <2>1. queue[d] # <<>>
    BY DEF Track
  <2> QED
    BY <1>1, <1>4, <2>1 DEF DeviceOrdered, PullsUndisturbed, Stage
<1>11. EditsInOrder(d)'
  <2>1. editor'[d] # Closed => editor'[d].edit = local'[d][editor'[d].page]
    BY <1>1, <1>4 DEF DeviceOrdered, EditsInOrder
  <2>2. ASSUME NEW p \in Page, NEW j \in Waiting(d, p)'
        PROVE  /\ Follows(queue'[d][j].edit, local[d][p])
               /\ \A i \in Waiting(d, p)' : i < j =>
                     Follows(queue'[d][i].edit, queue'[d][j].edit)
               /\ file'[d].pending[p].kind = "content" =>
                     Follows(file'[d].pending[p].edit, queue'[d][j].edit)
    <3>1. /\ j + 1 \in Waiting(d, p) /\ queue'[d][j] = queue[d][j + 1] /\ 1 < j + 1
          /\ j \in Nat
      BY <1>6, <2>2
    <3>2. Follows(queue'[d][j].edit, local[d][p])
      BY <1>4, <3>1 DEF DeviceOrdered, EditsInOrder
    <3>3. ASSUME NEW i \in Waiting(d, p)', i < j
          PROVE  Follows(queue'[d][i].edit, queue'[d][j].edit)
      <4>1. i \in Nat /\ i + 1 \in Waiting(d, p) /\ queue'[d][i] = queue[d][i + 1]
        BY <1>6, <3>3
      <4>2. i + 1 < j + 1
        BY <3>1, <3>3, <4>1
      <4> QED
        BY <1>4, <3>1, <4>1, <4>2 DEF DeviceOrdered, EditsInOrder
    <3>4. ASSUME file'[d].pending[p].kind = "content"
          PROVE  Follows(file'[d].pending[p].edit, queue'[d][j].edit)
      <4>1. CASE p = q
        <5>1. Follows(e, queue[d][j + 1].edit)
          BY <1>2, <1>4, <1>7, <3>1, <4>1 DEF DeviceOrdered, EditsInOrder
        <5> QED
          BY <1>2, <3>1, <4>1, <5>1
      <4>2. CASE p # q
        <5>1. file'[d].pending[p] = file[d].pending[p]
          BY <1>2, <4>2
        <5> QED
          BY <1>4, <3>1, <3>4, <5>1 DEF DeviceOrdered, EditsInOrder
      <4> QED
        BY <4>1, <4>2
    <3> QED
      BY <3>2, <3>3, <3>4
  <2>3. ASSUME NEW p \in Page, file'[d].pending[p].kind = "content"
        PROVE  Follows(file'[d].pending[p].edit, local[d][p])
    <3>1. CASE p = q
      BY <1>2, <1>8, <3>1
    <3>2. CASE p # q
      <4>1. file'[d].pending[p] = file[d].pending[p]
        BY <1>2, <3>2
      <4> QED
        BY <1>4, <2>3, <4>1 DEF DeviceOrdered, EditsInOrder
    <3> QED
      BY <3>1, <3>2
  <2> QED
    BY <1>1, <2>1, <2>2, <2>3 DEF EditsInOrder, Follows
<1>12. AnsweredReached(d)'
  <2>1. AnsweredReached(d) /\ \A p : Reached(p)' = Reached(p)
    BY <1>1, <1>4 DEF DeviceOrdered, Reached
  <2>2. file'[d].batch = file[d].batch
    BY <1>2
  <2> QED
    BY <1>1, <2>1, <2>2 DEF AnsweredReached, Stage
<1>13. LocalSafe(d)'
  <2> SUFFICES ASSUME NEW p \in Page
               PROVE  \/ local[d][p] \in Reached(p) \union Queued(d, p)'
                      \/ \E i \in Waiting(d, p)' : queue'[d][i].edit = local[d][p]
    BY <1>1 DEF LocalSafe, Reached
  <2>1. CASE local[d][p] \in Reached(p)
    BY <2>1
  <2>2. CASE local[d][p] \in Queued(d, p)
    <3>1. CASE local[d][p] \in Queued(d, p)'
      BY <3>1
    <3>2. CASE local[d][p] \notin Queued(d, p)'
      <4>1. p = q /\ file[d].pending[p].kind = "content"
                  /\ file[d].pending[p].edit = local[d][p]
        <5> HIDE DEF q, e
        <5>1. file'[d].batch = file[d].batch
          BY <1>2
        <5>2. file[d].pending[p].kind = "content" /\ file[d].pending[p].edit = local[d][p]
          BY <2>2, <3>2, <5>1, QueuedIs, QueuedWillBe
        <5>3. file'[d].pending[p] # file[d].pending[p]
          BY <3>2, <5>2, QueuedWillBe
        <5> QED
          BY <1>2, <5>2, <5>3
      <4>2. Follows(local[d][p], e)
        BY <1>4, <1>7, <4>1 DEF DeviceOrdered, EditsInOrder
      <4>3. e = local[d][p]
        BY <1>2, <1>4, <1>8, <4>1, <4>2, FollowsOneWay, EditsTyped
      <4> QED
        BY <1>2, <4>1, <4>3, QueuedWillBe
    <3> QED
      BY <3>1, <3>2
  <2>3. ASSUME NEW i \in Waiting(d, p), queue[d][i].edit = local[d][p]
        PROVE  \/ local[d][p] \in Queued(d, p)'
               \/ \E k \in Waiting(d, p)' : queue'[d][k].edit = local[d][p]
    <3>1. CASE i = 1
      <4>1. p = q
        BY <3>1 DEF Waiting
      <4> QED
        BY <1>2, <2>3, <3>1, <4>1, QueuedWillBe
    <3>2. CASE i # 1
      <4>1. i \in Nat \ {0}
        BY <1>5 DEF Waiting
      <4>2. i - 1 \in Nat \ {0} /\ (i - 1) + 1 = i
        BY <3>2, <4>1
      <4>3. i - 1 \in DOMAIN queue'[d] /\ queue'[d][i - 1] = queue[d][i]
        BY <1>2, <4>2 DEF Waiting
      <4>4. i - 1 \in Waiting(d, p)'
        BY <4>3 DEF Waiting
      <4> QED
        BY <2>3, <4>3, <4>4
    <3> QED
      BY <3>1, <3>2
  <2> QED
    BY <1>4, <2>1, <2>2, <2>3 DEF DeviceOrdered, LocalSafe
<1>14. DeviceOrdered(d)'
  BY <1>9, <1>10, <1>11, <1>12, <1>13 DEF DeviceOrdered
<1> QED
  BY <1>3, <1>14, OnItsOwnOrdered

LEMMA CrashOrdered ==
    ASSUME TypesInv, Orderly, Ordered, NEW d \in Device, Crash(d)
    PROVE  Ordered'
<1>1. queue[d] = <<>> /\ queue' = [queue EXCEPT ![d] = <<>>]
  BY DEF Crash, Orderly
<1>2. /\ queue' = queue
      /\ UNCHANGED <<file, local, wire, versions, kept, answered, lineage, edits>>
  BY <1>1 DEF Crash, TypesInv, EditorTypes, cloudVars, fileVars
<1>3. /\ editor'[d] = Closed /\ \A x \in Device \ {d} : editor'[x] = editor[x]
      /\ \A x \in Device \ {d} : fetched'[x] = fetched[x]
  BY DEF Crash, TypesInv, EditorTypes, CycleTypes
<1>4. /\ cycle'[d].stage = "idle" /\ ~cycle'[d].pull
      /\ \A x \in Device \ {d} : cycle'[x] = cycle[x]
  BY DEF Crash, Stop, Idle, TypesInv, CycleTypes
<1>5. OnItsOwn(d)
  BY <1>2, <1>3, <1>4 DEF OnItsOwn
<1>6. PullsUndisturbed(d)'
  BY <1>4 DEF PullsUndisturbed, Stage
<1> QED
  BY <1>2, <1>3, <1>4, <1>5, <1>6, QuietOrdered

\* A step of the cycle that writes state.json and keeps the content in it, or
\* clears a batch that has reached the server.
LEMMA ContentKeptOrdered ==
    ASSUME TypesInv, Ordered, NEW d \in Device, OnItsOwn(d),
           UNCHANGED <<local, editor, queue, wire>>,
           \A p \in Page : file[d].pending[p].kind = "content"
                              <=> file'[d].pending[p].kind = "content",
           \A p \in Page : file[d].pending[p].kind = "content" =>
              file'[d].pending[p].edit = file[d].pending[p].edit,
           \/ file'[d].batch = file[d].batch
           \/ /\ file'[d].batch = NoBatch
              /\ \A p \in Page : file[d].batch.ops[p].kind = "content" =>
                    file[d].batch.ops[p].edit \in Reached(p),
           PullsUndisturbed(d)', cycle'[d].stage \notin {"answered", "mapped"}
    PROVE  Ordered'
<1> DeviceOrdered(d)
  BY DEF Ordered
<1>1. \A p : Waiting(d, p)' = Waiting(d, p) /\ Reached(p)' = Reached(p)
  <2>1. \A p : Waiting(d, p)' = Waiting(d, p)
    BY DEF Waiting
  <2>2. \A p : Reached(p)' = Reached(p)
    <3>1. versions' = versions /\ kept' = kept
      BY DEF OnItsOwn
    <3> QED
      BY <3>1 DEF Reached
  <2> QED
    BY <2>1, <2>2
<1>2. NoBatch.key = 0 /\ \A p \in Page : NoBatch.ops[p].kind = "none"
  BY DEF NoBatch, NoOps, NoOp
<1>3. ASSUME NEW p \in Page
      PROVE  /\ Queued(d, p)' \subseteq Queued(d, p)
             /\ Queued(d, p) \subseteq Reached(p) \union Queued(d, p)'
  <2> SUFFICES ASSUME NEW e
               PROVE  /\ e \in Queued(d, p)' => e \in Queued(d, p)
                      /\ e \in Queued(d, p) => e \in Reached(p) \union Queued(d, p)'
    OBVIOUS
  <2>1. CASE file'[d].batch = file[d].batch
    BY <2>1, QueuedIs, QueuedWillBe
  <2>2. CASE /\ file'[d].batch = NoBatch
             /\ file[d].batch.ops[p].kind = "content" =>
                   file[d].batch.ops[p].edit \in Reached(p)
    <3>1. file'[d].batch.ops[p].kind # "content"
      BY <1>2, <2>2
    <3> QED
      BY <2>2, <3>1, QueuedIs, QueuedWillBe
  <2> QED
    BY <2>1, <2>2
<1>4. EditsMade(d)'
  BY <1>3 DEF OnItsOwn, DeviceOrdered, EditsMade
<1>5. EditsInOrder(d)'
  <2>1. editor'[d] # Closed => editor'[d].edit = local'[d][editor'[d].page]
    BY DEF DeviceOrdered, EditsInOrder
  <2>2. ASSUME NEW p \in Page, NEW j \in Waiting(d, p)
        PROVE  /\ Follows(queue[d][j].edit, local[d][p])
               /\ \A i \in Waiting(d, p) : i < j =>
                     Follows(queue[d][i].edit, queue[d][j].edit)
               /\ file'[d].pending[p].kind = "content" =>
                     Follows(file'[d].pending[p].edit, queue[d][j].edit)
    BY DEF DeviceOrdered, EditsInOrder
  <2>3. ASSUME NEW p \in Page, file'[d].pending[p].kind = "content"
        PROVE  Follows(file'[d].pending[p].edit, local[d][p])
    BY <2>3 DEF DeviceOrdered, EditsInOrder
  <2>4. \A x, y : Follows(x, y)' <=> Follows(x, y)
    BY DEF OnItsOwn, Follows
  <2> QED
    BY <1>1, <2>1, <2>2, <2>3, <2>4 DEF EditsInOrder
<1>6. AnsweredReached(d)'
  <2>1. AnsweredReached(d)
    BY DEF DeviceOrdered
  <2>2. CASE file'[d].batch = file[d].batch
    BY <1>1, <2>1, <2>2 DEF OnItsOwn, AnsweredReached, Stage
  <2>3. CASE file'[d].batch = NoBatch
    <3>1. wire[d] # NoBatch => wire[d].key > 0 /\ wire[d].key # NoBatch.key
      BY <1>2, <2>1 DEF AnsweredReached
    <3> QED
      BY <1>2, <2>3, <3>1 DEF OnItsOwn, AnsweredReached, Stage
  <2> QED
    BY <2>2, <2>3
<1>7. LocalSafe(d)'
  BY <1>1, <1>3 DEF DeviceOrdered, LocalSafe
<1>8. DeviceOrdered(d)'
  BY <1>4, <1>5, <1>6, <1>7 DEF DeviceOrdered
<1> QED
  BY <1>8, OnItsOwnOrdered

\* What becomes of state.json when a commit is recorded, ...
LEMMA MarkCommitSucceededFile ==
    ASSUME TypesInv, Calm, NEW d \in Device, MarkCommitSucceeded(d)
    PROVE  /\ \A x \in Device \ {d} : file'[x] = file[x]
           /\ \A p \in Page : /\ file'[d].pending[p].kind = file[d].pending[p].kind
                              /\ file'[d].pending[p].edit = file[d].pending[p].edit
           /\ \/ file'[d].batch = file[d].batch
              \/ /\ file'[d].batch = NoBatch
                 /\ file[d].batch.key = fetched[d].response.key
<1>1. CASE Seen(d).batch.key # fetched[d].response.key
  BY <1>1 DEF MarkCommitSucceeded
<1>2. CASE Seen(d).batch.key = fetched[d].response.key
  <2> DEFINE ops == Rebased(file[d].pending, Results(d))
             f == [file[d] EXCEPT !.pending = ops, !.batch = NoBatch]
  <2>1. file' = [file EXCEPT ![d] = f] /\ file[d].batch.key = fetched[d].response.key
    BY <1>2, CalmReads DEF MarkCommitSucceeded, WriteState
  <2>2. file[d] \in File
    BY DEF TypesInv, FileTypes
  <2>3. \A p \in Page : /\ ops[p].kind = file[d].pending[p].kind
                        /\ ops[p].edit = file[d].pending[p].edit
    <3>1. \A p \in Page : file[d].pending[p] \in Op
      BY EditsTyped
    <3> QED
      BY <3>1 DEF Rebased, Op
  <2> HIDE DEF ops
  <2>4. f.pending = ops /\ f.batch = NoBatch
    BY <2>2 DEF File
  <2>5. file'[d] = f /\ \A x \in Device \ {d} : file'[x] = file[x]
    BY <2>1 DEF TypesInv, FileTypes
  <2> HIDE DEF f
  <2> QED
    BY <2>1, <2>3, <2>4, <2>5
<1> QED
  BY <1>1, <1>2

\* ... when metadata are queued once more, ...
LEMMA QueueMetadataFile ==
    ASSUME TypesInv, Calm, NEW d \in Device, QueueMetadata(d)
    PROVE  /\ \A x \in Device \ {d} : file'[x] = file[x]
           /\ file'[d].batch = file[d].batch
           /\ \A p \in Page :
                 \/ file'[d].pending[p] = file[d].pending[p]
                 \/ /\ Results(d)[p].outcome = "conflict"
                    /\ file[d].pending[p].kind = "none"
                    /\ file'[d].pending[p].kind = "metadata"
<1> DEFINE ops == [p \in Page |->
              IF Results(d)[p].outcome = "conflict" /\ file[d].pending[p] = NoOp
              THEN [kind |-> "metadata", base |-> Results(d)[p].revision, edit |-> 0]
              ELSE file[d].pending[p]]
           f == [file[d] EXCEPT !.pending = ops]
<1>1. file' = [file EXCEPT ![d] = f]
  <2>1. Seen(d) = file[d]
    BY CalmReads
  <2> QED
    BY <2>1 DEF QueueMetadata, WriteState
<1>2. file[d] \in File
  BY DEF TypesInv, FileTypes
<1>3. \A p \in Page : \/ ops[p] = file[d].pending[p]
                      \/ /\ Results(d)[p].outcome = "conflict"
                         /\ file[d].pending[p].kind = "none" /\ ops[p].kind = "metadata"
  BY DEF NoOp
<1> HIDE DEF ops
<1>4. f.pending = ops /\ f.batch = file[d].batch
  BY <1>2 DEF File
<1>5. file'[d] = f /\ \A x \in Device \ {d} : file'[x] = file[x]
  BY <1>1 DEF TypesInv, FileTypes
<1> HIDE DEF f
<1> QED
  BY <1>3, <1>4, <1>5

\* ... when the cursor moves on, ...
LEMMA MarkChangesAppliedFile ==
    ASSUME TypesInv, Calm, NEW d \in Device, MarkChangesApplied(d)
    PROVE  /\ \A x \in Device \ {d} : file'[x] = file[x]
           /\ file'[d].batch = file[d].batch /\ file'[d].pending = file[d].pending
<1>1. file' = [file EXCEPT ![d] = [file[d] EXCEPT !.cursor = fetched[d].upto]]
  BY CalmReads DEF MarkChangesApplied, WriteState
<1>2. file[d] \in File
  BY DEF TypesInv, FileTypes
<1>3. /\ [file[d] EXCEPT !.cursor = fetched[d].upto].batch = file[d].batch
      /\ [file[d] EXCEPT !.cursor = fetched[d].upto].pending = file[d].pending
  BY <1>2 DEF File
<1> QED
  BY <1>1, <1>3 DEF TypesInv, FileTypes

\* ... and when a batch is prepared.
LEMMA PrepareFile ==
    ASSUME TypesInv, Calm, NEW d \in Device, Prepare(d)
    PROVE  /\ \A x \in Device \ {d} : /\ file'[x] = file[x] /\ wire'[x] = wire[x]
                                      /\ cycle'[x] = cycle[x]
           /\ cycle'[d].stage \in {"pages", "sent"} /\ cycle'[d].pull = cycle[d].pull
           /\ \/ file'[d] = file[d] /\ wire'[d] = wire[d]
              \/ file'[d] = file[d] /\ file[d].batch # NoBatch /\ wire'[d] = file[d].batch
              \/ /\ file[d].batch = NoBatch /\ file'[d].pending = NoOps
                 /\ file'[d].batch.ops = file[d].pending /\ file'[d].batch.key > 0
                 /\ \A x \in answered[d] : x.key # file'[d].batch.key
                 /\ wire'[d] = file'[d].batch
<1>1. /\ file \in [Device -> File] /\ wire \in [Device -> Batch]
      /\ cycle \in [Device -> [stage: Stages, pull: BOOLEAN, again: BOOLEAN]]
      /\ wire[d].key \in Nat /\ \A x \in answered[d] : x.key \in Nat
  BY DEF TypesInv, CloudTypes, FileTypes, CycleTypes, Batch, Response
<1>2. ASSUME NEW s \in Stages, GoTo(d, s)
      PROVE  /\ cycle'[d].stage = s /\ cycle'[d].pull = cycle[d].pull
             /\ \A x \in Device \ {d} : cycle'[x] = cycle[x]
  BY <1>1, <1>2 DEF GoTo
<1>3. CASE GoTo(d, "pages") /\ WriteState(d, file[d]) /\ UNCHANGED wire
  BY <1>1, <1>2, <1>3 DEF WriteState, Stages
<1>4. ASSUME NEW f \in File,
             /\ GoTo(d, "sent") /\ WriteState(d, f)
             /\ wire' = [wire EXCEPT ![d] = f.batch],
             \/ file[d].batch # NoBatch /\ f = file[d]
             \/ /\ file[d].batch = NoBatch /\ f.pending = NoOps
                /\ f.batch = [key |-> FreshKey(d), ops |-> file[d].pending]
                /\ FreshKey(d) \in Nat /\ FreshKey(d) > wire[d].key
                /\ \A x \in answered[d] : FreshKey(d) > x.key
      PROVE  /\ \A x \in Device \ {d} : /\ file'[x] = file[x] /\ wire'[x] = wire[x]
                                        /\ cycle'[x] = cycle[x]
             /\ cycle'[d].stage = "sent" /\ cycle'[d].pull = cycle[d].pull
             /\ \/ file'[d] = file[d] /\ file[d].batch # NoBatch /\ wire'[d] = file[d].batch
                \/ /\ file[d].batch = NoBatch /\ file'[d].pending = NoOps
                   /\ file'[d].batch.ops = file[d].pending /\ file'[d].batch.key > 0
                   /\ \A x \in answered[d] : x.key # file'[d].batch.key
                   /\ wire'[d] = file'[d].batch
  <2>1. cycle'[d].stage = "sent" /\ cycle'[d].pull = cycle[d].pull
        /\ \A x \in Device \ {d} : cycle'[x] = cycle[x]
    BY <1>2, <1>4 DEF Stages
  <2>2. /\ file'[d] = f /\ wire'[d] = f.batch
        /\ \A x \in Device \ {d} : file'[x] = file[x] /\ wire'[x] = wire[x]
    BY <1>1, <1>4 DEF WriteState
  <2>3. CASE file[d].batch # NoBatch /\ f = file[d]
    BY <2>1, <2>2, <2>3
  <2>4. CASE /\ file[d].batch = NoBatch /\ f.pending = NoOps
             /\ f.batch = [key |-> FreshKey(d), ops |-> file[d].pending]
             /\ FreshKey(d) \in Nat /\ FreshKey(d) > wire[d].key
             /\ \A x \in answered[d] : FreshKey(d) > x.key
    <3>1. f.batch.key = FreshKey(d) /\ f.batch.ops = file[d].pending
      BY <2>4
    <3>2. FreshKey(d) > 0 /\ \A x \in answered[d] : x.key # FreshKey(d)
      BY <1>1, <2>4
    <3> QED
      BY <2>1, <2>2, <2>4, <3>1, <3>2
  <2> QED
    BY <1>4, <2>3, <2>4
<1> QED
  BY <1>3, <1>4, Prepared, CalmReads

LEMMA MarkCommitSucceededOrdered ==
    ASSUME TypesInv, Calm, Ordered, NEW d \in Device, MarkCommitSucceeded(d)
    PROVE  Ordered'
<1>1. UNCHANGED <<local, editor, queue, wire, versions, kept, answered, lineage, edits,
                  fetched>>
  BY DEF MarkCommitSucceeded, cloudVars, bookVars
<1>2. /\ \/ cycle'[d].stage = "follow" /\ cycle'[d].pull = cycle[d].pull
         \/ cycle'[d].stage = "idle" /\ ~cycle'[d].pull
      /\ \A x \in Device \ {d} : cycle'[x] = cycle[x]
  BY DEF MarkCommitSucceeded, GoTo, Stop, Idle, TypesInv, CycleTypes
<1>3. /\ \A x \in Device \ {d} : file'[x] = file[x]
      /\ \A p \in Page : /\ file'[d].pending[p].kind = file[d].pending[p].kind
                         /\ file'[d].pending[p].edit = file[d].pending[p].edit
      /\ \/ file'[d].batch = file[d].batch
         \/ file'[d].batch = NoBatch /\ file[d].batch.key = fetched[d].response.key
  BY MarkCommitSucceededFile
<1>4. DeviceOrdered(d) /\ Stage(d) = "mapped"
  BY DEF Ordered, MarkCommitSucceeded
<1>5. file[d].batch.key = fetched[d].response.key =>
        \A p \in Page : file[d].batch.ops[p].kind = "content" =>
           file[d].batch.ops[p].edit \in Reached(p)
  BY <1>4 DEF DeviceOrdered, AnsweredReached
<1>6. OnItsOwn(d)
  BY <1>1, <1>2, <1>3 DEF OnItsOwn
<1>7. PullsUndisturbed(d)'
  BY <1>1, <1>2, <1>4 DEF DeviceOrdered, PullsUndisturbed, Stage
<1> QED
  BY <1>1, <1>2, <1>3, <1>5, <1>6, <1>7, ContentKeptOrdered

LEMMA QueueMetadataOrdered ==
    ASSUME TypesInv, Calm, Ordered, NEW d \in Device, QueueMetadata(d)
    PROVE  Ordered'
<1>1. UNCHANGED <<local, editor, queue, wire, versions, kept, answered, lineage, edits,
                  fetched>>
  BY DEF QueueMetadata, cloudVars, bookVars
<1>2. /\ cycle'[d].stage = "push" /\ cycle'[d].pull = cycle[d].pull
      /\ \A x \in Device \ {d} : cycle'[x] = cycle[x]
  BY DEF QueueMetadata, GoTo, TypesInv, CycleTypes
<1>3. /\ \A x \in Device \ {d} : file'[x] = file[x]
      /\ file'[d].batch = file[d].batch
      /\ \A p \in Page : \/ file'[d].pending[p] = file[d].pending[p]
                         \/ /\ file[d].pending[p].kind = "none"
                            /\ file'[d].pending[p].kind = "metadata"
  BY QueueMetadataFile
<1>4. DeviceOrdered(d)
  BY DEF Ordered
<1>5. OnItsOwn(d)
  BY <1>1, <1>2, <1>3 DEF OnItsOwn
<1>6. PullsUndisturbed(d)'
  BY <1>1, <1>2, <1>4 DEF DeviceOrdered, PullsUndisturbed, Stage
<1> QED
  BY <1>1, <1>2, <1>3, <1>5, <1>6, ContentKeptOrdered

LEMMA MarkChangesAppliedOrdered ==
    ASSUME TypesInv, Calm, Ordered, NEW d \in Device, MarkChangesApplied(d)
    PROVE  Ordered'
<1>1. UNCHANGED <<local, editor, queue, wire, versions, kept, answered, lineage, edits>>
  BY DEF MarkChangesApplied, cloudVars, bookVars
<1>2. /\ cycle'[d].stage = "idle" /\ ~cycle'[d].pull
      /\ \A x \in Device \ {d} : cycle'[x] = cycle[x]
  BY DEF MarkChangesApplied, Stop, Idle, TypesInv, CycleTypes
<1>3. \A x \in Device \ {d} : fetched'[x] = fetched[x]
  BY NothingLeft DEF MarkChangesApplied
<1>4. /\ \A x \in Device \ {d} : file'[x] = file[x]
      /\ file'[d].batch = file[d].batch /\ file'[d].pending = file[d].pending
  BY MarkChangesAppliedFile
<1>5. OnItsOwn(d)
  BY <1>1, <1>2, <1>3, <1>4 DEF OnItsOwn
<1>6. PullsUndisturbed(d)'
  BY <1>2 DEF PullsUndisturbed, Stage
<1> QED
  BY <1>1, <1>2, <1>4, <1>5, <1>6, ContentKeptOrdered

LEMMA PrepareOrdered ==
    ASSUME TypesInv, Calm, Ordered, NEW d \in Device, Prepare(d)
    PROVE  Ordered'
<1>1. UNCHANGED <<local, editor, queue, versions, kept, answered, lineage, edits,
                  fetched>>
  BY DEF Prepare, cloudVars, bookVars
<1>2. /\ \A x \in Device \ {d} : /\ file'[x] = file[x] /\ wire'[x] = wire[x]
                                 /\ cycle'[x] = cycle[x]
      /\ cycle'[d].stage \in {"pages", "sent"} /\ cycle'[d].pull = cycle[d].pull
  BY PrepareFile
<1>3. OnItsOwn(d)
  BY <1>1, <1>2 DEF OnItsOwn
<1>4. DeviceOrdered(d)
  BY DEF Ordered
<1>5. PullsUndisturbed(d)'
  BY <1>1, <1>2, <1>4 DEF DeviceOrdered, PullsUndisturbed, Stage
<1>6. \A p : Waiting(d, p)' = Waiting(d, p) /\ Reached(p)' = Reached(p)
  BY <1>1 DEF Waiting, Reached
<1>7. ASSUME /\ file'[d] = file[d]
             /\ \/ wire'[d] = wire[d]
                \/ file[d].batch # NoBatch /\ wire'[d] = file[d].batch
      PROVE  DeviceOrdered(d)'
  <2>1. \A p : Queued(d, p)' = Queued(d, p)
    BY <1>7 DEF Queued
  <2>2. EditsMade(d)'
    BY <1>1, <1>4, <1>7, <2>1, QueuedIs DEF DeviceOrdered, EditsMade
  <2>3. EditsInOrder(d)'
    BY <1>1, <1>4, <1>6, <1>7 DEF DeviceOrdered, EditsInOrder, Follows
  <2>4. AnsweredReached(d)'
    BY <1>1, <1>2, <1>4, <1>6, <1>7 DEF DeviceOrdered, AnsweredReached, Stage
  <2>5. LocalSafe(d)'
    BY <1>1, <1>4, <1>6, <2>1 DEF DeviceOrdered, LocalSafe
  <2> QED
    BY <1>5, <2>2, <2>3, <2>4, <2>5 DEF DeviceOrdered
<1>8. ASSUME /\ file[d].batch = NoBatch /\ file'[d].pending = NoOps
             /\ file'[d].batch.ops = file[d].pending /\ file'[d].batch.key > 0
             /\ \A x \in answered[d] : x.key # file'[d].batch.key
             /\ wire'[d] = file'[d].batch
      PROVE  DeviceOrdered(d)'
  <2>1. \A p \in Page : NoOps[p].kind = "none" /\ NoBatch.ops[p].kind = "none"
    BY DEF NoBatch, NoOps, NoOp
  <2>2. \A p \in Page : \A e : e \in Queued(d, p)' <=> e \in Queued(d, p)
    BY <1>8, <2>1, QueuedIs, QueuedWillBe
  <2>3. EditsMade(d)'
    BY <1>1, <1>4, <1>8, <2>2, QueuedIs DEF DeviceOrdered, EditsMade
  <2>4. EditsInOrder(d)'
    BY <1>1, <1>4, <1>6, <1>8, <2>1 DEF DeviceOrdered, EditsInOrder, Follows
  <2>5. AnsweredReached(d)'
    BY <1>1, <1>2, <1>8 DEF AnsweredReached, Stage
  <2>6. LocalSafe(d)'
    BY <1>1, <1>4, <1>6, <2>2 DEF DeviceOrdered, LocalSafe
  <2> QED
    BY <1>5, <2>3, <2>4, <2>5, <2>6 DEF DeviceOrdered
<1>9. DeviceOrdered(d)'
  BY <1>7, <1>8, PrepareFile
<1> QED
  BY <1>3, <1>9, OnItsOwnOrdered

\* The content of every page joins the queue behind what is waiting.
LEMMA QueueLatestOrdered ==
    ASSUME TypesInv, Ordered, NEW d \in Device, QueueLatestCreatedContent(d)
    PROVE  Ordered'
<1> DEFINE E == {[page |-> p, edit |-> local[d][p]] : p \in Page}
           more == SetToSeq(E)
           n == Len(queue[d])
<1>1. UNCHANGED <<file, local, editor, wire, versions, kept, answered, lineage, edits,
                  fetched>>
  BY DEF QueueLatestCreatedContent, cloudVars, fileVars, bookVars
<1>2. /\ cycle'[d].stage = "drain" /\ cycle'[d].pull = cycle[d].pull
      /\ \A x \in Device \ {d} : cycle'[x] = cycle[x]
  BY DEF QueueLatestCreatedContent, GoTo, TypesInv, CycleTypes
<1>3. queue' = [queue EXCEPT ![d] = @ \o more]
  BY DEF QueueLatestCreatedContent
<1>4. queue'[d] = queue[d] \o more /\ \A x \in Device \ {d} : queue'[x] = queue[x]
  BY <1>3 DEF TypesInv, EditorTypes
<1>5. more \in Seq(E) /\ E \subseteq [page: Page, edit: Edit]
  BY SavesAreASequence DEF TypesInv, FileTypes
<1>6. \A item \in E : item.edit = local[d][item.page]
  OBVIOUS
<1>7. queue[d] \in Seq([page: Page, edit: Edit])
  BY EditsTyped
<1> HIDE DEF E, more
<1>8. /\ n \in Nat /\ DOMAIN queue[d] = 1..n
      /\ Len(more) \in Nat /\ DOMAIN queue'[d] = 1..(n + Len(more))
      /\ \A i \in 1..(n + Len(more)) :
            queue'[d][i] = IF i <= n THEN queue[d][i] ELSE more[i - n]
      /\ \A i \in 1..Len(more) : more[i] \in E
  <2>1. more \in Seq([page: Page, edit: Edit])
    BY <1>5, SeqMonotonic
  <2>2. /\ queue[d] \o more \in Seq([page: Page, edit: Edit])
        /\ Len(queue[d] \o more) = Len(queue[d]) + Len(more)
        /\ \A i \in 1..(Len(queue[d]) + Len(more)) : (queue[d] \o more)[i] =
              IF i <= Len(queue[d]) THEN queue[d][i] ELSE more[i - Len(queue[d])]
    BY <1>7, <2>1, ConcatProperties
  <2>3. DOMAIN (queue[d] \o more) = 1..Len(queue[d] \o more)
    BY <2>2, LenProperties
  <2>4. \A i \in 1..Len(more) : more[i] \in E
    BY <1>5, ElementOfSeq
  <2> QED
    BY <1>4, <1>5, <1>7, <2>1, <2>2, <2>3, <2>4, LenProperties
<1> HIDE DEF n
<1>9. ASSUME NEW i \in DOMAIN queue'[d]
      PROVE  \/ i \in DOMAIN queue[d] /\ i <= n /\ queue'[d][i] = queue[d][i]
             \/ i > n /\ queue'[d][i].edit = local[d][queue'[d][i].page]
  <2>1. CASE i <= n
    BY <1>8, <1>9, <2>1
  <2>2. CASE i > n
    <3>1. i - n \in 1..Len(more) /\ queue'[d][i] = more[i - n]
      BY <1>8, <1>9, <2>2
    <3> QED
      BY <1>6, <1>8, <2>2, <3>1
  <2> QED
    BY <1>8, <2>1, <2>2
<1>10. ASSUME NEW p \in Page, NEW i \in Waiting(d, p)'
       PROVE  \/ i \in Waiting(d, p) /\ i <= n /\ queue'[d][i] = queue[d][i]
              \/ i > n /\ queue'[d][i].edit = local[d][p]
  BY <1>9, <1>10 DEF Waiting
<1>11. \A p : \A i \in Waiting(d, p) : i \in Waiting(d, p)' /\ queue'[d][i] = queue[d][i]
  BY <1>8 DEF Waiting
<1>12. OnItsOwn(d)
  BY <1>1, <1>2, <1>4 DEF OnItsOwn
<1>13. DeviceOrdered(d)
  BY DEF Ordered
<1>14. \A p : Queued(d, p)' = Queued(d, p) /\ Reached(p)' = Reached(p)
  BY <1>1 DEF Queued, Reached
<1>15. EditsMade(d)'
  BY <1>1, <1>13, <1>14 DEF DeviceOrdered, EditsMade
<1>16. PullsUndisturbed(d)'
  BY <1>1, <1>2, <1>13 DEF DeviceOrdered, PullsUndisturbed, Stage
<1>17. EditsInOrder(d)'
  <2>1. editor'[d] # Closed => editor'[d].edit = local'[d][editor'[d].page]
    BY <1>1, <1>13 DEF DeviceOrdered, EditsInOrder
  <2>2. ASSUME NEW p \in Page, NEW j \in Waiting(d, p)'
        PROVE  /\ Follows(queue'[d][j].edit, local[d][p])
               /\ \A i \in Waiting(d, p)' : i < j =>
                     Follows(queue'[d][i].edit, queue'[d][j].edit)
               /\ file[d].pending[p].kind = "content" =>
                     Follows(file[d].pending[p].edit, queue'[d][j].edit)
    <3>1. EditsInOrder(d)
      BY <1>13 DEF DeviceOrdered
    <3>2. \A i \in Waiting(d, p)' : Follows(queue'[d][i].edit, local[d][p])
      BY <1>10, <3>1 DEF EditsInOrder, Follows
    <3>3. CASE j \in Waiting(d, p) /\ j <= n /\ queue'[d][j] = queue[d][j]
      <4>1. ASSUME NEW i \in Waiting(d, p)', i < j
            PROVE  Follows(queue'[d][i].edit, queue'[d][j].edit)
        <5>1. i \in Nat /\ j \in Nat
          BY <1>8, <2>2, <4>1 DEF Waiting
        <5>2. ~(i > n)
          BY <1>8, <3>3, <4>1, <5>1
        <5>3. i \in Waiting(d, p) /\ queue'[d][i] = queue[d][i]
          BY <1>10, <4>1, <5>2
        <5> QED
          BY <3>1, <3>3, <4>1, <5>3 DEF EditsInOrder
      <4>2. file[d].pending[p].kind = "content" =>
               Follows(file[d].pending[p].edit, queue'[d][j].edit)
        BY <3>1, <3>3 DEF EditsInOrder
      <4> QED
        BY <2>2, <3>2, <4>1, <4>2
    <3>4. CASE queue'[d][j].edit = local[d][p]
      BY <2>2, <3>1, <3>2, <3>4 DEF EditsInOrder
    <3> QED
      BY <1>10, <2>2, <3>3, <3>4
  <2>3. \A p \in Page : file[d].pending[p].kind = "content" =>
           Follows(file[d].pending[p].edit, local[d][p])
    BY <1>13 DEF DeviceOrdered, EditsInOrder
  <2> QED
    BY <1>1, <2>1, <2>2, <2>3 DEF EditsInOrder, Follows
<1>18. AnsweredReached(d)'
  BY <1>1, <1>2, <1>13, <1>14 DEF DeviceOrdered, AnsweredReached, Stage
<1>19. LocalSafe(d)'
  <2> SUFFICES ASSUME NEW p \in Page
               PROVE  \/ local[d][p] \in Reached(p) \union Queued(d, p)
                      \/ \E i \in Waiting(d, p)' : queue'[d][i].edit = local[d][p]
    BY <1>1, <1>14 DEF LocalSafe
  <2>1. \/ local[d][p] \in Reached(p) \union Queued(d, p)
        \/ \E i \in Waiting(d, p) : queue[d][i].edit = local[d][p]
    BY <1>13 DEF DeviceOrdered, LocalSafe
  <2> QED
    BY <1>11, <2>1
<1>20. DeviceOrdered(d)'
  BY <1>15, <1>16, <1>17, <1>18, <1>19 DEF DeviceOrdered
<1> QED
  BY <1>12, <1>20, OnItsOwnOrdered

\* Content is only replaced while nothing is waiting, to be sent or in the editor.
LEMMA ApplyIfSafeOrdered ==
    ASSUME TypesInv, Ordered, NEW d \in Device, ApplyIfSafe(d)
    PROVE  Ordered'
<1>1. UNCHANGED <<file, editor, queue, wire, versions, kept, answered, lineage, edits,
                  fetched>>
  BY DEF ApplyIfSafe, cloudVars, bookVars
<1>2. /\ \/ cycle'[d].stage = "applied" /\ cycle'[d].pull = cycle[d].pull
         \/ cycle'[d].stage = "idle" /\ ~cycle'[d].pull
      /\ \A x \in Device \ {d} : cycle'[x] = cycle[x]
  BY DEF ApplyIfSafe, GoTo, Stop, Idle, TypesInv, CycleTypes
<1>3. DeviceOrdered(d) /\ Stage(d) = "apply"
  BY DEF Ordered, ApplyIfSafe
<1>4. /\ cycle[d].pull /\ editor[d] = Closed /\ queue[d] = <<>>
      /\ file[d].pending = NoOps /\ file[d].batch = NoBatch
  BY <1>3 DEF DeviceOrdered, PullsUndisturbed
<1>5. ASSUME NEW p \in Page
      PROVE  local'[d][p] = local[d][p] \/ \E i \in 1..Len(versions[p]) :
                                               local'[d][p] = versions[p][i]
  <2>1. fetched[d].snapshot[p] \in 1..Len(versions[p])
    BY <1>3 DEF TypesInv, SnapshotsReal
  <2>2. CASE /\ Stop(d) /\ UNCHANGED local
    BY <2>2
  <2>3. CASE local' = [local EXCEPT ![d] = [q \in Page |->
                          IF q \in Changed(d) THEN versions[q][fetched[d].snapshot[q]]
                          ELSE @[q]]]
    <3>1. local'[d] = [q \in Page |->
                          IF q \in Changed(d) THEN versions[q][fetched[d].snapshot[q]]
                          ELSE local[d][q]]
      BY <2>3 DEF TypesInv, FileTypes
    <3>2. local'[d][p] = IF p \in Changed(d) THEN versions[p][fetched[d].snapshot[p]]
                         ELSE local[d][p]
      BY <3>1
    <3> QED
      BY <2>1, <3>2
  <2> QED
    BY <2>2, <2>3 DEF ApplyIfSafe
<1>6. \A x \in Device \ {d} : local'[x] = local[x]
  BY DEF ApplyIfSafe, TypesInv, FileTypes
<1>7. OnItsOwn(d)
  BY <1>1, <1>2, <1>6 DEF OnItsOwn
<1>8. \A p \in Page : /\ NoOps[p].kind = "none" /\ NoBatch.ops[p].kind = "none"
                      /\ Waiting(d, p)' = {}
  BY <1>1, <1>4 DEF NoBatch, NoOps, NoOp, Waiting
<1>9. \A p : Queued(d, p)' = Queued(d, p) /\ Reached(p)' = Reached(p)
  BY <1>1 DEF Queued, Reached
<1>10. EditsMade(d)'
  BY <1>1, <1>3, <1>5, <1>9 DEF Ordered, VersionsMade, DeviceOrdered, EditsMade
<1>11. PullsUndisturbed(d)'
  BY <1>1, <1>2, <1>3, <1>4 DEF DeviceOrdered, PullsUndisturbed, Stage
<1>12. EditsInOrder(d)'
  BY <1>1, <1>4, <1>8 DEF EditsInOrder
<1>13. AnsweredReached(d)'
  BY <1>1, <1>2, <1>3, <1>9 DEF DeviceOrdered, AnsweredReached, Stage
<1>14. LocalSafe(d)'
  <2> SUFFICES ASSUME NEW p \in Page
               PROVE  local'[d][p] \in Reached(p) \union Queued(d, p)
    BY <1>9 DEF LocalSafe
  <2>1. Waiting(d, p) = {}
    BY <1>4 DEF Waiting
  <2>2. local[d][p] \in Reached(p) \union Queued(d, p)
    BY <1>3, <2>1 DEF DeviceOrdered, LocalSafe
  <2>3. \A i \in 1..Len(versions[p]) : versions[p][i] \in Reached(p)
    BY LenProperties DEF Reached, TypesInv, CloudTypes
  <2> QED
    BY <1>5, <2>2, <2>3
<1>15. DeviceOrdered(d)'
  BY <1>10, <1>11, <1>12, <1>13, <1>14 DEF DeviceOrdered
<1> QED
  BY <1>7, <1>15, OnItsOwnOrdered

\* What a save does: a new edit, built upon the one it replaces.
LEMMA Saved ==
    ASSUME TypesInv, Ordered, NEW d \in Device, Save(d)
    PROVE  LET p == editor[d].page
               e == edits + 1
               n == Len(queue[d])
           IN  /\ p \in Page /\ e \in Edit /\ edits' = e /\ local[d][p] \in Edit
               /\ local[d][p] <= edits /\ editor'[d].page = p /\ editor'[d].edit = e
               /\ local'[d][p] = e
               /\ \A r \in Page \ {p} : local'[d][r] = local[d][r]
               /\ lineage'[e] = lineage[local[d][p]] \union {local[d][p]}
               /\ \A y \in Edit \ {e} : lineage'[y] = lineage[y]
               /\ n \in Nat /\ DOMAIN queue[d] = 1..n /\ DOMAIN queue'[d] = 1..(n + 1)
               /\ \A i \in 1..n : queue'[d][i] = queue[d][i]
               /\ queue'[d][n + 1].page = p /\ queue'[d][n + 1].edit = e
               /\ \A x \in Device \ {d} : /\ local'[x] = local[x] /\ queue'[x] = queue[x]
                                          /\ editor'[x] = editor[x]
<1> DEFINE p == editor[d].page
           e == edits + 1
           item == [page |-> p, edit |-> e]
<1>1. p \in Page /\ editor[d].edit = local[d][p]
  BY DEF Save, TypesInv, EditorTypes, Ordered, DeviceOrdered, EditsInOrder
<1>2. e \in Edit /\ edits' = e
  BY DeviceAssumption DEF Save, TypesInv, BookTypes, Edit
<1>3. local[d][p] \in Edit /\ local[d][p] <= edits
  BY <1>1, EditsTyped DEF Ordered, DeviceOrdered, EditsMade
<1>4. editor' = [editor EXCEPT ![d].edit = e] /\ local' = [local EXCEPT ![d][p] = e]
  BY DEF Save
<1>5. /\ lineage' = [lineage EXCEPT ![e] = lineage[local[d][p]] \union {local[d][p]}]
      /\ queue' = [queue EXCEPT ![d] = Append(queue[d], item)]
  BY <1>1 DEF Save
<1>6. item \in [page: Page, edit: Edit] /\ queue[d] \in Seq([page: Page, edit: Edit])
  BY <1>1, <1>2, EditsTyped
<1>7. item.page = p /\ item.edit = e
  OBVIOUS
<1> HIDE DEF p, e, item
<1>8. editor'[d].page = p /\ editor'[d].edit = e
  BY <1>4 DEF TypesInv, EditorTypes, p
<1>9. local'[d][p] = e /\ \A r \in Page \ {p} : local'[d][r] = local[d][r]
  BY <1>1, <1>4 DEF TypesInv, FileTypes
<1>10. lineage'[e] = lineage[local[d][p]] \union {local[d][p]}
       /\ \A y \in Edit \ {e} : lineage'[y] = lineage[y]
  BY <1>2, <1>5 DEF TypesInv, BookTypes
<1>11. /\ queue'[d] = Append(queue[d], item)
       /\ \A x \in Device \ {d} : /\ local'[x] = local[x] /\ queue'[x] = queue[x]
                                  /\ editor'[x] = editor[x]
  BY <1>4, <1>5 DEF TypesInv, EditorTypes, FileTypes
<1>12. /\ Len(queue[d]) \in Nat /\ DOMAIN queue[d] = 1..Len(queue[d])
       /\ DOMAIN queue'[d] = 1..(Len(queue[d]) + 1)
       /\ \A i \in 1..Len(queue[d]) : queue'[d][i] = queue[d][i]
       /\ queue'[d][Len(queue[d]) + 1] = item
  BY <1>6, <1>11, AppendProperties, LenProperties
<1> QED
  BY <1>1, <1>2, <1>3, <1>7, <1>8, <1>9, <1>10, <1>11, <1>12 DEF p, e

LEMMA SaveOrdered ==
    ASSUME TypesInv, Ordered, NEW d \in Device, Save(d)
    PROVE  Ordered'
<1> DEFINE p == editor[d].page
           e == edits + 1
           old == local[d][p]
           n == Len(queue[d])
           Later(x, y) == x = y \/ x \in lineage'[y]
<1>1. UNCHANGED <<file, cycle, wire, fetched, versions, kept, answered>>
  BY DEF Save, cloudVars
<1>2. /\ p \in Page /\ e \in Edit /\ edits' = e /\ old \in Edit
      /\ old <= edits /\ editor'[d].page = p /\ editor'[d].edit = e
      /\ local'[d][p] = e
      /\ \A r \in Page \ {p} : local'[d][r] = local[d][r]
      /\ lineage'[e] = lineage[old] \union {old}
      /\ \A y \in Edit \ {e} : lineage'[y] = lineage[y]
  BY Saved
<1>3. /\ n \in Nat /\ DOMAIN queue[d] = 1..n /\ DOMAIN queue'[d] = 1..(n + 1)
      /\ \A i \in 1..n : queue'[d][i] = queue[d][i]
      /\ queue'[d][n + 1].page = p /\ queue'[d][n + 1].edit = e
      /\ \A x \in Device \ {d} : /\ local'[x] = local[x] /\ queue'[x] = queue[x]
                                 /\ editor'[x] = editor[x]
  BY Saved
<1>4. LineageOrdered /\ VersionsMade /\ DeviceOrdered(d)
  BY DEF Ordered
<1>5. /\ edits \in Nat /\ edits < e /\ old < e /\ Edit \subseteq Nat
      /\ lineage \in [Edit -> SUBSET Edit]
  BY <1>2 DEF TypesInv, BookTypes, Edit
<1>6. editor[d] # Closed
  BY DEF Save
<1> HIDE DEF p, e, old, n
<1>7. lineage[e] = {}
  BY <1>2, <1>4, <1>5 DEF LineageOrdered
<1>8. Grows
  <2>1. \A y \in Edit : lineage[y] \subseteq lineage'[y]
    BY <1>2, <1>7
  <2>2. edits <= edits' /\ edits' \in Edit
    BY <1>2, <1>5
  <2> QED
    BY <1>1, <2>1, <2>2 DEF Grows, Reached
<1>9. LineageOrdered'
  <2>1. ASSUME NEW y \in Edit, y > edits' PROVE lineage'[y] = {}
    <3>1. y > edits /\ y # e
      BY <1>2, <1>5, <2>1
    <3> QED
      BY <1>2, <1>4, <3>1 DEF LineageOrdered
  <2>2. ASSUME NEW x \in lineage'[e]
        PROVE  x < e /\ lineage'[x] \subseteq lineage'[e]
    <3>1. CASE x = old
      <4>1. lineage'[x] = lineage[old]
        BY <1>2, <1>5, <3>1
      <4> QED
        BY <1>2, <1>5, <3>1, <4>1
    <3>2. CASE x \in lineage[old]
      <4>1. x \in Edit /\ x < old /\ lineage[x] \subseteq lineage[old]
        BY <1>2, <1>4, <1>5, <3>2 DEF LineageOrdered
      <4>2. x < e /\ x # e
        BY <1>2, <1>5, <4>1
      <4> QED
        BY <1>2, <4>1, <4>2
    <3> QED
      BY <1>2, <2>2, <3>1, <3>2
  <2>3. ASSUME NEW y \in Edit \ {e}, NEW x \in lineage'[y]
        PROVE  x < y /\ lineage'[x] \subseteq lineage'[y]
    <3>1. x \in lineage[y] /\ lineage'[y] = lineage[y]
      BY <1>2, <2>3
    <3>2. x \in Edit /\ x < y /\ lineage[x] \subseteq lineage[y]
      BY <1>4, <1>5, <3>1 DEF LineageOrdered
    <3>3. ~(y > edits)
      BY <1>4, <3>1 DEF LineageOrdered
    <3>4. x # e
      BY <1>5, <3>2, <3>3
    <3> QED
      BY <1>2, <3>1, <3>2, <3>4
  <2> QED
    BY <2>1, <2>2, <2>3 DEF LineageOrdered
<1>10. \A u \in Edit : u <= edits => u <= edits'
  BY <1>2, <1>5
<1>11. VersionsMade'
  <2>1. \A r \in Page : \A i \in 1..Len(versions[r]) : versions[r][i] \in Edit
    BY ElementOfSeq DEF TypesInv, CloudTypes
  <2> QED
    BY <1>1, <1>4, <1>10, <2>1 DEF VersionsMade
<1>12. ASSUME NEW x \in Device \ {d} PROVE DeviceOrdered(x)'
  BY <1>1, <1>3, <1>8, OthersOrdered DEF Ordered
<1>13. \A u, v \in Edit : Follows(u, v) => Later(u, v)
  BY <1>8 DEF Follows, Grows
<1>14. \A u \in Edit : Follows(u, old) => Later(u, e)
  BY <1>2 DEF Follows
<1>15. \A r : Queued(d, r)' = Queued(d, r) /\ Reached(r)' = Reached(r)
  BY <1>1 DEF Queued, Reached
<1>16. EditsMade(d)'
  <2> SUFFICES ASSUME NEW r \in Page
               PROVE  /\ local'[d][r] <= edits'
                      /\ wire[d].ops[r].kind = "content" => wire[d].ops[r].edit <= edits'
                      /\ \A u \in Queued(d, r) : u <= edits'
    BY <1>1, <1>15 DEF EditsMade
  <2>1. local'[d][r] <= edits'
    <3>1. CASE r = p
      BY <1>2, <1>5, <3>1
    <3>2. CASE r # p
      <4>1. local'[d][r] = local[d][r] /\ local[d][r] \in Edit
        BY <1>2, <3>2, EditsTyped
      <4> QED
        BY <1>4, <1>10, <4>1 DEF DeviceOrdered, EditsMade
    <3> QED
      BY <3>1, <3>2
  <2> QED
    BY <1>4, <1>10, <2>1, EditsTyped DEF DeviceOrdered, EditsMade
<1>17. PullsUndisturbed(d)'
  <2>1. ~cycle[d].pull
    BY <1>4, <1>6 DEF DeviceOrdered, PullsUndisturbed
  <2> QED
    BY <1>1, <1>4, <2>1 DEF DeviceOrdered, PullsUndisturbed, Stage
<1>18. ASSUME NEW r \in Page, NEW i \in Waiting(d, r)'
       PROVE  \/ i \in Waiting(d, r) /\ i \in 1..n /\ queue'[d][i] = queue[d][i]
              \/ i = n + 1 /\ r = p /\ queue'[d][i].edit = e
  BY <1>3, <1>18 DEF Waiting
<1>19. ASSUME NEW r \in Page, NEW u \in Edit, Follows(u, local[d][r])
       PROVE  Later(u, local'[d][r])
  <2>1. CASE r = p
    BY <1>2, <1>14, <1>19, <2>1 DEF old, Follows
  <2>2. CASE r # p
    <3>1. local'[d][r] = local[d][r] /\ local[d][r] \in Edit
      BY <1>2, <2>2, EditsTyped
    <3> QED
      BY <1>13, <1>19, <3>1 DEF Follows
  <2> QED
    BY <2>1, <2>2
<1>20. EditsInOrder(d)'
  <2>1. editor'[d] # Closed => editor'[d].edit = local'[d][editor'[d].page]
    BY <1>2
  <2>2. EditsInOrder(d)
    BY <1>4 DEF DeviceOrdered
  <2>3. ASSUME NEW r \in Page, file[d].pending[r].kind = "content"
        PROVE  Later(file[d].pending[r].edit, local'[d][r])
    <3>1. file[d].pending[r].edit \in Edit /\ Follows(file[d].pending[r].edit, local[d][r])
      BY <2>2, <2>3, EditsTyped DEF EditsInOrder
    <3> QED
      BY <1>19, <3>1 DEF Follows
  <2>4. ASSUME NEW r \in Page, NEW j \in Waiting(d, r)'
        PROVE  /\ Later(queue'[d][j].edit, local'[d][r])
               /\ \A i \in Waiting(d, r)' : i < j =>
                     Later(queue'[d][i].edit, queue'[d][j].edit)
               /\ file[d].pending[r].kind = "content" =>
                     Later(file[d].pending[r].edit, queue'[d][j].edit)
    <3>1. ASSUME NEW i \in Waiting(d, r)', i \in Waiting(d, r), queue'[d][i] = queue[d][i]
          PROVE  Later(queue'[d][i].edit, local'[d][r])
      <4>1. queue[d][i].edit \in Edit /\ Follows(queue[d][i].edit, local[d][r])
        BY <2>2, <3>1, EditsTyped DEF EditsInOrder, Waiting
      <4> QED
        BY <1>19, <3>1, <4>1 DEF Follows
    <3>2. CASE j \in Waiting(d, r) /\ j \in 1..n /\ queue'[d][j] = queue[d][j]
      <4>1. Later(queue'[d][j].edit, local'[d][r])
        BY <2>4, <3>1, <3>2
      <4>2. queue[d][j].edit \in Edit /\ file[d].pending[r].edit \in Edit
        BY <3>2, EditsTyped DEF Waiting
      <4>3. ASSUME NEW i \in Waiting(d, r)', i < j
            PROVE  Later(queue'[d][i].edit, queue'[d][j].edit)
        <5>1. i # n + 1
          BY <1>3, <3>2, <4>3
        <5>2. i \in Waiting(d, r) /\ queue'[d][i] = queue[d][i]
          BY <1>18, <4>3, <5>1
        <5>3. queue[d][i].edit \in Edit /\ Follows(queue[d][i].edit, queue[d][j].edit)
          BY <2>2, <3>2, <4>3, <5>2, EditsTyped DEF EditsInOrder, Waiting
        <5> QED
          BY <1>13, <3>2, <4>2, <5>2, <5>3 DEF Follows
      <4>4. ASSUME file[d].pending[r].kind = "content"
            PROVE  Later(file[d].pending[r].edit, queue'[d][j].edit)
        <5>1. Follows(file[d].pending[r].edit, queue[d][j].edit)
          BY <2>2, <3>2, <4>4 DEF EditsInOrder
        <5> QED
          BY <1>13, <3>2, <4>2, <5>1 DEF Follows
      <4> QED
        BY <4>1, <4>3, <4>4
    <3>3. CASE j = n + 1 /\ r = p /\ queue'[d][j].edit = e
      <4>1. queue'[d][j].edit = local'[d][r]
        BY <1>2, <3>3
      <4>2. Later(queue'[d][j].edit, local'[d][r])
        BY <4>1 DEF Follows
      <4>3. ASSUME NEW i \in Waiting(d, r)', i < j
            PROVE  Later(queue'[d][i].edit, queue'[d][j].edit)
        <5>1. i # n + 1
          BY <1>3, <3>3, <4>3
        <5>2. i \in Waiting(d, r) /\ queue'[d][i] = queue[d][i]
          BY <1>18, <4>3, <5>1
        <5> QED
          BY <3>1, <4>1, <5>2
      <4> QED
        BY <2>3, <4>1, <4>2, <4>3
    <3> QED
      BY <1>18, <2>4, <3>2, <3>3
  <2> QED
    BY <1>1, <2>1, <2>3, <2>4 DEF EditsInOrder, Follows
<1>21. AnsweredReached(d)'
  <2>1. AnsweredReached(d)
    BY <1>4 DEF DeviceOrdered
  <2> QED
    BY <1>1, <1>15, <2>1 DEF AnsweredReached, Stage
<1>22. LocalSafe(d)'
  <2> SUFFICES ASSUME NEW r \in Page
               PROVE  \/ local'[d][r] \in Reached(r) \union Queued(d, r)
                      \/ \E i \in Waiting(d, r)' : queue'[d][i].edit = local'[d][r]
    BY <1>15 DEF LocalSafe
  <2>1. CASE r = p
    <3>1. n + 1 \in Waiting(d, r)'
      BY <1>3, <2>1 DEF Waiting
    <3> QED
      BY <1>2, <1>3, <2>1, <3>1
  <2>2. CASE r # p
    <3>1. local'[d][r] = local[d][r]
      BY <1>2, <2>2
    <3>2. \A i \in Waiting(d, r) : i \in Waiting(d, r)' /\ queue'[d][i] = queue[d][i]
      BY <1>3 DEF Waiting
    <3> QED
      BY <1>4, <3>1, <3>2 DEF DeviceOrdered, LocalSafe
  <2> QED
    BY <2>1, <2>2
<1>23. DeviceOrdered(d)'
  BY <1>16, <1>17, <1>20, <1>21, <1>22 DEF DeviceOrdered
<1> QED
  BY <1>9, <1>11, <1>12, <1>23 DEF Ordered

\* A batch the server had no record of: the content of each of its operations
\* becomes a version, is one already or is kept as a conflict.
LEMMA CommitReaches ==
    ASSUME TypesInv, NEW d \in Device, ServerCommit(d), NEW p \in Page
    PROVE  LET op == wire[d].ops[p]
           IN  /\ Reached(p) \subseteq Reached(p)'
               /\ \A i \in 1..Len(versions'[p]) :
                     \/ i \in 1..Len(versions[p]) /\ versions'[p][i] = versions[p][i]
                     \/ op.kind = "content" /\ versions'[p][i] = op.edit
               /\ (~\E x \in answered[d] : x.key = wire[d].key) /\ op.kind = "content" =>
                     op.edit \in Reached(p)'
<1> DEFINE op == wire[d].ops[p]
<1>1. CASE \E x \in answered[d] : x.key = wire[d].key
  <2>1. UNCHANGED cloudVars
    BY <1>1 DEF ServerCommit
  <2> QED
    BY <1>1, <2>1 DEF cloudVars, Reached
<1>2. CASE ~\E x \in answered[d] : x.key = wire[d].key
  <2>1. versions' = [q \in Page |-> IF q \in {r \in Page : Applies(wire[d].ops[r], r)}
                                    THEN Append(versions[q], wire[d].ops[q].edit)
                                    ELSE versions[q]]
    BY <1>2 DEF ServerCommit
  <2>2. kept' = [q \in Page |-> IF Conflicts(wire[d].ops[q], q)
                                THEN kept[q] \union {wire[d].ops[q].edit} ELSE kept[q]]
    BY <1>2 DEF ServerCommit
  <2>3. versions'[p] = IF Applies(op, p) THEN Append(versions[p], op.edit) ELSE versions[p]
    BY <2>1
  <2>4. kept'[p] = IF Conflicts(op, p) THEN kept[p] \union {op.edit} ELSE kept[p]
    BY <2>2
  <2>5. versions[p] \in Seq(Edit) /\ versions[p] # <<>> /\ op.edit \in Edit
    BY EditsTyped DEF TypesInv, CloudTypes
  <2> HIDE DEF op
  <2>6. /\ Len(versions[p]) \in Nat \ {0} /\ DOMAIN versions[p] = 1..Len(versions[p])
        /\ CloudEdit(p) = versions[p][Len(versions[p])]
    BY <2>5, EmptySeq, LenProperties DEF CloudEdit, Last
  <2>7. CASE Applies(op, p)
    <3>1. versions'[p] = Append(versions[p], op.edit) /\ op.kind = "content"
      BY <2>3, <2>7 DEF Applies
    <3>2. /\ Len(versions'[p]) = Len(versions[p]) + 1
          /\ DOMAIN versions'[p] = 1..(Len(versions[p]) + 1)
          /\ \A i \in 1..Len(versions[p]) : versions'[p][i] = versions[p][i]
          /\ versions'[p][Len(versions[p]) + 1] = op.edit
      BY <2>5, <3>1, AppendProperties, LenProperties
    <3>3. op.edit \in Reached(p)'
      BY <2>6, <3>2 DEF Reached
    <3>4. Reached(p) \subseteq Reached(p)'
      BY <2>4, <2>6, <3>2 DEF Reached
    <3>5. \A i \in 1..Len(versions'[p]) :
             \/ i \in 1..Len(versions[p]) /\ versions'[p][i] = versions[p][i]
             \/ op.kind = "content" /\ versions'[p][i] = op.edit
      BY <2>6, <3>1, <3>2
    <3> QED
      BY <3>3, <3>4, <3>5 DEF op
  <2>8. CASE ~Applies(op, p)
    <3>1. versions'[p] = versions[p]
      BY <2>3, <2>8
    <3>2. Reached(p) \subseteq Reached(p)'
      BY <2>4, <3>1 DEF Reached
    <3>3. op.kind = "content" => op.edit \in Reached(p)'
      <4>1. CASE Conflicts(op, p)
        BY <2>4, <4>1 DEF Reached
      <4>2. CASE op.edit = CloudEdit(p)
        BY <2>6, <3>1, <4>2 DEF Reached
      <4> QED
        BY <2>8, <4>1, <4>2 DEF Applies, Conflicts
    <3> QED
      BY <3>1, <3>2, <3>3 DEF op
  <2> QED
    BY <2>7, <2>8
<1> QED
  BY <1>1, <1>2

\* The server commits what is on its way from the device, or answers again.
LEMMA ServerCommitOrdered ==
    ASSUME TypesInv, Ordered, NEW d \in Device, ServerCommit(d)
    PROVE  Ordered'
<1>1. UNCHANGED <<file, local, editor, queue, lineage, edits>> /\ wire[d] # NoBatch
  BY DEF ServerCommit, fileVars, bookVars
<1>2. /\ wire'[d] = NoBatch /\ \A x \in Device \ {d} : wire'[x] = wire[x]
      /\ \A x \in Device \ {d} : fetched'[x] = fetched[x]
  BY DEF ServerCommit, TypesInv, CycleTypes
<1>3. /\ \A x \in Device \ {d} : answered'[x] = answered[x]
      /\ answered[d] \subseteq answered'[d]
      /\ \E x \in answered'[d] : x.key = wire[d].key
      /\ \A x \in answered'[d] \ answered[d] : x.key = wire[d].key
  BY Committed DEF TypesInv, CycleTypes
<1>4. (\E x \in answered[d] : x.key = wire[d].key) => answered' = answered
  BY DEF ServerCommit, cloudVars
<1>5. \A p \in Page :
         /\ Reached(p) \subseteq Reached(p)'
         /\ \A i \in 1..Len(versions'[p]) :
               \/ i \in 1..Len(versions[p]) /\ versions'[p][i] = versions[p][i]
               \/ wire[d].ops[p].kind = "content" /\ versions'[p][i] = wire[d].ops[p].edit
         /\ (~\E x \in answered[d] : x.key = wire[d].key)
               /\ wire[d].ops[p].kind = "content" => wire[d].ops[p].edit \in Reached(p)'
  BY CommitReaches
<1>6. \/ /\ Stage(d) = "sent" /\ GoTo(d, "answered")
         /\ fetched' = [fetched EXCEPT ![d].response =
                           CHOOSE x \in answered'[d] : x.key = wire[d].key]
      \/ Stage(d) # "sent" /\ UNCHANGED <<cycle, fetched>>
  BY DEF ServerCommit
<1>7. /\ \/ cycle'[d].stage = cycle[d].stage \/ cycle'[d].stage = "answered"
      /\ cycle'[d].pull = cycle[d].pull
      /\ \A x \in Device \ {d} : cycle'[x] = cycle[x]
  BY <1>6 DEF GoTo, TypesInv, CycleTypes, Stages
<1>8. DeviceOrdered(d) /\ VersionsMade /\ LineageOrdered
  BY DEF Ordered
<1>9. Grows
  BY <1>1, <1>5 DEF Grows, TypesInv, BookTypes, Edit
<1>10. LineageOrdered'
  BY <1>1, <1>8 DEF LineageOrdered
<1>11. VersionsMade'
  <2>1. \A p \in Page : wire[d].ops[p].kind = "content" => wire[d].ops[p].edit <= edits
    BY <1>8 DEF DeviceOrdered, EditsMade
  <2> SUFFICES ASSUME NEW p \in Page, NEW i \in 1..Len(versions'[p])
               PROVE  versions'[p][i] <= edits
    BY <1>1 DEF VersionsMade
  <2> QED
    BY <1>5, <1>8, <2>1 DEF VersionsMade
<1>12. ASSUME NEW x \in Device \ {d} PROVE DeviceOrdered(x)'
  BY <1>1, <1>2, <1>3, <1>7, <1>9, OthersOrdered DEF Ordered
<1>13. \A p : Queued(d, p)' = Queued(d, p) /\ Waiting(d, p)' = Waiting(d, p)
  BY <1>1 DEF Queued, Waiting
<1>14. EditsMade(d)'
  <2>1. \A p \in Page : NoBatch.ops[p].kind = "none"
    BY DEF NoBatch, NoOps, NoOp
  <2> QED
    BY <1>1, <1>2, <1>8, <1>13, <2>1 DEF DeviceOrdered, EditsMade
<1>15. PullsUndisturbed(d)'
  BY <1>1, <1>7, <1>8 DEF DeviceOrdered, PullsUndisturbed, Stage
<1>16. EditsInOrder(d)'
  BY <1>1, <1>8, <1>13 DEF DeviceOrdered, EditsInOrder, Follows
<1>17. AnsweredReached(d)'
  <2>1. AnsweredReached(d)
    BY <1>8 DEF DeviceOrdered
  <2>2. ASSUME NEW x \in answered'[d], x.key = file[d].batch.key,
               NEW p \in Page, file[d].batch.ops[p].kind = "content"
        PROVE  file[d].batch.ops[p].edit \in Reached(p)'
    <3>1. CASE x \in answered[d]
      BY <1>5, <2>1, <2>2, <3>1 DEF AnsweredReached
    <3>2. CASE x \notin answered[d]
      <4>1. x.key = wire[d].key /\ ~\E r \in answered[d] : r.key = wire[d].key
        BY <1>3, <1>4, <2>2, <3>2
      <4>2. wire[d] = file[d].batch
        BY <1>1, <2>1, <2>2, <4>1 DEF AnsweredReached
      <4> QED
        BY <1>5, <2>2, <4>1, <4>2
    <3> QED
      BY <3>1, <3>2
  <2>3. cycle'[d].stage \in {"answered", "mapped"} => fetched'[d].response \in answered'[d]
    <3>1. CASE Stage(d) = "sent"
      <4> DEFINE r == CHOOSE x \in answered'[d] : x.key = wire[d].key
      <4>1. r \in answered'[d]
        BY <1>3
      <4>2. fetched' = [fetched EXCEPT ![d].response = r]
        BY <1>6, <3>1
      <4> HIDE DEF r
      <4>3. fetched'[d].response = r
        BY <4>2 DEF TypesInv, CycleTypes
      <4> QED
        BY <4>1, <4>3
    <3>2. CASE Stage(d) # "sent"
      BY <1>3, <1>6, <2>1, <3>2 DEF AnsweredReached, Stage
    <3> QED
      BY <3>1, <3>2
  <2> QED
    BY <1>1, <1>2, <2>1, <2>2, <2>3 DEF AnsweredReached, Stage
<1>18. LocalSafe(d)'
  BY <1>1, <1>5, <1>8, <1>13 DEF DeviceOrdered, LocalSafe
<1>19. DeviceOrdered(d)'
  BY <1>14, <1>15, <1>16, <1>17, <1>18 DEF DeviceOrdered
<1> QED
  BY <1>10, <1>11, <1>12, <1>19 DEF Ordered

LEMMA StepOrdered ==
    TypesInv /\ TypesInv' /\ CalmInv /\ OrderedInv /\ [Next]_vars => OrderedInv'
<1> SUFFICES ASSUME TypesInv, TypesInv', CalmInv, OrderedInv, [Next]_vars, Orderly'
             PROVE  Ordered'
  BY DEF OrderedInv
<1>1. Orderly
  BY ScenarioKept DEF Orderly
<1>2. Calm /\ Ordered /\ ~budget.parallel
  BY <1>1 DEF CalmInv, OrderedInv, Orderly
<1>3. ~Overlap
  BY <1>2 DEF Overlap, Calm
<1>4. CASE UNCHANGED vars
  <2>1. UNCHANGED <<versions, kept, answered, lineage, edits, file, local, editor, queue,
                    cycle, wire, fetched>>
    BY <1>4 DEF vars, cloudVars, fileVars, appVars, bookVars
  <2>2. ASSUME NEW x \in Device PROVE DeviceOrdered(x)'
    <3>1. OnItsOwn(x) /\ DeviceOrdered(x)
      BY <1>2, <2>1 DEF OnItsOwn, Ordered
    <3>2. Grows
      BY <2>1 DEF Grows, Reached, TypesInv, BookTypes, Edit
    <3> QED
      BY <2>1, <3>1, <3>2, OthersOrdered
  <2> QED
    BY <1>2, <2>1, <2>2 DEF Ordered, LineageOrdered, VersionsMade
<1>5. CASE Next
  <2> PICK d \in Device :
         \/ Edits(d) \/ Tracks(d) \/ StartCycle(d) \/ HoldState(d)
         \/ TrackerDone(d) /\ (Pushes(d) \/ Pulls(d))
         \/ ServerCommit(d) \/ LoseConnection(d) \/ Crash(d)
    BY <1>5 DEF Next
  <2>1. CASE Edits(d)
    BY <1>1, <1>2, <2>1, OpenOrdered, CloseOrdered, SaveOrdered DEF Edits
  <2>2. CASE Tracks(d) \/ HoldState(d)
    BY <1>2, <1>3, <2>2, TrackOrdered DEF Tracks, ReadMapping, ReadState, HoldState
  <2>3. CASE StartCycle(d) \/ LoseConnection(d)
    BY <1>2, <2>3, CycleOrdered
  <2>4. CASE Crash(d)
    BY <1>1, <1>2, <2>4, CrashOrdered
  <2>5. CASE TrackerDone(d) /\ Pushes(d)
    BY <1>2, <2>5, PrepareOrdered, MarkCommitSucceededOrdered, QueueMetadataOrdered,
       QueueLatestOrdered, CycleOrdered DEF Pushes
  <2>6. CASE TrackerDone(d) /\ Pulls(d)
    BY <1>2, <2>6, ApplyIfSafeOrdered, MarkChangesAppliedOrdered, CycleOrdered DEF Pulls
  <2>7. CASE ServerCommit(d)
    BY <1>2, <2>7, ServerCommitOrdered
  <2> QED
    BY <2>1, <2>2, <2>3, <2>4, <2>5, <2>6, <2>7
<1> QED
  BY <1>4, <1>5

LEMMA OrderedInvariant == Spec => []OrderedInv
  BY InitOrdered, StepOrdered, TypesInvariant, CalmInvariant, PTL DEF Spec

\* What becomes of an edit in state.json, step by step.
LEMMA EditsStayQueued ==
    ASSUME TypesInv, Calm, Ordered, Next,
           NEW x \in Device, NEW p \in Page, NEW e \in Queued(x, p)
    PROVE  \/ e \in Reached(p)'
           \/ \E f \in Queued(x, p)' : f = e \/ e \in lineage[f]
<1>1. ~Overlap
  BY DEF Overlap, Calm
<1>2. PICK d \in Device :
         \/ Edits(d) \/ Tracks(d) \/ StartCycle(d) \/ HoldState(d)
         \/ Pushes(d) \/ Pulls(d)
         \/ ServerCommit(d) \/ LoseConnection(d) \/ Crash(d)
  BY DEF Next
<1>3. CASE file'[x] = file[x]
  BY <1>3, QueuedIs, QueuedWillBe
<1>4. CASE x = d /\ Track(d)
  <2> DEFINE q == Head(queue[d]).page
             new == Head(queue[d]).edit
  <2>1. /\ queue[d][1].page = q /\ queue[d][1].edit = new /\ 1 \in DOMAIN queue[d]
        /\ q \in Page /\ file'[d].batch = file[d].batch
        /\ file'[d].pending[q].kind = "content" /\ file'[d].pending[q].edit = new
        /\ \A r \in Page \ {q} : file'[d].pending[r] = file[d].pending[r]
    BY <1>4, TrackFirst
  <2> HIDE DEF q, new
  <2>2. CASE file[d].batch.ops[p].kind = "content" /\ e = file[d].batch.ops[p].edit
    BY <1>4, <2>1, <2>2, QueuedWillBe
  <2>3. CASE file[d].pending[p].kind = "content" /\ e = file[d].pending[p].edit
    <3>1. CASE p = q
      <4>1. 1 \in Waiting(d, q) /\ EditsInOrder(d)
        BY <2>1 DEF Waiting, Ordered, DeviceOrdered
      <4>2. Follows(e, new)
        BY <2>1, <2>3, <3>1, <4>1 DEF EditsInOrder
      <4>3. new \in Queued(d, p)'
        BY <2>1, <3>1, QueuedWillBe
      <4> QED
        BY <1>4, <4>2, <4>3 DEF Follows
    <3>2. CASE p # q
      <4>1. file'[d].pending[p] = file[d].pending[p]
        BY <2>1, <3>2
      <4> QED
        BY <1>4, <2>3, <4>1, QueuedWillBe
    <3> QED
      BY <3>1, <3>2
  <2> QED
    BY <1>4, <2>2, <2>3, QueuedIs
<1>5. CASE x = d /\ Prepare(d)
  <2>1. \/ file'[d] = file[d]
        \/ file[d].batch = NoBatch /\ file'[d].batch.ops = file[d].pending
    BY <1>5, PrepareFile
  <2>2. NoBatch.ops[p].kind = "none"
    BY DEF NoBatch, NoOps, NoOp
  <2>3. CASE file[d].batch = NoBatch /\ file'[d].batch.ops = file[d].pending
    BY <1>5, <2>2, <2>3, QueuedIs, QueuedWillBe
  <2> QED
    BY <1>3, <1>5, <2>1, <2>3
<1>6. CASE x = d /\ MarkCommitSucceeded(d)
  <2>1. /\ file'[d].pending[p].kind = file[d].pending[p].kind
        /\ file'[d].pending[p].edit = file[d].pending[p].edit
        /\ \/ file'[d].batch = file[d].batch
           \/ file[d].batch.key = fetched[d].response.key
    BY <1>6, MarkCommitSucceededFile
  <2>2. AnsweredReached(d) /\ Stage(d) = "mapped" /\ Reached(p)' = Reached(p)
    BY <1>6 DEF Ordered, DeviceOrdered, MarkCommitSucceeded, cloudVars, Reached
  <2>3. CASE file'[d].batch = file[d].batch
    BY <1>6, <2>1, <2>3, QueuedIs, QueuedWillBe
  <2>4. CASE file[d].batch.key = fetched[d].response.key
    <3>1. CASE file[d].pending[p].kind = "content" /\ e = file[d].pending[p].edit
      BY <1>6, <2>1, <3>1, QueuedWillBe
    <3>2. CASE file[d].batch.ops[p].kind = "content" /\ e = file[d].batch.ops[p].edit
      BY <2>2, <2>4, <3>2 DEF AnsweredReached
    <3> QED
      BY <1>6, <3>1, <3>2, QueuedIs
  <2> QED
    BY <2>1, <2>3, <2>4
<1>7. CASE x = d /\ QueueMetadata(d)
  <2>1. /\ file'[d].batch = file[d].batch
        /\ \/ file'[d].pending[p] = file[d].pending[p]
           \/ file[d].pending[p].kind = "none"
    BY <1>7, QueueMetadataFile
  <2>2. CASE file[d].pending[p].kind = "content" /\ e = file[d].pending[p].edit
    BY <1>7, <2>1, <2>2, QueuedWillBe
  <2>3. CASE file[d].batch.ops[p].kind = "content" /\ e = file[d].batch.ops[p].edit
    BY <1>7, <2>1, <2>3, QueuedWillBe
  <2> QED
    BY <1>7, <2>2, <2>3, QueuedIs
<1>8. CASE x = d /\ MarkChangesApplied(d)
  <2>1. file'[d].batch = file[d].batch /\ file'[d].pending = file[d].pending
    BY <1>8, MarkChangesAppliedFile
  <2> QED
    BY <1>8, <2>1, QueuedIs, QueuedWillBe
<1>9. \/ file'[x] = file[x]
      \/ /\ x = d
         /\ \/ Track(d) \/ Prepare(d) \/ MarkCommitSucceeded(d) \/ QueueMetadata(d)
            \/ MarkChangesApplied(d)
  <2>1. CASE Edits(d) \/ StartCycle(d) \/ ServerCommit(d) \/ LoseConnection(d) \/ Crash(d)
    BY <2>1 DEF Edits, Open, Close, Save, AddPage, StartCycle, ServerCommit,
                LoseConnection, Crash, fileVars
  <2>2. CASE Tracks(d) \/ HoldState(d)
    <3>1. CASE Track(d)
      BY <3>1, TrackFirst
    <3>2. CASE ReadMapping(d) \/ ReadState(d) \/ HoldState(d)
      BY <3>2 DEF ReadMapping, ReadState, HoldState, fileVars
    <3> QED
      BY <2>2, <3>1, <3>2 DEF Tracks
  <2>3. CASE Pushes(d)
    <3>1. CASE \/ UpdateRemote(d) \/ UploadPages(d) \/ ReplaceMappings(d)
               \/ QueueLatestCreatedContent(d) \/ PushAgain(d)
      BY <3>1 DEF UpdateRemote, UploadPages, ReplaceMappings, QueueLatestCreatedContent,
                  PushAgain, fileVars
    <3>2. CASE Prepare(d) \/ MarkCommitSucceeded(d) \/ QueueMetadata(d)
      BY <3>2, PrepareFile, MarkCommitSucceededFile, QueueMetadataFile
    <3> QED
      BY <2>3, <3>1, <3>2 DEF Pushes
  <2>4. CASE Pulls(d)
    <3>1. CASE ListChanges(d) \/ Bootstrap(d) \/ ApplyIfSafe(d) \/ RebuildMappings(d)
      BY <3>1 DEF ListChanges, Bootstrap, ApplyIfSafe, RebuildMappings, fileVars
    <3>2. CASE MarkChangesApplied(d)
      BY <3>2, MarkChangesAppliedFile
    <3> QED
      BY <2>4, <3>1, <3>2 DEF Pulls
  <2> QED
    BY <1>2, <2>1, <2>2, <2>3, <2>4
<1> QED
  BY <1>3, <1>4, <1>5, <1>6, <1>7, <1>8, <1>9

\* In an orderly scenario an edit that is in state.json stays there, or a later
\* edit built upon it does, until the server has it, whatever is lost, repeated
\* or crashes: a batch is only cleared when the response to it is in, the same
\* key never carries another batch, and what replaces a pending operation was
\* saved after it.
THEOREM QueuedEditsAreSent == Spec => QueuedUntilSent
<1>1. TypesInv /\ CalmInv /\ OrderedInv /\ [Next]_vars =>
         [Orderly => \A d \in Device, p \in Page : \A e \in Queued(d, p) :
             \/ e \in Reached(p)'
             \/ \E f \in Queued(d, p)' : f = e \/ e \in lineage[f]]_vars
  BY EditsStayQueued DEF CalmInv, OrderedInv, Orderly
<1> QED
  BY <1>1, TypesInvariant, CalmInvariant, OrderedInvariant, PTL DEF Spec, QueuedUntilSent

\* The local content of a page is replaced by a save, which is built upon it, or
\* by a pull, which finds nothing waiting for the tracker.
LEMMA ContentLivesOn ==
    ASSUME TypesInv, Orderly, Ordered, Next, NEW x \in Device, NEW p \in Page,
           local'[x][p] # local[x][p]
    PROVE  local[x][p] \in UNION {Reached(p), Queued(x, p), lineage'[local'[x][p]]}
<1>1. PICK d \in Device : Save(d) \/ ApplyIfSafe(d)
  <2> PICK d \in Device :
         \/ Edits(d) \/ Tracks(d) \/ StartCycle(d) \/ HoldState(d)
         \/ Pushes(d) \/ Pulls(d)
         \/ ServerCommit(d) \/ LoseConnection(d) \/ Crash(d)
    BY DEF Next
  <2>1. CASE \/ Edits(d) \/ Tracks(d) \/ StartCycle(d) \/ HoldState(d)
             \/ ServerCommit(d) \/ LoseConnection(d) \/ Crash(d)
    BY <2>1 DEF Edits, Open, Close, AddPage, Tracks, ReadMapping, ReadState, Track,
                StartCycle, HoldState, ServerCommit, LoseConnection, Crash, fileVars
  <2>2. CASE Pushes(d)
    BY <2>2 DEF Pushes, Prepare, UpdateRemote, MarkCommitSucceeded, QueueMetadata,
                UploadPages, ReplaceMappings, QueueLatestCreatedContent, PushAgain,
                fileVars
  <2>3. CASE Pulls(d)
    BY <2>3 DEF Pulls, ListChanges, Bootstrap, RebuildMappings, MarkChangesApplied,
                fileVars
  <2> QED
    BY <2>1, <2>2, <2>3
<1>2. CASE Save(d)
  <2> DEFINE q == editor[d].page
             e == edits + 1
  <2>1. /\ \A y \in Device \ {d} : local'[y] = local[y]
        /\ \A r \in Page \ {q} : local'[d][r] = local[d][r]
        /\ local'[d][q] = e /\ lineage'[e] = lineage[local[d][q]] \union {local[d][q]}
    BY <1>2, Saved
  <2> HIDE DEF q, e
  <2>2. x = d /\ p = q
    BY <2>1
  <2>3. local[x][p] \in lineage'[local'[x][p]]
    BY <2>1, <2>2
  <2> QED
    BY <2>3
<1>3. CASE ApplyIfSafe(d)
  <2>1. x = d
    BY <1>3 DEF ApplyIfSafe, TypesInv, FileTypes
  <2>2. DeviceOrdered(d) /\ Stage(d) = "apply"
    BY <1>3 DEF Ordered, ApplyIfSafe
  <2>3. Waiting(d, p) = {}
    BY <2>2 DEF DeviceOrdered, PullsUndisturbed, Waiting
  <2>4. local[d][p] \in Reached(p) \union Queued(d, p)
    BY <2>2, <2>3 DEF DeviceOrdered, LocalSafe
  <2> QED
    BY <2>1, <2>4
<1> QED
  BY <1>1, <1>2, <1>3

\* In an orderly scenario saved content that a device gives up is in the cloud, as
\* a version or as a conflict, or lives on in the save that replaces it: a pull
\* replaces the content of a page only when the tracker has handled every save and
\* nothing is left to be sent.
THEOREM NoEditIsLost == Spec => NoEditLost
<1>1. TypesInv /\ OrderedInv /\ [Next]_vars =>
         [Orderly => \A d \in Device, p \in Page : local'[d][p] # local[d][p] =>
             local[d][p] \in
                UNION {Reached(p), Queued(d, p), lineage'[local'[d][p]]}]_vars
  BY ContentLivesOn DEF OrderedInv
<1> QED
  BY <1>1, TypesInvariant, OrderedInvariant, PTL DEF Spec, NoEditLost

-----------------------------------------------------------------------------
(* What a device sends is not behind its own versions.                     *)

\* The response to the frozen batch is stored, whether it arrived or not.
HasAnswer(d) == \E x \in answered[d] : x.key = file[d].batch.key

\* Revision n of a page exists, and none that the device made is newer.
Current(d, p, n) == own[d][p] <= n /\ n <= Len(versions[p])

\* What the device holds of a page tells revisions that exist, ...
RevisionsExist(d, p) ==
    /\ own[d][p] <= Len(versions[p])
    /\ mapping[d][p] <= Len(versions[p])
    /\ file[d].pending[p].base <= Len(versions[p])
    /\ file[d].batch.ops[p].base <= Len(versions[p])
    /\ \A x \in answered[d] : x.results[p].revision <= Len(versions[p])
    /\ Stage(d) \in {"apply", "applied"} => Current(d, p, fetched[d].snapshot[p])

\* ... and none of what it works with is behind a version of its own ...
Unanswered(d, p) ==
    /\ own[d][p] <= mapping[d][p]
    /\ file[d].pending[p] # NoOp => own[d][p] <= file[d].pending[p].base
    /\ file[d].batch.ops[p] # NoOp => own[d][p] <= file[d].batch.ops[p].base

\* ... except what the stored answer to its batch is still to correct: the
\* mapping, and the operations that wait for the page.
AnsweredOp(d, p, x) ==
    IF file[d].batch.ops[p] = NoOp
    THEN x.results[p].outcome = "none" /\ Unanswered(d, p)
    ELSE /\ x.results[p].outcome # "none"
         /\ own[d][p] <= x.results[p].revision
         /\ x.results[p].outcome # "applied" => own[d][p] <= mapping[d][p]

PageCurrent(d, p) ==
    /\ RevisionsExist(d, p)
    /\ file[d].batch = NoBatch \/ ~HasAnswer(d) => Unanswered(d, p)
    /\ file[d].batch # NoBatch => \A x \in answered[d] :
          x.key = file[d].batch.key => AnsweredOp(d, p, x)
    /\ Stage(d) = "mapped" => own[d][p] <= mapping[d][p]
    /\ Stage(d) = "follow" /\ Results(d)[p].outcome = "conflict" =>
          Current(d, p, Results(d)[p].revision)

\* One batch is on its way at most, the frozen one, and what the cycle records
\* is its answer.
OneBatch(d) ==
    /\ \A x, y \in answered[d] : x.key = y.key => x = y
    /\ wire[d] # NoBatch => wire[d] = file[d].batch
    /\ Stage(d) \in {"answered", "mapped"} =>
          /\ wire[d] = NoBatch /\ file[d].batch # NoBatch
          /\ fetched[d].response \in answered[d]
          /\ fetched[d].response.key = file[d].batch.key
    /\ Stage(d) = "follow" => file[d].batch = NoBatch

DeviceCurrent(d) == OneBatch(d) /\ \A p \in Page : PageCurrent(d, p)

CurrentInv == ~budget.parallel => \A d \in Device : DeviceCurrent(d)

LEMMA InitCurrent == Init => CurrentInv
<1> SUFFICES ASSUME Init, NEW d \in Device PROVE DeviceCurrent(d)
  BY DEF CurrentInv
<1>1. OneBatch(d)
  BY DEF Init, OneBatch, Stage, Idle
<1>2. ASSUME NEW p \in Page PROVE PageCurrent(d, p)
  <2>1. /\ own[d][p] = 0 /\ mapping[d][p] = 1 /\ Len(versions[p]) = 1
        /\ file[d].pending[p] = NoOp /\ file[d].batch = NoBatch
        /\ NoBatch.ops[p] = NoOp /\ NoOp.base = 0
        /\ answered[d] = {} /\ Stage(d) = "idle"
    BY <1>2 DEF Init, NoOps, NoBatch, NoOp, Stage, Idle
  <2> QED
    BY <2>1 DEF PageCurrent, RevisionsExist, Unanswered
<1> QED
  BY <1>1, <1>2 DEF DeviceCurrent

\* The revisions that are compared are numbers.
LEMMA RevisionsTyped ==
    ASSUME TypesInv, NEW d \in Device, NEW p \in Page
    PROVE  /\ own[d][p] \in Nat /\ mapping[d][p] \in Nat /\ Len(versions[p]) \in Nat
           /\ file[d].pending[p] \in Op /\ file[d].pending[p].base \in Nat
           /\ file[d].batch.ops[p] \in Op /\ file[d].batch.ops[p].base \in Nat
           /\ \A x \in answered[d] : x.results[p].revision \in Nat
           /\ fetched[d].snapshot[p] \in Nat
           /\ Results(d)[p].revision \in Nat
<1>1. versions[p] \in Seq(Edit) /\ own[d][p] \in Nat /\ mapping[d][p] \in Nat
  BY DEF TypesInv, CloudTypes, FileTypes
<1>2. file[d] \in File
  BY DEF TypesInv, FileTypes
<1>3. file[d].pending[p] \in Op /\ file[d].batch.ops[p] \in Op
  BY <1>2 DEF File, Batch, Ops
<1>4. \A x \in answered[d] : x.results[p].revision \in Nat
  BY DEF TypesInv, CloudTypes, Response, Result
<1>5. fetched[d].snapshot[p] \in Nat
  BY DEF TypesInv, CycleTypes
<1> QED
  BY <1>1, <1>3, <1>4, <1>5, ResultTypes DEF Op

\* Versions are added and none is taken away.
VersionsGrow == \A p \in Page : /\ Len(versions[p]) \in Nat /\ Len(versions'[p]) \in Nat
                                /\ Len(versions'[p]) >= Len(versions[p])

\* The stages in which the cycle is about to record what it has got.
Recording == {"answered", "mapped", "follow", "apply", "applied"}

\* A step that leaves what a device has of its own alone, whatever the others do.
LEMMA OthersCurrent ==
    ASSUME TypesInv, VersionsGrow, NEW x \in Device, DeviceCurrent(x),
           own'[x] = own[x], mapping'[x] = mapping[x],
           file'[x].pending = file[x].pending, file'[x].batch = file[x].batch,
           answered'[x] = answered[x], wire'[x] = wire[x],
           \/ cycle'[x].stage = cycle[x].stage /\ fetched'[x] = fetched[x]
           \/ cycle'[x].stage \notin Recording
    PROVE  DeviceCurrent(x)'
<1>1. OneBatch(x)'
  BY DEF DeviceCurrent, OneBatch, Stage, Recording
<1>2. ASSUME NEW p \in Page PROVE PageCurrent(x, p)'
  <2>1. PageCurrent(x, p)
    BY DEF DeviceCurrent
  <2>2. \A n \in Nat : n <= Len(versions[p]) => n <= Len(versions'[p])
    BY DEF VersionsGrow
  <2>3. \A n \in Nat : Current(x, p, n) => Current(x, p, n)'
    BY <2>2 DEF Current
  <2>4. (HasAnswer(x) <=> HasAnswer(x)') /\ (Unanswered(x, p) <=> Unanswered(x, p)')
    BY DEF HasAnswer, Unanswered
  <2>5. \A r : AnsweredOp(x, p, r) <=> AnsweredOp(x, p, r)'
    BY <2>4 DEF AnsweredOp
  <2>6. RevisionsExist(x, p)'
    <3>1. RevisionsExist(x, p)
      BY <2>1 DEF PageCurrent
    <3> QED
      BY <2>2, <2>3, <3>1, RevisionsTyped DEF RevisionsExist, Stage, Recording
  <2> QED
    BY <2>1, <2>3, <2>4, <2>5, <2>6, RevisionsTyped
       DEF PageCurrent, Stage, Recording, Results
<1> QED
  BY <1>1, <1>2 DEF DeviceCurrent

\* A step of one device alone: it is enough to look at that device.
LEMMA AloneCurrent ==
    ASSUME TypesInv, \A x \in Device : DeviceCurrent(x), NEW d \in Device, Alone(d),
           own' = own, DeviceCurrent(d)'
    PROVE  \A x \in Device : DeviceCurrent(x)'
<1>1. VersionsGrow
  BY DEF Alone, VersionsGrow, TypesInv, CloudTypes
<1> QED
  BY <1>1, OthersCurrent DEF Alone

\* A step that is of no consequence for what the device sends.
LEMMA QuietCurrent ==
    ASSUME TypesInv, \A x \in Device : DeviceCurrent(x), NEW d \in Device, Alone(d),
           own' = own, mapping'[d] = mapping[d], wire'[d] = wire[d],
           file'[d].pending = file[d].pending, file'[d].batch = file[d].batch,
           \/ cycle'[d].stage = cycle[d].stage /\ fetched'[d] = fetched[d]
           \/ cycle'[d].stage \notin Recording
    PROVE  \A x \in Device : DeviceCurrent(x)'
<1>1. VersionsGrow
  BY DEF Alone, VersionsGrow, TypesInv, CloudTypes
<1> QED
  BY <1>1, OthersCurrent DEF Alone

LEMMA EditsCurrent ==
    ASSUME TypesInv, \A x \in Device : DeviceCurrent(x), NEW d \in Device, Edits(d)
    PROVE  \A x \in Device : DeviceCurrent(x)'
<1>1. UNCHANGED <<versions, own, feed, answered, file, mapping, fetched, cycle, wire>>
  BY DEF Edits, Open, Close, Save, AddPage, cloudVars, fileVars
<1>2. Alone(d)
  BY <1>1 DEF Alone
<1> QED
  BY <1>1, <1>2, QuietCurrent

\* Steps of the cycle that neither record an answer nor take over a bootstrap.
LEMMA CycleCurrent ==
    ASSUME TypesInv, \A x \in Device : DeviceCurrent(x), NEW d \in Device,
           \/ StartCycle(d) \/ UploadPages(d) \/ QueueLatestCreatedContent(d)
           \/ PushAgain(d) \/ LoseConnection(d) \/ Crash(d)
    PROVE  \A x \in Device : DeviceCurrent(x)'
<1>1. UNCHANGED <<versions, own, feed, answered, file, mapping, wire>>
  BY DEF StartCycle, UploadPages, QueueLatestCreatedContent, PushAgain, LoseConnection,
         Crash, cloudVars, fileVars
<1>2. fetched' = fetched \/ fetched' = [fetched EXCEPT ![d] = NothingFetched]
  BY DEF StartCycle, UploadPages, QueueLatestCreatedContent, PushAgain, LoseConnection,
         Crash
<1>3. cycle \in [Device -> [stage: Stages, pull: BOOLEAN, again: BOOLEAN]]
  BY DEF TypesInv, CycleTypes
<1>4. /\ \A x \in Device \ {d} : cycle'[x] = cycle[x]
      /\ cycle'[d].stage \in {"push", "remap", "pull", "drain", "idle"}
  <2>1. CASE StartCycle(d)
    BY <1>3, <2>1 DEF StartCycle
  <2>2. CASE UploadPages(d)
    BY <1>3, <2>2, GoingTo, Stopping DEF UploadPages, Stages
  <2>3. CASE QueueLatestCreatedContent(d)
    BY <1>3, <2>3, GoingTo DEF QueueLatestCreatedContent, Stages
  <2>4. CASE PushAgain(d)
    BY <1>3, <2>4 DEF PushAgain
  <2>5. CASE LoseConnection(d) \/ Crash(d)
    BY <1>3, <2>5, Stopping DEF LoseConnection, Crash
  <2> QED
    BY <2>1, <2>2, <2>3, <2>4, <2>5
<1>5. \A x \in Device \ {d} : fetched'[x] = fetched[x]
  BY <1>2 DEF TypesInv, CycleTypes
<1>6. Alone(d)
  BY <1>1, <1>4, <1>5 DEF Alone
<1> QED
  BY <1>1, <1>4, <1>6, QuietCurrent DEF Recording

LEMMA ListChangesCurrent ==
    ASSUME TypesInv, \A x \in Device : DeviceCurrent(x), NEW d \in Device, ListChanges(d)
    PROVE  \A x \in Device : DeviceCurrent(x)'
<1>1. UNCHANGED <<versions, own, feed, answered, file, mapping, wire>>
  BY DEF ListChanges, cloudVars, fileVars
<1>2. /\ cycle'[d].stage \in {"idle", "listed"}
      /\ \A x \in Device \ {d} : cycle'[x] = cycle[x]
  BY GoingTo, Stopping DEF ListChanges, TypesInv, CycleTypes, Stages
<1>3. \A x \in Device \ {d} : fetched'[x] = fetched[x]
  BY DEF ListChanges, TypesInv, CycleTypes
<1>4. Alone(d)
  BY <1>1, <1>2, <1>3 DEF Alone
<1> QED
  BY <1>1, <1>2, <1>4, QuietCurrent DEF Recording

\* The content of a bootstrap is applied; the cursor moves on.
LEMMA AppliedCurrent ==
    ASSUME TypesInv, Calm, \A x \in Device : DeviceCurrent(x), NEW d \in Device,
           MarkChangesApplied(d)
    PROVE  \A x \in Device : DeviceCurrent(x)'
<1>1. UNCHANGED <<versions, own, feed, answered, mapping, wire>>
  BY DEF MarkChangesApplied, cloudVars
<1>2. /\ cycle'[d].stage = "idle" /\ \A x \in Device \ {d} : cycle'[x] = cycle[x]
  BY Stopping DEF MarkChangesApplied, TypesInv, CycleTypes
<1>3. \A x \in Device \ {d} : fetched'[x] = fetched[x]
  BY NothingLeft DEF MarkChangesApplied
<1>4. /\ file'[d].batch = file[d].batch /\ file'[d].pending = file[d].pending
      /\ \A x \in Device \ {d} : file'[x] = file[x]
  BY MarkChangesAppliedFile
<1>5. Alone(d)
  BY <1>1, <1>2, <1>3, <1>4 DEF Alone
<1> QED
  BY <1>1, <1>2, <1>4, <1>5, QuietCurrent DEF Recording

LEMMA ApplyIfSafeCurrent ==
    ASSUME TypesInv, \A x \in Device : DeviceCurrent(x), NEW d \in Device, ApplyIfSafe(d)
    PROVE  \A x \in Device : DeviceCurrent(x)'
<1>1. UNCHANGED <<versions, own, feed, answered, file, mapping, fetched, wire>>
  BY DEF ApplyIfSafe, cloudVars
<1>2. /\ cycle'[d].stage \in {"applied", "idle"} /\ Stage(d) = "apply"
      /\ \A x \in Device \ {d} : cycle'[x] = cycle[x]
  BY GoingTo, Stopping DEF ApplyIfSafe, TypesInv, CycleTypes, Stages
<1>3. Alone(d)
  BY <1>1, <1>2 DEF Alone
<1>4. CASE cycle'[d].stage = "idle"
  BY <1>1, <1>3, <1>4, QuietCurrent DEF Recording
<1>5. CASE cycle'[d].stage = "applied"
  <2>1. OneBatch(d)'
    BY <1>1, <1>5 DEF DeviceCurrent, OneBatch, Stage
  <2>2. ASSUME NEW p \in Page PROVE PageCurrent(d, p)'
    <3>1. PageCurrent(d, p)
      BY DEF DeviceCurrent
    <3>2. RevisionsExist(d, p)'
      BY <1>1, <1>2, <3>1 DEF PageCurrent, RevisionsExist, Current, Stage
    <3> QED
      BY <1>1, <1>5, <3>1, <3>2
         DEF PageCurrent, HasAnswer, Unanswered, AnsweredOp, Stage
  <2> QED
    BY <1>1, <1>3, <2>1, <2>2, AloneCurrent DEF DeviceCurrent
<1> QED
  BY <1>2, <1>4, <1>5

\* A bootstrap tells the last revision of every page, which no revision of the
\* device's own is ahead of.
LEMMA SnapshotCurrent ==
    ASSUME TypesInv, NEW d \in Device, DeviceCurrent(d), NEW p \in Page
    PROVE  Current(d, p, Snapshot[p])
<1>1. PageCurrent(d, p)
  BY DEF DeviceCurrent
<1>2. Snapshot[p] = Len(versions[p])
  BY SnapshotTypes DEF TypesInv
<1> QED
  BY <1>1, <1>2, RevisionsTyped DEF PageCurrent, RevisionsExist, Current

LEMMA BootstrapCurrent ==
    ASSUME TypesInv, \A x \in Device : DeviceCurrent(x), NEW d \in Device, Bootstrap(d)
    PROVE  \A x \in Device : DeviceCurrent(x)'
<1>1. UNCHANGED <<versions, own, feed, answered, file, mapping, wire>>
  BY DEF Bootstrap, cloudVars, fileVars
<1>2. /\ cycle'[d].stage = "apply" /\ \A x \in Device \ {d} : cycle'[x] = cycle[x]
  BY GoingTo DEF Bootstrap, TypesInv, CycleTypes, Stages
<1>3. /\ fetched'[d].snapshot = Snapshot
      /\ \A x \in Device \ {d} : fetched'[x] = fetched[x]
  BY DEF Bootstrap, TypesInv, CycleTypes
<1>4. Alone(d)
  BY <1>1, <1>2, <1>3 DEF Alone
<1>5. OneBatch(d)'
  BY <1>1, <1>2 DEF DeviceCurrent, OneBatch, Stage
<1>6. ASSUME NEW p \in Page PROVE PageCurrent(d, p)'
  <2>1. PageCurrent(d, p) /\ Current(d, p, Snapshot[p])
    BY SnapshotCurrent DEF DeviceCurrent
  <2>2. own[d][p] <= fetched'[d].snapshot[p] /\ fetched'[d].snapshot[p] <= Len(versions[p])
    BY <1>3, <2>1 DEF Current
  <2>3. RevisionsExist(d, p)'
    BY <1>1, <2>1, <2>2 DEF PageCurrent, RevisionsExist, Current
  <2> QED
    BY <1>1, <1>2, <2>1, <2>3
       DEF PageCurrent, HasAnswer, Unanswered, AnsweredOp, Stage
<1> QED
  BY <1>1, <1>4, <1>5, <1>6, AloneCurrent DEF DeviceCurrent

\* A mapping that is no older than the device's own versions takes over.
LEMMA MappedCurrent ==
    ASSUME TypesInv, \A x \in Device : DeviceCurrent(x), NEW d \in Device, Alone(d),
           own' = own, wire'[d] = wire[d], file'[d] = file[d],
           cycle'[d].stage \notin Recording,
           \A p \in Page : Current(d, p, mapping'[d][p])
    PROVE  \A x \in Device : DeviceCurrent(x)'
<1>1. versions' = versions /\ answered' = answered
  BY DEF Alone
<1>2. OneBatch(d)'
  BY <1>1 DEF DeviceCurrent, OneBatch, Stage, Recording
<1>3. ASSUME NEW p \in Page PROVE PageCurrent(d, p)'
  <2>1. PageCurrent(d, p)
    BY DEF DeviceCurrent
  <2>2. own[d][p] <= mapping'[d][p] /\ mapping'[d][p] <= Len(versions[p])
    BY DEF Current
  <2>3. RevisionsExist(d, p)'
    BY <1>1, <2>1, <2>2 DEF PageCurrent, RevisionsExist, Stage, Recording
  <2>4. Unanswered(d, p) => Unanswered(d, p)'
    BY <2>2 DEF Unanswered
  <2>5. \A r : AnsweredOp(d, p, r) => AnsweredOp(d, p, r)'
    BY <2>2, <2>4 DEF AnsweredOp
  <2> QED
    BY <1>1, <2>1, <2>3, <2>4, <2>5 DEF PageCurrent, HasAnswer, Stage, Recording
<1> QED
  BY <1>2, <1>3, AloneCurrent DEF DeviceCurrent

LEMMA ReplaceMappingsCurrent ==
    ASSUME TypesInv, \A x \in Device : DeviceCurrent(x), NEW d \in Device,
           ReplaceMappings(d)
    PROVE  \A x \in Device : DeviceCurrent(x)'
<1>1. /\ UNCHANGED <<versions, own, feed, answered, file, fetched, wire>>
      /\ mapping' = [mapping EXCEPT ![d] = Snapshot]
  BY DEF ReplaceMappings, cloudVars
<1>2. /\ cycle'[d].stage = "requeue" /\ \A x \in Device \ {d} : cycle'[x] = cycle[x]
  BY GoingTo DEF ReplaceMappings, TypesInv, CycleTypes, Stages
<1>3. mapping'[d] = Snapshot /\ \A x \in Device \ {d} : mapping'[x] = mapping[x]
  BY <1>1 DEF TypesInv, FileTypes
<1>4. Alone(d)
  BY <1>1, <1>2, <1>3 DEF Alone
<1>5. \A p \in Page : Current(d, p, mapping'[d][p])
  BY <1>3, SnapshotCurrent
<1> QED
  BY <1>1, <1>2, <1>4, <1>5, MappedCurrent DEF Recording

LEMMA RebuildMappingsCurrent ==
    ASSUME TypesInv, \A x \in Device : DeviceCurrent(x), NEW d \in Device,
           RebuildMappings(d)
    PROVE  \A x \in Device : DeviceCurrent(x)'
<1>1. /\ UNCHANGED <<versions, own, feed, answered, file, fetched, wire>>
      /\ mapping' = [mapping EXCEPT ![d] = fetched[d].snapshot]
  BY DEF RebuildMappings, cloudVars
<1>2. /\ cycle'[d].stage = "advance" /\ \A x \in Device \ {d} : cycle'[x] = cycle[x]
      /\ Stage(d) = "applied"
  BY GoingTo DEF RebuildMappings, TypesInv, CycleTypes, Stages
<1>3. /\ mapping'[d] = fetched[d].snapshot
      /\ \A x \in Device \ {d} : mapping'[x] = mapping[x]
  BY <1>1 DEF TypesInv, FileTypes
<1>4. Alone(d)
  BY <1>1, <1>2, <1>3 DEF Alone
<1>5. \A p \in Page : Current(d, p, mapping'[d][p])
  BY <1>2, <1>3 DEF DeviceCurrent, PageCurrent, RevisionsExist
<1> QED
  BY <1>1, <1>2, <1>4, <1>5, MappedCurrent DEF Recording

\* The revisions of an answer take over where the server applied what was sent.
LEMMA UpdateRemoteCurrent ==
    ASSUME TypesInv, \A x \in Device : DeviceCurrent(x), NEW d \in Device,
           UpdateRemote(d)
    PROVE  \A x \in Device : DeviceCurrent(x)'
<1> DEFINE r == fetched[d].response
           m == [p \in Page |-> IF Results(d)[p].outcome = "applied"
                                THEN Results(d)[p].revision ELSE mapping[d][p]]
<1>1. /\ UNCHANGED <<versions, own, feed, answered, file, fetched, wire>>
      /\ mapping' = [mapping EXCEPT ![d] = m]
  BY DEF UpdateRemote, cloudVars
<1>2. /\ cycle'[d].stage = "mapped" /\ Stage(d) = "answered"
      /\ \A x \in Device \ {d} : cycle'[x] = cycle[x]
  BY GoingTo DEF UpdateRemote, TypesInv, CycleTypes, Stages
<1>3. mapping'[d] = m /\ \A x \in Device \ {d} : mapping'[x] = mapping[x]
  BY <1>1 DEF TypesInv, FileTypes
<1>4. Alone(d)
  BY <1>1, <1>2, <1>3 DEF Alone
<1>5. /\ OneBatch(d) /\ file[d].batch # NoBatch /\ r \in answered[d]
      /\ r.key = file[d].batch.key
  BY <1>2 DEF DeviceCurrent, OneBatch
<1>6. OneBatch(d)'
  BY <1>1, <1>2, <1>5 DEF OneBatch, Stage
<1>7. ASSUME NEW p \in Page PROVE PageCurrent(d, p)'
  <2>1. PageCurrent(d, p) /\ AnsweredOp(d, p, r)
    BY <1>5 DEF DeviceCurrent, PageCurrent
  <2>2. r.results[p].revision <= Len(versions[p]) /\ mapping[d][p] <= Len(versions[p])
    BY <1>5, <2>1 DEF PageCurrent, RevisionsExist
  <2>3. mapping'[d][p] = IF r.results[p].outcome = "applied" THEN r.results[p].revision
                         ELSE mapping[d][p]
    BY <1>3 DEF Results
  <2>4. own[d][p] <= mapping'[d][p] /\ mapping'[d][p] <= Len(versions[p])
    BY <2>1, <2>2, <2>3 DEF AnsweredOp, Unanswered
  <2>5. RevisionsExist(d, p)'
    BY <1>1, <1>2, <2>1, <2>4 DEF PageCurrent, RevisionsExist, Stage
  <2>6. Unanswered(d, p) => Unanswered(d, p)'
    BY <1>1, <2>4 DEF Unanswered
  <2>7. \A x : AnsweredOp(d, p, x) => AnsweredOp(d, p, x)'
    BY <1>1, <2>4, <2>6 DEF AnsweredOp
  <2> QED
    BY <1>1, <1>2, <2>1, <2>4, <2>5, <2>6, <2>7 DEF PageCurrent, HasAnswer, Stage
<1> QED
  BY <1>1, <1>4, <1>6, <1>7, AloneCurrent DEF DeviceCurrent

\* A step that writes state.json alone, and leaves the batch in it.
LEMMA PendingCurrent ==
    ASSUME TypesInv, \A x \in Device : DeviceCurrent(x), NEW d \in Device, Alone(d),
           own' = own, wire'[d] = wire[d], mapping'[d] = mapping[d],
           file'[d].batch = file[d].batch,
           \/ cycle'[d].stage = cycle[d].stage /\ fetched'[d] = fetched[d]
           \/ cycle'[d].stage \notin Recording,
           \A p \in Page :
              \/ file'[d].pending[p] = file[d].pending[p]
              \/ /\ file[d].pending[p] # NoOp
                 /\ file'[d].pending[p].base = file[d].pending[p].base
              \/ file'[d].pending[p].base = mapping[d][p]
              \/ /\ file[d].batch = NoBatch
                 /\ Current(d, p, file'[d].pending[p].base)
    PROVE  \A x \in Device : DeviceCurrent(x)'
<1>1. versions' = versions /\ answered' = answered
  BY DEF Alone
<1>2. OneBatch(d)'
  BY <1>1 DEF DeviceCurrent, OneBatch, Stage, Recording
<1>3. ASSUME NEW p \in Page PROVE PageCurrent(d, p)'
  <2> DEFINE op == file[d].pending[p]
             new == file'[d].pending[p]
  <2>1. PageCurrent(d, p)
    BY DEF DeviceCurrent
  <2>2. RevisionsExist(d, p)'
    <3>1. new.base <= Len(versions[p])
      BY <2>1 DEF PageCurrent, RevisionsExist, Current
    <3> QED
      BY <1>1, <2>1, <3>1 DEF PageCurrent, RevisionsExist, Current, Stage, Recording
  <2>3. Unanswered(d, p) => Unanswered(d, p)' \/ /\ file[d].batch = NoBatch
                                                 /\ Current(d, p, new.base)
    BY DEF Unanswered
  <2>4. Unanswered(d, p) /\ Current(d, p, new.base) => Unanswered(d, p)'
    BY DEF Unanswered, Current
  <2>5. Unanswered(d, p) => Unanswered(d, p)'
    BY <2>3, <2>4
  <2>6. \A r : AnsweredOp(d, p, r) => AnsweredOp(d, p, r)'
    BY <2>5 DEF AnsweredOp
  <2> QED
    BY <1>1, <2>1, <2>2, <2>5, <2>6
       DEF PageCurrent, HasAnswer, Current, Stage, Recording, Results
<1> QED
  BY <1>2, <1>3, AloneCurrent DEF DeviceCurrent

\* What is queued anew is based on the mapping.
LEMMA TrackCurrent ==
    ASSUME TypesInv, Calm, \A x \in Device : DeviceCurrent(x), NEW d \in Device, Track(d)
    PROVE  \A x \in Device : DeviceCurrent(x)'
<1> DEFINE item == Head(queue[d])
           op == Coalesced(file[d].pending[item.page], mapping[d][item.page], item.edit)
           f == [file[d] EXCEPT !.pending = [file[d].pending EXCEPT ![item.page] = op]]
<1>1. UNCHANGED <<versions, own, feed, answered, mapping, fetched, cycle, wire>>
  BY DEF Track, cloudVars
<1>2. /\ item.page \in Page /\ op \in Op
      /\ f.batch = file[d].batch
      /\ f.pending = [file[d].pending EXCEPT ![item.page] = op]
      /\ file' = [file EXCEPT ![d] = f]
  <2>1. tracker[d].file = None /\ Base(d) = mapping[d][item.page]
    BY CalmReads
  <2> QED
    BY <2>1, Tracked
<1> HIDE DEF f
<1>3. file'[d] = f /\ \A x \in Device \ {d} : file'[x] = file[x]
  BY <1>2 DEF TypesInv, FileTypes
<1>4. \/ op.base = mapping[d][item.page]
      \/ /\ file[d].pending[item.page] # NoOp
         /\ op.base = file[d].pending[item.page].base
  <2>1. CASE file[d].pending[item.page] = NoOp
    BY <2>1 DEF Coalesced
  <2>2. CASE file[d].pending[item.page] # NoOp
    <3>1. file[d].pending[item.page] \in Op
      BY <1>2, RevisionsTyped
    <3> QED
      BY <2>2, <3>1 DEF Coalesced, Op
  <2> QED
    BY <2>1, <2>2
<1> HIDE DEF op
<1>5. ASSUME NEW p \in Page
      PROVE  \/ file'[d].pending[p] = file[d].pending[p]
             \/ /\ file[d].pending[p] # NoOp
                /\ file'[d].pending[p].base = file[d].pending[p].base
             \/ file'[d].pending[p].base = mapping[d][p]
  <2>1. file[d].pending \in Ops
    BY FileParts DEF TypesInv, FileTypes
  <2>2. CASE p = item.page
    BY <1>2, <1>3, <1>4, <2>1, <2>2 DEF Ops
  <2>3. CASE p # item.page
    BY <1>2, <1>3, <2>1, <2>3 DEF Ops
  <2> QED
    BY <2>2, <2>3
<1>6. Alone(d)
  BY <1>1, <1>3 DEF Alone
<1> QED
  BY <1>1, <1>2, <1>3, <1>5, <1>6, PendingCurrent

\* The metadata that are queued once more are based on the answer.
LEMMA QueueMetadataCurrent ==
    ASSUME TypesInv, Calm, \A x \in Device : DeviceCurrent(x), NEW d \in Device,
           QueueMetadata(d)
    PROVE  \A x \in Device : DeviceCurrent(x)'
<1> DEFINE ops == [p \in Page |->
              IF Results(d)[p].outcome = "conflict" /\ file[d].pending[p] = NoOp
              THEN [kind |-> "metadata", base |-> Results(d)[p].revision, edit |-> 0]
              ELSE file[d].pending[p]]
           f == [file[d] EXCEPT !.pending = ops]
<1>1. UNCHANGED <<versions, own, feed, answered, mapping, fetched, wire>>
  BY DEF QueueMetadata, cloudVars
<1>2. /\ cycle'[d].stage = "push" /\ Stage(d) = "follow"
      /\ \A x \in Device \ {d} : cycle'[x] = cycle[x]
  BY GoingTo DEF QueueMetadata, TypesInv, CycleTypes, Stages
<1>3. file' = [file EXCEPT ![d] = f]
  BY CalmReads DEF QueueMetadata, WriteState
<1>4. ASSUME NEW p \in Page
      PROVE  \/ ops[p] = file[d].pending[p]
             \/ /\ Results(d)[p].outcome = "conflict"
                /\ ops[p].base = Results(d)[p].revision
  OBVIOUS
<1> HIDE DEF ops
<1>5. f.pending = ops /\ f.batch = file[d].batch
  BY DEF TypesInv, FileTypes, File
<1>6. file'[d] = f /\ \A x \in Device \ {d} : file'[x] = file[x]
  BY <1>3 DEF TypesInv, FileTypes
<1> HIDE DEF f
<1>7. file[d].batch = NoBatch
  BY <1>2 DEF DeviceCurrent, OneBatch
<1>8. ASSUME NEW p \in Page
      PROVE  \/ file'[d].pending[p] = file[d].pending[p]
             \/ Current(d, p, file'[d].pending[p].base)
  <2>1. PageCurrent(d, p)
    BY DEF DeviceCurrent
  <2> QED
    BY <1>2, <1>4, <1>5, <1>6, <2>1 DEF PageCurrent
<1>9. Alone(d)
  BY <1>1, <1>2, <1>6 DEF Alone
<1> QED
  BY <1>1, <1>2, <1>5, <1>6, <1>7, <1>8, <1>9, PendingCurrent DEF Recording

\* What is pending becomes the batch as it is.
LEMMA PrepareCurrent ==
    ASSUME TypesInv, Calm, \A x \in Device : DeviceCurrent(x), NEW d \in Device,
           Prepare(d)
    PROVE  \A x \in Device : DeviceCurrent(x)'
<1>1. UNCHANGED <<versions, own, feed, answered, mapping, fetched>>
  BY DEF Prepare, cloudVars
<1>2. /\ \A x \in Device \ {d} : /\ file'[x] = file[x] /\ wire'[x] = wire[x]
                                 /\ cycle'[x] = cycle[x]
      /\ cycle'[d].stage \in {"pages", "sent"}
  BY PrepareFile
<1>3. Alone(d)
  BY <1>1, <1>2 DEF Alone
<1>4. CASE file'[d] = file[d] /\ wire'[d] = wire[d]
  BY <1>1, <1>2, <1>3, <1>4, QuietCurrent DEF Recording
<1>5. CASE file'[d] = file[d] /\ file[d].batch # NoBatch /\ wire'[d] = file[d].batch
  <2>1. OneBatch(d)'
    BY <1>1, <1>2, <1>5 DEF DeviceCurrent, OneBatch, Stage
  <2>2. ASSUME NEW p \in Page PROVE PageCurrent(d, p)'
    <3>1. PageCurrent(d, p)
      BY DEF DeviceCurrent
    <3>2. RevisionsExist(d, p)'
      BY <1>1, <1>2, <1>5, <3>1 DEF PageCurrent, RevisionsExist, Stage
    <3> QED
      BY <1>1, <1>2, <1>5, <3>1, <3>2
         DEF PageCurrent, HasAnswer, Unanswered, AnsweredOp, Stage
  <2> QED
    BY <1>1, <1>3, <2>1, <2>2, AloneCurrent DEF DeviceCurrent
<1>6. CASE /\ file[d].batch = NoBatch /\ file'[d].pending = NoOps
           /\ file'[d].batch.ops = file[d].pending /\ file'[d].batch.key > 0
           /\ \A x \in answered[d] : x.key # file'[d].batch.key
           /\ wire'[d] = file'[d].batch
  <2>1. OneBatch(d)'
    BY <1>1, <1>2, <1>6 DEF DeviceCurrent, OneBatch, Stage
  <2>2. ASSUME NEW p \in Page PROVE PageCurrent(d, p)'
    <3>1. PageCurrent(d, p) /\ Unanswered(d, p)
      BY <1>6 DEF DeviceCurrent, PageCurrent
    <3>2. file'[d].pending[p] = NoOp /\ NoOp.base = 0
      BY <1>6 DEF NoOps, NoOp
    <3>3. RevisionsExist(d, p)'
      BY <1>1, <1>2, <1>6, <3>1, <3>2, RevisionsTyped
         DEF PageCurrent, RevisionsExist, Stage
    <3>4. Unanswered(d, p)'
      BY <1>1, <1>6, <3>1, <3>2 DEF Unanswered
    <3>5. ~HasAnswer(d)'
      BY <1>1, <1>6 DEF HasAnswer
    <3> QED
      BY <1>1, <1>2, <1>6, <3>3, <3>4, <3>5 DEF PageCurrent, HasAnswer, Stage
  <2> QED
    BY <1>1, <1>3, <2>1, <2>2, AloneCurrent DEF DeviceCurrent
<1> QED
  BY <1>4, <1>5, <1>6, PrepareFile

\* What waits for a page of the batch is based on the answer.
LEMMA MarkCommitSucceededCurrent ==
    ASSUME TypesInv, Calm, \A x \in Device : DeviceCurrent(x), NEW d \in Device,
           MarkCommitSucceeded(d)
    PROVE  \A x \in Device : DeviceCurrent(x)'
<1> DEFINE r == fetched[d].response
           ops == Rebased(file[d].pending, Results(d))
           f == [file[d] EXCEPT !.pending = ops, !.batch = NoBatch]
<1>1. /\ UNCHANGED <<versions, own, feed, answered, mapping, fetched, wire>>
      /\ Stage(d) = "mapped"
  BY DEF MarkCommitSucceeded, cloudVars
<1>2. /\ OneBatch(d) /\ wire[d] = NoBatch /\ file[d].batch # NoBatch
      /\ r \in answered[d] /\ r.key = file[d].batch.key
  BY <1>1 DEF DeviceCurrent, OneBatch
<1>3. GoTo(d, "follow") /\ file' = [file EXCEPT ![d] = f]
  <2>1. Seen(d) = file[d]
    BY CalmReads
  <2> QED
    BY <1>2, <2>1 DEF MarkCommitSucceeded, WriteState
<1>4. cycle'[d].stage = "follow" /\ \A x \in Device \ {d} : cycle'[x] = cycle[x]
  BY <1>3, GoingTo DEF TypesInv, CycleTypes, Stages
<1>5. ASSUME NEW p \in Page
      PROVE  /\ ops[p] # NoOp => file[d].pending[p] # NoOp
             /\ ops[p].base = IF file[d].pending[p] # NoOp /\ r.results[p].outcome # "none"
                              THEN r.results[p].revision
                              ELSE file[d].pending[p].base
  <2>1. file[d].pending[p] \in Op
    BY RevisionsTyped
  <2>2. ops[p] = IF file[d].pending[p] # NoOp /\ r.results[p].outcome # "none"
                 THEN [file[d].pending[p] EXCEPT !.base = r.results[p].revision]
                 ELSE file[d].pending[p]
    BY DEF Rebased, Results
  <2>3. [file[d].pending[p] EXCEPT !.base = r.results[p].revision].base
           = r.results[p].revision
    BY <2>1 DEF Op
  <2> HIDE DEF ops
  <2> QED
    BY <2>2, <2>3
<1> HIDE DEF ops
<1>6. file'[d].pending = ops /\ file'[d].batch = NoBatch
      /\ \A x \in Device \ {d} : file'[x] = file[x]
  <2>1. f.pending = ops /\ f.batch = NoBatch
    BY DEF TypesInv, FileTypes, File
  <2> HIDE DEF f
  <2> QED
    BY <1>3, <2>1 DEF TypesInv, FileTypes
<1>7. Alone(d)
  BY <1>1, <1>4, <1>6 DEF Alone
<1>8. OneBatch(d)'
  BY <1>1, <1>2, <1>4, <1>6 DEF OneBatch, Stage
<1>9. ASSUME NEW p \in Page PROVE PageCurrent(d, p)'
  <2>1. PageCurrent(d, p) /\ AnsweredOp(d, p, r) /\ own[d][p] <= mapping[d][p]
    BY <1>1, <1>2 DEF DeviceCurrent, PageCurrent
  <2>2. /\ r.results[p].revision <= Len(versions[p])
        /\ file[d].pending[p].base <= Len(versions[p])
    BY <1>2, <2>1 DEF PageCurrent, RevisionsExist
  <2>3. file'[d].pending[p].base <= Len(versions[p])
    BY <1>5, <1>6, <2>2
  <2>4. r.results[p].outcome # "none" => own[d][p] <= r.results[p].revision
    BY <2>1 DEF AnsweredOp
  <2>5. r.results[p].outcome = "none" => Unanswered(d, p)
    BY <2>1 DEF AnsweredOp
  <2>6. NoBatch.ops[p] = NoOp /\ NoOp.base = 0
    BY DEF NoBatch, NoOps, NoOp
  <2>7. file'[d].pending[p] # NoOp => own[d][p] <= file'[d].pending[p].base
    BY <1>5, <1>6, <2>4, <2>5 DEF Unanswered
  <2>8. Unanswered(d, p)'
    BY <1>1, <1>6, <2>1, <2>6, <2>7 DEF Unanswered
  <2>9. RevisionsExist(d, p)'
    BY <1>1, <1>4, <1>6, <2>1, <2>3, <2>6, RevisionsTyped
       DEF PageCurrent, RevisionsExist, Stage
  <2>10. Results(d)[p].outcome = "conflict" => Current(d, p, Results(d)[p].revision)
    BY <2>2, <2>4 DEF Results, Current
  <2> QED
    BY <1>1, <1>4, <1>6, <2>8, <2>9, <2>10 DEF PageCurrent, Current, Results, Stage
<1> QED
  BY <1>1, <1>7, <1>8, <1>9, AloneCurrent DEF DeviceCurrent

\* What a new commit does to the versions of a page, and what it answers.
LEMMA CommittedPage ==
    ASSUME TypesInv, NEW d \in Device, ServerCommit(d), NEW p \in Page,
           ~\E x \in answered[d] : x.key = wire[d].key
    PROVE  LET op == wire[d].ops[p]
           IN  /\ own'[d][p] = IF Applies(op, p) THEN Len(versions[p]) + 1 ELSE own[d][p]
               /\ Applies(op, p) => Len(versions'[p]) = Len(versions[p]) + 1
               /\ \A x \in answered'[d] \ answered[d] :
                     /\ x.results[p].outcome = "none" <=> op = NoOp
                     /\ x.results[p].outcome # "none" =>
                           x.results[p].revision = Len(versions'[p])
                     /\ x.results[p].outcome # "none" /\ x.results[p].outcome # "applied"
                           => ~Applies(op, p)
                     /\ x.results[p].outcome = "conflict" => Conflicts(op, p)
                     /\ x.results[p].outcome = "none" => x.results[p].revision = 0
               /\ op = NoOp => ~Applies(op, p)
<1> DEFINE ops == wire[d].ops
           changed == {q \in Page : Applies(ops[q], q)}
           Outcome(q) == IF ops[q] = NoOp THEN "none"
                         ELSE IF Conflicts(ops[q], q) THEN "conflict" ELSE "applied"
           Revision(q) == IF ops[q] = NoOp THEN 0 ELSE Len(versions'[q])
           response == [key |-> wire[d].key,
                        results |-> [q \in Page |-> [outcome |-> Outcome(q),
                                                     revision |-> Revision(q)]]]
           mine == [q \in Page |-> IF q \in changed THEN CloudRevision(q) + 1
                                   ELSE own[d][q]]
<1>1. versions' = [q \in Page |-> IF q \in changed THEN Append(versions[q], ops[q].edit)
                                  ELSE versions[q]]
  BY DEF ServerCommit
<1>2. own' = [own EXCEPT ![d] = mine]
  BY DEF ServerCommit
<1>3. answered' = [answered EXCEPT ![d] = @ \union {response}]
  BY DEF ServerCommit
<1>4. p \in changed <=> Applies(ops[p], p)
  OBVIOUS
<1>5. own'[d][p] = IF Applies(ops[p], p) THEN Len(versions[p]) + 1 ELSE own[d][p]
  <2>1. mine[p] = IF Applies(ops[p], p) THEN Len(versions[p]) + 1 ELSE own[d][p]
    BY DEF CloudRevision
  <2> HIDE DEF mine
  <2> QED
    BY <1>2, <2>1 DEF TypesInv, CloudTypes
<1>6. Applies(ops[p], p) => Len(versions'[p]) = Len(versions[p]) + 1
  <2>1. versions[p] \in Seq(Edit) /\ ops[p].edit \in Edit
    BY DEF TypesInv, CloudTypes, CycleTypes, Batch, Ops, Op
  <2>2. Len(Append(versions[p], ops[p].edit)) = Len(versions[p]) + 1
    BY <2>1
  <2>3. Applies(ops[p], p) => versions'[p] = Append(versions[p], ops[p].edit)
    BY <1>1, <1>4
  <2> QED
    BY <2>2, <2>3
<1>7. \A x \in answered'[d] \ answered[d] : x = response
  BY <1>3 DEF TypesInv, CloudTypes
<1>8. ops[p] = NoOp => ~Applies(ops[p], p)
  BY DEF Applies, NoOp
<1>9. /\ response.results[p].outcome = Outcome(p)
      /\ response.results[p].revision = Revision(p)
  OBVIOUS
<1>10. Conflicts(ops[p], p) => ~Applies(ops[p], p)
  BY DEF Conflicts, Applies
<1> HIDE DEF response, changed, mine
<1> QED
  BY <1>5, <1>6, <1>7, <1>8, <1>9, <1>10

\* A commit raises the device's own versions no higher than the answer tells,
\* and those of a page it does not apply not at all.
LEMMA ServerCommitCurrent ==
    ASSUME TypesInv, TypesInv', Covered, \A x \in Device : DeviceCurrent(x),
           NEW d \in Device, ServerCommit(d)
    PROVE  \A x \in Device : DeviceCurrent(x)'
<1>1. /\ CloudTypes /\ CloudTypes' /\ wire \in [Device -> Batch]
      /\ UNCHANGED <<file, mapping>> /\ wire[d] # NoBatch
      /\ wire' = [wire EXCEPT ![d] = NoBatch]
  BY DEF TypesInv, CycleTypes, ServerCommit, fileVars
<1>2. /\ VersionsGrow
      /\ \A x \in Device \ {d} : answered'[x] = answered[x] /\ own'[x] = own[x]
      /\ answered[d] \subseteq answered'[d]
      /\ \E r \in answered'[d] : r.key = wire[d].key
      /\ \A r \in answered'[d] \ answered[d] : r.key = wire[d].key
  <2>1. \A p \in Page : Len(versions[p]) \in Nat /\ Len(versions'[p]) \in Nat
    <3>1. \A p \in Page : versions[p] \in Seq(Edit) /\ versions'[p] \in Seq(Edit)
      BY <1>1 DEF CloudTypes
    <3> QED
      BY <3>1
  <2>2. VersionsGrow
    BY <1>1, <2>1, Committed DEF VersionsGrow
  <2>3. \A x \in Device \ {d} : own'[x] = own[x]
    BY <1>1 DEF ServerCommit, CloudTypes, cloudVars
  <2> QED
    BY <1>1, <2>2, <2>3, Committed
<1>3. wire'[d] = NoBatch
      /\ \A x \in Device \ {d} : cycle'[x] = cycle[x] /\ fetched'[x] = fetched[x]
                                                      /\ wire'[x] = wire[x]
  BY GoingTo DEF ServerCommit, TypesInv, CycleTypes, Stages
<1>4. ASSUME NEW x \in Device \ {d} PROVE DeviceCurrent(x)'
  BY <1>1, <1>2, <1>3, <1>4, OthersCurrent
<1>5. OneBatch(d) /\ wire[d] = file[d].batch /\ file[d].batch # NoBatch
  BY <1>1 DEF DeviceCurrent, OneBatch
<1>6. Stage(d) \notin Recording
  BY <1>1, <1>5 DEF Covered, DeviceCovered, OneBatch, Recording
<1>7. \/ /\ Stage(d) = "sent" /\ cycle'[d].stage = "answered"
         /\ fetched'[d].response \in answered'[d]
         /\ fetched'[d].response.key = file[d].batch.key
      \/ cycle'[d].stage \notin Recording
  <2>1. CASE Stage(d) = "sent"
    <3> DEFINE r == CHOOSE x \in answered'[d] : x.key = wire[d].key
    <3>1. r \in answered'[d] /\ r.key = wire[d].key
      BY <1>2
    <3>2. GoTo(d, "answered") /\ fetched' = [fetched EXCEPT ![d].response = r]
      BY <2>1 DEF ServerCommit
    <3> HIDE DEF r
    <3>3. cycle'[d].stage = "answered" /\ fetched'[d].response = r
      BY <3>2, GoingTo DEF TypesInv, CycleTypes, Stages
    <3> QED
      BY <1>5, <2>1, <3>1, <3>3
  <2>2. CASE Stage(d) # "sent"
    <3>1. UNCHANGED cycle
      BY <2>2 DEF ServerCommit
    <3> QED
      BY <1>6, <3>1 DEF Stage
  <2> QED
    BY <2>1, <2>2
<1>8. CASE \E x \in answered[d] : x.key = wire[d].key
  <2>1. UNCHANGED <<versions, own, answered>>
    BY <1>8 DEF ServerCommit, cloudVars
  <2>2. OneBatch(d)'
    BY <1>1, <1>3, <1>5, <1>7, <2>1 DEF OneBatch, Stage, Recording
  <2>3. ASSUME NEW p \in Page PROVE PageCurrent(d, p)'
    <3>1. PageCurrent(d, p)
      BY DEF DeviceCurrent
    <3>2. RevisionsExist(d, p)'
      BY <1>1, <1>7, <2>1, <3>1 DEF PageCurrent, RevisionsExist, Stage, Recording
    <3> QED
      BY <1>1, <1>7, <2>1, <3>1, <3>2
         DEF PageCurrent, HasAnswer, Unanswered, AnsweredOp, Stage, Recording
  <2> QED
    BY <1>4, <2>2, <2>3 DEF DeviceCurrent
<1>9. CASE ~\E x \in answered[d] : x.key = wire[d].key
  <2>1. ~HasAnswer(d) /\ HasAnswer(d)'
    BY <1>1, <1>2, <1>5, <1>9 DEF HasAnswer
  <2>2. OneBatch(d)'
    <3>1. \A x, y \in answered'[d] \ answered[d] : x = y
      <4> DEFINE Outcome(p) == IF wire[d].ops[p] = NoOp THEN "none"
                               ELSE IF Conflicts(wire[d].ops[p], p) THEN "conflict"
                               ELSE "applied"
                 response == [key |-> wire[d].key,
                    results |-> [p \in Page |->
                       [outcome |-> Outcome(p),
                        revision |-> IF wire[d].ops[p] = NoOp THEN 0
                                     ELSE Len(versions'[p])]]]
      <4>1. answered' = [answered EXCEPT ![d] = @ \union {response}]
        BY <1>9 DEF ServerCommit
      <4> HIDE DEF response
      <4> QED
        BY <1>1, <4>1 DEF CloudTypes
    <3>2. \A x, y \in answered'[d] : x.key = y.key => x = y
      BY <1>2, <1>5, <1>9, <3>1 DEF OneBatch
    <3> QED
      BY <1>1, <1>3, <1>5, <1>7, <3>2 DEF OneBatch, Stage, Recording
  <2>3. ASSUME NEW p \in Page PROVE PageCurrent(d, p)'
    <3> DEFINE op == wire[d].ops[p]
    <3>1. PageCurrent(d, p) /\ Unanswered(d, p) /\ RevisionsExist(d, p)
      BY <2>1 DEF DeviceCurrent, PageCurrent
    <3>2. /\ own'[d][p] = IF Applies(op, p) THEN Len(versions[p]) + 1 ELSE own[d][p]
          /\ Applies(op, p) => Len(versions'[p]) = Len(versions[p]) + 1
          /\ op = NoOp => ~Applies(op, p)
      BY <1>9, CommittedPage
    <3>3. /\ own[d][p] \in Nat /\ own[d][p] <= Len(versions[p])
          /\ Len(versions[p]) \in Nat /\ Len(versions'[p]) \in Nat
          /\ Len(versions'[p]) >= Len(versions[p])
      BY <1>2, <3>1, RevisionsTyped DEF RevisionsExist, VersionsGrow
    <3>4. own'[d][p] <= Len(versions'[p])
      BY <3>2, <3>3
    <3>5. ASSUME NEW r \in answered'[d] \ answered[d]
          PROVE  /\ r.results[p].outcome = "none" <=> op = NoOp
                 /\ r.results[p].outcome # "none" =>
                       r.results[p].revision = Len(versions'[p])
                 /\ r.results[p].outcome # "none" /\ r.results[p].outcome # "applied"
                       => ~Applies(op, p)
                 /\ r.results[p].outcome = "none" => r.results[p].revision = 0
      BY <1>9, CommittedPage
    <3>6. RevisionsExist(d, p)'
      <4>1. \A x \in answered'[d] : x.results[p].revision <= Len(versions'[p])
        <5>1. ASSUME NEW x \in answered[d]
              PROVE  x.results[p].revision <= Len(versions'[p])
          BY <3>1, <3>3, RevisionsTyped DEF RevisionsExist
        <5>2. ASSUME NEW x \in answered'[d] \ answered[d]
              PROVE  x.results[p].revision <= Len(versions'[p])
          BY <3>3, <3>5
        <5> QED
          BY <5>1, <5>2
      <4>2. /\ mapping[d][p] <= Len(versions'[p])
            /\ file[d].pending[p].base <= Len(versions'[p])
            /\ file[d].batch.ops[p].base <= Len(versions'[p])
        BY <3>1, <3>3, RevisionsTyped DEF RevisionsExist
      <4> QED
        BY <1>1, <1>7, <3>4, <4>1, <4>2 DEF RevisionsExist, Stage, Recording
    <3>7. ASSUME ~Applies(op, p) PROVE Unanswered(d, p)'
      BY <1>1, <3>1, <3>2, <3>7 DEF Unanswered
    <3>8. ASSUME NEW r \in answered'[d], r.key = file[d].batch.key
          PROVE  AnsweredOp(d, p, r)'
      <4>1. r \in answered'[d] \ answered[d]
        BY <1>5, <1>9, <3>8
      <4>2. op = file[d].batch.ops[p]
        BY <1>5
      <4>3. ~Applies(op, p) => own'[d][p] <= mapping[d][p]
        BY <3>1, <3>2 DEF Unanswered
      <4>4. CASE op = NoOp
        BY <1>1, <3>2, <3>5, <3>7, <4>1, <4>2, <4>4 DEF AnsweredOp
      <4>5. CASE op # NoOp
        BY <1>1, <3>4, <3>5, <4>1, <4>2, <4>3, <4>5 DEF AnsweredOp
      <4> QED
        BY <4>4, <4>5
    <3> QED
      BY <1>1, <1>5, <1>7, <2>1, <3>6, <3>8 DEF PageCurrent, Stage, Recording
  <2> QED
    BY <1>4, <2>2, <2>3 DEF DeviceCurrent
<1> QED
  BY <1>8, <1>9

LEMMA StepCurrent ==
    TypesInv /\ TypesInv' /\ CalmInv /\ CoveredInv /\ CurrentInv /\ [Next]_vars
      => CurrentInv'
<1> SUFFICES ASSUME TypesInv, TypesInv', CalmInv, CoveredInv, CurrentInv, [Next]_vars,
                    ~budget'.parallel
             PROVE  \A x \in Device : DeviceCurrent(x)'
  BY DEF CurrentInv
<1>1. Calm /\ Covered /\ \A x \in Device : DeviceCurrent(x)
  BY ScenarioKept DEF CalmInv, CoveredInv, CurrentInv
<1>2. ~Overlap
  BY <1>1 DEF Overlap, Calm
<1>3. CASE UNCHANGED vars
  <2>1. UNCHANGED <<versions, own, feed, answered, file, mapping, fetched, cycle, wire>>
    BY <1>3 DEF vars, cloudVars, fileVars, appVars
  <2>2. VersionsGrow
    BY <2>1 DEF VersionsGrow, TypesInv, CloudTypes
  <2> QED
    BY <1>1, <2>1, <2>2, OthersCurrent
<1>4. CASE Next
  <2> PICK d \in Device :
         \/ Edits(d) \/ Tracks(d) \/ StartCycle(d) \/ HoldState(d)
         \/ TrackerDone(d) /\ (Pushes(d) \/ Pulls(d))
         \/ ServerCommit(d) \/ LoseConnection(d) \/ Crash(d)
    BY <1>4 DEF Next
  <2>1. CASE Edits(d)
    BY <1>1, <2>1, EditsCurrent
  <2>2. CASE Tracks(d) \/ HoldState(d)
    BY <1>1, <1>2, <2>2, TrackCurrent DEF Tracks, ReadMapping, ReadState, HoldState
  <2>3. CASE StartCycle(d) \/ LoseConnection(d) \/ Crash(d)
    BY <1>1, <2>3, CycleCurrent
  <2>4. CASE Pushes(d)
    BY <1>1, <2>4, PrepareCurrent, UpdateRemoteCurrent, MarkCommitSucceededCurrent,
       QueueMetadataCurrent, CycleCurrent, ReplaceMappingsCurrent DEF Pushes
  <2>5. CASE Pulls(d)
    BY <1>1, <2>5, ListChangesCurrent, BootstrapCurrent, ApplyIfSafeCurrent,
       RebuildMappingsCurrent, AppliedCurrent DEF Pulls
  <2>6. CASE ServerCommit(d)
    BY <1>1, <2>6, ServerCommitCurrent
  <2> QED
    BY <2>1, <2>2, <2>3, <2>4, <2>5, <2>6
<1> QED
  BY <1>3, <1>4

LEMMA CurrentInvariant == Spec => []CurrentInv
  BY InitCurrent, StepCurrent, TypesInvariant, CalmInvariant, CoveredInvariant, PTL DEF Spec

\* Only a commit changes what the server has.
LEMMA OnlyCommits ==
    ASSUME [Next]_vars, cloudVars' # cloudVars
    PROVE  \E x \in Device : ServerCommit(x)
<1>1. CASE UNCHANGED vars
  BY <1>1 DEF vars
<1>2. ASSUME NEW x \in Device,
             \/ Edits(x) \/ Tracks(x) \/ StartCycle(x) \/ HoldState(x)
             \/ LoseConnection(x) \/ Crash(x)
      PROVE  FALSE
  BY <1>2 DEF Edits, Open, Close, Save, AddPage, Tracks, ReadMapping, ReadState, Track,
              StartCycle, HoldState, LoseConnection, Crash
<1>3. ASSUME NEW x \in Device, Pushes(x)
      PROVE  FALSE
  BY <1>3 DEF Pushes, Prepare, UpdateRemote, MarkCommitSucceeded, QueueMetadata,
              UploadPages, ReplaceMappings, QueueLatestCreatedContent, PushAgain
<1>4. ASSUME NEW x \in Device, Pulls(x)
      PROVE  FALSE
  BY <1>4 DEF Pulls, ListChanges, Bootstrap, ApplyIfSafe, RebuildMappings,
              MarkChangesApplied
<1> QED
  BY <1>1, <1>2, <1>3, <1>4 DEF Next

\* What is preserved as a conflict was sent on a base that is no older than the
\* device's last version of the page, and that is not the cloud's last one.
LEMMA OthersVersionConflicts ==
    ASSUME TypesInv, \A x \in Device : DeviceCurrent(x), [Next]_vars,
           NEW d \in Device, NEW p \in Page, kept'[p] # kept[p], wire'[d] # wire[d]
    PROVE  own[d][p] # CloudRevision(p)
<1>1. PICK x \in Device : ServerCommit(x)
  <2>1. cloudVars' # cloudVars
    BY DEF cloudVars
  <2> QED
    BY <2>1, OnlyCommits
<1>2. x = d
  BY <1>1 DEF ServerCommit, TypesInv, CycleTypes
<1> DEFINE op == wire[d].ops[p]
<1>3. /\ wire[d] # NoBatch
      /\ ~\E r \in answered[d] : r.key = wire[d].key
      /\ Conflicts(op, p)
  BY <1>1, <1>2 DEF ServerCommit, cloudVars
<1>4. wire[d] = file[d].batch /\ ~HasAnswer(d)
  BY <1>3 DEF DeviceCurrent, OneBatch, HasAnswer
<1>5. PageCurrent(d, p) /\ Unanswered(d, p)
  BY <1>4 DEF DeviceCurrent, PageCurrent
<1>6. op # NoOp /\ op.base # CloudRevision(p)
  BY <1>3 DEF Conflicts, NoOp
<1>7. own[d][p] <= op.base /\ op.base <= Len(versions[p])
  BY <1>4, <1>5, <1>6 DEF PageCurrent, RevisionsExist, Unanswered
<1> QED
  BY <1>4, <1>6, <1>7, RevisionsTyped DEF CloudRevision

\* No device conflicts with itself: when the tracker and the cycle take turns to
\* write the files of a device, what it sends is preserved as a conflict only with
\* a version that another device made, whatever is lost, repeated or crashes.
THEOREM ConflictsStayReal == Spec => ConflictsAreReal
<1>1. TypesInv /\ CurrentInv /\ [Next]_vars =>
         [~budget.parallel => \A d \in Device, p \in Page :
            kept'[p] # kept[p] /\ wire'[d] # wire[d] => own[d][p] # CloudRevision(p)]_vars
  BY OthersVersionConflicts DEF CurrentInv
<1> QED
  BY <1>1, TypesInvariant, CurrentInvariant, PTL DEF Spec, ConflictsAreReal

=============================================================================
