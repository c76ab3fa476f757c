-------------------------- MODULE DeviceContentProofs --------------------------
(***************************************************************************)
(* What the devices of DeviceSync have of the contents in the cloud, for   *)
(* every number of devices, pages and edits and every orderly scenario.    *)
(*                                                                         *)
(* The first part is about the feed: a device that has caught up has what  *)
(* the cloud has.  The second is about the mapping: which revisions the    *)
(* contents of a device were built upon, and the only step that breaks it. *)
(***************************************************************************)
EXTENDS DeviceSyncProofs

-----------------------------------------------------------------------------
(* Orderly scenarios: a device that has caught up has what the cloud has.   *)

\* An event of a page comes after the n-th.
Later(p, n) == \E i \in 1..Len(feed) : i > n /\ feed[i][1] = p

\* Every version of a page but the first is told by the feed.
FeedComplete == \A p \in Page : \A n \in 2..Len(versions[p]) :
    \E i \in 1..Len(feed) : feed[i] = <<p, n>>

\* The cursor has passed no revision of a page that is newer than n.
NotBehind(d, p, n) ==
    n >= 1 /\ \A i \in 1..file[d].cursor : feed[i][1] = p => feed[i][2] <= n

\* A page is mapped, and what is to be sent is on no revision that the cursor left behind.
BasesCurrent(d, p) ==
    /\ mapping[d][p] >= 1
    /\ file[d].pending[p] # NoOp => NotBehind(d, p, file[d].pending[p].base)
    /\ file[d].batch.ops[p] # NoOp => NotBehind(d, p, file[d].batch.ops[p].base)

\* Once the frozen batch has an answer, the content it sent is the cloud's or the
\* device still has a change of the page to list.
AnswerSettles(d, p, x) ==
    /\ x.results[p].outcome # "none" => NotBehind(d, p, x.results[p].revision)
    /\ file[d].batch.ops[p].kind = "content" =>
          file[d].batch.ops[p].edit = CloudEdit(p) \/ Later(p, file[d].cursor)

\* No answer to the frozen batch, nor one that is followed up, tells a revision left behind.
AnswersCurrent(d, p) ==
    /\ file[d].batch # NoBatch => \A x \in answered[d] :
          x.key = file[d].batch.key => AnswerSettles(d, p, x)
    /\ Stage(d) = "follow" /\ Results(d)[p].outcome # "none" =>
          NotBehind(d, p, Results(d)[p].revision)

\* The local content of a page is the latest of what is waiting for the tracker
\* or, if nothing is, of what is to be sent.
LatestIsLocal(d, p) ==
    /\ \A j \in Waiting(d, p) :
          (\A i \in Waiting(d, p) : i <= j) => queue[d][j].edit = local[d][p]
    /\ Waiting(d, p) = {} =>
          /\ file[d].pending[p].kind = "content" => file[d].pending[p].edit = local[d][p]
          /\ file[d].pending[p].kind # "content" /\ file[d].batch.ops[p].kind = "content"
                => file[d].batch.ops[p].edit = local[d][p]

\* A pull lists what comes after the cursor; what it has applied is the content of
\* the bootstrap, to which the pages are mapped next.
PullApplied(d, p) ==
    /\ Stage(d) \in {"listed", "apply", "applied", "advance"} =>
          fetched[d].from = file[d].cursor
    /\ Stage(d) = "applied" =>
          /\ fetched[d].snapshot[p] \in 1..Len(versions[p])
          /\ p \in Changed(d) => local[d][p] = versions[p][fetched[d].snapshot[p]]
    /\ Stage(d) = "advance" =>
          /\ mapping[d][p] \in 1..Len(versions[p])
          /\ p \in Changed(d) => local[d][p] = versions[p][mapping[d][p]]

\* A device that does not have the cloud's content of a page has a change of it to
\* list, an edit of it to send or a save of it to track.
LocalCurrent(d, p) ==
    \/ local[d][p] = CloudEdit(p) \/ Later(p, file[d].cursor)
    \/ Queued(d, p) # {} \/ Waiting(d, p) # {}

\* The invariant of one device and one page, and of all of them in orderly scenarios.
PageSettled(d, p) ==
    /\ BasesCurrent(d, p) /\ AnswersCurrent(d, p) /\ LatestIsLocal(d, p)
    /\ PullApplied(d, p) /\ LocalCurrent(d, p)

Settled == FeedComplete /\ \A d \in Device, p \in Page : PageSettled(d, p)

SettledInv == Orderly => Settled

\* Nothing is to be sent or listed in the beginning, and every content is the same.
LEMMA InitSettled == Init => SettledInv
<1> SUFFICES ASSUME Init PROVE Settled
  BY DEF SettledInv
<1>1. FeedComplete
  BY DEF Init, FeedComplete
<1>2. ASSUME NEW d \in Device, NEW p \in Page PROVE PageSettled(d, p)
  <2>1. /\ mapping[d][p] = 1 /\ file[d].pending[p] = NoOp /\ file[d].batch = NoBatch
        /\ NoBatch.ops[p] = NoOp /\ NoOp.kind = "none" /\ answered[d] = {}
        /\ Stage(d) = "idle" /\ queue[d] = <<>> /\ local[d][p] = 0 /\ versions[p] = <<0>>
    BY <1>2 DEF Init, NoOps, NoBatch, NoOp, Stage, Idle
  <2>2. CloudEdit(p) = 0
    BY <2>1 DEF CloudEdit, Last
  <2>3. Waiting(d, p) = {}
    BY <2>1 DEF Waiting
  <2>4. BasesCurrent(d, p) /\ AnswersCurrent(d, p)
    BY <2>1 DEF BasesCurrent, AnswersCurrent
  <2>5. LatestIsLocal(d, p)
    BY <2>1, <2>3 DEF LatestIsLocal
  <2>6. PullApplied(d, p) /\ LocalCurrent(d, p)
    BY <2>1, <2>2 DEF PullApplied, LocalCurrent
  <2> QED
    BY <2>4, <2>5, <2>6 DEF PageSettled
<1> QED
  BY <1>1, <1>2 DEF Settled

\* What a step may do to the cloud: it adds a version to some pages, and tells of
\* it.
CloudGrows ==
    /\ FeedGrows
    /\ \A p \in Page :
          \/ versions'[p] = versions[p]
          \/ /\ Len(versions'[p]) = Len(versions[p]) + 1
             /\ \A i \in 1..Len(versions[p]) : versions'[p][i] = versions[p][i]
             /\ \E i \in 1..Len(feed') : i > Len(feed) /\ feed'[i] = <<p, Len(versions'[p])>>

\* The last version of a page, and the lengths.
LEMMA CloudTyped ==
    ASSUME TypesInv, NEW p \in Page
    PROVE  /\ Len(versions[p]) \in Nat \ {0} /\ Len(feed) \in Nat
           /\ CloudEdit(p) = versions[p][Len(versions[p])]
           /\ \A i \in 1..Len(versions[p]) : versions[p][i] \in Edit
<1>1. versions[p] \in Seq(Edit) /\ versions[p] # <<>> /\ feed \in Seq(Page \X Nat)
  BY DEF TypesInv, CloudTypes
<1>2. Len(versions[p]) \in Nat \ {0} /\ Len(feed) \in Nat
  BY <1>1, EmptySeq, LenProperties
<1>3. CloudEdit(p) = versions[p][Len(versions[p])]
  BY DEF CloudEdit, Last
<1> QED
  BY <1>1, <1>2, <1>3, ElementOfSeq

\* What a device knows of the feed stays true as the cloud grows.
LEMMA FeedKept ==
    ASSUME TypesInv, TypesInv', CloudGrows, NEW x \in Device, NEW p \in Page,
           file'[x].cursor = file[x].cursor
    PROVE  /\ \A n : NotBehind(x, p, n) => NotBehind(x, p, n)'
           /\ \A n \in Nat : Later(p, n) => Later(p, n)'
           /\ \/ versions'[p] = versions[p] /\ CloudEdit(p)' = CloudEdit(p)
              \/ Later(p, file[x].cursor)'
           /\ \A i \in 1..Len(versions[p]) : i \in 1..Len(versions'[p])
                                             /\ versions'[p][i] = versions[p][i]
<1>1. /\ Len(feed) \in Nat /\ Len(feed') \in Nat /\ Len(feed') >= Len(feed)
      /\ \A i \in 1..Len(feed) : feed'[i] = feed[i]
      /\ file[x].cursor \in Nat /\ file[x].cursor <= Len(feed)
      /\ Len(versions[p]) \in Nat
  BY EventsTyped, SeenTypes, FileParts, CloudTyped
     DEF CloudGrows, FeedGrows, TypesInv, CloudTypes
<1>2. \A n : NotBehind(x, p, n) => NotBehind(x, p, n)'
  BY <1>1 DEF NotBehind
<1>3. \A n \in Nat : Later(p, n) => Later(p, n)'
  BY <1>1 DEF Later
<1>4. CASE versions'[p] = versions[p]
  BY <1>2, <1>3, <1>4 DEF CloudEdit
<1>5. CASE /\ Len(versions'[p]) = Len(versions[p]) + 1
           /\ \A i \in 1..Len(versions[p]) : versions'[p][i] = versions[p][i]
           /\ \E i \in 1..Len(feed') : i > Len(feed)
                                       /\ feed'[i] = <<p, Len(versions'[p])>>
  <2>1. Later(p, file[x].cursor)'
    BY <1>1, <1>5 DEF Later
  <2>2. \A i \in 1..Len(versions[p]) : i \in 1..Len(versions'[p])
    BY <1>1, <1>5
  <2> QED
    BY <1>2, <1>3, <1>5, <2>1, <2>2
<1> QED
  BY <1>4, <1>5 DEF CloudGrows

\* The changes a cycle has listed stay what they are.
LEMMA ChangedKept ==
    ASSUME TypesInv, CloudGrows, NEW x \in Device, fetched'[x] = fetched[x]
    PROVE  Changed(x)' = Changed(x)
<1>1. /\ fetched[x].upto \in Nat /\ fetched[x].from \in Nat
      /\ fetched[x].upto <= Len(feed) /\ Len(feed) \in Nat
  BY EventsTyped DEF TypesInv, CloudTypes, CycleTypes, CursorsReal
<1>2. \A i \in (fetched[x].from + 1)..fetched[x].upto : i \in 1..Len(feed)
  BY <1>1
<1>3. \A i \in (fetched[x].from + 1)..fetched[x].upto : feed'[i] = feed[i]
  BY <1>2 DEF CloudGrows, FeedGrows
<1> QED
  BY <1>3 DEF Changed

\* The stages at which a pull has listed changes.
Pulling == {"listed", "apply", "applied", "advance"}

\* What a device knows of a page stays true as the cloud grows, while its cycle
\* goes on to a stage that records nothing or has recorded the right thing.
LEMMA PageKept ==
    ASSUME TypesInv, TypesInv', CloudGrows, NEW x \in Device, NEW p \in Page,
           PageSettled(x, p), mapping'[x][p] >= 1,
           file'[x] = file[x], local'[x] = local[x], queue'[x] = queue[x],
           answered'[x] = answered[x],
           \/ /\ cycle'[x].stage = cycle[x].stage
              /\ fetched'[x] = fetched[x] /\ mapping'[x] = mapping[x]
           \/ cycle'[x].stage \notin Pulling \union {"follow"}
           \/ cycle'[x].stage # "follow" /\ PullApplied(x, p)'
    PROVE  PageSettled(x, p)'
<1>1. /\ \A n : NotBehind(x, p, n) => NotBehind(x, p, n)'
      /\ file[x].cursor \in Nat
      /\ \A n \in Nat : Later(p, n) => Later(p, n)'
      /\ \/ versions'[p] = versions[p] /\ CloudEdit(p)' = CloudEdit(p)
         \/ Later(p, file[x].cursor)'
      /\ \A i \in 1..Len(versions[p]) : i \in 1..Len(versions'[p])
                                        /\ versions'[p][i] = versions[p][i]
  BY FeedKept, SeenTypes, FileParts
<1>2. BasesCurrent(x, p)'
  BY <1>1 DEF PageSettled, BasesCurrent
<1>3. Waiting(x, p)' = Waiting(x, p) /\ Queued(x, p)' = Queued(x, p)
  BY DEF Waiting, Queued
<1>4. LatestIsLocal(x, p)'
  BY <1>3 DEF PageSettled, LatestIsLocal
<1>5. LocalCurrent(x, p)'
  <2>1. LocalCurrent(x, p)
    BY DEF PageSettled
  <2> HIDE DEF Later, CloudEdit
  <2> QED
    BY <1>1, <1>3, <2>1 DEF LocalCurrent
<1>6. ASSUME NEW y \in answered[x], AnswerSettles(x, p, y)
      PROVE  AnswerSettles(x, p, y)'
  <2> HIDE DEF Later, CloudEdit, NotBehind
  <2> QED
    BY <1>1, <1>6 DEF AnswerSettles
<1>7. AnswersCurrent(x, p)'
  <2>1. AnswersCurrent(x, p)
    BY DEF PageSettled
  <2>2. cycle'[x].stage = "follow" => cycle[x].stage = "follow" /\ fetched'[x] = fetched[x]
    BY DEF Pulling
  <2> HIDE DEF NotBehind, AnswerSettles
  <2> QED
    BY <1>1, <1>6, <2>1, <2>2 DEF AnswersCurrent, Stage, Results
<1>8. PullApplied(x, p)'
  <2>1. CASE /\ cycle'[x].stage = cycle[x].stage
             /\ fetched'[x] = fetched[x] /\ mapping'[x] = mapping[x]
    <3>1. PullApplied(x, p) /\ Changed(x)' = Changed(x)
      BY <2>1, ChangedKept DEF PageSettled
    <3> HIDE DEF Changed
    <3> QED
      BY <1>1, <2>1, <3>1 DEF PullApplied, Stage
  <2>2. CASE cycle'[x].stage \notin Pulling
    BY <2>2 DEF PullApplied, Stage, Pulling
  <2> QED
    BY <2>1, <2>2
<1> QED
  BY <1>2, <1>4, <1>5, <1>7, <1>8 DEF PageSettled

\* A step of one device that leaves what the others know alone.
Aside(d) == \A x \in Device \ {d} :
    /\ file'[x] = file[x] /\ local'[x] = local[x] /\ queue'[x] = queue[x]
    /\ mapping'[x] = mapping[x] /\ answered'[x] = answered[x]
    /\ cycle'[x] = cycle[x] /\ fetched'[x] = fetched[x]

\* It is enough to look at the device that takes a step.
LEMMA AsideSettled ==
    ASSUME TypesInv, TypesInv', Settled, NEW d \in Device, Aside(d), CloudGrows,
           FeedComplete', \A p \in Page : PageSettled(d, p)'
    PROVE  Settled'
<1>1. ASSUME NEW x \in Device \ {d}, NEW p \in Page PROVE PageSettled(x, p)'
  <2>1. PageSettled(x, p)
    BY DEF Settled
  <2>2. mapping'[x] = mapping[x] /\ mapping[x][p] >= 1
    BY <2>1 DEF PageSettled, BasesCurrent, Aside
  <2> QED
    BY <2>1, <2>2, PageKept DEF Aside
<1> QED
  BY <1>1 DEF Settled

\* ... and the cloud.
Apart(d) == Aside(d) /\ UNCHANGED <<versions, feed, answered>>

\* ... where the cloud is left alone, at its pages only ...
LEMMA ApartSettled ==
    ASSUME TypesInv, TypesInv', Settled, NEW d \in Device, Apart(d),
           \A p \in Page : PageSettled(d, p)'
    PROVE  Settled'
<1>1. CloudGrows
  BY DEF Apart, CloudGrows, FeedGrows, TypesInv, CloudTypes
<1>2. FeedComplete'
  BY DEF Apart, FeedComplete, Settled
<1> QED
  BY <1>1, <1>2, AsideSettled DEF Apart

\* ... and where its files, queue and contents are as well, at the stage it goes on to.
LEMMA QuietSettled ==
    ASSUME TypesInv, TypesInv', Settled, NEW d \in Device, Apart(d),
           file'[d] = file[d], local'[d] = local[d], queue'[d] = queue[d],
           \A p \in Page : mapping'[d][p] >= 1,
           \/ /\ cycle'[d].stage = cycle[d].stage
              /\ fetched'[d] = fetched[d] /\ mapping'[d] = mapping[d]
           \/ cycle'[d].stage \notin Pulling \union {"follow"}
           \/ cycle'[d].stage # "follow" /\ \A p \in Page : PullApplied(d, p)'
    PROVE  Settled'
<1>1. CloudGrows /\ answered'[d] = answered[d]
  BY DEF Apart, CloudGrows, FeedGrows, TypesInv, CloudTypes
<1>2. ASSUME NEW p \in Page PROVE PageSettled(d, p)'
  <2>1. PageSettled(d, p)
    BY DEF Settled
  <2> QED
    BY <1>1, <2>1, PageKept
<1> QED
  BY <1>2, ApartSettled

\* Every page is mapped to a revision.
LEMMA MappedSettled ==
    ASSUME Settled, NEW d \in Device, NEW p \in Page
    PROVE  mapping[d][p] >= 1
  BY DEF Settled, PageSettled, BasesCurrent

\* The editor opens and closes, pages are added, a cycle begins, ends or goes on.
LEMMA CycleSettled ==
    ASSUME TypesInv, TypesInv', Orderly, Settled, NEW d \in Device,
           \/ (\E p \in Page : Open(d, p)) \/ Close(d) \/ AddPage(d)
           \/ StartCycle(d) \/ UploadPages(d) \/ PushAgain(d)
           \/ LoseConnection(d) \/ Crash(d)
    PROVE  Settled'
<1>1. UNCHANGED <<versions, feed, answered, file, local, mapping>>
  BY DEF Open, Close, AddPage, StartCycle, UploadPages, PushAgain, LoseConnection, Crash,
         cloudVars, fileVars
<1>2. queue'[d] = queue[d] /\ \A x \in Device \ {d} : queue'[x] = queue[x]
  BY DEF Open, Close, AddPage, StartCycle, UploadPages, PushAgain, LoseConnection, Crash,
         Orderly, TypesInv, EditorTypes
<1>3. \A x \in Device \ {d} : fetched'[x] = fetched[x]
  BY DEF Open, Close, AddPage, StartCycle, UploadPages, PushAgain, LoseConnection, Crash,
         TypesInv, CycleTypes
<1>4. /\ \A x \in Device \ {d} : cycle'[x] = cycle[x]
      /\ \/ cycle'[d].stage = cycle[d].stage /\ fetched' = fetched
         \/ cycle'[d].stage \notin Pulling \union {"follow"}
  <2>1. CASE (\E p \in Page : Open(d, p)) \/ Close(d) \/ AddPage(d)
    BY <2>1 DEF Open, Close, AddPage
  <2>2. CASE StartCycle(d) \/ PushAgain(d)
    BY <2>2 DEF StartCycle, PushAgain, TypesInv, CycleTypes, Pulling
  <2>3. CASE UploadPages(d)
    BY <2>3, GoingTo, Stopping DEF UploadPages, TypesInv, CycleTypes, Stages, Pulling
  <2>4. CASE LoseConnection(d) \/ Crash(d)
    BY <2>4, Stopping DEF LoseConnection, Crash, TypesInv, CycleTypes, Pulling
  <2> QED
    BY <2>1, <2>2, <2>3, <2>4
<1>5. Apart(d)
  BY <1>1, <1>2, <1>3, <1>4 DEF Apart, Aside
<1> QED
  BY <1>1, <1>2, <1>4, <1>5, MappedSettled, QuietSettled

\* The mapping takes over what was answered, or what the cloud has.
LEMMA UpdateRemoteSettled ==
    ASSUME TypesInv, TypesInv', Settled, \A x \in Device : DeviceCurrent(x),
           NEW d \in Device, UpdateRemote(d)
    PROVE  Settled'
<1>1. UNCHANGED <<versions, feed, answered, file, local, queue, fetched>>
      /\ Stage(d) = "answered"
  BY DEF UpdateRemote, cloudVars
<1>2. cycle'[d].stage = "mapped" /\ \A x \in Device \ {d} : cycle'[x] = cycle[x]
  BY GoingTo DEF UpdateRemote, TypesInv, CycleTypes, Stages
<1> DEFINE m == [p \in Page |-> IF Results(d)[p].outcome = "applied"
                                THEN Results(d)[p].revision ELSE mapping[d][p]]
<1>3. mapping' = [mapping EXCEPT ![d] = m]
  BY DEF UpdateRemote
<1>4. ASSUME NEW p \in Page PROVE m[p] >= 1
  <2>1. /\ fetched[d].response \in answered[d] /\ file[d].batch # NoBatch
        /\ fetched[d].response.key = file[d].batch.key
    BY <1>1 DEF DeviceCurrent, OneBatch
  <2>2. AnswerSettles(d, p, fetched[d].response) /\ mapping[d][p] >= 1
    BY <2>1, MappedSettled DEF Settled, PageSettled, AnswersCurrent
  <2>3. Results(d)[p].outcome # "none" => Results(d)[p].revision >= 1
    BY <2>2 DEF AnswerSettles, NotBehind, Results
  <2> QED
    BY <2>2, <2>3
<1> HIDE DEF m
<1>5. mapping'[d] = m /\ \A x \in Device \ {d} : mapping'[x] = mapping[x]
  BY <1>3 DEF TypesInv, FileTypes
<1>6. Apart(d)
  BY <1>1, <1>2, <1>5 DEF Apart, Aside
<1> QED
  BY <1>1, <1>2, <1>4, <1>5, <1>6, QuietSettled DEF Pulling

\* A bootstrap maps every page, and a queued save is tracked on top of it.
LEMMA ReplaceMappingsSettled ==
    ASSUME TypesInv, TypesInv', Settled, NEW d \in Device, ReplaceMappings(d)
    PROVE  Settled'
<1>1. UNCHANGED <<versions, feed, answered, file, local, queue, fetched>>
  BY DEF ReplaceMappings, cloudVars
<1>2. cycle'[d].stage = "requeue" /\ \A x \in Device \ {d} : cycle'[x] = cycle[x]
  BY GoingTo DEF ReplaceMappings, TypesInv, CycleTypes, Stages
<1>3. mapping' = [mapping EXCEPT ![d] = Snapshot]
  BY DEF ReplaceMappings
<1>4. \A p \in Page : Snapshot[p] >= 1
  BY SnapshotTypes DEF TypesInv
<1> HIDE DEF Snapshot
<1>5. mapping'[d] = Snapshot /\ \A x \in Device \ {d} : mapping'[x] = mapping[x]
  BY <1>3 DEF TypesInv, FileTypes
<1>6. Apart(d)
  BY <1>1, <1>2, <1>5 DEF Apart, Aside
<1> QED
  BY <1>1, <1>2, <1>4, <1>5, <1>6, QuietSettled DEF Pulling

\* A pull lists the changes after the cursor and fetches a bootstrap ...
LEMMA ListedSettled ==
    ASSUME TypesInv, TypesInv', Settled, NEW d \in Device,
           ListChanges(d) \/ Bootstrap(d)
    PROVE  Settled'
<1>1. UNCHANGED <<versions, feed, answered, file, local, mapping, queue>>
  BY DEF ListChanges, Bootstrap, cloudVars, fileVars
<1>2. /\ \A x \in Device \ {d} : cycle'[x] = cycle[x] /\ fetched'[x] = fetched[x]
      /\ \/ cycle'[d].stage = "idle"
         \/ cycle'[d].stage = "listed" /\ fetched'[d].from = file[d].cursor
         \/ /\ Stage(d) = "listed" /\ cycle'[d].stage = "apply"
            /\ fetched'[d].from = fetched[d].from
  <2>1. CASE ListChanges(d)
    BY <2>1, GoingTo, Stopping DEF ListChanges, TypesInv, CycleTypes, Stages
  <2>2. CASE Bootstrap(d)
    BY <2>2, GoingTo DEF Bootstrap, TypesInv, CycleTypes, Stages
  <2> QED
    BY <2>1, <2>2
<1>3. Apart(d)
  BY <1>1, <1>2 DEF Apart, Aside
<1>4. ASSUME NEW p \in Page PROVE PullApplied(d, p)'
  <2>1. Stage(d) = "listed" => fetched[d].from = file[d].cursor
    BY DEF Settled, PageSettled, PullApplied
  <2> QED
    BY <1>1, <1>2, <2>1 DEF PullApplied, Stage
<1> QED
  BY <1>1, <1>2, <1>3, <1>4, MappedSettled, QuietSettled

\* ... whose content replaces the local one ...
LEMMA ApplyIfSafeSettled ==
    ASSUME TypesInv, TypesInv', Ordered, Settled, NEW d \in Device, ApplyIfSafe(d)
    PROVE  Settled'
<1>1. /\ UNCHANGED <<versions, feed, answered, file, mapping, queue, fetched>>
      /\ Stage(d) = "apply"
  BY DEF ApplyIfSafe, cloudVars
<1>2. /\ queue[d] = <<>> /\ file[d].pending = NoOps /\ file[d].batch = NoBatch
      /\ NoOp.kind = "none" /\ \A p \in Page : NoOps[p] = NoOp /\ NoBatch.ops[p] = NoOp
  BY <1>1 DEF Ordered, DeviceOrdered, PullsUndisturbed, NoOp, NoOps, NoBatch
<1>3. CASE \A p \in Changed(d) : Continuous(d, p)
  <2> DEFINE content == [p \in Page |-> IF p \in Changed(d)
                                        THEN versions[p][fetched[d].snapshot[p]]
                                        ELSE local[d][p]]
  <2>1. cycle'[d].stage = "applied" /\ \A x \in Device \ {d} : cycle'[x] = cycle[x]
    BY <1>3, GoingTo DEF ApplyIfSafe, TypesInv, CycleTypes, Stages
  <2>2. local' = [local EXCEPT ![d] = content]
    BY <1>3 DEF ApplyIfSafe
  <2>3. local'[d] = content /\ \A x \in Device \ {d} : local'[x] = local[x]
    BY <2>2 DEF TypesInv, FileTypes
  <2>4. Apart(d)
    BY <1>1, <2>1, <2>3 DEF Apart, Aside
  <2>5. ASSUME NEW p \in Page PROVE PageSettled(d, p)'
    <3>1. PageSettled(d, p) /\ fetched[d].snapshot[p] \in 1..Len(versions[p])
      BY <1>1 DEF Settled, TypesInv, SnapshotsReal
    <3>2. fetched[d].from = file[d].cursor /\ Changed(d)' = Changed(d)
      BY <1>1, <3>1 DEF PageSettled, PullApplied, Changed
    <3>3. p \in Changed(d) => Later(p, file[d].cursor)
      <4>1. ASSUME NEW i \in (fetched[d].from + 1)..fetched[d].upto
            PROVE  i \in 1..Len(feed) /\ i > fetched[d].from
        <5>1. /\ fetched[d].from \in Nat /\ fetched[d].upto \in Nat
              /\ fetched[d].upto <= Len(feed) /\ Len(feed) \in Nat
          BY EventsTyped DEF TypesInv, CloudTypes, CycleTypes, CursorsReal
        <5> QED
          BY <5>1
      <4> QED
        BY <3>2, <4>1 DEF Changed, Later
    <3>4. BasesCurrent(d, p)'
      BY <1>1, <3>1 DEF PageSettled, BasesCurrent, NotBehind
    <3>5. AnswersCurrent(d, p)'
      BY <1>1, <1>2, <2>1 DEF AnswersCurrent, Stage
    <3>6. LatestIsLocal(d, p)'
      BY <1>1, <1>2 DEF LatestIsLocal, Waiting
    <3>7. PullApplied(d, p)'
      BY <1>1, <2>1, <2>3, <3>1, <3>2 DEF PullApplied, Stage
    <3>8. LocalCurrent(d, p)'
      <4>1. local'[d][p] = local[d][p] \/ Later(p, file[d].cursor)
        BY <2>3, <3>3
      <4>2. Waiting(d, p)' = Waiting(d, p) /\ Queued(d, p)' = Queued(d, p)
            /\ CloudEdit(p)' = CloudEdit(p)
            /\ Later(p, file[d].cursor)' = Later(p, file[d].cursor)
        BY <1>1 DEF Waiting, Queued, CloudEdit, Later
      <4>3. LocalCurrent(d, p)
        BY <3>1 DEF PageSettled
      <4> HIDE DEF Later, CloudEdit, content
      <4> QED
        BY <4>1, <4>2, <4>3 DEF LocalCurrent
    <3> QED
      BY <3>4, <3>5, <3>6, <3>7, <3>8 DEF PageSettled
  <2> QED
    BY <2>4, <2>5, ApartSettled
<1>4. CASE ~\A p \in Changed(d) : Continuous(d, p)
  <2>1. /\ cycle'[d].stage = "idle" /\ local' = local
        /\ \A x \in Device \ {d} : cycle'[x] = cycle[x]
    BY <1>4, Stopping DEF ApplyIfSafe, TypesInv, CycleTypes
  <2>2. Apart(d)
    BY <1>1, <2>1 DEF Apart, Aside
  <2> QED
    BY <1>1, <2>1, <2>2, MappedSettled, QuietSettled DEF Pulling
<1> QED
  BY <1>3, <1>4

\* ... and whose revisions the pages are mapped to ...
LEMMA RebuildMappingsSettled ==
    ASSUME TypesInv, TypesInv', Settled, NEW d \in Device, RebuildMappings(d)
    PROVE  Settled'
<1>1. /\ UNCHANGED <<versions, feed, answered, file, local, queue, fetched>>
      /\ Stage(d) = "applied"
  BY DEF RebuildMappings, cloudVars
<1>2. cycle'[d].stage = "advance" /\ \A x \in Device \ {d} : cycle'[x] = cycle[x]
  BY GoingTo DEF RebuildMappings, TypesInv, CycleTypes, Stages
<1>3. mapping'[d] = fetched[d].snapshot /\ \A x \in Device \ {d} : mapping'[x] = mapping[x]
  BY DEF RebuildMappings, TypesInv, FileTypes
<1>4. ASSUME NEW p \in Page PROVE mapping'[d][p] >= 1 /\ PullApplied(d, p)'
  <2>1. /\ fetched[d].from = file[d].cursor
        /\ fetched[d].snapshot[p] \in 1..Len(versions[p])
        /\ p \in Changed(d) => local[d][p] = versions[p][fetched[d].snapshot[p]]
        /\ Changed(d)' = Changed(d)
    BY <1>1 DEF Settled, PageSettled, PullApplied, Changed
  <2>2. Len(versions[p]) \in Nat
    BY CloudTyped
  <2> QED
    BY <1>1, <1>2, <1>3, <2>1, <2>2 DEF PullApplied, Stage
<1>5. Apart(d)
  BY <1>1, <1>2, <1>3 DEF Apart, Aside
<1> QED
  BY <1>1, <1>2, <1>4, <1>5, QuietSettled

\* ... before the cursor moves on to the end of the list.  What is not to be
\* listed then was listed and is mapped, or was not to be listed before.
LEMMA MarkChangesAppliedSettled ==
    ASSUME TypesInv, TypesInv', Calm, Covered, Ordered, Settled,
           NEW d \in Device, MarkChangesApplied(d)
    PROVE  Settled'
<1>1. /\ UNCHANGED <<versions, feed, answered, local, mapping, queue>>
      /\ Stage(d) = "advance"
  BY DEF MarkChangesApplied, cloudVars
<1>2. /\ cycle'[d].stage = "idle"
      /\ \A x \in Device \ {d} : cycle'[x] = cycle[x] /\ fetched'[x] = fetched[x]
  BY Stopping DEF MarkChangesApplied, TypesInv, CycleTypes
<1>3. /\ \A x \in Device \ {d} : file'[x] = file[x]
      /\ file'[d].batch = file[d].batch /\ file'[d].pending = file[d].pending
      /\ file'[d].cursor = fetched[d].upto
  <2>1. file' = [file EXCEPT ![d] = [file[d] EXCEPT !.cursor = fetched[d].upto]]
    BY CalmReads DEF MarkChangesApplied, WriteState
  <2>2. file'[d].cursor = fetched[d].upto
    BY <2>1 DEF TypesInv, FileTypes, File
  <2> QED
    BY <2>2, MarkChangesAppliedFile
<1>4. /\ queue[d] = <<>> /\ file[d].pending = NoOps /\ file[d].batch = NoBatch
      /\ NoOp.kind = "none" /\ \A p \in Page : NoOps[p] = NoOp /\ NoBatch.ops[p] = NoOp
  BY <1>1 DEF Ordered, DeviceOrdered, PullsUndisturbed, NoOp, NoOps, NoBatch
<1>5. Apart(d)
  BY <1>1, <1>2, <1>3 DEF Apart, Aside
<1>6. /\ Covers(feed, mapping[d], fetched[d].upto)
      /\ fetched[d].upto \in Nat /\ fetched[d].upto <= Len(feed) /\ Len(feed) \in Nat
  BY <1>1, EventsTyped
     DEF Covered, DeviceCovered, TypesInv, CloudTypes, CycleTypes, CursorsReal
<1>7. ASSUME NEW p \in Page PROVE PageSettled(d, p)'
  <2>1. /\ PageSettled(d, p)
        /\ mapping[d][p] \in 1..Len(versions[p])
        /\ p \in Changed(d) => local[d][p] = versions[p][mapping[d][p]]
        /\ fetched[d].from = file[d].cursor
    BY <1>1 DEF Settled, PageSettled, PullApplied
  <2>2. BasesCurrent(d, p)'
    BY <1>1, <1>3, <1>4, <2>1 DEF PageSettled, BasesCurrent
  <2>3. AnswersCurrent(d, p)'
    BY <1>2, <1>3, <1>4 DEF AnswersCurrent, Stage
  <2>4. Waiting(d, p)' = {} /\ Waiting(d, p) = {} /\ Queued(d, p) = {}
    BY <1>1, <1>4, QueuedIs DEF Waiting
  <2>5. LatestIsLocal(d, p)'
    BY <1>3, <1>4, <2>4 DEF LatestIsLocal
  <2>6. PullApplied(d, p)'
    BY <1>2 DEF PullApplied, Stage
  <2>7. local[d][p] = CloudEdit(p) \/ Later(p, fetched[d].upto)
    <3>1. CASE p \in Changed(d)
      <4>1. /\ CloudEdit(p) = versions[p][Len(versions[p])] /\ Len(versions[p]) \in Nat
            /\ mapping[d][p] \in Nat
        BY CloudTyped, RevisionsTyped
      <4>2. CASE mapping[d][p] = Len(versions[p])
        BY <2>1, <3>1, <4>1, <4>2
      <4>3. CASE mapping[d][p] # Len(versions[p])
        <5>1. Len(versions[p]) \in 2..Len(versions[p]) /\ mapping[d][p] < Len(versions[p])
          BY <2>1, <4>1, <4>3
        <5>2. PICK i \in 1..Len(feed) : feed[i] = <<p, Len(versions[p])>>
          BY <5>1 DEF Settled, FeedComplete
        <5>3. ~(i \in 1..fetched[d].upto)
          BY <4>1, <5>1, <5>2, <1>6 DEF Covers
        <5> QED
          BY <1>6, <5>2, <5>3 DEF Later
      <4> QED
        BY <4>2, <4>3
    <3>2. CASE p \notin Changed(d)
      <4>1. local[d][p] = CloudEdit(p) \/ Later(p, file[d].cursor)
        BY <2>1, <2>4 DEF PageSettled, LocalCurrent
      <4>2. ASSUME NEW i \in 1..Len(feed), i > file[d].cursor, feed[i][1] = p
            PROVE  i > fetched[d].upto
        <5>1. fetched[d].from \in Nat
          BY DEF TypesInv, CycleTypes
        <5>2. i \notin (fetched[d].from + 1)..fetched[d].upto
          BY <3>2, <4>2 DEF Changed
        <5> QED
          BY <1>6, <2>1, <4>2, <5>1, <5>2
      <4> QED
        BY <4>1, <4>2 DEF Later
    <3> QED
      BY <3>1, <3>2
  <2>8. LocalCurrent(d, p)'
    BY <1>1, <1>3, <2>7 DEF LocalCurrent, CloudEdit, Later
  <2> QED
    BY <2>2, <2>3, <2>5, <2>6, <2>8 DEF PageSettled
<1> QED
  BY <1>5, <1>7, ApartSettled

\* The metadata of what was preserved as a conflict follow on the revision of the
\* answer.
LEMMA QueueMetadataSettled ==
    ASSUME TypesInv, TypesInv', Calm, \A x \in Device : DeviceCurrent(x), Settled,
           NEW d \in Device, QueueMetadata(d)
    PROVE  Settled'
<1>1. /\ UNCHANGED <<versions, feed, answered, local, mapping, queue, fetched>>
      /\ Stage(d) = "follow"
  BY DEF QueueMetadata, cloudVars
<1>2. cycle'[d].stage = "push" /\ \A x \in Device \ {d} : cycle'[x] = cycle[x]
  BY GoingTo DEF QueueMetadata, TypesInv, CycleTypes, Stages
<1>3. file[d].batch = NoBatch /\ \A p \in Page : NoBatch.ops[p] = NoOp
  BY <1>1 DEF DeviceCurrent, OneBatch, NoBatch, NoOps
<1> DEFINE follow(p) == [kind |-> "metadata", base |-> Results(d)[p].revision, edit |-> 0]
           ops == [p \in Page |->
                     IF Results(d)[p].outcome = "conflict" /\ file[d].pending[p] = NoOp
                     THEN follow(p) ELSE file[d].pending[p]]
<1>4. /\ file'[d].batch = file[d].batch /\ file'[d].cursor = file[d].cursor
      /\ file'[d].pending = ops /\ \A x \in Device \ {d} : file'[x] = file[x]
  <2>1. file' = [file EXCEPT ![d] = [file[d] EXCEPT !.pending = ops]]
    BY CalmReads DEF QueueMetadata, WriteState
  <2> HIDE DEF ops
  <2>2. file[d] \in File /\ file'[d] = [file[d] EXCEPT !.pending = ops]
        /\ \A x \in Device \ {d} : file'[x] = file[x]
    BY <2>1 DEF TypesInv, FileTypes
  <2> QED
    BY <2>2 DEF File
<1>5. Apart(d)
  BY <1>1, <1>2, <1>4 DEF Apart, Aside
<1>6. ASSUME NEW p \in Page PROVE PageSettled(d, p)'
  <2>1. PageSettled(d, p)
    BY DEF Settled
  <2>2. \/ ops[p] = file[d].pending[p]
        \/ /\ Results(d)[p].outcome = "conflict" /\ ops[p] = follow(p)
           /\ file[d].pending[p] = NoOp
    OBVIOUS
  <2>3. /\ follow(p).kind = "metadata" /\ follow(p).base = Results(d)[p].revision
        /\ NoOp.kind = "none"
    BY DEF NoOp
  <2> HIDE DEF ops, follow
  <2>4. \A n : NotBehind(d, p, n) => NotBehind(d, p, n)'
    BY <1>1, <1>4 DEF NotBehind
  <2>5. Results(d)[p].outcome # "none" => NotBehind(d, p, Results(d)[p].revision)
    BY <1>1, <2>1 DEF PageSettled, AnswersCurrent
  <2>6. BasesCurrent(d, p)'
    <3>1. ASSUME NEW n, n = ops[p].base, ops[p] # NoOp PROVE NotBehind(d, p, n)'
      <4>1. CASE ops[p] = file[d].pending[p]
        BY <2>1, <2>4, <3>1, <4>1 DEF PageSettled, BasesCurrent
      <4>2. CASE Results(d)[p].outcome = "conflict" /\ ops[p] = follow(p)
        BY <2>3, <2>4, <2>5, <3>1, <4>2
      <4> QED
        BY <2>2, <4>1, <4>2
    <3>2. mapping[d][p] >= 1
      BY MappedSettled
    <3> HIDE DEF NotBehind
    <3> QED
      BY <1>1, <1>3, <1>4, <3>1, <3>2 DEF BasesCurrent
  <2>7. AnswersCurrent(d, p)'
    BY <1>2, <1>3, <1>4 DEF AnswersCurrent, Stage
  <2>8. Waiting(d, p)' = Waiting(d, p) /\ Queued(d, p)' = Queued(d, p)
    <3>1. \A e : e \in Queued(d, p)' <=> e \in Queued(d, p)
      BY <1>4, <2>2, <2>3, QueuedIs, QueuedWillBe
    <3> QED
      BY <1>1, <3>1 DEF Waiting, Queued
  <2>9. LatestIsLocal(d, p)'
    <3>1. LatestIsLocal(d, p)
      BY <2>1 DEF PageSettled
    <3> QED
      BY <1>1, <1>3, <1>4, <2>2, <2>3, <2>8, <3>1 DEF LatestIsLocal
  <2>10. PullApplied(d, p)'
    BY <1>2 DEF PullApplied, Stage
  <2>11. LocalCurrent(d, p)'
    BY <1>1, <1>4, <2>1, <2>8 DEF PageSettled, LocalCurrent, CloudEdit, Later
  <2> QED
    BY <2>6, <2>7, <2>9, <2>10, <2>11 DEF PageSettled
<1> QED
  BY <1>5, <1>6, ApartSettled

\* A batch is frozen as it was pending.
LEMMA PrepareSettled ==
    ASSUME TypesInv, TypesInv', Calm, Settled, NEW d \in Device, Prepare(d)
    PROVE  Settled'
<1>1. UNCHANGED <<versions, feed, answered, local, mapping, queue, fetched>>
  BY DEF Prepare, cloudVars
<1>2. /\ \A x \in Device \ {d} : file'[x] = file[x] /\ cycle'[x] = cycle[x]
      /\ cycle'[d].stage \in {"pages", "sent"}
      /\ \/ file'[d] = file[d]
         \/ /\ file[d].batch = NoBatch /\ file'[d].pending = NoOps
            /\ file'[d].batch.ops = file[d].pending
            /\ \A x \in answered[d] : x.key # file'[d].batch.key
  BY PrepareFile
<1>3. Apart(d)
  BY <1>1, <1>2 DEF Apart, Aside
<1>4. CASE file'[d] = file[d]
  BY <1>1, <1>2, <1>3, <1>4, MappedSettled, QuietSettled DEF Pulling
<1>5. CASE /\ file[d].batch = NoBatch /\ file'[d].pending = NoOps
           /\ file'[d].batch.ops = file[d].pending
           /\ \A x \in answered[d] : x.key # file'[d].batch.key
  <2>1. file'[d].cursor = file[d].cursor
    <3>1. file' = [file EXCEPT ![d] = file'[d]]
      BY <1>2 DEF TypesInv, FileTypes
    <3>2. \/ file'[d] = file[d] \/ file'[d].cursor = Seen(d).cursor
      BY Prepared DEF WriteState, TypesInv, FileTypes
    <3> QED
      BY <3>2, CalmReads
  <2>2. ASSUME NEW p \in Page PROVE PageSettled(d, p)'
    <3>1. PageSettled(d, p)
      BY DEF Settled
    <3>2. NoBatch.ops[p] = NoOp /\ NoOps[p] = NoOp /\ NoOp.kind = "none"
      BY DEF NoBatch, NoOps, NoOp
    <3>3. \A n : NotBehind(d, p, n) => NotBehind(d, p, n)'
      BY <1>1, <2>1 DEF NotBehind
    <3>4. BasesCurrent(d, p)'
      <4> HIDE DEF NotBehind
      <4> QED
        BY <1>1, <1>5, <3>1, <3>2, <3>3 DEF PageSettled, BasesCurrent
    <3>5. AnswersCurrent(d, p)'
      BY <1>1, <1>2, <1>5 DEF AnswersCurrent, Stage
    <3>6. Waiting(d, p)' = Waiting(d, p) /\ Queued(d, p)' = Queued(d, p)
      <4>1. \A e : e \in Queued(d, p)' <=> e \in Queued(d, p)
        BY <1>5, <3>2, QueuedIs, QueuedWillBe
      <4> QED
        BY <1>1, <4>1 DEF Waiting, Queued
    <3>7. LatestIsLocal(d, p)'
      BY <1>1, <1>5, <3>1, <3>2, <3>6 DEF PageSettled, LatestIsLocal
    <3>8. PullApplied(d, p)'
      BY <1>2 DEF PullApplied, Stage
    <3>9. LocalCurrent(d, p)'
      BY <1>1, <2>1, <3>1, <3>6 DEF PageSettled, LocalCurrent, CloudEdit, Later
    <3> QED
      BY <3>4, <3>5, <3>7, <3>8, <3>9 DEF PageSettled
  <2> QED
    BY <1>3, <2>2, ApartSettled
<1> QED
  BY <1>2, <1>4, <1>5

\* The answer is recorded: the frozen batch is gone, and what is pending goes on top of
\* the revision it tells.
LEMMA CommitRecorded ==
    ASSUME TypesInv, Calm, NEW d \in Device, DeviceCurrent(d), MarkCommitSucceeded(d)
    PROVE  LET r == fetched[d].response
           IN  /\ UNCHANGED <<versions, feed, answered, local, mapping, queue, fetched,
                              lineage>>
               /\ file[d].batch # NoBatch /\ r \in answered[d] /\ r.key = file[d].batch.key
               /\ cycle'[d].stage = "follow" /\ \A x \in Device \ {d} : cycle'[x] = cycle[x]
               /\ file'[d].batch = NoBatch /\ file'[d].cursor = file[d].cursor
               /\ \A x \in Device \ {d} : file'[x] = file[x]
               /\ \A p \in Page :
                     LET op == file[d].pending[p]
                         next == file'[d].pending[p]
                     IN  /\ next # NoOp => op # NoOp
                         /\ next.kind = op.kind /\ next.edit = op.edit
                         /\ next.base = IF op # NoOp /\ r.results[p].outcome # "none"
                                        THEN r.results[p].revision ELSE op.base
<1> DEFINE r == fetched[d].response
           ops == Rebased(file[d].pending, Results(d))
           f == [file[d] EXCEPT !.pending = ops, !.batch = NoBatch]
<1>1. /\ UNCHANGED <<versions, feed, answered, local, mapping, queue, fetched, lineage>>
      /\ Stage(d) = "mapped"
  BY DEF MarkCommitSucceeded, cloudVars, bookVars
<1>2. /\ file[d].batch # NoBatch /\ r \in answered[d] /\ r.key = file[d].batch.key
  BY <1>1 DEF DeviceCurrent, OneBatch
<1>3. GoTo(d, "follow") /\ file' = [file EXCEPT ![d] = f]
  <2>1. Seen(d) = file[d]
    BY CalmReads
  <2> QED
    BY <1>2, <2>1 DEF MarkCommitSucceeded, WriteState
<1>4. cycle'[d].stage = "follow" /\ \A x \in Device \ {d} : cycle'[x] = cycle[x]
  BY <1>3, GoingTo DEF TypesInv, CycleTypes, Stages
<1>5. ASSUME NEW p \in Page
      PROVE  /\ ops[p] # NoOp => file[d].pending[p] # NoOp
             /\ ops[p].kind = file[d].pending[p].kind
             /\ ops[p].edit = file[d].pending[p].edit
             /\ ops[p].base = IF file[d].pending[p] # NoOp /\ r.results[p].outcome # "none"
                              THEN r.results[p].revision
                              ELSE file[d].pending[p].base
  <2>1. file[d].pending[p] \in Op
    BY RevisionsTyped
  <2>2. ops[p] = IF file[d].pending[p] # NoOp /\ r.results[p].outcome # "none"
                 THEN [file[d].pending[p] EXCEPT !.base = r.results[p].revision]
                 ELSE file[d].pending[p]
    BY DEF Rebased, Results
  <2> DEFINE op == [file[d].pending[p] EXCEPT !.base = r.results[p].revision]
  <2>3. /\ op.base = r.results[p].revision /\ op.kind = file[d].pending[p].kind
        /\ op.edit = file[d].pending[p].edit
    BY <2>1 DEF Op
  <2> HIDE DEF ops, op
  <2> QED
    BY <2>2, <2>3 DEF op
<1> HIDE DEF ops
<1>6. /\ file'[d].pending = ops /\ file'[d].batch = NoBatch
      /\ file'[d].cursor = file[d].cursor
      /\ \A x \in Device \ {d} : file'[x] = file[x]
  <2>1. f.pending = ops /\ f.batch = NoBatch /\ f.cursor = file[d].cursor
    BY DEF TypesInv, FileTypes, File
  <2> HIDE DEF f
  <2> QED
    BY <1>3, <2>1 DEF TypesInv, FileTypes
<1> QED
  BY <1>1, <1>2, <1>4, <1>5, <1>6

\* The pages whose operation was applied or preserved, and the others, stay settled.
LEMMA MarkCommitSucceededSettled ==
    ASSUME TypesInv, TypesInv', Calm, \A x \in Device : DeviceCurrent(x), Settled,
           NEW d \in Device, MarkCommitSucceeded(d)
    PROVE  Settled'
<1> DEFINE r == fetched[d].response
           ops == file'[d].pending
<1>1. /\ UNCHANGED <<versions, feed, answered, local, mapping, queue, fetched>>
      /\ file[d].batch # NoBatch /\ r \in answered[d] /\ r.key = file[d].batch.key
      /\ cycle'[d].stage = "follow" /\ \A x \in Device \ {d} : cycle'[x] = cycle[x]
      /\ file'[d].batch = NoBatch /\ file'[d].cursor = file[d].cursor
      /\ \A x \in Device \ {d} : file'[x] = file[x]
  BY CommitRecorded
<1>2. ASSUME NEW p \in Page
      PROVE  /\ ops[p] # NoOp => file[d].pending[p] # NoOp
             /\ ops[p].kind = file[d].pending[p].kind
             /\ ops[p].edit = file[d].pending[p].edit
             /\ ops[p].base = IF file[d].pending[p] # NoOp /\ r.results[p].outcome # "none"
                              THEN r.results[p].revision
                              ELSE file[d].pending[p].base
  BY CommitRecorded
<1>3. Apart(d)
  BY <1>1 DEF Apart, Aside
<1>4. ASSUME NEW p \in Page PROVE PageSettled(d, p)'
  <2>1. PageSettled(d, p) /\ AnswerSettles(d, p, r)
    BY <1>1 DEF Settled, PageSettled, AnswersCurrent
  <2>2. NoBatch.ops[p] = NoOp /\ NoOp.kind = "none"
    BY DEF NoBatch, NoOps, NoOp
  <2>3. /\ \A n : NotBehind(d, p, n) => NotBehind(d, p, n)'
        /\ CloudEdit(p)' = CloudEdit(p)
        /\ Later(p, file[d].cursor)' = Later(p, file[d].cursor)
        /\ Waiting(d, p)' = Waiting(d, p)
    BY <1>1 DEF NotBehind, CloudEdit, Later, Waiting
  <2>4. BasesCurrent(d, p)'
    <3>1. ASSUME NEW n, n = ops[p].base, ops[p] # NoOp PROVE NotBehind(d, p, n)'
      <4>1. CASE r.results[p].outcome # "none"
        <5>1. n = r.results[p].revision
          BY <1>2, <3>1, <4>1
        <5> QED
          BY <2>1, <2>3, <4>1, <5>1 DEF AnswerSettles
      <4>2. CASE r.results[p].outcome = "none"
        <5>1. n = file[d].pending[p].base /\ file[d].pending[p] # NoOp
          BY <1>2, <3>1, <4>2
        <5> QED
          BY <2>1, <2>3, <5>1 DEF PageSettled, BasesCurrent
      <4> QED
        BY <4>1, <4>2
    <3>2. mapping[d][p] >= 1
      BY MappedSettled
    <3> HIDE DEF NotBehind
    <3> QED
      BY <1>1, <2>2, <3>1, <3>2 DEF BasesCurrent
  <2>5. AnswersCurrent(d, p)'
    <3>1. Results(d)[p].outcome # "none" => NotBehind(d, p, Results(d)[p].revision)'
      <4>1. Results(d)' = Results(d) /\ Results(d) = r.results
        BY <1>1 DEF Results
      <4> QED
        BY <2>1, <2>3, <4>1 DEF AnswerSettles
    <3> HIDE DEF NotBehind
    <3> QED
      BY <1>1, <3>1 DEF AnswersCurrent, Stage, Results
  <2>6. LatestIsLocal(d, p)'
    <3>1. LatestIsLocal(d, p) /\ file'[d].pending[p].kind = file[d].pending[p].kind
          /\ file'[d].pending[p].edit = file[d].pending[p].edit
          /\ file'[d].batch.ops[p].kind = "none"
      BY <1>1, <1>2, <2>1, <2>2 DEF PageSettled
    <3> QED
      BY <1>1, <2>3, <3>1 DEF LatestIsLocal
  <2>7. PullApplied(d, p)'
    BY <1>1 DEF PullApplied, Stage
  <2>8. LocalCurrent(d, p)'
    <3>1. LocalCurrent(d, p) /\ LatestIsLocal(d, p)
      BY <2>1 DEF PageSettled
    <3>2. file[d].pending[p].kind = "content" => Queued(d, p)' # {}
      BY <1>1, <1>2, QueuedWillBe
    <3>3. ASSUME Queued(d, p) # {}, file[d].pending[p].kind # "content", Waiting(d, p) = {}
          PROVE  local[d][p] = CloudEdit(p) \/ Later(p, file[d].cursor)
      <4>1. file[d].batch.ops[p].kind = "content"
        BY <3>3, QueuedIs
      <4>2. file[d].batch.ops[p].edit = local[d][p]
        BY <3>1, <3>3, <4>1 DEF LatestIsLocal
      <4> QED
        BY <2>1, <4>1, <4>2 DEF AnswerSettles
    <3> HIDE DEF CloudEdit, Later
    <3> QED
      BY <1>1, <2>3, <3>1, <3>2, <3>3 DEF LocalCurrent
  <2> QED
    BY <2>4, <2>5, <2>6, <2>7, <2>8 DEF PageSettled
<1> QED
  BY <1>3, <1>4, ApartSettled

\* The operation the tracker leaves in state.json has the base it had or, if there was
\* none, the mapped revision.
LEMMA TrackedBase ==
    ASSUME TypesInv, Calm, NEW d \in Device, Track(d)
    PROVE  LET q == Head(queue[d]).page
           IN  /\ file'[d].cursor = file[d].cursor
               /\ file'[d].pending[q].base = IF file[d].pending[q] = NoOp THEN mapping[d][q]
                                             ELSE file[d].pending[q].base
<1> DEFINE q == Head(queue[d]).page
           e == Head(queue[d]).edit
           op == Coalesced(file[d].pending[q], Base(d), e)
<1>1. q \in Page /\ e \in Edit
  BY TrackFirst
<1>2. file' = [file EXCEPT ![d] = [file[d] EXCEPT !.pending[q] = op]]
  BY CalmReads DEF Track
<1>3. op.base = IF file[d].pending[q] = NoOp THEN mapping[d][q]
                ELSE file[d].pending[q].base
  <2>1. file[d].pending[q] \in Op /\ Base(d) = mapping[d][q]
    <3>1. Base(d) = mapping[d][Head(queue[d]).page]
      BY CalmReads
    <3> QED
      BY <1>1, <3>1, RevisionsTyped
  <2> HIDE DEF q, e
  <2> QED
    BY <2>1 DEF Coalesced, Op
<1> HIDE DEF op, q, e
<1>4. file[d] \in File /\ file'[d] = [file[d] EXCEPT !.pending[q] = op]
      /\ file[d].pending \in [Page -> Op]
  BY <1>2 DEF TypesInv, FileTypes, File, Ops
<1>5. file'[d].cursor = file[d].cursor /\ file'[d].pending[q] = op
  BY <1>1, <1>4 DEF File
<1> QED
  BY <1>3, <1>5 DEF q

\* The tracker puts the first of what is waiting on top of the mapped revision, or of
\* what the operation was on.
LEMMA TrackSettled ==
    ASSUME TypesInv, TypesInv', Calm, Covered, Ordered, Settled, NEW d \in Device, Track(d)
    PROVE  Settled'
<1> DEFINE q == queue[d][1].page
           e == queue[d][1].edit
<1>1. /\ UNCHANGED <<versions, feed, answered, local, mapping, cycle, fetched>>
      /\ queue[d] # <<>>
  BY DEF Track, cloudVars
<1>2. /\ Head(queue[d]) = queue[d][1] /\ 1 \in DOMAIN queue[d] /\ q \in Page /\ e \in Edit
      /\ file'[d].batch = file[d].batch
      /\ file'[d].pending[q].kind = "content" /\ file'[d].pending[q].edit = e
      /\ \A p \in Page \ {q} : file'[d].pending[p] = file[d].pending[p]
      /\ \A x \in Device \ {d} : file'[x] = file[x] /\ queue'[x] = queue[x]
      /\ \A i : i \in DOMAIN queue'[d] <=> i \in Nat \ {0} /\ i + 1 \in DOMAIN queue[d]
      /\ \A i \in DOMAIN queue'[d] : queue'[d][i] = queue[d][i + 1]
  BY TrackFirst
<1>3. /\ file'[d].cursor = file[d].cursor
      /\ file'[d].pending[q].base = IF file[d].pending[q] = NoOp THEN mapping[d][q]
                                    ELSE file[d].pending[q].base
  <2>1. q = Head(queue[d]).page
    BY <1>2
  <2> HIDE DEF q
  <2> QED
    BY <2>1, TrackedBase
<1>4. Apart(d)
  BY <1>1, <1>2 DEF Apart, Aside
<1>5. DOMAIN queue[d] \subseteq Nat \ {0}
  BY EditsTyped, LenProperties
<1>6. ASSUME NEW p \in Page
      PROVE  \A i : i \in Waiting(d, p)' <=> i \in Nat \ {0} /\ i + 1 \in Waiting(d, p)
  BY <1>2 DEF Waiting
<1>7. Stage(d) \notin Pulling
  BY <1>1 DEF Ordered, DeviceOrdered, PullsUndisturbed, Pulling
<1> HIDE DEF q, e
<1>8. ASSUME NEW p \in Page PROVE PageSettled(d, p)'
  <2>1. PageSettled(d, p)
    BY DEF Settled
  <2>2. /\ \A n : NotBehind(d, p, n) => NotBehind(d, p, n)'
        /\ CloudEdit(p)' = CloudEdit(p)
        /\ Later(p, file[d].cursor)' = Later(p, file[d].cursor)
    BY <1>1, <1>3 DEF NotBehind, CloudEdit, Later
  <2>3. BasesCurrent(d, p)'
    <3>1. ASSUME NEW n, n = file'[d].pending[p].base, file'[d].pending[p] # NoOp
          PROVE  NotBehind(d, p, n)'
      <4>1. CASE n = mapping[d][p]
        <5>1. \A i \in 1..file[d].cursor : feed[i][2] <= mapping[d][feed[i][1]]
          BY DEF Covered, DeviceCovered, Covers
        <5>2. NotBehind(d, p, n)
          BY <4>1, <5>1, MappedSettled DEF NotBehind
        <5> QED
          BY <2>2, <5>2
      <4>2. CASE file[d].pending[p] # NoOp /\ n = file[d].pending[p].base
        BY <2>1, <2>2, <4>2 DEF PageSettled, BasesCurrent
      <4> QED
        BY <1>2, <1>3, <3>1, <4>1, <4>2
    <3>2. file[d].batch.ops[p] # NoOp => NotBehind(d, p, file[d].batch.ops[p].base)
      BY <2>1 DEF PageSettled, BasesCurrent
    <3> HIDE DEF NotBehind
    <3> QED
      BY <1>1, <1>2, <2>2, <3>1, <3>2, MappedSettled DEF BasesCurrent
  <2>4. AnswersCurrent(d, p)'
    <3>1. AnswersCurrent(d, p) /\ file'[d].batch = file[d].batch
      BY <1>2, <2>1 DEF PageSettled
    <3> HIDE DEF NotBehind, CloudEdit, Later
    <3>2. ASSUME NEW x, AnswerSettles(d, p, x) PROVE AnswerSettles(d, p, x)'
      BY <2>2, <3>1, <3>2 DEF AnswerSettles
    <3> QED
      BY <1>1, <2>2, <3>1, <3>2 DEF AnswersCurrent, Stage, Results
  <2>5. LatestIsLocal(d, p)'
    <3>1. LatestIsLocal(d, p)
      BY <2>1 DEF PageSettled
    <3>2. ASSUME NEW j \in Waiting(d, p)', \A i \in Waiting(d, p)' : i <= j
          PROVE  queue'[d][j].edit = local[d][p]
      <4>1. j \in Nat \ {0} /\ j + 1 \in Waiting(d, p) /\ queue'[d][j] = queue[d][j + 1]
        BY <1>2, <1>6, <3>2 DEF Waiting
      <4>2. ASSUME NEW i \in Waiting(d, p) PROVE i <= j + 1
        <5>1. i \in Nat \ {0}
          BY <1>5 DEF Waiting
        <5>2. CASE i = 1
          BY <4>1, <5>2
        <5>3. CASE i # 1
          <6>1. i - 1 \in Nat \ {0} /\ (i - 1) + 1 = i
            BY <5>1, <5>3
          <6>2. i - 1 \in Waiting(d, p)'
            BY <1>6, <6>1
          <6>3. i - 1 <= j
            BY <3>2, <6>2
          <6> QED
            BY <4>1, <5>1, <6>3
        <5> QED
          BY <5>2, <5>3
      <4> QED
        BY <3>1, <4>1, <4>2 DEF LatestIsLocal
    <3>3. ASSUME Waiting(d, p)' = {}
          PROVE  /\ file'[d].pending[p].kind = "content" =>
                       file'[d].pending[p].edit = local[d][p]
                 /\ file'[d].pending[p].kind # "content"
                       /\ file[d].batch.ops[p].kind = "content"
                    => file[d].batch.ops[p].edit = local[d][p]
      <4>1. \A i \in Waiting(d, p) : i = 1
        <5> SUFFICES ASSUME NEW i \in Waiting(d, p), i # 1 PROVE FALSE
          OBVIOUS
        <5>1. i \in Nat \ {0}
          BY <1>5 DEF Waiting
        <5>2. i - 1 \in Nat \ {0} /\ (i - 1) + 1 = i
          BY <5>1
        <5> QED
          BY <1>6, <3>3, <5>2
      <4>2. CASE p = q
        <5>1. 1 \in Waiting(d, p)
          BY <1>2, <4>2 DEF Waiting, q
        <5>2. queue[d][1].edit = local[d][p]
          BY <3>1, <4>1, <5>1 DEF LatestIsLocal
        <5> QED
          BY <1>2, <4>2, <5>2 DEF e
      <4>3. CASE p # q
        <5>1. Waiting(d, p) = {}
          BY <4>1, <4>3 DEF Waiting, q
        <5> QED
          BY <1>2, <3>1, <4>3, <5>1 DEF LatestIsLocal
      <4> QED
        BY <4>2, <4>3
    <3> QED
      BY <1>1, <1>2, <3>2, <3>3 DEF LatestIsLocal
  <2>6. PullApplied(d, p)'
    BY <1>1, <1>7 DEF PullApplied, Stage, Pulling
  <2>7. LocalCurrent(d, p)'
    <3>1. LocalCurrent(d, p)
      BY <2>1 DEF PageSettled
    <3>2. CASE p = q
      <4>1. e \in Queued(d, p)'
        BY <1>2, <3>2, QueuedWillBe
      <4> QED
        BY <4>1 DEF LocalCurrent
    <3>3. CASE p # q
      <4>1. Queued(d, p) # {} => Queued(d, p)' # {}
        <5>1. file'[d].pending[p] = file[d].pending[p] /\ file'[d].batch = file[d].batch
          BY <1>2, <3>3
        <5> QED
          BY <5>1, QueuedIs, QueuedWillBe
      <4>2. ASSUME NEW i \in Waiting(d, p) PROVE Waiting(d, p)' # {}
        <5>1. i \in Nat \ {0} /\ i # 1
          BY <1>5, <3>3 DEF Waiting, q
        <5>2. i - 1 \in Nat \ {0} /\ (i - 1) + 1 = i
          BY <5>1
        <5> QED
          BY <1>6, <5>2
      <4> HIDE DEF CloudEdit, Later
      <4> QED
        BY <1>1, <2>2, <3>1, <4>1, <4>2 DEF LocalCurrent
    <3> QED
      BY <3>2, <3>3
  <2> QED
    BY <2>3, <2>4, <2>5, <2>6, <2>7 DEF PageSettled
<1> QED
  BY <1>4, <1>8, ApartSettled

\* A save is the latest of what is waiting, and the editor is closed while changes
\* are worked on.
LEMMA SaveSettled ==
    ASSUME TypesInv, TypesInv', Ordered, Settled, NEW d \in Device, Save(d)
    PROVE  Settled'
<1> DEFINE q == editor[d].page
           e == edits + 1
           n == Len(queue[d])
<1>1. /\ UNCHANGED <<versions, feed, answered, file, mapping, cycle, fetched>>
      /\ editor[d] # Closed
  BY DEF Save, cloudVars
<1>2. /\ q \in Page /\ local'[d][q] = e
      /\ \A r \in Page \ {q} : local'[d][r] = local[d][r]
      /\ n \in Nat /\ DOMAIN queue[d] = 1..n /\ DOMAIN queue'[d] = 1..(n + 1)
      /\ \A i \in 1..n : queue'[d][i] = queue[d][i]
      /\ queue'[d][n + 1].page = q /\ queue'[d][n + 1].edit = e
      /\ \A x \in Device \ {d} : local'[x] = local[x] /\ queue'[x] = queue[x]
  BY Saved
<1> HIDE DEF q, e, n
<1>3. Apart(d)
  BY <1>1, <1>2 DEF Apart, Aside
<1>4. Stage(d) \notin Pulling
  BY <1>1 DEF Ordered, DeviceOrdered, PullsUndisturbed, Pulling
<1>5. ASSUME NEW p \in Page PROVE PageSettled(d, p)'
  <2>1. PageSettled(d, p)
    BY DEF Settled
  <2>2. BasesCurrent(d, p)' /\ AnswersCurrent(d, p)'
    <3>1. \A k : NotBehind(d, p, k) <=> NotBehind(d, p, k)'
      BY <1>1 DEF NotBehind
    <3>2. CloudEdit(p)' = CloudEdit(p)
          /\ Later(p, file[d].cursor)' = Later(p, file[d].cursor)
      BY <1>1 DEF CloudEdit, Later
    <3> HIDE DEF NotBehind, CloudEdit, Later
    <3>3. \A x : AnswerSettles(d, p, x) => AnswerSettles(d, p, x)'
      BY <1>1, <3>1, <3>2 DEF AnswerSettles
    <3> QED
      BY <1>1, <2>1, <3>1, <3>3
         DEF PageSettled, BasesCurrent, AnswersCurrent, Stage, Results
  <2>3. PullApplied(d, p)'
    BY <1>1, <1>4 DEF PullApplied, Stage, Pulling
  <2>4. CASE p = q
    <3>1. n + 1 \in Waiting(d, p)' /\ \A i \in Waiting(d, p)' : i \in 1..(n + 1)
      BY <1>2, <2>4 DEF Waiting
    <3>2. ASSUME NEW j \in Waiting(d, p)', \A i \in Waiting(d, p)' : i <= j
          PROVE  queue'[d][j].edit = local'[d][p]
      <4>1. j = n + 1
        BY <1>2, <3>1, <3>2
      <4> QED
        BY <1>2, <2>4, <4>1
    <3>3. LatestIsLocal(d, p)' /\ LocalCurrent(d, p)'
      BY <3>1, <3>2 DEF LatestIsLocal, LocalCurrent
    <3> QED
      BY <2>2, <2>3, <3>3 DEF PageSettled
  <2>5. CASE p # q
    <3>1. Waiting(d, p)' = Waiting(d, p)
      BY <1>2, <2>5 DEF Waiting
    <3>2. /\ \A i \in Waiting(d, p) : queue'[d][i] = queue[d][i]
          /\ local'[d][p] = local[d][p]
      BY <1>2, <2>5 DEF Waiting
    <3>3. LatestIsLocal(d, p)'
      BY <1>1, <2>1, <3>1, <3>2 DEF PageSettled, LatestIsLocal
    <3>4. LocalCurrent(d, p)'
      BY <1>1, <2>1, <3>1, <3>2 DEF PageSettled, LocalCurrent, CloudEdit, Later, Queued
    <3> QED
      BY <2>2, <2>3, <3>3, <3>4 DEF PageSettled
  <2> QED
    BY <2>4, <2>5
<1> QED
  BY <1>3, <1>5, ApartSettled

\* What is given to the tracker once more is the local content of the pages.
LEMMA LatestQueued ==
    ASSUME TypesInv, NEW d \in Device, QueueLatestCreatedContent(d), queue[d] = <<>>
    PROVE  /\ \A x \in Device \ {d} : queue'[x] = queue[x]
           /\ \A i \in DOMAIN queue'[d] :
                 queue'[d][i].edit = local[d][queue'[d][i].page]
<1> DEFINE E == {[page |-> p, edit |-> local[d][p]] : p \in Page}
           more == SetToSeq(E)
<1>1. queue' = [queue EXCEPT ![d] = @ \o more]
  BY DEF QueueLatestCreatedContent
<1>2. more \in Seq(E) /\ E \subseteq [page: Page, edit: Edit]
  <2>1. local[d] \in [Page -> Edit]
    BY DEF TypesInv, FileTypes
  <2>2. more \in Seq(E)
    BY <2>1, SavesAreASequence
  <2> HIDE DEF more
  <2> QED
    BY <2>1, <2>2
<1>3. \A item \in E : item.edit = local[d][item.page]
  OBVIOUS
<1> HIDE DEF E, more
<1>4. queue'[d] = more /\ \A x \in Device \ {d} : queue'[x] = queue[x]
  <2>1. <<>> \o more = more
    BY <1>2, ConcatEmptySeq
  <2> QED
    BY <1>1, <2>1 DEF TypesInv, EditorTypes
<1>5. \A i \in DOMAIN queue'[d] : queue'[d][i].edit = local[d][queue'[d][i].page]
  BY <1>2, <1>3, <1>4, ElementOfSeq, LenProperties
<1> QED
  BY <1>4, <1>5

\* The local content of every page is given to the tracker once more.
LEMMA QueueLatestSettled ==
    ASSUME TypesInv, TypesInv', Settled, NEW d \in Device,
           QueueLatestCreatedContent(d), queue[d] = <<>>
    PROVE  Settled'
<1>1. UNCHANGED <<versions, feed, answered, file, local, mapping, fetched>>
  BY DEF QueueLatestCreatedContent, cloudVars, fileVars
<1>2. cycle'[d].stage = "drain" /\ \A x \in Device \ {d} : cycle'[x] = cycle[x]
  BY DEF QueueLatestCreatedContent, GoTo, TypesInv, CycleTypes
<1>3. /\ \A x \in Device \ {d} : queue'[x] = queue[x]
      /\ \A i \in DOMAIN queue'[d] : queue'[d][i].edit = local[d][queue'[d][i].page]
  BY LatestQueued
<1>4. Apart(d)
  BY <1>1, <1>2, <1>3 DEF Apart, Aside
<1>5. ASSUME NEW p \in Page PROVE PageSettled(d, p)'
  <2>1. PageSettled(d, p) /\ Waiting(d, p) = {}
    BY DEF Settled, Waiting
  <2>2. /\ \A k : NotBehind(d, p, k) <=> NotBehind(d, p, k)'
        /\ CloudEdit(p)' = CloudEdit(p)
        /\ Later(p, file[d].cursor)' = Later(p, file[d].cursor)
        /\ Queued(d, p)' = Queued(d, p)
    BY <1>1 DEF NotBehind, CloudEdit, Later, Queued
  <2> HIDE DEF NotBehind, CloudEdit, Later, Queued
  <2>3. BasesCurrent(d, p)' /\ AnswersCurrent(d, p)'
    <3>1. \A x : AnswerSettles(d, p, x) => AnswerSettles(d, p, x)'
      BY <1>1, <2>2 DEF AnswerSettles
    <3> QED
      BY <1>1, <1>2, <2>1, <2>2, <3>1
         DEF PageSettled, BasesCurrent, AnswersCurrent, Stage, Results
  <2>4. LatestIsLocal(d, p)'
    <3>1. \A j \in Waiting(d, p)' : queue'[d][j].edit = local[d][p]
      BY <1>3 DEF Waiting
    <3> QED
      BY <1>1, <2>1, <3>1 DEF PageSettled, LatestIsLocal
  <2>5. PullApplied(d, p)'
    BY <1>2 DEF PullApplied, Stage
  <2>6. LocalCurrent(d, p)'
    BY <1>1, <2>1, <2>2 DEF PageSettled, LocalCurrent
  <2> QED
    BY <2>3, <2>4, <2>5, <2>6 DEF PageSettled
<1> QED
  BY <1>4, <1>5, ApartSettled

\* Every element of a finite set is in its sequence.
LEMMA SetToSeqHasAll ==
    ASSUME NEW S, IsFiniteSet(S), NEW x \in S
    PROVE  \E i \in 1..Len(SetToSeq(S)) : SetToSeq(S)[i] = x
<1> DEFINE n == Cardinality(S)
           f == SetToSeq(S)
<1>1. n \in Nat /\ ExistsBijection(1..n, S)
  BY FS_CardinalityType
<1>2. \E g \in [1..n -> S] : IsInjective(g)
  BY <1>1 DEF ExistsBijection, Bijection, Injection
<1>3. f \in [1..n -> S] /\ IsInjective(f)
  BY <1>2 DEF SetToSeq
<1>4. IsFiniteSet(1..n) /\ Cardinality(1..n) = n
  BY <1>1, FS_Interval
<1> HIDE DEF f, n
<1>5. f \in Injection(1..n, S)
  BY <1>3 DEF Injection, IsInjective
<1>6. f \in Surjection(1..n, S)
  BY <1>4, <1>5, FS_Injection DEF n
<1>7. f \in Seq(S) /\ Len(f) = n
  BY <1>1, <1>3, SeqDef, LenProperties
<1> QED
  BY <1>6, <1>7 DEF Surjection, f

\* What the server does with a batch: every new version is told in the feed, ...
LEMMA CommitTold ==
    ASSUME TypesInv, NEW d \in Device, ServerCommit(d), NEW p \in Page,
           ~\E x \in answered[d] : x.key = wire[d].key
    PROVE  LET op == wire[d].ops[p]
           IN  IF Applies(op, p)
               THEN /\ versions'[p] = Append(versions[p], op.edit)
                    /\ \E i \in 1..Len(feed') :
                          i > Len(feed) /\ feed'[i] = <<p, Len(versions[p]) + 1>>
               ELSE versions'[p] = versions[p]
<1> DEFINE ops == wire[d].ops
           changed == {q \in Page : Applies(ops[q], q)}
           next == [q \in Page |-> CloudRevision(q) + 1]
           events == {<<q, next[q]>> : q \in changed}
           more == SetToSeq(events)
<1>1. versions' = [q \in Page |-> IF q \in changed THEN Append(versions[q], ops[q].edit)
                                  ELSE versions[q]]
  BY DEF ServerCommit
<1>2. feed' = feed \o more
  <2>1. events = {<<q, CloudRevision(q) + 1>> : q \in changed}
    OBVIOUS
  <2> HIDE DEF events
  <2> QED
    BY <2>1 DEF ServerCommit
<1>3. next \in [Page -> Nat] /\ next[p] = Len(versions[p]) + 1
  <2>1. \A q \in Page : Len(versions[q]) \in Nat
    BY CloudTyped
  <2> QED
    BY <2>1 DEF CloudRevision
<1> HIDE DEF next
<1>4. IsFiniteSet(events) /\ events \subseteq Page \X Nat
  <2> DEFINE g == [q \in changed |-> <<q, next[q]>>]
  <2>1. IsFiniteSet(changed)
    BY DeviceAssumption, FS_Subset
  <2>2. g \in Surjection(changed, events)
    BY DEF Surjection
  <2> HIDE DEF changed, g
  <2>3. IsFiniteSet(events)
    BY <2>1, <2>2, FS_Surjection
  <2> QED
    BY <1>3, <2>3 DEF changed
<1>5. CASE Applies(ops[p], p)
  <2>1. versions'[p] = Append(versions[p], ops[p].edit)
    BY <1>1, <1>5
  <2>2. <<p, Len(versions[p]) + 1>> \in events
    BY <1>3, <1>5
  <2> HIDE DEF events
  <2>3. PICK j \in 1..Len(more) : more[j] = <<p, Len(versions[p]) + 1>>
    BY <1>4, <2>2, SetToSeqHasAll
  <2>4. more \in Seq(Page \X Nat) /\ feed \in Seq(Page \X Nat)
    BY <1>4, SetToSeqIsSeq, SeqMonotonic DEF TypesInv, CloudTypes
  <2> HIDE DEF more
  <2>5. /\ Len(feed') = Len(feed) + Len(more) /\ Len(feed) \in Nat /\ Len(more) \in Nat
        /\ \A i \in 1..Len(feed) + Len(more) :
              feed'[i] = IF i <= Len(feed) THEN feed[i] ELSE more[i - Len(feed)]
    BY <1>2, <2>4, ConcatProperties, LenProperties
  <2>6. /\ Len(feed) + j \in 1..Len(feed') /\ Len(feed) + j > Len(feed)
        /\ (Len(feed) + j) - Len(feed) = j
    BY <2>5
  <2>7. feed'[Len(feed) + j] = more[j]
    BY <2>5, <2>6
  <2> QED
    BY <1>5, <2>1, <2>3, <2>6, <2>7
<1>6. CASE ~Applies(ops[p], p)
  <2>1. versions'[p] = versions[p]
    BY <1>1, <1>6
  <2> QED
    BY <1>6, <2>1
<1> QED
  BY <1>5, <1>6

\* ... so the feed stays complete.
LEMMA CommitGrows ==
    ASSUME TypesInv, TypesInv', FeedComplete, NEW d \in Device, ServerCommit(d)
    PROVE  CloudGrows /\ FeedComplete'
<1>1. FeedGrows /\ Len(feed) \in Nat /\ Len(feed') \in Nat
  BY Committed, EventsTyped DEF FeedGrows, TypesInv, CloudTypes, CycleTypes
<1>2. ASSUME NEW p \in Page
      PROVE  \/ versions'[p] = versions[p]
             \/ /\ Len(versions'[p]) = Len(versions[p]) + 1
                /\ \A i \in 1..Len(versions[p]) : versions'[p][i] = versions[p][i]
                /\ \E i \in 1..Len(feed') :
                      i > Len(feed) /\ feed'[i] = <<p, Len(versions'[p])>>
  <2>1. CASE \E x \in answered[d] : x.key = wire[d].key
    BY <2>1 DEF ServerCommit, cloudVars
  <2>2. CASE ~\E x \in answered[d] : x.key = wire[d].key
    <3>1. versions[p] \in Seq(Edit) /\ wire[d].ops[p].edit \in Edit
      BY EditsTyped DEF TypesInv, CloudTypes
    <3>2. LET v == Append(versions[p], wire[d].ops[p].edit)
          IN  Len(v) = Len(versions[p]) + 1
              /\ \A i \in 1..Len(versions[p]) : v[i] = versions[p][i]
      BY <3>1, AppendProperties
    <3> QED
      BY <2>2, <3>2, CommitTold
  <2> QED
    BY <2>1, <2>2
<1>3. CloudGrows
  BY <1>1, <1>2 DEF CloudGrows
<1>4. ASSUME NEW p \in Page, NEW n \in 2..Len(versions'[p])
      PROVE  \E i \in 1..Len(feed') : feed'[i] = <<p, n>>
  <2>1. Len(versions[p]) \in Nat
    BY CloudTyped
  <2>2. ASSUME n \in 2..Len(versions[p])
        PROVE  \E i \in 1..Len(feed') : feed'[i] = <<p, n>>
    <3>1. PICK i \in 1..Len(feed) : feed[i] = <<p, n>>
      BY <2>2 DEF FeedComplete
    <3> QED
      BY <1>1, <3>1 DEF FeedGrows
  <2>3. CASE versions'[p] = versions[p]
    BY <1>4, <2>2, <2>3
  <2>4. CASE Len(versions'[p]) = Len(versions[p]) + 1
    <3>1. n \in 2..Len(versions[p]) \/ n = Len(versions'[p])
      BY <1>4, <2>1, <2>4
    <3>2. CASE n = Len(versions'[p])
      <4>1. versions'[p] # versions[p]
        BY <2>1, <2>4
      <4> QED
        BY <1>2, <3>2, <4>1
    <3> QED
      BY <2>2, <3>1, <3>2
  <2> QED
    BY <1>2, <2>3, <2>4
<1> QED
  BY <1>3, <1>4 DEF FeedComplete

\* A new answer tells a revision no older than what the cursor has passed, and what
\* was preserved as a conflict met a change that is still to be listed.
LEMMA CommitSettles ==
    ASSUME TypesInv, TypesInv', Covered, Settled, NEW d \in Device, DeviceCurrent(d),
           ServerCommit(d), ~\E x \in answered[d] : x.key = wire[d].key,
           NEW p \in Page, NEW r \in answered'[d] \ answered[d]
    PROVE  AnswerSettles(d, p, r)'
<1> DEFINE op == wire[d].ops[p]
           n == Len(versions[p])
<1>1. file' = file /\ wire[d] = file[d].batch /\ CloudGrows
  BY CommitGrows DEF ServerCommit, fileVars, DeviceCurrent, OneBatch, Settled
<1>2. /\ n \in Nat \ {0} /\ Len(feed) \in Nat /\ CloudEdit(p) = versions[p][n]
      /\ file[d].cursor \in Nat /\ file[d].cursor <= Len(feed)
      /\ op.base \in Nat /\ op.base <= n /\ op.edit \in Edit /\ versions[p] \in Seq(Edit)
  <2>1. RevisionsExist(d, p)
    BY DEF DeviceCurrent, PageCurrent
  <2>2. op.base \in Nat /\ op.base <= n
    BY <1>1, <2>1, RevisionsTyped DEF RevisionsExist
  <2> HIDE DEF op, n
  <2> QED
    BY <2>2, CloudTyped, SeenTypes, FileParts, EditsTyped
       DEF op, n, TypesInv, CloudTypes
<1>3. /\ Len(versions'[p]) \in Nat /\ Len(versions'[p]) >= n
      /\ CloudEdit(p)' = versions'[p][Len(versions'[p])]
  <2>1. Len(versions'[p]) = n \/ Len(versions'[p]) = n + 1
    BY <1>1 DEF CloudGrows
  <2> HIDE DEF n
  <2>2. Len(versions'[p]) \in Nat /\ Len(versions'[p]) >= n
    BY <1>2, <2>1
  <2> QED
    BY <2>2 DEF CloudEdit, Last
<1>4. r.results[p].outcome # "none" => NotBehind(d, p, r.results[p].revision)'
  <2> SUFFICES ASSUME r.results[p].outcome # "none"
               PROVE  NotBehind(d, p, r.results[p].revision)'
    OBVIOUS
  <2>1. r.results[p].revision = Len(versions'[p])
    BY CommittedPage
  <2>2. \A i \in 1..file[d].cursor : feed'[i] = feed[i]
                                     /\ (feed[i][1] = p => feed[i][2] <= n)
    <3>1. \A i \in 1..file[d].cursor : i \in 1..Len(feed)
      BY <1>2
    <3> QED
      BY <1>1, <3>1 DEF CloudGrows, FeedGrows, Covered, FeedReal
  <2>3. \A i \in 1..file[d].cursor : feed[i][2] \in Nat
    <3>1. \A i \in 1..file[d].cursor : i \in 1..Len(feed)
      BY <1>2
    <3> QED
      BY <3>1, EventsTyped DEF TypesInv, CloudTypes
  <2> HIDE DEF n
  <2> QED
    BY <1>1, <1>2, <1>3, <2>1, <2>2, <2>3 DEF NotBehind
<1>5. ASSUME op.kind = "content"
      PROVE  op.edit = CloudEdit(p)' \/ Later(p, file[d].cursor)'
  <2>1. CASE Applies(op, p)
    <3>1. versions'[p] = Append(versions[p], op.edit)
      BY <2>1, CommitTold
    <3> HIDE DEF op
    <3>2. Len(versions'[p]) = n + 1 /\ versions'[p][n + 1] = op.edit
      BY <1>2, <3>1, AppendProperties
    <3> QED
      BY <1>3, <3>2
  <2>2. CASE op.edit = CloudEdit(p)
    <3>1. versions'[p] = versions[p]
      BY <2>2, CommitTold DEF Applies
    <3> QED
      BY <2>2, <3>1 DEF CloudEdit
  <2>3. CASE op.edit # CloudEdit(p) /\ op.base # n
    <3>1. NotBehind(d, p, op.base)
      <4>1. op # NoOp
        BY <1>5 DEF NoOp
      <4> QED
        BY <1>1, <4>1 DEF Settled, PageSettled, BasesCurrent
    <3> HIDE DEF op
    <3>2. n \in 2..n /\ op.base < n
      BY <1>2, <2>3, <3>1 DEF NotBehind
    <3>3. PICK i \in 1..Len(feed) : feed[i] = <<p, n>>
      BY <3>2 DEF Settled, FeedComplete
    <3>4. i > file[d].cursor
      <4>1. ~(i \in 1..file[d].cursor)
        BY <1>2, <3>1, <3>2, <3>3 DEF NotBehind
      <4> QED
        BY <1>2, <4>1
    <3>5. Later(p, file[d].cursor)
      BY <3>3, <3>4 DEF Later
    <3> QED
      BY <1>1, <1>2, <3>5, FeedKept
  <2> QED
    BY <1>5, <2>1, <2>2, <2>3 DEF Applies, CloudRevision
<1> HIDE DEF NotBehind, CloudEdit, Later, n
<1> QED
  BY <1>1, <1>4, <1>5 DEF AnswerSettles

\* A commit of one device leaves the others a change to list.
LEMMA ServerCommitSettled ==
    ASSUME TypesInv, TypesInv', Covered, \A x \in Device : DeviceCurrent(x), Settled,
           NEW d \in Device, ServerCommit(d)
    PROVE  Settled'
<1>1. /\ UNCHANGED <<file, local, mapping, queue>> /\ wire[d] # NoBatch
      /\ wire[d] = file[d].batch
  BY DEF ServerCommit, fileVars, DeviceCurrent, OneBatch
<1>2. CloudGrows /\ FeedComplete'
  BY CommitGrows DEF Settled
<1>3. /\ \A x \in Device \ {d} : answered'[x] = answered[x]
      /\ \A r \in answered'[d] \ answered[d] : r.key = wire[d].key
  BY Committed DEF TypesInv, CycleTypes
<1>4. /\ \A x \in Device \ {d} : cycle'[x] = cycle[x] /\ fetched'[x] = fetched[x]
      /\ \/ cycle'[d].stage = cycle[d].stage
         \/ cycle'[d].stage = "answered"
  BY GoingTo DEF ServerCommit, TypesInv, CycleTypes, Stages
<1>5. Aside(d)
  BY <1>1, <1>3, <1>4 DEF Aside
<1>6. cycle[d].stage \notin Pulling \union {"follow"}
  BY <1>1 DEF DeviceCurrent, OneBatch, Covered, DeviceCovered, Stage, Pulling
<1>7. ASSUME NEW p \in Page PROVE PageSettled(d, p)'
  <2>1. PageSettled(d, p)
    BY DEF Settled
  <2>2. /\ \A n : NotBehind(d, p, n) => NotBehind(d, p, n)'
        /\ file[d].cursor \in Nat
        /\ \A n \in Nat : Later(p, n) => Later(p, n)'
        /\ \/ CloudEdit(p)' = CloudEdit(p)
           \/ Later(p, file[d].cursor)'
    BY <1>1, <1>2, FeedKept, SeenTypes, FileParts
  <2>3. BasesCurrent(d, p)'
    <3> HIDE DEF NotBehind
    <3> QED
      BY <1>1, <2>1, <2>2 DEF PageSettled, BasesCurrent
  <2>4. AnswersCurrent(d, p)'
    <3>1. ASSUME file[d].batch # NoBatch, NEW r \in answered'[d], r.key = file[d].batch.key
          PROVE  AnswerSettles(d, p, r)'
      <4>1. CASE r \in answered[d]
        <5>1. AnswerSettles(d, p, r)
          BY <2>1, <3>1, <4>1 DEF PageSettled, AnswersCurrent
        <5> HIDE DEF NotBehind, CloudEdit, Later
        <5> QED
          BY <1>1, <2>2, <5>1 DEF AnswerSettles
      <4>2. CASE r \notin answered[d]
        <5>1. ~\E x \in answered[d] : x.key = wire[d].key
          <6>1. (\E x \in answered[d] : x.key = wire[d].key) => answered' = answered
            BY DEF ServerCommit, cloudVars
          <6> QED
            BY <3>1, <4>2, <6>1
        <5> QED
          BY <3>1, <4>2, <5>1, CommitSettles
      <4> QED
        BY <4>1, <4>2
    <3> HIDE DEF AnswerSettles
    <3> QED
      BY <1>1, <1>4, <1>6, <3>1 DEF AnswersCurrent, Stage
  <2>5. LatestIsLocal(d, p)'
    BY <1>1, <2>1 DEF PageSettled, LatestIsLocal, Waiting
  <2>6. PullApplied(d, p)'
    BY <1>4, <1>6 DEF PullApplied, Stage, Pulling
  <2>7. LocalCurrent(d, p)'
    <3>1. LocalCurrent(d, p) /\ Waiting(d, p)' = Waiting(d, p) /\ Queued(d, p)' = Queued(d, p)
      BY <1>1, <2>1 DEF PageSettled, Waiting, Queued
    <3> HIDE DEF CloudEdit, Later
    <3> QED
      BY <1>1, <2>2, <3>1 DEF LocalCurrent
  <2> QED
    BY <2>3, <2>4, <2>5, <2>6, <2>7 DEF PageSettled
<1> QED
  BY <1>2, <1>5, <1>7, AsideSettled

\* Each step of an orderly scenario keeps the devices settled ...
LEMMA StepSettled ==
    TypesInv /\ TypesInv' /\ CalmInv /\ CoveredInv /\ OrderedInv /\ CurrentInv
       /\ SettledInv /\ [Next]_vars => SettledInv'
<1> SUFFICES ASSUME TypesInv, TypesInv', CalmInv, CoveredInv, OrderedInv, CurrentInv,
                    SettledInv, [Next]_vars, Orderly'
             PROVE  Settled'
  BY DEF SettledInv
<1>1. Orderly
  BY ScenarioKept DEF Orderly
<1>2. /\ Calm /\ Covered /\ Ordered /\ Settled /\ ~budget.parallel
      /\ \A x \in Device : DeviceCurrent(x)
  BY <1>1 DEF CalmInv, CoveredInv, OrderedInv, CurrentInv, SettledInv, Orderly
<1>3. ~Overlap
  BY <1>2 DEF Overlap, Calm
<1>4. CASE UNCHANGED vars
  <2>1. UNCHANGED <<versions, feed, answered, file, local, mapping, queue, cycle, fetched>>
    BY <1>4 DEF vars, cloudVars, fileVars, appVars
  <2>2. CloudGrows
    BY <2>1 DEF CloudGrows, FeedGrows, TypesInv, CloudTypes
  <2>3. ASSUME NEW x \in Device, NEW p \in Page PROVE PageSettled(x, p)'
    BY <1>2, <2>1, <2>2, PageKept, MappedSettled DEF Settled
  <2> QED
    BY <1>2, <2>1, <2>3 DEF Settled, FeedComplete
<1>5. CASE Next
  <2> PICK d \in Device :
         \/ Edits(d) \/ Tracks(d) \/ StartCycle(d) \/ HoldState(d)
         \/ TrackerDone(d) /\ (Pushes(d) \/ Pulls(d))
         \/ ServerCommit(d) \/ LoseConnection(d) \/ Crash(d)
    BY <1>5 DEF Next
  <2>1. CASE Edits(d)
    BY <1>1, <1>2, <2>1, CycleSettled, SaveSettled DEF Edits
  <2>2. CASE Tracks(d) \/ HoldState(d)
    BY <1>2, <1>3, <2>2, TrackSettled DEF Tracks, ReadMapping, ReadState, HoldState
  <2>3. CASE StartCycle(d) \/ LoseConnection(d) \/ Crash(d)
    BY <1>1, <1>2, <2>3, CycleSettled
  <2>4. CASE TrackerDone(d) /\ Pushes(d)
    BY <1>1, <1>2, <2>4, PrepareSettled, UpdateRemoteSettled, MarkCommitSucceededSettled,
       QueueMetadataSettled, CycleSettled, ReplaceMappingsSettled, QueueLatestSettled
       DEF Pushes, TrackerDone
  <2>5. CASE TrackerDone(d) /\ Pulls(d)
    BY <1>2, <2>5, ListedSettled, ApplyIfSafeSettled, RebuildMappingsSettled,
       MarkChangesAppliedSettled DEF Pulls
  <2>6. CASE ServerCommit(d)
    BY <1>2, <2>6, ServerCommitSettled
  <2> QED
    BY <2>1, <2>2, <2>3, <2>4, <2>5, <2>6
<1> QED
  BY <1>4, <1>5

\* ... so they are settled in every state.
LEMMA SettledInvariant == Spec => []SettledInv
  BY InitSettled, StepSettled, TypesInvariant, CalmInvariant, CoveredInvariant,
     OrderedInvariant, CurrentInvariant, PTL DEF Spec

\* In an orderly scenario a device with nothing of a page to send, to track or to list
\* has the cloud's content of the page.
THEOREM DevicesCatchUp == Spec => []CaughtUpIsCurrent
<1>1. TypesInv /\ SettledInv => CaughtUpIsCurrent
  <2> SUFFICES ASSUME TypesInv, Settled, NEW d \in Device, NEW p \in Page,
                      Queued(d, p) = {}, \A i \in DOMAIN queue[d] : queue[d][i].page # p,
                      \A i \in (file[d].cursor + 1)..Len(feed) : feed[i][1] # p
               PROVE  local[d][p] = CloudEdit(p)
    BY DEF SettledInv, CaughtUpIsCurrent, CaughtUp
  <2>1. Waiting(d, p) = {}
    BY DEF Waiting
  <2>2. ~Later(p, file[d].cursor)
    <3>1. file[d].cursor \in Nat /\ Len(feed) \in Nat
      BY CloudTyped, SeenTypes, FileParts
    <3> QED
      BY <3>1 DEF Later
  <2> QED
    BY <2>1, <2>2 DEF Settled, PageSettled, LocalCurrent
<1> QED
  BY <1>1, TypesInvariant, SettledInvariant, PTL

-----------------------------------------------------------------------------
(* Orderly scenarios: what a device has was built upon the revision a page is *)
(* mapped to, unless it is mapped to one whose content it was not given.      *)

\* Content e of a page is its n-th version or was built upon it.
Knows(p, n, e) == n \in 1..Len(versions[p]) /\ Follows(versions[p][n], e)

\* Every version of a page was built upon the earlier ones.
Chain(p) == \A i, j \in 1..Len(versions[p]) :
    i <= j => Follows(versions[p][i], versions[p][j])

\* An operation on a page was built upon the revision it gives as its base.
OpKnown(p, op) == op # NoOp => op.kind = "content" /\ Knows(p, op.base, op.edit)

\* What a device has of a page was built upon the revision the page is mapped to,
\* and what it sends upon the revision it gives as its base.
WorkKnown(d, p) ==
    /\ Knows(p, mapping[d][p], local[d][p])
    /\ \A i \in Waiting(d, p) : Knows(p, mapping[d][p], queue[d][i].edit)
    /\ OpKnown(p, file[d].pending[p]) /\ OpKnown(p, file[d].batch.ops[p])

\* What was made since the batch was frozen was built upon it.
BatchFirst(d, p) == file[d].batch.ops[p] # NoOp =>
    /\ Follows(file[d].batch.ops[p].edit, local[d][p])
    /\ file[d].pending[p] # NoOp =>
          Follows(file[d].batch.ops[p].edit, file[d].pending[p].edit)
    /\ \A i \in Waiting(d, p) : Follows(file[d].batch.ops[p].edit, queue[d][i].edit)

\* The answer to the frozen batch tells the revision its content has become.
AnswerKnown(d, p, x) ==
    /\ x.results[p].outcome # "conflict"
    /\ x.results[p].outcome = "applied" =>
          /\ file[d].batch.ops[p] # NoOp
          /\ x.results[p].revision \in 1..Len(versions[p])
          /\ versions[p][x.results[p].revision] = file[d].batch.ops[p].edit

\* Every answer to the frozen batch does so, and none that is followed up was a conflict.
AnswersKnown(d, p) ==
    /\ file[d].batch # NoBatch => \A x \in answered[d] :
          x.key = file[d].batch.key => AnswerKnown(d, p, x)
    /\ Stage(d) = "follow" => Results(d)[p].outcome # "conflict"

\* A bootstrap is no older than the mapping it is compared with.
PullKnown(d, p) == Stage(d) = "apply" => mapping[d][p] <= fetched[d].snapshot[p]

\* The parts of the invariant of one device and one page, ...
PageKnown(d, p) ==
    /\ WorkKnown(d, p) /\ BatchFirst(d, p) /\ AnswersKnown(d, p) /\ PullKnown(d, p)

\* ... of one page, ...
Known(p) == Chain(p) /\ \A d \in Device : PageKnown(d, p)

\* For the pages P.
KnownInv(P) == Orderly => \A p \in P : kept[p] = {} => Known(p)

\* In the beginning each page has one version, which every device has.
LEMMA InitKnown ==
    ASSUME NEW P \in SUBSET Page
    PROVE  Init => KnownInv(P)
<1> SUFFICES ASSUME Init, NEW p \in P PROVE Known(p)
  BY DEF KnownInv
<1>1. versions[p] = <<0>> /\ Len(versions[p]) = 1 /\ versions[p][1] = 0
  BY DEF Init
<1>2. Chain(p) /\ Knows(p, 1, 0)
  BY <1>1 DEF Chain, Knows, Follows
<1>3. ASSUME NEW d \in Device PROVE PageKnown(d, p)
  <2>1. /\ mapping[d][p] = 1 /\ local[d][p] = 0 /\ queue[d] = <<>>
        /\ file[d].pending[p] = NoOp /\ file[d].batch = NoBatch /\ NoBatch.ops[p] = NoOp
        /\ Stage(d) = "idle"
    BY DEF Init, NoOps, NoBatch, Stage, Idle
  <2>2. Waiting(d, p) = {}
    BY <2>1 DEF Waiting
  <2> QED
    BY <1>2, <2>1, <2>2
       DEF PageKnown, WorkKnown, OpKnown, BatchFirst, AnswersKnown, PullKnown
<1> QED
  BY <1>2, <1>3 DEF Known

\* What was built upon what, and which versions a page has, stays true.
KnowledgeKept(p) ==
    /\ \A u, v \in Edit : Follows(u, v) => Follows(u, v)'
    /\ \A i \in 1..Len(versions[p]) : i \in 1..Len(versions'[p])
                                      /\ versions'[p][i] = versions[p][i]

\* Content that is a version or was built upon one stays so.
LEMMA KnowsKept ==
    ASSUME TypesInv, NEW p \in Page, KnowledgeKept(p)
    PROVE  \A n, e : e \in Edit /\ Knows(p, n, e) => Knows(p, n, e)'
<1>1. \A i \in 1..Len(versions[p]) : versions[p][i] \in Edit
  BY CloudTyped
<1> QED
  BY <1>1 DEF KnowledgeKept, Knows, Follows

\* What a device has of a page is known still when none of it changes.
LEMMA WorkKept ==
    ASSUME TypesInv, NEW p \in Page, KnowledgeKept(p), NEW x \in Device, PageKnown(x, p),
           mapping'[x][p] = mapping[x][p], local'[x][p] = local[x][p],
           queue'[x] = queue[x], file'[x].pending[p] = file[x].pending[p],
           file'[x].batch = file[x].batch
    PROVE  WorkKnown(x, p)' /\ BatchFirst(x, p)'
<1>1. /\ \A n, e : e \in Edit /\ Knows(p, n, e) => Knows(p, n, e)'
      /\ \A u, v \in Edit : Follows(u, v) => Follows(u, v)'
      /\ \A i \in 1..Len(versions[p]) : i \in 1..Len(versions'[p])
                                        /\ versions'[p][i] = versions[p][i]
  BY KnowsKept DEF KnowledgeKept
<1>2. /\ local[x][p] \in Edit /\ file[x].pending[p].edit \in Edit
      /\ file[x].batch.ops[p].edit \in Edit
      /\ \A i \in Waiting(x, p) : queue[x][i].edit \in Edit
  BY EditsTyped DEF Waiting
<1>3. Waiting(x, p)' = Waiting(x, p)
  BY DEF Waiting
<1> HIDE DEF Knows, Follows
<1>4. WorkKnown(x, p)'
  <2>1. WorkKnown(x, p)
    BY DEF PageKnown
  <2>2. \A i \in Waiting(x, p) : Knows(p, mapping[x][p], queue[x][i].edit)'
    BY <1>1, <1>2, <2>1 DEF WorkKnown, Waiting
  <2>3. OpKnown(p, file[x].pending[p])' /\ OpKnown(p, file[x].batch.ops[p])'
    BY <1>1, <1>2, <2>1 DEF WorkKnown, OpKnown
  <2>4. Knows(p, mapping[x][p], local[x][p])'
    BY <1>1, <1>2, <2>1 DEF WorkKnown
  <2> QED
    BY <1>3, <2>2, <2>3, <2>4 DEF WorkKnown
<1>5. BatchFirst(x, p)'
  <2>1. BatchFirst(x, p)
    BY DEF PageKnown
  <2> QED
    BY <1>1, <1>2, <1>3, <2>1 DEF BatchFirst
<1> QED
  BY <1>4, <1>5

\* ... and so is what it follows up and what it pulls.
LEMMA PageKnownKept ==
    ASSUME TypesInv, NEW p \in Page, KnowledgeKept(p), NEW x \in Device, PageKnown(x, p),
           mapping'[x][p] = mapping[x][p], local'[x][p] = local[x][p],
           queue'[x] = queue[x], file'[x].pending[p] = file[x].pending[p],
           file'[x].batch = file[x].batch, answered'[x] = answered[x],
           cycle'[x].stage = "follow" =>
              \/ cycle[x].stage = "follow" /\ fetched'[x] = fetched[x]
              \/ fetched'[x].response.results[p].outcome # "conflict",
           cycle'[x].stage = "apply" => mapping[x][p] <= fetched'[x].snapshot[p]
    PROVE  PageKnown(x, p)'
<1>1. /\ WorkKnown(x, p)' /\ BatchFirst(x, p)'
      /\ \A i \in 1..Len(versions[p]) : i \in 1..Len(versions'[p])
                                        /\ versions'[p][i] = versions[p][i]
  BY WorkKept DEF KnowledgeKept
<1>2. AnswersKnown(x, p)'
  <2>1. AnswersKnown(x, p)
    BY DEF PageKnown
  <2>2. ASSUME NEW y, AnswerKnown(x, p, y) PROVE AnswerKnown(x, p, y)'
    BY <1>1, <2>2 DEF AnswerKnown
  <2> QED
    BY <2>1, <2>2 DEF AnswersKnown, Stage, Results
<1>3. PullKnown(x, p)'
  BY DEF PullKnown, Stage
<1> QED
  BY <1>1, <1>2, <1>3 DEF PageKnown

\* It is enough to look at the device that takes a step.
LEMMA AsideKnown ==
    ASSUME TypesInv, NEW p \in Page, Known(p), KnowledgeKept(p),
           NEW d \in Device, Aside(d), Chain(p)', PageKnown(d, p)'
    PROVE  Known(p)'
<1>1. ASSUME NEW x \in Device \ {d} PROVE PageKnown(x, p)'
  <2>1. PageKnown(x, p)
    BY DEF Known
  <2>2. cycle[x].stage = "apply" => mapping[x][p] <= fetched[x].snapshot[p]
    BY <2>1 DEF PageKnown, PullKnown, Stage
  <2> QED
    BY <2>1, <2>2, PageKnownKept DEF Aside
<1> QED
  BY <1>1 DEF Known

\* ... where the cloud and the lineage of edits are left alone, at its page only ...
LEMMA ApartKnown ==
    ASSUME TypesInv, NEW p \in Page, Known(p), NEW d \in Device, Apart(d),
           UNCHANGED lineage, PageKnown(d, p)'
    PROVE  Known(p)'
<1>1. KnowledgeKept(p)
  BY DEF KnowledgeKept, Follows, Apart
<1>2. Chain(p)'
  BY DEF Known, Chain, Follows, Apart
<1> QED
  BY <1>1, <1>2, AsideKnown DEF Apart

\* ... and where the page is as well, at the stage it goes on to.
LEMMA QuietKnown ==
    ASSUME TypesInv, NEW p \in Page, Known(p), NEW d \in Device, Apart(d),
           UNCHANGED lineage,
           mapping'[d][p] = mapping[d][p], local'[d][p] = local[d][p],
           queue'[d] = queue[d], file'[d].pending[p] = file[d].pending[p],
           file'[d].batch = file[d].batch,
           cycle'[d].stage = "follow" =>
              cycle[d].stage = "follow" /\ fetched'[d] = fetched[d],
           cycle'[d].stage = "apply" =>
              \/ cycle[d].stage = "apply" /\ fetched'[d] = fetched[d]
              \/ mapping[d][p] <= fetched'[d].snapshot[p]
    PROVE  Known(p)'
<1>1. KnowledgeKept(p) /\ answered'[d] = answered[d]
  BY DEF KnowledgeKept, Follows, Apart
<1>2. PageKnown(d, p)
  BY DEF Known
<1>3. cycle'[d].stage = "apply" => mapping[d][p] <= fetched'[d].snapshot[p]
  BY <1>2 DEF PageKnown, PullKnown, Stage
<1>4. PageKnown(d, p)'
  BY <1>1, <1>2, <1>3, PageKnownKept
<1> QED
  BY <1>4, ApartKnown

\* The editor opens and closes, pages are added, a cycle begins, ends or goes on.
LEMMA CycleKnown ==
    ASSUME TypesInv, Orderly, NEW p \in Page, Known(p), NEW d \in Device,
           \/ (\E q \in Page : Open(d, q)) \/ Close(d) \/ AddPage(d)
           \/ StartCycle(d) \/ UploadPages(d) \/ PushAgain(d)
           \/ LoseConnection(d) \/ Crash(d)
    PROVE  Known(p)'
<1>1. UNCHANGED <<versions, feed, answered, file, local, mapping, lineage>>
  BY DEF Open, Close, AddPage, StartCycle, UploadPages, PushAgain, LoseConnection, Crash,
         cloudVars, fileVars, bookVars
<1>2. queue'[d] = queue[d] /\ \A x \in Device \ {d} : queue'[x] = queue[x]
  BY DEF Open, Close, AddPage, StartCycle, UploadPages, PushAgain, LoseConnection, Crash,
         Orderly, TypesInv, EditorTypes
<1>3. \A x \in Device \ {d} : fetched'[x] = fetched[x]
  BY DEF Open, Close, AddPage, StartCycle, UploadPages, PushAgain, LoseConnection, Crash,
         TypesInv, CycleTypes
<1>4. /\ \A x \in Device \ {d} : cycle'[x] = cycle[x]
      /\ \/ cycle'[d].stage = cycle[d].stage /\ fetched' = fetched
         \/ cycle'[d].stage \notin Pulling \union {"follow"}
  <2>1. CASE (\E q \in Page : Open(d, q)) \/ Close(d) \/ AddPage(d)
    BY <2>1 DEF Open, Close, AddPage
  <2>2. CASE StartCycle(d) \/ PushAgain(d)
    BY <2>2 DEF StartCycle, PushAgain, TypesInv, CycleTypes, Pulling
  <2>3. CASE UploadPages(d)
    BY <2>3, GoingTo, Stopping DEF UploadPages, TypesInv, CycleTypes, Stages, Pulling
  <2>4. CASE LoseConnection(d) \/ Crash(d)
    BY <2>4, Stopping DEF LoseConnection, Crash, TypesInv, CycleTypes, Pulling
  <2> QED
    BY <2>1, <2>2, <2>3, <2>4
<1>5. Apart(d)
  BY <1>1, <1>2, <1>3, <1>4 DEF Apart, Aside
<1> QED
  BY <1>1, <1>2, <1>4, <1>5, QuietKnown DEF Pulling

\* Where a page is mapped to what it was mapped to, nothing is lost either.
LEMMA MapsKnown ==
    ASSUME TypesInv, NEW p \in Page, Known(p), NEW d \in Device,
           ReplaceMappings(d) \/ RebuildMappings(d), mapping'[d][p] = mapping[d][p]
    PROVE  Known(p)'
<1>1. UNCHANGED <<versions, feed, answered, file, local, queue, fetched, lineage>>
  BY DEF ReplaceMappings, RebuildMappings, cloudVars, bookVars
<1>2. /\ cycle'[d].stage \notin {"follow", "apply"}
      /\ \A x \in Device \ {d} : cycle'[x] = cycle[x]
  BY GoingTo DEF ReplaceMappings, RebuildMappings, TypesInv, CycleTypes, Stages
<1>3. \A x \in Device \ {d} : mapping'[x] = mapping[x]
  BY DEF ReplaceMappings, RebuildMappings, TypesInv, FileTypes
<1>4. Apart(d)
  BY <1>1, <1>2, <1>3 DEF Apart, Aside
<1> QED
  BY <1>1, <1>2, <1>4, QuietKnown

\* A bootstrap is as new as the mapping, and the pull goes on from it.
LEMMA ListedKnown ==
    ASSUME TypesInv, NEW p \in Page, Known(p), NEW d \in Device,
           ListChanges(d) \/ Bootstrap(d)
    PROVE  Known(p)'
<1>1. UNCHANGED <<versions, feed, answered, file, local, mapping, queue, lineage>>
  BY DEF ListChanges, Bootstrap, cloudVars, fileVars, bookVars
<1>2. /\ \A x \in Device \ {d} : cycle'[x] = cycle[x] /\ fetched'[x] = fetched[x]
      /\ cycle'[d].stage # "follow"
      /\ cycle'[d].stage = "apply" => fetched'[d].snapshot = Snapshot
  <2>1. CASE ListChanges(d)
    BY <2>1, GoingTo, Stopping DEF ListChanges, TypesInv, CycleTypes, Stages
  <2>2. CASE Bootstrap(d)
    BY <2>2, GoingTo DEF Bootstrap, TypesInv, CycleTypes, Stages
  <2> QED
    BY <2>1, <2>2
<1>3. mapping[d][p] <= Snapshot[p]
  <2>1. mapping[d][p] \in 1..Len(versions[p])
    BY DEF Known, PageKnown, WorkKnown, Knows
  <2> QED
    BY <2>1, SnapshotTypes, CloudTyped DEF TypesInv
<1>4. Apart(d)
  BY <1>1, <1>2 DEF Apart, Aside
<1> HIDE DEF Snapshot
<1> QED
  BY <1>1, <1>2, <1>3, <1>4, QuietKnown

\* The cursor moves on, or metadata follow a conflict: the page's content is left
\* alone.
LEMMA FilesKnown ==
    ASSUME TypesInv, Calm, NEW p \in Page, Known(p), NEW d \in Device,
           MarkChangesApplied(d) \/ QueueMetadata(d)
    PROVE  Known(p)'
<1>1. UNCHANGED <<versions, feed, answered, local, mapping, queue, lineage>>
  BY DEF MarkChangesApplied, QueueMetadata, cloudVars, bookVars
<1>2. /\ \A x \in Device \ {d} : cycle'[x] = cycle[x] /\ fetched'[x] = fetched[x]
      /\ cycle'[d].stage \in {"idle", "push"}
  BY GoingTo, Stopping DEF MarkChangesApplied, QueueMetadata, TypesInv, CycleTypes, Stages
<1>3. /\ \A x \in Device \ {d} : file'[x] = file[x]
      /\ file'[d].batch = file[d].batch /\ file'[d].pending[p] = file[d].pending[p]
  <2>1. CASE MarkChangesApplied(d)
    BY <2>1, MarkChangesAppliedFile
  <2>2. CASE QueueMetadata(d)
    <3>1. Results(d)[p].outcome # "conflict"
      BY <2>2 DEF QueueMetadata, Known, PageKnown, AnswersKnown
    <3> QED
      BY <2>2, <3>1, QueueMetadataFile
  <2> QED
    BY <2>1, <2>2
<1>4. Apart(d)
  BY <1>1, <1>2, <1>3 DEF Apart, Aside
<1> QED
  BY <1>1, <1>2, <1>3, <1>4, QuietKnown

\* While changes are worked on, a page is its local content and its mapping.
LEMMA PulledKnown ==
    ASSUME TypesInv, Ordered, NEW p \in Page, Known(p), NEW d \in Device, Apart(d),
           UNCHANGED <<lineage, file, queue>>,
           Stage(d) \in Pulling, cycle'[d].stage \notin {"follow", "apply"},
           Knows(p, mapping[d][p], local[d][p])'
    PROVE  Known(p)'
<1>1. /\ queue[d] = <<>> /\ file[d].batch = NoBatch
      /\ file[d].pending[p] = NoOp /\ NoBatch.ops[p] = NoOp
  BY DEF Ordered, DeviceOrdered, PullsUndisturbed, Pulling, NoOps, NoBatch
<1>2. PageKnown(d, p)'
  BY <1>1 DEF PageKnown, WorkKnown, OpKnown, BatchFirst, AnswersKnown, PullKnown, Waiting,
              Stage
<1> QED
  BY <1>2, ApartKnown

\* The content of a bootstrap replaces the local one only where nothing waits to be sent.
LEMMA ApplyIfSafeKnown ==
    ASSUME TypesInv, Ordered, NEW p \in Page, Known(p), NEW d \in Device, ApplyIfSafe(d)
    PROVE  Known(p)'
<1>1. /\ UNCHANGED <<versions, feed, answered, file, mapping, queue, fetched, lineage>>
      /\ Stage(d) = "apply"
  BY DEF ApplyIfSafe, cloudVars, bookVars
<1>2. /\ \A x \in Device \ {d} : cycle'[x] = cycle[x] /\ local'[x] = local[x]
      /\ cycle'[d].stage \in {"applied", "idle"}
      /\ \/ local'[d][p] = local[d][p]
         \/ local'[d][p] = versions[p][fetched[d].snapshot[p]]
  <2> DEFINE content == [q \in Page |-> IF q \in Changed(d)
                                        THEN versions[q][fetched[d].snapshot[q]]
                                        ELSE local[d][q]]
  <2>1. \/ GoTo(d, "applied") /\ local' = [local EXCEPT ![d] = content]
        \/ Stop(d) /\ UNCHANGED local
    BY DEF ApplyIfSafe
  <2>2. content[p] = local[d][p] \/ content[p] = versions[p][fetched[d].snapshot[p]]
    OBVIOUS
  <2> HIDE DEF content
  <2> QED
    BY <2>1, <2>2, GoingTo, Stopping DEF TypesInv, FileTypes, CycleTypes, Stages
<1>3. Apart(d)
  BY <1>1, <1>2 DEF Apart, Aside
<1>4. Knows(p, mapping[d][p], local'[d][p])
  <2>1. Knows(p, mapping[d][p], local[d][p]) /\ mapping[d][p] <= fetched[d].snapshot[p]
    BY <1>1 DEF Known, PageKnown, WorkKnown, PullKnown
  <2>2. fetched[d].snapshot[p] \in 1..Len(versions[p])
    BY <1>1 DEF TypesInv, SnapshotsReal
  <2>3. Follows(versions[p][mapping[d][p]], versions[p][fetched[d].snapshot[p]])
    BY <2>1, <2>2 DEF Known, Chain, Knows
  <2> QED
    BY <1>2, <2>1, <2>3 DEF Knows
<1>5. Knows(p, mapping[d][p], local[d][p])'
  BY <1>1, <1>4 DEF Knows, Follows
<1> QED
  BY <1>1, <1>2, <1>3, <1>5, PulledKnown DEF Pulling

\* A page that changed is mapped to the version it has just got.
LEMMA RebuildMappingsKnown ==
    ASSUME TypesInv, Ordered, Settled, NEW p \in Page, Known(p), NEW d \in Device,
           RebuildMappings(d), p \in Changed(d)
    PROVE  Known(p)'
<1>1. /\ UNCHANGED <<versions, feed, answered, file, local, queue, fetched, lineage>>
      /\ Stage(d) = "applied"
  BY DEF RebuildMappings, cloudVars, bookVars
<1>2. /\ cycle'[d].stage = "advance" /\ \A x \in Device \ {d} : cycle'[x] = cycle[x]
      /\ mapping'[d] = fetched[d].snapshot /\ \A x \in Device \ {d} : mapping'[x] = mapping[x]
  BY GoingTo DEF RebuildMappings, TypesInv, CycleTypes, FileTypes, Stages
<1>3. Apart(d)
  BY <1>1, <1>2 DEF Apart, Aside
<1>4. /\ fetched[d].snapshot[p] \in 1..Len(versions[p])
      /\ local[d][p] = versions[p][fetched[d].snapshot[p]]
  BY <1>1 DEF Settled, PageSettled, PullApplied
<1>5. Knows(p, mapping[d][p], local[d][p])'
  BY <1>1, <1>2, <1>4 DEF Knows, Follows
<1> QED
  BY <1>1, <1>2, <1>3, <1>5, PulledKnown DEF Pulling

\* The mapping takes over the revision the content of the batch has become.
LEMMA UpdateRemoteKnown ==
    ASSUME TypesInv, NEW p \in Page, Known(p), NEW d \in Device, DeviceCurrent(d),
           UpdateRemote(d)
    PROVE  Known(p)'
<1>1. /\ UNCHANGED <<versions, feed, answered, file, local, queue, fetched, lineage>>
      /\ Stage(d) = "answered"
  BY DEF UpdateRemote, cloudVars, bookVars
<1>2. cycle'[d].stage = "mapped" /\ \A x \in Device \ {d} : cycle'[x] = cycle[x]
  BY GoingTo DEF UpdateRemote, TypesInv, CycleTypes, Stages
<1>3. /\ \A x \in Device \ {d} : mapping'[x] = mapping[x]
      /\ mapping'[d][p] = IF Results(d)[p].outcome = "applied" THEN Results(d)[p].revision
                          ELSE mapping[d][p]
  <2> DEFINE m == [q \in Page |-> IF Results(d)[q].outcome = "applied"
                                  THEN Results(d)[q].revision ELSE mapping[d][q]]
  <2>1. mapping' = [mapping EXCEPT ![d] = m]
    BY DEF UpdateRemote
  <2>2. m[p] = IF Results(d)[p].outcome = "applied" THEN Results(d)[p].revision
               ELSE mapping[d][p]
    OBVIOUS
  <2> HIDE DEF m
  <2>3. mapping'[d] = m /\ \A x \in Device \ {d} : mapping'[x] = mapping[x]
    BY <2>1 DEF TypesInv, FileTypes
  <2> QED
    BY <2>2, <2>3
<1>4. Apart(d)
  BY <1>1, <1>2, <1>3 DEF Apart, Aside
<1>5. PageKnown(d, p)
  BY DEF Known
<1>6. CASE Results(d)[p].outcome # "applied"
  BY <1>1, <1>2, <1>3, <1>4, <1>6, QuietKnown
<1>7. CASE Results(d)[p].outcome = "applied"
  <2> DEFINE op == file[d].batch.ops[p]
             n == Results(d)[p].revision
  <2>1. /\ fetched[d].response \in answered[d] /\ file[d].batch # NoBatch
        /\ fetched[d].response.key = file[d].batch.key
    BY <1>1 DEF DeviceCurrent, OneBatch
  <2>2. AnswerKnown(d, p, fetched[d].response)
    BY <1>5, <2>1 DEF PageKnown, AnswersKnown
  <2>3. op # NoOp /\ n \in 1..Len(versions[p]) /\ versions[p][n] = op.edit
    BY <1>7, <2>2 DEF AnswerKnown, Results
  <2>4. /\ Follows(op.edit, local[d][p])
        /\ \A i \in Waiting(d, p) : Follows(op.edit, queue[d][i].edit)
    BY <1>5, <2>3 DEF PageKnown, BatchFirst
  <2>5. WorkKnown(d, p)'
    <3>1. Knows(p, n, local[d][p]) /\ \A i \in Waiting(d, p) : Knows(p, n, queue[d][i].edit)
      BY <2>3, <2>4 DEF Knows
    <3>2. OpKnown(p, file[d].pending[p])' /\ OpKnown(p, file[d].batch.ops[p])'
      BY <1>1, <1>5 DEF PageKnown, WorkKnown, OpKnown, Knows, Follows
    <3>3. mapping'[d][p] = n
      BY <1>3, <1>7
    <3> HIDE DEF n
    <3>4. Knows(p, mapping[d][p], local[d][p])'
      BY <1>1, <3>1, <3>3 DEF Knows, Follows
    <3>5. \A i \in Waiting(d, p)' : Knows(p, mapping[d][p], queue[d][i].edit)'
      BY <1>1, <3>1, <3>3 DEF Knows, Follows, Waiting
    <3> QED
      BY <3>2, <3>4, <3>5 DEF WorkKnown
  <2>6. BatchFirst(d, p)'
    BY <1>1, <1>5 DEF PageKnown, BatchFirst, Follows, Waiting
  <2>7. AnswersKnown(d, p)' /\ PullKnown(d, p)'
    <3>1. \A x : AnswerKnown(d, p, x) => AnswerKnown(d, p, x)'
      BY <1>1 DEF AnswerKnown
    <3> QED
      BY <1>1, <1>2, <1>5, <3>1 DEF PageKnown, AnswersKnown, PullKnown, Stage
  <2> QED
    BY <1>1, <1>4, <2>5, <2>6, <2>7, ApartKnown DEF PageKnown
<1> QED
  BY <1>6, <1>7

\* What is pending is frozen; what waits was built upon it.
LEMMA PrepareKnown ==
    ASSUME TypesInv, Calm, Ordered, NEW p \in Page, Known(p), NEW d \in Device, Prepare(d)
    PROVE  Known(p)'
<1>1. UNCHANGED <<versions, feed, answered, local, mapping, queue, fetched, lineage>>
  BY DEF Prepare, cloudVars, bookVars
<1>2. /\ \A x \in Device \ {d} : file'[x] = file[x] /\ cycle'[x] = cycle[x]
      /\ cycle'[d].stage \in {"pages", "sent"}
      /\ \/ file'[d] = file[d]
         \/ /\ file[d].batch = NoBatch /\ file'[d].pending = NoOps
            /\ file'[d].batch.ops = file[d].pending
            /\ \A x \in answered[d] : x.key # file'[d].batch.key
  BY PrepareFile
<1>3. Apart(d)
  BY <1>1, <1>2 DEF Apart, Aside
<1>4. CASE file'[d] = file[d]
  BY <1>1, <1>2, <1>3, <1>4, QuietKnown
<1>5. CASE /\ file[d].batch = NoBatch /\ file'[d].pending = NoOps
           /\ file'[d].batch.ops = file[d].pending
           /\ \A x \in answered[d] : x.key # file'[d].batch.key
  <2>1. WorkKnown(d, p) /\ EditsInOrder(d)
    BY DEF Known, PageKnown, Ordered, DeviceOrdered
  <2>2. file'[d].pending[p] = NoOp /\ file'[d].batch.ops[p] = file[d].pending[p]
    BY <1>5 DEF NoOps
  <2>3. Waiting(d, p)' = Waiting(d, p)
    BY <1>1 DEF Waiting
  <2>4. WorkKnown(d, p)'
    <3>1. OpKnown(p, file[d].pending[p])' /\ OpKnown(p, file[d].batch.ops[p])'
      BY <1>1, <2>1, <2>2 DEF WorkKnown, OpKnown, Knows, Follows
    <3>2. /\ Knows(p, mapping[d][p], local[d][p])'
          /\ \A i \in Waiting(d, p) : Knows(p, mapping[d][p], queue[d][i].edit)'
      BY <1>1, <2>1 DEF WorkKnown, Knows, Follows
    <3> QED
      BY <2>3, <3>1, <3>2 DEF WorkKnown
  <2>5. BatchFirst(d, p)'
    <3>1. file[d].pending[p] # NoOp => file[d].pending[p].kind = "content"
      BY <2>1 DEF WorkKnown, OpKnown
    <3> QED
      BY <1>1, <2>1, <2>2, <2>3, <3>1 DEF BatchFirst, EditsInOrder, Follows
  <2>6. AnswersKnown(d, p)' /\ PullKnown(d, p)'
    BY <1>1, <1>2, <1>5 DEF AnswersKnown, PullKnown, Stage
  <2> QED
    BY <1>1, <1>3, <2>4, <2>5, <2>6, ApartKnown DEF PageKnown
<1> QED
  BY <1>2, <1>4, <1>5

\* What is pending goes on top of what the batch has become, upon which it was built.
LEMMA MarkCommitSucceededKnown ==
    ASSUME TypesInv, Calm, NEW p \in Page, Known(p), NEW d \in Device, DeviceCurrent(d),
           MarkCommitSucceeded(d)
    PROVE  Known(p)'
<1> DEFINE r == fetched[d].response
           op == file[d].pending[p]
           next == file'[d].pending[p]
<1>1. /\ UNCHANGED <<versions, feed, answered, local, mapping, queue, fetched, lineage>>
      /\ file[d].batch # NoBatch /\ r \in answered[d] /\ r.key = file[d].batch.key
      /\ cycle'[d].stage = "follow" /\ \A x \in Device \ {d} : cycle'[x] = cycle[x]
      /\ file'[d].batch = NoBatch /\ \A x \in Device \ {d} : file'[x] = file[x]
  BY CommitRecorded
<1>2. /\ next # NoOp => op # NoOp
      /\ next.kind = op.kind /\ next.edit = op.edit
      /\ next.base = IF op # NoOp /\ r.results[p].outcome # "none"
                     THEN r.results[p].revision ELSE op.base
  BY CommitRecorded
<1>3. Apart(d)
  BY <1>1 DEF Apart, Aside
<1>4. /\ WorkKnown(d, p) /\ BatchFirst(d, p) /\ AnswerKnown(d, p, r)
      /\ Waiting(d, p)' = Waiting(d, p) /\ NoBatch.ops[p] = NoOp
  BY <1>1 DEF Known, PageKnown, AnswersKnown, Waiting, NoBatch, NoOps
<1>5. r.results[p].outcome \in {"none", "applied"}
  <2>1. r.results[p].outcome \in {"none", "applied", "conflict"}
    BY DEF TypesInv, CycleTypes, Response, Result
  <2> QED
    BY <1>4, <2>1 DEF AnswerKnown
<1>6. ASSUME next # NoOp PROVE next.kind = "content" /\ Knows(p, next.base, next.edit)
  <2>1. CASE r.results[p].outcome = "none"
    BY <1>2, <1>4, <1>6, <2>1 DEF WorkKnown, OpKnown
  <2>2. CASE r.results[p].outcome = "applied"
    BY <1>2, <1>4, <1>6, <2>2 DEF WorkKnown, OpKnown, AnswerKnown, BatchFirst, Knows
  <2> QED
    BY <1>5, <2>1, <2>2
<1>7. WorkKnown(d, p)'
  <2>1. OpKnown(p, file[d].pending[p])' /\ OpKnown(p, file[d].batch.ops[p])'
    BY <1>1, <1>4, <1>6 DEF OpKnown, Knows, Follows
  <2>2. /\ Knows(p, mapping[d][p], local[d][p])'
        /\ \A i \in Waiting(d, p) : Knows(p, mapping[d][p], queue[d][i].edit)'
    BY <1>1, <1>4 DEF WorkKnown, Knows, Follows
  <2> QED
    BY <1>4, <2>1, <2>2 DEF WorkKnown
<1>8. BatchFirst(d, p)' /\ AnswersKnown(d, p)' /\ PullKnown(d, p)'
  BY <1>1, <1>4, <1>5 DEF BatchFirst, AnswersKnown, PullKnown, Stage, Results
<1> QED
  BY <1>1, <1>3, <1>7, <1>8, ApartKnown DEF PageKnown

\* A save is built upon what the device had.
LEMMA SaveGoesOn ==
    ASSUME TypesInv, Ordered, NEW d \in Device, Save(d)
    PROVE  LET p == editor[d].page
           IN  /\ \A u, v \in Edit : Follows(u, v) => Follows(u, v)'
               /\ \A u \in Edit : Follows(u, local[d][p]) =>
                     u \in lineage'[edits + 1]
<1> DEFINE p == editor[d].page
           e == edits + 1
<1>1. /\ e \in Edit /\ lineage'[e] = lineage[local[d][p]] \union {local[d][p]}
      /\ \A y \in Edit \ {e} : lineage'[y] = lineage[y]
  BY Saved
<1>2. lineage[e] = {}
  <2>1. edits \in Edit
    BY EditsTyped
  <2>2. e > edits
    BY <2>1 DEF Edit
  <2> QED
    BY <1>1, <2>2 DEF Ordered, LineageOrdered
<1> HIDE DEF p, e
<1>3. \A u, v \in Edit : Follows(u, v) => Follows(u, v)'
  BY <1>1, <1>2 DEF Follows
<1>4. \A u \in Edit : Follows(u, local[d][p]) => u \in lineage'[e]
  BY <1>1 DEF Follows
<1> QED
  BY <1>3, <1>4 DEF p, e

\* What a device knows of a page stays so as it makes and gives to the tracker what was
\* built upon what it had.
LEMMA LaterKnown ==
    ASSUME TypesInv, NEW p \in Page, NEW d \in Device, PageKnown(d, p),
           UNCHANGED <<versions, answered, file, mapping>>,
           \A u, v \in Edit : Follows(u, v) => Follows(u, v)',
           \A u \in Edit : Follows(u, local[d][p]) => Follows(u, local[d][p])',
           \A i \in Waiting(d, p)' : \/ i \in Waiting(d, p) /\ queue'[d][i] = queue[d][i]
                                     \/ queue'[d][i].edit = local'[d][p],
           \/ cycle' = cycle /\ fetched' = fetched
           \/ cycle'[d].stage \notin {"follow", "apply"}
    PROVE  PageKnown(d, p)'
<1>1. /\ \A n \in 1..Len(versions[p]) : versions[p][n] \in Edit
      /\ file[d].pending[p].edit \in Edit /\ file[d].batch.ops[p].edit \in Edit
      /\ \A i \in Waiting(d, p) : queue[d][i].edit \in Edit
  BY CloudTyped, EditsTyped DEF Waiting
<1>2. WorkKnown(d, p) /\ BatchFirst(d, p) /\ AnswersKnown(d, p) /\ PullKnown(d, p)
  BY DEF PageKnown
<1>3. ASSUME NEW u \in Edit, Follows(u, local[d][p]),
             \A i \in Waiting(d, p) : Follows(u, queue[d][i].edit)
      PROVE  /\ Follows(u, local[d][p])'
             /\ \A i \in Waiting(d, p)' : Follows(u, queue[d][i].edit)'
  <2>1. Follows(u, local[d][p])'
    BY <1>3
  <2>2. ASSUME NEW i \in Waiting(d, p)' PROVE Follows(u, queue[d][i].edit)'
    <3>1. CASE queue'[d][i].edit = local'[d][p]
      BY <2>1, <3>1 DEF Follows
    <3>2. CASE i \in Waiting(d, p) /\ queue'[d][i] = queue[d][i]
      <4>1. Follows(u, queue[d][i].edit) /\ queue[d][i].edit \in Edit
        BY <1>1, <1>3, <3>2
      <4> QED
        BY <3>2, <4>1 DEF Follows
    <3> QED
      BY <3>1, <3>2
  <2> QED
    BY <2>1, <2>2
<1> HIDE DEF Follows
<1>4. WorkKnown(d, p)'
  <2>1. OpKnown(p, file[d].pending[p])' /\ OpKnown(p, file[d].batch.ops[p])'
    BY <1>1, <1>2 DEF WorkKnown, OpKnown, Knows
  <2>2. mapping[d][p] \in 1..Len(versions[p])
    BY <1>2 DEF WorkKnown, Knows
  <2>3. PICK u \in Edit : u = versions[p][mapping[d][p]]
    BY <1>1, <2>2
  <2>4. Follows(u, local[d][p]) /\ \A i \in Waiting(d, p) : Follows(u, queue[d][i].edit)
    BY <1>2, <2>3 DEF WorkKnown, Knows
  <2>5. Follows(u, local[d][p])' /\ \A i \in Waiting(d, p)' : Follows(u, queue[d][i].edit)'
    BY <1>3, <2>4
  <2>6. /\ Knows(p, mapping[d][p], local[d][p])'
        /\ \A i \in Waiting(d, p)' : Knows(p, mapping[d][p], queue[d][i].edit)'
    BY <2>2, <2>3, <2>5 DEF Knows
  <2> QED
    BY <2>1, <2>6 DEF WorkKnown
<1>5. BatchFirst(d, p)'
  <2> SUFFICES ASSUME file[d].batch.ops[p] # NoOp PROVE BatchFirst(d, p)'
    BY DEF BatchFirst
  <2>1. PICK u \in Edit : u = file[d].batch.ops[p].edit
    BY <1>1
  <2>2. /\ Follows(u, local[d][p]) /\ \A i \in Waiting(d, p) : Follows(u, queue[d][i].edit)
        /\ file[d].pending[p] # NoOp => Follows(u, file[d].pending[p].edit)
    BY <1>2, <2>1 DEF BatchFirst
  <2>3. Follows(u, local[d][p])' /\ \A i \in Waiting(d, p)' : Follows(u, queue[d][i].edit)'
    BY <1>3, <2>2
  <2>4. file[d].pending[p] # NoOp => Follows(u, file[d].pending[p].edit)'
    BY <1>1, <2>2
  <2> QED
    BY <2>1, <2>3, <2>4 DEF BatchFirst
<1>6. AnswersKnown(d, p)' /\ PullKnown(d, p)'
  <2>1. \A x : AnswerKnown(d, p, x) => AnswerKnown(d, p, x)'
    BY DEF AnswerKnown
  <2> QED
    BY <1>2, <2>1 DEF AnswersKnown, PullKnown, Stage, Results
<1> QED
  BY <1>4, <1>5, <1>6 DEF PageKnown

\* A save is built upon the local content, and so upon what that was built upon.
LEMMA SaveKnown ==
    ASSUME TypesInv, Ordered, NEW p \in Page, Known(p), NEW d \in Device, Save(d)
    PROVE  Known(p)'
<1> DEFINE q == editor[d].page
           e == edits + 1
           n == Len(queue[d])
<1>1. /\ UNCHANGED <<versions, feed, answered, file, mapping, cycle, fetched>>
      /\ editor[d] # Closed
  BY DEF Save, cloudVars
<1>2. /\ q \in Page /\ e \in Edit /\ local'[d][q] = e
      /\ \A r \in Page \ {q} : local'[d][r] = local[d][r]
      /\ n \in Nat /\ DOMAIN queue[d] = 1..n /\ DOMAIN queue'[d] = 1..(n + 1)
      /\ \A i \in 1..n : queue'[d][i] = queue[d][i]
      /\ queue'[d][n + 1].page = q /\ queue'[d][n + 1].edit = e
      /\ \A x \in Device \ {d} : local'[x] = local[x] /\ queue'[x] = queue[x]
  BY Saved
<1>3. /\ \A u, v \in Edit : Follows(u, v) => Follows(u, v)'
      /\ \A u \in Edit : Follows(u, local[d][q]) => u \in lineage'[e]
  BY SaveGoesOn
<1> HIDE DEF q, e, n
<1>4. KnowledgeKept(p) /\ Aside(d)
  BY <1>1, <1>2, <1>3 DEF KnowledgeKept, Aside
<1>5. Chain(p)'
  <2>1. Chain(p) /\ \A i \in 1..Len(versions[p]) : versions[p][i] \in Edit
    BY CloudTyped DEF Known
  <2> QED
    BY <1>1, <1>3, <2>1 DEF Chain
<1>6. PageKnown(d, p) /\ cycle[d].stage # "apply"
  BY <1>1 DEF Known, Ordered, DeviceOrdered, PullsUndisturbed, Stage
<1>7. /\ \A u \in Edit : Follows(u, local[d][p]) => Follows(u, local[d][p])'
      /\ \A i \in Waiting(d, p)' : \/ i \in Waiting(d, p) /\ queue'[d][i] = queue[d][i]
                                   \/ queue'[d][i].edit = local'[d][p]
  <2>1. local[d][p] \in Edit
    BY EditsTyped
  <2>2. CASE p = q
    BY <1>2, <1>3, <2>2 DEF Waiting, Follows
  <2>3. CASE p # q
    BY <1>2, <1>3, <2>1, <2>3 DEF Waiting, Follows
  <2> QED
    BY <2>2, <2>3
<1>8. PageKnown(d, p)'
  BY <1>1, <1>3, <1>6, <1>7, LaterKnown
<1> QED
  BY <1>4, <1>5, <1>8, AsideKnown

\* The local content of every page is given to the tracker once more.
LEMMA QueueLatestKnown ==
    ASSUME TypesInv, NEW p \in Page, Known(p), NEW d \in Device,
           QueueLatestCreatedContent(d), queue[d] = <<>>
    PROVE  Known(p)'
<1>1. UNCHANGED <<versions, feed, answered, file, local, mapping, fetched, lineage>>
  BY DEF QueueLatestCreatedContent, cloudVars, fileVars, bookVars
<1>2. cycle'[d].stage = "drain" /\ \A x \in Device \ {d} : cycle'[x] = cycle[x]
  BY DEF QueueLatestCreatedContent, GoTo, TypesInv, CycleTypes
<1>3. /\ \A x \in Device \ {d} : queue'[x] = queue[x]
      /\ \A i \in DOMAIN queue'[d] : queue'[d][i].edit = local[d][queue'[d][i].page]
  BY LatestQueued
<1>4. Apart(d)
  BY <1>1, <1>2, <1>3 DEF Apart, Aside
<1>5. PageKnown(d, p) /\ cycle'[d].stage # "follow" /\ cycle'[d].stage # "apply"
  BY <1>2 DEF Known
<1>6. /\ \A u, v \in Edit : Follows(u, v) => Follows(u, v)'
      /\ \A u \in Edit : Follows(u, local[d][p]) => Follows(u, local[d][p])'
      /\ \A i \in Waiting(d, p)' : queue'[d][i].edit = local'[d][p]
  BY <1>1, <1>3 DEF Waiting, Follows
<1>7. PageKnown(d, p)'
  BY <1>1, <1>5, <1>6, LaterKnown
<1> QED
  BY <1>1, <1>4, <1>7, ApartKnown

\* The tracker puts the first of what waits on top of the mapped revision or of what was
\* pending, upon which it was built.
LEMMA TrackKnown ==
    ASSUME TypesInv, Calm, Ordered, NEW p \in Page, Known(p), NEW d \in Device, Track(d)
    PROVE  Known(p)'
<1> DEFINE q == Head(queue[d]).page
           e == Head(queue[d]).edit
           op == file[d].pending[p]
           next == file'[d].pending[p]
<1>1. UNCHANGED <<versions, feed, answered, local, mapping, cycle, fetched, lineage>>
  BY DEF Track, cloudVars, bookVars
<1>2. /\ 1 \in DOMAIN queue[d] /\ q = queue[d][1].page /\ e = queue[d][1].edit
      /\ q \in Page /\ e \in Edit /\ file'[d].batch = file[d].batch
      /\ file'[d].pending[q].kind = "content" /\ file'[d].pending[q].edit = e
      /\ \A r \in Page \ {q} : file'[d].pending[r] = file[d].pending[r]
      /\ \A x \in Device \ {d} : file'[x] = file[x] /\ queue'[x] = queue[x]
      /\ \A i : i \in DOMAIN queue'[d] <=> i \in Nat \ {0} /\ i + 1 \in DOMAIN queue[d]
      /\ \A i \in DOMAIN queue'[d] : queue'[d][i] = queue[d][i + 1]
  BY TrackFirst
<1>3. file'[d].pending[q].base = IF file[d].pending[q] = NoOp THEN mapping[d][q]
                                 ELSE file[d].pending[q].base
  BY TrackedBase
<1> HIDE DEF q, e
<1>4. Apart(d)
  BY <1>1, <1>2 DEF Apart, Aside
<1>5. PageKnown(d, p) /\ EditsInOrder(d)
  BY DEF Known, Ordered, DeviceOrdered
<1>6. /\ WorkKnown(d, p) /\ BatchFirst(d, p)
      /\ \A i \in Waiting(d, p)' : i + 1 \in Waiting(d, p)
                                   /\ queue'[d][i] = queue[d][i + 1]
  BY <1>2, <1>5 DEF PageKnown, Waiting
<1>7. AnswersKnown(d, p)' /\ PullKnown(d, p)'
  <2>1. AnswersKnown(d, p) /\ PullKnown(d, p) /\ file'[d].batch = file[d].batch
    BY <1>2, <1>5 DEF PageKnown
  <2>2. \A x : AnswerKnown(d, p, x) => AnswerKnown(d, p, x)'
    BY <1>1, <2>1 DEF AnswerKnown
  <2>3. AnswersKnown(d, p)'
    BY <1>1, <2>1, <2>2 DEF AnswersKnown, Stage, Results
  <2> QED
    BY <1>1, <2>1, <2>3 DEF PullKnown, Stage
<1>8. CASE p # q
  <2>1. next = op
    BY <1>2, <1>8
  <2>2. WorkKnown(d, p)' /\ BatchFirst(d, p)'
    <3>1. OpKnown(p, file[d].pending[p])' /\ OpKnown(p, file[d].batch.ops[p])'
      BY <1>1, <1>2, <1>6, <2>1 DEF WorkKnown, OpKnown, Knows, Follows
    <3>2. /\ Knows(p, mapping[d][p], local[d][p])'
          /\ \A i \in Waiting(d, p)' : Knows(p, mapping[d][p], queue[d][i].edit)'
      BY <1>1, <1>6 DEF WorkKnown, Knows, Follows
    <3>3. file'[d].batch = file[d].batch /\ BatchFirst(d, p)
      BY <1>2, <1>6
    <3>4. BatchFirst(d, p)'
      BY <1>1, <1>6, <2>1, <3>3 DEF BatchFirst, Follows
    <3> QED
      BY <3>1, <3>2, <3>4 DEF WorkKnown
  <2> QED
    BY <1>1, <1>4, <1>7, <2>2, ApartKnown DEF PageKnown
<1>9. CASE p = q
  <2>1. 1 \in Waiting(d, p) /\ queue[d][1].edit = e
    BY <1>2, <1>9 DEF Waiting
  <2>2. /\ next.kind = "content" /\ next.edit = e
        /\ next.base = IF op = NoOp THEN mapping[d][p] ELSE op.base
    BY <1>2, <1>3, <1>9
  <2>3. Knows(p, next.base, e)
    <3>1. CASE op = NoOp
      BY <1>6, <2>1, <2>2, <3>1 DEF WorkKnown
    <3>2. CASE op # NoOp
      <4>1. op.kind = "content" /\ Knows(p, op.base, op.edit)
        BY <1>6, <3>2 DEF WorkKnown, OpKnown
      <4>2. Follows(op.edit, e)
        BY <1>5, <2>1, <4>1 DEF EditsInOrder
      <4>3. op.edit \in Edit /\ e \in Edit
        BY <1>2, EditsTyped
      <4> HIDE DEF op, next
      <4>4. Knows(p, op.base, e)
        BY <4>1, <4>2, <4>3, FollowsThrough DEF Knows, Ordered
      <4> QED
        BY <2>2, <3>2, <4>4
    <3> QED
      BY <3>1, <3>2
  <2>4. WorkKnown(d, p)' /\ BatchFirst(d, p)'
    <3>1. OpKnown(p, file[d].pending[p])' /\ OpKnown(p, file[d].batch.ops[p])'
      BY <1>1, <1>2, <1>6, <2>2, <2>3 DEF WorkKnown, OpKnown, Knows, Follows
    <3>2. /\ Knows(p, mapping[d][p], local[d][p])'
          /\ \A i \in Waiting(d, p)' : Knows(p, mapping[d][p], queue[d][i].edit)'
      BY <1>1, <1>6 DEF WorkKnown, Knows, Follows
    <3>3. file'[d].batch = file[d].batch /\ BatchFirst(d, p)
      BY <1>2, <1>6
    <3>4. BatchFirst(d, p)'
      BY <1>1, <1>6, <2>1, <2>2, <3>3 DEF BatchFirst, Follows
    <3> QED
      BY <3>1, <3>2, <3>4 DEF WorkKnown
  <2> QED
    BY <1>1, <1>4, <1>7, <2>4, ApartKnown DEF PageKnown
<1> QED
  BY <1>8, <1>9

\* Where nothing was preserved as a conflict, a new version was built upon the last.
LEMMA CommitChains ==
    ASSUME TypesInv, LineageOrdered, NEW p \in Page, Chain(p), NEW d \in Device,
           OpKnown(p, wire[d].ops[p]), ServerCommit(d)
    PROVE  /\ KnowledgeKept(p) /\ Chain(p)'
           /\ versions'[p] # versions[p] => CloudEdit(p) \in lineage[Last(versions'[p])]
<1> DEFINE op == wire[d].ops[p]
           n == Len(versions[p])
<1>1. UNCHANGED lineage
  BY DEF ServerCommit, fileVars, bookVars
<1>2. /\ n \in Nat \ {0} /\ CloudEdit(p) = versions[p][n]
      /\ \A i \in 1..n : versions[p][i] \in Edit
      /\ op.edit \in Edit /\ versions[p] \in Seq(Edit)
  BY CloudTyped, EditsTyped DEF TypesInv, CloudTypes
<1>3. CASE versions'[p] = versions[p]
  BY <1>1, <1>3 DEF KnowledgeKept, Chain, Follows
<1>4. CASE versions'[p] # versions[p]
  <2>1. Applies(op, p) /\ versions'[p] = Append(versions[p], op.edit)
    <3>1. ~\E x \in answered[d] : x.key = wire[d].key
      BY <1>4 DEF ServerCommit, cloudVars
    <3> QED
      BY <1>4, <3>1, CommitTold
  <2>2. op.kind = "content" /\ op.edit # CloudEdit(p) /\ op.base = n
    BY <2>1 DEF Applies, CloudRevision
  <2>3. op # NoOp
    BY <2>2 DEF NoOp
  <2>4. Follows(versions[p][n], op.edit)
    BY <2>2, <2>3 DEF OpKnown, Knows
  <2> HIDE DEF op, n
  <2>5. /\ Len(versions'[p]) = n + 1 /\ versions'[p][n + 1] = op.edit
        /\ \A i \in 1..n : versions'[p][i] = versions[p][i]
    BY <1>2, <2>1, AppendProperties DEF n
  <2>6. KnowledgeKept(p)
    BY <1>1, <1>2, <2>5 DEF KnowledgeKept, Follows, n
  <2>7. ASSUME NEW i \in 1..n PROVE Follows(versions[p][i], op.edit)
    <3>1. Follows(versions[p][i], versions[p][n])
      BY <1>2, <2>7 DEF Chain, n
    <3> QED
      BY <1>2, <2>4, <3>1, FollowsThrough
  <2>8. Chain(p)'
    <3>1. ASSUME NEW i \in 1..(n + 1), NEW j \in 1..(n + 1), i <= j,
                 NEW x, NEW y, x = versions'[p][i], y = versions'[p][j]
          PROVE  Follows(x, y)
      <4>1. CASE j \in 1..n
        <5>1. i \in 1..n
          BY <1>2, <3>1, <4>1
        <5> QED
          BY <2>5, <3>1, <4>1, <5>1 DEF Chain, n
      <4>2. CASE j = n + 1 /\ i \in 1..n
        BY <2>5, <2>7, <3>1, <4>2
      <4>3. CASE j = n + 1 /\ i = n + 1
        BY <3>1, <4>3 DEF Follows
      <4> QED
        BY <1>2, <3>1, <4>1, <4>2, <4>3
    <3> QED
      BY <1>1, <2>5, <3>1 DEF Chain, Follows
  <2>9. Last(versions'[p]) = op.edit
    BY <1>2, <2>5 DEF Last
  <2> QED
    BY <1>2, <2>2, <2>4, <2>6, <2>8, <2>9 DEF Follows
<1> QED
  BY <1>3, <1>4

\* A commit that preserves nothing of a page as a conflict.
LEMMA ServerCommitKnown ==
    ASSUME TypesInv, Ordered, NEW p \in Page, Known(p), kept'[p] = {},
           NEW d \in Device, DeviceCurrent(d), ServerCommit(d)
    PROVE  Known(p)'
<1> DEFINE op == wire[d].ops[p]
           n == Len(versions[p])
<1>1. /\ UNCHANGED <<file, local, mapping, queue, lineage>> /\ wire[d] # NoBatch
      /\ wire[d] = file[d].batch
  BY DEF ServerCommit, fileVars, bookVars, DeviceCurrent, OneBatch
<1>2. /\ \A x \in Device \ {d} : answered'[x] = answered[x]
      /\ \A r \in answered'[d] \ answered[d] : r.key = wire[d].key
  BY Committed DEF TypesInv, CycleTypes
<1>3. /\ \A x \in Device \ {d} : cycle'[x] = cycle[x] /\ fetched'[x] = fetched[x]
      /\ cycle[d].stage # "follow"
      /\ \/ cycle'[d].stage = cycle[d].stage /\ fetched'[d] = fetched[d]
         \/ cycle'[d].stage = "answered"
  <2>1. cycle[d].stage # "follow"
    BY <1>1 DEF DeviceCurrent, OneBatch, Stage
  <2> QED
    BY <2>1, GoingTo DEF ServerCommit, TypesInv, CycleTypes, Stages
<1>4. Aside(d) /\ PageKnown(d, p) /\ WorkKnown(d, p)
  BY <1>1, <1>2, <1>3 DEF Aside, Known, PageKnown
<1>5. OpKnown(p, op)
  BY <1>1, <1>4 DEF WorkKnown
<1>6. KnowledgeKept(p) /\ Chain(p)'
  BY <1>5, CommitChains DEF Ordered, Known
<1>7. WorkKnown(d, p)' /\ BatchFirst(d, p)'
  BY <1>1, <1>4, <1>6, WorkKept
<1>8. ASSUME NEW r \in answered'[d], r.key = file[d].batch.key
      PROVE  AnswerKnown(d, p, r)'
  <2>1. CASE r \in answered[d]
    <3>1. AnswerKnown(d, p, r)
      BY <1>1, <1>4, <1>8, <2>1 DEF PageKnown, AnswersKnown
    <3> QED
      BY <1>1, <1>6, <3>1 DEF AnswerKnown, KnowledgeKept
  <2>2. CASE r \notin answered[d]
    <3>1. ~\E x \in answered[d] : x.key = wire[d].key
      <4>1. (\E x \in answered[d] : x.key = wire[d].key) => answered' = answered
        BY DEF ServerCommit, cloudVars
      <4> QED
        BY <1>8, <2>2, <4>1
    <3>2. ~Conflicts(op, p)
      <4>1. kept' = [q \in Page |-> IF Conflicts(wire[d].ops[q], q)
                                    THEN kept[q] \union {wire[d].ops[q].edit} ELSE kept[q]]
        BY <3>1 DEF ServerCommit
      <4> HIDE DEF Conflicts
      <4> QED
        BY <4>1
    <3>3. /\ r.results[p].outcome = "none" <=> op = NoOp
          /\ r.results[p].outcome # "none" => r.results[p].revision = Len(versions'[p])
          /\ r.results[p].outcome = "conflict" => Conflicts(op, p)
      BY <2>2, <3>1, CommittedPage
    <3>4. op # NoOp => /\ Len(versions'[p]) \in 1..Len(versions'[p])
                       /\ versions'[p][Len(versions'[p])] = op.edit
      <4>1. /\ n \in Nat \ {0} /\ CloudEdit(p) = versions[p][n]
            /\ versions[p] \in Seq(Edit) /\ op.edit \in Edit
        BY CloudTyped, EditsTyped DEF TypesInv, CloudTypes
      <4>2. CASE Applies(op, p)
        <5>1. versions'[p] = Append(versions[p], op.edit)
          BY <3>1, <4>2, CommitTold
        <5> HIDE DEF op, n
        <5>2. Len(versions'[p]) = n + 1 /\ versions'[p][n + 1] = op.edit
          BY <4>1, <5>1, AppendProperties DEF n
        <5> QED
          BY <4>1, <5>2
      <4>3. CASE ~Applies(op, p)
        <5>1. versions'[p] = versions[p]
          BY <3>1, <4>3, CommitTold
        <5>2. op # NoOp => op.edit = CloudEdit(p)
          BY <1>5, <3>2, <4>3 DEF OpKnown, Applies, Conflicts
        <5> QED
          BY <4>1, <5>1, <5>2
      <4> QED
        BY <4>2, <4>3
    <3> HIDE DEF op
    <3> QED
      BY <1>1, <3>2, <3>3, <3>4 DEF AnswerKnown, op
  <2> QED
    BY <2>1, <2>2
<1>9. AnswersKnown(d, p)' /\ PullKnown(d, p)'
  <2> HIDE DEF AnswerKnown
  <2>1. AnswersKnown(d, p)'
    BY <1>1, <1>3, <1>8 DEF AnswersKnown, Stage
  <2>2. PullKnown(d, p)'
    BY <1>1, <1>3, <1>4 DEF PageKnown, PullKnown, Stage
  <2> QED
    BY <2>1, <2>2
<1> QED
  BY <1>4, <1>6, <1>7, <1>9, AsideKnown DEF PageKnown

\* Page p is mapped to something else than what it was mapped to, by a bootstrap that
\* tells nothing of a change of it.
MapsUnseen(d, p) ==
    /\ mapping'[d][p] # mapping[d][p]
    /\ Stage(d) = "remap" \/ (Stage(d) = "applied" /\ p \notin Changed(d))

\* What was preserved as a conflict stays preserved.
LEMMA KeptGrows ==
    ASSUME [Next]_vars, NEW p \in Page
    PROVE  kept[p] \subseteq kept'[p]
<1>1. CASE UNCHANGED cloudVars
  BY <1>1 DEF cloudVars
<1>2. ASSUME NEW d \in Device, ServerCommit(d) PROVE kept[p] \subseteq kept'[p]
  <2>1. \/ kept' = kept
        \/ kept' = [q \in Page |-> IF Conflicts(wire[d].ops[q], q)
                                   THEN kept[q] \union {wire[d].ops[q].edit} ELSE kept[q]]
    BY <1>2 DEF ServerCommit, cloudVars
  <2> HIDE DEF Conflicts
  <2> QED
    BY <2>1
<1> QED
  BY <1>1, <1>2, OnlyCommits

\* Each step keeps the pages P known that are not mapped unseen by it.
LEMMA StepKnown ==
    ASSUME NEW P \in SUBSET Page
    PROVE  TypesInv /\ TypesInv' /\ CalmInv /\ OrderedInv /\ CurrentInv /\ SettledInv
              /\ KnownInv(P) /\ [Next]_vars /\ [\A d \in Device, p \in P : ~MapsUnseen(d, p)]_vars
           => KnownInv(P)'
<1> SUFFICES ASSUME TypesInv, TypesInv', CalmInv, OrderedInv, CurrentInv, SettledInv,
                    KnownInv(P), [Next]_vars,
                    [\A d \in Device, p \in P : ~MapsUnseen(d, p)]_vars,
                    Orderly', NEW p \in P, kept'[p] = {}
             PROVE  Known(p)'
  BY DEF KnownInv
<1>1. Orderly
  BY ScenarioKept DEF Orderly
<1>2. /\ Calm /\ Ordered /\ Settled /\ ~budget.parallel
      /\ \A x \in Device : DeviceCurrent(x)
  BY <1>1 DEF CalmInv, OrderedInv, CurrentInv, SettledInv, Orderly
<1>3. ~Overlap
  BY <1>2 DEF Overlap, Calm
<1>4. p \in Page
  OBVIOUS
<1>5. kept[p] = {}
  BY KeptGrows
<1>6. Known(p)
  BY <1>1, <1>5 DEF KnownInv
<1>7. CASE UNCHANGED vars
  <2>1. UNCHANGED <<versions, feed, answered, local, mapping, queue, file, cycle, fetched,
                    lineage>>
    BY <1>7 DEF vars, cloudVars, fileVars, appVars, bookVars
  <2>2. KnowledgeKept(p) /\ Chain(p)'
    BY <1>6, <2>1 DEF KnowledgeKept, Known, Chain, Follows
  <2>3. ASSUME NEW x \in Device PROVE PageKnown(x, p)'
    <3>1. PageKnown(x, p)
      BY <1>6 DEF Known
    <3>2. cycle[x].stage = "apply" => mapping[x][p] <= fetched[x].snapshot[p]
      BY <3>1 DEF PageKnown, PullKnown, Stage
    <3> QED
      BY <2>1, <2>2, <3>1, <3>2, PageKnownKept
  <2> QED
    BY <2>2, <2>3 DEF Known
<1>8. CASE Next /\ \A d \in Device, q \in P : ~MapsUnseen(d, q)
  <2> PICK d \in Device :
         \/ Edits(d) \/ Tracks(d) \/ StartCycle(d) \/ HoldState(d)
         \/ TrackerDone(d) /\ (Pushes(d) \/ Pulls(d))
         \/ ServerCommit(d) \/ LoseConnection(d) \/ Crash(d)
    BY <1>8 DEF Next
  <2> ~MapsUnseen(d, p)
    BY <1>8
  <2>1. CASE Edits(d)
    BY <1>1, <1>2, <1>6, <2>1, CycleKnown, SaveKnown DEF Edits
  <2>2. CASE Tracks(d) \/ HoldState(d)
    BY <1>2, <1>3, <1>6, <2>2, TrackKnown DEF Tracks, ReadMapping, ReadState, HoldState
  <2>3. CASE StartCycle(d) \/ LoseConnection(d) \/ Crash(d)
    BY <1>1, <1>6, <2>3, CycleKnown
  <2>4. CASE TrackerDone(d) /\ Pushes(d)
    <3>1. queue[d] = <<>> /\ DeviceCurrent(d)
      BY <1>2, <2>4 DEF TrackerDone
    <3>2. CASE Prepare(d) \/ UpdateRemote(d) \/ MarkCommitSucceeded(d)
      BY <1>2, <1>6, <3>1, <3>2, PrepareKnown, UpdateRemoteKnown, MarkCommitSucceededKnown
    <3>3. CASE QueueMetadata(d) \/ UploadPages(d) \/ PushAgain(d)
      BY <1>1, <1>2, <1>6, <3>3, FilesKnown, CycleKnown
    <3>4. CASE ReplaceMappings(d)
      <4>1. mapping'[d][p] = mapping[d][p]
        BY <3>4 DEF ReplaceMappings, MapsUnseen
      <4> QED
        BY <1>6, <3>4, <4>1, MapsKnown
    <3>5. CASE QueueLatestCreatedContent(d)
      BY <1>6, <3>1, <3>5, QueueLatestKnown
    <3> QED
      BY <2>4, <3>2, <3>3, <3>4, <3>5 DEF Pushes
  <2>5. CASE TrackerDone(d) /\ Pulls(d)
    <3>1. CASE ListChanges(d) \/ Bootstrap(d) \/ ApplyIfSafe(d) \/ MarkChangesApplied(d)
      BY <1>2, <1>6, <3>1, ListedKnown, ApplyIfSafeKnown, FilesKnown
    <3>2. CASE RebuildMappings(d)
      <4>1. mapping'[d][p] = mapping[d][p] \/ p \in Changed(d)
        BY <3>2 DEF RebuildMappings, MapsUnseen
      <4> QED
        BY <1>2, <1>6, <3>2, <4>1, MapsKnown, RebuildMappingsKnown
    <3> QED
      BY <2>5, <3>1, <3>2 DEF Pulls
  <2>6. CASE ServerCommit(d)
    BY <1>2, <1>6, <2>6, ServerCommitKnown
  <2> QED
    BY <2>1, <2>2, <2>3, <2>4, <2>5, <2>6
<1> QED
  BY <1>7, <1>8

\* A device that maps no page unseen knows all it has: the invariant behind the theorems.
LEMMA KnownInvariant ==
    Spec /\ [][\A d \in Device, p \in Page : ~MapsUnseen(d, p)]_vars => []KnownInv(Page)
<1>1. Init => KnownInv(Page)
  BY InitKnown
<1>2. TypesInv /\ TypesInv' /\ CalmInv /\ OrderedInv /\ CurrentInv /\ SettledInv
         /\ KnownInv(Page) /\ [Next]_vars
         /\ [\A d \in Device, p \in Page : ~MapsUnseen(d, p)]_vars
      => KnownInv(Page)'
  BY StepKnown
<1> QED
  BY <1>1, <1>2, TypesInvariant, CalmInvariant, OrderedInvariant, CurrentInvariant,
     SettledInvariant, PTL DEF Spec

\* In an orderly scenario the local content of a page is the revision it is mapped to or
\* was built upon it, until an edit of the page is preserved as a conflict, as long as no
\* bootstrap maps a page to a revision whose content the device was not given. The push of
\* an edit gives the mapped revision as its base, so the server tells a conflict from it.
THEOREM MappedContentStaysLocal ==
    Spec /\ [][\A d \in Device, p \in Page : ~MapsUnseen(d, p)]_vars => []MappedContentIsLocal
<1>1. KnownInv(Page) => MappedContentIsLocal
  BY DEF MappedContentIsLocal, KnownInv, Known, PageKnown, WorkKnown, Knows, Follows
<1> QED
  BY <1>1, KnownInvariant, PTL

\* The same of the pages P alone, whatever bootstraps do to the other pages.
THEOREM TheirContentStaysLocal ==
    ASSUME NEW CONSTANT P \in SUBSET Page
    PROVE  Spec /\ [][\A d \in Device, p \in P : ~MapsUnseen(d, p)]_vars =>
              [](Orderly => \A d \in Device, p \in P :
                    kept[p] = {} => Follows(versions[p][mapping[d][p]], local[d][p]))
<1>1. Init => KnownInv(P)
  BY InitKnown
<1>2. TypesInv /\ TypesInv' /\ CalmInv /\ OrderedInv /\ CurrentInv /\ SettledInv
         /\ KnownInv(P) /\ [Next]_vars
         /\ [\A d \in Device, p \in P : ~MapsUnseen(d, p)]_vars
      => KnownInv(P)'
  BY StepKnown
<1>3. KnownInv(P) => (Orderly => \A d \in Device, p \in P :
          kept[p] = {} => Follows(versions[p][mapping[d][p]], local[d][p]))
  BY DEF KnownInv, Known, PageKnown, WorkKnown, Knows
<1> QED
  BY <1>1, <1>2, <1>3, TypesInvariant, CalmInvariant, OrderedInvariant, CurrentInvariant,
     SettledInvariant, PTL DEF Spec

\* A new version of a known page was built upon the last one.
LEMMA StepBuildsOn ==
    ASSUME NEW P \in SUBSET Page, TypesInv, OrderedInv, CurrentInv, KnownInv(P), [Next]_vars,
           Orderly, NEW p \in P, kept[p] = {}, versions'[p] # versions[p]
    PROVE  CloudEdit(p) \in lineage[Last(versions'[p])]
<1>1. PICK d \in Device : ServerCommit(d)
  <2>1. cloudVars' # cloudVars
    BY DEF cloudVars
  <2> QED
    BY <2>1, OnlyCommits
<1>2. Known(p) /\ Ordered /\ DeviceCurrent(d) /\ p \in Page
  BY DEF KnownInv, OrderedInv, CurrentInv, Orderly
<1>3. wire[d] = file[d].batch
  BY <1>1, <1>2 DEF ServerCommit, DeviceCurrent, OneBatch
<1>4. OpKnown(p, wire[d].ops[p]) /\ Chain(p)
  BY <1>2, <1>3 DEF Known, PageKnown, WorkKnown
<1> QED
  BY <1>1, <1>2, <1>4, CommitChains DEF Ordered

\* Under the same hypothesis a commit that adds a version of a page adds one built upon
\* the last, until an edit of that page is preserved as a conflict: what one device sends
\* never takes the place of what another has sent and it has not seen.
THEOREM VersionsBuildOnLast ==
    Spec /\ [][\A d \in Device, p \in Page : ~MapsUnseen(d, p)]_vars =>
       [][Orderly => \A p \in Page : kept[p] = {} /\ versions'[p] # versions[p] =>
             CloudEdit(p) \in lineage[Last(versions'[p])]]_vars
<1>1. TypesInv /\ OrderedInv /\ CurrentInv /\ KnownInv(Page) /\ [Next]_vars =>
         [Orderly => \A p \in Page : kept[p] = {} /\ versions'[p] # versions[p] =>
             CloudEdit(p) \in lineage[Last(versions'[p])]]_vars
  BY StepBuildsOn
<1> QED
  BY <1>1, KnownInvariant, TypesInvariant, OrderedInvariant, CurrentInvariant, PTL DEF Spec

\* ... and where nothing at all is preserved as a conflict, no commit overwrites what the
\* device that sent it has not seen.
THEOREM NothingIsOverwritten ==
    Spec /\ [](Orderly /\ \A p \in Page : kept[p] = {})
         /\ [][\A d \in Device, p \in Page : ~MapsUnseen(d, p)]_vars
      => NoSilentOverwrite
<1>1. TypesInv /\ OrderedInv /\ CurrentInv /\ KnownInv(Page) /\ [Next]_vars
         /\ Orderly /\ (\A p \in Page : kept[p] = {}) =>
         [\A p \in Page : versions'[p] # versions[p] =>
             CloudEdit(p) \in lineage[Last(versions'[p])]]_vars
  BY StepBuildsOn
<1> QED
  BY <1>1, KnownInvariant, TypesInvariant, OrderedInvariant, CurrentInvariant, PTL
     DEF Spec, NoSilentOverwrite

\* No page is added, and whatever is listed is listed for some page.
Narrow ==
    /\ \A d \in Device : budget.additions[d] = 0 /\ added[d].made = 0
    /\ \A d \in Device : /\ Stage(d) # "remap"
                         /\ Stage(d) \in {"listed", "apply", "applied"} =>
                               fetched[d].from < fetched[d].upto

\* Where no additions are left, no page is added.
LEMMA AdditionsKept ==
    ASSUME TypesInv, [Next]_vars, \A d \in Device : budget.additions[d] = 0
    PROVE  /\ budget'.additions = budget.additions
           /\ \A d \in Device : added'[d].made = added[d].made
<1>1. /\ budget \in Budget /\ added \in [Device -> [made: Nat, sent: Nat]]
  BY DEF TypesInv, BookTypes, CycleTypes
<1>2. CASE UNCHANGED vars
  BY <1>2 DEF vars, appVars, bookVars
<1>3. ASSUME NEW d \in Device, Edits(d)
      PROVE  added' = added /\ budget'.additions = budget.additions
  BY <1>1, <1>3 DEF Edits, Open, Close, Save, AddPage, bookVars, Budget
<1>4. ASSUME NEW d \in Device, Overlap \/ Failure \/ UNCHANGED budget
      PROVE  budget'.additions = budget.additions
  BY <1>1, <1>4 DEF Overlap, Failure, Budget
<1>5. ASSUME NEW d \in Device,
             Tracks(d) \/ HoldState(d) \/ StartCycle(d) \/ LoseConnection(d) \/ Crash(d)
      PROVE  added' = added /\ budget'.additions = budget.additions
  BY <1>4, <1>5 DEF Tracks, ReadMapping, ReadState, Track, HoldState, StartCycle,
                    LoseConnection, Crash, bookVars
<1>6. ASSUME NEW d \in Device, UploadPages(d)
      PROVE  /\ budget' = budget
             /\ \A x \in Device : added'[x].made = added[x].made
  BY <1>1, <1>6 DEF UploadPages, bookVars
<1>7. ASSUME NEW d \in Device,
             \/ Pushes(d) /\ ~UploadPages(d)
             \/ Pulls(d)
             \/ ServerCommit(d)
      PROVE  added' = added /\ budget' = budget
  <2>1. CASE Pushes(d) /\ ~UploadPages(d)
    BY <2>1 DEF Pushes, Prepare, UpdateRemote, MarkCommitSucceeded, QueueMetadata,
                ReplaceMappings, QueueLatestCreatedContent, PushAgain, bookVars
  <2>2. CASE Pulls(d)
    BY <2>2 DEF Pulls, ListChanges, Bootstrap, ApplyIfSafe, RebuildMappings,
                MarkChangesApplied, bookVars
  <2>3. CASE ServerCommit(d)
    BY <2>3 DEF ServerCommit, bookVars
  <2> QED
    BY <1>7, <2>1, <2>2, <2>3
<1> QED
  BY <1>2, <1>3, <1>5, <1>6, <1>7 DEF Next

\* So no mapping is replaced after an addition, and what is listed is not empty.
LEMMA StepNarrow == TypesInv /\ Narrow /\ [Next]_vars => Narrow'
<1> SUFFICES ASSUME TypesInv, Narrow, [Next]_vars PROVE Narrow'
  OBVIOUS
<1>1. \A d \in Device : budget'.additions[d] = 0 /\ added'[d].made = 0
  BY AdditionsKept DEF Narrow
<1> DEFINE Fits(x) == /\ Stage(x) # "remap"
                      /\ Stage(x) \in {"listed", "apply", "applied"} =>
                            fetched[x].from < fetched[x].upto
<1>2. /\ \A x \in Device : Fits(x) /\ added[x].made = 0 /\ added[x].sent \in Nat
      /\ cycle \in [Device -> [stage: Stages, pull: BOOLEAN, again: BOOLEAN]]
      /\ fetched \in [Device -> [response: Response, from: Nat, upto: Nat,
                                 snapshot: [Page -> Nat]]]
  BY DEF Narrow, TypesInv, CycleTypes
<1>3. CASE UNCHANGED vars
  BY <1>1, <1>3 DEF vars, appVars, Narrow, Stage
<1>4. CASE Next
  <2> PICK d \in Device :
         \/ Edits(d) \/ Tracks(d) \/ StartCycle(d) \/ HoldState(d)
         \/ TrackerDone(d) /\ (Pushes(d) \/ Pulls(d))
         \/ ServerCommit(d) \/ LoseConnection(d) \/ Crash(d)
    BY <1>4 DEF Next
  <2>1. /\ \A x \in Device \ {d} : cycle'[x] = cycle[x] /\ fetched'[x] = fetched[x]
        /\ Fits(d)'
    <3>1. CASE Edits(d) \/ Tracks(d) \/ HoldState(d)
      BY <1>2, <3>1 DEF Edits, Open, Close, Save, AddPage, Tracks, ReadMapping, ReadState,
                        Track, HoldState, Stage
    <3>2. CASE StartCycle(d) \/ PushAgain(d)
      BY <1>2, <3>2 DEF StartCycle, PushAgain, Stage
    <3>3. CASE LoseConnection(d) \/ Crash(d)
      BY <1>2, <3>3, Stopping DEF LoseConnection, Crash, Stage
    <3>4. CASE UploadPages(d)
      <4>1. ~(added[d].made > added[d].sent)
        BY <1>2
      <4>2. /\ fetched' = fetched
            /\ GoTo(d, "pull") \/ Stop(d)
        BY <3>4, <4>1 DEF UploadPages
      <4> QED
        BY <1>2, <4>2, GoingTo, Stopping DEF Stage, Stages
    <3>5. CASE Prepare(d) \/ UpdateRemote(d) \/ MarkCommitSucceeded(d) \/ QueueMetadata(d)
               \/ ReplaceMappings(d) \/ QueueLatestCreatedContent(d)
      <4>1. /\ fetched' = fetched
            /\ \/ \E s \in {"pages", "sent", "mapped", "follow", "push", "requeue", "drain"} :
                     GoTo(d, s)
               \/ Stop(d)
        BY <3>5 DEF Prepare, UpdateRemote, MarkCommitSucceeded, QueueMetadata,
                    ReplaceMappings, QueueLatestCreatedContent
      <4> QED
        BY <1>2, <4>1, GoingTo, Stopping DEF Stage, Stages
    <3>6. CASE ListChanges(d)
      <4>1. file[d].cursor \in Nat /\ Len(feed) \in Nat /\ file[d].cursor <= Len(feed)
        <5>1. file[d].cursor \in Nat /\ file[d].cursor <= Len(feed)
          BY SeenTypes, FileParts
        <5>2. feed \in Seq(Page \X Nat)
          BY DEF TypesInv, CloudTypes
        <5> QED
          BY <5>1, <5>2, LenProperties
      <4>2. CASE Stop(d) /\ UNCHANGED fetched
        BY <1>2, <4>2, Stopping DEF Stage
      <4>3. CASE /\ GoTo(d, "listed") /\ file[d].cursor # Len(feed)
                 /\ fetched' = [fetched EXCEPT ![d].from = file[d].cursor,
                                               ![d].upto = Len(feed)]
        <5>1. /\ fetched'[d].from = file[d].cursor /\ fetched'[d].upto = Len(feed)
              /\ \A x \in Device \ {d} : fetched'[x] = fetched[x]
          BY <1>2, <4>3
        <5> QED
          BY <1>2, <4>1, <4>3, <5>1, GoingTo DEF Stage, Stages
      <4> QED
        BY <3>6, <4>2, <4>3 DEF ListChanges
    <3>7. CASE Bootstrap(d)
      <4>1. /\ fetched'[d].from = fetched[d].from /\ fetched'[d].upto = fetched[d].upto
            /\ \A x \in Device \ {d} : fetched'[x] = fetched[x]
        BY <1>2, <3>7 DEF Bootstrap
      <4> QED
        BY <1>2, <3>7, <4>1, GoingTo DEF Bootstrap, Stage, Stages
    <3>8. CASE ApplyIfSafe(d) \/ RebuildMappings(d)
      <4>1. /\ fetched' = fetched /\ Stage(d) \in {"apply", "applied"}
            /\ GoTo(d, "applied") \/ GoTo(d, "advance") \/ Stop(d)
        BY <3>8 DEF ApplyIfSafe, RebuildMappings
      <4> QED
        BY <1>2, <4>1, GoingTo, Stopping DEF Stage, Stages
    <3>9. CASE MarkChangesApplied(d)
      BY <1>2, <3>9, Stopping DEF MarkChangesApplied, Stage
    <3>10. CASE ServerCommit(d)
      <4>1. \/ cycle' = cycle /\ fetched' = fetched
            \/ /\ GoTo(d, "answered")
               /\ \A x \in Device \ {d} : fetched'[x] = fetched[x]
        BY <1>2, <3>10 DEF ServerCommit
      <4> QED
        BY <1>2, <4>1, GoingTo DEF Stage, Stages
    <3> QED
      BY <3>1, <3>2, <3>3, <3>4, <3>5, <3>6, <3>7, <3>8, <3>9, <3>10 DEF Pushes, Pulls
  <2>2. \A x \in Device : Fits(x)'
    BY <1>2, <2>1 DEF Stage
  <2> QED
    BY <1>1, <2>2 DEF Narrow
<1> QED
  BY <1>3, <1>4

\* Where there is one page, every change that is listed is one of that page.
LEMMA NothingMappedUnseen ==
    ASSUME TypesInv, Narrow, NEW p \in Page, Page = {p}, NEW d \in Device
    PROVE  ~MapsUnseen(d, p)
<1> SUFFICES ASSUME Stage(d) = "applied" PROVE p \in Changed(d)
  BY DEF MapsUnseen, Narrow
<1> DEFINE i == fetched[d].from + 1
<1>1. /\ fetched[d].from < fetched[d].upto /\ fetched[d].upto <= Len(feed)
      /\ fetched[d].from \in Nat /\ fetched[d].upto \in Nat /\ Len(feed) \in Nat
  BY CloudTyped DEF Narrow, TypesInv, CycleTypes, CursorsReal
<1>2. i \in (fetched[d].from + 1)..fetched[d].upto /\ i \in 1..Len(feed)
  BY <1>1
<1>3. feed[i][1] = p
  BY <1>2, EventsTyped DEF TypesInv, CloudTypes
<1> QED
  BY <1>2, <1>3 DEF Changed

\* A library of one page to which none is added never maps a page unseen, since every
\* change that a pull lists is one of that page: its local content is the mapped revision
\* or was built upon it, until a conflict, with no hypothesis about bootstraps.
THEOREM OnePageStaysLocal ==
    ASSUME NEW CONSTANT q \in Page, Page = {q},
           \A b \in Budgets, d \in Device : b.additions[d] = 0
    PROVE  Spec => []MappedContentIsLocal
<1>1. Init => Narrow
  BY DEF Init, Narrow, Stage, Idle
<1>2. TypesInv /\ Narrow /\ [Next]_vars => Narrow'
  BY StepNarrow
<1>3. TypesInv /\ Narrow => \A d \in Device, p \in Page : ~MapsUnseen(d, p)
  BY NothingMappedUnseen
<1>4. (\A d \in Device, p \in Page : ~MapsUnseen(d, p))
         => [\A d \in Device, p \in Page : ~MapsUnseen(d, p)]_vars
  OBVIOUS
<1> QED
  BY <1>1, <1>2, <1>3, <1>4, MappedContentStaysLocal, TypesInvariant, PTL DEF Spec

=============================================================================
