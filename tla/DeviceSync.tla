----------------------------- MODULE DeviceSync -----------------------------
(***************************************************************************)
(* The devices of one account and the pages they share.  On each device    *)
(*   - the editor saves a page to the local library,                       *)
(*   - the mutation tracker, on a queue of its own, puts every save into   *)
(*     state.json as a pending operation on top of the revision that       *)
(*     resources.json maps the page to,                                    *)
(*   - one synchronization cycle at a time freezes the pending operations  *)
(*     as a batch, commits it, records its results, uploads pages the      *)
(*     cloud does not have and then pulls.                                 *)
(* The cloud keeps the versions of each page, the edits preserved as       *)
(* conflicts and the change feed; a batch is committed once per key.       *)
(* Page metadata never differ here: an operation still carries them, and a *)
(* conflict is followed by an operation of metadata alone.                 *)
(***************************************************************************)
EXTENDS Naturals, Sequences, SequencesExt

CONSTANTS
    Device,
    Page,
    MaxEdit,  \* bound: the edits of all devices together
    Budgets,  \* bounds: what else may happen in a behaviour, for each kind of one
    None

\* Saves of a page and additions of pages by a device, lost connections and
\* crashes, writes of a device's files that overlap; whether such writes
\* overlap at all, whether a page may be opened in a cycle that pulls, and
\* whether the app may end before a save is tracked.
Budget == [saves: [Device -> [Page -> Nat]], additions: [Device -> Nat],
           failures: Nat, overlaps: Nat,
           parallel: BOOLEAN, opensInPull: BOOLEAN, endsUntracked: BOOLEAN]

ASSUME DeviceAssumption ==
    /\ IsFiniteSet(Page)
    /\ MaxEdit \in Nat
    /\ \A b \in Budgets : b \in Budget /\ (b.overlaps > 0 => b.parallel)

VARIABLES
    \* the cloud
    versions,  \* the content of every revision of a page
    own,       \* the last revision of a page that a device made
    kept,      \* the edits preserved as conflicts with a page
    feed,      \* the change events
    answered,  \* the responses stored for a device's batches
    \* the files of a device
    local,     \* the content of a page
    mapping,   \* resources.json: the revision a page is mapped to
    file,      \* state.json: pending operations, the frozen batch, the cursor
    \* the running app
    editor,    \* the open page and the content in memory
    queue,     \* the saves the tracker has not handled
    tracker,   \* what the tracker has read of the files so far
    cycle,     \* where the synchronization cycle is
    held,      \* state.json as the cycle has read it
    fetched,   \* the response, changes and bootstrap the cycle works on
    wire,      \* the batch on its way to the server
    added,     \* the pages a device made of its own and those it has sent
    \* bookkeeping
    lineage,   \* the edits that an edit is built upon
    edits,
    budget     \* what may still happen

cloudVars == <<versions, own, kept, feed, answered>>
fileVars == <<local, mapping, file>>
appVars == <<editor, queue, tracker, cycle, held, fetched, wire, added>>
bookVars == <<lineage, edits, budget>>
vars == <<cloudVars, fileVars, appVars, bookVars>>

Edit == 0..MaxEdit
Op == [kind: {"none", "content", "metadata"}, base: Nat, edit: Edit]
Ops == [Page -> Op]
Batch == [key: Nat, ops: Ops]
File == [pending: Ops, batch: Batch, cursor: Nat]
Result == [outcome: {"none", "applied", "conflict"}, revision: Nat]
Response == [key: Nat, results: [Page -> Result]]
Stages == {"idle", "push", "sent", "answered", "mapped", "follow", "pages",
           "remap", "requeue", "drain", "pull", "listed", "apply", "applied",
           "advance"}

NoOp == [kind |-> "none", base |-> 0, edit |-> 0]
NoOps == [p \in Page |-> NoOp]
NoBatch == [key |-> 0, ops |-> NoOps]
NoResponse == [key |-> 0, results |-> [p \in Page |->
                                        [outcome |-> "none", revision |-> 0]]]
Closed == [page |-> None, edit |-> 0]
NotRead == [base |-> 0, file |-> None]
Idle == [stage |-> "idle", pull |-> FALSE, again |-> FALSE]
NothingFetched == [response |-> NoResponse, from |-> 0, upto |-> 0,
                   snapshot |-> [p \in Page |-> 0]]

TypeOK ==
    /\ versions \in [Page -> Seq(Edit)]
    /\ own \in [Device -> [Page -> Nat]]
    /\ kept \in [Page -> SUBSET Edit]
    /\ feed \in Seq(Page \X Nat)
    /\ answered \in [Device -> SUBSET Response]
    /\ local \in [Device -> [Page -> Edit]]
    /\ mapping \in [Device -> [Page -> Nat]]
    /\ file \in [Device -> File] /\ \A d \in Device : file[d].cursor <= Len(feed)
    /\ editor \in [Device -> [page: Page \union {None}, edit: Edit]]
    /\ queue \in [Device -> Seq([page: Page, edit: Edit])]
    /\ \A d \in Device : /\ tracker[d].base \in Nat
                         /\ tracker[d].file # None => tracker[d].file \in File
                         /\ held[d] # None => held[d] \in File
    /\ cycle \in [Device -> [stage: Stages, pull: BOOLEAN, again: BOOLEAN]]
    /\ fetched \in [Device -> [response: Response, from: Nat, upto: Nat,
                               snapshot: [Page -> Nat]]]
    /\ wire \in [Device -> Batch]
    /\ added \in [Device -> [made: Nat, sent: Nat]]
    /\ lineage \in [Edit -> SUBSET Edit]
    /\ edits \in Edit
    /\ budget \in Budget

Init ==
    /\ versions = [p \in Page |-> <<0>>]
    /\ own = [d \in Device |-> [p \in Page |-> 0]]
    /\ kept = [p \in Page |-> {}]
    /\ feed = <<>>
    /\ answered = [d \in Device |-> {}]
    /\ local = [d \in Device |-> [p \in Page |-> 0]]
    /\ mapping = [d \in Device |-> [p \in Page |-> 1]]
    /\ file = [d \in Device |-> [pending |-> NoOps, batch |-> NoBatch, cursor |-> 0]]
    /\ editor = [d \in Device |-> Closed]
    /\ queue = [d \in Device |-> <<>>]
    /\ tracker = [d \in Device |-> NotRead]
    /\ cycle = [d \in Device |-> Idle]
    /\ held = [d \in Device |-> None]
    /\ fetched = [d \in Device |-> NothingFetched]
    /\ wire = [d \in Device |-> NoBatch]
    /\ added = [d \in Device |-> [made |-> 0, sent |-> 0]]
    /\ lineage = [e \in Edit |-> {}]
    /\ edits = 0
    /\ budget \in Budgets

-----------------------------------------------------------------------------
(* The editor and the mutation tracker.                                    *)

Stage(d) == cycle[d].stage
GoTo(d, s) == cycle' = [cycle EXCEPT ![d].stage = s]
Stop(d) == cycle' = [cycle EXCEPT ![d] = Idle]

Open(d, p) ==
    /\ editor[d] = Closed
    /\ cycle[d].pull => budget.opensInPull
    /\ editor' = [editor EXCEPT ![d] = [page |-> p, edit |-> local[d][p]]]
    /\ UNCHANGED <<cloudVars, fileVars, queue, tracker, cycle, held, fetched, wire,
                   added, bookVars>>

Close(d) ==
    /\ editor[d] # Closed
    /\ editor' = [editor EXCEPT ![d] = Closed]
    /\ UNCHANGED <<cloudVars, fileVars, queue, tracker, cycle, held, fetched, wire,
                   added, bookVars>>

\* The page in memory, and all it was built upon, replaces the local one; the
\* tracker is told.
Save(d) ==
    LET p == editor[d].page
        e == edits + 1
    IN
    /\ editor[d] # Closed /\ budget.saves[d][p] > 0
    /\ edits < MaxEdit /\ edits' = e
    /\ budget' = [budget EXCEPT !.saves[d][p] = @ - 1]
    /\ lineage' = [lineage EXCEPT ![e] =
                      lineage[editor[d].edit] \union {editor[d].edit}]
    /\ local' = [local EXCEPT ![d][p] = e]
    /\ editor' = [editor EXCEPT ![d].edit = e]
    /\ queue' = [queue EXCEPT ![d] = Append(@, [page |-> p, edit |-> e])]
    /\ UNCHANGED <<cloudVars, mapping, file, tracker, cycle, held, fetched,
                   wire, added>>

\* A page the cloud does not have: its content is not followed here.
AddPage(d) ==
    /\ budget.additions[d] > 0
    /\ budget' = [budget EXCEPT !.additions[d] = @ - 1]
    /\ added' = [added EXCEPT ![d].made = @ + 1]
    /\ UNCHANGED <<cloudVars, fileVars, editor, queue, tracker, cycle, held, fetched,
                   wire, lineage, edits>>

\* An operation that is already pending keeps its base and takes the content.
Coalesced(op, base, e) ==
    IF op = NoOp THEN [kind |-> "content", base |-> base, edit |-> e]
    ELSE [op EXCEPT !.kind = "content", !.edit = e]

\* Unless its writes may overlap, the tracker is done before the cycle goes on.
TrackerDone(d) == queue[d] = <<>> \/ budget.parallel

\* The tracker reads the mapping, then state.json, then replaces state.json.
\* Only its own writes wait for each other: the cycle may write the files in
\* between.
Overlap == budget.overlaps > 0 /\ budget' = [budget EXCEPT !.overlaps = @ - 1]

ReadMapping(d) ==
    /\ queue[d] # <<>> /\ tracker[d] = NotRead
    /\ Overlap
    /\ tracker' = [tracker EXCEPT ![d].base = mapping[d][Head(queue[d]).page]]
    /\ UNCHANGED <<cloudVars, fileVars, editor, queue, cycle, held, fetched, wire,
                   added, lineage, edits>>

Base(d) == IF tracker[d] = NotRead THEN mapping[d][Head(queue[d]).page]
           ELSE tracker[d].base

ReadState(d) ==
    /\ queue[d] # <<>> /\ tracker[d].file = None
    /\ Overlap
    /\ tracker' = [tracker EXCEPT ![d] = [base |-> Base(d), file |-> file[d]]]
    /\ UNCHANGED <<cloudVars, fileVars, editor, queue, cycle, held, fetched, wire,
                   added, lineage, edits>>

Track(d) ==
    LET item == Head(queue[d])
        seen == IF tracker[d].file = None THEN file[d] ELSE tracker[d].file
    IN
    /\ queue[d] # <<>>
    /\ file' = [file EXCEPT ![d] =
          [seen EXCEPT !.pending[item.page] = Coalesced(@, Base(d), item.edit)]]
    /\ queue' = [queue EXCEPT ![d] = Tail(@)]
    /\ tracker' = [tracker EXCEPT ![d] = NotRead]
    /\ UNCHANGED <<cloudVars, local, mapping, editor, cycle, held, fetched,
                   wire, added, bookVars>>

-----------------------------------------------------------------------------
(* The cycle pushes ...                                                    *)

\* One cycle at a time; it pulls if the library is in view.
StartCycle(d) ==
    /\ Stage(d) = "idle"
    /\ cycle' = [cycle EXCEPT ![d] = [stage |-> "push", pull |-> editor[d] = Closed,
                                      again |-> FALSE]]
    /\ UNCHANGED <<cloudVars, fileVars, editor, queue, tracker, held, fetched, wire,
                   added, bookVars>>

\* The cycle's next write of state.json starts from what is in it now, and the
\* tracker may write it before that.
HoldState(d) ==
    /\ Stage(d) \in {"push", "mapped", "follow", "advance"} /\ held[d] = None
    /\ Overlap
    /\ held' = [held EXCEPT ![d] = file[d]]
    /\ UNCHANGED <<cloudVars, fileVars, editor, queue, tracker, cycle, fetched, wire,
                   added, lineage, edits>>

Seen(d) == IF held[d] = None THEN file[d] ELSE held[d]

WriteState(d, f) ==
    /\ file' = [file EXCEPT ![d] = f]
    /\ held' = [held EXCEPT ![d] = None]

FreshKey(d) == 1 + Max({wire[d].key} \union {x.key : x \in answered[d]})

\* Fault: what is pending joins the batch that is already on its way.
PrepareAgain(d) ==
    LET f == Seen(d)
        ops == [p \in Page |-> IF f.pending[p] = NoOp THEN f.batch.ops[p]
                               ELSE f.pending[p]]
        batch == [key |-> IF f.batch = NoBatch THEN FreshKey(d)
                          ELSE f.batch.key, ops |-> ops]
    IN
    /\ Stage(d) = "push"
    /\ IF ops = NoOps
       THEN /\ GoTo(d, "pages")
            /\ WriteState(d, f) /\ UNCHANGED wire
       ELSE /\ GoTo(d, "sent")
            /\ WriteState(d, [f EXCEPT !.pending = NoOps, !.batch = batch])
            /\ wire' = [wire EXCEPT ![d] = batch]
    /\ UNCHANGED <<cloudVars, local, mapping, editor, queue, tracker, fetched,
                   added, bookVars>>

\* Fault: the batch is only in memory until it is answered.
PrepareInMemory(d) ==
    LET batch == [key |-> FreshKey(d), ops |-> Seen(d).pending]
    IN
    /\ Stage(d) = "push"
    /\ WriteState(d, [Seen(d) EXCEPT !.pending = NoOps])
    /\ IF Seen(d).pending = NoOps THEN GoTo(d, "pages") /\ UNCHANGED wire
       ELSE GoTo(d, "sent") /\ wire' = [wire EXCEPT ![d] = batch]
    /\ UNCHANGED <<cloudVars, local, mapping, editor, queue, tracker, fetched,
                   added, bookVars>>

\* A batch that has no answer yet is sent again as it is; otherwise what is
\* pending becomes the batch.
Prepare(d) ==
    LET f == Seen(d)
        batch == IF f.batch # NoBatch THEN f.batch
                 ELSE [key |-> FreshKey(d), ops |-> f.pending]
    IN
    /\ Stage(d) = "push"
    /\ IF f.batch = NoBatch /\ f.pending = NoOps
       THEN /\ GoTo(d, "pages")
            /\ WriteState(d, f) /\ UNCHANGED wire
       ELSE /\ GoTo(d, "sent")
            /\ WriteState(d, [f EXCEPT !.pending = IF f.batch = NoBatch THEN NoOps ELSE @,
                                      !.batch = batch])
            /\ wire' = [wire EXCEPT ![d] = batch]
    /\ UNCHANGED <<cloudVars, local, mapping, editor, queue, tracker, fetched,
                   added, bookVars>>

CloudRevision(p) == Len(versions[p])
CloudEdit(p) == Last(versions[p])

Applies(op, p) == op.kind = "content" /\ op.edit # CloudEdit(p)
                  /\ op.base = CloudRevision(p)
Conflicts(op, p) == op.kind = "content" /\ op.edit # CloudEdit(p)
                    /\ op.base # CloudRevision(p)

\* The server commits a batch it has no record of and answers a repeated one
\* from the record.
ServerCommit(d) ==
    LET ops == wire[d].ops
        changed == {p \in Page : Applies(ops[p], p)}
        Outcome(p) == IF ops[p] = NoOp THEN "none"
                      ELSE IF Conflicts(ops[p], p) THEN "conflict" ELSE "applied"
    IN
    /\ wire[d] # NoBatch
    /\ wire' = [wire EXCEPT ![d] = NoBatch]
    /\ IF \E x \in answered[d] : x.key = wire[d].key THEN UNCHANGED cloudVars
       ELSE /\ versions' = [p \in Page |->
                  IF p \in changed THEN Append(versions[p], ops[p].edit)
                  ELSE versions[p]]
            /\ own' = [own EXCEPT ![d] = [p \in Page |->
                  IF p \in changed THEN CloudRevision(p) + 1 ELSE @[p]]]
            /\ kept' = [p \in Page |->
                  IF Conflicts(ops[p], p) THEN kept[p] \union {ops[p].edit}
                  ELSE kept[p]]
            /\ feed' = feed \o SetToSeq({<<p, CloudRevision(p) + 1>> : p \in changed})
            /\ answered' = [answered EXCEPT ![d] = @ \union
                  {[key |-> wire[d].key,
                    results |-> [p \in Page |->
                       [outcome |-> Outcome(p),
                        revision |-> IF ops[p] = NoOp THEN 0
                                     ELSE Len(versions'[p])]]]}]
    /\ IF Stage(d) = "sent"
       THEN /\ GoTo(d, "answered")
            /\ fetched' = [fetched EXCEPT ![d].response =
                  CHOOSE x \in answered'[d] : x.key = wire[d].key]
       ELSE UNCHANGED <<cycle, fetched>>
    /\ UNCHANGED <<fileVars, editor, queue, tracker, held, added, bookVars>>

Results(d) == fetched[d].response.results

\* The response arrives: resources.json first ...
UpdateRemote(d) ==
    /\ Stage(d) = "answered"
    /\ mapping' = [mapping EXCEPT ![d] = [p \in Page |->
                     IF Results(d)[p].outcome = "applied" THEN Results(d)[p].revision
                     ELSE mapping[d][p]]]
    /\ GoTo(d, "mapped")
    /\ UNCHANGED <<cloudVars, local, file, editor, queue, tracker, held,
                   fetched, wire, added, bookVars>>

\* Fault: pending operations keep the base they had.
NotRebased(pending, results) == pending

\* What is pending for a committed page is based on the result.
Rebased(pending, results) ==
    [p \in Page |-> IF pending[p] # NoOp /\ results[p].outcome # "none"
                    THEN [pending[p] EXCEPT !.base = results[p].revision]
                    ELSE pending[p]]

\* ... then state.json ...
MarkCommitSucceeded(d) ==
    /\ Stage(d) = "mapped"
    /\ IF Seen(d).batch.key = fetched[d].response.key
       THEN /\ WriteState(d, [Seen(d) EXCEPT !.pending = Rebased(@, Results(d)),
                                            !.batch = NoBatch])
            /\ GoTo(d, "follow")
       ELSE Stop(d) /\ UNCHANGED file /\ held' = [held EXCEPT ![d] = None]
    /\ UNCHANGED <<cloudVars, local, mapping, editor, queue, tracker, fetched,
                   wire, added, bookVars>>

\* ... and the metadata of an operation whose content was preserved as a
\* conflict go up once more by themselves.
QueueMetadata(d) ==
    /\ Stage(d) = "follow"
    /\ WriteState(d, [Seen(d) EXCEPT !.pending = [p \in Page |->
         IF Results(d)[p].outcome = "conflict" /\ @[p] = NoOp
         THEN [kind |-> "metadata", base |-> Results(d)[p].revision, edit |-> 0]
         ELSE @[p]]])
    /\ GoTo(d, "push")
    /\ UNCHANGED <<cloudVars, local, mapping, editor, queue, tracker,
                   fetched, wire, added, bookVars>>

-----------------------------------------------------------------------------
(* ... uploads the pages the cloud does not have ...                       *)

UploadPages(d) ==
    /\ Stage(d) = "pages"
    /\ IF added[d].made > added[d].sent /\ ~cycle[d].again
       THEN GoTo(d, "remap")
       ELSE IF cycle[d].pull THEN GoTo(d, "pull") ELSE Stop(d)
    /\ added' = IF cycle[d].again THEN added ELSE [added EXCEPT ![d].sent = added[d].made]
    /\ UNCHANGED <<cloudVars, fileVars, editor, queue, tracker, held, fetched, wire,
                   bookVars>>

Snapshot == [p \in Page |-> CloudRevision(p)]

\* Every page is mapped to its revision in a new bootstrap.
ReplaceMappings(d) ==
    /\ Stage(d) = "remap"
    /\ mapping' = [mapping EXCEPT ![d] = Snapshot]
    /\ GoTo(d, "requeue")
    /\ UNCHANGED <<cloudVars, local, file, editor, queue, tracker, held,
                   fetched, wire, added, bookVars>>

\* The local content of every page of the notebook is given to the tracker once
\* more ...
QueueLatestCreatedContent(d) ==
    /\ Stage(d) = "requeue"
    /\ queue' = [queue EXCEPT ![d] = @ \o
         SetToSeq({[page |-> p, edit |-> local[d][p]] : p \in Page})]
    /\ GoTo(d, "drain")
    /\ UNCHANGED <<cloudVars, fileVars, editor, tracker, held, fetched, wire, added,
                   bookVars>>

\* ... and is pushed when the tracker is through.
PushAgain(d) ==
    /\ Stage(d) = "drain" /\ queue[d] = <<>>
    /\ cycle' = [cycle EXCEPT ![d].stage = "push", ![d].again = TRUE]
    /\ UNCHANGED <<cloudVars, fileVars, editor, queue, tracker, held, fetched, wire,
                   added, bookVars>>

-----------------------------------------------------------------------------
(* ... and pulls.                                                          *)

HasPendingWork(d) == file[d].pending # NoOps \/ file[d].batch # NoBatch

ListChanges(d) ==
    /\ Stage(d) = "pull"
    /\ IF HasPendingWork(d) \/ file[d].cursor = Len(feed)
       THEN Stop(d) /\ UNCHANGED fetched
       ELSE /\ GoTo(d, "listed")
            /\ fetched' = [fetched EXCEPT ![d].from = file[d].cursor, ![d].upto = Len(feed)]
    /\ UNCHANGED <<cloudVars, fileVars, editor, queue, tracker, held, wire, added,
                   bookVars>>

\* Fault: the mappings are rebuilt as soon as the bootstrap is there.
BootstrapMaps(d) ==
    /\ Stage(d) = "listed"
    /\ fetched' = [fetched EXCEPT ![d].snapshot = Snapshot]
    /\ mapping' = [mapping EXCEPT ![d] = Snapshot]
    /\ GoTo(d, "apply")
    /\ UNCHANGED <<cloudVars, local, file, editor, queue, tracker, held, wire,
                   added, bookVars>>

Bootstrap(d) ==
    /\ Stage(d) = "listed"
    /\ fetched' = [fetched EXCEPT ![d].snapshot = Snapshot]
    /\ GoTo(d, "apply")
    /\ UNCHANGED <<cloudVars, fileVars, editor, queue, tracker, held, wire, added,
                   bookVars>>

Changed(d) == {feed[i][1] : i \in (fetched[d].from + 1)..fetched[d].upto}
Listed(d, p) == {feed[i][2] : i \in {j \in (fetched[d].from + 1)..fetched[d].upto :
                                       feed[j][1] = p}}

\* The listed revisions of a page continue the mapped one without a gap and end
\* at the one in the bootstrap.
Continuous(d, p) ==
    LET newer == {n \in Listed(d, p) : n > mapping[d][p]}
    IN  /\ newer = (mapping[d][p] + 1)..(mapping[d][p] + Cardinality(newer))
        /\ fetched[d].snapshot[p] = mapping[d][p] + Cardinality(newer)

\* Fault: the cursor moves on before the content is applied.
CursorFirst(d) ==
    /\ Stage(d) = "apply"
    /\ IF \A p \in Changed(d) : Continuous(d, p)
       THEN /\ file' = [file EXCEPT ![d].cursor = fetched[d].upto]
            /\ GoTo(d, "applied")
       ELSE Stop(d) /\ UNCHANGED file
    /\ UNCHANGED <<cloudVars, local, mapping, editor, queue, tracker, held,
                   fetched, wire, added, bookVars>>

\* The pages that changed take the content of the bootstrap, or nothing is
\* applied.
ApplyIfSafe(d) ==
    /\ Stage(d) = "apply"
    /\ IF \A p \in Changed(d) : Continuous(d, p)
       THEN /\ local' = [local EXCEPT ![d] = [p \in Page |->
                           IF p \in Changed(d) THEN versions[p][fetched[d].snapshot[p]]
                           ELSE @[p]]]
            /\ GoTo(d, "applied")
       ELSE Stop(d) /\ UNCHANGED local
    /\ UNCHANGED <<cloudVars, mapping, file, editor, queue, tracker, held,
                   fetched, wire, added, bookVars>>

\* Every page is mapped to its revision in the bootstrap ...
RebuildMappings(d) ==
    /\ Stage(d) = "applied"
    /\ mapping' = [mapping EXCEPT ![d] = fetched[d].snapshot]
    /\ GoTo(d, "advance")
    /\ UNCHANGED <<cloudVars, local, file, editor, queue, tracker, held,
                   fetched, wire, added, bookVars>>

\* Fault: the next pull starts after the first event that was not listed.
SkipOne(d) ==
    /\ Stage(d) = "advance"
    /\ WriteState(d, [Seen(d) EXCEPT !.cursor = fetched[d].upto + 1])
    /\ fetched' = [fetched EXCEPT ![d] = NothingFetched]
    /\ Stop(d)
    /\ UNCHANGED <<cloudVars, local, mapping, editor, queue, tracker, wire,
                   added, bookVars>>

\* ... and at last the cursor moves on.
MarkChangesApplied(d) ==
    /\ Stage(d) = "advance"
    /\ WriteState(d, [Seen(d) EXCEPT !.cursor = fetched[d].upto])
    /\ fetched' = [fetched EXCEPT ![d] = NothingFetched]
    /\ Stop(d)
    /\ UNCHANGED <<cloudVars, local, mapping, editor, queue, tracker, wire,
                   added, bookVars>>

-----------------------------------------------------------------------------
(* Failures.                                                               *)

Failure == budget.failures > 0 /\ budget' = [budget EXCEPT !.failures = @ - 1]

\* A request or its answer is lost: the cycle ends.  A request on its way may
\* still reach the server.
LoseConnection(d) ==
    /\ Stage(d) \in {"sent", "answered", "pages", "remap", "pull", "listed"}
    /\ Failure
    /\ Stop(d)
    /\ fetched' = [fetched EXCEPT ![d] = NothingFetched]
    /\ held' = [held EXCEPT ![d] = None]
    /\ UNCHANGED <<cloudVars, fileVars, editor, queue, tracker, wire, added, lineage,
                   edits>>

\* The app ends: what is not in a file is gone.
Crash(d) ==
    /\ Failure
    /\ queue[d] = <<>> \/ budget.endsUntracked
    /\ Stop(d)
    /\ editor' = [editor EXCEPT ![d] = Closed]
    /\ queue' = [queue EXCEPT ![d] = <<>>]
    /\ tracker' = [tracker EXCEPT ![d] = NotRead]
    /\ held' = [held EXCEPT ![d] = None]
    /\ fetched' = [fetched EXCEPT ![d] = NothingFetched]
    /\ UNCHANGED <<cloudVars, fileVars, wire, added, lineage, edits>>

-----------------------------------------------------------------------------

Edits(d) == (\E p \in Page : Open(d, p)) \/ Close(d) \/ Save(d) \/ AddPage(d)
Tracks(d) == ReadMapping(d) \/ ReadState(d) \/ Track(d)
Pushes(d) == \/ Prepare(d) \/ UpdateRemote(d) \/ MarkCommitSucceeded(d)
             \/ QueueMetadata(d) \/ UploadPages(d) \/ ReplaceMappings(d)
             \/ QueueLatestCreatedContent(d) \/ PushAgain(d)
Pulls(d) == \/ ListChanges(d) \/ Bootstrap(d) \/ ApplyIfSafe(d)
            \/ RebuildMappings(d) \/ MarkChangesApplied(d)

Next == \E d \in Device :
    \/ Edits(d) \/ Tracks(d) \/ StartCycle(d) \/ HoldState(d)
    \/ TrackerDone(d) /\ (Pushes(d) \/ Pulls(d))
    \/ ServerCommit(d) \/ LoseConnection(d) \/ Crash(d)

\* The app goes on with what it has begun, a cycle is started again and again
\* and the server answers.
Fairness == \A d \in Device :
    /\ WF_vars(Track(d)) /\ WF_vars(StartCycle(d)) /\ WF_vars(ServerCommit(d))
    /\ WF_vars(TrackerDone(d) /\ (Pushes(d) \/ Pulls(d)))

Spec == Init /\ [][Next]_vars
FairSpec == Spec /\ Fairness

-----------------------------------------------------------------------------
(* Properties.                                                             *)

\* A new version of a page is built upon the one it replaces: "the App never
\* uses unconditional last-writer-wins replacement" (product brief).
NoSilentOverwrite ==
    [][\A p \in Page : versions'[p] # versions[p] =>
          CloudEdit(p) \in lineage[Last(versions'[p])]]_vars

\* The tracker and the cycle take turns, a page is not opened while the cycle
\* may pull, and the app ends only when every save has been tracked (what
\* happens otherwise: README, known limits).
Orderly == ~budget.parallel /\ ~budget.opensInPull /\ ~budget.endsUntracked

\* No device conflicts with itself: where the tracker and the cycle take turns,
\* what a device sends is preserved as a conflict only with a version that another
\* device made.
ConflictsAreReal ==
    [][~budget.parallel => \A d \in Device, p \in Page :
          kept'[p] # kept[p] /\ wire'[d] # wire[d] => own[d][p] # CloudRevision(p)]_vars

Queued(d, p) ==
    {op.edit : op \in {o \in {file[d].pending[p], file[d].batch.ops[p]} :
                         o.kind = "content"}}

Reached(p) == kept[p] \union {versions[p][i] : i \in DOMAIN versions[p]}

\* In an orderly scenario an edit that is in state.json stays there, or a later
\* edit built upon it does, until the server has it, whatever is lost, repeated
\* or crashes.
QueuedUntilSent ==
    [][Orderly => \A d \in Device, p \in Page : \A e \in Queued(d, p) :
          \/ e \in Reached(p)'
          \/ \E f \in Queued(d, p)' : f = e \/ e \in lineage[f]]_vars

\* In an orderly scenario saved content that a device gives up is in the cloud,
\* as a version or as a conflict, is still to be sent, or lives on in what
\* replaces it.
NoEditLost ==
    [][Orderly => \A d \in Device, p \in Page : local'[d][p] # local[d][p] =>
          local[d][p] \in UNION {Reached(p), Queued(d, p), lineage'[local'[d][p]]}]_vars

\* Whatever the cursor has passed is in the mapping: a crash or a lost answer
\* never makes a device skip a change.
CursorCovered ==
    \A d \in Device : \A i \in 1..file[d].cursor : feed[i][2] <= mapping[d][feed[i][1]]

\* In an orderly scenario a device has the content of the revision a page is
\* mapped to, or content built upon it, until an edit of the page is preserved
\* as a conflict: what it sends next is built upon that revision.
MappedContentIsLocal ==
    Orderly => \A d \in Device, p \in Page :
        LET c == versions[p][mapping[d][p]]
        IN  kept[p] # {} \/ c = local[d][p] \/ c \in lineage[local[d][p]]

\* A device has nothing of a page to send or to track and no change of it to list.
CaughtUp(d, p) ==
    /\ Queued(d, p) = {} /\ \A i \in DOMAIN queue[d] : queue[d][i].page # p
    /\ \A i \in (file[d].cursor + 1)..Len(feed) : feed[i][1] # p

\* In an orderly scenario a device that has caught up with a page has the cloud's
\* content of it, whatever was lost, repeated, preserved as a conflict or crashed:
\* the next pull has nothing to bring and none is needed.
CaughtUpIsCurrent ==
    Orderly => \A d \in Device, p \in Page : CaughtUp(d, p) => local[d][p] = CloudEdit(p)

Converged == \A d \in Device :
    /\ ~HasPendingWork(d)
    /\ \A p \in Page : local[d][p] = CloudEdit(p)

\* In an orderly scenario, once every editor stays closed, every device comes
\* to hold the cloud's content of every page with nothing left to send, and it
\* stays so.
EventuallyConverged ==
    Orderly /\ <>[](\A d \in Device : editor[d] = Closed) => <>[]Converged

=============================================================================
