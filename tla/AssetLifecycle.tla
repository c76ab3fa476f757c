---------------------------- MODULE AssetLifecycle ----------------------------
(***************************************************************************)
(* The binary assets of one account: upload sessions in PostgreSQL, their  *)
(* bytes in the object storage, and the operator-run cleanup.              *)
(*                                                                         *)
(* A client opens a session, PUTs bytes straight into the storage under    *)
(* the session's staging key, and asks the server to complete: the server  *)
(* copies the bytes to the asset's final key, verifies the copy and only   *)
(* then inserts the ready asset.  The database and the storage have no     *)
(* common transaction, so every request and the cleanup are sequences of   *)
(* steps that interleave; a request or a cleanup may end after any of      *)
(* them, which rolls its transaction back and leaves the storage as it is. *)
(*                                                                         *)
(* There is one upload row per asset (a unique constraint), so rows,       *)
(* objects and cleanup candidates are all indexed by asset.  Time is kept  *)
(* as what is left of each deadline.                                       *)
(***************************************************************************)
EXTENDS Integers, FiniteSets

CONSTANTS
    Asset,         \* asset identifiers
    Request,       \* the requests the API serves at a time
    Content,       \* what a PUT may store
    Expected,      \* the bytes whose size and SHA-256 the session names
    SameSize,      \* the bytes of that size and media type
    None,          \* no object, no value
    SessionTime,   \* asset_upload_session_hours
    UrlTime,       \* asset_upload_url_minutes
    PendingGrace,  \* asset_cleanup_pending_grace_hours
    StagingGrace,  \* asset_cleanup_staging_grace_hours
    Quarantine,    \* asset_cleanup_orphan_quarantine_days
    MaxFaults      \* bound on aborted requests and failed storage calls

ASSUME AssetAssumption ==
    /\ Expected \in SameSize /\ SameSize \subseteq Content
    /\ None \notin Content \union Asset
    /\ {SessionTime, UrlTime, PendingGrace, StagingGrace, Quarantine}
            \subseteq Nat \ {0}
    /\ UrlTime < StagingGrace
    /\ MaxFaults \in Nat

VARIABLES
    status,         \* status[a]: of the upload row, "none" while there is none
    life,           \* time until expires_at, down to -PendingGrace
    rest,           \* time until a finished session's staging may be deleted
    stagingDeleted, \* staging_deleted_at is set
    url,            \* time until the last URL for a PUT expires
    ready,          \* the assets that have a row in table assets
    staging,        \* the object under the staging key
    final,          \* the object under the final key
    candidate,      \* status of the garbage collection candidate
    quarantine,     \* time until the candidate's eligible_after
    request,        \* the requests being served
    sweep,          \* the cleanup run
    faults          \* how many may still happen

uploads    == <<status, life, rest, stagingDeleted, url>>
objects    == <<staging, final>>
candidates == <<candidate, quarantine>>
vars == <<uploads, ready, objects, candidates, request, sweep, faults>>

Status == {"none", "pending", "completed", "cancelled", "expired"}
Candidate == {"none", "pending", "protected", "deleted"}

\* The steps of a completion that hold the lock of the upload row.
LockedStep == {"stat", "copy", "verify", "discard", "commit"}

Idle == [step |-> "idle"]

Handling ==
    {Idle}
    \union [step: {"lookup", "insert", "cancel"}, asset: Asset, aged: BOOLEAN]
    \union [step: {"reuse"}, asset: Asset, aged: BOOLEAN, revive: BOOLEAN,
            forget: BOOLEAN, renew: BOOLEAN, left: 0..SessionTime,
            valid: 0..UrlTime]
    \union [step: LockedStep \union {"tidy"}, asset: Asset, aged: BOOLEAN,
            etag: Content \union {None}]

NoSweep ==
    [step |-> "idle", lapsed |-> {}, residue |-> {}, reclaimed |-> {},
     listed |-> {}, unreferenced |-> {}, orphans |-> {}, victim |-> None,
     protected |-> {}, erased |-> {}]

Sweeping ==
    {s \in [step: {"idle", "expire", "staging", "reference", "orphans", "erase"},
            lapsed: SUBSET Asset, residue: SUBSET Asset,
            reclaimed: SUBSET Asset, listed: SUBSET Asset,
            unreferenced: SUBSET Asset, orphans: SUBSET Asset,
            victim: Asset \union {None}, protected: SUBSET Asset,
            erased: SUBSET Asset] :
        s.step = "erase" => s.victim \in Asset}

\* Rows, objects, requests and the cleanup are well-formed.
TypeOK ==
    /\ status \in [Asset -> Status]
    /\ life \in [Asset -> -PendingGrace..SessionTime]
    /\ rest \in [Asset -> 0..StagingGrace]
    /\ stagingDeleted \in [Asset -> BOOLEAN]
    /\ url \in [Asset -> 0..UrlTime]
    /\ ready \subseteq Asset
    /\ staging \in [Asset -> Content \union {None}]
    /\ final \in [Asset -> Content \union {None}]
    /\ candidate \in [Asset -> Candidate]
    /\ quarantine \in [Asset -> 0..Quarantine]
    /\ request \in [Request -> Handling]
    /\ sweep \in Sweeping
    /\ faults \in 0..MaxFaults

Init ==
    /\ status = [a \in Asset |-> "none"]
    /\ life = [a \in Asset |-> 0]
    /\ rest = [a \in Asset |-> 0]
    /\ stagingDeleted = [a \in Asset |-> FALSE]
    /\ url = [a \in Asset |-> 0]
    /\ ready = {}
    /\ staging = [a \in Asset |-> None]
    /\ final = [a \in Asset |-> None]
    /\ candidate = [a \in Asset |-> "none"]
    /\ quarantine = [a \in Asset |-> 0]
    /\ request = [r \in Request |-> Idle]
    /\ sweep = NoSweep
    /\ faults \in 0..MaxFaults

-----------------------------------------------------------------------------
(* Time, locks and faults.                                                 *)

Lower(x, y) == IF x < y THEN x ELSE y
Higher(x, y) == IF x < y THEN y ELSE x
Left(n) == Higher(n - 1, 0)

\* A request takes less than one unit of time: it is old after one tick.
Older(q) ==
    CASE q = Idle         -> q
      [] q.step = "reuse" -> [q EXCEPT !.aged = TRUE, !.left = Left(@),
                                       !.valid = Left(@)]
      [] OTHER            -> [q EXCEPT !.aged = TRUE]

\* A cleanup run reads the time once and is short against every deadline.
Tick ==
    /\ sweep = NoSweep
    /\ \A r \in Request : request[r] # Idle => ~request[r].aged
    /\ life' = [a \in Asset |-> IF status[a] = "none" THEN life[a]
                                ELSE Higher(life[a] - 1, -PendingGrace)]
    /\ rest' = [a \in Asset |-> Left(rest[a])]
    /\ url' = [a \in Asset |-> Left(url[a])]
    /\ quarantine' = [a \in Asset |-> Left(quarantine[a])]
    /\ request' = [r \in Request |-> Older(request[r])]
    /\ UNCHANGED <<status, stagingDeleted, ready, objects, candidate, sweep,
                   faults>>

\* A completion takes the lock of the upload row first of all.
Completing(a) ==
    \E r \in Request : request[r].step \in LockedStep /\ request[r].asset = a

\* A cleanup keeps the locks of the rows it has written until its only commit.
Cleaning(a) ==
    \/ sweep.step \notin {"idle", "expire"} /\ a \in sweep.lapsed
    \/ sweep.step \in {"orphans", "erase"} /\ a \in sweep.reclaimed

\* No other transaction holds the lock of the asset's upload row.
Unlocked(a) == ~Completing(a) /\ ~Cleaning(a)

Fails == faults > 0 /\ faults' = faults - 1

Works == UNCHANGED faults

Handle(r, q) == request' = [request EXCEPT ![r] = q]

Finish(r) == Handle(r, Idle)

-----------------------------------------------------------------------------
(* Opening an upload session, or renewing the one the asset has.           *)

\* A ready asset is refused; else the row is looked up.
StartCreate(r, a) ==
    /\ request[r] = Idle
    /\ a \notin ready
    /\ Handle(r, [step |-> "lookup", asset |-> a, aged |-> FALSE])
    /\ UNCHANGED <<uploads, ready, objects, candidates, sweep, faults>>

\* A URL is valid for a while, but no longer than its session.
SignedFor(left) == Lower(UrlTime, left)

\* Fault: a cancelled session is taken for an expired one.
RevivesCancelled(a) == status[a] \in {"pending", "expired", "cancelled"}

\* Completed and cancelled sessions are refused.
Reusable(a) == status[a] \in {"pending", "expired"}

\* Fault: a session is prolonged whenever it is used.
ProlongAnyway(a) == life[a] + SessionTime

\* The time a session has once it is renewed: the full time if it was past its
\* end, else what is left.
Renewed(a) == IF life[a] <= 0 THEN SessionTime ELSE life[a]

\* What is to be written is decided here, on the row as it is read: only
\* attributes that change are written, so a stagingDeleted that is not set when
\* the row is read is not reset either.  The URL is signed from here on.
Reuse(r, a) ==
    LET left == Renewed(a) IN
    IF Reusable(a)
    THEN Handle(r,
            [step |-> "reuse", asset |-> a, aged |-> request[r].aged,
             revive |-> status[a] = "expired",
             forget |-> status[a] = "expired" /\ stagingDeleted[a],
             renew |-> left # life[a], left |-> left, valid |-> SignedFor(left)])
    ELSE Finish(r)

FindUpload(r) ==
    LET a == request[r].asset IN
    /\ request[r].step = "lookup"
    /\ IF status[a] = "none"
       THEN Handle(r, [request[r] EXCEPT !.step = "insert"])
       ELSE Reuse(r, a)
    /\ UNCHANGED <<uploads, ready, objects, candidates, sweep, faults>>

\* The unique constraint decides between two insertions; the later one reuses
\* the row of the other.
InsertUpload(r) ==
    LET a == request[r].asset IN
    /\ request[r].step = "insert"
    /\ IF status[a] = "none"
       THEN /\ status' = [status EXCEPT ![a] = "pending"]
            /\ life' = [life EXCEPT ![a] = SessionTime]
            /\ url' = [url EXCEPT ![a] = SignedFor(SessionTime)]
            /\ Finish(r)
       ELSE /\ Reuse(r, a)
            /\ UNCHANGED <<status, life, url>>
    /\ UNCHANGED <<rest, stagingDeleted, ready, objects, candidates, sweep,
                   faults>>

\* The update waits for the lock and then changes the row whatever it is now.
WriteReuse(r) ==
    LET q == request[r]
        a == q.asset
    IN
    /\ q.step = "reuse"
    /\ Unlocked(a)
    /\ status' = [status EXCEPT ![a] = IF q.revive THEN "pending" ELSE @]
    /\ stagingDeleted' = [stagingDeleted EXCEPT ![a] = @ /\ ~q.forget]
    /\ life' = [life EXCEPT ![a] = IF q.renew THEN q.left ELSE @]
    /\ url' = [url EXCEPT ![a] = Higher(@, q.valid)]
    /\ Finish(r)
    /\ UNCHANGED <<rest, ready, objects, candidates, sweep, faults>>

\* The client PUTs bytes with a URL that has not expired.
PutObject(a, c) ==
    /\ url[a] > 0
    /\ staging[a] # c
    /\ staging' = [staging EXCEPT ![a] = c]
    /\ UNCHANGED <<uploads, ready, final, candidates, request, sweep, faults>>

-----------------------------------------------------------------------------
(* Completing a session.                                                   *)

\* A session that is not pending, or whose asset is ready, is answered without
\* a change.
StartComplete(r, a) ==
    /\ request[r] = Idle
    /\ Unlocked(a)
    /\ a \notin ready
    /\ status[a] = "pending" /\ life[a] > 0
    /\ Handle(r, [step |-> "stat", asset |-> a, aged |-> FALSE, etag |-> None])
    /\ UNCHANGED <<uploads, ready, objects, candidates, sweep, faults>>

CompleteExpired(r, a) ==
    /\ request[r] = Idle
    /\ Unlocked(a)
    /\ a \notin ready
    /\ status[a] = "pending" /\ life[a] <= 0
    /\ status' = [status EXCEPT ![a] = "expired"]
    /\ UNCHANGED <<life, rest, stagingDeleted, url, ready, objects, candidates,
                   request, sweep, faults>>

\* A missing object or one of another size or type ends the request.
StatStaging(r) ==
    LET a == request[r].asset IN
    /\ request[r].step = "stat"
    /\ IF staging[a] \in SameSize
       THEN Handle(r, [request[r] EXCEPT !.step = "copy", !.etag = staging[a]])
       ELSE Finish(r)
    /\ UNCHANGED <<uploads, ready, objects, candidates, sweep, faults>>

\* Only the bytes that were looked at are copied.
CopyObject(r) ==
    LET a == request[r].asset IN
    /\ request[r].step = "copy"
    /\ IF staging[a] = request[r].etag
       THEN /\ final' = [final EXCEPT ![a] = staging[a]]
            /\ Handle(r, [request[r] EXCEPT !.step = "verify"])
       ELSE Finish(r) /\ UNCHANGED final
    /\ UNCHANGED <<uploads, ready, staging, candidates, sweep, faults>>

\* Fault: size and type are checked again, the SHA-256 is not.
SameMetadata(a) == final[a] \in SameSize

Verified(a) == final[a] = Expected

VerifyFinal(r) ==
    LET a == request[r].asset IN
    /\ request[r].step = "verify"
    /\ CASE final[a] = None -> Finish(r)
         [] final[a] # None /\ Verified(a) ->
                Handle(r, [request[r] EXCEPT !.step = "commit"])
         [] OTHER -> Handle(r, [request[r] EXCEPT !.step = "discard"])
    /\ UNCHANGED <<uploads, ready, objects, candidates, sweep, faults>>

\* A copy that fails verification is deleted, if the storage will.
DiscardFinal(r) ==
    LET a == request[r].asset IN
    /\ request[r].step = "discard"
    /\ \/ Works /\ final' = [final EXCEPT ![a] = None]
       \/ Fails /\ UNCHANGED final
    /\ Finish(r)
    /\ UNCHANGED <<uploads, ready, staging, candidates, sweep>>

\* The asset, the status and the change event are committed together.
CommitAsset(r) ==
    LET a == request[r].asset IN
    /\ request[r].step = "commit"
    /\ ready' = ready \union {a}
    /\ status' = [status EXCEPT ![a] = "completed"]
    /\ rest' = [rest EXCEPT ![a] = StagingGrace]
    /\ Handle(r, [request[r] EXCEPT !.step = "tidy"])
    /\ UNCHANGED <<life, stagingDeleted, url, objects, candidates, sweep,
                   faults>>

\* The staging object is deleted after the commit, if the storage will.
TidyStaging(r) ==
    LET a == request[r].asset IN
    /\ request[r].step = "tidy"
    /\ \/ Works /\ staging' = [staging EXCEPT ![a] = None]
       \/ Fails /\ UNCHANGED staging
    /\ Finish(r)
    /\ UNCHANGED <<uploads, ready, final, candidates, sweep>>

-----------------------------------------------------------------------------
(* Cancelling a session, and requests that end early.                      *)

\* The row is read without a lock; only a pending session can be cancelled.
StartCancel(r, a) ==
    /\ request[r] = Idle
    /\ status[a] = "pending"
    /\ Handle(r, [step |-> "cancel", asset |-> a, aged |-> FALSE])
    /\ UNCHANGED <<uploads, ready, objects, candidates, sweep, faults>>

WriteCancel(r) ==
    LET a == request[r].asset IN
    /\ request[r].step = "cancel"
    /\ Unlocked(a)
    /\ status' = [status EXCEPT ![a] = "cancelled"]
    /\ rest' = [rest EXCEPT ![a] = StagingGrace]
    /\ Finish(r)
    /\ UNCHANGED <<life, stagingDeleted, url, ready, objects, candidates, sweep,
                   faults>>

\* The server stops, or the database or the storage fails: the transaction is
\* rolled back, objects stay as they are.
Abort(r) ==
    /\ request[r] # Idle
    /\ Fails
    /\ Finish(r)
    /\ UNCHANGED <<uploads, ready, objects, candidates, sweep>>

-----------------------------------------------------------------------------
(* One run of the cleanup, in one transaction that commits at its end.     *)

Sweep(s) == sweep' = s

\* Pending sessions that are past their end, read without a lock.
SweepStart ==
    /\ sweep = NoSweep
    /\ Sweep([NoSweep EXCEPT !.step = "expire",
                !.lapsed = {a \in Asset : status[a] = "pending" /\ life[a] <= 0}])
    /\ UNCHANGED <<uploads, ready, objects, candidates, request, faults>>

\* Fault: completed sessions are taken to have none.
ReclaimableUnlessCompleted(a) ==
    /\ ~stagingDeleted[a]
    /\ \/ /\ a \in sweep.lapsed \/ status[a] \in {"pending", "expired"}
          /\ life[a] <= -PendingGrace
       \/ a \notin sweep.lapsed /\ status[a] = "cancelled" /\ rest[a] = 0

\* A session whose staging object has waited long enough; the sessions this run
\* expires count as expired already.
Reclaimable(a) ==
    /\ ~stagingDeleted[a]
    /\ \/ /\ a \in sweep.lapsed \/ status[a] \in {"pending", "expired"}
          /\ life[a] <= -PendingGrace
       \/ /\ a \notin sweep.lapsed /\ status[a] \in {"cancelled", "completed"}
          /\ rest[a] = 0

\* The lapsed rows are written, which waits for their locks.
SweepExpire ==
    /\ sweep.step = "expire"
    /\ \A a \in sweep.lapsed : ~Completing(a)
    /\ Sweep([sweep EXCEPT !.step = "staging",
                           !.residue = {a \in Asset : Reclaimable(a)}])
    /\ UNCHANGED <<uploads, ready, objects, candidates, request, faults>>

\* A delete that fails is left for the next run.
SweepStaging(a) ==
    /\ sweep.step = "staging" /\ a \in sweep.residue
    /\ \/ /\ Works
          /\ staging' = [staging EXCEPT ![a] = None]
          /\ Sweep([sweep EXCEPT !.residue = @ \ {a},
                                 !.reclaimed = @ \union {a}])
       \/ /\ Fails
          /\ Sweep([sweep EXCEPT !.residue = @ \ {a}])
          /\ UNCHANGED staging
    /\ UNCHANGED <<uploads, ready, final, candidates, request>>

SweepList ==
    /\ sweep.step = "staging" /\ sweep.residue = {}
    /\ Sweep([sweep EXCEPT !.step = "reference",
                           !.listed = {a \in Asset : final[a] # None}])
    /\ UNCHANGED <<uploads, ready, objects, candidates, request, faults>>

\* New objects become candidates, and those that were protected: not one under
\* a key where the cleanup deleted an object before.
Registrable(a) == candidate[a] \in {"none", "protected"}

\* Fault: the time is compared the wrong way round.
StillQuarantined(a) == candidate[a] = "pending" /\ quarantine[a] > 0

Eligible(a) == candidate[a] = "pending" /\ quarantine[a] = 0

\* Objects no asset refers to are registered; the rows of the deleted staging
\* objects are written by the way.  Then the candidates whose quarantine is
\* over are read.
SweepReference ==
    /\ sweep.step = "reference"
    /\ \A a \in sweep.reclaimed : ~Completing(a)
    /\ Sweep([sweep EXCEPT !.step = "orphans",
            !.unreferenced = {a \in sweep.listed \ ready : Registrable(a)},
            !.orphans = {a \in Asset : Eligible(a)}])
    /\ UNCHANGED <<uploads, ready, objects, candidates, request, faults>>

\* Fault: the last look at the references is left out.
NeverReferenced(a) == FALSE

Referenced(a) == a \in ready

\* The last look at the references before the object is deleted.
SweepCheck(a) ==
    /\ sweep.step = "orphans" /\ a \in sweep.orphans
    /\ IF Referenced(a)
       THEN Sweep([sweep EXCEPT !.orphans = @ \ {a},
                                !.protected = @ \union {a}])
       ELSE Sweep([sweep EXCEPT !.step = "erase", !.orphans = @ \ {a},
                                !.victim = a])
    /\ UNCHANGED <<uploads, ready, objects, candidates, request, faults>>

SweepErase ==
    LET a == sweep.victim IN
    /\ sweep.step = "erase"
    /\ \/ /\ Works
          /\ final' = [final EXCEPT ![a] = None]
          /\ Sweep([sweep EXCEPT !.step = "orphans", !.victim = None,
                                 !.erased = @ \union {a}])
       \/ /\ Fails
          /\ Sweep([sweep EXCEPT !.step = "orphans", !.victim = None])
          /\ UNCHANGED final
    /\ UNCHANGED <<uploads, ready, staging, candidates, request>>

SweepCommit ==
    LET s == sweep IN
    /\ s.step = "orphans" /\ s.orphans = {}
    /\ status' = [a \in Asset |-> IF a \in s.lapsed THEN "expired"
                                                    ELSE status[a]]
    /\ stagingDeleted' = [a \in Asset |-> stagingDeleted[a]
                                          \/ a \in s.reclaimed]
    /\ candidate' = [a \in Asset |->
            CASE a \in s.unreferenced -> "pending"
              [] a \in s.protected    -> "protected"
              [] a \in s.erased       -> "deleted"
              [] OTHER                -> candidate[a]]
    /\ quarantine' = [a \in Asset |-> IF a \in s.unreferenced THEN Quarantine
                                                        ELSE quarantine[a]]
    /\ Sweep(NoSweep)
    /\ UNCHANGED <<life, rest, url, ready, objects, request, faults>>

\* The run ends early: what it wrote is rolled back, what it deleted is gone.
SweepAbort ==
    /\ sweep # NoSweep
    /\ Fails
    /\ Sweep(NoSweep)
    /\ UNCHANGED <<uploads, ready, objects, candidates, request>>

-----------------------------------------------------------------------------
CreateStep(r) ==
    \/ \E a \in Asset : StartCreate(r, a)
    \/ FindUpload(r)
    \/ InsertUpload(r)
    \/ WriteReuse(r)

CompleteStep(r) ==
    \/ \E a \in Asset : StartComplete(r, a) \/ CompleteExpired(r, a)
    \/ StatStaging(r)
    \/ CopyObject(r)
    \/ VerifyFinal(r)
    \/ DiscardFinal(r)
    \/ CommitAsset(r)
    \/ TidyStaging(r)

CancelStep(r) ==
    \/ \E a \in Asset : StartCancel(r, a)
    \/ WriteCancel(r)

SweepStep ==
    \/ SweepStart
    \/ SweepExpire
    \/ \E a \in Asset : SweepStaging(a)
    \/ SweepList
    \/ SweepReference
    \/ \E a \in Asset : SweepCheck(a)
    \/ SweepErase
    \/ SweepCommit
    \/ SweepAbort

Next ==
    \/ Tick
    \/ \E a \in Asset, c \in Content : PutObject(a, c)
    \/ \E r \in Request :
            CreateStep(r) \/ CompleteStep(r) \/ CancelStep(r) \/ Abort(r)
    \/ SweepStep

Spec == Init /\ [][Next]_vars

-----------------------------------------------------------------------------
(* Properties.                                                             *)

\* The object of a ready asset, if it is there, holds the bytes the client
\* announced: whatever is PUT, retried or completed twice meanwhile, nothing
\* else is copied over the bytes that were verified.
ReadyBytesVerified == \A a \in ready : final[a] \in {None, Expected}

\* A session that is cancelled with no other work on its row under way.
Settled(a) ==
    /\ status[a] = "cancelled"
    /\ ~Completing(a) /\ a \notin sweep.lapsed
    /\ \A r \in Request : request[r].step = "reuse" => request[r].asset # a

\* Such a session stays cancelled as long as it has a row: no later request
\* renews or completes it and no cleanup expires it.
CancelledForGood ==
    [][\A a \in Asset :
            Settled(a) /\ status'[a] # "none"
                => Settled(a)' /\ (a \in ready' => a \in ready)]_vars

=============================================================================
