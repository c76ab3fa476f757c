---------------------------- MODULE AccountDeletion ----------------------------
(***************************************************************************)
(* The deletion of an account, together with the uploads and the cleanup   *)
(* that go on around it (AssetLifecycle).                                  *)
(*                                                                         *)
(* The request disables the account and records which objects it has, then *)
(* an attempt removes them all and at last the account's row, and with it  *)
(* every row that refers to it.  An attempt that cannot finish leaves the  *)
(* request pending; an operator's command retries it.  Requests that were  *)
(* let in before the account was disabled, and URLs signed by then, are    *)
(* still at work.                                                          *)
(***************************************************************************)
EXTENDS AssetLifecycle

CONSTANTS
    Worker,  \* the attempts in progress at a time: requests or retries
    Budgets  \* bounds on what may happen in a behaviour, one of them chosen: how
             \* many requests are served at a time, whether the operator runs
             \* the cleanup, whether the user deletes the account and how many
             \* faults there are

ASSUME BudgetAssumption ==
    Budgets \subseteq [requests: Nat, cleanups: BOOLEAN, deletion: BOOLEAN,
                       faults: 0..MaxFaults]

VARIABLES
    account,   \* the user row: active, disabled (is_active unset) or erased
    deletion,  \* status of the deletion request
    objectKeys,\* the object_keys it records
    worker,    \* the attempts in progress
    budget     \* the bounds of this behaviour

deletionVars == <<account, deletion, objectKeys, worker, budget>>
allVars == <<vars, deletionVars>>

Place == {"staging", "final"}
Key == Place \X Asset

Stored == {k \in Key : IF k[1] = "staging" THEN staging[k[2]] # None
                                           ELSE final[k[2]] # None}

Resting == [step |-> "idle", keys |-> {}, remaining |-> {}]

Attempting ==
    [step: {"idle", "begin", "order", "list", "delete", "again", "erase"},
     keys: SUBSET Key, remaining: SUBSET Key]

\* The account, its deletion and the attempts are well-formed as well.
AccountTypeOK ==
    /\ TypeOK
    /\ account \in {"active", "disabled", "erased"}
    /\ deletion \in {"none", "pending", "completed"}
    /\ objectKeys \subseteq Key
    /\ worker \in [Worker -> Attempting]
    /\ budget \in Budgets

AccountInit ==
    /\ Init
    /\ account = "active"
    /\ deletion = "none"
    /\ objectKeys = {}
    /\ worker = [w \in Worker |-> Resting]
    /\ budget \in Budgets
    /\ faults = budget.faults

-----------------------------------------------------------------------------
(* Uploads and the cleanup while the account goes.                         *)

Rows(S) == \A a \in S : status[a] # "none"

\* Only an active account is let in.
LetIn(r) ==
    request[r] = Idle =>
        /\ account = "active"
        /\ Cardinality({q \in Request : request[q] # Idle}) < budget.requests

\* A request that finds the account's rows gone fails when it writes: the row
\* to update does not exist, the row to insert refers to no user.
RejectErased(r) ==
    /\ account = "erased"
    /\ request[r].step \in {"lookup", "insert", "reuse", "cancel"}
    /\ Finish(r)
    /\ UNCHANGED <<uploads, ready, objects, candidates, sweep, faults>>

RequestStep(r) ==
    \/ LetIn(r) /\ account # "erased"
       /\ (CreateStep(r) \/ CompleteStep(r) \/ CancelStep(r))
    \/ TidyStaging(r)
    \/ RejectErased(r)
    \/ Abort(r)

\* A cleanup whose rows have gone fails when it writes them.
SweepLosesRows ==
    /\ \/ sweep.step = "expire" /\ ~Rows(sweep.lapsed)
       \/ sweep.step = "reference" /\ ~Rows(sweep.reclaimed)
    /\ Sweep(NoSweep)
    /\ UNCHANGED <<uploads, ready, objects, candidates, request, faults>>

CleanupStep ==
    \/ /\ budget.cleanups
       /\ sweep.step = "expire" => Rows(sweep.lapsed)
       /\ sweep.step = "reference" => Rows(sweep.reclaimed)
       /\ SweepStep
    \/ SweepLosesRows

\* An attempt is short against every deadline.
Wait == Tick /\ \A w \in Worker : worker[w] = Resting

AssetStep ==
    /\ \/ Wait
       \/ \E a \in Asset, c \in Content : PutObject(a, c)
       \/ \E r \in Request : RequestStep(r)
       \/ CleanupStep
    /\ UNCHANGED deletionVars

-----------------------------------------------------------------------------
(* The request and its attempts.                                           *)

Turn(w, s) == worker' = [worker EXCEPT ![w] = s]

Rest(w) == Turn(w, Resting)

\* The request of a user who is signed in.
RequestDeletion(w) ==
    /\ worker[w] = Resting
    /\ account = "active" /\ budget.deletion
    /\ Turn(w, [Resting EXCEPT !.step = "begin"])
    /\ UNCHANGED <<vars, account, deletion, objectKeys, budget>>

\* A request that exists already is attempted again; a new one starts from the
\* objects there are, or not at all if they cannot be listed.
BeginDeletion(w) ==
    /\ worker[w].step = "begin"
    /\ \/ /\ Works
          /\ IF deletion = "none"
             THEN Turn(w, [worker[w] EXCEPT !.step = "order", !.keys = Stored])
             ELSE Turn(w, [worker[w] EXCEPT !.step = "list",
                                            !.keys = objectKeys])
       \/ /\ deletion = "none" /\ Fails
          /\ Rest(w)
    /\ UNCHANGED <<uploads, ready, objects, candidates, request, sweep,
                   account, deletion, objectKeys, budget>>

\* The account is disabled, its devices and tokens are revoked and the request
\* is recorded in one commit; a user has one request only.
PlaceRequest(w) ==
    /\ worker[w].step = "order"
    /\ IF deletion = "none"
       THEN /\ account' = "disabled"
            /\ deletion' = "pending"
            /\ objectKeys' = worker[w].keys
            /\ Turn(w, [worker[w] EXCEPT !.step = "list"])
       ELSE Rest(w) /\ UNCHANGED <<account, deletion, objectKeys, budget>>
    /\ UNCHANGED <<vars, budget>>

\* The operator's command takes up a pending request.
RetryDeletion(w) ==
    /\ worker[w] = Resting
    /\ deletion = "pending"
    /\ Turn(w, [Resting EXCEPT !.step = "list", !.keys = objectKeys])
    /\ UNCHANGED <<vars, account, deletion, objectKeys, budget>>

\* Fault: only the objects that rows refer to are deleted.
ReferredKeys(w) ==
    {k \in worker[w].keys \union Stored : k[1] = "staging" \/ k[2] \in ready}

\* The recorded objects and those there are now.
KeysToDelete(w) == worker[w].keys \union Stored

ListKeys(w) ==
    /\ worker[w].step = "list"
    /\ \/ /\ Works
          /\ Turn(w, [worker[w] EXCEPT !.step = "delete",
                                       !.keys = KeysToDelete(w)])
       \/ /\ Fails
          /\ Rest(w)
    /\ UNCHANGED <<uploads, ready, objects, candidates, request, sweep,
                   account, deletion, objectKeys, budget>>

\* Each object is deleted; one that cannot be is kept for the next attempt.
DeleteKey(w, k) ==
    /\ worker[w].step = "delete" /\ k \in worker[w].keys
    /\ \/ /\ Works
          /\ staging' = [staging EXCEPT ![k[2]] =
                            IF k[1] = "staging" THEN None ELSE @]
          /\ final' = [final EXCEPT ![k[2]] =
                            IF k[1] = "final" THEN None ELSE @]
          /\ Turn(w, [worker[w] EXCEPT !.keys = @ \ {k}])
       \/ /\ Fails
          /\ Turn(w, [worker[w] EXCEPT !.keys = @ \ {k},
                                       !.remaining = @ \union {k}])
          /\ UNCHANGED objects
    /\ UNCHANGED <<uploads, ready, candidates, request, sweep,
                   account, deletion, objectKeys, budget>>

RecordRemaining(w) ==
    /\ worker[w].step = "delete" /\ worker[w].keys = {}
    /\ IF worker[w].remaining = {}
       THEN Turn(w, [worker[w] EXCEPT !.step = "again"]) /\ UNCHANGED objectKeys
       ELSE Rest(w) /\ objectKeys' = worker[w].remaining
    /\ UNCHANGED <<vars, account, deletion, budget>>

\* Objects that were created meanwhile keep the request pending.
ListAgain(w) ==
    /\ worker[w].step = "again"
    /\ \/ /\ Works
          /\ IF Stored = {}
             THEN /\ Turn(w, [worker[w] EXCEPT !.step = "erase"])
                  /\ UNCHANGED objectKeys
             ELSE /\ Rest(w)
                  /\ objectKeys' = Stored
       \/ /\ Fails
          /\ Rest(w)
          /\ objectKeys' = {}
    /\ UNCHANGED <<uploads, ready, objects, candidates, request, sweep,
                   account, deletion, budget>>

\* The user row goes and takes the rows of uploads and assets with it, once
\* nobody holds the lock of one of them.
EraseAccount(w) ==
    /\ worker[w].step = "erase"
    /\ \A a \in Asset : Unlocked(a)
    /\ account' = "erased"
    /\ deletion' = "completed"
    /\ objectKeys' = {}
    /\ status' = [a \in Asset |-> "none"]
    /\ life' = [a \in Asset |-> 0]
    /\ rest' = [a \in Asset |-> 0]
    /\ stagingDeleted' = [a \in Asset |-> FALSE]
    /\ ready' = {}
    /\ Rest(w)
    /\ UNCHANGED <<url, objects, candidates, request, sweep, faults, budget>>

\* The server or the command ends, or the database fails.
AbandonAttempt(w) ==
    /\ worker[w] # Resting
    /\ Fails
    /\ Rest(w)
    /\ UNCHANGED <<uploads, ready, objects, candidates, request, sweep,
                   account, deletion, objectKeys, budget>>

AttemptStep(w) ==
    \/ BeginDeletion(w)
    \/ PlaceRequest(w)
    \/ ListKeys(w)
    \/ \E k \in Key : DeleteKey(w, k)
    \/ RecordRemaining(w)
    \/ ListAgain(w)
    \/ EraseAccount(w)

DeletionStep(w) ==
    \/ RequestDeletion(w)
    \/ RetryDeletion(w)
    \/ AttemptStep(w)
    \/ AbandonAttempt(w)

AccountNext == AssetStep \/ \E w \in Worker : DeletionStep(w)

AccountSpec == AccountInit /\ [][AccountNext]_allVars

-----------------------------------------------------------------------------
\* The server works on the requests it has begun and the clock goes on; the
\* operator keeps running the cleanup, "a routine maintenance operation" to the
\* server's README, and the command that retries deletions.  Each may have to
\* wait for a lock again and again.
Fairness ==
    /\ SF_allVars(Wait /\ UNCHANGED deletionVars)
    /\ SF_allVars(CleanupStep /\ UNCHANGED deletionVars)
    /\ \A r \in Request :
        SF_allVars(request[r] # Idle /\ RequestStep(r) /\ UNCHANGED deletionVars)
    /\ \A w \in Worker :
        SF_allVars(RetryDeletion(w) \/ AttemptStep(w))

AccountFairSpec == AccountSpec /\ Fairness

-----------------------------------------------------------------------------
(* Properties.                                                             *)

\* While the account is active, the object of a ready asset is replaced or
\* removed by nothing but a cleanup that looked for references before the asset
\* was committed: a ready asset never becomes the cleanup's victim, and neither
\* completions nor an attempt to delete the account touch its object.
ReadyObjectKept ==
    [][\A a \in ready :
        /\ sweep'.victim = a => sweep.victim = a
        /\ final[a] # None /\ final'[a] # final[a] =>
                a = sweep.victim \/ account # "active"]_allVars

\* Where the operator runs the cleanup, an object no asset refers to is eventually
\* deleted or referred to, unless the candidate row of an earlier object under
\* its key says it was deleted.
OrphansReclaimed ==
    \A a \in Asset :
        budget.cleanups /\ final[a] # None /\ a \notin ready
            ~> final[a] = None \/ a \in ready \/ candidate[a] = "deleted"

\* Where the operator runs the cleanup, what is PUT under the staging key of a
\* ready asset is eventually gone for good, unless the row already says so.
ResidueReclaimed ==
    \A a \in Asset :
        budget.cleanups /\ a \in ready
            ~> (staging[a] = None /\ url[a] = 0) \/ stagingDeleted[a]

\* A deletion that was accepted is completed, whatever fails on the way.
ErasureCompletes == deletion = "pending" ~> deletion = "completed"

=============================================================================
