--------------------------- MODULE CommitEndpoint ---------------------------
(***************************************************************************)
(* POST /sync/commit and /sync/merge/commit as database transactions.  A    *)
(* device sends a batch under an idempotency key and sends it again until   *)
(* it has an answer, so several attempts of one request, and attempts of    *)
(* other requests, run at the same time.  The key is reserved by a row of   *)
(* sync_commits inserted in the transaction that applies the batch: the     *)
(* insert of a second attempt waits until the first commits or rolls back.  *)
(* A failed operation, a lost connection or a restart of the server rolls   *)
(* the transaction back; an answer may be lost on its way to the device.    *)
(***************************************************************************)
EXTENDS Naturals, Sequences

CONSTANTS
    Request,     \* requests; equal requests have equal hashes
    Key,         \* idempotency keys, each with its account and device
    KeyOf,       \* the key a request carries
    Attempt,     \* attempts in progress at the same time
    None,        \* no attempt, no request
    MaxFailures  \* bound on rollbacks and restarts

ASSUME EndpointAssumption ==
    /\ KeyOf \in [Request -> Key]
    /\ None \notin Request /\ None \notin Attempt
    /\ MaxFailures \in Nat

VARIABLES
    stage,    \* how far each attempt is
    request,  \* the request an attempt carries
    answer,   \* the answer on its way back
    reserved, \* who holds the uncommitted reservation of a key
    rowLock,  \* who holds the row locks of the library
    records,  \* the committed rows of sync_commits
    library,  \* the batches committed to the library, in order
    outcome,  \* what the device knows of each request
    failures

vars == <<stage, request, answer, reserved, rowLock, records, library, outcome,
          failures>>

Promise == INSTANCE ExactlyOnce
    WITH library <- library, outcome <- outcome, Request <- Request, KeyOf <- KeyOf

Stages == {"idle", "find", "reserve", "apply", "commit", "answered"}

Record == [request: Request, position: Nat]

Answer == [kind: {"none", "success", "reused", "failed"}, position: Nat]

TypeOK ==
    /\ stage \in [Attempt -> Stages]
    /\ request \in [Attempt -> Request \union {None}]
    /\ answer \in [Attempt -> Answer]
    /\ reserved \in [Key -> Attempt \union {None}]
    /\ rowLock \in Attempt \union {None}
    /\ records \subseteq Record
    /\ library \in Seq(Request)
    /\ outcome \in [Request -> [kind: {"open", "success", "refused"}, position: Nat]]
    /\ failures \in 0..MaxFailures

NoAnswer == [kind |-> "none", position |-> 0]

Init ==
    /\ stage = [a \in Attempt |-> "idle"]
    /\ request = [a \in Attempt |-> None]
    /\ answer = [a \in Attempt |-> NoAnswer]
    /\ reserved = [k \in Key |-> None]
    /\ rowLock = None
    /\ records = {}
    /\ library = <<>>
    /\ outcome = [q \in Request |-> Promise!Open]
    /\ failures = 0

-----------------------------------------------------------------------------
(* The transaction of one attempt.                                         *)

GoTo(a, s) == stage' = [stage EXCEPT ![a] = s]

Reply(a, kind, position) ==
    /\ GoTo(a, "answered")
    /\ answer' = [answer EXCEPT ![a] = [kind |-> kind, position |-> position]]

\* A request the device has no answer to is sent, or sent once more.
Send(a, q) ==
    /\ stage[a] = "idle" /\ outcome[q] = Promise!Open
    /\ GoTo(a, "find")
    /\ request' = [request EXCEPT ![a] = q]
    /\ UNCHANGED <<answer, reserved, rowLock, records, library, outcome, failures>>

KeyOfAttempt(a) == KeyOf[request[a]]

Committed(a) == {x \in records : KeyOf[x.request] = KeyOfAttempt(a)}

\* Fault: the hash of the request is not compared.
ReplayAnything(a) ==
    \E x \in Committed(a) :
        /\ Reply(a, "success", x.position)
        /\ UNCHANGED <<request, reserved, rowLock, records, library, outcome,
                       failures>>

\* The stored response answers an exact retry; another request under the same
\* key is refused.
AnswerFromRecord(a) ==
    \E x \in Committed(a) :
        /\ IF x.request = request[a] THEN Reply(a, "success", x.position)
                                     ELSE Reply(a, "reused", 0)
        /\ UNCHANGED <<request, reserved, rowLock, records, library, outcome,
                       failures>>

Find(a) ==
    /\ stage[a] = "find"
    /\ \/ AnswerFromRecord(a)
       \/ /\ Committed(a) = {}
          /\ GoTo(a, "reserve")
          /\ UNCHANGED <<request, answer, reserved, rowLock, records, library,
                         outcome, failures>>

\* Fault: the unique index does not make a second insert wait.
ReserveAtOnce(a) ==
    /\ stage[a] = "reserve"
    /\ reserved' = [reserved EXCEPT ![KeyOfAttempt(a)] = a]
    /\ GoTo(a, "apply")
    /\ UNCHANGED <<request, answer, rowLock, records, library, outcome, failures>>

\* INSERT ... ON CONFLICT DO NOTHING waits for the attempt that inserted the
\* same key and not yet ended.  If that one committed, nothing is inserted and
\* the record is looked up again.
Reserve(a) ==
    /\ stage[a] = "reserve"
    /\ reserved[KeyOfAttempt(a)] = None
    /\ \/ AnswerFromRecord(a)
       \/ /\ Committed(a) = {}
          /\ reserved' = [reserved EXCEPT ![KeyOfAttempt(a)] = a]
          /\ GoTo(a, "apply")
          /\ UNCHANGED <<request, answer, rowLock, records, library, outcome,
                         failures>>

\* Every operation of the batch is applied; the rows stay locked to the end.
Apply(a) ==
    /\ stage[a] = "apply"
    /\ rowLock = None
    /\ rowLock' = a
    /\ GoTo(a, "commit")
    /\ UNCHANGED <<request, answer, reserved, records, library, outcome, failures>>

Release(A) ==
    /\ reserved' = [k \in Key |-> IF reserved[k] \in A THEN None ELSE reserved[k]]
    /\ rowLock' = IF rowLock \in A THEN None ELSE rowLock

\* Fault: the response is stored before the batch is applied.
CommitEarlyResponse(a) ==
    /\ stage[a] = "commit"
    /\ library' = Append(library, request[a])
    /\ records' = records \union {[request |-> request[a], position |-> 0]}
    /\ Release({a})
    /\ Reply(a, "success", Len(library'))
    /\ UNCHANGED <<request, outcome, failures>>

\* Fault: the reservation is committed as it was inserted, without a response.
CommitWithoutResponse(a) ==
    /\ stage[a] = "commit"
    /\ library' = Append(library, request[a])
    /\ records' = records \union {[request |-> request[a], position |-> None]}
    /\ Release({a})
    /\ Reply(a, "success", Len(library'))
    /\ UNCHANGED <<request, outcome, failures>>

\* The batch and the response stored for retries become visible together.
Commit(a) ==
    /\ stage[a] = "commit"
    /\ library' = Append(library, request[a])
    /\ records' = records \union
           {[request |-> request[a], position |-> Len(library')]}
    /\ Release({a})
    /\ Reply(a, "success", Len(library'))
    /\ UNCHANGED <<request, outcome, failures>>

\* Fault: the reservation outlives the rollback.
RollBackRowsOnly(a) ==
    /\ stage[a] \in {"apply", "commit"}
    /\ failures < MaxFailures
    /\ failures' = failures + 1
    /\ rowLock' = IF rowLock = a THEN None ELSE rowLock
    /\ Reply(a, "failed", 0)
    /\ UNCHANGED <<request, reserved, records, library, outcome>>

\* An operation fails, or two transactions deadlock: nothing of the batch
\* remains and the device gets an error.
RollBack(a) ==
    /\ stage[a] \in {"apply", "commit"}
    /\ failures < MaxFailures
    /\ failures' = failures + 1
    /\ Release({a})
    /\ Reply(a, "failed", 0)
    /\ UNCHANGED <<request, records, library, outcome>>

\* The server stops: open transactions roll back, nobody is answered.
Restart ==
    /\ failures < MaxFailures
    /\ failures' = failures + 1
    /\ Release(Attempt)
    /\ stage' = [a \in Attempt |-> "idle"]
    /\ request' = [a \in Attempt |-> None]
    /\ answer' = [a \in Attempt |-> NoAnswer]
    /\ UNCHANGED <<records, library, outcome>>

-----------------------------------------------------------------------------
(* The device.                                                             *)

EndAttempt(a) ==
    /\ stage[a] = "answered"
    /\ GoTo(a, "idle")
    /\ request' = [request EXCEPT ![a] = None]
    /\ answer' = [answer EXCEPT ![a] = NoAnswer]
    /\ UNCHANGED <<reserved, rowLock, records, library, failures>>

Deliver(a) ==
    /\ EndAttempt(a)
    /\ outcome' =
         [outcome EXCEPT ![request[a]] =
            CASE answer[a].kind = "success" -> Promise!Success(answer[a].position)
              [] answer[a].kind = "reused" -> Promise!Refused
              [] OTHER -> @]

Lose(a) == EndAttempt(a) /\ UNCHANGED outcome

Serve(a) == Find(a) \/ Reserve(a) \/ Apply(a) \/ Commit(a)

Next ==
    \/ \E a \in Attempt, q \in Request : Send(a, q)
    \/ \E a \in Attempt : Serve(a) \/ RollBack(a) \/ Deliver(a) \/ Lose(a)
    \/ Restart

DeliverFor(a, q) == request[a] = q /\ Deliver(a)

\* The server works on every attempt; the device keeps sending what has no
\* answer and not every answer is lost.
Fairness ==
    /\ \A a \in Attempt : WF_vars(Serve(a))
    /\ \A q \in Request :
          /\ SF_vars(\E a \in Attempt : Send(a, q))
          /\ \A a \in Attempt : SF_vars(DeliverFor(a, q))

Spec == Init /\ [][Next]_vars
FairSpec == Spec /\ Fairness

-----------------------------------------------------------------------------
(* Properties.                                                             *)

\* The committed record of a key and the one batch performed under it come
\* and go together, and the stored response is that batch's.
RecordsMatchLibrary ==
    /\ \A x \in records :
          x.position \in DOMAIN library /\ library[x.position] = x.request
    /\ \A i \in DOMAIN library :
          [request |-> library[i], position |-> i] \in records
    /\ \A i, j \in DOMAIN library : KeyOf[library[i]] = KeyOf[library[j]] => i = j

\* "An exact retry returns the stored result without creating another
\* Revision or change event; reusing the key for different input returns 409"
\* (server README), whatever attempts overlap and whatever is lost.
PerformedOnce == Promise!Spec

\* No answer that is on its way is false.
AnswersAreTrue ==
    \A a \in Attempt :
        /\ answer[a].kind = "success" =>
              answer[a].position \in DOMAIN library
              /\ library[answer[a].position] = request[a]
        /\ answer[a].kind = "reused" =>
              \E i \in DOMAIN library :
                  library[i] # request[a] /\ KeyOf[library[i]] = KeyOfAttempt(a)

\* An attempt that applies its batch is the only one to do so under its key,
\* and no earlier one has: this is what makes a retry that overlaps the
\* original harmless.
ApplyingAlone ==
    \A a \in Attempt : stage[a] \in {"apply", "commit"} =>
        reserved[KeyOfAttempt(a)] = a /\ Committed(a) = {}

\* A request that was made is answered in the end, however many of its
\* attempts were rolled back or lost: no reservation is left behind.
EveryRequestSettles == \A q \in Request : <>(outcome[q] # Promise!Open)

=============================================================================
