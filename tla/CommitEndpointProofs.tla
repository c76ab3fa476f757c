------------------------ MODULE CommitEndpointProofs ------------------------
(***************************************************************************)
(* CommitEndpoint keeps the promise of ExactlyOnce, for any number of      *)
(* requests, keys and overlapping attempts.                                *)
(***************************************************************************)
EXTENDS CommitEndpoint, SequenceTheorems, TLAPS

\* Where an attempt can be with what in its hands.
AttemptsWellFormed ==
    /\ \A a \in Attempt : stage[a] # "idle" => request[a] \in Request
    /\ \A a \in Attempt : stage[a] # "answered" => answer[a] = NoAnswer

EndpointInv ==
    /\ TypeOK
    /\ AttemptsWellFormed
    /\ RecordsMatchLibrary
    /\ ApplyingAlone
    /\ AnswersAreTrue

LEMMA InitEndpoint ==
    ASSUME Init
    PROVE  EndpointInv
  <1>1. TypeOK
    BY EndpointAssumption, EmptySeq
       DEF Init, TypeOK, Stages, Answer, NoAnswer, Promise!Open
  <1>2. AttemptsWellFormed
    BY DEF Init, AttemptsWellFormed
  <1>3. RecordsMatchLibrary
    BY DEF Init, RecordsMatchLibrary
  <1>4. ApplyingAlone /\ AnswersAreTrue
    BY DEF Init, ApplyingAlone, AnswersAreTrue, NoAnswer
  <1> QED
    BY <1>1, <1>2, <1>3, <1>4 DEF EndpointInv

\* Committing adds the record and the batch at one position, under a key that
\* no earlier batch had, and leaves every other attempt's reservation alone.
LEMMA CommitKeeps ==
    ASSUME EndpointInv, NEW a \in Attempt, Commit(a)
    PROVE  EndpointInv'
  <1> USE DEF EndpointInv
  <1>0. /\ stage[a] = "commit" /\ request[a] \in Request
        /\ library \in Seq(Request) /\ Committed(a) = {}
        /\ reserved[KeyOfAttempt(a)] = a
    BY DEF Commit, AttemptsWellFormed, TypeOK, ApplyingAlone
  <1> DEFINE n == Len(library) + 1
  <1>1. /\ library' = Append(library, request[a])
        /\ library' \in Seq(Request) /\ Len(library') = n
        /\ Len(library) \in Nat
        /\ DOMAIN library = 1..Len(library) /\ DOMAIN library' = 1..n
        /\ \A i \in 1..Len(library) : library'[i] = library[i]
        /\ library'[n] = request[a]
    BY <1>0, AppendProperties, LenProperties DEF Commit
  <1>2. /\ records' = records \union {[request |-> request[a], position |-> n]}
        /\ stage' = [stage EXCEPT ![a] = "answered"]
        /\ answer' = [answer EXCEPT ![a] = [kind |-> "success", position |-> n]]
        /\ reserved' = [k \in Key |-> IF reserved[k] \in {a} THEN None ELSE reserved[k]]
        /\ rowLock' = IF rowLock \in {a} THEN None ELSE rowLock
        /\ UNCHANGED <<request, outcome, failures>>
    BY <1>1 DEF Commit, Release, Reply, GoTo
  <1>3. \A i \in 1..Len(library) : KeyOf[library[i]] # KeyOf[request[a]]
    <2> TAKE i \in 1..Len(library)
    <2> DEFINE x == [request |-> library[i], position |-> i]
    <2>1. x \in records
      BY <1>1 DEF RecordsMatchLibrary
    <2>2. x.request = library[i]
      OBVIOUS
    <2>3. KeyOf[x.request] # KeyOf[request[a]]
      BY <1>0, <2>1 DEF Committed, KeyOfAttempt
    <2> QED
      BY <2>2, <2>3
  <1>4. TypeOK'
    BY <1>0, <1>1, <1>2 DEF TypeOK, Stages, Record, Answer
  <1>5. AttemptsWellFormed'
    BY <1>0, <1>2 DEF TypeOK, AttemptsWellFormed
  <1>6. RecordsMatchLibrary'
    BY <1>1, <1>2, <1>3 DEF RecordsMatchLibrary
  <1>7. ApplyingAlone'
    <2> SUFFICES ASSUME NEW b \in Attempt, stage'[b] \in {"apply", "commit"}
                 PROVE  /\ reserved'[KeyOf[request[b]]] = b
                        /\ \A x \in records' : KeyOf[x.request] # KeyOf[request[b]]
      BY <1>2 DEF ApplyingAlone, Committed, KeyOfAttempt
    <2>1. b # a /\ stage[b] \in {"apply", "commit"}
      BY <1>2 DEF TypeOK
    <2>2. /\ request[b] \in Request /\ reserved[KeyOf[request[b]]] = b
          /\ \A x \in records : KeyOf[x.request] # KeyOf[request[b]]
      BY <2>1 DEF ApplyingAlone, Committed, KeyOfAttempt, AttemptsWellFormed
    <2>3. KeyOf[request[b]] \in Key
      BY <2>2, EndpointAssumption
    <2>4. KeyOf[request[b]] # KeyOf[request[a]]
      BY <1>0, <2>1, <2>2 DEF KeyOfAttempt
    <2> QED
      BY <1>2, <2>1, <2>2, <2>3, <2>4
  <1>8. AnswersAreTrue'
    BY <1>0, <1>1, <1>2 DEF AnswersAreTrue, KeyOfAttempt, TypeOK
  <1> QED
    BY <1>4, <1>5, <1>6, <1>7, <1>8

\* Whatever a record of the key says is a true answer: the position it holds
\* is that of its own request.
LEMMA AnswerFromRecordKeeps ==
    ASSUME EndpointInv, NEW a \in Attempt, stage[a] \in {"find", "reserve"},
           AnswerFromRecord(a)
    PROVE  EndpointInv'
  <1> USE DEF EndpointInv
  <1> PICK x \in Committed(a) :
         /\ IF x.request = request[a] THEN Reply(a, "success", x.position)
                                      ELSE Reply(a, "reused", 0)
         /\ UNCHANGED <<request, reserved, rowLock, records, library, outcome,
                        failures>>
    BY DEF AnswerFromRecord
  <1>1. /\ x \in records /\ KeyOf[x.request] = KeyOfAttempt(a)
        /\ x.position \in DOMAIN library /\ library[x.position] = x.request
        /\ x.position \in Nat
    BY DEF Committed, RecordsMatchLibrary, TypeOK, Record
  <1>2. PICK n \in Nat, k \in {"success", "reused"} :
          /\ stage' = [stage EXCEPT ![a] = "answered"]
          /\ answer' = [answer EXCEPT ![a] = [kind |-> k, position |-> n]]
          /\ k = "success" => n = x.position /\ x.request = request[a]
          /\ k = "reused" => x.request # request[a]
    BY <1>1 DEF Reply, GoTo
  <1>3. TypeOK'
    BY <1>2 DEF TypeOK, Stages, Answer
  <1>4. AttemptsWellFormed'
    BY <1>2 DEF TypeOK, AttemptsWellFormed
  <1>5. RecordsMatchLibrary'
    BY DEF RecordsMatchLibrary
  <1>6. ApplyingAlone'
    BY <1>2 DEF ApplyingAlone, TypeOK, Committed, KeyOfAttempt
  <1>7. AnswersAreTrue'
    BY <1>1, <1>2 DEF AnswersAreTrue, KeyOfAttempt, TypeOK
  <1> QED
    BY <1>3, <1>4, <1>5, <1>6, <1>7

\* Sending, finding no record, reserving and taking the row locks.
LEMMA ProgressKeeps ==
    ASSUME EndpointInv, NEW a \in Attempt,
           \/ \E q \in Request : Send(a, q)
           \/ Find(a) \/ Reserve(a) \/ Apply(a)
    PROVE  EndpointInv'
  <1> USE DEF EndpointInv
  <1>1. CASE \E q \in Request : Send(a, q)
    <2>1. TypeOK'
      BY <1>1 DEF Send, GoTo, TypeOK, Stages
    <2>2. AttemptsWellFormed'
      BY <1>1 DEF Send, GoTo, TypeOK, AttemptsWellFormed
    <2>3. RecordsMatchLibrary'
      BY <1>1 DEF Send, RecordsMatchLibrary
    <2>4. ApplyingAlone'
      BY <1>1 DEF Send, GoTo, TypeOK, ApplyingAlone, Committed, KeyOfAttempt
    <2>5. AnswersAreTrue'
      BY <1>1, SMTT(30) DEF Send, TypeOK, AttemptsWellFormed, AnswersAreTrue, KeyOfAttempt,
                  NoAnswer
    <2> QED
      BY <2>1, <2>2, <2>3, <2>4, <2>5
  <1>2. CASE Find(a) /\ ~AnswerFromRecord(a)
    <2>1. TypeOK'
      BY <1>2 DEF Find, GoTo, TypeOK, Stages
    <2>2. AttemptsWellFormed'
      BY <1>2 DEF Find, GoTo, TypeOK, AttemptsWellFormed
    <2>3. RecordsMatchLibrary' /\ AnswersAreTrue'
      BY <1>2 DEF Find, RecordsMatchLibrary, AnswersAreTrue, KeyOfAttempt
    <2>4. ApplyingAlone'
      <3>1. /\ UNCHANGED <<request, reserved, records>>
            /\ stage' = [stage EXCEPT ![a] = "reserve"]
        BY <1>2 DEF Find, GoTo
      <3>2. \A b \in Attempt : stage'[b] \in {"apply", "commit"} => stage[b] = stage'[b]
        BY <3>1 DEF TypeOK
      <3> QED
        BY <3>1, <3>2 DEF ApplyingAlone, Committed, KeyOfAttempt
    <2> QED
      BY <2>1, <2>2, <2>3, <2>4
  <1>3. CASE Reserve(a) /\ ~AnswerFromRecord(a)
    <2>1. TypeOK'
      BY <1>3, ZenonT(30) DEF Reserve, GoTo, TypeOK, Stages
    <2>2. AttemptsWellFormed'
      BY <1>3 DEF Reserve, GoTo, TypeOK, AttemptsWellFormed
    <2>3. RecordsMatchLibrary' /\ AnswersAreTrue'
      BY <1>3 DEF Reserve, RecordsMatchLibrary, AnswersAreTrue, KeyOfAttempt
    <2>4. ApplyingAlone'
      <3>1. KeyOfAttempt(a) \in Key
        BY <1>3, EndpointAssumption
           DEF Reserve, AttemptsWellFormed, KeyOfAttempt
      <3> SUFFICES ASSUME NEW b \in Attempt, stage'[b] \in {"apply", "commit"}
                   PROVE  reserved'[KeyOfAttempt(b)] = b /\ Committed(b) = {}
        BY <1>3 DEF ApplyingAlone, Committed, KeyOfAttempt, Reserve
      <3>2. CASE b = a
        BY <1>3, <3>1, <3>2 DEF Reserve, TypeOK
      <3>3. CASE b # a
        <4>1. reserved[KeyOfAttempt(b)] = b /\ Committed(b) = {}
          BY <1>3, <3>3 DEF Reserve, GoTo, TypeOK, ApplyingAlone
        <4>2. KeyOfAttempt(b) # KeyOfAttempt(a)
          BY <1>3, <4>1, EndpointAssumption DEF Reserve
        <4>3. reserved' = [reserved EXCEPT ![KeyOfAttempt(a)] = a]
          BY <1>3 DEF Reserve
        <4>4. KeyOfAttempt(b) \in Key
          <5>1. stage[b] # "idle"
            BY <1>3, <3>3 DEF Reserve, GoTo, TypeOK
          <5> QED
            BY <5>1, EndpointAssumption DEF AttemptsWellFormed, KeyOfAttempt
        <4> QED
          BY <4>1, <4>2, <4>3, <4>4 DEF TypeOK
      <3> QED
        BY <3>2, <3>3
    <2> QED
      BY <2>1, <2>2, <2>3, <2>4
  <1>4. CASE Apply(a)
    <2>1. TypeOK'
      BY <1>4 DEF Apply, GoTo, TypeOK, Stages
    <2>2. AttemptsWellFormed'
      BY <1>4 DEF Apply, GoTo, TypeOK, AttemptsWellFormed
    <2>3. RecordsMatchLibrary' /\ AnswersAreTrue'
      BY <1>4 DEF Apply, RecordsMatchLibrary, AnswersAreTrue, KeyOfAttempt
    <2>4. ApplyingAlone'
      BY <1>4 DEF Apply, GoTo, TypeOK, ApplyingAlone, Committed, KeyOfAttempt
    <2> QED
      BY <2>1, <2>2, <2>3, <2>4
  <1>5. CASE AnswerFromRecord(a) /\ (Find(a) \/ Reserve(a))
    BY <1>5, AnswerFromRecordKeeps DEF Find, Reserve
  <1> QED
    BY <1>1, <1>2, <1>3, <1>4, <1>5

\* A rollback or a restart frees what the ended attempts held, which no other
\* attempt relies on.
LEMMA RollBackKeeps ==
    ASSUME EndpointInv,
           (\E a \in Attempt : RollBack(a)) \/ Restart
    PROVE  EndpointInv'
  <1> USE DEF EndpointInv
  <1>1. ASSUME NEW a \in Attempt, RollBack(a)
        PROVE  EndpointInv'
    <2>1. TypeOK'
      BY <1>1, EndpointAssumption
         DEF RollBack, Release, Reply, GoTo, TypeOK, Stages, Answer
    <2>2. AttemptsWellFormed'
      BY <1>1 DEF RollBack, Reply, GoTo, TypeOK, AttemptsWellFormed
    <2>3. RecordsMatchLibrary'
      BY <1>1 DEF RollBack, RecordsMatchLibrary
    <2>4. AnswersAreTrue'
      BY <1>1 DEF RollBack, Reply, TypeOK, AnswersAreTrue, KeyOfAttempt
    <2>5. ApplyingAlone'
      <3> SUFFICES ASSUME NEW b \in Attempt, stage'[b] \in {"apply", "commit"}
                   PROVE  reserved'[KeyOfAttempt(b)] = b /\ Committed(b) = {}
        BY <1>1 DEF ApplyingAlone, Committed, KeyOfAttempt, RollBack
      <3>1. b # a /\ stage[b] \in {"apply", "commit"}
        BY <1>1 DEF RollBack, Reply, GoTo, TypeOK
      <3>2. KeyOfAttempt(b) \in Key
        BY <3>1, EndpointAssumption DEF AttemptsWellFormed, KeyOfAttempt
      <3> QED
        BY <1>1, <3>1, <3>2 DEF RollBack, Release, ApplyingAlone
    <2> QED
      BY <2>1, <2>2, <2>3, <2>4, <2>5
  <1>2. CASE Restart
    <2>1. TypeOK'
      BY <1>2, EndpointAssumption
         DEF Restart, Release, TypeOK, Stages, Answer, NoAnswer
    <2>2. AttemptsWellFormed' /\ RecordsMatchLibrary'
      BY <1>2 DEF Restart, AttemptsWellFormed, RecordsMatchLibrary
    <2>3. ApplyingAlone' /\ AnswersAreTrue'
      BY <1>2 DEF Restart, ApplyingAlone, AnswersAreTrue, NoAnswer
    <2> QED
      BY <2>1, <2>2, <2>3
  <1> QED
    BY <1>1, <1>2

\* An answer that arrives or is lost frees the attempt.
LEMMA EndAttemptKeeps ==
    ASSUME EndpointInv, NEW a \in Attempt, Deliver(a) \/ Lose(a)
    PROVE  EndpointInv'
  <1> USE DEF EndpointInv
  <1>1. EndAttempt(a)
    BY DEF Deliver, Lose
  <1>2. request[a] \in Request /\ answer[a] \in Answer
    BY <1>1 DEF EndAttempt, AttemptsWellFormed, TypeOK
  <1>3. TypeOK'
    <2>1. CASE Lose(a)
      BY <1>1, <2>1 DEF Lose, EndAttempt, GoTo, TypeOK, Stages, Answer, NoAnswer
    <2>2. CASE Deliver(a)
      <3>1. outcome' \in [Request -> [kind : {"open", "success", "refused"},
                                      position : Nat]]
        BY <1>2, <2>2 DEF Deliver, TypeOK, Answer, Promise!Success, Promise!Refused
      <3> QED
        BY <1>1, <3>1 DEF EndAttempt, GoTo, TypeOK, Stages, Answer, NoAnswer
    <2> QED
      BY <2>1, <2>2
  <1>4. AttemptsWellFormed'
    BY <1>1 DEF EndAttempt, GoTo, TypeOK, AttemptsWellFormed
  <1>5. RecordsMatchLibrary'
    BY <1>1 DEF EndAttempt, RecordsMatchLibrary
  <1>6. ApplyingAlone'
    BY <1>1 DEF EndAttempt, GoTo, TypeOK, ApplyingAlone, Committed, KeyOfAttempt
  <1>7. AnswersAreTrue'
    BY <1>1 DEF EndAttempt, TypeOK, AnswersAreTrue, KeyOfAttempt, NoAnswer
  <1> QED
    BY <1>3, <1>4, <1>5, <1>6, <1>7

LEMMA StepKeepsEndpoint ==
    ASSUME EndpointInv, [Next]_vars
    PROVE  EndpointInv'
  <1>1. CASE UNCHANGED vars
    BY <1>1 DEF vars, EndpointInv, TypeOK, AttemptsWellFormed, RecordsMatchLibrary,
                ApplyingAlone, AnswersAreTrue, Committed, KeyOfAttempt
  <1>2. CASE Next
    BY <1>2, CommitKeeps, ProgressKeeps, RollBackKeeps, EndAttemptKeeps
       DEF Next, Serve
  <1> QED
    BY <1>1, <1>2

\* The records of sync_commits and the library agree, an attempt applies its
\* batch alone, and no answer is false, for any number of requests, keys and
\* attempts that overlap.
THEOREM EndpointIsCorrect ==
    Spec => [](TypeOK /\ RecordsMatchLibrary /\ ApplyingAlone /\ AnswersAreTrue)
  <1>1. Init => EndpointInv
    BY InitEndpoint
  <1>2. EndpointInv /\ [Next]_vars => EndpointInv'
    BY StepKeepsEndpoint
  <1>3. EndpointInv => TypeOK /\ RecordsMatchLibrary /\ ApplyingAlone
                         /\ AnswersAreTrue
    BY DEF EndpointInv
  <1> QED
    BY <1>1, <1>2, <1>3, PTL DEF Spec

\* Requests, attempts, answers and records stay well-formed; a position that is
\* answered is one of a library that only grows.
THEOREM EndpointTypes == Spec => []TypeOK
  BY EndpointIsCorrect, PTL

\* While an attempt applies its batch nothing is committed under its key and no
\* other attempt holds it, however many retries overlap.
THEOREM AttemptsApplyAlone == Spec => []ApplyingAlone
  BY EndpointIsCorrect, PTL

\* An answer on its way is true until it arrives or is lost, whatever commits in
\* between.
THEOREM AnswersStayTrue == Spec => []AnswersAreTrue
  BY EndpointIsCorrect, PTL

-----------------------------------------------------------------------------
(* The refinement.                                                         *)

\* Every step is one performance, one true answer that reaches the device, or
\* nothing the device can see.
LEMMA StepRefines ==
    ASSUME EndpointInv, [Next]_vars
    PROVE  [Promise!Next]_<<library, outcome>>
  <1> USE DEF EndpointInv
  <1>1. ASSUME NEW a \in Attempt, Commit(a)
        PROVE  Promise!Next
    <2>1. request[a] \in Request /\ Committed(a) = {}
      BY <1>1 DEF Commit, AttemptsWellFormed, ApplyingAlone
    <2>2. ASSUME NEW i \in DOMAIN library
          PROVE  KeyOf[library[i]] # KeyOf[request[a]]
      <3> DEFINE x == [request |-> library[i], position |-> i]
      <3>1. x \in records
        BY DEF RecordsMatchLibrary
      <3>2. x.request = library[i]
        OBVIOUS
      <3>3. KeyOf[x.request] # KeyOf[request[a]]
        BY <2>1, <3>1 DEF Committed, KeyOfAttempt
      <3> QED
        BY <3>2, <3>3
    <2>3. Promise!Perform(request[a])
      BY <1>1, <2>2 DEF Promise!Perform, Promise!KeyTaken, Commit
    <2> QED
      BY <2>1, <2>3 DEF Promise!Next
  <1>2. ASSUME NEW a \in Attempt, Deliver(a)
        PROVE  Promise!Next \/ UNCHANGED <<library, outcome>>
    <2> DEFINE q == request[a]
    <2>1. /\ q \in Request /\ UNCHANGED library
          /\ outcome \in [Request -> [kind : {"open", "success", "refused"},
                                      position : Nat]]
      BY <1>2 DEF Deliver, EndAttempt, AttemptsWellFormed, TypeOK
    <2>2. CASE answer[a].kind = "success"
      <3>1. /\ answer[a].position \in DOMAIN library
            /\ library[answer[a].position] = q
        BY <2>2 DEF AnswersAreTrue
      <3>2. outcome' = [outcome EXCEPT ![q] = Promise!Success(answer[a].position)]
        BY <1>2, <2>2 DEF Deliver
      <3>3. Promise!Confirm(q)
        BY <2>1, <3>1, <3>2 DEF Promise!Confirm
      <3> QED
        BY <2>1, <3>3 DEF Promise!Next
    <2>3. CASE answer[a].kind = "reused"
      <3>1. \E i \in DOMAIN library :
               library[i] # q /\ KeyOf[library[i]] = KeyOf[q]
        BY <2>3 DEF AnswersAreTrue, KeyOfAttempt
      <3>2. outcome' = [outcome EXCEPT ![q] = Promise!Refused]
        BY <1>2, <2>3 DEF Deliver
      <3>3. Promise!Refuse(q)
        BY <2>1, <3>1, <3>2 DEF Promise!Refuse
      <3> QED
        BY <2>1, <3>3 DEF Promise!Next
    <2>4. CASE answer[a].kind \notin {"success", "reused"}
      <3>1. outcome' = [outcome EXCEPT ![q] = outcome[q]]
        BY <1>2, <2>4 DEF Deliver
      <3> QED
        BY <2>1, <3>1
    <2> QED
      BY <2>2, <2>3, <2>4
  <1>3. ASSUME NEW a \in Attempt,
               \/ \E q \in Request : Send(a, q)
               \/ Find(a) \/ Reserve(a) \/ Apply(a) \/ RollBack(a) \/ Lose(a)
        PROVE  UNCHANGED <<library, outcome>>
    BY <1>3 DEF Send, Find, Reserve, Apply, RollBack, Lose, EndAttempt,
                AnswerFromRecord
  <1>4. CASE Restart \/ UNCHANGED vars
    BY <1>4 DEF Restart, vars
  <1> QED
    BY <1>1, <1>2, <1>3, <1>4 DEF Next, Serve

\* The endpoint implements the abstract promise: each request is performed at
\* most once however often it is sent, and what a device is told is true of
\* that one performance.
THEOREM EndpointImplementsPromise == Spec => PerformedOnce
  <1>1. Init => Promise!Init
    BY DEF Init, Promise!Init
  <1>2. EndpointInv /\ [Next]_vars => [Promise!Next]_<<library, outcome>>
    BY StepRefines
  <1>3. Init => EndpointInv
    BY InitEndpoint
  <1>4. EndpointInv /\ [Next]_vars => EndpointInv'
    BY StepKeepsEndpoint
  <1> QED
    BY <1>1, <1>2, <1>3, <1>4, PTL DEF Spec, PerformedOnce, Promise!Spec

=============================================================================
