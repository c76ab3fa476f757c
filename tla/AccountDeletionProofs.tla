------------------------ MODULE AccountDeletionProofs ------------------------
(***************************************************************************)
(* The bytes of a ready asset are those the client announced, also while   *)
(* the account is deleted around the requests that were let in before.     *)
(***************************************************************************)
EXTENDS AccountDeletion, AssetLifecycleProofs

AccountInv == AccountTypeOK /\ BytesInv

LEMMA InitAccount ==
    ASSUME AccountInit
    PROVE  AccountInv
  <1>1. BytesInv
    BY InitBytes DEF AccountInit
  <1>2. AccountTypeOK
    BY <1>1 DEF AccountInit, AccountTypeOK, BytesInv, Attempting, Resting
  <1> QED
    BY <1>1, <1>2 DEF AccountInv

\* What is stored is stored under the account's keys.
LEMMA StoredKeys == Stored \in SUBSET Key
  BY DEF Stored

\* An attempt goes on and leaves the assets alone.
LEMMA AttemptMoves ==
    ASSUME AccountInv, NEW w \in Worker, NEW t \in Attempting, Turn(w, t),
           UNCHANGED <<uploads, ready, objects, candidates, request, sweep>>,
           faults' \in 0..MaxFaults,
           account' \in {"active", "disabled", "erased"},
           deletion' \in {"none", "pending", "completed"},
           objectKeys' \in SUBSET Key, budget' = budget
    PROVE  AccountInv'
  <1> USE DEF AccountInv, AccountTypeOK
  <1>1. TypeOK'
    BY DEF TypeOK, uploads, objects, candidates
  <1>2. BytesInv'
    BY <1>1, RequestsRest DEF objects
  <1>3. worker' \in [Worker -> Attempting]
    BY DEF Turn
  <1> QED
    BY <1>1, <1>2, <1>3

-----------------------------------------------------------------------------
LEMMA RequestStepKeeps ==
    ASSUME BytesInv, NEW r \in Request, RequestStep(r)
    PROVE  BytesInv'
  <1>1. CASE CreateStep(r) \/ CompleteStep(r) \/ CancelStep(r) \/ Abort(r)
    BY <1>1, CreateKeeps, CompleteKeeps, CancelKeeps, AbortKeeps
  <1>2. CASE TidyStaging(r)
    BY <1>2, CompleteKeeps DEF CompleteStep
  <1>3. CASE RejectErased(r)
    <2>1. Handle(r, Idle) /\ UNCHANGED <<ready, final>>
      BY <1>3 DEF RejectErased, Finish, objects
    <2>2. Idle \in Handling /\ Idle.step \notin LockedStep
      BY DEF Handling, Idle, LockedStep
    <2>3. TypeOK'
      BY <1>3, <2>1, <2>2
         DEF BytesInv, RejectErased, Handle, TypeOK, uploads, objects, candidates
    <2> QED
      BY <2>1, <2>2, <2>3, RequestMoves
  <1> QED
    BY <1>1, <1>2, <1>3 DEF RequestStep

LEMMA CleanupStepKeeps ==
    ASSUME BytesInv, CleanupStep
    PROVE  BytesInv'
  <1>1. CASE SweepStep
    BY <1>1, SweepKeeps
  <1>2. CASE SweepLosesRows
    <2>1. NoSweep \in Sweeping
      BY DEF NoSweep, Sweeping
    <2>2. TypeOK'
      BY <1>2, <2>1 DEF BytesInv, SweepLosesRows, Sweep, TypeOK, uploads,
                        objects, candidates
    <2> QED
      BY <1>2, <2>2, RequestsRest DEF SweepLosesRows, objects
  <1> QED
    BY <1>1, <1>2 DEF CleanupStep

LEMMA AssetStepKeeps ==
    ASSUME AccountInv, AssetStep
    PROVE  AccountInv'
  <1>1. BytesInv'
    BY TickKeeps, PutKeeps, RequestStepKeeps, CleanupStepKeeps
       DEF AccountInv, AssetStep, Wait
  <1>2. AccountTypeOK'
    BY <1>1 DEF AccountInv, AccountTypeOK, BytesInv, AssetStep, deletionVars
  <1> QED
    BY <1>1, <1>2 DEF AccountInv

-----------------------------------------------------------------------------
LEMMA DeletionStepKeeps ==
    ASSUME AccountInv, NEW w \in Worker, DeletionStep(w)
    PROVE  AccountInv'
  <1> USE DEF AccountInv, AccountTypeOK
  <1>1. /\ TypeOK /\ worker \in [Worker -> Attempting]
        /\ worker[w] \in Attempting /\ Resting \in Attempting
        /\ objectKeys \in SUBSET Key /\ faults \in 0..MaxFaults
    BY DEF Attempting, Resting, TypeOK
  <1>2. Fails \/ Works => faults' \in 0..MaxFaults
    BY FaultsBounded
  <1>3. CASE RequestDeletion(w)
    <2>1. [Resting EXCEPT !.step = "begin"] \in Attempting
      BY DEF Attempting, Resting
    <2> QED
      BY <1>1, <1>3, <2>1, AttemptMoves DEF RequestDeletion, vars
  <1>4. CASE RetryDeletion(w)
    <2>1. [Resting EXCEPT !.step = "list", !.keys = objectKeys] \in Attempting
      BY <1>1 DEF Attempting, Resting
    <2> QED
      BY <1>1, <1>4, <2>1, AttemptMoves DEF RetryDeletion, vars
  <1>5. CASE BeginDeletion(w)
    <2>1. /\ [worker[w] EXCEPT !.step = "order", !.keys = Stored] \in Attempting
          /\ [worker[w] EXCEPT !.step = "list", !.keys = objectKeys] \in Attempting
      BY <1>1, StoredKeys DEF Attempting
    <2>2. \E t \in Attempting : Turn(w, t)
      BY <1>1, <1>5, <2>1 DEF BeginDeletion, Rest
    <2> QED
      BY <1>1, <1>2, <1>5, <2>2, AttemptMoves DEF BeginDeletion
  <1>6. CASE PlaceRequest(w)
    <2>1. /\ [worker[w] EXCEPT !.step = "list"] \in Attempting
          /\ worker[w].keys \in SUBSET Key
      BY <1>1 DEF Attempting
    <2>2. \E t \in Attempting : Turn(w, t)
      BY <1>1, <1>6, <2>1 DEF PlaceRequest, Rest
    <2> QED
      BY <1>1, <1>6, <2>1, <2>2, AttemptMoves DEF PlaceRequest, vars
  <1>7. CASE ListKeys(w)
    <2>1. KeysToDelete(w) \in SUBSET Key
      BY <1>1, StoredKeys DEF KeysToDelete, Attempting
    <2>2. [worker[w] EXCEPT !.step = "delete", !.keys = KeysToDelete(w)] \in Attempting
      BY <1>1, <2>1 DEF Attempting
    <2>3. \E t \in Attempting : Turn(w, t)
      BY <1>1, <1>7, <2>2 DEF ListKeys, Rest
    <2> QED
      BY <1>1, <1>2, <1>7, <2>3, AttemptMoves DEF ListKeys
  <1>8. CASE \E k \in Key : DeleteKey(w, k)
    <2>1. PICK k \in Key : DeleteKey(w, k)
      BY <1>8
    <2>2. /\ worker[w].keys \ {k} \in SUBSET Key
          /\ worker[w].remaining \union {k} \in SUBSET Key
      BY <1>1 DEF Attempting
    <2>3. /\ [worker[w] EXCEPT !.keys = worker[w].keys \ {k}] \in Attempting
          /\ [worker[w] EXCEPT !.keys = worker[w].keys \ {k},
                    !.remaining = worker[w].remaining \union {k}] \in Attempting
      BY <1>1, <2>2 DEF Attempting
    <2>4. \/ Turn(w, [worker[w] EXCEPT !.keys = worker[w].keys \ {k}])
          \/ Turn(w, [worker[w] EXCEPT !.keys = worker[w].keys \ {k},
                    !.remaining = worker[w].remaining \union {k}])
      BY <2>1 DEF DeleteKey
    <2>5. worker' \in [Worker -> Attempting]
      BY <1>1, <2>3, <2>4 DEF Turn
    <2>6. /\ staging' \in [Asset -> Content \union {None}]
          /\ final' \in [Asset -> Content \union {None}]
          /\ \A a \in Asset : final'[a] \in {final[a], None}
      BY <1>1, <2>1 DEF DeleteKey, TypeOK, objects
    <2>7. TypeOK'
      BY <1>1, <1>2, <2>1, <2>6 DEF DeleteKey, TypeOK, uploads, candidates
    <2>8. BytesInv'
      BY <2>1, <2>6, <2>7, ObjectsVanish DEF DeleteKey
    <2> QED
      BY <2>1, <2>5, <2>7, <2>8 DEF DeleteKey
  <1>9. CASE RecordRemaining(w)
    <2>1. /\ [worker[w] EXCEPT !.step = "again"] \in Attempting
          /\ worker[w].remaining \in SUBSET Key
      BY <1>1 DEF Attempting
    <2>2. \E t \in Attempting : Turn(w, t)
      BY <1>1, <1>9, <2>1 DEF RecordRemaining, Rest
    <2> QED
      BY <1>1, <1>9, <2>1, <2>2, AttemptMoves DEF RecordRemaining, vars
  <1>10. CASE ListAgain(w)
    <2>1. [worker[w] EXCEPT !.step = "erase"] \in Attempting
      BY <1>1 DEF Attempting
    <2>2. (\E t \in Attempting : Turn(w, t)) /\ objectKeys' \in SUBSET Key
      BY <1>1, <1>10, <2>1, StoredKeys DEF ListAgain, Rest
    <2> QED
      BY <1>1, <1>2, <1>10, <2>2, AttemptMoves DEF ListAgain
  <1>11. CASE EraseAccount(w)
    <2>1. /\ status' \in [Asset -> Status] /\ life' \in [Asset -> -PendingGrace..SessionTime]
          /\ rest' \in [Asset -> 0..StagingGrace] /\ stagingDeleted' \in [Asset -> BOOLEAN]
      BY <1>11, AssetAssumption DEF EraseAccount, Status
    <2>2. TypeOK' /\ ready' = {} /\ UNCHANGED <<request, final>>
      BY <1>1, <1>11, <2>1 DEF EraseAccount, TypeOK, objects, candidates
    <2>3. BytesInv'
      BY <2>2 DEF BytesInv, CompletesAlone, CompletesUnready, VerifiedStays,
                  ReadyBytesVerified
    <2>4. worker' \in [Worker -> Attempting]
      BY <1>1, <1>11 DEF EraseAccount, Rest, Turn
    <2> QED
      BY <1>11, <2>2, <2>3, <2>4 DEF EraseAccount
  <1>12. CASE AbandonAttempt(w)
    BY <1>1, <1>2, <1>12, AttemptMoves DEF AbandonAttempt, Rest
  <1> QED
    BY <1>3, <1>4, <1>5, <1>6, <1>7, <1>8, <1>9, <1>10, <1>11, <1>12
       DEF DeletionStep, AttemptStep

LEMMA AccountNextKeeps ==
    ASSUME AccountInv, [AccountNext]_allVars
    PROVE  AccountInv'
  <1>1. CASE UNCHANGED allVars
    <2>1. UNCHANGED vars /\ UNCHANGED deletionVars
      BY <1>1 DEF allVars
    <2>2. BytesInv'
      BY <2>1, NextKeeps DEF AccountInv
    <2> QED
      BY <2>1, <2>2 DEF AccountInv, AccountTypeOK, BytesInv, deletionVars
  <1> QED
    BY <1>1, AssetStepKeeps, DeletionStepKeeps DEF AccountNext

-----------------------------------------------------------------------------
\* The account, its deletion and the attempts stay well-formed, and so do the
\* uploads and the cleanup around them.
THEOREM AccountTypes == AccountSpec => []AccountTypeOK
  <1>1. AccountInit => AccountInv
    BY InitAccount
  <1>2. AccountInv /\ [AccountNext]_allVars => AccountInv'
    BY AccountNextKeeps
  <1>3. AccountInv => AccountTypeOK
    BY DEF AccountInv
  <1> QED
    BY <1>1, <1>2, <1>3, PTL DEF AccountSpec

\* The object of a ready asset, if it is there, holds the bytes that were
\* verified, also while the account is deleted.
THEOREM ReadyAssetsVerifiedInAccount == AccountSpec => []ReadyBytesVerified
  <1>1. AccountInit => AccountInv
    BY InitAccount
  <1>2. AccountInv /\ [AccountNext]_allVars => AccountInv'
    BY AccountNextKeeps
  <1>3. AccountInv => ReadyBytesVerified
    BY DEF AccountInv, BytesInv
  <1> QED
    BY <1>1, <1>2, <1>3, PTL DEF AccountSpec

-----------------------------------------------------------------------------
(* What goes on while the account is active.                               *)

\* The request is recorded together with the disabling of the account, and
\* only a recorded request is attempted.
DisabledFirst ==
    /\ account = "active" => deletion = "none"
    /\ \A w \in Worker :
            worker[w].step \in {"list", "delete", "again", "erase"}
                => account # "active"

LEMMA AttemptsKeepOrder ==
    ASSUME AccountTypeOK, DisabledFirst, NEW w \in Worker, DeletionStep(w)
    PROVE  DisabledFirst'
  <1>1. worker \in [Worker -> Attempting] /\ worker[w] \in Attempting
    BY DEF AccountTypeOK
  <1>2. CASE account' # "active"
    BY <1>2 DEF DisabledFirst
  <1>3. CASE account' = "active"
    <2>1. account = "active" /\ deletion = "none"
      BY <1>3 DEF DeletionStep, AttemptStep, RequestDeletion, RetryDeletion,
              AbandonAttempt, BeginDeletion, PlaceRequest, ListKeys, DeleteKey,
              RecordRemaining, ListAgain, EraseAccount, DisabledFirst
    <2>2. RequestDeletion(w) \/ BeginDeletion(w) \/ AbandonAttempt(w)
      BY <1>3, <2>1 DEF DeletionStep, AttemptStep, RetryDeletion, PlaceRequest,
              ListKeys, DeleteKey, RecordRemaining, ListAgain, EraseAccount,
              DisabledFirst
    <2>3. deletion' = "none"
      BY <2>1, <2>2 DEF RequestDeletion, BeginDeletion, AbandonAttempt
    <2>4. worker'[w].step \in {"begin", "order", "idle"}
      <3>1. CASE RequestDeletion(w)
        BY <1>1, <3>1 DEF RequestDeletion, Turn, Resting
      <3>2. CASE BeginDeletion(w)
        <4> DEFINE t == [worker[w] EXCEPT !.step = "order", !.keys = Stored]
        <4>1. t.step = "order"
          BY <1>1 DEF Attempting
        <4>2. Turn(w, t) \/ Turn(w, Resting)
          BY <2>1, <3>2 DEF BeginDeletion, Rest
        <4> HIDE DEF t
        <4> QED
          BY <1>1, <4>1, <4>2 DEF Turn, Resting
      <3>3. CASE AbandonAttempt(w)
        BY <1>1, <3>3 DEF AbandonAttempt, Rest, Turn, Resting
      <3> QED
        BY <2>2, <3>1, <3>2, <3>3
    <2>5. \A v \in Worker : v # w => worker'[v] = worker[v]
      BY <1>1, <2>2 DEF RequestDeletion, BeginDeletion, AbandonAttempt, Turn, Rest
    <2> QED
      BY <2>1, <2>3, <2>4, <2>5 DEF DisabledFirst
  <1> QED
    BY <1>2, <1>3

LEMMA AccountInvariant == AccountSpec => [](AccountInv /\ DisabledFirst)
  <1>1. AccountInit => AccountInv /\ DisabledFirst
    BY InitAccount DEF AccountInit, DisabledFirst, Resting
  <1>2. AccountInv /\ DisabledFirst /\ [AccountNext]_allVars => DisabledFirst'
    <2>1. CASE AssetStep \/ UNCHANGED allVars
      BY <2>1 DEF AssetStep, allVars, deletionVars, DisabledFirst
    <2> QED
      BY <2>1, AttemptsKeepOrder DEF AccountInv, AccountNext
  <1>3. AccountInv /\ [AccountNext]_allVars => AccountInv'
    BY AccountNextKeeps
  <1> QED
    BY <1>1, <1>2, <1>3, PTL DEF AccountSpec

-----------------------------------------------------------------------------
\* A step around the account's assets is a step of theirs, or it ends a request
\* or a cleanup that has lost its rows.
LEMMA AssetSteps ==
    ASSUME AssetStep
    PROVE  \/ Next
           \/ \E r \in Request : RejectErased(r)
           \/ SweepLosesRows
  BY DEF AssetStep, Wait, RequestStep, CleanupStep, Next, CompleteStep

\* While the account is active, the object of a ready asset is replaced or
\* removed by nothing but a cleanup whose victim the asset was before it was
\* ready: neither completions nor an attempt to delete the account touch it.
THEOREM ReadyObjectsKept == AccountSpec => ReadyObjectKept
  <1>1. ASSUME AccountInv, DisabledFirst, [AccountNext]_allVars, NEW a \in ready
        PROVE  /\ sweep'.victim = a => sweep.victim = a
               /\ final[a] # None /\ final'[a] # final[a] =>
                    a = sweep.victim \/ account # "active"
    <2>1. BytesInv /\ a \in Asset /\ a # None
      BY <1>1, AssetAssumption DEF AccountInv, BytesInv, TypeOK
    <2>2. CASE AssetStep
      <3>1. CASE Next
        BY <2>1, <3>1, NextKeepsObject DEF ObjectKept
      <3>2. CASE SweepLosesRows \/ \E r \in Request : RejectErased(r)
        BY <2>1, <3>2 DEF SweepLosesRows, Sweep, NoSweep, RejectErased, objects
      <3> QED
        BY <2>2, <3>1, <3>2, AssetSteps
    <2>3. CASE UNCHANGED allVars
      BY <2>3 DEF allVars, vars, objects
    <2>4. CASE \E w \in Worker : DeletionStep(w)
      <3>1. PICK w \in Worker : DeletionStep(w)
        BY <2>4
      <3>2. sweep' = sweep
        BY <3>1 DEF DeletionStep, AttemptStep, RequestDeletion, RetryDeletion,
                AbandonAttempt, BeginDeletion, PlaceRequest, ListKeys, DeleteKey,
                RecordRemaining, ListAgain, EraseAccount, vars
      <3>3. CASE \E k \in Key : DeleteKey(w, k)
        <4>1. account # "active"
          BY <1>1, <3>3 DEF DeleteKey, DisabledFirst
        <4> QED
          BY <3>2, <4>1
      <3>4. CASE ~\E k \in Key : DeleteKey(w, k)
        <4>1. final' = final
          BY <3>1, <3>4 DEF DeletionStep, AttemptStep, RequestDeletion, RetryDeletion,
                AbandonAttempt, BeginDeletion, PlaceRequest, ListKeys,
                RecordRemaining, ListAgain, EraseAccount, vars, objects
        <4> QED
          BY <3>2, <4>1
      <3> QED
        BY <3>3, <3>4
    <2> QED
      BY <1>1, <2>2, <2>3, <2>4 DEF AccountNext
  <1>2. AccountInv /\ DisabledFirst /\ [AccountNext]_allVars =>
            [\A a \in ready :
                /\ sweep'.victim = a => sweep.victim = a
                /\ final[a] # None /\ final'[a] # final[a] =>
                    a = sweep.victim \/ account # "active"]_allVars
    BY <1>1
  <1> QED
    BY <1>2, AccountInvariant, PTL DEF AccountSpec, ReadyObjectKept

\* A session that is cancelled with no other work on its row under way stays
\* cancelled as long as it has a row, also while the account is deleted.
THEOREM CancelledSessionsStayInAccount == AccountSpec => CancelledForGood
  <1>1. ASSUME AccountInv, [AccountNext]_allVars, vars' # vars, NEW a \in Asset,
               Settled(a), status'[a] # "none"
        PROVE  SettledStays(a)
    <2>1. TypeOK
      BY <1>1 DEF AccountInv, BytesInv
    <2>2. CASE AssetStep
      <3>1. CASE Next
        BY <1>1, <2>1, <3>1, NextLeavesSettled
      <3>2. CASE \E r \in Request : RejectErased(r)
        <4>1. PICK r \in Request : RejectErased(r)
          BY <3>2
        <4>2. Handle(r, Idle) /\ UNCHANGED <<status, ready, sweep>>
          BY <4>1 DEF RejectErased, Finish, uploads
        <4>3. Idle \in Handling /\ Idle.step \notin LockedStep \union {"reuse"}
          BY DEF Handling, Idle, LockedStep
        <4> QED
          BY <1>1, <2>1, <4>2, <4>3, SettledAmongRequests DEF Settled
      <3>3. CASE SweepLosesRows
        <4>1. /\ UNCHANGED <<status, ready, request>>
              /\ sweep' = NoSweep
          BY <3>3 DEF SweepLosesRows, Sweep, uploads
        <4> QED
          BY <1>1, <4>1 DEF Settled, SettledStays, Completing, NoSweep
      <3> QED
        BY <2>2, <3>1, <3>2, <3>3, AssetSteps
    <2>3. CASE UNCHANGED allVars
      BY <1>1, <2>3 DEF allVars
    <2>4. CASE \E w \in Worker : DeletionStep(w)
      <3>1. PICK w \in Worker : DeletionStep(w)
        BY <2>4
      <3>2. ~EraseAccount(w)
        BY <1>1 DEF EraseAccount
      <3>3. UNCHANGED <<status, ready, request, sweep>>
        BY <3>1, <3>2 DEF DeletionStep, AttemptStep, RequestDeletion, RetryDeletion,
                AbandonAttempt, BeginDeletion, PlaceRequest, ListKeys, DeleteKey,
                RecordRemaining, ListAgain, vars, uploads
      <3> QED
        BY <1>1, <3>3 DEF Settled, SettledStays, Completing
    <2> QED
      BY <1>1, <2>2, <2>3, <2>4 DEF AccountNext
  <1>2. AccountInv /\ [AccountNext]_allVars =>
            [\A a \in Asset :
                Settled(a) /\ status'[a] # "none"
                    => Settled(a)' /\ (a \in ready' => a \in ready)]_vars
    BY <1>1 DEF SettledStays
  <1> QED
    BY <1>2, AccountInvariant, PTL DEF AccountSpec, CancelledForGood

=============================================================================
