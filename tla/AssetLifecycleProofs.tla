------------------------ MODULE AssetLifecycleProofs ------------------------
(***************************************************************************)
(* The bytes of a ready asset are those the client announced, for any      *)
(* number of assets, requests and faults and whatever is PUT, retried,     *)
(* cancelled or cleaned up meanwhile.                                      *)
(***************************************************************************)
EXTENDS AssetLifecycle, TLAPS

\* One completion at a time works on a row, ...
CompletesAlone ==
    \A r, s \in Request :
        /\ request[r].step \in LockedStep /\ request[s].step \in LockedStep
        /\ request[r].asset = request[s].asset
        => r = s

\* ... on one whose asset is not ready, ...
CompletesUnready ==
    \A r \in Request :
        request[r].step \in LockedStep => request[r].asset \notin ready

\* ... and what it has verified stays what it was until it commits.
VerifiedStays ==
    \A r \in Request :
        request[r].step = "commit" => final[request[r].asset] \in {None, Expected}

BytesInv ==
    /\ TypeOK
    /\ CompletesAlone
    /\ CompletesUnready
    /\ VerifiedStays
    /\ ReadyBytesVerified

LEMMA LowerHigher ==
    ASSUME NEW x \in Int, NEW y \in Int
    PROVE  /\ Lower(x, y) \in {x, y} /\ Lower(x, y) <= x /\ Lower(x, y) <= y
           /\ Higher(x, y) \in {x, y} /\ Higher(x, y) >= x /\ Higher(x, y) >= y
  BY DEF Lower, Higher

LEMMA LeftInRange ==
    ASSUME NEW m \in Nat, NEW n \in 0..m
    PROVE  Left(n) \in 0..m
  BY DEF Left, Higher

\* What a request in progress is made of.
LEMMA HandlingFields ==
    ASSUME NEW q \in Handling
    PROVE  /\ q # Idle <=> q.step # "idle"
           /\ q = Idle => q.step = "idle"
           /\ q # Idle => q.asset \in Asset /\ q.aged \in BOOLEAN
           /\ q.step \in {"idle", "lookup", "insert", "cancel", "reuse", "tidy"}
                            \union LockedStep
           /\ q.step \in {"lookup", "insert", "cancel"} =>
                q \in [step: {"lookup", "insert", "cancel"}, asset: Asset,
                       aged: BOOLEAN]
           /\ q.step = "reuse" =>
                q \in [step: {"reuse"}, asset: Asset, aged: BOOLEAN,
                       revive: BOOLEAN, forget: BOOLEAN, renew: BOOLEAN,
                       left: 0..SessionTime, valid: 0..UrlTime]
           /\ q.step \in LockedStep \union {"tidy"} =>
                q \in [step: LockedStep \union {"tidy"}, asset: Asset,
                       aged: BOOLEAN, etag: Content \union {None}]
  <1>1. CASE q = Idle
    BY <1>1 DEF Idle, LockedStep
  <1>2. CASE q \in [step: {"lookup", "insert", "cancel"}, asset: Asset, aged: BOOLEAN]
    BY <1>2 DEF Idle, LockedStep
  <1>3. CASE q \in [step: {"reuse"}, asset: Asset, aged: BOOLEAN,
                    revive: BOOLEAN, forget: BOOLEAN, renew: BOOLEAN,
                    left: 0..SessionTime, valid: 0..UrlTime]
    BY <1>3 DEF Idle, LockedStep
  <1>4. CASE q \in [step: LockedStep \union {"tidy"}, asset: Asset, aged: BOOLEAN,
                    etag: Content \union {None}]
    BY <1>4 DEF Idle, LockedStep
  <1> QED
    BY <1>1, <1>2, <1>3, <1>4 DEF Handling

-----------------------------------------------------------------------------
(* Steps that move one request on.                                         *)

\* A request that goes on without entering or leaving a completion, or that
\* ends, keeps the invariant if it leaves assets and final objects alone.
LEMMA RequestMoves ==
    ASSUME BytesInv, NEW r \in Request, NEW q \in Handling,
           Handle(r, q), UNCHANGED <<ready, final>>, TypeOK',
           q.step \in LockedStep =>
                /\ request[r].step \in LockedStep
                /\ q.asset = request[r].asset
                /\ q.step = "commit" => final[q.asset] \in {None, Expected}
    PROVE  BytesInv'
  <1>1. /\ request \in [Request -> Handling]
        /\ request' = [request EXCEPT ![r] = q]
        /\ ready' = ready /\ final' = final
    BY DEF BytesInv, TypeOK, Handle
  <1>2. CompletesAlone'
    BY <1>1 DEF BytesInv, CompletesAlone
  <1>3. CompletesUnready'
    BY <1>1 DEF BytesInv, CompletesUnready
  <1>4. VerifiedStays'
    BY <1>1 DEF BytesInv, VerifiedStays, LockedStep
  <1>5. ReadyBytesVerified'
    BY <1>1 DEF BytesInv, ReadyBytesVerified
  <1> QED
    BY <1>2, <1>3, <1>4, <1>5 DEF BytesInv

\* The same holds where no request moves.
LEMMA RequestsRest ==
    ASSUME BytesInv, UNCHANGED <<request, ready, final>>, TypeOK'
    PROVE  BytesInv'
  BY DEF BytesInv, CompletesAlone, CompletesUnready, VerifiedStays,
         ReadyBytesVerified

LEMMA InitBytes ==
    ASSUME Init
    PROVE  BytesInv
  <1>1. TypeOK
    BY AssetAssumption DEF Init, TypeOK, Handling, Sweeping, NoSweep, Status, Candidate
  <1>2. CompletesAlone /\ CompletesUnready /\ VerifiedStays
    BY DEF Init, CompletesAlone, CompletesUnready, VerifiedStays, Idle, LockedStep
  <1>3. ReadyBytesVerified
    BY DEF Init, ReadyBytesVerified
  <1> QED
    BY <1>1, <1>2, <1>3 DEF BytesInv

LEMMA FaultsBounded ==
    ASSUME TypeOK, Fails \/ Works
    PROVE  faults' \in 0..MaxFaults
  BY AssetAssumption DEF TypeOK, Fails, Works

-----------------------------------------------------------------------------
(* Opening a session.                                                      *)

\* What a request decides to write to a row it has found is well-formed.
LEMMA ReuseMoves ==
    ASSUME TypeOK, NEW r \in Request, NEW a \in Asset, Reuse(r, a),
           request[r] # Idle
    PROVE  \E q \in Handling :
                /\ Handle(r, q) /\ q.step \notin LockedStep
                /\ q.step = "reuse" => Reusable(a) /\ q.asset = a
  <1> DEFINE left == Renewed(a)
             q == [step |-> "reuse", asset |-> a, aged |-> request[r].aged,
                   revive |-> status[a] = "expired",
                   forget |-> status[a] = "expired" /\ stagingDeleted[a],
                   renew |-> left # life[a], left |-> left,
                   valid |-> SignedFor(left)]
  <1>1. left \in 0..SessionTime
    BY AssetAssumption DEF TypeOK, Renewed
  <1>2. SignedFor(left) \in 0..UrlTime
    BY <1>1, AssetAssumption DEF SignedFor, Lower
  <1>3. request[r].aged \in BOOLEAN
    BY HandlingFields DEF TypeOK
  <1>4. stagingDeleted[a] \in BOOLEAN
    BY DEF TypeOK
  <1> HIDE DEF left
  <1>5. q \in [step: {"reuse"}, asset: Asset, aged: BOOLEAN, revive: BOOLEAN,
               forget: BOOLEAN, renew: BOOLEAN, left: 0..SessionTime,
               valid: 0..UrlTime]
    BY <1>1, <1>2, <1>3, <1>4
  <1>6. q \in Handling /\ q.step \notin LockedStep /\ q.asset = a
    BY <1>5 DEF Handling, LockedStep
  <1>7. Idle \in Handling /\ Idle.step \notin LockedStep \union {"reuse"}
    BY DEF Handling, Idle, LockedStep
  <1>8. (Handle(r, q) /\ Reusable(a)) \/ Handle(r, Idle)
    BY DEF Reuse, Finish, left
  <1> QED
    BY <1>6, <1>7, <1>8

LEMMA CreateKeeps ==
    ASSUME BytesInv, NEW r \in Request, CreateStep(r)
    PROVE  BytesInv'
  <1> USE DEF BytesInv
  <1>1. CASE \E a \in Asset : StartCreate(r, a)
    <2>1. PICK a \in Asset : StartCreate(r, a)
      BY <1>1
    <2> DEFINE q == [step |-> "lookup", asset |-> a, aged |-> FALSE]
    <2>2. q \in Handling /\ q.step \notin LockedStep
      BY DEF Handling, LockedStep
    <2>3. Handle(r, q) /\ UNCHANGED <<ready, final>>
      BY <2>1 DEF StartCreate, objects
    <2>4. TypeOK'
      BY <2>1, <2>2 DEF StartCreate, Handle, TypeOK, uploads, objects, candidates
    <2> QED
      BY <2>2, <2>3, <2>4, RequestMoves
  <1>2. CASE FindUpload(r)
    <2>1. request[r] # Idle /\ request[r].asset \in Asset
      BY <1>2, HandlingFields DEF FindUpload, TypeOK
    <2>2. PICK q \in Handling : Handle(r, q) /\ q.step \notin LockedStep
      <3>1. CASE status[request[r].asset] = "none"
        <4> DEFINE q == [request[r] EXCEPT !.step = "insert"]
        <4>1. q \in Handling /\ q.step \notin LockedStep
          BY <1>2, HandlingFields DEF FindUpload, TypeOK, Handling, LockedStep
        <4>2. Handle(r, q)
          BY <1>2, <3>1 DEF FindUpload
        <4> QED
          BY <4>1, <4>2
      <3>2. CASE status[request[r].asset] # "none"
        BY <1>2, <2>1, <3>2, ReuseMoves DEF FindUpload
      <3> QED
        BY <3>1, <3>2
    <2>3. TypeOK' /\ UNCHANGED <<ready, final>>
      BY <1>2, <2>2 DEF FindUpload, Handle, TypeOK, uploads, objects, candidates
    <2> QED
      BY <2>2, <2>3, RequestMoves
  <1>3. CASE InsertUpload(r)
    <2>1. request[r] # Idle /\ request[r].asset \in Asset
      BY <1>3, HandlingFields DEF InsertUpload, TypeOK
    <2>2. PICK q \in Handling : Handle(r, q) /\ q.step \notin LockedStep
      <3>1. CASE status[request[r].asset] = "none"
        <4>1. Handle(r, Idle)
          BY <1>3, <3>1 DEF InsertUpload, Finish
        <4>2. Idle \in Handling /\ Idle.step \notin LockedStep
          BY DEF Handling, Idle, LockedStep
        <4> QED
          BY <4>1, <4>2
      <3>2. CASE status[request[r].asset] # "none"
        BY <1>3, <2>1, <3>2, ReuseMoves DEF InsertUpload
      <3> QED
        BY <3>1, <3>2
    <2>3. SignedFor(SessionTime) \in 0..UrlTime /\ SessionTime \in Nat
      BY AssetAssumption DEF SignedFor, Lower
    <2>4. /\ status' \in [Asset -> Status]
          /\ life' \in [Asset -> -PendingGrace..SessionTime]
          /\ url' \in [Asset -> 0..UrlTime]
      BY <1>3, <2>1, <2>3, AssetAssumption DEF InsertUpload, TypeOK, Status
    <2>5. TypeOK' /\ UNCHANGED <<ready, final>>
      BY <1>3, <2>2, <2>4 DEF InsertUpload, Handle, TypeOK, objects, candidates
    <2> QED
      BY <2>2, <2>5, RequestMoves
  <1>4. CASE WriteReuse(r)
    <2>1. /\ request[r] \in [step: {"reuse"}, asset: Asset, aged: BOOLEAN,
               revive: BOOLEAN, forget: BOOLEAN, renew: BOOLEAN,
               left: 0..SessionTime, valid: 0..UrlTime]
          /\ Handle(r, Idle) /\ UNCHANGED <<ready, final>>
      BY <1>4, HandlingFields DEF WriteReuse, TypeOK, Finish, objects
    <2>2. Idle \in Handling /\ Idle.step \notin LockedStep
      BY DEF Handling, Idle, LockedStep
    <2>3. /\ status' \in [Asset -> Status]
          /\ stagingDeleted' \in [Asset -> BOOLEAN]
      BY <1>4, <2>1 DEF WriteReuse, TypeOK, Status
    <2>4. life' \in [Asset -> -PendingGrace..SessionTime]
      BY <1>4, <2>1, AssetAssumption DEF WriteReuse, TypeOK
    <2>5. url' \in [Asset -> 0..UrlTime]
      BY <1>4, <2>1, AssetAssumption DEF WriteReuse, TypeOK, Higher
    <2>6. TypeOK'
      BY <1>4, <2>1, <2>2, <2>3, <2>4, <2>5
         DEF WriteReuse, Handle, TypeOK, objects, candidates
    <2> QED
      BY <2>1, <2>2, <2>6, RequestMoves
  <1> QED
    BY <1>1, <1>2, <1>3, <1>4 DEF CreateStep

-----------------------------------------------------------------------------
(* Completing and cancelling a session.                                    *)

LEMMA StartCompleteKeeps ==
    ASSUME BytesInv, NEW r \in Request, NEW a \in Asset, StartComplete(r, a)
    PROVE  BytesInv'
  <1> USE DEF BytesInv
  <1> DEFINE q == [step |-> "stat", asset |-> a, aged |-> FALSE, etag |-> None]
  <1>1. q \in Handling /\ q.step # "commit" /\ q.asset = a
    BY DEF Handling, LockedStep
  <1>2. /\ request \in [Request -> Handling]
        /\ request' = [request EXCEPT ![r] = q]
        /\ a \notin ready /\ UNCHANGED <<ready, final>>
        /\ \A s \in Request :
                request[s].step \in LockedStep => request[s].asset # a
    BY DEF StartComplete, TypeOK, Handle, Unlocked, Completing, objects
  <1> HIDE DEF q
  <1>3. TypeOK'
    BY <1>1, <1>2 DEF StartComplete, TypeOK, uploads, objects, candidates
  <1>4. CompletesAlone'
    BY <1>1, <1>2 DEF CompletesAlone
  <1>5. CompletesUnready'
    BY <1>1, <1>2 DEF CompletesUnready
  <1>6. VerifiedStays'
    BY <1>1, <1>2 DEF VerifiedStays
  <1>7. ReadyBytesVerified'
    BY <1>2 DEF ReadyBytesVerified
  <1> QED
    BY <1>3, <1>4, <1>5, <1>6, <1>7

\* A step of a completion touches the final object of its own asset only, which
\* is not ready and which no other completion works on.
LEMMA CompletionMoves ==
    ASSUME BytesInv, NEW r \in Request, request[r].step \in LockedStep,
           NEW q \in Handling, Handle(r, q), UNCHANGED ready, TypeOK',
           \A a \in Asset : a # request[r].asset => final'[a] = final[a],
           q.step \in LockedStep => q.asset = request[r].asset,
           q.step = "commit" => final'[q.asset] \in {None, Expected}
    PROVE  BytesInv'
  <1> DEFINE a == request[r].asset
  <1>1. /\ request \in [Request -> Handling] /\ ready \subseteq Asset
        /\ request' = [request EXCEPT ![r] = q]
        /\ a \notin ready /\ ready' = ready
    BY DEF BytesInv, TypeOK, Handle, CompletesUnready
  <1>2. ASSUME NEW s \in Request, s # r, request[s].step \in LockedStep
        PROVE  request[s].asset # a /\ request[s].asset \in Asset
    <2>1. request[s] # Idle /\ request[s] \in Handling
      BY <1>1, <1>2 DEF Idle, LockedStep
    <2>2. request[s].asset \in Asset
      BY <2>1, HandlingFields
    <2>3. request[s].asset # a
      BY <1>2 DEF BytesInv, CompletesAlone
    <2> QED
      BY <2>2, <2>3
  <1>3. CompletesAlone'
    BY <1>1, <1>2 DEF BytesInv, CompletesAlone
  <1>4. CompletesUnready'
    BY <1>1, <1>2 DEF BytesInv, CompletesUnready
  <1>5. VerifiedStays'
    <2> SUFFICES ASSUME NEW s \in Request, request'[s].step = "commit"
                 PROVE  final'[request'[s].asset] \in {None, Expected}
      BY DEF VerifiedStays
    <2>1. CASE s = r
      BY <1>1, <2>1
    <2>2. CASE s # r
      <3>1. request'[s] = request[s] /\ request[s].step \in LockedStep
        BY <1>1, <2>2 DEF LockedStep
      <3>2. request[s].asset # a /\ request[s].asset \in Asset
        BY <1>2, <2>2, <3>1
      <3> QED
        BY <3>1, <3>2 DEF BytesInv, VerifiedStays
    <2> QED
      BY <2>1, <2>2
  <1>6. ReadyBytesVerified'
    BY <1>1 DEF BytesInv, ReadyBytesVerified
  <1> QED
    BY <1>3, <1>4, <1>5, <1>6 DEF BytesInv

LEMMA CompleteKeeps ==
    ASSUME BytesInv, NEW r \in Request, CompleteStep(r)
    PROVE  BytesInv'
  <1> USE DEF BytesInv
  <1> DEFINE a == request[r].asset
  <1>1. Idle \in Handling /\ Idle.step \notin LockedStep
    BY DEF Handling, Idle, LockedStep
  <1>2. request \in [Request -> Handling] /\ request[r] \in Handling
    BY DEF TypeOK
  <1>3. ASSUME request[r].step \in LockedStep \union {"tidy"}
        PROVE  /\ request[r] \in [step: LockedStep \union {"tidy"}, asset: Asset,
                                  aged: BOOLEAN, etag: Content \union {None}]
               /\ a \in Asset
    BY <1>2, <1>3, HandlingFields
  <1>4. CASE \E b \in Asset : StartComplete(r, b)
    BY <1>4, StartCompleteKeeps
  <1>5. CASE \E b \in Asset : CompleteExpired(r, b)
    <2>1. PICK b \in Asset : CompleteExpired(r, b)
      BY <1>5
    <2>2. TypeOK' /\ UNCHANGED <<request, ready, final>>
      BY <2>1 DEF CompleteExpired, TypeOK, Status, objects, candidates
    <2> QED
      BY <2>2, RequestsRest
  <1>6. CASE StatStaging(r)
    <2>1. request[r].step = "stat" /\ request[r].step \in LockedStep /\ a \in Asset
      BY <1>3, <1>6 DEF StatStaging, LockedStep
    <2> DEFINE q == [request[r] EXCEPT !.step = "copy", !.etag = staging[a]]
    <2>2. staging[a] \in Content \union {None}
      BY <2>1 DEF TypeOK
    <2>3. q \in Handling /\ q.asset = a /\ q.step = "copy"
      BY <1>3, <2>1, <2>2 DEF Handling, LockedStep
    <2>4. Handle(r, q) \/ Handle(r, Idle)
      BY <1>6 DEF StatStaging, Finish
    <2>5. TypeOK'
      BY <1>1, <1>2, <1>6, <2>3, <2>4
         DEF StatStaging, Handle, TypeOK, uploads, objects, candidates
    <2>6. UNCHANGED <<ready, final>>
      BY <1>6 DEF StatStaging, objects
    <2> HIDE DEF q
    <2> QED
      BY <1>1, <2>1, <2>3, <2>4, <2>5, <2>6, RequestMoves
  <1>7. CASE CopyObject(r)
    <2>1. request[r].step = "copy" /\ request[r].step \in LockedStep /\ a \in Asset
      BY <1>3, <1>7 DEF CopyObject, LockedStep
    <2> DEFINE q == [request[r] EXCEPT !.step = "verify"]
    <2>2. q \in Handling /\ q.asset = a /\ q.step = "verify"
      BY <1>3, <2>1 DEF Handling, LockedStep
    <2>3. Handle(r, q) \/ Handle(r, Idle)
      BY <1>7 DEF CopyObject, Finish
    <2>4. /\ final' \in [Asset -> Content \union {None}]
          /\ \A b \in Asset : b # a => final'[b] = final[b]
      BY <1>7, <2>1 DEF CopyObject, TypeOK
    <2>5. TypeOK' /\ UNCHANGED ready
      BY <1>1, <1>2, <1>7, <2>2, <2>3, <2>4
         DEF CopyObject, Handle, TypeOK, uploads, candidates
    <2> HIDE DEF q
    <2> QED
      BY <1>1, <2>1, <2>2, <2>3, <2>4, <2>5, CompletionMoves DEF LockedStep
  <1>8. CASE VerifyFinal(r)
    <2>1. request[r].step = "verify" /\ request[r].step \in LockedStep /\ a \in Asset
      BY <1>3, <1>8 DEF VerifyFinal, LockedStep
    <2> DEFINE q(t) == [request[r] EXCEPT !.step = t]
    <2>2. \A t \in {"commit", "discard"} :
            q(t) \in Handling /\ q(t).asset = a /\ q(t).step = t
      BY <1>3, <2>1 DEF Handling, LockedStep
    <2>3. \/ Handle(r, Idle)
          \/ Handle(r, q("discard"))
          \/ Handle(r, q("commit")) /\ final[a] = Expected
      BY <1>8 DEF VerifyFinal, Finish, Verified
    <2>4. TypeOK'
      BY <1>1, <1>2, <1>8, <2>2, <2>3
         DEF VerifyFinal, Handle, TypeOK, uploads, objects, candidates
    <2>5. UNCHANGED <<ready, final>>
      BY <1>8 DEF VerifyFinal, objects
    <2> HIDE DEF q
    <2>6. CASE Handle(r, Idle)
      BY <1>1, <2>4, <2>5, <2>6, RequestMoves
    <2>7. CASE Handle(r, q("discard"))
      BY <2>1, <2>2, <2>4, <2>5, <2>7, RequestMoves
    <2>8. CASE Handle(r, q("commit")) /\ final[a] = Expected
      BY <2>1, <2>2, <2>4, <2>5, <2>8, RequestMoves
    <2> QED
      BY <2>3, <2>6, <2>7, <2>8
  <1>9. CASE DiscardFinal(r)
    <2>1. request[r].step = "discard" /\ request[r].step \in LockedStep /\ a \in Asset
      BY <1>3, <1>9 DEF DiscardFinal, LockedStep
    <2>2. Handle(r, Idle) /\ UNCHANGED ready /\ faults' \in 0..MaxFaults
      BY <1>9, FaultsBounded DEF DiscardFinal, Finish
    <2>3. /\ final' \in [Asset -> Content \union {None}]
          /\ \A b \in Asset : b # a => final'[b] = final[b]
      BY <1>9, <2>1 DEF DiscardFinal, TypeOK
    <2>4. TypeOK'
      BY <1>1, <1>2, <1>9, <2>2, <2>3
         DEF DiscardFinal, Handle, TypeOK, uploads, candidates
    <2> QED
      BY <1>1, <2>1, <2>2, <2>3, <2>4, CompletionMoves DEF LockedStep
  <1>10. CASE CommitAsset(r)
    <2>1. request[r].step = "commit" /\ request[r].step \in LockedStep /\ a \in Asset
      BY <1>3, <1>10 DEF CommitAsset, LockedStep
    <2> DEFINE q == [request[r] EXCEPT !.step = "tidy"]
    <2>2. q \in Handling /\ q.step \notin LockedStep
      BY <1>3, <2>1 DEF Handling, LockedStep
    <2>3. /\ request' = [request EXCEPT ![r] = q]
          /\ ready' = ready \union {a} /\ final' = final
      BY <1>10 DEF CommitAsset, Handle, objects
    <2>0. StagingGrace \in 0..StagingGrace /\ "completed" \in Status
      BY AssetAssumption DEF Status
    <2>4. /\ status' \in [Asset -> Status]
          /\ rest' \in [Asset -> 0..StagingGrace]
      BY <1>10, <2>0 DEF CommitAsset, TypeOK
    <2>5. TypeOK'
      BY <1>2, <1>10, <2>1, <2>2, <2>3, <2>4
         DEF CommitAsset, TypeOK, objects, candidates
    <2> HIDE DEF q
    <2>6. CompletesAlone'
      BY <1>2, <2>2, <2>3 DEF CompletesAlone
    <2>7. CompletesUnready'
      BY <1>2, <2>1, <2>2, <2>3 DEF CompletesUnready, CompletesAlone
    <2>8. VerifiedStays'
      BY <1>2, <2>2, <2>3 DEF VerifiedStays, LockedStep
    <2>9. ReadyBytesVerified'
      BY <2>1, <2>3 DEF ReadyBytesVerified, VerifiedStays
    <2> QED
      BY <2>5, <2>6, <2>7, <2>8, <2>9
  <1>11. CASE TidyStaging(r)
    <2>1. a \in Asset
      BY <1>3, <1>11 DEF TidyStaging
    <2>2. /\ Handle(r, Idle) /\ UNCHANGED <<ready, final>>
          /\ faults' \in 0..MaxFaults
          /\ staging' \in [Asset -> Content \union {None}]
      BY <1>11, <2>1, FaultsBounded DEF TidyStaging, Finish, TypeOK
    <2>3. TypeOK'
      BY <1>1, <1>2, <1>11, <2>2 DEF TidyStaging, Handle, TypeOK, uploads, candidates
    <2> QED
      BY <1>1, <2>2, <2>3, RequestMoves
  <1> QED
    BY <1>4, <1>5, <1>6, <1>7, <1>8, <1>9, <1>10, <1>11 DEF CompleteStep

LEMMA CancelKeeps ==
    ASSUME BytesInv, NEW r \in Request, CancelStep(r)
    PROVE  BytesInv'
  <1> USE DEF BytesInv
  <1>1. CASE \E a \in Asset : StartCancel(r, a)
    <2>1. PICK a \in Asset : StartCancel(r, a)
      BY <1>1
    <2> DEFINE q == [step |-> "cancel", asset |-> a, aged |-> FALSE]
    <2>2. q \in Handling /\ q.step \notin LockedStep
      BY DEF Handling, LockedStep
    <2>3. Handle(r, q) /\ UNCHANGED <<ready, final>>
      BY <2>1 DEF StartCancel, objects
    <2>4. TypeOK'
      BY <2>1, <2>2 DEF StartCancel, Handle, TypeOK, uploads, objects, candidates
    <2> QED
      BY <2>2, <2>3, <2>4, RequestMoves
  <1>2. CASE WriteCancel(r)
    <2>1. Handle(r, Idle) /\ UNCHANGED <<ready, final>>
      BY <1>2 DEF WriteCancel, Finish, objects
    <2>2. Idle \in Handling /\ Idle.step \notin LockedStep
      BY DEF Handling, Idle, LockedStep
    <2>3. StagingGrace \in 0..StagingGrace /\ "cancelled" \in Status
      BY AssetAssumption DEF Status
    <2>4. TypeOK'
      BY <1>2, <2>1, <2>2, <2>3 DEF WriteCancel, Handle, TypeOK, objects, candidates
    <2> QED
      BY <2>1, <2>2, <2>4, RequestMoves
  <1> QED
    BY <1>1, <1>2 DEF CancelStep

\* A request may end anywhere: what it leaves in the storage is under no ready
\* asset's key.
LEMMA AbortKeeps ==
    ASSUME BytesInv, NEW r \in Request, Abort(r)
    PROVE  BytesInv'
  <1>1. Handle(r, Idle) /\ UNCHANGED <<ready, final>> /\ faults' \in 0..MaxFaults
    BY FaultsBounded DEF BytesInv, Abort, Finish, objects
  <1>2. Idle \in Handling /\ Idle.step \notin LockedStep
    BY DEF Handling, Idle, LockedStep
  <1>3. TypeOK'
    BY <1>1, <1>2 DEF BytesInv, Abort, Handle, TypeOK, uploads, objects, candidates
  <1> QED
    BY <1>1, <1>2, <1>3, RequestMoves

-----------------------------------------------------------------------------
(* Time, the client and the cleanup.                                       *)

\* A request grows old where it is.
LEMMA OlderRequest ==
    ASSUME NEW q \in Handling
    PROVE  /\ Older(q) \in Handling
           /\ Older(q).step = q.step
           /\ q # Idle => Older(q).asset = q.asset
  <1>1. CASE q = Idle
    BY <1>1 DEF Older, Handling, Idle
  <1>2. CASE q # Idle /\ q.step = "reuse"
    <2>1. q \in [step: {"reuse"}, asset: Asset, aged: BOOLEAN,
               revive: BOOLEAN, forget: BOOLEAN, renew: BOOLEAN,
               left: 0..SessionTime, valid: 0..UrlTime]
      BY <1>2, HandlingFields
    <2>2. Left(q.left) \in 0..SessionTime /\ Left(q.valid) \in 0..UrlTime
      BY <2>1, AssetAssumption, LeftInRange
    <2>3. Older(q) = [q EXCEPT !.aged = TRUE, !.left = Left(q.left),
                               !.valid = Left(q.valid)]
      BY <1>2, <2>1 DEF Older
    <2> QED
      BY <1>2, <2>1, <2>2, <2>3, ZenonT(30) DEF Handling
  <1>3. CASE q # Idle /\ q.step # "reuse"
    <2>1. Older(q) = [q EXCEPT !.aged = TRUE]
      BY <1>3 DEF Older
    <2>2. \/ q \in [step: {"lookup", "insert", "cancel"}, asset: Asset,
                    aged: BOOLEAN]
          \/ q \in [step: LockedStep \union {"tidy"}, asset: Asset,
                    aged: BOOLEAN, etag: Content \union {None}]
      BY <1>3 DEF Handling
    <2> QED
      BY <2>1, <2>2 DEF Handling
  <1> QED
    BY <1>1, <1>2, <1>3

LEMMA TickKeeps ==
    ASSUME BytesInv, Tick
    PROVE  BytesInv'
  <1> USE DEF BytesInv
  <1>1. /\ request \in [Request -> Handling]
        /\ request' = [r \in Request |-> Older(request[r])]
        /\ UNCHANGED <<ready, final>>
    BY DEF Tick, TypeOK, objects
  <1>2. \A r \in Request :
            /\ request'[r] \in Handling
            /\ request'[r].step = request[r].step
            /\ request[r] # Idle => request'[r].asset = request[r].asset
    BY <1>1, OlderRequest
  <1>3. \A r \in Request : request[r].step \in LockedStep => request[r] # Idle
    BY DEF Idle, LockedStep
  <1>4. life' \in [Asset -> -PendingGrace..SessionTime]
    BY AssetAssumption DEF Tick, TypeOK, Higher
  <1>5. /\ rest' \in [Asset -> 0..StagingGrace]
        /\ url' \in [Asset -> 0..UrlTime]
        /\ quarantine' \in [Asset -> 0..Quarantine]
    BY AssetAssumption, LeftInRange DEF Tick, TypeOK
  <1>6. TypeOK'
    BY <1>1, <1>2, <1>4, <1>5 DEF Tick, TypeOK, objects
  <1>7. CompletesAlone'
    BY <1>1, <1>2, <1>3 DEF CompletesAlone
  <1>8. CompletesUnready'
    BY <1>1, <1>2, <1>3 DEF CompletesUnready
  <1>9. VerifiedStays'
    BY <1>1, <1>2, <1>3 DEF VerifiedStays, LockedStep
  <1>10. ReadyBytesVerified'
    BY <1>1 DEF ReadyBytesVerified
  <1> QED
    BY <1>6, <1>7, <1>8, <1>9, <1>10

\* What a PUT stores, it stores under a staging key.
LEMMA PutKeeps ==
    ASSUME BytesInv, NEW a \in Asset, NEW c \in Content, PutObject(a, c)
    PROVE  BytesInv'
  <1>1. TypeOK' /\ UNCHANGED <<request, ready, final>>
    BY DEF BytesInv, PutObject, TypeOK, uploads, candidates
  <1> QED
    BY <1>1, RequestsRest

\* The cleanup deletes final objects, and copies nothing over one.
LEMMA ObjectsVanish ==
    ASSUME BytesInv, UNCHANGED <<request, ready>>, TypeOK',
           \A a \in Asset : final'[a] \in {final[a], None}
    PROVE  BytesInv'
  <1>1. VerifiedStays'
    <2> SUFFICES ASSUME NEW r \in Request, request[r].step = "commit"
                 PROVE  final'[request[r].asset] \in {None, Expected}
      BY DEF VerifiedStays
    <2>1. request[r] \in Handling /\ request[r] # Idle
      BY DEF BytesInv, TypeOK, Idle
    <2>2. request[r].asset \in Asset
      BY <2>1, HandlingFields
    <2> QED
      BY <2>2 DEF BytesInv, VerifiedStays
  <1>2. ReadyBytesVerified'
    BY DEF BytesInv, TypeOK, ReadyBytesVerified
  <1> QED
    BY <1>1, <1>2 DEF BytesInv, CompletesAlone, CompletesUnready

LEMMA SweepKeeps ==
    ASSUME BytesInv, SweepStep
    PROVE  BytesInv'
  <1> USE DEF BytesInv
  <1>1. sweep \in Sweeping /\ NoSweep \in Sweeping
    BY DEF TypeOK, Sweeping, NoSweep
  <1>2. UNCHANGED <<request, ready>>
    BY DEF SweepStep, SweepStart, SweepExpire, SweepStaging, SweepList,
           SweepReference, SweepCheck, SweepErase, SweepCommit, SweepAbort
  <1>3. CASE SweepStart \/ SweepExpire \/ SweepList \/ SweepReference
    <2>1. sweep' \in Sweeping
      <3>1. CASE SweepStart
        BY <1>1, <3>1 DEF SweepStart, Sweep, Sweeping, NoSweep
      <3>2. CASE SweepExpire
        BY <1>1, <3>2 DEF SweepExpire, Sweep, Sweeping
      <3>3. CASE SweepList
        BY <1>1, <3>3 DEF SweepList, Sweep, Sweeping
      <3>4. CASE SweepReference
        BY <1>1, <3>4 DEF SweepReference, Sweep, Sweeping
      <3> QED
        BY <1>3, <3>1, <3>2, <3>3, <3>4
    <2>2. UNCHANGED <<uploads, objects, candidates, faults>>
      BY <1>3 DEF SweepStart, SweepExpire, SweepList, SweepReference
    <2>3. TypeOK'
      BY <1>2, <2>1, <2>2 DEF TypeOK, uploads, objects, candidates
    <2> QED
      BY <1>2, <2>2, <2>3, RequestsRest DEF objects
  <1>4. CASE \E a \in Asset : SweepStaging(a)
    <2>1. PICK a \in Asset : SweepStaging(a)
      BY <1>4
    <2>2. sweep' \in Sweeping /\ faults' \in 0..MaxFaults
      <3>1. \/ sweep' = [sweep EXCEPT !.residue = sweep.residue \ {a},
                                    !.reclaimed = sweep.reclaimed \union {a}]
            \/ sweep' = [sweep EXCEPT !.residue = sweep.residue \ {a}]
        BY <2>1 DEF SweepStaging, Sweep
      <3>2. /\ sweep.residue \ {a} \in SUBSET Asset
            /\ sweep.reclaimed \union {a} \in SUBSET Asset
        BY <1>1 DEF Sweeping
      <3>3. sweep' \in Sweeping
        BY <1>1, <3>1, <3>2, ZenonT(30) DEF Sweeping
      <3> QED
        BY <2>1, <3>3, FaultsBounded DEF SweepStaging
    <2>3. TypeOK' /\ UNCHANGED final
      BY <1>2, <2>1, <2>2 DEF SweepStaging, TypeOK, uploads, candidates
    <2> QED
      BY <1>2, <2>3, RequestsRest
  <1>5. CASE \E a \in Asset : SweepCheck(a)
    <2>1. PICK a \in Asset : SweepCheck(a)
      BY <1>5
    <2>2. sweep' \in Sweeping
      <3>1. \/ sweep' = [sweep EXCEPT !.orphans = sweep.orphans \ {a},
                                    !.protected = sweep.protected \union {a}]
            \/ sweep' = [sweep EXCEPT !.step = "erase",
                                    !.orphans = sweep.orphans \ {a},
                                    !.victim = a]
        BY <2>1 DEF SweepCheck, Sweep
      <3>2. /\ sweep.orphans \ {a} \in SUBSET Asset
            /\ sweep.protected \union {a} \in SUBSET Asset
        BY <1>1 DEF Sweeping
      <3>3. sweep.step = "orphans"
        BY <2>1 DEF SweepCheck
      <3>4. CASE sweep' = [sweep EXCEPT !.orphans = sweep.orphans \ {a},
                                    !.protected = sweep.protected \union {a}]
        BY <1>1, <3>2, <3>3, <3>4 DEF Sweeping
      <3>5. CASE sweep' = [sweep EXCEPT !.step = "erase",
                                    !.orphans = sweep.orphans \ {a},
                                    !.victim = a]
        BY <1>1, <3>2, <3>5 DEF Sweeping
      <3> QED
        BY <3>1, <3>4, <3>5
    <2>3. TypeOK' /\ UNCHANGED final
      BY <1>2, <2>1, <2>2 DEF SweepCheck, TypeOK, uploads, objects, candidates
    <2> QED
      BY <1>2, <2>3, RequestsRest
  <1>6. CASE SweepErase
    <2>1. sweep' \in Sweeping /\ faults' \in 0..MaxFaults
      <3> DEFINE a == sweep.victim
      <3>1. \/ /\ final' = [final EXCEPT ![a] = None]
               /\ sweep' = [sweep EXCEPT !.step = "orphans", !.victim = None,
                                    !.erased = sweep.erased \union {a}]
            \/ sweep' = [sweep EXCEPT !.step = "orphans", !.victim = None]
        BY <1>6 DEF SweepErase, Sweep
      <3>2. sweep.erased \union {a} \in SUBSET Asset
        BY <1>1, <1>6 DEF SweepErase, Sweeping
      <3>3. faults' \in 0..MaxFaults
        BY <1>6, FaultsBounded DEF SweepErase
      <3> HIDE DEF a
      <3>4. CASE sweep' = [sweep EXCEPT !.step = "orphans", !.victim = None,
                                    !.erased = sweep.erased \union {a}]
        BY <1>1, <3>2, <3>3, <3>4 DEF Sweeping
      <3>5. CASE sweep' = [sweep EXCEPT !.step = "orphans", !.victim = None]
        BY <1>1, <3>3, <3>5 DEF Sweeping
      <3> QED
        BY <3>1, <3>4, <3>5
    <2>2. /\ final' \in [Asset -> Content \union {None}]
          /\ \A a \in Asset : final'[a] \in {final[a], None}
      BY <1>6 DEF SweepErase, TypeOK
    <2>3. TypeOK'
      BY <1>2, <1>6, <2>1, <2>2 DEF SweepErase, TypeOK, uploads, candidates
    <2> QED
      BY <1>2, <2>2, <2>3, ObjectsVanish
  <1>7. CASE SweepCommit
    <2>1. /\ sweep' \in Sweeping
          /\ status' \in [Asset -> Status]
          /\ stagingDeleted' \in [Asset -> BOOLEAN]
      BY <1>1, <1>7 DEF SweepCommit, Sweep, TypeOK, Status
    <2>2. candidate' \in [Asset -> Candidate]
      BY <1>7 DEF SweepCommit, TypeOK, Candidate
    <2>3. quarantine' \in [Asset -> 0..Quarantine]
      BY <1>7, AssetAssumption DEF SweepCommit, TypeOK
    <2>4. TypeOK' /\ UNCHANGED final
      BY <1>2, <1>7, <2>1, <2>2, <2>3 DEF SweepCommit, TypeOK, objects
    <2> QED
      BY <1>2, <2>4, RequestsRest
  <1>8. CASE SweepAbort
    <2>1. sweep' \in Sweeping /\ faults' \in 0..MaxFaults
      BY <1>1, <1>8, FaultsBounded DEF SweepAbort, Sweep
    <2>2. TypeOK' /\ UNCHANGED final
      BY <1>2, <1>8, <2>1 DEF SweepAbort, TypeOK, uploads, objects, candidates
    <2> QED
      BY <1>2, <2>2, RequestsRest
  <1> QED
    BY <1>3, <1>4, <1>5, <1>6, <1>7, <1>8 DEF SweepStep

LEMMA NextKeeps ==
    ASSUME BytesInv, [Next]_vars
    PROVE  BytesInv'
  <1>1. CASE UNCHANGED vars
    <2>1. TypeOK'
      BY <1>1 DEF BytesInv, TypeOK, vars, uploads, objects, candidates
    <2> QED
      BY <1>1, <2>1, RequestsRest DEF vars, objects
  <1>2. CASE Next
    <2>1. ASSUME NEW r \in Request,
                 CreateStep(r) \/ CompleteStep(r) \/ CancelStep(r) \/ Abort(r)
          PROVE  BytesInv'
      BY <2>1, CreateKeeps, CompleteKeeps, CancelKeeps, AbortKeeps
    <2> QED
      BY <1>2, <2>1, TickKeeps, PutKeeps, SweepKeeps DEF Next
  <1> QED
    BY <1>1, <1>2

-----------------------------------------------------------------------------
\* Rows, objects, requests and the cleanup stay well-formed: a session never
\* lasts longer than a full one, however often it is renewed.
THEOREM AssetTypes == Spec => []TypeOK
  <1>1. Init => BytesInv
    BY InitBytes
  <1>2. BytesInv /\ [Next]_vars => BytesInv'
    BY NextKeeps
  <1>3. BytesInv => TypeOK
    BY DEF BytesInv
  <1> QED
    BY <1>1, <1>2, <1>3, PTL DEF Spec

\* The object of a ready asset, if it is there, holds the bytes that were
\* verified, whatever is PUT, retried, cancelled or cleaned up meanwhile.
THEOREM ReadyAssetsVerified == Spec => []ReadyBytesVerified
  <1>1. Init => BytesInv
    BY InitBytes
  <1>2. BytesInv /\ [Next]_vars => BytesInv'
    BY NextKeeps
  <1>3. BytesInv => ReadyBytesVerified
    BY DEF BytesInv
  <1> QED
    BY <1>1, <1>2, <1>3, PTL DEF Spec

-----------------------------------------------------------------------------
(* A cancelled session stays cancelled.                                    *)

\* What a step may not do to a settled session.
SettledStays(a) == Settled(a)' /\ (a \in ready' => a \in ready)

\* A request that neither begins to complete the session nor to renew it leaves
\* it settled.
LEMMA SettledAmongRequests ==
    ASSUME TypeOK, NEW a \in Asset, Settled(a),
           NEW r \in Request, NEW q \in Handling, Handle(r, q),
           q.step \in LockedStep \union {"reuse"} => q.asset # a,
           status'[a] = "cancelled", sweep' = sweep,
           a \in ready' => a \in ready
    PROVE  SettledStays(a)
  <1>1. /\ request \in [Request -> Handling]
        /\ request' = [request EXCEPT ![r] = q]
    BY DEF TypeOK, Handle
  <1>2. ~Completing(a)'
    BY <1>1 DEF Settled, Completing
  <1>3. \A s \in Request : request'[s].step = "reuse" => request'[s].asset # a
    BY <1>1 DEF Settled
  <1> QED
    BY <1>2, <1>3 DEF Settled, SettledStays

LEMMA CreateLeavesSettled ==
    ASSUME TypeOK, NEW a \in Asset, Settled(a), NEW r \in Request, CreateStep(r)
    PROVE  SettledStays(a)
  <1>1. CASE \E b \in Asset : StartCreate(r, b)
    <2>1. PICK b \in Asset : StartCreate(r, b)
      BY <1>1
    <2> DEFINE q == [step |-> "lookup", asset |-> b, aged |-> FALSE]
    <2>2. q \in Handling /\ q.step \notin LockedStep \union {"reuse"}
      BY DEF Handling, LockedStep
    <2>3. Handle(r, q) /\ UNCHANGED <<status, ready, sweep>>
      BY <2>1 DEF StartCreate, uploads
    <2> HIDE DEF q
    <2> QED
      BY <2>2, <2>3, SettledAmongRequests DEF Settled
  <1>2. CASE FindUpload(r)
    <2>1. request[r] # Idle /\ request[r].asset \in Asset
      BY <1>2, HandlingFields DEF FindUpload, TypeOK
    <2>2. PICK q \in Handling :
            Handle(r, q) /\ (q.step \in LockedStep \union {"reuse"} => q.asset # a)
      <3>1. CASE status[request[r].asset] = "none"
        <4> DEFINE q == [request[r] EXCEPT !.step = "insert"]
        <4>1. q \in Handling /\ q.step \notin LockedStep \union {"reuse"}
          BY <1>2, HandlingFields DEF FindUpload, TypeOK, Handling, LockedStep
        <4>2. Handle(r, q)
          BY <1>2, <3>1 DEF FindUpload
        <4> HIDE DEF q
        <4> QED
          BY <4>1, <4>2
      <3>2. CASE status[request[r].asset] # "none"
        <4>1. Reuse(r, request[r].asset)
          BY <1>2, <3>2 DEF FindUpload
        <4> QED
          BY <2>1, <4>1, ReuseMoves DEF Settled, Reusable
      <3> QED
        BY <3>1, <3>2
    <2>3. UNCHANGED <<status, ready, sweep>>
      BY <1>2 DEF FindUpload, uploads
    <2> QED
      BY <2>2, <2>3, SettledAmongRequests DEF Settled
  <1>3. CASE InsertUpload(r)
    <2>1. request[r] # Idle /\ request[r].asset \in Asset
      BY <1>3, HandlingFields DEF InsertUpload, TypeOK
    <2>2. PICK q \in Handling :
            Handle(r, q) /\ (q.step \in LockedStep \union {"reuse"} => q.asset # a)
      <3>1. CASE status[request[r].asset] = "none"
        <4>1. Handle(r, Idle)
          BY <1>3, <3>1 DEF InsertUpload, Finish
        <4>2. Idle \in Handling /\ Idle.step \notin LockedStep \union {"reuse"}
          BY DEF Handling, Idle, LockedStep
        <4> QED
          BY <4>1, <4>2
      <3>2. CASE status[request[r].asset] # "none"
        <4>1. Reuse(r, request[r].asset)
          BY <1>3, <3>2 DEF InsertUpload
        <4> QED
          BY <2>1, <4>1, ReuseMoves DEF Settled, Reusable
      <3> QED
        BY <3>1, <3>2
    <2>3. status'[a] = "cancelled"
      BY <1>3, <2>1 DEF InsertUpload, TypeOK, Settled
    <2> QED
      BY <1>3, <2>2, <2>3, SettledAmongRequests DEF InsertUpload
  <1>4. CASE WriteReuse(r)
    <2>1. Handle(r, Idle) /\ UNCHANGED <<ready, sweep>>
      BY <1>4 DEF WriteReuse, Finish
    <2>2. Idle \in Handling /\ Idle.step \notin LockedStep \union {"reuse"}
      BY DEF Handling, Idle, LockedStep
    <2>3. request[r].asset # a
      BY <1>4 DEF WriteReuse, Settled
    <2>4. status'[a] = "cancelled"
      BY <1>4, <2>3 DEF WriteReuse, TypeOK, Settled
    <2> QED
      BY <2>1, <2>2, <2>4, SettledAmongRequests
  <1> QED
    BY <1>1, <1>2, <1>3, <1>4 DEF CreateStep

LEMMA CompleteLeavesSettled ==
    ASSUME TypeOK, NEW a \in Asset, Settled(a), NEW r \in Request, CompleteStep(r)
    PROVE  SettledStays(a)
  <1>1. Idle \in Handling /\ Idle.step \notin LockedStep \union {"reuse"}
    BY DEF Handling, Idle, LockedStep
  <1>2. request \in [Request -> Handling] /\ request[r] \in Handling
    BY DEF TypeOK
  <1>3. CASE \E b \in Asset : StartComplete(r, b)
    <2>1. PICK b \in Asset : StartComplete(r, b)
      BY <1>3
    <2> DEFINE q == [step |-> "stat", asset |-> b, aged |-> FALSE, etag |-> None]
    <2>2. q \in Handling /\ q.asset = b
      BY DEF Handling, LockedStep
    <2>3. Handle(r, q) /\ b # a /\ UNCHANGED <<status, ready, sweep>>
      BY <2>1 DEF StartComplete, Settled, uploads
    <2> HIDE DEF q
    <2> QED
      BY <2>2, <2>3, SettledAmongRequests DEF Settled
  <1>4. CASE \E b \in Asset : CompleteExpired(r, b)
    <2>1. PICK b \in Asset : CompleteExpired(r, b)
      BY <1>4
    <2>2. status'[a] = "cancelled" /\ UNCHANGED <<request, ready, sweep>>
      BY <2>1 DEF CompleteExpired, TypeOK, Settled
    <2> QED
      BY <2>2 DEF Settled, SettledStays, Completing
  <1>5. CASE TidyStaging(r)
    <2>1. Handle(r, Idle) /\ UNCHANGED <<status, ready, sweep>>
      BY <1>5 DEF TidyStaging, Finish, uploads
    <2> QED
      BY <1>1, <2>1, SettledAmongRequests DEF Settled
  <1>6. ASSUME request[r].step \in LockedStep
        PROVE  /\ request[r].asset # a
               /\ request[r] \in [step: LockedStep \union {"tidy"}, asset: Asset,
                                  aged: BOOLEAN, etag: Content \union {None}]
    BY <1>2, <1>6, HandlingFields DEF Settled, Completing
  <1>7. CASE StatStaging(r)
    <2>1. request[r].step \in LockedStep
      BY <1>7 DEF StatStaging, LockedStep
    <2> DEFINE q == [request[r] EXCEPT !.step = "copy",
                                       !.etag = staging[request[r].asset]]
    <2>2. staging[request[r].asset] \in Content \union {None}
      BY <1>6, <2>1 DEF TypeOK
    <2>3. q \in Handling /\ q.asset = request[r].asset
      BY <1>6, <2>1, <2>2 DEF Handling, LockedStep
    <2>4. Handle(r, q) \/ Handle(r, Idle)
      BY <1>7 DEF StatStaging, Finish
    <2>5. UNCHANGED <<status, ready, sweep>>
      BY <1>7 DEF StatStaging, uploads
    <2> HIDE DEF q
    <2> QED
      BY <1>1, <1>6, <2>1, <2>3, <2>4, <2>5, SettledAmongRequests DEF Settled
  <1>8. CASE CopyObject(r)
    <2>1. request[r].step \in LockedStep
      BY <1>8 DEF CopyObject, LockedStep
    <2> DEFINE q == [request[r] EXCEPT !.step = "verify"]
    <2>2. q \in Handling /\ q.asset = request[r].asset
      BY <1>6, <2>1 DEF Handling, LockedStep
    <2>3. Handle(r, q) \/ Handle(r, Idle)
      BY <1>8 DEF CopyObject, Finish
    <2>4. UNCHANGED <<status, ready, sweep>>
      BY <1>8 DEF CopyObject, uploads
    <2> HIDE DEF q
    <2> QED
      BY <1>1, <1>6, <2>1, <2>2, <2>3, <2>4, SettledAmongRequests DEF Settled
  <1>9. CASE VerifyFinal(r)
    <2>1. request[r].step \in LockedStep
      BY <1>9 DEF VerifyFinal, LockedStep
    <2> DEFINE q(s) == [request[r] EXCEPT !.step = s]
    <2>2. \A s \in LockedStep : q(s) \in Handling /\ q(s).asset = request[r].asset
      BY <1>6, <2>1 DEF Handling
    <2>3. Handle(r, q("commit")) \/ Handle(r, q("discard")) \/ Handle(r, Idle)
      BY <1>9 DEF VerifyFinal, Finish
    <2>4. UNCHANGED <<status, ready, sweep>>
      BY <1>9 DEF VerifyFinal, uploads
    <2>5. "commit" \in LockedStep /\ "discard" \in LockedStep
      BY DEF LockedStep
    <2> HIDE DEF q
    <2> QED
      BY <1>1, <1>6, <2>1, <2>2, <2>3, <2>4, <2>5, SettledAmongRequests DEF Settled
  <1>10. CASE DiscardFinal(r)
    <2>1. Handle(r, Idle) /\ UNCHANGED <<status, ready, sweep>>
      BY <1>10 DEF DiscardFinal, Finish, uploads
    <2> QED
      BY <1>1, <2>1, SettledAmongRequests DEF Settled
  <1>11. CASE CommitAsset(r)
    <2>1. request[r].step \in LockedStep
      BY <1>11 DEF CommitAsset, LockedStep
    <2> DEFINE q == [request[r] EXCEPT !.step = "tidy"]
    <2>2. q \in Handling /\ q.step \notin LockedStep \union {"reuse"}
      BY <1>6, <2>1 DEF Handling, LockedStep
    <2>3. /\ Handle(r, q) /\ sweep' = sweep
          /\ status'[a] = "cancelled" /\ (a \in ready' => a \in ready)
      BY <1>6, <1>11, <2>1 DEF CommitAsset, TypeOK, Settled
    <2> HIDE DEF q
    <2> QED
      BY <2>2, <2>3, SettledAmongRequests
  <1> QED
    BY <1>3, <1>4, <1>5, <1>7, <1>8, <1>9, <1>10, <1>11 DEF CompleteStep

LEMMA CancelLeavesSettled ==
    ASSUME TypeOK, NEW a \in Asset, Settled(a), NEW r \in Request,
           CancelStep(r) \/ Abort(r)
    PROVE  SettledStays(a)
  <1>1. Idle \in Handling /\ Idle.step \notin LockedStep \union {"reuse"}
    BY DEF Handling, Idle, LockedStep
  <1>2. CASE \E b \in Asset : StartCancel(r, b)
    <2>1. PICK b \in Asset : StartCancel(r, b)
      BY <1>2
    <2> DEFINE q == [step |-> "cancel", asset |-> b, aged |-> FALSE]
    <2>2. q \in Handling /\ q.step \notin LockedStep \union {"reuse"}
      BY DEF Handling, LockedStep
    <2>3. Handle(r, q) /\ UNCHANGED <<status, ready, sweep>>
      BY <2>1 DEF StartCancel, uploads
    <2> HIDE DEF q
    <2> QED
      BY <2>2, <2>3, SettledAmongRequests DEF Settled
  <1>3. CASE WriteCancel(r)
    <2>1. Handle(r, Idle) /\ UNCHANGED <<ready, sweep>>
      BY <1>3 DEF WriteCancel, Finish
    <2>2. status'[a] = "cancelled"
      BY <1>3 DEF WriteCancel, TypeOK, Settled
    <2> QED
      BY <1>1, <2>1, <2>2, SettledAmongRequests
  <1>4. CASE Abort(r)
    <2>1. Handle(r, Idle) /\ UNCHANGED <<status, ready, sweep>>
      BY <1>4 DEF Abort, Finish, uploads
    <2> QED
      BY <1>1, <2>1, SettledAmongRequests DEF Settled
  <1> QED
    BY <1>2, <1>3, <1>4 DEF CancelStep

LEMMA TickLeavesSettled ==
    ASSUME TypeOK, NEW a \in Asset, Settled(a), Tick
    PROVE  SettledStays(a)
  <1>1. /\ request \in [Request -> Handling]
        /\ request' = [r \in Request |-> Older(request[r])]
        /\ UNCHANGED <<status, ready, sweep>>
    BY DEF Tick, TypeOK
  <1>2. \A r \in Request :
            /\ request'[r].step = request[r].step
            /\ request[r] # Idle => request'[r].asset = request[r].asset
    BY <1>1, OlderRequest
  <1>3. \A r \in Request :
            request[r].step \in LockedStep \union {"reuse"} => request[r] # Idle
    BY DEF Idle, LockedStep
  <1>4. ~Completing(a)'
    BY <1>1, <1>2, <1>3 DEF Settled, Completing
  <1>5. \A r \in Request : request'[r].step = "reuse" => request'[r].asset # a
    BY <1>1, <1>2, <1>3 DEF Settled
  <1> QED
    BY <1>1, <1>4, <1>5 DEF Settled, SettledStays

\* A cleanup expires only what it found pending when it began.
LEMMA SweepLeavesSettled ==
    ASSUME TypeOK, NEW a \in Asset, Settled(a), SweepStep
    PROVE  SettledStays(a)
  <1>1. UNCHANGED <<request, ready>>
    BY DEF SweepStep, SweepStart, SweepExpire, SweepStaging, SweepList,
           SweepReference, SweepCheck, SweepErase, SweepCommit, SweepAbort
  <1>2. sweep \in Sweeping /\ NoSweep.lapsed = {}
    BY DEF TypeOK, NoSweep
  <1>3. status'[a] = "cancelled" /\ a \notin sweep'.lapsed
    <2>1. CASE SweepStart
      BY <2>1 DEF SweepStart, Sweep, NoSweep, Settled, uploads
    <2>2. CASE SweepExpire
      BY <1>2, <2>2 DEF SweepExpire, Sweep, Sweeping, Settled, uploads
    <2>3. CASE \E b \in Asset : SweepStaging(b)
      BY <1>2, <2>3 DEF SweepStaging, Sweep, Sweeping, Settled, uploads
    <2>4. CASE SweepList
      BY <1>2, <2>4 DEF SweepList, Sweep, Sweeping, Settled, uploads
    <2>5. CASE SweepReference
      BY <1>2, <2>5 DEF SweepReference, Sweep, Sweeping, Settled, uploads
    <2>6. CASE \E b \in Asset : SweepCheck(b)
      BY <1>2, <2>6, ZenonT(30) DEF SweepCheck, Sweep, Sweeping, Settled, uploads
    <2>7. CASE SweepErase
      BY <1>2, <2>7 DEF SweepErase, Sweep, Sweeping, Settled, uploads
    <2>8. CASE SweepCommit
      BY <1>2, <2>8 DEF SweepCommit, Sweep, Settled
    <2>9. CASE SweepAbort
      BY <1>2, <2>9 DEF SweepAbort, Sweep, Settled, uploads
    <2> QED
      BY <2>1, <2>2, <2>3, <2>4, <2>5, <2>6, <2>7, <2>8, <2>9 DEF SweepStep
  <1> QED
    BY <1>1, <1>3 DEF Settled, SettledStays, Completing

LEMMA NextLeavesSettled ==
    ASSUME TypeOK, NEW a \in Asset, Settled(a), Next
    PROVE  SettledStays(a)
  <1>1. CASE \E b \in Asset, c \in Content : PutObject(b, c)
    <2>1. UNCHANGED <<status, ready, request, sweep>>
      BY <1>1 DEF PutObject, uploads
    <2> QED
      BY <2>1 DEF Settled, SettledStays, Completing
  <1>2. CASE \E r \in Request :
                CreateStep(r) \/ CompleteStep(r) \/ CancelStep(r) \/ Abort(r)
    BY <1>2, CreateLeavesSettled, CompleteLeavesSettled, CancelLeavesSettled
  <1> QED
    BY <1>1, <1>2, TickLeavesSettled, SweepLeavesSettled DEF Next

\* A session that is cancelled with no other work on its row under way stays
\* cancelled: no later request renews or completes it, no cleanup expires it.
THEOREM CancelledSessionsStay == Spec => CancelledForGood
  <1>1. Init => BytesInv
    BY InitBytes
  <1>2. BytesInv /\ [Next]_vars => BytesInv'
    BY NextKeeps
  <1>3. BytesInv /\ [Next]_vars =>
            [\A a \in Asset :
                Settled(a) /\ status'[a] # "none"
                    => Settled(a)' /\ (a \in ready' => a \in ready)]_vars
    BY NextLeavesSettled DEF BytesInv, SettledStays
  <1> QED
    BY <1>1, <1>2, <1>3, PTL DEF Spec, CancelledForGood

-----------------------------------------------------------------------------
(* The object of a ready asset.                                            *)

\* What a step may do to the object of a ready asset.
ObjectKept(a) ==
    /\ sweep'.victim = a => sweep.victim = a
    /\ final'[a] # final[a] => a = sweep.victim

LEMMA SweepKeepsObject ==
    ASSUME TypeOK, NEW a \in ready, SweepStep
    PROVE  ObjectKept(a)
  <1>1. sweep \in Sweeping /\ a \in Asset /\ a # None /\ NoSweep.victim = None
    BY AssetAssumption DEF TypeOK, NoSweep
  <1>2. CASE SweepStart
    BY <1>1, <1>2 DEF SweepStart, Sweep, NoSweep, ObjectKept, objects
  <1>3. CASE SweepExpire
    BY <1>1, <1>3 DEF SweepExpire, Sweep, Sweeping, ObjectKept, objects
  <1>4. CASE \E b \in Asset : SweepStaging(b)
    BY <1>1, <1>4 DEF SweepStaging, Sweep, Sweeping, ObjectKept
  <1>5. CASE SweepList
    BY <1>1, <1>5 DEF SweepList, Sweep, Sweeping, ObjectKept, objects
  <1>6. CASE SweepReference
    BY <1>1, <1>6 DEF SweepReference, Sweep, Sweeping, ObjectKept, objects
  <1>7. CASE \E b \in Asset : SweepCheck(b)
    <2>1. PICK b \in Asset : SweepCheck(b)
      BY <1>7
    <2>2. final' = final
      BY <2>1 DEF SweepCheck, objects
    <2>3. CASE b \in ready
      <3>1. sweep' = [sweep EXCEPT !.orphans = sweep.orphans \ {b},
                                   !.protected = sweep.protected \union {b}]
        BY <2>1, <2>3 DEF SweepCheck, Referenced, Sweep
      <3> QED
        BY <1>1, <2>2, <3>1 DEF Sweeping, ObjectKept
    <2>4. CASE b \notin ready
      <3>1. sweep' = [sweep EXCEPT !.step = "erase",
                                   !.orphans = sweep.orphans \ {b}, !.victim = b]
        BY <2>1, <2>4 DEF SweepCheck, Referenced, Sweep
      <3>2. sweep'.victim = b
        BY <1>1, <3>1 DEF Sweeping
      <3> QED
        BY <2>2, <2>4, <3>2 DEF ObjectKept
    <2> QED
      BY <2>3, <2>4
  <1>8. CASE SweepErase
    <2>1. sweep'.victim = None
      BY <1>1, <1>8 DEF SweepErase, Sweep, Sweeping
    <2>2. a # sweep.victim => final'[a] = final[a]
      BY <1>8 DEF SweepErase, TypeOK
    <2> QED
      BY <1>1, <2>1, <2>2 DEF ObjectKept
  <1>9. CASE SweepCommit
    BY <1>1, <1>9 DEF SweepCommit, Sweep, ObjectKept, objects
  <1>10. CASE SweepAbort
    BY <1>1, <1>10 DEF SweepAbort, Sweep, ObjectKept, objects
  <1> QED
    BY <1>2, <1>3, <1>4, <1>5, <1>6, <1>7, <1>8, <1>9, <1>10 DEF SweepStep

\* A completion works on the object of an asset that is not ready.
LEMMA CompletionKeepsObject ==
    ASSUME BytesInv, NEW a \in ready, NEW r \in Request, CompleteStep(r)
    PROVE  ObjectKept(a)
  <1>1. sweep' = sweep
    BY DEF CompleteStep, StartComplete, CompleteExpired, StatStaging, CopyObject,
           VerifyFinal, DiscardFinal, CommitAsset, TidyStaging
  <1>2. final'[a] = final[a]
    <2>1. CASE CopyObject(r) \/ DiscardFinal(r)
      <3>1. request[r].asset # a
        BY <2>1 DEF CopyObject, DiscardFinal, BytesInv, CompletesUnready, LockedStep
      <3> QED
        BY <2>1, <3>1 DEF CopyObject, DiscardFinal, BytesInv, TypeOK
    <2>2. CASE ~(CopyObject(r) \/ DiscardFinal(r))
      BY <2>2 DEF CompleteStep, StartComplete, CompleteExpired, StatStaging,
                  VerifyFinal, CommitAsset, TidyStaging, objects
    <2> QED
      BY <2>1, <2>2
  <1> QED
    BY <1>1, <1>2 DEF ObjectKept

\* Nothing but the cleanup removes the object of a ready asset, and nothing
\* makes a ready asset the cleanup's victim.
LEMMA NextKeepsObject ==
    ASSUME BytesInv, NEW a \in ready, Next
    PROVE  ObjectKept(a)
  <1>1. CASE \/ Tick
             \/ \E b \in Asset, c \in Content : PutObject(b, c)
             \/ \E r \in Request : CreateStep(r) \/ CancelStep(r) \/ Abort(r)
    <2>1. UNCHANGED <<final, sweep>>
      BY <1>1 DEF Tick, PutObject, CreateStep, StartCreate, FindUpload, InsertUpload,
                  WriteReuse, CancelStep, StartCancel, WriteCancel, Abort, objects
    <2> QED
      BY <2>1 DEF ObjectKept
  <1> QED
    BY <1>1, SweepKeepsObject, CompletionKeepsObject DEF BytesInv, Next

=============================================================================
