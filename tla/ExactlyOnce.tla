----------------------------- MODULE ExactlyOnce -----------------------------
(***************************************************************************)
(* What a device may rely on when it commits a batch under an idempotency  *)
(* key: however often the request is sent, the server performs it at most  *)
(* once, and whatever it answers is true of that one performance.          *)
(***************************************************************************)
EXTENDS Naturals, Sequences

CONSTANTS
    Request,  \* requests; equal requests have equal hashes
    KeyOf     \* the idempotency key each request carries

VARIABLES
    library,  \* the requests performed, in order
    outcome   \* what the device knows of each request

Open == [kind |-> "open", position |-> 0]
Refused == [kind |-> "refused", position |-> 0]
Success(n) == [kind |-> "success", position |-> n]

KeyTaken(q) == \E i \in DOMAIN library : KeyOf[library[i]] = KeyOf[q]

Init ==
    /\ library = <<>>
    /\ outcome = [q \in Request |-> Open]

\* A key is good for one performance.
Perform(q) ==
    /\ ~KeyTaken(q)
    /\ library' = Append(library, q)
    /\ UNCHANGED outcome

\* The device learns of the performance of its own request ...
Confirm(q) ==
    \E i \in DOMAIN library :
        /\ library[i] = q
        /\ outcome' = [outcome EXCEPT ![q] = Success(i)]
        /\ UNCHANGED library

\* ... or that the key was spent on another one.
Refuse(q) ==
    /\ \E i \in DOMAIN library : library[i] # q /\ KeyOf[library[i]] = KeyOf[q]
    /\ outcome' = [outcome EXCEPT ![q] = Refused]
    /\ UNCHANGED library

Next == \E q \in Request : Perform(q) \/ Confirm(q) \/ Refuse(q)

Spec == Init /\ [][Next]_<<library, outcome>>

=============================================================================
