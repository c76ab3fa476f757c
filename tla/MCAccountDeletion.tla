-------------------------- MODULE MCAccountDeletion --------------------------
(* AccountDeletion on small instances: what may happen in a behaviour. *)
EXTENDS AccountDeletion, TLC

Requests == Permutations(Request)

\* Two requests at a time and the cleanup, on an account that stays.
Uploading == [requests |-> 2, cleanups |-> TRUE, deletion |-> FALSE,
              faults |-> 1]

\* One request at a time and the cleanup while the account is deleted.
Closing == [requests |-> 1, cleanups |-> TRUE, deletion |-> TRUE,
            faults |-> 1]

\* Faults where the account stays, and none where it goes.
UploadingAndClosing == {Uploading, [Closing EXCEPT !.faults = 0]}

\* One request at a time with the cleanup, or with the deletion.
OneByOne == {[Uploading EXCEPT !.requests = 1], [Closing EXCEPT !.cleanups = FALSE]}

=============================================================================
