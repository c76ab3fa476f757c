-------------------------- MODULE MCCommitEndpoint --------------------------
(* CommitEndpoint on small instances: the values of its constants. *)
EXTENDS CommitEndpoint, TLC

CONSTANTS q1, q2, q3, k1, k2

\* Two requests that contend for one key, and one with a key of its own.
Contended == (q1 :> k1) @@ (q2 :> k1) @@ (q3 :> k2)

=============================================================================
