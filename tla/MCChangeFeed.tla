---------------------------- MODULE MCChangeFeed ----------------------------
(* ChangeFeed on small instances: what may be interchanged. *)
EXTENDS ChangeFeed, TLC

Interchangeable == Permutations(Transaction) \union Permutations(Resource)

=============================================================================
