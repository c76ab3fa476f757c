-------------------------- MODULE MCRestoreBoundary --------------------------
(* RestoreBoundary on small instances: what may go wrong in a behaviour. *)
EXTENDS RestoreBoundary

May(failures, ends, returns) ==
    [failures |-> failures, ends |-> ends, returns |-> returns]

\* Two failures; or the app ends twice; or one of three failures hits what takes
\* a failed rollback back, and the app ends as well.
FailingOrEnding == {May(2, 0, FALSE), May(0, 2, FALSE), May(3, 1, TRUE)}

\* Nothing fails and the app does not end.
Undisturbed == {May(0, 0, FALSE)}

=============================================================================
