---------------------------- MODULE MCSyncStore ----------------------------
(* SyncStore on small instances: the values of its constants. *)
EXTENDS SyncStore, TLC

CONSTANTS n1, n2, p1, p2, p3, k1

\* One paged notebook; every page belongs to it.
PagesOfOne == [p \in {p1, p2, p3} |-> n1]

\* The first notebook is an infinite canvas; the second may become its copy.
CanvasParent == [r \in {k1} |-> n1]

\* How far revisions go: of pages only, of the first notebook.
PageRevisions == [r \in Resource |-> IF r \in Page THEN 3 ELSE 1]
RootRevisions == (n1 :> 4) @@ (n2 :> 1) @@ (k1 :> 2)

\* Pages are interchangeable, documents are, and so are metadata.
Interchangeable == Permutations(Page) \union Permutations(Content)
InterchangeableData == Permutations(Content) \union Permutations(Meta)

=============================================================================
