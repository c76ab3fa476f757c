----------------------------- MODULE ChangeFeed -----------------------------
(***************************************************************************)
(* The change feed of an account under concurrent transactions.  A         *)
(* transaction locks the row it changes, gives it its next revision and    *)
(* inserts a change event, whose sequence number is taken from a counter   *)
(* at once; row and event become visible together when the transaction     *)
(* commits, and nothing makes transactions commit in the order of the      *)
(* numbers they took.  Devices follow the feed by a cursor, page by page,  *)
(* or start from a bootstrap: the cursor first, then the inventory, kind   *)
(* by kind, each read seeing what is committed by then.                    *)
(***************************************************************************)
EXTENDS Naturals, FiniteSets, FiniteSetsExt

CONSTANTS
    Resource,
    Transaction,
    Device,
    PageSize,     \* events in one page of GET /sync/changes
    MaxSequence,  \* bound on the sequence numbers taken
    None

ASSUME FeedAssumption ==
    /\ PageSize \in Nat \ {0} /\ MaxSequence \in Nat
    /\ None \notin Transaction

VARIABLES
    sequence,  \* the last number taken
    revision,  \* the committed revision of every row
    lock,      \* the transaction that holds a row
    written,   \* the events a transaction has inserted
    events,    \* the committed rows of sync_changes
    cursor,    \* the cursor of each device
    base,      \* the base cursor of its last bootstrap
    copy,      \* the revision of each resource a device has
    unread     \* the resources a bootstrap has still to read

vars == <<sequence, revision, lock, written, events, cursor, base, copy, unread>>

serverVars == <<sequence, revision, lock, written, events>>
deviceVars == <<cursor, base, copy, unread>>

Event == [sequence: Nat, resource: Resource, revision: Nat]

TypeOK ==
    /\ sequence \in Nat
    /\ revision \in [Resource -> Nat]
    /\ lock \in [Resource -> Transaction \union {None}]
    /\ written \in [Transaction -> SUBSET Event]
    /\ events \subseteq Event
    /\ cursor \in [Device -> 0..sequence] /\ base \in [Device -> 0..sequence]
    /\ copy \in [Device -> [Resource -> Nat]]
    /\ unread \in [Device -> SUBSET Resource]

Init ==
    /\ sequence = 0
    /\ revision = [r \in Resource |-> 0]
    /\ lock = [r \in Resource |-> None]
    /\ written = [t \in Transaction |-> {}]
    /\ events = {}
    /\ cursor = [d \in Device |-> 0] /\ base = [d \in Device |-> 0]
    /\ copy = [d \in Device |-> [r \in Resource |-> 0]]
    /\ unread = [d \in Device |-> {}]

-----------------------------------------------------------------------------
(* Transactions.                                                           *)

\* What a transaction sees of a row: its own writes or what is committed.
WrittenTo(t, r) == {e \in written[t] : e.resource = r}
Seen(t, r) == revision[r] + Cardinality(WrittenTo(t, r))

InsertEvent(t, r) ==
    /\ sequence < MaxSequence
    /\ sequence' = sequence + 1
    /\ written' = [written EXCEPT ![t] = @ \union
         {[sequence |-> sequence', resource |-> r, revision |-> Seen(t, r) + 1]}]

\* Fault: the row is read without FOR UPDATE.
WriteUnlocked(t, r) ==
    /\ InsertEvent(t, r)
    /\ UNCHANGED <<revision, lock, events, deviceVars>>

\* SELECT ... FOR UPDATE waits for the transaction that holds the row.
Write(t, r) ==
    /\ lock[r] \in {t, None}
    /\ lock' = [lock EXCEPT ![r] = t]
    /\ InsertEvent(t, r)
    /\ UNCHANGED <<revision, events, deviceVars>>

End(t) ==
    /\ lock' = [r \in Resource |-> IF lock[r] = t THEN None ELSE lock[r]]
    /\ written' = [written EXCEPT ![t] = {}]

Commit(t) ==
    /\ written[t] # {}
    /\ revision' = [r \in Resource |-> Seen(t, r)]
    /\ events' = events \union written[t]
    /\ End(t)
    /\ UNCHANGED <<sequence, deviceVars>>

\* A failure or a deadlock: the numbers taken stay unused.
RollBack(t) ==
    /\ written[t] # {}
    /\ End(t)
    /\ UNCHANGED <<sequence, revision, events, deviceVars>>

-----------------------------------------------------------------------------
(* Devices.                                                                *)

After(n) == {e \in events : e.sequence > n}

\* The first events after a cursor, no more than a page.
FirstPage(n) ==
    {e \in After(n) :
        Cardinality({f \in After(n) : f.sequence <= e.sequence}) <= PageSize}

LatestSequence == Max({0} \union {e.sequence : e \in events})

Received(d, page) == [r \in Resource |->
    Max({copy[d][r]} \union {e.revision : e \in {f \in page : f.resource = r}})]

\* Fault: the next cursor is one too far.
ListPastEnd(d) ==
    LET page == FirstPage(cursor[d])
    IN
    /\ unread[d] = {} /\ page # {}
    /\ copy' = [copy EXCEPT ![d] = Received(d, page)]
    /\ cursor' = [cursor EXCEPT ![d] = Max({e.sequence : e \in page}) + 1]
    /\ UNCHANGED <<serverVars, base, unread>>

ListChanges(d) ==
    LET page == FirstPage(cursor[d])
    IN
    /\ unread[d] = {} /\ page # {}
    /\ copy' = [copy EXCEPT ![d] = Received(d, page)]
    /\ cursor' = [cursor EXCEPT ![d] = Max({e.sequence : e \in page})]
    /\ UNCHANGED <<serverVars, base, unread>>

\* A bootstrap takes the cursor first ...
Bootstrap(d) ==
    /\ unread[d] = {}
    /\ base' = [base EXCEPT ![d] = LatestSequence]
    /\ cursor' = [cursor EXCEPT ![d] = LatestSequence]
    /\ unread' = [unread EXCEPT ![d] = Resource]
    /\ UNCHANGED <<serverVars, copy>>

\* Fault: the cursor is taken with the inventory.
ReadLateCursor(d, r) ==
    /\ r \in unread[d]
    /\ copy' = [copy EXCEPT ![d][r] = revision[r]]
    /\ cursor' = [cursor EXCEPT ![d] = LatestSequence]
    /\ unread' = [unread EXCEPT ![d] = @ \ {r}]
    /\ UNCHANGED <<serverVars, base>>

\* ... and then reads the inventory.
ReadInventory(d, r) ==
    /\ r \in unread[d]
    /\ copy' = [copy EXCEPT ![d][r] = revision[r]]
    /\ unread' = [unread EXCEPT ![d] = @ \ {r}]
    /\ UNCHANGED <<serverVars, cursor, base>>

Next ==
    \/ \E t \in Transaction :
          (\E r \in Resource : Write(t, r)) \/ Commit(t) \/ RollBack(t)
    \/ \E d \in Device :
          ListChanges(d) \/ Bootstrap(d) \/ \E r \in Resource : ReadInventory(d, r)

Spec == Init /\ [][Next]_vars

-----------------------------------------------------------------------------
(* Properties.                                                             *)

Of(r) == {e \in events : e.resource = r}

\* The committed events of a resource tell its revisions, each once and in
\* order, although transactions commit in any order and numbers are lost: a
\* device that follows the feed sees every resource advance revision by
\* revision, as the shared apply service demands.
RevisionsInOrder ==
    \A r \in Resource :
        /\ {e.revision : e \in Of(r)} = 1..revision[r]
        /\ \A e, f \in Of(r) : e.sequence < f.sequence <=> e.revision < f.revision

\* What a device will not be told after cursor n: it is behind the cursor, and
\* the device has no revision as new.
Missed(d, n) ==
    {e \in events : /\ e.sequence <= n
                    /\ e.revision > copy[d][e.resource]
                    /\ e.resource \notin unread[d]}

\* A device never passes over an event that it could see: paging and the order
\* of a bootstrap's reads miss nothing.
ReadsMissNothing ==
    [][events' = events => \A d \in Device :
          Missed(d, cursor[d])' \subseteq Missed(d, cursor[d])]_vars

\* "A concurrent write may then appear both in this inventory and in the later
\* incremental feed, but it cannot be skipped by advancing the cursor past an
\* unseen resource" (SyncService.bootstrap).
BootstrapSkipsNothing == \A d \in Device : Missed(d, base[d]) = {}

=============================================================================
