---------------------------- MODULE MCDeviceSync ----------------------------
(* DeviceSync on small instances: what two devices may do in a behaviour.   *)
EXTENDS DeviceSync, TLC

CONSTANTS a, b, p1

\* Device a saves the page so often, and device b.
Quiet(ofA, ofB) ==
    [saves |-> (a :> (p1 :> ofA)) @@ (b :> (p1 :> ofB)),
     additions |-> (a :> 0) @@ (b :> 0),
     failures |-> 0, overlaps |-> 0,
     parallel |-> FALSE, opensInPull |-> FALSE, endsUntracked |-> FALSE]

\* One device writes and adds a page of its own, the other one reads.
Writer == [Quiet(2, 0) EXCEPT !.additions[a] = 1, !.failures = 1]

\* Both devices save the page.
Crossing == [Quiet(1, 1) EXCEPT !.failures = 1]

\* The tracker and the cycle write across each other.
Overlapping == [Quiet(2, 0) EXCEPT !.overlaps = 1, !.parallel = TRUE]

Devices == {Writer, Crossing, Overlapping}

\* Device a saves every page, device b every page but the first.
EachPage ==
    {[Quiet(0, 0) EXCEPT !.saves = [d \in Device |-> [p \in Page |->
                                        IF d = a \/ p # p1 THEN 1 ELSE 0]]]}

\* Device b goes on after the devices crossed.
GoesOn == {Quiet(1, 2)}

=============================================================================
