---------------------------- MODULE MCSnapshots ----------------------------
(* Instances of Snapshots: the slots of one kind are interchangeable, unless  *)
(* the requests differ in what they may ask for.                              *)
EXTENDS Snapshots, TLC

CONSTANT q1     \* a request

Slots == Permutations(Caps) \cup Permutations(Nats) \cup Permutations(Rszs)
Symmetry == Permutations(Reqs) \cup Slots

\* Every kind; and polls with and without a size.
AllKinds == [q \in Reqs |-> ({"preview", "event"} \X BOOLEAN) \cup {<<"full", FALSE>>}]
Polls == [q \in Reqs |-> {<<"preview", FALSE>>, <<"preview", TRUE>>}]

\* Events, in a size or not: one request asks for them or for polls of a size,
\* the others only for them.
Events ==
    [q \in Reqs |-> {<<"event", FALSE>>} \cup
        IF q = q1 THEN {<<"preview", TRUE>>} ELSE {<<"event", TRUE>>}]
=============================================================================
