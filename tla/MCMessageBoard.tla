---------------------------- MODULE MCMessageBoard ----------------------------
(* A small instance of MessageBoard. *)
EXTENDS MessageBoard, TLC

CONSTANTS p1, p2, r1, r2

\* Two pages on one replica; one page and two replicas; a message made,
\* changed and deleted with two faults.
MCMixes == {[pages |-> {p1, p2}, replicas |-> {r1}, changes |-> 1, faults |-> 1],
            [pages |-> {p1}, replicas |-> {r1, r2}, changes |-> 2, faults |-> 1],
            [pages |-> {p1}, replicas |-> {r1}, changes |-> 3, faults |-> 2]}

\* One page that loses its connection once.
MCReconnect == {[pages |-> {p1}, replicas |-> {r1}, changes |-> 1, faults |-> 1]}
=============================================================================
