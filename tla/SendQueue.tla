------------------------------ MODULE SendQueue ------------------------------
(***************************************************************************)
(* What the sending side of one connection promises to the rest of the     *)
(* program: a bounded FIFO that may refuse a packet but never reorders,    *)
(* repeats or invents one, and that accepts nothing once it is closed.     *)
(* ConnHandler implements it (see the refinement mapping there).           *)
(***************************************************************************)
EXTENDS Naturals, Sequences

CONSTANTS Packets,     \* the packets that can be offered
          Bound        \* how many accepted packets can be waiting

VARIABLES queue,       \* accepted, not yet on the wire
          delivered,   \* on the wire, in order
          closed       \* the connection was stopped

qvars == <<queue, delivered, closed>>

Init == queue = <<>> /\ delivered = <<>> /\ closed = FALSE

Accept(p) == /\ ~closed /\ Len(queue) < Bound
             /\ queue' = Append(queue, p)
             /\ UNCHANGED <<delivered, closed>>

Deliver == /\ queue /= <<>>
           /\ delivered' = Append(delivered, Head(queue))
           /\ queue' = Tail(queue)
           /\ UNCHANGED closed

\* The packet being written is lost with the connection.
Lose == /\ queue /= <<>>
        /\ queue' = Tail(queue)
        /\ UNCHANGED <<delivered, closed>>

Close == ~closed /\ closed' = TRUE /\ UNCHANGED <<queue, delivered>>

Next == (\E p \in Packets : Accept(p)) \/ Deliver \/ Lose \/ Close

Spec == Init /\ [][Next]_qvars
=============================================================================
