------------------------------ MODULE ByteFifo ------------------------------
(***************************************************************************)
(* What the write buffer of a client promises: a bounded first-in          *)
(* first-out queue of bytes.  A frame is put in whole or not at all, and   *)
(* bytes leave in the order they came.                                     *)
(***************************************************************************)
EXTENDS Integers, Sequences

CONSTANTS HeaderLen, Capacity, Lens

VARIABLES
    fifo,       \* bytes accepted and not yet sent
    wire,       \* bytes sent
    accepted    \* number of frames accepted

\* The k-th byte of the f-th accepted frame is <<f, k>>, header bytes first.
Frame(f, n) == [k \in 1..(HeaderLen + n) |-> <<f, k>>]

Init == fifo = <<>> /\ wire = <<>> /\ accepted = 0

Put(n) ==
    /\ Len(fifo) + HeaderLen + n <= Capacity
    /\ fifo' = fifo \o Frame(accepted + 1, n)
    /\ accepted' = accepted + 1
    /\ UNCHANGED wire

Take(n) ==
    /\ n \in 1..Len(fifo)
    /\ wire' = wire \o SubSeq(fifo, 1, n)
    /\ fifo' = SubSeq(fifo, n + 1, Len(fifo))
    /\ UNCHANGED accepted

Next == (\E n \in Lens : Put(n)) \/ (\E n \in 1..Len(fifo) : Take(n))

Spec == Init /\ [][Next]_<<fifo, wire, accepted>>
=============================================================================
