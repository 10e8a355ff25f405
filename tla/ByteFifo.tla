------------------------------ MODULE ByteFifo ------------------------------
(***************************************************************************)
(* What the transmit queue promises the client, with no indices and no     *)
(* storage: a first-in first-out queue of at most Capacity bytes.  A block *)
(* of bytes is accepted whole or refused whole, and it is refused only     *)
(* when it does not fit beside the bytes already queued.                   *)
(***************************************************************************)
EXTENDS Naturals, Sequences

CONSTANTS
    Capacity,   \* bytes the queue can hold
    Byte,       \* the byte values
    MaxBlock    \* longest block the users of the queue write or take

VARIABLES
    fifo,       \* the queued bytes, oldest first
    accepted    \* answer to the last request for room

vars == <<fifo, accepted>>

Block == UNION {[1 .. n -> Byte] : n \in 0 .. MaxBlock}

Init ==
    /\ fifo = <<>>
    /\ accepted = TRUE

Fits(n) == Len(fifo) + n <= Capacity

\* Ask for room for a block and append the block if there is room.
Put(block) ==
    /\ accepted' = Fits(Len(block))
    /\ fifo' = IF Fits(Len(block)) THEN fifo \o block ELSE fifo

\* Ask for room and then write nothing.
Probe(n) ==
    /\ accepted' = Fits(n)
    /\ UNCHANGED fifo

\* The transport took the oldest n bytes, or all of them when fewer are queued.
Take(n) ==
    /\ fifo' = SubSeq(fifo, (IF n < Len(fifo) THEN n ELSE Len(fifo)) + 1, Len(fifo))
    /\ UNCHANGED accepted

Clear ==
    /\ fifo' = <<>>
    /\ UNCHANGED accepted

Next ==
    \/ \E block \in Block : Put(block)
    \/ \E n \in 0 .. MaxBlock : Probe(n)
    \/ \E n \in 0 .. MaxBlock : Take(n)
    \/ Clear

Spec == Init /\ [][Next]_vars
=============================================================================
