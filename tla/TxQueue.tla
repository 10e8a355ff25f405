------------------------------ MODULE TxQueue -------------------------------
(***************************************************************************)
(* tx_queue.hpp: the linear transmit FIFO.  Bytes live in one array between *)
(* head and tail; reserve() slides them to the front when the room at the  *)
(* tail is too small, and consume() rewinds both indices when it empties   *)
(* the queue.  Indices count from 0 as in the source.                      *)
(*                                                                         *)
(* The client reaches the queue through enqueue() and enqueue_sized()      *)
(* (reserve, write, commit), pump_tx() (peek, send, consume) and clear().  *)
(***************************************************************************)
EXTENDS Naturals, Sequences

CONSTANTS
    Capacity,   \* the template parameter Capacity, Cfg::tx_buffer_size
    Byte,       \* the byte values
    MaxBlock    \* bound on the length of the blocks the environment writes

ASSUME CapacityAssumption == Capacity \in Nat \ {0}
ASSUME ByteAssumption == 0 \in Byte
ASSUME MaxBlockAssumption == MaxBlock \in Nat

VARIABLES
    buffer,     \* buffer_, indexed 0 .. Capacity - 1
    head,       \* head_: first byte not yet handed to the transport
    tail,       \* tail_: first free byte
    reserved    \* what the last reserve() returned

vars == <<buffer, head, tail, reserved>>

Index == 0 .. Capacity - 1

Block == UNION {[1 .. n -> Byte] : n \in 0 .. MaxBlock}

TypeOK ==
    /\ buffer \in [Index -> Byte]
    /\ head \in 0 .. Capacity
    /\ tail \in 0 .. Capacity
    /\ reserved \in BOOLEAN

Init ==
    /\ buffer = [i \in Index |-> 0]
    /\ head = 0
    /\ tail = 0
    /\ reserved = TRUE

Pending == tail - head

\* Faulty variant of Compact: the indices move and the bytes do not.
CompactIndicesOnly(h) == [buffer |-> buffer, head |-> 0, tail |-> tail - h]

\* compact(): the three values it leaves behind.
Compact(h) == [
    buffer |-> [i \in Index |-> IF i < tail - h THEN buffer[h + i] ELSE buffer[i]],
    head   |-> 0,
    tail   |-> tail - h]

\* reserve(n): the storage after the call, compacted only if the tail is short
\* of room and the request could ever fit.
Reserve(n) ==
    IF n > Capacity \/ Capacity - tail >= n
    THEN [buffer |-> buffer, head |-> head, tail |-> tail]
    ELSE Compact(head)

\* reserve(n): its answer.
ReserveOk(n) == n <= Capacity /\ Capacity - Reserve(n).tail >= n

\* Faulty variant of Commit: the clamp is one past the end.
CommitPastEnd(t, n) == IF n < Capacity - t THEN t + n ELSE Capacity + 1

\* commit(n): tail_ advances by n, clamped to the room left.
Commit(t, n) == IF n < Capacity - t THEN t + n ELSE Capacity

\* enqueue(bytes), and enqueue_sized() whose encoder succeeds: reserve, copy
\* the block to write_span(), commit.
Enqueue(block) ==
    LET r == Reserve(Len(block)) IN
    /\ reserved' = ReserveOk(Len(block))
    /\ head' = r.head
    /\ IF ReserveOk(Len(block))
       THEN /\ buffer' = [i \in Index |->
                            IF i \in r.tail .. r.tail + Len(block) - 1
                            THEN block[i - r.tail + 1] ELSE r.buffer[i]]
            /\ tail' = Commit(r.tail, Len(block))
       ELSE buffer' = r.buffer /\ tail' = r.tail

\* enqueue_sized(n) whose encoder fails after reserve(): the room stays
\* unclaimed and holds whatever the encoder had written by then.
EnqueueFailed(n) ==
    LET r == Reserve(n) IN
    /\ reserved' = ReserveOk(n)
    /\ head' = r.head
    /\ tail' = r.tail
    /\ buffer' \in {b \in [Index -> Byte] :
                      \A i \in Index :
                        b[i] = r.buffer[i] \/ (ReserveOk(n) /\ i \in r.tail .. r.tail + n - 1)}

\* consume(n): advance head_, clamped, and rewind when the queue is empty.
Consume(n) ==
    LET h == head + (IF n < Pending THEN n ELSE Pending) IN
    /\ head' = IF h = tail THEN 0 ELSE h
    /\ tail' = IF h = tail THEN 0 ELSE tail
    /\ UNCHANGED <<buffer, reserved>>

\* Faulty variant of Clear: only tail_ is rewound.
ClearTailOnly ==
    /\ tail' = 0
    /\ UNCHANGED <<buffer, head, reserved>>

Clear ==
    /\ head' = 0
    /\ tail' = 0
    /\ UNCHANGED <<buffer, reserved>>

Next ==
    \/ \E block \in Block : Enqueue(block)
    \/ \E n \in 0 .. MaxBlock : EnqueueFailed(n)
    \/ \E n \in 0 .. MaxBlock : Consume(n)
    \/ Clear

Spec == Init /\ [][Next]_vars

-----------------------------------------------------------------------------

\* peek(): the bytes waiting to go out, oldest first.
Peek == [i \in 1 .. Pending |-> buffer[head + i - 1]]

Abstract == INSTANCE ByteFifo WITH fifo <- Peek, accepted <- reserved

\* The indices stay ordered and inside the array, so neither the size_t
\* differences tail_ - head_ and Capacity - tail_ (tx_queue.hpp:29, 40, 44)
\* nor a span built from them can wrap.
IndicesOrdered == head <= tail /\ tail <= Capacity

\* tx_queue.hpp implements a bounded byte FIFO: what peek() shows is what was
\* enqueued, in order and unaltered by compaction, and reserve() refuses a
\* block exactly when it does not fit beside the pending bytes.
RefinesByteFifo == Abstract!Spec
=============================================================================
