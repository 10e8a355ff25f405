--------------------------- MODULE TxQueueProofs ----------------------------
(***************************************************************************)
(* Proofs about tx_queue.hpp for every Capacity, every set of byte values  *)
(* and every bound on the blocks written.                                  *)
(***************************************************************************)
EXTENDS TxQueue, SequenceTheorems, TLAPS

\* Types and index order together are inductive.
IndexInv == TypeOK /\ IndicesOrdered

\* After reserve() the storage is well formed whatever n was asked for.
LEMMA ReserveType ==
    ASSUME IndexInv, NEW n \in Nat
    PROVE  /\ Reserve(n).buffer \in [Index -> Byte]
           /\ Reserve(n).head \in 0 .. Capacity
           /\ Reserve(n).tail \in Reserve(n).head .. Capacity
           /\ Reserve(n).tail - Reserve(n).head = Pending
<1>1. CASE n > Capacity \/ Capacity - tail >= n
  BY <1>1 DEF Reserve, IndexInv, TypeOK, IndicesOrdered, Pending
<1>2. CASE ~(n > Capacity \/ Capacity - tail >= n)
  <2>1. \A i \in Index : i < tail - head => head + i \in Index
    BY CapacityAssumption DEF IndexInv, TypeOK, IndicesOrdered, Index
  <2>2. Compact(head).buffer \in [Index -> Byte]
    BY <2>1 DEF Compact, IndexInv, TypeOK
  <2>3. QED
    BY <1>2, <2>2, CapacityAssumption
    DEF Reserve, Compact, IndexInv, TypeOK, IndicesOrdered, Pending
<1>3. QED
  BY <1>1, <1>2

\* reserve() keeps every pending byte and its place in the queue.
LEMMA ReserveKeepsBytes ==
    ASSUME IndexInv, NEW n \in Nat, NEW i \in 1 .. Pending
    PROVE  Reserve(n).buffer[Reserve(n).head + i - 1] = buffer[head + i - 1]
<1>1. CASE n > Capacity \/ Capacity - tail >= n
  BY <1>1 DEF Reserve
<1>2. CASE ~(n > Capacity \/ Capacity - tail >= n)
  <2>1. i - 1 \in Index /\ i - 1 < tail - head
    BY CapacityAssumption DEF IndexInv, TypeOK, IndicesOrdered, Index, Pending
  <2>2. Compact(head).buffer[i - 1] = buffer[head + (i - 1)]
    BY <2>1 DEF Compact
  <2>3. 0 + i - 1 = i - 1 /\ head + (i - 1) = head + i - 1
    BY DEF IndexInv, TypeOK, Pending
  <2>4. QED
    BY <1>2, <2>2, <2>3 DEF Reserve, Compact
<1>3. QED
  BY <1>1, <1>2

\* reserve(n) succeeds exactly when n more bytes fit beside the pending ones.
LEMMA ReserveExact ==
    ASSUME IndexInv, NEW n \in Nat
    PROVE  ReserveOk(n) = (Pending + n <= Capacity)
BY CapacityAssumption
DEF ReserveOk, Reserve, Compact, IndexInv, TypeOK, IndicesOrdered, Pending

LEMMA BlockType ==
    ASSUME NEW block \in Block
    PROVE  /\ block \in Seq(Byte)
           /\ Len(block) \in 0 .. MaxBlock
           /\ DOMAIN block = 1 .. Len(block)
<1>1. PICK n \in 0 .. MaxBlock : block \in [1 .. n -> Byte]
  BY DEF Block
<1>2. n \in Nat
  BY MaxBlockAssumption
<1>3. QED
  BY <1>1, <1>2

\* Where a committed block ends up: the storage after an accepted enqueue().
LEMMA EnqueueAccepted ==
    ASSUME IndexInv, NEW block \in Block, Enqueue(block), ReserveOk(Len(block))
    PROVE  LET r == Reserve(Len(block)) IN
           /\ buffer' = [i \in Index |->
                            IF i \in r.tail .. r.tail + Len(block) - 1
                            THEN block[i - r.tail + 1] ELSE r.buffer[i]]
           /\ head' = r.head
           /\ tail' = r.tail + Len(block)
           /\ tail' \in 0 .. Capacity
<1>1. Len(block) \in Nat
  BY BlockType, MaxBlockAssumption
<1>2. Reserve(Len(block)).tail \in 0 .. Capacity
  BY <1>1, ReserveType, CapacityAssumption DEF IndexInv, TypeOK
<1>3. QED
  BY <1>1, <1>2, CapacityAssumption DEF Enqueue, Commit, ReserveOk

\* Every call keeps head_ <= tail_ <= Capacity, so no size_t difference in
\* tx_queue.hpp can wrap.
LEMMA IndexInvStep == IndexInv /\ [Next]_vars => IndexInv'
<1> SUFFICES ASSUME IndexInv, [Next]_vars PROVE IndexInv'
  OBVIOUS
<1>1. ASSUME NEW block \in Block, Enqueue(block) PROVE IndexInv'
  <2> DEFINE r == Reserve(Len(block))
  <2>1. Len(block) \in Nat
    BY BlockType, MaxBlockAssumption
  <2>2. /\ r.buffer \in [Index -> Byte]
        /\ r.head \in 0 .. Capacity
        /\ r.tail \in r.head .. Capacity
    BY <2>1, ReserveType
  <2>3. reserved' \in BOOLEAN
    BY <1>1 DEF Enqueue, ReserveOk
  <2>4. CASE ReserveOk(Len(block))
    <3>1. \A i \in r.tail .. r.tail + Len(block) - 1 : block[i - r.tail + 1] \in Byte
      <4> SUFFICES ASSUME NEW i \in r.tail .. r.tail + Len(block) - 1
                   PROVE  block[i - r.tail + 1] \in Byte
        OBVIOUS
      <4>1. i - r.tail + 1 \in 1 .. Len(block)
        BY <2>1, <2>2, CapacityAssumption
      <4>2. QED
        BY <4>1, BlockType, ElementOfSeq
    <3>2. buffer' \in [Index -> Byte]
      BY <1>1, <2>2, <2>4, <3>1, EnqueueAccepted
    <3>3. head' \in 0 .. Capacity /\ tail' \in 0 .. Capacity /\ head' <= tail'
      BY <1>1, <2>1, <2>2, <2>4, EnqueueAccepted, CapacityAssumption
    <3>4. QED
      BY <2>3, <3>2, <3>3, CapacityAssumption DEF IndexInv, TypeOK, IndicesOrdered
  <2>5. CASE ~ReserveOk(Len(block))
    <3>1. buffer' = r.buffer /\ head' = r.head /\ tail' = r.tail
      BY <1>1, <2>5 DEF Enqueue
    <3>2. QED
      BY <2>2, <2>3, <3>1, CapacityAssumption DEF IndexInv, TypeOK, IndicesOrdered
  <2>6. QED
    BY <2>4, <2>5
<1>2. ASSUME NEW n \in 0 .. MaxBlock, EnqueueFailed(n) PROVE IndexInv'
  <2>1. n \in Nat
    BY MaxBlockAssumption
  <2>2. buffer' \in [Index -> Byte] /\ reserved' \in BOOLEAN
    BY <1>2 DEF EnqueueFailed, ReserveOk
  <2>3. QED
    BY <1>2, <2>1, <2>2, ReserveType, CapacityAssumption
    DEF EnqueueFailed, IndexInv, TypeOK, IndicesOrdered
<1>3. ASSUME NEW n \in 0 .. MaxBlock, Consume(n) PROVE IndexInv'
  BY <1>3, CapacityAssumption, MaxBlockAssumption
  DEF Consume, Pending, IndexInv, TypeOK, IndicesOrdered
<1>4. CASE Clear
  BY <1>4, CapacityAssumption DEF Clear, IndexInv, TypeOK, IndicesOrdered
<1>5. CASE UNCHANGED vars
  BY <1>5 DEF vars, IndexInv, TypeOK, IndicesOrdered
<1>6. QED
  BY <1>1, <1>2, <1>3, <1>4, <1>5 DEF Next

LEMMA IndexInvInit == Init => IndexInv
BY CapacityAssumption, ByteAssumption DEF Init, IndexInv, TypeOK, IndicesOrdered, Index

\* The type invariant and the index order hold in every reachable state of
\* the transmit queue.
THEOREM QueueIndices == Spec => [](TypeOK /\ IndicesOrdered)
BY IndexInvInit, IndexInvStep, PTL DEF Spec, IndexInv

-----------------------------------------------------------------------------

\* Both index ranges of a queue state give the byte sequence its type.
LEMMA PeekType ==
    ASSUME IndexInv
    PROVE  /\ Peek \in Seq(Byte)
           /\ Len(Peek) = Pending
           /\ Pending \in Nat
<1>1. Pending \in Nat
  BY CapacityAssumption DEF IndexInv, TypeOK, IndicesOrdered, Pending
<1>2. \A i \in 1 .. Pending : head + i - 1 \in Index
  BY CapacityAssumption DEF IndexInv, TypeOK, IndicesOrdered, Pending, Index
<1>3. Peek \in [1 .. Pending -> Byte]
  BY <1>2 DEF Peek, IndexInv, TypeOK
<1>4. QED
  BY <1>1, <1>3

LEMMA Relisted ==
    ASSUME NEW S, NEW s \in Seq(S)
    PROVE  [i \in 1 .. Len(s) |-> s[i]] = s
OBVIOUS

\* An accepted enqueue() appends exactly the block to what peek() shows.
LEMMA EnqueueAppends ==
    ASSUME IndexInv, IndexInv', NEW block \in Block, Enqueue(block), ReserveOk(Len(block))
    PROVE  Peek' = Peek \o block
<1> DEFINE r == Reserve(Len(block))
<1>1. Len(block) \in Nat /\ block \in Seq(Byte)
  BY BlockType, MaxBlockAssumption
<1>2. /\ r.head \in 0 .. Capacity
      /\ r.tail \in r.head .. Capacity
      /\ r.tail - r.head = Pending
  BY <1>1, ReserveType
<1>3. Pending' = Pending + Len(block) /\ r.tail + Len(block) <= Capacity
  BY <1>1, <1>2, EnqueueAccepted, CapacityAssumption DEF Pending
<1>4. Pending \in Nat /\ Peek \in Seq(Byte) /\ Len(Peek) = Pending
  BY PeekType
<1>5. \A i \in 1 .. Pending + Len(block) :
          buffer'[head' + i - 1] = (Peek \o block)[i]
  <2> SUFFICES ASSUME NEW i \in 1 .. Pending + Len(block)
               PROVE  buffer'[r.head + i - 1] = (Peek \o block)[i]
    BY EnqueueAccepted
  <2>0. r.head + i - 1 \in Index
    BY <1>1, <1>2, <1>3, <1>4, CapacityAssumption DEF Index
  <2>1. CASE i <= Pending
    <3>1. r.head + i - 1 \notin r.tail .. r.tail + Len(block) - 1
      BY <1>1, <1>2, <1>4, <2>1, CapacityAssumption
    <3>2. buffer'[r.head + i - 1] = r.buffer[r.head + i - 1]
      BY <2>0, <3>1, EnqueueAccepted
    <3>3. r.buffer[r.head + i - 1] = buffer[head + i - 1]
      BY <1>1, <1>4, <2>1, ReserveKeepsBytes
    <3>4. (Peek \o block)[i] = buffer[head + i - 1]
      BY <1>1, <1>4, <2>1 DEF Peek
    <3>5. QED
      BY <3>2, <3>3, <3>4
  <2>2. CASE ~(i <= Pending)
    <3>1. r.head + i - 1 \in r.tail .. r.tail + Len(block) - 1
      BY <1>1, <1>2, <1>4, <2>2, CapacityAssumption
    <3>2. (r.head + i - 1) - r.tail + 1 = i - Pending
      BY <1>2, <1>4, CapacityAssumption
    <3>3. buffer'[r.head + i - 1] = block[i - Pending]
      BY <2>0, <3>1, <3>2, EnqueueAccepted
    <3>4. (Peek \o block)[i] = block[i - Pending]
      BY <1>1, <1>4, <2>2
    <3>5. QED
      BY <3>3, <3>4
  <2>3. QED
    BY <2>1, <2>2
<1>6. Peek' = [i \in 1 .. Pending + Len(block) |-> (Peek \o block)[i]]
  BY <1>3, <1>5 DEF Peek
<1>7. Peek \o block \in Seq(Byte) /\ Len(Peek \o block) = Pending + Len(block)
  BY <1>1, <1>4
<1>8. QED
  BY <1>6, <1>7, Relisted

\* A refused enqueue(), or one whose encoder fails, leaves the pending bytes
\* as they were although it may have moved them.
LEMMA ReserveKeepsPeek ==
    ASSUME IndexInv, NEW n \in Nat,
           head' = Reserve(n).head, tail' = Reserve(n).tail,
           \A i \in Index : i < Reserve(n).tail => buffer'[i] = Reserve(n).buffer[i]
    PROVE  Peek' = Peek
<1>1. /\ Reserve(n).head \in 0 .. Capacity
      /\ Reserve(n).tail \in Reserve(n).head .. Capacity
      /\ Reserve(n).tail - Reserve(n).head = Pending
  BY ReserveType
<1>2. Pending' = Pending
  BY <1>1 DEF Pending
<1>3. \A i \in 1 .. Pending : buffer'[head' + i - 1] = buffer[head + i - 1]
  <2> SUFFICES ASSUME NEW i \in 1 .. Pending
               PROVE  buffer'[Reserve(n).head + i - 1] = buffer[head + i - 1]
    OBVIOUS
  <2>1. /\ Reserve(n).head + i - 1 \in Index
        /\ Reserve(n).head + i - 1 < Reserve(n).tail
    BY <1>1, PeekType, CapacityAssumption DEF Index
  <2>2. QED
    BY <2>1, ReserveKeepsBytes
<1>4. QED
  BY <1>2, <1>3 DEF Peek

\* consume(n) drops exactly the bytes the transport accepted.
LEMMA ConsumeTakes ==
    ASSUME IndexInv, IndexInv', NEW n \in Nat, Consume(n)
    PROVE  Peek' = SubSeq(Peek, (IF n < Len(Peek) THEN n ELSE Len(Peek)) + 1, Len(Peek))
<1> DEFINE k == IF n < Pending THEN n ELSE Pending
           h == head + k
<1>1. Pending \in Nat /\ Peek \in Seq(Byte) /\ Len(Peek) = Pending
  BY PeekType
<1>2. k \in 0 .. Pending /\ h \in head .. tail /\ head \in Nat /\ tail = head + Pending
  BY <1>1 DEF Pending, IndexInv, TypeOK
<1>3. SubSeq(Peek, k + 1, Pending) = [i \in 1 .. Pending - k |-> Peek[i + k]]
  <2>1. SubSeq(Peek, k + 1, Pending) =
          [i \in 1 .. (1 + Pending - (k + 1)) |-> Peek[i + (k + 1) - 1]]
    BY <1>1, <1>2
  <2>2. QED
    BY <1>1, <1>2, <2>1
<1>4. CASE h = tail
  <2>1. k = Pending /\ Pending' = 0
    BY <1>1, <1>2, <1>4 DEF Consume, Pending
  <2>2. QED
    BY <1>1, <1>3, <2>1 DEF Peek
<1>5. CASE h # tail
  <2>1. head' = h /\ tail' = tail /\ buffer' = buffer
    BY <1>5 DEF Consume
  <2>2. Pending' = Pending - k
    BY <1>1, <1>2, <2>1 DEF Pending
  <2>3. \A i \in 1 .. Pending - k : buffer[h + i - 1] = Peek[i + k]
    BY <1>1, <1>2 DEF Peek
  <2>4. Peek' = [i \in 1 .. Pending - k |-> Peek[i + k]]
    BY <2>1, <2>2, <2>3 DEF Peek
  <2>5. QED
    BY <1>1, <1>3, <2>4
<1>6. QED
  BY <1>4, <1>5

\* Every call on the queue is a step of the abstract FIFO, or changes nothing
\* the abstract FIFO can see.
LEMMA QueueStepRefines == IndexInv /\ IndexInv' /\ [Next]_vars => [Abstract!Next]_(Abstract!vars)
<1> SUFFICES ASSUME IndexInv, IndexInv', [Next]_vars
             PROVE  [Abstract!Next]_(Abstract!vars)
  OBVIOUS
<1> USE DEF Abstract!Next, Abstract!vars
<1>0. Len(Peek) = Pending /\ Pending \in Nat
  BY PeekType
<1>1. ASSUME NEW block \in Block, Enqueue(block) PROVE Abstract!Next
  <2>1. Len(block) \in Nat
    BY BlockType, MaxBlockAssumption
  <2>2. ReserveOk(Len(block)) = Abstract!Fits(Len(block))
    BY <1>0, <2>1, ReserveExact DEF Abstract!Fits
  <2>4. reserved' = Abstract!Fits(Len(block))
    BY <1>1, <2>2, Zenon DEF Enqueue
  <2>5. CASE ReserveOk(Len(block))
    <3>1. Peek' = Peek \o block
      BY <1>1, <2>5, EnqueueAppends
    <3>2. Abstract!Put(block)
      BY <2>2, <2>4, <2>5, <3>1 DEF Abstract!Put
    <3>3. QED
      BY <3>2 DEF Abstract!Block, Block
  <2>6. CASE ~ReserveOk(Len(block))
    <3>1. /\ buffer' = Reserve(Len(block)).buffer
          /\ head' = Reserve(Len(block)).head
          /\ tail' = Reserve(Len(block)).tail
      BY <1>1, <2>6 DEF Enqueue
    <3>2. Peek' = Peek
      BY <2>1, <3>1, ReserveKeepsPeek
    <3>3. Abstract!Put(block)
      BY <2>2, <2>4, <2>6, <3>2 DEF Abstract!Put
    <3>4. QED
      BY <3>3 DEF Abstract!Block, Block
  <2>7. QED
    BY <2>5, <2>6
<1>2. ASSUME NEW n \in 0 .. MaxBlock, EnqueueFailed(n) PROVE Abstract!Next
  <2>1. n \in Nat
    BY MaxBlockAssumption
  <2>2. \A i \in Index : i < Reserve(n).tail => buffer'[i] = Reserve(n).buffer[i]
    BY <1>2, <2>1, ReserveType, CapacityAssumption DEF EnqueueFailed, Index
  <2>3. Peek' = Peek
    BY <1>2, <2>1, <2>2, ReserveKeepsPeek DEF EnqueueFailed
  <2>4. ReserveOk(n) = Abstract!Fits(n)
    BY <1>0, <2>1, ReserveExact DEF Abstract!Fits
  <2>6. reserved' = Abstract!Fits(n)
    BY <1>2, <2>4, Zenon DEF EnqueueFailed
  <2>7. QED
    BY <2>3, <2>6 DEF Abstract!Probe
<1>3. ASSUME NEW n \in 0 .. MaxBlock, Consume(n) PROVE Abstract!Next
  <2>1. n \in Nat
    BY MaxBlockAssumption
  <2>2. Abstract!Take(n)
    BY <1>3, <2>1, ConsumeTakes DEF Consume, Abstract!Take
  <2>3. QED
    BY <2>2
<1>4. CASE Clear
  <2>1. Peek' = <<>>
    BY <1>4 DEF Clear, Peek, Pending
  <2>2. QED
    BY <1>4, <2>1 DEF Clear, Abstract!Clear
<1>5. CASE UNCHANGED vars
  BY <1>5 DEF vars, Peek, Pending
<1>6. QED
  BY <1>1, <1>2, <1>3, <1>4, <1>5 DEF Next

\* tx_queue.hpp implements the bounded byte FIFO the client relies on: bytes
\* leave in the order they were enqueued, unaltered by compaction, and
\* reserve() refuses a block exactly when it cannot fit.
THEOREM QueueIsFifo == Spec => RefinesByteFifo
<1>1. Init => Abstract!Init
  BY DEF Init, Abstract!Init, Peek, Pending
<1>2. QED
  BY <1>1, IndexInvInit, IndexInvStep, QueueStepRefines, PTL
  DEF Spec, RefinesByteFifo, Abstract!Spec
=============================================================================
