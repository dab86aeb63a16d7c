------------------------- MODULE XhttpStreamProofs -------------------------
(***************************************************************************)
(* Proofs about the read side of an XhttpStream: for every number and size *)
(* of packets, every capacity and every buffer size, poll_read implements  *)
(* the in-order uplink of UplinkAbs, and it reports an end of the stream   *)
(* only for the reasons EndIsGenuine lists.                                *)
(***************************************************************************)
EXTENDS XhttpStream, TLAPS

\* Everything in the channel and in the heap was posted.
PostedOK ==
    /\ \A i \in DOMAIN chan : chan[i].type # "eof" => posted[chan[i].seq] > 0
    /\ \A q \in Seqs : heap[q] > 0 => posted[q] > 0

\* Packet-up: leftover is the rest of the packets before next_seq, and the chunk
\* buffer is not used.
PacketOK ==
    mode = "packet" =>
        /\ leftover = <<got + 1, Off[next_seq]>>
        /\ got <= Off[next_seq]
        /\ stream_buf = <<1, 0>>
        /\ \A i \in DOMAIN chan : chan[i].type # "chunk"

\* Stream-up and stream-one, with the chunks before k received and those before p
\* sent: stream_buf is the rest of the chunks before k, and the channel holds the
\* chunks k..p-1 in order.
ChunkState(k, p) ==
    /\ k <= p
    /\ \A q \in Seqs : posted[q] = IF q < p THEN 1 ELSE 0
    /\ stream_buf = <<got + 1, Off[k]>>
    /\ got <= Off[k]
    /\ \A i \in DOMAIN chan : chan[i].type = "chunk" => k <= chan[i].seq /\ chan[i].seq < p
    /\ \A q \in Seqs : k <= q /\ q < p =>
         \E i \in DOMAIN chan : chan[i].type = "chunk" /\ chan[i].seq = q
    /\ \A i, j \in DOMAIN chan :
         i < j /\ chan[i].type = "chunk" /\ chan[j].type = "chunk"
            => chan[i].seq < chan[j].seq

ChunkOK ==
    mode = "chunk" =>
        /\ leftover = <<1, 0>>
        /\ \A q \in Seqs : heap[q] = 0
        /\ \A i \in DOMAIN chan : chan[i].type # "packet"
        /\ \E k, p \in 0..N : ChunkState(k, p)

IInv == TypeOK /\ PostedOK /\ PacketOK /\ ChunkOK /\ EndIsGenuine

-----------------------------------------------------------------------------
(* What the readers hand out.                                               *)

\* The relay is handed the positions after got up to hi, of a packet that ends at top.
Hands(hi, top) ==
    /\ hi \in Nat /\ top \in Nat
    /\ got <= hi /\ hi <= top /\ top <= Off[N]
    /\ ~ended
    /\ Give(got + 1, hi)

\* Offsets are naturals and none is beyond the end of what the client sends.
LEMMA OffFacts ==
    /\ N \in Nat
    /\ \A q \in 0..N : Off[q] \in Nat /\ Off[q] <= Off[N]
    /\ \A q \in Seqs : q \in 0..N /\ q + 1 \in 0..N /\ Off[q] <= Off[q + 1]
  BY StreamAssumption DEF Seqs

\* An item of the channel is an end mark or carries the number of a packet.
LEMMA ItemFacts ==
    ASSUME NEW x \in Items
    PROVE  /\ x.type \in {"packet", "chunk", "eof"}
           /\ x.type # "eof" => x.seq \in Seqs
  BY DEF Items

\* A read into a buffer with room makes progress and stays within the piece.
LEMMA UptoFacts ==
    ASSUME NEW a \in Nat, NEW b \in Nat, a <= b, NEW n \in 1..BufMax
    PROVE  /\ Upto(a + 1, b, n) \in Nat
           /\ a <= Upto(a + 1, b, n)
           /\ Upto(a + 1, b, n) <= b
           /\ a < b => a < Upto(a + 1, b, n)
  BY StreamAssumption DEF Upto, MinOf

\* Handing out hi is a step of the abstract uplink and leaves the relay at hi; the
\* relay stops exactly when it was handed nothing.
LEMMA HandsFacts ==
    ASSUME TypeOK, NEW hi, NEW top, Hands(hi, top)
    PROVE  /\ got' = hi
           /\ piece' \in Nat \X Nat
           /\ ended' \in BOOLEAN
           /\ ended' => hi = got
           /\ Abs!Next
<1>1. CASE got + 1 > hi
  <2>1. hi = got /\ got' = got /\ piece' = piece /\ ended' = TRUE
    BY <1>1 DEF Hands, Give, TypeOK
  <2>2. QED
    BY <2>1 DEF Hands, TypeOK, Abs!Next, Abs!End
<1>2. CASE ~(got + 1 > hi)
  <2>1. got \in Nat /\ hi \in Nat /\ got + 1 <= hi /\ hi <= Off[N] /\ Off[N] \in Nat
    BY <1>2, OffFacts DEF Hands, TypeOK
  <2>2. piece' = <<got + 1, hi>> /\ got' = got + (hi - (got + 1) + 1) /\ ended' = ended
    BY <1>2 DEF Hands, Give
  <2>3. got' = hi
    BY <2>1, <2>2
  <2>4. got' \in (got + 1)..Off[N]
    BY <2>1, <2>3
  <2>5. ended = FALSE
    BY DEF Hands, TypeOK
  <2>6. Abs!Deliver
    BY <2>2, <2>3, <2>4, <2>5 DEF Abs!Deliver
  <2>7. Abs!Next
    BY <2>6 DEF Abs!Next
  <2>8. piece' \in Nat \X Nat
    BY <2>1, <2>2
  <2>9. ended' = FALSE
    BY <2>2, <2>5
  <2>10. QED
    BY <2>3, <2>7, <2>8, <2>9
<1>3. QED
  BY <1>1, <1>2

\* The first branch of poll_read continues the packet it had begun.
LEMMA LeftoverHands ==
    ASSUME IInv, NEW n \in 1..BufMax, read_leftover(n)
    PROVE  /\ mode = "packet"
           /\ \E hi \in Nat : /\ Hands(hi, Off[next_seq])
                              /\ got < hi
                              /\ leftover' = <<hi + 1, Off[next_seq]>>
<1> DEFINE hi == Upto(leftover[1], leftover[2], n)
<1>1. mode = "packet"
  BY DEF IInv, ChunkOK, TypeOK, read_leftover, Empty
<1>2. /\ leftover[1] = got + 1 /\ leftover[2] = Off[next_seq]
      /\ got \in Nat /\ Off[next_seq] \in Nat /\ got <= Off[next_seq]
      /\ Off[next_seq] <= Off[N]
  BY <1>1, OffFacts DEF IInv, PacketOK, TypeOK
<1>3. got < Off[next_seq]
  BY <1>2 DEF read_leftover, Empty
<1>4. hi \in Nat /\ got < hi /\ got <= hi /\ hi <= Off[next_seq]
  BY <1>2, <1>3, UptoFacts
<1>5. Hands(hi, Off[next_seq])
  BY <1>2, <1>4 DEF Hands, read_leftover
<1>6. leftover' = <<hi + 1, Off[next_seq]>>
  BY <1>2 DEF read_leftover
<1>7. QED
  BY <1>1, <1>4, <1>5, <1>6

\* The second branch continues the chunk it had begun.
LEMMA StreamBufHands ==
    ASSUME IInv, NEW n \in 1..BufMax, read_stream_buf(n)
    PROVE  /\ mode = "chunk"
           /\ \A k \in 0..N : stream_buf = <<got + 1, Off[k]>> /\ got <= Off[k] =>
                 \E hi \in Nat : /\ Hands(hi, Off[k])
                                 /\ got < hi
                                 /\ stream_buf' = <<hi + 1, Off[k]>>
<1> DEFINE hi == Upto(stream_buf[1], stream_buf[2], n)
<1>1. mode = "chunk"
  BY DEF IInv, PacketOK, TypeOK, read_stream_buf, Empty
<1>2. ASSUME NEW k \in 0..N, stream_buf = <<got + 1, Off[k]>>, got <= Off[k]
      PROVE  Hands(hi, Off[k]) /\ hi \in Nat /\ got < hi
                /\ stream_buf' = <<hi + 1, Off[k]>>
  <2>1. /\ stream_buf[1] = got + 1 /\ stream_buf[2] = Off[k]
        /\ got \in Nat /\ Off[k] \in Nat /\ Off[k] <= Off[N]
    BY <1>2, OffFacts DEF IInv, TypeOK
  <2>2. got < Off[k]
    BY <2>1 DEF read_stream_buf, Empty
  <2>3. hi \in Nat /\ got < hi /\ got <= hi /\ hi <= Off[k]
    BY <1>2, <2>1, <2>2, UptoFacts
  <2>4. Hands(hi, Off[k])
    BY <1>2, <2>1, <2>3 DEF Hands, read_stream_buf
  <2>5. QED
    BY <2>1, <2>3, <2>4 DEF read_stream_buf
<1>3. QED
  BY <1>1, <1>2

\* The third branch begins packet next_seq, and only when all before it is handed out.
LEMMA HeapHands ==
    ASSUME IInv, NEW n \in 1..BufMax, read_heap(n)
    PROVE  /\ mode = "packet"
           /\ next_seq \in Seqs
           /\ posted[next_seq] > 0
           /\ got = Off[next_seq]
           /\ \E hi \in Nat : /\ Hands(hi, Off[next_seq + 1])
                              /\ leftover' = <<hi + 1, Off[next_seq + 1]>>
<1> DEFINE hi == Upto(Off[next_seq] + 1, Off[next_seq + 1], n)
<1>1. next_seq \in Seqs /\ heap[next_seq] > 0
  BY DEF read_heap, TopIsNext
<1>2. mode = "packet"
  BY <1>1 DEF IInv, ChunkOK, TypeOK
<1>3. /\ leftover[1] = got + 1 /\ leftover[2] = Off[next_seq] /\ got <= Off[next_seq]
      /\ got \in Nat
  BY <1>2 DEF IInv, PacketOK, TypeOK
<1>4. /\ Off[next_seq] \in Nat /\ Off[next_seq + 1] \in Nat
      /\ Off[next_seq] <= Off[next_seq + 1] /\ Off[next_seq + 1] <= Off[N]
  BY <1>1, OffFacts
<1>5. got = Off[next_seq]
  BY <1>3, <1>4 DEF read_heap, BuffersEmpty, Empty
<1>6. hi \in Nat /\ got <= hi /\ hi <= Off[next_seq + 1]
  BY <1>4, <1>5, UptoFacts
<1>7. Hands(hi, Off[next_seq + 1])
  BY <1>4, <1>5, <1>6 DEF Hands, read_heap
<1>8. leftover' = <<hi + 1, Off[next_seq + 1]>>
  BY DEF read_heap
<1>9. posted[next_seq] > 0
  BY <1>1 DEF IInv, PostedOK
<1>10. QED
  BY <1>1, <1>2, <1>5, <1>6, <1>7, <1>8, <1>9

\* A chunk that is received is the next one, and all before it is handed out.
LEMMA ChunkHands ==
    ASSUME IInv, NEW n \in 1..BufMax, recv_chunk(n)
    PROVE  /\ mode = "chunk"
           /\ \A k, p \in 0..N : ChunkState(k, p) =>
                /\ k \in Seqs
                /\ Head(chan).seq = k
                /\ posted[k] > 0
                /\ got = Off[k]
                /\ \E hi \in Nat : /\ Hands(hi, Off[k + 1])
                                   /\ stream_buf' = <<hi + 1, Off[k + 1]>>
<1>1. /\ chan \in Seq(Items) /\ Len(chan) \in Nat /\ 1 \in DOMAIN chan
      /\ DOMAIN chan = 1..Len(chan)
      /\ Head(chan) = chan[1] /\ chan[1] \in Items
      /\ chan[1].type = "chunk"
  BY DEF IInv, TypeOK, recv_chunk
<1>2. chan[1].seq \in Seqs
  BY <1>1, ItemFacts
<1>3. mode = "chunk"
  BY <1>1 DEF IInv, PacketOK, TypeOK
<1>4. ASSUME NEW k \in 0..N, NEW p \in 0..N, ChunkState(k, p)
      PROVE  /\ k \in Seqs /\ chan[1].seq = k /\ posted[k] > 0 /\ got = Off[k]
             /\ \E hi \in Nat : /\ Hands(hi, Off[k + 1])
                                /\ stream_buf' = <<hi + 1, Off[k + 1]>>
  <2> DEFINE hi == Upto(Off[k] + 1, Off[k + 1], n)
  <2>1. k <= chan[1].seq /\ chan[1].seq < p
    BY <1>1, <1>4 DEF ChunkState
  <2>2. k \in Seqs /\ k < p
    BY <1>2, <2>1, OffFacts DEF Seqs
  <2>3. PICK i \in DOMAIN chan : chan[i].type = "chunk" /\ chan[i].seq = k
    BY <1>4, <2>2 DEF ChunkState
  <2>4. i = 1
    <3>1. CASE 1 < i
      <4>1. chan[1].seq < chan[i].seq
        BY <1>1, <1>4, <2>3, <3>1 DEF ChunkState
      <4>2. QED
        BY <1>2, <2>1, <2>2, <2>3, <4>1 DEF Seqs
    <3>2. QED
      BY <1>1, <3>1
  <2>5. chan[1].seq = k
    BY <2>3, <2>4
  <2>6. posted[k] > 0
    BY <1>1, <2>5 DEF IInv, PostedOK
  <2>7. /\ Off[k] \in Nat /\ Off[k + 1] \in Nat /\ Off[k] <= Off[k + 1]
        /\ Off[k + 1] <= Off[N] /\ got \in Nat
    BY <2>2, OffFacts DEF IInv, TypeOK
  <2>8. got = Off[k]
    BY <1>4, <2>7 DEF ChunkState, recv_chunk, Receiving, BuffersEmpty, Empty
  <2>9. hi \in Nat /\ got <= hi /\ hi <= Off[k + 1]
    BY <2>7, <2>8, UptoFacts
  <2>10. Give(got + 1, hi) /\ stream_buf' = <<hi + 1, Off[k + 1]>>
    BY <1>1, <2>5, <2>8 DEF recv_chunk
  <2>11. Hands(hi, Off[k + 1])
    BY <2>7, <2>9, <2>10 DEF Hands, recv_chunk, Receiving
  <2>12. QED
    BY <2>2, <2>5, <2>6, <2>8, <2>9, <2>10, <2>11
<1>5. QED
  BY <1>1, <1>3, <1>4

-----------------------------------------------------------------------------
(* The invariant is inductive.                                              *)

\* Sending appends one item to the channel.
LEMMA AppendFacts ==
    ASSUME TypeOK, NEW x \in Items, chan' = Append(chan, x)
    PROVE  /\ Len(chan) \in Nat /\ DOMAIN chan = 1..Len(chan)
           /\ chan' \in Seq(Items) /\ Len(chan') = Len(chan) + 1
           /\ DOMAIN chan' = 1..(Len(chan) + 1)
           /\ \A i \in DOMAIN chan : chan'[i] = chan[i]
           /\ chan'[Len(chan) + 1] = x
  BY DEF TypeOK

\* Receiving takes the first item out of the channel.
LEMMA TailFacts ==
    ASSUME TypeOK, chan # <<>>, chan' = Tail(chan)
    PROVE  /\ Len(chan) \in Nat \ {0} /\ DOMAIN chan = 1..Len(chan)
           /\ chan' \in Seq(Items) /\ Len(chan') = Len(chan) - 1
           /\ DOMAIN chan' = 1..(Len(chan) - 1)
           /\ \A i \in DOMAIN chan' : i + 1 \in DOMAIN chan /\ chan'[i] = chan[i + 1]
           /\ \A i \in DOMAIN chan : i # 1 =>
                 i - 1 \in DOMAIN chan' /\ chan'[i - 1] = chan[i]
           /\ Head(chan) = chan[1] /\ chan[1] \in Items
<1>1. /\ Len(chan) \in Nat \ {0} /\ DOMAIN chan = 1..Len(chan)
      /\ chan' \in Seq(Items) /\ Len(chan') = Len(chan) - 1
      /\ DOMAIN chan' = 1..(Len(chan) - 1)
      /\ \A i \in DOMAIN chan' : i + 1 \in DOMAIN chan /\ chan'[i] = chan[i + 1]
      /\ Head(chan) = chan[1] /\ chan[1] \in Items
  BY DEF TypeOK
<1>2. ASSUME NEW i \in DOMAIN chan, i # 1
      PROVE  i - 1 \in DOMAIN chan' /\ chan'[i - 1] = chan[i]
  <2>1. i - 1 \in DOMAIN chan' /\ (i - 1) + 1 = i
    BY <1>1, <1>2
  <2>2. QED
    BY <1>1, <2>1
<1>3. QED
  BY <1>1, <1>2

\* Every step keeps the types and the capacity of the channel.
LEMMA TypeStep == IInv /\ [Next]_vars => TypeOK'
<1>0. SUFFICES ASSUME IInv, [Next]_vars PROVE TypeOK'
  OBVIOUS
<1> USE DEF IInv, TypeOK, envVars, relVars
<1>1. ASSUME NEW q \in Seqs, send_packet(q) PROVE TypeOK'
  <2>1. [type |-> "packet", seq |-> q] \in Items
    BY <1>1 DEF Items
  <2>2. chan' \in Seq(Items) /\ Len(chan') <= UpCap
    BY <1>0, <1>1, <2>1, AppendFacts, StreamAssumption DEF send_packet
  <2>3. QED
    BY SMTT(30), <1>0, <1>1, <2>2, StreamAssumption DEF send_packet
<1>2. ASSUME NEW q \in Seqs, send_chunk(q) PROVE TypeOK'
  <2>1. [type |-> "chunk", seq |-> q] \in Items
    BY <1>2 DEF Items
  <2>2. chan' \in Seq(Items) /\ Len(chan') <= UpCap
    BY <1>0, <1>2, <2>1, AppendFacts, StreamAssumption DEF send_chunk
  <2>3. QED
    BY <1>0, <1>2, <2>2, StreamAssumption DEF send_chunk
<1>3. ASSUME send_eof PROVE TypeOK'
  <2>1. [type |-> "eof", seq |-> N] \in Items
    BY <1>3 DEF Items
  <2>2. chan' \in Seq(Items) /\ Len(chan') <= UpCap
    BY <1>0, <1>3, <2>1, AppendFacts, StreamAssumption DEF send_eof
  <2>3. QED
    BY <1>0, <1>3, <2>2, StreamAssumption DEF send_eof
<1>4. ASSUME drop_senders PROVE TypeOK'
  BY <1>0, <1>4 DEF drop_senders
<1>5. ASSUME NEW n \in 1..BufMax, read_leftover(n) PROVE TypeOK'
  <2>1. PICK hi \in Nat : Hands(hi, Off[next_seq]) /\ leftover' = <<hi + 1, Off[next_seq]>>
    BY <1>0, <1>5, LeftoverHands
  <2>2. got' \in Nat /\ piece' \in Nat \X Nat /\ ended' \in BOOLEAN
    BY SMTT(30), <1>0, <2>1, HandsFacts
  <2>3. Off[next_seq] \in Nat
    BY <2>1 DEF Hands
  <2>4. QED
    BY SMTT(30), <1>0, <1>5, <2>1, <2>2, <2>3 DEF read_leftover
<1>6. ASSUME NEW n \in 1..BufMax, read_stream_buf(n) PROVE TypeOK'
  <2>1. mode = "chunk"
    BY <1>0, <1>6, StreamBufHands
  <2>2. PICK k \in 0..N : stream_buf = <<got + 1, Off[k]>> /\ got <= Off[k]
    BY <1>0, <2>1 DEF ChunkOK, ChunkState
  <2>3. PICK hi \in Nat : Hands(hi, Off[k]) /\ stream_buf' = <<hi + 1, Off[k]>>
    BY <1>0, <1>6, <2>2, StreamBufHands
  <2>4. got' \in Nat /\ piece' \in Nat \X Nat /\ ended' \in BOOLEAN
    BY SMTT(30), <1>0, <2>3, HandsFacts
  <2>5. Off[k] \in Nat
    BY <2>3 DEF Hands
  <2>6. UNCHANGED <<mode, posted, senders, chan, heap, next_seq, leftover, eof>>
    BY <1>6 DEF read_stream_buf
  <2>7. stream_buf' \in Nat \X Nat
    BY <2>3, <2>5
  <2>8. QED
    BY <1>0, <2>4, <2>6, <2>7
<1>7. ASSUME NEW n \in 1..BufMax, read_heap(n) PROVE TypeOK'
  <2>1. PICK hi \in Nat : /\ Hands(hi, Off[next_seq + 1])
                         /\ leftover' = <<hi + 1, Off[next_seq + 1]>>
    BY <1>0, <1>7, HeapHands
  <2>2. got' \in Nat /\ piece' \in Nat \X Nat /\ ended' \in BOOLEAN
    BY SMTT(30), <1>0, <2>1, HandsFacts
  <2>3. leftover' \in Nat \X Nat
    BY <2>1 DEF Hands
  <2>4. next_seq \in Seqs /\ heap[next_seq] > 0
    BY <1>7 DEF read_heap, TopIsNext
  <2>5. next_seq' \in 0..N
    BY <1>7, <2>4, OffFacts DEF read_heap
  <2>6. heap' \in [Seqs -> Nat]
    <3>1. heap[next_seq] - 1 \in Nat
      BY <1>0, <2>4
    <3>2. QED
      BY <1>0, <1>7, <3>1 DEF read_heap
  <2>7. UNCHANGED <<mode, posted, senders, chan, stream_buf, eof>>
    BY <1>7 DEF read_heap
  <2>8. QED
    BY <1>0, <2>2, <2>3, <2>5, <2>6, <2>7
<1>8. ASSUME recv_none PROVE TypeOK'
  BY <1>0, <1>8 DEF recv_none
<1>9. ASSUME recv_eof PROVE TypeOK'
  <2>1. chan' \in Seq(Items) /\ Len(chan') <= UpCap
    BY <1>0, <1>9, TailFacts, StreamAssumption DEF recv_eof
  <2>2. QED
    BY <1>0, <1>9, <2>1 DEF recv_eof
<1>10. ASSUME recv_packet PROVE TypeOK'
  <2>1. chan' \in Seq(Items) /\ Len(chan') <= UpCap /\ Head(chan) \in Items
    BY <1>0, <1>10, TailFacts, StreamAssumption DEF recv_packet
  <2>2. Head(chan).seq \in Seqs
    BY <1>10, <2>1, ItemFacts DEF recv_packet
  <2>3. heap' \in [Seqs -> Nat]
    <3>1. heap[Head(chan).seq] + 1 \in Nat
      BY <1>0, <2>2
    <3>2. QED
      BY <1>0, <1>10, <3>1 DEF recv_packet
  <2>4. QED
    BY <1>0, <1>10, <2>1, <2>3 DEF recv_packet
<1>11. ASSUME NEW n \in 1..BufMax, recv_chunk(n) PROVE TypeOK'
  <2>1. chan' \in Seq(Items) /\ Len(chan') <= UpCap
    BY <1>0, <1>11, TailFacts, StreamAssumption DEF recv_chunk
  <2>2. PICK k \in 0..N, p \in 0..N : ChunkState(k, p)
    BY <1>0, <1>11, ChunkHands DEF ChunkOK
  <2>3. PICK hi \in Nat : Hands(hi, Off[k + 1]) /\ stream_buf' = <<hi + 1, Off[k + 1]>>
    BY <1>0, <1>11, <2>2, ChunkHands
  <2>4. got' \in Nat /\ piece' \in Nat \X Nat /\ ended' \in BOOLEAN
    BY SMTT(30), <1>0, <2>3, HandsFacts
  <2>5. stream_buf' \in Nat \X Nat
    BY <2>3 DEF Hands
  <2>6. UNCHANGED <<mode, posted, senders, heap, next_seq, leftover, eof>>
    BY <1>11 DEF recv_chunk
  <2>7. QED
    BY <1>0, <2>1, <2>4, <2>5, <2>6
<1>12. ASSUME UNCHANGED vars PROVE TypeOK'
  BY <1>0, <1>12 DEF vars
<1> QED
  BY <1>0, <1>1, <1>2, <1>3, <1>4, <1>5, <1>6, <1>7, <1>8, <1>9, <1>10, <1>11, <1>12
  DEF Next, Sender, Reader

\* Every step keeps the channel and the heap within what was posted.
LEMMA PostedStep == IInv /\ [Next]_vars => PostedOK'
<1>0. SUFFICES ASSUME IInv, [Next]_vars PROVE PostedOK'
  OBVIOUS
<1> USE DEF IInv, TypeOK, PostedOK, envVars, relVars
<1>1. ASSUME NEW q \in Seqs, send_packet(q) PROVE PostedOK'
  <2>1. [type |-> "packet", seq |-> q] \in Items
    BY <1>1 DEF Items
  <2>2. \A p \in Seqs : posted[p] \in Nat /\ posted'[p] \in Nat /\ posted'[p] >= posted[p]
    <3>1. \A p \in Seqs : posted[p] \in Nat
      BY <1>0, StreamAssumption
    <3>2. posted' = [posted EXCEPT ![q] = posted[q] + 1] /\ DOMAIN posted = Seqs
      BY <1>0, <1>1 DEF send_packet
    <3>3. QED
      BY <3>1, <3>2
  <2>3. ASSUME NEW i \in DOMAIN chan', chan'[i].type # "eof" PROVE posted'[chan'[i].seq] > 0
    <3>1. CASE i = Len(chan) + 1
      BY <1>0, <1>1, <2>1, <2>3, <3>1, AppendFacts DEF send_packet
    <3>2. CASE i # Len(chan) + 1
      <4>1. i \in DOMAIN chan /\ chan'[i] = chan[i] /\ chan[i] \in Items
        BY SMTT(30), <1>0, <1>1, <2>1, <2>3, <3>2, AppendFacts DEF send_packet
      <4>2. chan[i].seq \in Seqs /\ posted[chan[i].seq] > 0
        BY <1>0, <2>3, <4>1, ItemFacts
      <4>3. posted[chan[i].seq] \in Nat /\ posted'[chan[i].seq] \in Nat
        BY <2>2, <4>2
      <4>4. QED
        BY <2>2, <4>1, <4>2, <4>3
    <3>3. QED
      BY <3>1, <3>2
  <2>4. \A p \in Seqs : heap'[p] > 0 => posted'[p] > 0
    BY SMTT(30), <1>0, <1>1, <2>2, StreamAssumption DEF send_packet
  <2>5. QED
    BY <2>3, <2>4
<1>2. ASSUME NEW q \in Seqs, send_chunk(q) PROVE PostedOK'
  <2>1. [type |-> "chunk", seq |-> q] \in Items
    BY <1>2 DEF Items
  <2>2. \A p \in Seqs : posted'[p] >= posted[p]
    BY SMTT(30), <1>0, <1>2, StreamAssumption DEF send_chunk
  <2>3. ASSUME NEW i \in DOMAIN chan', chan'[i].type # "eof" PROVE posted'[chan'[i].seq] > 0
    <3>1. CASE i = Len(chan) + 1
      BY <1>0, <1>2, <2>1, <2>3, <3>1, AppendFacts DEF send_chunk
    <3>2. CASE i # Len(chan) + 1
      <4>1. i \in DOMAIN chan /\ chan'[i] = chan[i] /\ chan[i] \in Items
        BY <1>0, <1>2, <2>1, <2>3, <3>2, AppendFacts DEF send_chunk
      <4>2. chan[i].seq \in Seqs /\ posted[chan[i].seq] > 0
        BY <1>0, <2>3, <4>1, ItemFacts
      <4>3. posted[chan[i].seq] \in Nat /\ posted'[chan[i].seq] \in Nat
        BY SMTT(30), <1>0, <1>2, <4>2, StreamAssumption DEF send_chunk
      <4>4. QED
        BY <2>2, <4>1, <4>2, <4>3
    <3>3. QED
      BY <3>1, <3>2
  <2>4. \A p \in Seqs : heap'[p] > 0 => posted'[p] > 0
    BY <1>0, <1>2, <2>2, StreamAssumption DEF send_chunk
  <2>5. QED
    BY <2>3, <2>4
<1>3. ASSUME send_eof PROVE PostedOK'
  <2>1. [type |-> "eof", seq |-> N] \in Items
    BY <1>3 DEF Items
  <2>2. \A p \in Seqs : posted'[p] >= posted[p]
    BY <1>0, <1>3, StreamAssumption DEF send_eof
  <2>3. ASSUME NEW i \in DOMAIN chan', chan'[i].type # "eof" PROVE posted'[chan'[i].seq] > 0
    <3>1. CASE i = Len(chan) + 1
      BY <1>0, <1>3, <2>1, <2>3, <3>1, AppendFacts DEF send_eof
    <3>2. CASE i # Len(chan) + 1
      <4>1. i \in DOMAIN chan /\ chan'[i] = chan[i] /\ chan[i] \in Items
        BY <1>0, <1>3, <2>1, <2>3, <3>2, AppendFacts DEF send_eof
      <4>2. chan[i].seq \in Seqs /\ posted[chan[i].seq] > 0
        BY <1>0, <2>3, <4>1, ItemFacts
      <4>3. posted[chan[i].seq] \in Nat /\ posted'[chan[i].seq] \in Nat
        BY <1>0, <1>3, <4>2, StreamAssumption DEF send_eof
      <4>4. QED
        BY <2>2, <4>1, <4>2, <4>3
    <3>3. QED
      BY <3>1, <3>2
  <2>4. \A p \in Seqs : heap'[p] > 0 => posted'[p] > 0
    BY <1>0, <1>3, <2>2, StreamAssumption DEF send_eof
  <2>5. QED
    BY <2>3, <2>4
<1>4. ASSUME drop_senders PROVE PostedOK'
  BY <1>0, <1>4 DEF drop_senders
<1>5. ASSUME NEW n \in 1..BufMax, read_leftover(n) PROVE PostedOK'
  BY <1>0, <1>5 DEF read_leftover
<1>6. ASSUME NEW n \in 1..BufMax, read_stream_buf(n) PROVE PostedOK'
  BY <1>0, <1>6 DEF read_stream_buf
<1>7. ASSUME NEW n \in 1..BufMax, read_heap(n) PROVE PostedOK'
  <2>1. next_seq \in Seqs /\ heap' = [heap EXCEPT ![next_seq] = @ - 1]
    BY <1>7 DEF read_heap, TopIsNext
  <2>2. \A q \in Seqs : heap'[q] > 0 => heap[q] > 0
    BY <1>0, <2>1
  <2>3. QED
    BY <1>0, <1>7, <2>2 DEF read_heap
<1>8. ASSUME recv_none PROVE PostedOK'
  BY <1>0, <1>8 DEF recv_none
<1>9. ASSUME recv_eof PROVE PostedOK'
  <2>1. \A i \in DOMAIN chan' : i + 1 \in DOMAIN chan /\ chan'[i] = chan[i + 1]
    BY <1>0, <1>9, TailFacts DEF recv_eof
  <2>2. QED
    BY <1>0, <1>9, <2>1 DEF recv_eof
<1>10. ASSUME recv_packet PROVE PostedOK'
  <2>1. \A i \in DOMAIN chan' : i + 1 \in DOMAIN chan /\ chan'[i] = chan[i + 1]
    BY <1>0, <1>10, TailFacts DEF recv_packet
  <2>2. 1 \in DOMAIN chan /\ Head(chan) = chan[1] /\ chan[1] \in Items
    BY <1>0, <1>10, TailFacts DEF recv_packet
  <2>3. chan[1].seq \in Seqs /\ posted[chan[1].seq] > 0
    BY <1>0, <1>10, <2>2, ItemFacts DEF recv_packet
  <2>4. \A q \in Seqs : heap'[q] > 0 => posted'[q] > 0
    BY <1>0, <1>10, <2>2, <2>3 DEF recv_packet
  <2>5. QED
    BY <1>0, <1>10, <2>1, <2>4 DEF recv_packet
<1>11. ASSUME NEW n \in 1..BufMax, recv_chunk(n) PROVE PostedOK'
  <2>1. \A i \in DOMAIN chan' : i + 1 \in DOMAIN chan /\ chan'[i] = chan[i + 1]
    BY <1>0, <1>11, TailFacts DEF recv_chunk
  <2>2. QED
    BY SMTT(30), <1>0, <1>11, <2>1 DEF recv_chunk
<1>12. ASSUME UNCHANGED vars PROVE PostedOK'
  BY <1>0, <1>12 DEF vars
<1> QED
  BY <1>0, <1>1, <1>2, <1>3, <1>4, <1>5, <1>6, <1>7, <1>8, <1>9, <1>10, <1>11, <1>12
  DEF Next, Sender, Reader

\* Every step keeps leftover the rest of the packets that were begun.
LEMMA PacketStep == IInv /\ [Next]_vars => PacketOK'
<1>0. SUFFICES ASSUME IInv, [Next]_vars PROVE PacketOK'
  OBVIOUS
<1> USE DEF IInv, TypeOK, PacketOK, envVars, relVars
<1>1. ASSUME NEW q \in Seqs, send_packet(q) PROVE PacketOK'
  <2>1. [type |-> "packet", seq |-> q] \in Items
    BY <1>1 DEF Items
  <2>2. \A i \in DOMAIN chan' : mode = "packet" => chan'[i].type # "chunk"
    BY SMTT(30), <1>0, <1>1, <2>1, AppendFacts DEF send_packet
  <2>3. QED
    BY <1>0, <1>1, <2>2 DEF send_packet
<1>2. ASSUME NEW q \in Seqs, send_chunk(q) PROVE PacketOK'
  BY <1>2 DEF send_chunk
<1>3. ASSUME send_eof PROVE PacketOK'
  <2>1. [type |-> "eof", seq |-> N] \in Items
    BY <1>3 DEF Items
  <2>2. \A i \in DOMAIN chan' : mode = "packet" => chan'[i].type # "chunk"
    BY <1>0, <1>3, <2>1, AppendFacts DEF send_eof
  <2>3. QED
    BY <1>0, <1>3, <2>2 DEF send_eof
<1>4. ASSUME drop_senders PROVE PacketOK'
  BY <1>0, <1>4 DEF drop_senders
<1>5. ASSUME NEW n \in 1..BufMax, read_leftover(n) PROVE PacketOK'
  <2>1. PICK hi \in Nat : /\ Hands(hi, Off[next_seq])
                         /\ leftover' = <<hi + 1, Off[next_seq]>>
    BY <1>0, <1>5, LeftoverHands
  <2>2. got' = hi /\ hi <= Off[next_seq]
    BY <1>0, <2>1, HandsFacts DEF Hands
  <2>3. QED
    BY <1>0, <1>5, <2>1, <2>2 DEF read_leftover
<1>6. ASSUME NEW n \in 1..BufMax, read_stream_buf(n) PROVE PacketOK'
  <2>1. mode = "chunk" /\ mode' = mode
    BY <1>0, <1>6, StreamBufHands DEF read_stream_buf
  <2>2. QED
    BY <2>1
<1>7. ASSUME NEW n \in 1..BufMax, read_heap(n) PROVE PacketOK'
  <2>1. PICK hi \in Nat : /\ Hands(hi, Off[next_seq + 1])
                         /\ leftover' = <<hi + 1, Off[next_seq + 1]>>
    BY <1>0, <1>7, HeapHands
  <2>2. got' = hi /\ hi <= Off[next_seq + 1]
    BY <1>0, <2>1, HandsFacts DEF Hands
  <2>3. QED
    BY <1>0, <1>7, <2>1, <2>2 DEF read_heap
<1>8. ASSUME recv_none PROVE PacketOK'
  BY <1>0, <1>8 DEF recv_none
<1>9. ASSUME recv_eof PROVE PacketOK'
  <2>1. \A i \in DOMAIN chan' : i + 1 \in DOMAIN chan /\ chan'[i] = chan[i + 1]
    BY <1>0, <1>9, TailFacts DEF recv_eof
  <2>2. QED
    BY <1>0, <1>9, <2>1 DEF recv_eof
<1>10. ASSUME recv_packet PROVE PacketOK'
  <2>1. \A i \in DOMAIN chan' : i + 1 \in DOMAIN chan /\ chan'[i] = chan[i + 1]
    BY <1>0, <1>10, TailFacts DEF recv_packet
  <2>2. QED
    BY <1>0, <1>10, <2>1 DEF recv_packet
<1>11. ASSUME NEW n \in 1..BufMax, recv_chunk(n) PROVE PacketOK'
  <2>1. mode = "chunk" /\ mode' = mode
    BY <1>0, <1>11, ChunkHands DEF recv_chunk
  <2>2. QED
    BY <2>1
<1>12. ASSUME UNCHANGED vars PROVE PacketOK'
  BY <1>0, <1>12 DEF vars
<1> QED
  BY <1>0, <1>1, <1>2, <1>3, <1>4, <1>5, <1>6, <1>7, <1>8, <1>9, <1>10, <1>11, <1>12
  DEF Next, Sender, Reader

\* Every step keeps the channel the chunks that were sent and not received, in order.
LEMMA ChunkStep == IInv /\ [Next]_vars => ChunkOK'
<1>0. SUFFICES ASSUME IInv, [Next]_vars PROVE ChunkOK'
  OBVIOUS
<1> USE DEF IInv, TypeOK, ChunkOK, envVars, relVars
<1>1. ASSUME NEW q \in Seqs, send_packet(q) PROVE ChunkOK'
  BY <1>1 DEF send_packet
<1>2. ASSUME NEW q \in Seqs, send_chunk(q) PROVE ChunkOK'
  <2>1. mode = "chunk" /\ mode' = mode
    BY <1>2 DEF send_chunk
  <2>2. PICK k \in 0..N, p \in 0..N : ChunkState(k, p)
    BY <1>0, <2>1
  <2>3. q = p /\ p \in Seqs /\ p + 1 \in 0..N /\ k <= p
    <3>1. \A x \in Seqs : posted[x] = IF x < p THEN 1 ELSE 0
      BY <2>2 DEF ChunkState
    <3>2. posted[q] = 0 /\ \A x \in Seqs : x < q => posted[x] = 1
      BY <1>2 DEF send_chunk
    <3>3. ~(q < p)
      BY <3>1, <3>2
    <3>4. ~(p < q)
      BY <3>1, <3>2, OffFacts DEF Seqs
    <3>5. q = p
      BY <3>3, <3>4, OffFacts DEF Seqs
    <3>6. QED
      BY <2>2, <3>5, OffFacts DEF ChunkState
  <2>4. [type |-> "chunk", seq |-> q] \in Items
    BY DEF Items
  <2>5. /\ Len(chan) + 1 \in DOMAIN chan'
        /\ chan'[Len(chan) + 1] = [type |-> "chunk", seq |-> q]
        /\ \A i \in DOMAIN chan' : \/ i \in DOMAIN chan /\ i < Len(chan) + 1
                                   \/ i = Len(chan) + 1
        /\ \A i \in DOMAIN chan : i \in DOMAIN chan' /\ chan'[i] = chan[i] /\ i \in Nat
    BY SMTT(30), <1>0, <1>2, <2>4, AppendFacts DEF send_chunk
  <2>6. \A i \in DOMAIN chan : chan[i].type = "chunk" => chan[i].seq \in Seqs
    BY <1>0, ItemFacts
  <2>7. \A x \in Seqs : posted'[x] = IF x < p + 1 THEN 1 ELSE 0
    <3>1. \A x \in Seqs : posted[x] = IF x < p THEN 1 ELSE 0
      BY <2>2 DEF ChunkState
    <3>2. posted' = [posted EXCEPT ![p] = 1] /\ DOMAIN posted = Seqs
      BY <1>0, <1>2, <2>3 DEF send_chunk
    <3>3. QED
      BY <2>3, <3>1, <3>2, OffFacts DEF Seqs
  <2>8. ASSUME NEW i \in DOMAIN chan', chan'[i].type = "chunk"
        PROVE  k <= chan'[i].seq /\ chan'[i].seq < p + 1
    BY <2>2, <2>3, <2>5, <2>6, <2>8, OffFacts DEF ChunkState, Seqs
  <2>9. ASSUME NEW x \in Seqs, k <= x, x < p + 1
        PROVE  \E i \in DOMAIN chan' : chan'[i].type = "chunk" /\ chan'[i].seq = x
    <3>1. CASE x = p
      BY <2>3, <2>5, <3>1
    <3>2. CASE x # p
      <4>1. x < p
        BY <2>3, <2>9, <3>2, OffFacts DEF Seqs
      <4>2. QED
        BY <2>2, <2>5, <2>9, <4>1 DEF ChunkState
    <3>3. QED
      BY <3>1, <3>2
  <2>10. ASSUME NEW i \in DOMAIN chan', NEW j \in DOMAIN chan', i < j,
                chan'[i].type = "chunk", chan'[j].type = "chunk"
         PROVE  chan'[i].seq < chan'[j].seq
    <3>1. i \in DOMAIN chan /\ i \in Nat
      BY SMTT(30), <1>0, <2>5, <2>10
    <3>2. CASE j \in DOMAIN chan
      BY <2>2, <2>5, <2>10, <3>1, <3>2 DEF ChunkState
    <3>3. CASE j = Len(chan) + 1
      BY <2>2, <2>3, <2>5, <2>10, <3>1, <3>3 DEF ChunkState
    <3>4. QED
      BY <2>5, <3>2, <3>3
  <2>11. UNCHANGED <<stream_buf, got, leftover, heap>> /\ k <= p + 1
    BY <1>2, <2>3 DEF send_chunk, Seqs
  <2>12. ChunkState(k, p + 1)'
    BY <2>2, <2>7, <2>8, <2>9, <2>10, <2>11 DEF ChunkState
  <2>13. \A i \in DOMAIN chan' : chan'[i].type # "packet"
    BY <1>0, <2>1, <2>5
  <2>14. QED
    BY <1>0, <2>1, <2>3, <2>11, <2>12, <2>13
<1>3. ASSUME send_eof PROVE ChunkOK'
  <2>1. CASE mode = "packet"
    BY <1>3, <2>1 DEF send_eof
  <2>2. CASE mode = "chunk"
    <3>1. PICK k \in 0..N, p \in 0..N : ChunkState(k, p)
      BY <1>0, <2>2
    <3>2. [type |-> "eof", seq |-> N] \in Items
      BY DEF Items
    <3>3. \A i \in DOMAIN chan' : \/ i \in DOMAIN chan /\ chan'[i] = chan[i]
                                  \/ i = Len(chan) + 1 /\ chan'[i].type = "eof"
      <4>1. /\ Len(chan) \in Nat /\ DOMAIN chan = 1..Len(chan)
            /\ DOMAIN chan' = 1..(Len(chan) + 1)
            /\ \A i \in DOMAIN chan : chan'[i] = chan[i]
            /\ chan'[Len(chan) + 1] = [type |-> "eof", seq |-> N]
        BY <1>0, <1>3, <3>2, AppendFacts DEF send_eof
      <4>2. ASSUME NEW i \in DOMAIN chan', i # Len(chan) + 1
            PROVE  i \in DOMAIN chan /\ chan'[i] = chan[i]
        BY <4>1, <4>2
      <4>3. chan'[Len(chan) + 1].type = "eof"
        BY <4>1
      <4>4. ASSUME NEW i \in DOMAIN chan', i = Len(chan) + 1
            PROVE  chan'[i].type = "eof"
        BY <4>3, <4>4
      <4>5. QED
        BY <4>2, <4>4
    <3>4. \A i \in DOMAIN chan : i \in DOMAIN chan' /\ chan'[i] = chan[i]
      BY SMTT(30), <1>0, <1>3, <3>2, AppendFacts DEF send_eof
    <3>5. ChunkState(k, p)'
      BY <1>3, <3>1, <3>3, <3>4 DEF ChunkState, send_eof
    <3>6. QED
      BY <1>0, <1>3, <2>2, <3>3, <3>5 DEF send_eof
  <2>3. QED
    BY <1>0, <2>1, <2>2
<1>4. ASSUME drop_senders PROVE ChunkOK'
  <2>1. CASE mode = "packet"
    BY <1>4, <2>1 DEF drop_senders
  <2>2. CASE mode = "chunk"
    <3>1. PICK k \in 0..N, p \in 0..N : ChunkState(k, p)
      BY <1>0, <2>2
    <3>2. ChunkState(k, p)'
      BY <1>4, <3>1 DEF ChunkState, drop_senders
    <3>3. QED
      BY <1>0, <1>4, <2>2, <3>2 DEF drop_senders
  <2>3. QED
    BY <1>0, <2>1, <2>2
<1>5. ASSUME NEW n \in 1..BufMax, read_leftover(n) PROVE ChunkOK'
  <2>1. mode = "packet" /\ mode' = mode
    BY <1>0, <1>5, LeftoverHands DEF read_leftover
  <2>2. QED
    BY <2>1
<1>6. ASSUME NEW n \in 1..BufMax, read_stream_buf(n) PROVE ChunkOK'
  <2>1. mode = "chunk"
    BY <1>0, <1>6, StreamBufHands
  <2>2. PICK k \in 0..N, p \in 0..N : ChunkState(k, p)
    BY <1>0, <2>1
  <2>3. PICK hi \in Nat : Hands(hi, Off[k]) /\ stream_buf' = <<hi + 1, Off[k]>>
    BY <1>0, <1>6, <2>2, StreamBufHands DEF ChunkState
  <2>4. got' = hi
    BY <1>0, <2>3, HandsFacts
  <2>5. ChunkState(k, p)'
    BY <1>6, <2>2, <2>3, <2>4 DEF ChunkState, Hands, read_stream_buf
  <2>6. QED
    BY <1>0, <1>6, <2>1, <2>5 DEF read_stream_buf
<1>7. ASSUME NEW n \in 1..BufMax, read_heap(n) PROVE ChunkOK'
  <2>1. mode = "packet" /\ mode' = mode
    BY <1>0, <1>7, HeapHands DEF read_heap
  <2>2. QED
    BY <2>1
<1>8. ASSUME recv_none PROVE ChunkOK'
  <2>1. CASE mode = "packet"
    BY <1>8, <2>1 DEF recv_none
  <2>2. CASE mode = "chunk"
    <3>1. PICK k \in 0..N, p \in 0..N : ChunkState(k, p)
      BY <1>0, <2>2
    <3>2. ChunkState(k, p)'
      BY <1>8, <3>1 DEF ChunkState, recv_none
    <3>3. QED
      BY <1>0, <1>8, <2>2, <3>2 DEF recv_none
  <2>3. QED
    BY <1>0, <2>1, <2>2
<1>9. ASSUME recv_eof PROVE ChunkOK'
  <2>1. CASE mode = "packet"
    BY <1>9, <2>1 DEF recv_eof
  <2>2. CASE mode = "chunk"
    <3>1. PICK k \in 0..N, p \in 0..N : ChunkState(k, p)
      BY <1>0, <2>2
    <3>2. \A i \in DOMAIN chan' : i \in Nat /\ i + 1 \in DOMAIN chan /\ chan'[i] = chan[i + 1]
      BY SMTT(30), <1>0, <1>9, TailFacts DEF recv_eof
    <3>3. \A i \in DOMAIN chan : chan[i].type = "chunk" =>
             i - 1 \in DOMAIN chan' /\ chan'[i - 1] = chan[i]
      <4>1. chan[1].type # "chunk"
        BY <1>0, <1>9, TailFacts DEF recv_eof
      <4>2. QED
        BY <1>0, <1>9, <4>1, TailFacts DEF recv_eof
    <3>4. UNCHANGED <<posted, stream_buf, got>>
      BY <1>9 DEF recv_eof
    <3>5. \A q \in Seqs : k <= q /\ q < p =>
             \E i \in DOMAIN chan' : chan'[i].type = "chunk" /\ chan'[i].seq = q
      BY <3>1, <3>3 DEF ChunkState
    <3>6. ASSUME NEW i \in DOMAIN chan', NEW j \in DOMAIN chan', i < j,
                 chan'[i].type = "chunk", chan'[j].type = "chunk"
          PROVE  chan'[i].seq < chan'[j].seq
      <4>1. i \in Nat /\ j \in Nat /\ i + 1 < j + 1
        BY <1>0, <1>9, <3>2, <3>6, TailFacts DEF recv_eof
      <4>2. QED
        BY <3>1, <3>2, <3>6, <4>1 DEF ChunkState
    <3>7. ChunkState(k, p)'
      BY <3>1, <3>2, <3>4, <3>5, <3>6 DEF ChunkState
    <3>8. QED
      BY <1>0, <1>9, <2>2, <3>2, <3>7 DEF recv_eof
  <2>3. QED
    BY <1>0, <2>1, <2>2
<1>10. ASSUME recv_packet PROVE ChunkOK'
  <2>1. 1 \in DOMAIN chan /\ Head(chan) = chan[1]
    BY <1>0, <1>10, TailFacts DEF recv_packet
  <2>2. mode = "packet" /\ mode' = mode
    BY <1>0, <1>10, <2>1 DEF recv_packet
  <2>3. QED
    BY <2>2
<1>11. ASSUME NEW n \in 1..BufMax, recv_chunk(n) PROVE ChunkOK'
  <2>1. mode = "chunk" /\ mode' = mode
    BY <1>0, <1>11, ChunkHands DEF recv_chunk
  <2>2. PICK k \in 0..N, p \in 0..N : ChunkState(k, p)
    BY <1>0, <2>1
  <2>3. k \in Seqs /\ Head(chan).seq = k /\ posted[k] > 0
    BY <1>0, <1>11, <2>2, ChunkHands
  <2>4. PICK hi \in Nat : Hands(hi, Off[k + 1]) /\ stream_buf' = <<hi + 1, Off[k + 1]>>
    BY <1>0, <1>11, <2>2, ChunkHands
  <2>5. got' = hi
    BY <1>0, <2>4, HandsFacts
  <2>6. got' <= Off[k + 1]
    BY <2>4, <2>5 DEF Hands
  <2>7. /\ 1 \in DOMAIN chan /\ chan[1].type = "chunk" /\ chan[1].seq = k
        /\ \A i \in DOMAIN chan' : i \in Nat /\ i + 1 \in DOMAIN chan /\ chan'[i] = chan[i + 1]
                                      /\ 1 < i + 1
        /\ \A i \in DOMAIN chan : i # 1 => i - 1 \in DOMAIN chan' /\ chan'[i - 1] = chan[i]
    <3>1. chan # <<>> /\ chan' = Tail(chan) /\ Head(chan).type = "chunk"
      BY <1>11 DEF recv_chunk
    <3>2. /\ Len(chan) \in Nat \ {0} /\ DOMAIN chan = 1..Len(chan)
          /\ DOMAIN chan' = 1..(Len(chan) - 1)
          /\ Head(chan) = chan[1]
          /\ \A i \in DOMAIN chan' : i + 1 \in DOMAIN chan /\ chan'[i] = chan[i + 1]
          /\ \A i \in DOMAIN chan : i # 1 => i - 1 \in DOMAIN chan' /\ chan'[i - 1] = chan[i]
      BY <1>0, <3>1, TailFacts
    <3>3. QED
      BY <2>3, <3>1, <3>2
  <2>8. \A i \in DOMAIN chan : chan[i].type = "chunk" => chan[i].seq \in Seqs
    BY <1>0, ItemFacts
  <2>9. k + 1 <= p /\ k + 1 \in 0..N
    BY <2>2, <2>3, <2>7, OffFacts DEF ChunkState, Seqs
  <2>10. ASSUME NEW i \in DOMAIN chan', chan'[i].type = "chunk"
         PROVE  k + 1 <= chan'[i].seq /\ chan'[i].seq < p
    <3>1. i + 1 \in DOMAIN chan /\ chan[i + 1].type = "chunk" /\ 1 < i + 1
             /\ chan'[i] = chan[i + 1] /\ chan[i + 1].seq \in Seqs
      BY <2>7, <2>8, <2>10
    <3>2. k < chan[i + 1].seq /\ chan[i + 1].seq < p
      BY <2>2, <2>7, <3>1 DEF ChunkState
    <3>3. QED
      BY <2>3, <3>1, <3>2, OffFacts DEF Seqs
  <2>11. ASSUME NEW x \in Seqs, k + 1 <= x, x < p
         PROVE  \E i \in DOMAIN chan' : chan'[i].type = "chunk" /\ chan'[i].seq = x
    <3>1. k <= x /\ x # k
      BY <2>3, <2>11, OffFacts DEF Seqs
    <3>2. PICK i \in DOMAIN chan : chan[i].type = "chunk" /\ chan[i].seq = x
      BY <2>2, <2>11, <3>1 DEF ChunkState
    <3>3. i # 1
      BY <2>7, <3>1, <3>2
    <3>4. QED
      BY <2>7, <3>2, <3>3
  <2>12. ASSUME NEW i \in DOMAIN chan', NEW j \in DOMAIN chan', i < j,
                chan'[i].type = "chunk", chan'[j].type = "chunk"
         PROVE  chan'[i].seq < chan'[j].seq
    <3>1. i \in Nat /\ j \in Nat /\ i + 1 < j + 1
      BY <2>7, <2>12
    <3>2. QED
      BY <2>2, <2>7, <2>12, <3>1 DEF ChunkState
  <2>13. UNCHANGED <<posted, leftover, heap>>
    BY <1>11 DEF recv_chunk
  <2>14. ChunkState(k + 1, p)'
    BY <2>2, <2>4, <2>5, <2>6, <2>9, <2>10, <2>11, <2>12, <2>13 DEF ChunkState
  <2>15. \A i \in DOMAIN chan' : chan'[i].type # "packet"
    BY SMTT(30), <1>0, <2>1, <2>7
  <2>16. QED
    BY <1>0, <2>1, <2>9, <2>13, <2>14, <2>15
<1>12. ASSUME UNCHANGED vars PROVE ChunkOK'
  <2>1. CASE mode = "packet"
    BY <1>12, <2>1 DEF vars
  <2>2. CASE mode = "chunk"
    <3>1. PICK k \in 0..N, p \in 0..N : ChunkState(k, p)
      BY <1>0, <2>2
    <3>2. ChunkState(k, p)'
      BY <1>12, <3>1 DEF ChunkState, vars
    <3>3. QED
      BY <1>0, <1>12, <2>2, <3>2 DEF vars
  <2>3. QED
    BY <1>0, <2>1, <2>2
<1> QED
  BY <1>0, <1>1, <1>2, <1>3, <1>4, <1>5, <1>6, <1>7, <1>8, <1>9, <1>10, <1>11, <1>12
  DEF Next, Sender, Reader

\* Every step ends the stream only for a reason the client gave.
LEMMA EndStep == IInv /\ [Next]_vars => EndIsGenuine'
<1>0. SUFFICES ASSUME IInv, [Next]_vars PROVE EndIsGenuine'
  OBVIOUS
<1> USE DEF IInv, TypeOK, EndIsGenuine, envVars, relVars
<1>1. ASSUME NEW q \in Seqs, send_packet(q) PROVE EndIsGenuine'
  <2>1. \A p \in Seqs : posted[p] > 0 => posted'[p] > 0
    BY SMTT(30), <1>0, <1>1, StreamAssumption DEF send_packet
  <2>2. QED
    BY <1>0, <1>1, <2>1 DEF send_packet
<1>2. ASSUME NEW q \in Seqs, send_chunk(q) PROVE EndIsGenuine'
  <2>1. \A p \in Seqs : posted[p] > 0 => posted'[p] > 0
    BY <1>0, <1>2, StreamAssumption DEF send_chunk
  <2>2. QED
    BY <1>0, <1>2, <2>1 DEF send_chunk
<1>3. ASSUME send_eof PROVE EndIsGenuine'
  BY <1>0, <1>3 DEF send_eof
<1>4. ASSUME drop_senders PROVE EndIsGenuine'
  BY <1>0, <1>4 DEF drop_senders
<1>5. ASSUME NEW n \in 1..BufMax, read_leftover(n) PROVE EndIsGenuine'
  <2>1. PICK hi \in Nat : Hands(hi, Off[next_seq]) /\ got < hi
    BY <1>0, <1>5, LeftoverHands
  <2>2. ~ended'
    BY <1>0, <2>1, HandsFacts
  <2>3. QED
    BY <2>2
<1>6. ASSUME NEW n \in 1..BufMax, read_stream_buf(n) PROVE EndIsGenuine'
  <2>1. PICK k \in 0..N : stream_buf = <<got + 1, Off[k]>> /\ got <= Off[k]
    BY <1>0, <1>6, StreamBufHands DEF ChunkOK, ChunkState
  <2>2. PICK hi \in Nat : Hands(hi, Off[k]) /\ got < hi
    BY <1>0, <1>6, <2>1, StreamBufHands
  <2>3. ~ended'
    BY <1>0, <2>2, HandsFacts
  <2>4. QED
    BY <2>3
<1>7. ASSUME NEW n \in 1..BufMax, read_heap(n) PROVE EndIsGenuine'
  <2>1. /\ next_seq \in Seqs /\ posted[next_seq] > 0 /\ got = Off[next_seq]
        /\ posted' = posted
    BY <1>0, <1>7, HeapHands DEF read_heap
  <2>2. PICK hi \in Nat : /\ Hands(hi, Off[next_seq + 1])
                         /\ leftover' = <<hi + 1, Off[next_seq + 1]>>
    BY <1>0, <1>7, HeapHands
  <2>3. got' = hi /\ (ended' => hi = got)
    BY <1>0, <2>2, HandsFacts
  <2>4. ended' => Off[next_seq + 1] = got
    <3>1. leftover' = <<Upto(got + 1, Off[next_seq + 1], n) + 1, Off[next_seq + 1]>>
      BY <1>7, <2>1 DEF read_heap
    <3>2. /\ Upto(got + 1, Off[next_seq + 1], n) \in Nat
          /\ got < Off[next_seq + 1] => got < Upto(got + 1, Off[next_seq + 1], n)
      <4>1. got \in Nat /\ Off[next_seq + 1] \in Nat /\ got <= Off[next_seq + 1]
        BY SMTT(30), <1>0, <2>2 DEF Hands
      <4>2. QED
        BY <4>1, UptoFacts
    <3>3. hi = Upto(got + 1, Off[next_seq + 1], n)
      BY <2>2, <3>1, <3>2
    <3>4. got \in Nat /\ Off[next_seq + 1] \in Nat /\ got <= Off[next_seq + 1]
      BY SMTT(30), <1>0, <2>2 DEF Hands
    <3>5. QED
      BY <2>3, <3>2, <3>3, <3>4
  <2>5. QED
    BY <2>1, <2>3, <2>4
<1>8. ASSUME recv_none PROVE EndIsGenuine'
  BY <1>0, <1>8 DEF recv_none
<1>9. ASSUME recv_eof PROVE EndIsGenuine'
  BY <1>0, <1>9 DEF recv_eof
<1>10. ASSUME recv_packet PROVE EndIsGenuine'
  BY <1>0, <1>10 DEF recv_packet
<1>11. ASSUME NEW n \in 1..BufMax, recv_chunk(n) PROVE EndIsGenuine'
  <2>1. PICK k \in 0..N, p \in 0..N : ChunkState(k, p)
    BY <1>0, <1>11, ChunkHands DEF ChunkOK
  <2>2. k \in Seqs /\ posted[k] > 0 /\ got = Off[k] /\ Head(chan).seq = k /\ posted' = posted
    BY <1>0, <1>11, <2>1, ChunkHands DEF recv_chunk
  <2>3. PICK hi \in Nat : Hands(hi, Off[k + 1]) /\ stream_buf' = <<hi + 1, Off[k + 1]>>
    BY <1>0, <1>11, <2>1, ChunkHands
  <2>4. got' = hi /\ (ended' => hi = got)
    BY <1>0, <2>3, HandsFacts
  <2>5. got \in Nat /\ Off[k + 1] \in Nat /\ got <= Off[k + 1]
    <3>1. got \in Nat
      BY <1>0
    <3>2. QED
      BY <2>3, <3>1 DEF Hands
  <2>6. ended' => Off[k + 1] = got
    <3>1. stream_buf' = <<Upto(got + 1, Off[k + 1], n) + 1, Off[k + 1]>>
      BY <1>11, <2>2 DEF recv_chunk
    <3>2. /\ Upto(got + 1, Off[k + 1], n) \in Nat
          /\ got < Off[k + 1] => got < Upto(got + 1, Off[k + 1], n)
      BY <2>5, UptoFacts
    <3>3. hi = Upto(got + 1, Off[k + 1], n)
      BY <2>3, <3>1, <3>2
    <3>4. QED
      BY <2>4, <2>5, <3>2, <3>3
  <2>7. QED
    BY <2>2, <2>4, <2>6
<1>12. ASSUME UNCHANGED vars PROVE EndIsGenuine'
  BY <1>0, <1>12 DEF vars
<1> QED
  BY <1>0, <1>1, <1>2, <1>3, <1>4, <1>5, <1>6, <1>7, <1>8, <1>9, <1>10, <1>11, <1>12
  DEF Next, Sender, Reader

\* The initial states satisfy the invariant.
LEMMA InitInv == Init => IInv
<1>1. SUFFICES ASSUME Init PROVE IInv
  OBVIOUS
<1>2. TypeOK
  <2>1. /\ posted \in [Seqs -> 0..Copies]
        /\ heap \in [Seqs -> Nat]
        /\ next_seq \in 0..N
    BY <1>1, StreamAssumption DEF Init
  <2>2. chan \in Seq(Items) /\ Len(chan) <= UpCap
    BY <1>1, StreamAssumption DEF Init
  <2>3. leftover \in Nat \X Nat /\ stream_buf \in Nat \X Nat /\ piece \in Nat \X Nat
    BY <1>1 DEF Init
  <2>4. QED
    BY <1>1, <2>1, <2>2, <2>3 DEF Init, TypeOK
<1>3. PostedOK /\ EndIsGenuine
  BY <1>1 DEF Init, PostedOK, EndIsGenuine
<1>4. PacketOK
  BY <1>1, StreamAssumption DEF Init, PacketOK
<1>5. ChunkState(0, 0)
  BY <1>1, StreamAssumption DEF Init, ChunkState, Seqs
<1>6. ChunkOK
  BY <1>1, <1>5, StreamAssumption DEF Init, ChunkOK
<1>7. QED
  BY <1>2, <1>3, <1>4, <1>6 DEF IInv

\* The inductive invariant holds in every reachable state.
THEOREM Invariance == Spec => []IInv
<1>1. Init => IInv
  BY InitInv
<1>2. IInv /\ [Next]_vars => IInv'
  BY TypeStep, PostedStep, PacketStep, ChunkStep, EndStep DEF IInv
<1>3. QED
  BY <1>1, <1>2, PTL DEF Spec

\* Every step of poll_read and of its senders keeps the types and the capacity of the
\* uplink channel.
THEOREM TypeCorrect == Spec => []TypeOK
<1>1. IInv => TypeOK
  BY DEF IInv
<1>2. QED
  BY <1>1, Invariance, PTL

\* poll_read returns zero bytes only at the end of the uplink or for a packet or chunk
\* that the client posted empty.
THEOREM GenuineEnd == Spec => []EndIsGenuine
<1>1. IInv => EndIsGenuine
  BY DEF IInv
<1>2. QED
  BY <1>1, Invariance, PTL

-----------------------------------------------------------------------------
(* The refinement.                                                          *)

\* A step of a reader or a sender is a step of the abstract uplink, or none.
LEMMA RefinementStep == IInv /\ [Next]_vars => [Abs!Next]_(Abs!vars)
<1>0. SUFFICES ASSUME IInv, [Next]_vars PROVE Abs!Next \/ UNCHANGED Abs!vars
  OBVIOUS
<1> USE DEF IInv, envVars, relVars
<1>1. ASSUME NEW q \in Seqs, send_packet(q) \/ send_chunk(q) PROVE UNCHANGED Abs!vars
  BY <1>1 DEF send_packet, send_chunk, Abs!vars
<1>2. ASSUME send_eof \/ drop_senders \/ recv_packet PROVE UNCHANGED Abs!vars
  BY <1>2 DEF send_eof, drop_senders, recv_packet, Abs!vars
<1>3. ASSUME recv_none \/ recv_eof PROVE Abs!Next
  BY <1>0, <1>3 DEF recv_none, recv_eof, Receiving, Abs!Next, Abs!End
<1>4. ASSUME NEW n \in 1..BufMax, read_leftover(n) PROVE Abs!Next
  BY <1>0, <1>4, LeftoverHands, HandsFacts
<1>5. ASSUME NEW n \in 1..BufMax, read_stream_buf(n) PROVE Abs!Next
  <2>1. PICK k \in 0..N : stream_buf = <<got + 1, Off[k]>> /\ got <= Off[k]
    BY <1>0, <1>5, StreamBufHands DEF ChunkOK, ChunkState
  <2>2. QED
    BY <1>0, <1>5, <2>1, StreamBufHands, HandsFacts
<1>6. ASSUME NEW n \in 1..BufMax, read_heap(n) PROVE Abs!Next
  BY <1>0, <1>6, HeapHands, HandsFacts
<1>7. ASSUME NEW n \in 1..BufMax, recv_chunk(n) PROVE Abs!Next
  <2>1. PICK k \in 0..N, p \in 0..N : ChunkState(k, p)
    BY <1>0, <1>7, ChunkHands DEF ChunkOK
  <2>2. QED
    BY <1>0, <1>7, <2>1, ChunkHands, HandsFacts
<1>8. ASSUME UNCHANGED vars PROVE UNCHANGED Abs!vars
  BY <1>8 DEF vars, Abs!vars
<1>9. QED
  BY <1>0, <1>1, <1>2, <1>3, <1>4, <1>5, <1>6, <1>7, <1>8 DEF Next, Sender, Reader

\* poll_read with its heap and its two buffers implements the in-order uplink, for
\* every order of arrival, every retry and every size of the caller's buffer.
THEOREM InOrder == Spec => UplinkInOrder
<1>1. Init => Abs!Init
  BY DEF Init, Abs!Init
<1>2. IInv /\ [Next]_vars => [Abs!Next]_(Abs!vars)
  BY RefinementStep
<1>3. QED
  BY <1>1, <1>2, Invariance, PTL DEF Spec, UplinkInOrder, Abs!Spec

=============================================================================
