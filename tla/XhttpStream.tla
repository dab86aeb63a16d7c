---------------------------- MODULE XhttpStream ----------------------------
(***************************************************************************)
(* The read side of an XhttpStream (common/transport/xhttp.rs): poll_read  *)
(* over the uplink channel, the reordering heap of packet-up mode, and the *)
(* two carry-over buffers for data that did not fit the caller's buffer.   *)
(*                                                                         *)
(* A byte is its position in what the client sent.  Packet (or chunk) q    *)
(* carries the positions Off[q]+1 .. Off[q+1].  poll_read's loop is split  *)
(* at its turns: senders run on other threads and get between two turns.   *)
(***************************************************************************)
EXTENDS Naturals, Sequences

CONSTANTS
    N,          \* packets 0..N-1 are what the client has to send
    Off,        \* Off[q]: bytes before packet q
    UpCap,      \* capacity of the uplink channel (64 in the code)
    Copies,     \* bound: how often one packet is posted (retries)
    BufMax      \* bound: room in the caller's buffer

ASSUME StreamAssumption ==
    /\ N \in Nat
    /\ Off \in [0..N -> Nat]
    /\ Off[0] = 0
    /\ \A p, q \in 0..N : p <= q => Off[p] <= Off[q]
    /\ UpCap \in Nat \ {0}
    /\ Copies \in Nat
    /\ BufMax \in Nat \ {0}

VARIABLES
    mode,       \* "packet" (packet-up) or "chunk" (stream-up, stream-one)
    posted,     \* how often packet q was sent into the channel
    senders,    \* an up_tx is still alive
    chan,       \* the uplink channel
    heap,       \* PktQueue.heap: how many entries it has for seq q
    next_seq,   \* PktQueue.next_seq
    leftover,   \* PktQueue.leftover: the positions <<from, to>> it holds
    stream_buf, \* XhttpStream.stream_buf, likewise
    eof,        \* XhttpStream.eof
    got,        \* bytes the relay has received
    piece,      \* positions of the last piece it received
    ended       \* the relay has seen a read of zero bytes and reads no more

envVars == <<mode, posted, senders>>
relVars == <<got, piece, ended>>
vars == <<envVars, chan, heap, next_seq, leftover, stream_buf, eof, relVars>>

Seqs == 0..(N - 1)
Items == [type : {"packet", "chunk"}, seq : Seqs] \cup {[type |-> "eof", seq |-> N]}
Empty(buf) == buf[1] > buf[2]

TypeOK ==
    /\ mode \in {"packet", "chunk"}
    /\ posted \in [Seqs -> 0..Copies]
    /\ senders \in BOOLEAN
    /\ chan \in Seq(Items) /\ Len(chan) <= UpCap
    /\ heap \in [Seqs -> Nat]
    /\ next_seq \in 0..N
    /\ leftover \in Nat \X Nat
    /\ stream_buf \in Nat \X Nat
    /\ eof \in BOOLEAN
    /\ got \in Nat
    /\ piece \in Nat \X Nat
    /\ ended \in BOOLEAN

Init ==
    /\ mode \in {"packet", "chunk"}
    /\ posted = [q \in Seqs |-> 0]
    /\ senders = TRUE
    /\ chan = <<>>
    /\ heap = [q \in Seqs |-> 0]
    /\ next_seq = 0
    /\ leftover = <<1, 0>>
    /\ stream_buf = <<1, 0>>
    /\ eof = FALSE
    /\ got = 0
    /\ piece = <<1, 0>>
    /\ ended = FALSE

-----------------------------------------------------------------------------
(* The senders.                                                             *)

\* Mutant: the channel has no bound.
send_packet_Unbounded(q) ==
    /\ mode = "packet" /\ senders
    /\ posted[q] < Copies
    /\ posted' = [posted EXCEPT ![q] = @ + 1]
    /\ chan' = Append(chan, [type |-> "packet", seq |-> q])
    /\ UNCHANGED <<mode, senders, heap, next_seq, leftover, stream_buf, eof, relVars>>

\* packet-up: any packet, in any order, again if the client retries it.
send_packet(q) ==
    /\ mode = "packet" /\ senders
    /\ posted[q] < Copies
    /\ Len(chan) < UpCap
    /\ posted' = [posted EXCEPT ![q] = @ + 1]
    /\ chan' = Append(chan, [type |-> "packet", seq |-> q])
    /\ UNCHANGED <<mode, senders, heap, next_seq, leftover, stream_buf, eof, relVars>>

\* stream-up and stream-one: one pump sends the frames of one body in order.
send_chunk(q) ==
    /\ mode = "chunk" /\ senders
    /\ posted[q] = 0 /\ Copies > 0
    /\ \A p \in Seqs : p < q => posted[p] = 1
    /\ Len(chan) < UpCap
    /\ posted' = [posted EXCEPT ![q] = 1]
    /\ chan' = Append(chan, [type |-> "chunk", seq |-> q])
    /\ UNCHANGED <<mode, senders, heap, next_seq, leftover, stream_buf, eof, relVars>>

\* The end of a stream-one body, or the expiry branch of the session's TTL task.
send_eof ==
    /\ senders
    /\ Len(chan) < UpCap
    /\ chan' = Append(chan, [type |-> "eof", seq |-> N])
    /\ UNCHANGED <<envVars, heap, next_seq, leftover, stream_buf, eof, relVars>>

drop_senders ==
    /\ senders
    /\ senders' = FALSE
    /\ UNCHANGED <<mode, posted, chan, heap, next_seq, leftover, stream_buf, eof, relVars>>

-----------------------------------------------------------------------------
(* poll_read                                                                *)

\* The relay is given positions lo..hi; tokio's copy stops at a read of zero bytes.
Give(lo, hi) ==
    IF lo > hi
    THEN ended' = TRUE /\ UNCHANGED <<got, piece>>
    ELSE /\ piece' = <<lo, hi>>
         /\ got' = got + (hi - lo + 1)
         /\ UNCHANGED ended

MinOf(a, b) == IF a < b THEN a ELSE b

\* How far a read into a buffer with room for n bytes gets in positions lo..hi.
Upto(lo, hi, n) == MinOf(hi, lo + n - 1)

read_leftover(n) ==
    LET hi == Upto(leftover[1], leftover[2], n) IN
    /\ ~ended
    /\ ~Empty(leftover)
    /\ Give(leftover[1], hi)
    /\ leftover' = <<hi + 1, leftover[2]>>
    /\ UNCHANGED <<envVars, chan, heap, next_seq, stream_buf, eof>>

read_stream_buf(n) ==
    LET hi == Upto(stream_buf[1], stream_buf[2], n) IN
    /\ ~ended
    /\ Empty(leftover) /\ ~Empty(stream_buf)
    /\ Give(stream_buf[1], hi)
    /\ stream_buf' = <<hi + 1, stream_buf[2]>>
    /\ UNCHANGED <<envVars, chan, heap, next_seq, leftover, eof>>

BuffersEmpty == Empty(leftover) /\ Empty(stream_buf)

\* Mutant: the heap's top is the largest number (Reverse forgotten).
TopIsNext_MaxHeap ==
    /\ next_seq \in Seqs
    /\ heap[next_seq] > 0
    /\ \A q \in Seqs : q > next_seq => heap[q] = 0

\* The smallest sequence number in the heap is next_seq.
TopIsNext ==
    /\ next_seq \in Seqs
    /\ heap[next_seq] > 0
    /\ \A q \in Seqs : q < next_seq => heap[q] = 0

\* Mutant: the top of the heap is taken without comparing it with next_seq.
read_heap_NoSeqCheck(n) ==
    \E q \in Seqs :
        LET hi == Upto(Off[q] + 1, Off[q + 1], n) IN
        /\ ~ended
        /\ BuffersEmpty
        /\ heap[q] > 0 /\ \A p \in Seqs : p < q => heap[p] = 0
        /\ heap' = [heap EXCEPT ![q] = @ - 1]
        /\ Give(Off[q] + 1, hi)
        /\ leftover' = <<hi + 1, Off[q + 1]>>
        /\ next_seq' = q + 1
        /\ UNCHANGED <<envVars, chan, stream_buf, eof>>

read_heap(n) ==
    LET lo == Off[next_seq] + 1
        hi == Upto(lo, Off[next_seq + 1], n) IN
    /\ ~ended
    /\ BuffersEmpty /\ TopIsNext
    /\ heap' = [heap EXCEPT ![next_seq] = @ - 1]
    /\ Give(lo, hi)
    /\ leftover' = <<hi + 1, Off[next_seq + 1]>>
    /\ next_seq' = next_seq + 1
    /\ UNCHANGED <<envVars, chan, stream_buf, eof>>

\* Nothing is buffered and nothing is in order: ask the channel.  (With eof set the
\* code returns zero bytes instead, but the relay has stopped reading by then.)
Receiving == ~ended /\ BuffersEmpty /\ ~TopIsNext /\ ~eof

recv_none ==
    /\ Receiving
    /\ chan = <<>> /\ ~senders
    /\ eof' = TRUE
    /\ ended' = TRUE
    /\ UNCHANGED <<envVars, chan, heap, next_seq, leftover, stream_buf, got, piece>>

recv_eof ==
    /\ Receiving
    /\ chan # <<>> /\ Head(chan).type = "eof"
    /\ chan' = Tail(chan)
    /\ eof' = TRUE
    /\ ended' = TRUE
    /\ UNCHANGED <<envVars, heap, next_seq, leftover, stream_buf, got, piece>>

\* Mutant: a packet that is not the next one in order ends the read with zero bytes.
recv_packet_ReturnsEarly ==
    /\ Receiving
    /\ chan # <<>> /\ Head(chan).type = "packet"
    /\ chan' = Tail(chan)
    /\ heap' = [heap EXCEPT ![Head(chan).seq] = @ + 1]
    /\ ended' = (Head(chan).seq # next_seq)
    /\ UNCHANGED <<envVars, next_seq, leftover, stream_buf, eof, got, piece>>

recv_packet ==
    /\ Receiving
    /\ chan # <<>> /\ Head(chan).type = "packet"
    /\ chan' = Tail(chan)
    /\ heap' = [heap EXCEPT ![Head(chan).seq] = @ + 1]
    /\ UNCHANGED <<envVars, next_seq, leftover, stream_buf, eof, relVars>>

recv_chunk(n) ==
    LET q == Head(chan).seq
        lo == Off[q] + 1
        hi == Upto(lo, Off[q + 1], n) IN
    /\ Receiving
    /\ chan # <<>> /\ Head(chan).type = "chunk"
    /\ chan' = Tail(chan)
    /\ Give(lo, hi)
    /\ stream_buf' = <<hi + 1, Off[q + 1]>>
    /\ UNCHANGED <<envVars, heap, next_seq, leftover, eof>>

-----------------------------------------------------------------------------
Sender ==
    \/ \E q \in Seqs : send_packet(q) \/ send_chunk(q)
    \/ send_eof
    \/ drop_senders

Reader ==
    \/ \E n \in 1..BufMax :
         read_leftover(n) \/ read_stream_buf(n) \/ read_heap(n) \/ recv_chunk(n)
    \/ recv_none \/ recv_eof \/ recv_packet

Next == Sender \/ Reader
Spec == Init /\ [][Next]_vars

\* The relay task is polled while it can read; nothing is assumed of the senders.
FairSpec == Spec /\ WF_vars(Reader)

-----------------------------------------------------------------------------
(* Properties                                                               *)

Abs == INSTANCE UplinkAbs WITH Total <- Off[N]

\* Whatever the order in which packets arrive, however often they are retried and
\* however small the caller's buffer, poll_read hands out the client's bytes once,
\* in order and without a gap, until it ends.
UplinkInOrder == Abs!Spec

\* The relay sees a read of zero bytes only at the end of the uplink, or because the
\* client posted an empty packet or chunk, which poll_read cannot tell from the end.
EndIsGenuine ==
    ended => eof \/ \E q \in Seqs : posted[q] > 0 /\ Off[q] = got /\ Off[q + 1] = got

\* An entry below next_seq lies on top of the heap for good and hides what follows.
StaleTop == \E q \in Seqs : q < next_seq /\ heap[q] > 0 /\ posted[q] > 1

\* Once every packet has been posted the relay gets all of them, unless the uplink
\* ended first or a retried packet that was already delivered blocks the heap.
EverythingDelivered ==
    (\A q \in Seqs : posted[q] > 0) ~> (got = Off[N] \/ ended \/ StaleTop)
=============================================================================
