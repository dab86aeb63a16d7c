---------------------------- MODULE AnyTlsProofs ----------------------------
(***************************************************************************)
(* Proofs about an AnyTLS session: its types, FinIsLast and SynackFirst    *)
(* hold for any number of stream ids and streams, any channel capacities   *)
(* and whatever clients and remotes do.                                    *)
(***************************************************************************)
EXTENDS AnyTls, TLAPS, SequenceTheorems

Items == {"data", "empty", "fin"}

\* A stream is in the table once, and a stream nobody has opened is not in it.
TableOK ==
    /\ \A s, t \in Sid : streams[s] # NoObj /\ streams[s] = streams[t] => s = t
    /\ \A o \in Obj : st[o] = "none" => rxq[o] = <<>> /\ \A s \in Sid : streams[s] # o

\* Whom the read loop delivers to: to an opened stream, that has got no FIN yet; a FIN
\* only to one that is out of the table.
DeliverOK ==
    /\ rl = "deliver" => cur \in Obj /\ st[cur] # "none"
    /\ rl = "deliver" /\ item = "fin" => \A s \in Sid : streams[s] # cur
    /\ rl = "drain" /\ cur # NoObj =>
         /\ cur \in Obj /\ st[cur] # "none"
         /\ \A s \in Sid : streams[s] # cur
         /\ \A i \in 1..Len(rxq[cur]) : rxq[cur][i] # "fin"

\* What the read loop has to write: frames of the session, or the SYNACK of the one
\* stream that is waiting for its handler.
OutboxOK ==
    rl = "write" =>
        \/ outbox \in {<<Ctl>>, <<Ctl, Ctl>>} /\ after # "spawn"
        \/ outbox = <<Frame("synack", cur)>> /\ after = "spawn" /\ cur \in Obj /\ st[cur] = "syn"

\* A stream without a handler has no frame in the writer channel, and only a relay sends.
QuietOK ==
    /\ \A o \in Obj : st[o] \in {"none", "syn"} => \A i \in 1..Len(wq) : wq[i].o # o
    /\ \A o \in Obj : dn[o] # "off" => st[o] = "relay"
    /\ \A o \in Obj : up[o] # "off" => st[o] = "relay"

IInv ==
    /\ TypeOK
    /\ TableOK
    /\ DeliverOK
    /\ OutboxOK
    /\ QuietOK
    /\ FinIsLast
    /\ SynackFirst

USE DEF loopVars, writeVars, connVars, taskVars

\* The value that stands for no stream is not one.
LEMMA NoObjIsNone == NoObj \notin Obj
  BY CapAssumption DEF NoObj, Obj

LEMMA FrameTypes ==
    /\ Ctl \in Frames
    /\ \A o \in Obj, c \in {"synack", "psh", "fin"} : Frame(c, o) \in Frames
  BY DEF Ctl, Frame, Frames

\* What is left of a sequence without its head.
LEMMA TailFacts ==
    ASSUME NEW S, NEW q \in Seq(S), q # <<>>
    PROVE  /\ Head(q) \in S /\ Head(q) = q[1]
           /\ Tail(q) \in Seq(S) /\ Len(q) > 0 /\ Len(Tail(q)) = Len(q) - 1
           /\ \A i \in 1..Len(Tail(q)) : Tail(q)[i] = q[i + 1]
  BY HeadTailProperties

LEMMA AppendFacts ==
    ASSUME NEW S, NEW q \in Seq(S), NEW e \in S
    PROVE  /\ Append(q, e) \in Seq(S) /\ Len(Append(q, e)) = Len(q) + 1
           /\ \A i \in 1..Len(q) : Append(q, e)[i] = q[i]
           /\ Append(q, e)[Len(q) + 1] = e
  BY AppendProperties

\* The writer channel after a frame has been put into it.
LEMMA WrittenFacts ==
    ASSUME TypeOK, CanWrite, NEW f \in Frames
    PROVE  /\ Written(f) \in Seq(Frames) /\ Len(Written(f)) <= WriteCap
           /\ \/ Written(f) = wq
              \/ /\ Len(Written(f)) = Len(wq) + 1 /\ Written(f)[Len(wq) + 1] = f
                 /\ \A i \in 1..Len(wq) : Written(f)[i] = wq[i]
<1>1. wq \in Seq(Frames) /\ Len(wq) <= WriteCap /\ Len(wq) \in Nat /\ WriteCap \in Nat
  BY CapAssumption DEF TypeOK
<1>2. CASE writer = "dead"
  BY <1>1, <1>2 DEF Written
<1>3. CASE writer # "dead"
  BY <1>1, <1>3, AppendFacts DEF Written, CanWrite
<1>4. QED
  BY <1>2, <1>3

-----------------------------------------------------------------------------
(* Types                                                                    *)

LEMMA TypeStep == IInv /\ [Next]_vars => TypeOK'
<1>0. SUFFICES ASSUME IInv, [Next]_vars PROVE TypeOK'
  OBVIOUS
<1> USE FrameTypes, NoObjIsNone
<1>1. CASE ClientFrame
  <2>1. ASSUME NEW v \in {1, 2}, NEW m \in BOOLEAN, cmd_settings(v, m) PROVE TypeOK'
    <3>1. outbox' \in Seq(Frames)
      BY <2>1 DEF cmd_settings, WriteThen
    <3>2. QED
      BY <1>0, <2>1, <3>1 DEF IInv, TypeOK, cmd_settings, WriteThen
  <2>2. CASE cmd_syn_refused
    BY <1>0, <2>2 DEF IInv, TypeOK, cmd_syn_refused, WriteThen
  <2>3. ASSUME NEW s \in Sid, NEW o \in Obj, cmd_syn(s, o) PROVE TypeOK'
    <3>0. <<Frame("synack", o)>> \in Seq(Frames)
      OBVIOUS
    <3>1. outbox' \in Seq(Frames) /\ rl' \in {"read", "write"} /\ after' \in {"read", "spawn", "stop"}
      <4>1. CASE version >= 2
        BY <2>3, <3>0, <4>1 DEF cmd_syn, WriteThen
      <4>2. CASE ~(version >= 2)
        BY <1>0, <2>3, <4>2 DEF IInv, TypeOK, cmd_syn
      <4>3. QED
        BY <4>1, <4>2
    <3>2. cur' \in Obj \cup {NoObj} /\ st' \in [Obj -> {"none", "syn", "addr", "dial", "relay", "done"}]
      BY <1>0, <2>3 DEF IInv, TypeOK, cmd_syn
    <3>3. QED
      BY <1>0, <2>3, <3>1, <3>2 DEF IInv, TypeOK, cmd_syn
  <2>4. ASSUME NEW s \in Sid, NEW i \in {"data"} \cup (env \cap {"empty"}), cmd_psh(s, i) PROVE TypeOK'
    BY <1>0, <2>4 DEF IInv, TypeOK, cmd_psh
  <2>5. ASSUME NEW s \in Sid, cmd_fin(s) PROVE TypeOK'
    BY <1>0, <2>5 DEF IInv, TypeOK, cmd_fin
  <2>6. CASE cmd_heart_request
    BY <1>0, <2>6 DEF IInv, TypeOK, cmd_heart_request, WriteThen
  <2>7. CASE cmd_stop
    BY <1>0, <2>7 DEF IInv, TypeOK, cmd_stop
  <2>8. QED
    BY <1>1, <2>1, <2>2, <2>3, <2>4, <2>5, <2>6, <2>7 DEF ClientFrame
<1>2. CASE loop_write
  <2>1. outbox # <<>> /\ outbox \in Seq(Frames)
    BY <1>0, <1>2 DEF IInv, TypeOK, OutboxOK, loop_write
  <2>2. Head(outbox) \in Frames /\ Tail(outbox) \in Seq(Frames)
    BY <2>1, TailFacts
  <2>3. wq' \in Seq(Frames) /\ Len(wq') <= WriteCap
    BY <1>0, <1>2, <2>2, WrittenFacts DEF IInv, loop_write
  <2>4. QED
    BY <1>0, <1>2, <2>2, <2>3 DEF IInv, TypeOK, loop_write
<1>3. CASE loop_deliver
  <2>1. cur \in Obj /\ item \in Items /\ rxq[cur] \in Seq(Items) /\ Len(rxq[cur]) <= RxCap
    BY <1>0, <1>3 DEF IInv, TypeOK, DeliverOK, loop_deliver, Items
  <2>2. /\ rxq' \in [Obj -> Seq(Items)]
        /\ \A o \in Obj : Len(rxq'[o]) <= RxCap
    <3>1. CASE RxAlive(cur)
      <4>1. /\ rxq' = [rxq EXCEPT ![cur] = Append(@, item)] /\ Len(rxq[cur]) < RxCap
        BY <1>3, <3>1 DEF loop_deliver, CanDeliver, Delivered
      <4>2. Append(rxq[cur], item) \in Seq(Items) /\ Len(Append(rxq[cur], item)) <= RxCap
        BY <2>1, <4>1, AppendFacts, CapAssumption
      <4>3. QED
        BY <1>0, <4>1, <4>2 DEF IInv, TypeOK, Items
    <3>2. CASE ~RxAlive(cur)
      BY <1>0, <1>3, <3>2 DEF loop_deliver, Delivered, IInv, TypeOK, Items
    <3>3. QED
      BY <3>1, <3>2
  <2>3. QED
    BY <1>0, <1>3, <2>2 DEF IInv, TypeOK, loop_deliver, Items
<1>4. ASSUME NEW s \in Sid, drain_next(s) PROVE TypeOK'
  BY <1>0, <1>4 DEF IInv, TypeOK, drain_next
<1>5. CASE drain_send
  <2>1. cur \in Obj /\ rxq[cur] \in Seq(Items) /\ Len(rxq[cur]) <= RxCap
    BY <1>0, <1>5 DEF IInv, TypeOK, DeliverOK, drain_send, Items
  <2>2. /\ rxq' \in [Obj -> Seq(Items)]
        /\ \A o \in Obj : Len(rxq'[o]) <= RxCap
    <3>1. CASE RxAlive(cur)
      <4>1. /\ rxq' = [rxq EXCEPT ![cur] = Append(@, "fin")] /\ Len(rxq[cur]) < RxCap
        BY <1>5, <3>1 DEF drain_send, CanDeliver, Delivered
      <4>2. Append(rxq[cur], "fin") \in Seq(Items) /\ Len(Append(rxq[cur], "fin")) <= RxCap
        BY <2>1, <4>1, AppendFacts, CapAssumption DEF Items
      <4>3. QED
        BY <1>0, <4>1, <4>2 DEF IInv, TypeOK, Items
    <3>2. CASE ~RxAlive(cur)
      BY <1>0, <1>5, <3>2 DEF drain_send, Delivered, IInv, TypeOK, Items
    <3>3. QED
      BY <3>1, <3>2
  <2>3. QED
    BY <1>0, <1>5, <2>2 DEF IInv, TypeOK, drain_send, Items
<1>6. CASE drain_end
  BY <1>0, <1>6 DEF IInv, TypeOK, drain_end
<1>7. CASE writer_write \/ writer_fails
  <2>1. wq' \in Seq(Frames) /\ Len(wq') <= WriteCap
    <3>1. wq \in Seq(Frames) /\ Len(wq) <= WriteCap /\ Len(wq) \in Nat /\ WriteCap \in Nat
      BY <1>0, CapAssumption DEF IInv, TypeOK
    <3>2. CASE wq # <<>> /\ wq' = Tail(wq)
      BY <3>1, <3>2, TailFacts
    <3>3. CASE wq' = <<>>
      BY <3>1, <3>3
    <3>4. QED
      BY <1>7, <3>2, <3>3 DEF writer_write, writer_fails
  <2>2. QED
    BY <1>0, <1>7, <2>1 DEF IInv, TypeOK, writer_write, writer_fails
<1>8. ASSUME NEW o \in Obj, HandlerStep(o) \/ UplinkStep(o) \/ RemoteStep(o) \/ DownlinkStep(o)
      PROVE  TypeOK'
  <2> DEFINE Q == rxq[o]
             L == lockq[o]
  <2>1. Q \in Seq(Items) /\ Len(Q) <= RxCap /\ L \in Seq({"up", "dn"})
    BY <1>0 DEF IInv, TypeOK, Items
  <2>2. Q # <<>> => Tail(Q) \in Seq(Items) /\ Len(Tail(Q)) <= RxCap
    BY <2>1, TailFacts, CapAssumption
  <2>3. L # <<>> => Tail(L) \in Seq({"up", "dn"})
    BY <2>1, TailFacts
  <2>4. /\ \A w \in {"up", "dn"} : Append(L, w) \in Seq({"up", "dn"})
        /\ L # <<>> => Append(Tail(L), "dn") \in Seq({"up", "dn"})
    BY <2>1, <2>3, AppendFacts
  <2>5. <<>> \in Seq(Items) /\ Len(<<>>) <= RxCap /\ <<>> \in Seq({"up", "dn"}) /\ <<"up">> \in Seq({"up", "dn"})
    BY CapAssumption
  <2>6. \A q \in Seq(Items) : Len(q) <= RxCap =>
          /\ [rxq EXCEPT ![o] = q] \in [Obj -> Seq(Items)]
          /\ \A p \in Obj : Len([rxq EXCEPT ![o] = q][p]) <= RxCap
    BY <1>0 DEF IInv, TypeOK, Items
  <2>7. \A l \in Seq({"up", "dn"}) : [lockq EXCEPT ![o] = l] \in [Obj -> Seq({"up", "dn"})]
    BY <1>0 DEF IInv, TypeOK
  <2>8. Finish(o) => /\ rxq' \in [Obj -> Seq(Items)] /\ \A p \in Obj : Len(rxq'[p]) <= RxCap
                     /\ lockq' \in [Obj -> Seq({"up", "dn"})]
    BY <2>5, <2>6, <2>7 DEF Finish
  <2>9. CASE HandlerStep(o)
    <3>1. CASE read_socks5_addr(o)
      <4>1. rxq' \in [Obj -> Seq(Items)] /\ \A p \in Obj : Len(rxq'[p]) <= RxCap
        BY <3>1, <2>2, <2>6 DEF read_socks5_addr
      <4>2. QED
        BY <1>0, <3>1, <4>1 DEF IInv, TypeOK, read_socks5_addr, Items
    <3>2. CASE read_socks5_addr_fails(o) \/ connect_fails(o)
      BY ZenonT(60), <1>0, <2>8, <3>2 DEF IInv, TypeOK, read_socks5_addr_fails, connect_fails, Finish, Items
    <3>3. CASE connect(o)
      <4>1. lockq' \in [Obj -> Seq({"up", "dn"})]
        BY <3>3, <2>5, <2>7 DEF connect
      <4>2. QED
        BY <1>0, <3>3, <4>1 DEF IInv, TypeOK, connect
    <3>4. QED
      BY <2>9, <3>1, <3>2, <3>3 DEF HandlerStep
  <2>10. CASE UplinkStep(o)
    <3>1. CASE uplink_read(o)
      <4>1. /\ rxq' \in [Obj -> Seq(Items)] /\ \A p \in Obj : Len(rxq'[p]) <= RxCap
            /\ lockq' \in [Obj -> Seq({"up", "dn"})]
        <5>1. lockq' \in [Obj -> Seq({"up", "dn"})]
          BY <3>1, <2>3, <2>7 DEF uplink_read, Holds
        <5>2. CASE UNCHANGED rxq
          BY <1>0, <5>1, <5>2 DEF IInv, TypeOK, Items
        <5>3. CASE rxq[o] # <<>> /\ rxq' = [rxq EXCEPT ![o] = Tail(@)]
          BY <5>1, <5>3, <2>2, <2>6
        <5>4. QED
          BY <3>1, <5>2, <5>3 DEF uplink_read
      <4>2. buf' \in [Obj -> BOOLEAN]
        BY <1>0, <3>1 DEF IInv, TypeOK, uplink_read
      <4>3. QED
        BY <1>0, <3>1, <4>1, <4>2 DEF IInv, TypeOK, uplink_read, Items
    <3>2. ASSUME NEW q \in Seq(Items), Len(q) <= RxCap, NEW l \in Seq({"up", "dn"}),
                 UplinkDone(o, q, l), UNCHANGED <<env, loopVars, writeVars>>
          PROVE  TypeOK'
      <4>1. /\ rxq' \in [Obj -> Seq(Items)] /\ \A p \in Obj : Len(rxq'[p]) <= RxCap
            /\ lockq' \in [Obj -> Seq({"up", "dn"})]
        BY <3>2, <2>6, <2>7, <2>8 DEF UplinkDone
      <4>2. QED
        BY ZenonT(60), <1>0, <3>2, <4>1 DEF IInv, TypeOK, UplinkDone, Finish, Items
    <3>3. CASE uplink_eof(o)
      <4>1. L # <<>>
        BY <3>3 DEF uplink_eof, Holds
      <4>2. CASE rxq[o] # <<>> /\ UplinkDone(o, Tail(rxq[o]), Tail(lockq[o]))
        BY <3>3, <4>1, <4>2, <2>2, <2>3, <3>2 DEF uplink_eof
      <4>3. CASE UplinkDone(o, <<>>, Tail(lockq[o]))
        BY <3>3, <4>1, <4>3, <2>5, <2>3, <3>2 DEF uplink_eof
      <4>4. QED
        BY <3>3, <4>2, <4>3 DEF uplink_eof
    <3>4. CASE uplink_write(o)
      <4>1. lockq' \in [Obj -> Seq({"up", "dn"})]
        BY <3>4, <2>4, <2>7 DEF uplink_write
      <4>2. QED
        BY <1>0, <3>4, <4>1 DEF IInv, TypeOK, uplink_write
    <3>5. CASE uplink_write_fails(o)
      BY <3>5, <2>1, <3>2 DEF uplink_write_fails
    <3>6. QED
      BY <2>10, <3>1, <3>3, <3>4, <3>5 DEF UplinkStep
  <2>11. CASE RemoteStep(o)
    <3>1. lockq' \in [Obj -> Seq({"up", "dn"})]
      BY <2>11, <2>4, <2>7 DEF RemoteStep, downlink_recv, downlink_recv_eof
    <3>2. QED
      BY ZenonT(60), <1>0, <2>11, <3>1 DEF IInv, TypeOK, RemoteStep, downlink_recv, downlink_recv_eof
  <2>12. CASE downlink_send(o)
    <3>1. wq' \in Seq(Frames) /\ Len(wq') <= WriteCap
      BY <1>0, <2>12, WrittenFacts DEF IInv, downlink_send
    <3>2. lockq' \in [Obj -> Seq({"up", "dn"})]
      BY <2>12, <2>3, <2>4, <2>7 DEF downlink_send, Holds
    <3>3. QED
      BY <1>0, <2>12, <3>1, <3>2 DEF IInv, TypeOK, downlink_send
  <2>13. CASE downlink_close(o)
    <3>1. wq' \in Seq(Frames) /\ Len(wq') <= WriteCap
      BY <1>0, <2>13, WrittenFacts DEF IInv, downlink_close
    <3>2. CASE Finish(o)
      BY <1>0, <2>8, <2>13, <3>1, <3>2 DEF IInv, TypeOK, downlink_close, Finish, Items
    <3>3. CASE /\ dn' = [dn EXCEPT ![o] = "done"]
               /\ lockq' = [lockq EXCEPT ![o] = Tail(@)] /\ UNCHANGED <<st, up, connVars>>
      <4>1. lockq' \in [Obj -> Seq({"up", "dn"})]
        BY <2>13, <3>3, <2>3, <2>7 DEF downlink_close, Holds
      <4>2. QED
        BY <1>0, <2>13, <3>1, <3>3, <4>1 DEF IInv, TypeOK, downlink_close
    <3>4. QED
      BY <2>13, <3>2, <3>3 DEF downlink_close
  <2>14. QED
    BY <1>8, <2>9, <2>10, <2>11, <2>12, <2>13 DEF DownlinkStep
<1>9. CASE UNCHANGED vars
  BY <1>0, <1>9 DEF IInv, TypeOK, vars
<1>10. QED
  BY <1>0, <1>1, <1>2, <1>3, <1>4, <1>5, <1>6, <1>7, <1>8, <1>9 DEF Next, LoopStep

-----------------------------------------------------------------------------
(* Queues without a FIN, and with one at their end                          *)

NoFin(q) == \A i \in 1..Len(q) : q[i] # "fin"
FinLast(q) == \A i \in 1..Len(q) : q[i] = "fin" => i = Len(q)
Unmapped(o) == \A s \in Sid : streams[s] # o

\* FinIsLast, queue by queue.
LEMMA FinIsLastParts ==
    ASSUME rxq \in [Obj -> Seq(Items)]
    PROVE  FinIsLast <=>
             \A o \in Obj : /\ FinLast(rxq[o])
                            /\ NoFin(rxq[o]) \/ (Unmapped(o) /\ ~(rl = "deliver" /\ cur = o))
<1>1. \A o \in Obj : DOMAIN rxq[o] = 1..Len(rxq[o])
  OBVIOUS
<1>2. QED
  BY <1>1 DEF FinIsLast, FinLast, NoFin, Unmapped

LEMMA FinIsLastNext ==
    ASSUME TypeOK',
           \A o \in Obj : /\ FinLast(rxq'[o])
                          /\ \/ NoFin(rxq'[o])
                             \/ (\A s \in Sid : streams'[s] # o) /\ ~(rl' = "deliver" /\ cur' = o)
    PROVE  FinIsLast'
<1>1. \A o \in Obj : DOMAIN rxq'[o] = 1..Len(rxq'[o])
  BY DEF TypeOK
<1>2. QED
  BY <1>1 DEF FinIsLast, FinLast, NoFin

LEMMA QueueTail ==
    ASSUME NEW q \in Seq(Items), q # <<>>, FinLast(q)
    PROVE  FinLast(Tail(q)) /\ (NoFin(q) => NoFin(Tail(q)))
  BY TailFacts DEF FinLast, NoFin

LEMMA QueueEmpty == FinLast(<<>>) /\ NoFin(<<>>)
  BY DEF FinLast, NoFin

LEMMA QueueAppend ==
    ASSUME NEW q \in Seq(Items), NEW i \in Items, NoFin(q)
    PROVE  FinLast(Append(q, i)) /\ (i # "fin" => NoFin(Append(q, i)))
<1>1. /\ Append(q, i) \in Seq(Items) /\ Len(Append(q, i)) = Len(q) + 1
      /\ \A j \in 1..Len(q) : Append(q, i)[j] = q[j]
      /\ Append(q, i)[Len(q) + 1] = i
  BY AppendFacts
<1>2. \A j \in 1..(Len(q) + 1) : j = Len(q) + 1 \/ j \in 1..Len(q)
  OBVIOUS
<1>3. QED
  BY <1>1, <1>2 DEF FinLast, NoFin

\* Any invariant's parts in a form that later steps use.
LEMMA Parts ==
    ASSUME IInv
    PROVE  /\ rxq \in [Obj -> Seq(Items)] /\ st \in [Obj -> {"none", "syn", "addr", "dial", "relay", "done"}]
           /\ streams \in [Sid -> Obj \cup {NoObj}]
           /\ \A o \in Obj : /\ FinLast(rxq[o])
                             /\ NoFin(rxq[o]) \/ (Unmapped(o) /\ ~(rl = "deliver" /\ cur = o))
           /\ \A s \in Sid : streams[s] # NoObj => streams[s] \in Obj /\ st[streams[s]] # "none"
<1>1. rxq \in [Obj -> Seq(Items)] /\ st \in [Obj -> {"none", "syn", "addr", "dial", "relay", "done"}]
  BY DEF IInv, TypeOK, Items
<1>2. streams \in [Sid -> Obj \cup {NoObj}]
  BY DEF IInv, TypeOK
<1>3. \A s \in Sid : streams[s] # NoObj => streams[s] \in Obj /\ st[streams[s]] # "none"
  BY <1>2 DEF IInv, TableOK
<1>4. QED
  BY <1>1, <1>2, <1>3, FinIsLastParts DEF IInv

-----------------------------------------------------------------------------
(* What one step of a stream's handler may do                               *)

TaskOf(o) == HandlerStep(o) \/ UplinkStep(o) \/ RemoteStep(o) \/ DownlinkStep(o)

LEMMA TaskFacts ==
    ASSUME IInv, NEW o \in Obj, TaskOf(o)
    PROVE  /\ UNCHANGED loopVars
           /\ st[o] \notin {"none", "syn"} /\ st'[o] \notin {"none", "syn"}
           /\ dn'[o] # "off" => st'[o] = "relay"
           /\ up'[o] # "off" => st'[o] = "relay"
           /\ \A p \in Obj \ {o} : st'[p] = st[p] /\ rxq'[p] = rxq[p] /\ up'[p] = up[p] /\ dn'[p] = dn[p]
           /\ \/ rxq'[o] = rxq[o] \/ rxq'[o] = <<>>
              \/ rxq[o] # <<>> /\ rxq'[o] = Tail(rxq[o])
           /\ \/ wq' = wq
              \/ CanWrite /\ \E c \in {"psh", "fin"} : wq' = Written(Frame(c, o))
<1> USE DEF IInv, TypeOK, QuietOK
<1>1. CASE read_socks5_addr(o)
  BY <1>1 DEF read_socks5_addr
<1>2. CASE read_socks5_addr_fails(o) \/ connect_fails(o)
  BY <1>2 DEF read_socks5_addr_fails, connect_fails, Finish
<1>3. CASE connect(o)
  BY <1>3 DEF connect
<1>4. CASE uplink_read(o)
  BY <1>4 DEF uplink_read
<1>5. CASE uplink_eof(o)
  <2>1. ASSUME NEW q, NEW l, UplinkDone(o, q, l), UNCHANGED <<env, loopVars, writeVars>>, up[o] = "read",
               q = <<>> \/ (rxq[o] # <<>> /\ q = Tail(rxq[o]))
        PROVE  /\ UNCHANGED <<loopVars, wq>> /\ st[o] = "relay" /\ st'[o] \in {"relay", "done"}
               /\ st'[o] = "done" => dn'[o] = "off" /\ up'[o] = "off"
               /\ \A p \in Obj \ {o} : st'[p] = st[p] /\ rxq'[p] = rxq[p] /\ up'[p] = up[p] /\ dn'[p] = dn[p]
               /\ rxq'[o] = <<>> \/ (rxq[o] # <<>> /\ rxq'[o] = Tail(rxq[o]))
    <3>1. CASE dn[o] = "done"
      BY <2>1, <3>1 DEF UplinkDone, Finish
    <3>2. CASE dn[o] # "done"
      BY <2>1, <3>2 DEF UplinkDone
    <3>3. QED
      BY <3>1, <3>2
  <2>2. CASE rxq[o] # <<>> /\ UplinkDone(o, Tail(rxq[o]), Tail(lockq[o]))
    BY <1>5, <2>1, <2>2 DEF uplink_eof
  <2>3. CASE UplinkDone(o, <<>>, Tail(lockq[o]))
    BY <1>5, <2>1, <2>3 DEF uplink_eof
  <2>4. QED
    BY <1>5, <2>2, <2>3 DEF uplink_eof
<1>6. CASE uplink_write(o)
  BY <1>6 DEF uplink_write
<1>7. CASE uplink_write_fails(o)
  BY <1>7 DEF uplink_write_fails, UplinkDone, Finish
<1>8. CASE RemoteStep(o)
  BY <1>8 DEF RemoteStep, downlink_recv, downlink_recv_eof
<1>9. CASE downlink_send(o)
  BY <1>9 DEF downlink_send
<1>10. CASE downlink_close(o)
  BY <1>10 DEF downlink_close, Finish
<1>11. QED
  BY <1>1, <1>2, <1>3, <1>4, <1>5, <1>6, <1>7, <1>8, <1>9, <1>10
     DEF TaskOf, HandlerStep, UplinkStep, DownlinkStep

\* A handler takes from the front of its queue or drops it.
LEMMA TaskQueue ==
    ASSUME IInv, NEW o \in Obj, TaskOf(o)
    PROVE  \A p \in Obj : FinLast(rxq'[p]) /\ (NoFin(rxq[p]) => NoFin(rxq'[p]))
<1>1. \A p \in Obj : rxq[p] \in Seq(Items) /\ FinLast(rxq[p])
  BY Parts
<1>2. QED
  BY <1>1, TaskFacts, QueueTail, QueueEmpty

\* The read loop between frames, and in the writer channel: the table, the queues and
\* the streams' states stay.
Steady ==
    /\ UNCHANGED <<streams, rxq>>
    /\ \A o \in Obj : st[o] = "none" <=> st'[o] = "none"
    /\ rl' \in {"read", "write"} \/ (rl' = "drain" /\ cur' = NoObj) \/ rl' = "ended"

LEMMA LoopSteady ==
    ASSUME IInv,
           \/ \E v \in {1, 2}, m \in BOOLEAN : cmd_settings(v, m)
           \/ cmd_syn_refused \/ cmd_heart_request \/ cmd_stop \/ loop_write \/ drain_end
    PROVE  Steady
<1>1. CASE loop_write
  <2>1. after = "spawn" => st[cur] = "syn"
    BY <1>1 DEF IInv, OutboxOK, loop_write
  <2>2. \A o \in Obj : st[o] = "none" <=> st'[o] = "none"
    BY <1>1, <2>1 DEF IInv, TypeOK, loop_write
  <2>3. QED
    BY <1>1, <2>2 DEF Steady, loop_write
<1>2. CASE \E v \in {1, 2}, m \in BOOLEAN : cmd_settings(v, m)
  BY <1>2 DEF Steady, cmd_settings, WriteThen
<1>3. CASE cmd_syn_refused \/ cmd_heart_request \/ cmd_stop \/ drain_end
  BY <1>3 DEF Steady, cmd_syn_refused, cmd_heart_request, cmd_stop, drain_end, WriteThen
<1>4. QED
  BY <1>1, <1>2, <1>3

-----------------------------------------------------------------------------
(* The table, the queues and the read loop                                  *)

LEMMA QueueSteady ==
    ASSUME IInv, TypeOK', Steady
    PROVE  TableOK' /\ DeliverOK' /\ FinIsLast'
<1>1. TableOK'
  BY DEF IInv, TableOK, Steady
<1>2. DeliverOK'
  BY DEF DeliverOK, Steady
<1>3. FinIsLast'
  BY Parts, FinIsLastNext DEF Steady, Unmapped
<1>4. QED
  BY <1>1, <1>2, <1>3

LEMMA QueueStep ==
    ASSUME IInv, Next, TypeOK'
    PROVE  TableOK' /\ DeliverOK' /\ FinIsLast'
<1> USE NoObjIsNone
<1>1. ASSUME Steady PROVE TableOK' /\ DeliverOK' /\ FinIsLast'
  BY <1>1, QueueSteady
<1>2. ASSUME NEW s \in Sid, NEW o \in Obj, cmd_syn(s, o) PROVE TableOK' /\ DeliverOK' /\ FinIsLast'
  <2>1. /\ streams' = [streams EXCEPT ![s] = o] /\ rxq' = rxq
        /\ st[o] = "none" /\ st'[o] # "none" /\ \A p \in Obj \ {o} : st'[p] = st[p]
        /\ rl' \in {"read", "write"}
    BY <1>2 DEF cmd_syn, WriteThen, IInv, TypeOK
  <2>2. rxq[o] = <<>> /\ Unmapped(o)
    BY <2>1 DEF IInv, TableOK, Unmapped
  <2>3. \A t \in Sid, p \in Obj \ {o} : streams'[t] = p => streams[t] = p
    BY <2>1, Parts
  <2>4. \A t \in Sid : streams'[t] = o => t = s
    BY <2>1, <2>2, Parts DEF Unmapped
  <2>5. TableOK'
    <3>1. \A t, u \in Sid : streams'[t] # NoObj /\ streams'[t] = streams'[u] => t = u
      <4>1. SUFFICES ASSUME NEW t \in Sid, NEW u \in Sid, streams'[t] # NoObj, streams'[t] = streams'[u]
                     PROVE  t = u
        OBVIOUS
      <4>2. streams'[t] \in Obj
        BY <4>1 DEF TypeOK
      <4>3. CASE streams'[t] = o
        BY <2>4, <4>1, <4>3
      <4>4. CASE streams'[t] # o
        BY <2>3, <4>1, <4>2, <4>4 DEF IInv, TableOK
      <4>5. QED
        BY <4>3, <4>4
    <3>2. \A p \in Obj : st'[p] = "none" => rxq'[p] = <<>> /\ \A t \in Sid : streams'[t] # p
      BY <2>1, <2>3 DEF IInv, TableOK
    <3>3. QED
      BY <3>1, <3>2 DEF TableOK
  <2>6. DeliverOK'
    BY <2>1 DEF DeliverOK
  <2>7. FinIsLast'
    BY <2>1, <2>2, <2>3, Parts, FinIsLastNext, QueueEmpty DEF Unmapped
  <2>8. QED
    BY <2>5, <2>6, <2>7
<1>3. ASSUME NEW s \in Sid, NEW i \in {"data"} \cup (env \cap {"empty"}), cmd_psh(s, i)
      PROVE  TableOK' /\ DeliverOK' /\ FinIsLast'
  <2>1. /\ UNCHANGED <<streams, rxq, st>> /\ rl' = "deliver" /\ cur' = streams[s] /\ item' = i
        /\ streams[s] \in Obj /\ st[streams[s]] # "none" /\ i # "fin"
    BY <1>3, Parts DEF cmd_psh
  <2>2. NoFin(rxq[streams[s]])
    BY <2>1, Parts DEF Unmapped
  <2>3. TableOK'
    BY <2>1 DEF IInv, TableOK
  <2>4. DeliverOK'
    BY <2>1 DEF DeliverOK
  <2>5. FinIsLast'
    BY <2>1, <2>2, Parts, FinIsLastNext DEF Unmapped
  <2>6. QED
    BY <2>3, <2>4, <2>5
<1>4. ASSUME NEW s \in Sid, cmd_fin(s) \/ drain_next(s) PROVE TableOK' /\ DeliverOK' /\ FinIsLast'
  <2>1. /\ streams' = [streams EXCEPT ![s] = NoObj] /\ UNCHANGED <<rxq, st>>
        /\ rl' \in {"deliver", "drain"} /\ cur' = streams[s]
        /\ streams[s] \in Obj /\ st[streams[s]] # "none"
    BY <1>4, Parts DEF cmd_fin, drain_next
  <2>2. NoFin(rxq[streams[s]])
    BY <2>1, Parts DEF Unmapped
  <2>3. \A t \in Sid : streams'[t] = NoObj \/ (t # s /\ streams'[t] = streams[t])
    BY <2>1, Parts
  <2>4. \A t \in Sid : streams'[t] # streams[s]
    BY <2>1, <2>3 DEF IInv, TableOK
  <2>5. TableOK'
    BY <2>1, <2>3 DEF IInv, TableOK
  <2>6. DeliverOK'
    BY <2>1, <2>2, <2>4 DEF DeliverOK, NoFin
  <2>7. FinIsLast'
    BY <2>1, <2>2, <2>3, Parts, FinIsLastNext DEF Unmapped
  <2>8. QED
    BY <2>5, <2>6, <2>7
<1>5. CASE loop_deliver \/ drain_send
  <2>1. cur \in Obj /\ st[cur] # "none" /\ NoFin(rxq[cur]) /\ rxq[cur] \in Seq(Items)
    BY <1>5, Parts DEF IInv, DeliverOK, loop_deliver, drain_send, NoFin
  <2>2. PICK i \in Items : /\ rxq' = Delivered(cur, i) /\ UNCHANGED st
                           /\ i = "fin" => Unmapped(cur)
                           /\ rl' = "read" \/ (rl' = "drain" /\ cur' = NoObj)
                           /\ \A t \in Sid : streams'[t] = NoObj \/ streams'[t] = streams[t]
    <3>1. CASE loop_deliver
      <4>1. \A t \in Sid : streams'[t] = NoObj \/ streams'[t] = streams[t]
        BY <3>1 DEF loop_deliver
      <4>2. item \in Items
        BY DEF IInv, TypeOK, Items
      <4>3. QED
        BY <3>1, <4>1, <4>2 DEF loop_deliver, IInv, DeliverOK, Unmapped
    <3>2. CASE drain_send
      BY <3>2 DEF drain_send, IInv, DeliverOK, Unmapped, Items
    <3>3. QED
      BY <1>5, <3>1, <3>2
  <2>3. /\ \A p \in Obj \ {cur} : rxq'[p] = rxq[p]
        /\ rxq'[cur] = rxq[cur] \/ rxq'[cur] = Append(rxq[cur], i)
    BY <2>1, <2>2, Parts DEF Delivered
  <2>4. FinLast(rxq'[cur]) /\ (i # "fin" => NoFin(rxq'[cur]))
    BY <2>1, <2>3, Parts, QueueAppend
  <2>5. TableOK'
    BY <2>1, <2>2, <2>3 DEF IInv, TableOK
  <2>6. DeliverOK'
    BY <2>2 DEF DeliverOK
  <2>7. \A o \in Obj : Unmapped(o) => \A t \in Sid : streams'[t] # o
    BY <2>2 DEF Unmapped
  <2>8. FinIsLast'
    BY <2>2, <2>3, <2>4, <2>7, Parts, FinIsLastNext
  <2>9. QED
    BY <2>5, <2>6, <2>8
<1>6. CASE writer_write \/ writer_fails
  <2>1. UNCHANGED <<streams, rl, cur, item, rxq, st>>
    BY <1>6 DEF writer_write, writer_fails
  <2>2. QED
    BY <2>1 DEF IInv, TableOK, DeliverOK, FinIsLast
<1>7. ASSUME NEW o \in Obj, TaskOf(o) PROVE TableOK' /\ DeliverOK' /\ FinIsLast'
  <2>1. /\ UNCHANGED <<streams, rl, cur, item>>
        /\ st'[o] # "none" /\ \A p \in Obj \ {o} : st'[p] = st[p] /\ rxq'[p] = rxq[p]
    BY <1>7, TaskFacts
  <2>2. \A p \in Obj : FinLast(rxq'[p]) /\ (NoFin(rxq[p]) => NoFin(rxq'[p]))
    BY <1>7, TaskQueue
  <2>3. TableOK'
    BY <2>1 DEF IInv, TableOK
  <2>4. DeliverOK'
    BY <2>1, <2>2 DEF IInv, DeliverOK, NoFin
  <2>5. FinIsLast'
    BY <2>1, <2>2, Parts, FinIsLastNext DEF Unmapped
  <2>6. QED
    BY <2>3, <2>4, <2>5
<1>8. QED
  BY <1>1, <1>2, <1>3, <1>4, <1>5, <1>6, <1>7, LoopSteady DEF Next, ClientFrame, LoopStep, TaskOf

-----------------------------------------------------------------------------
(* The writer channel                                                       *)

\* The answer to SETTINGS is at most two frames of the session.
LEMMA SettingsReplies ==
    ASSUME NEW v \in {1, 2}, NEW m \in BOOLEAN
    PROVE  (IF m THEN <<Ctl>> ELSE <<>>) \o (IF v >= 2 THEN <<Ctl>> ELSE <<>>)
             \in {<<>>, <<Ctl>>, <<Ctl, Ctl>>}
<1>1. <<Ctl>> \in Seq(Frames) /\ <<>> \in Seq(Frames) /\ <<Ctl, Ctl>> \in Seq(Frames)
  BY FrameTypes
<1>2. <<Ctl>> \o <<>> = <<Ctl>> /\ <<>> \o <<Ctl>> = <<Ctl>> /\ <<>> \o <<>> = <<>>
  BY <1>1, ConcatEmptySeq
<1>3. <<Ctl>> \o <<Ctl>> = <<Ctl, Ctl>>
  <2>1. Append(<<Ctl>>, Ctl) = <<Ctl>> \o <<Ctl>>
    BY <1>1, FrameTypes, AppendIsConcat
  <2>2. Append(<<Ctl>>, Ctl) = <<Ctl, Ctl>>
    <3>1. /\ Append(<<Ctl>>, Ctl) \in Seq(Frames) /\ Len(Append(<<Ctl>>, Ctl)) = 2
          /\ Append(<<Ctl>>, Ctl)[1] = Ctl /\ Append(<<Ctl>>, Ctl)[2] = Ctl
      BY <1>1, FrameTypes
    <3>2. \A i \in 1..2 : Append(<<Ctl>>, Ctl)[i] = <<Ctl, Ctl>>[i]
      BY <3>1
    <3>3. QED
      BY <1>1, <3>1, <3>2, SeqEqual
  <2>3. QED
    BY <2>1, <2>2
<1>4. QED
  BY <1>2, <1>3

LEMMA OutboxStep ==
    ASSUME IInv, Next
    PROVE  OutboxOK'
<1>1. ASSUME NEW v \in {1, 2}, NEW m \in BOOLEAN, cmd_settings(v, m) PROVE OutboxOK'
  <2>1. /\ outbox' \in {<<>>, <<Ctl>>, <<Ctl, Ctl>>}
        /\ rl' = IF outbox' = <<>> THEN "read" ELSE "write"
        /\ after' = "read"
    BY <1>1, SettingsReplies DEF cmd_settings, WriteThen
  <2>2. QED
    BY <2>1 DEF OutboxOK
<1>2. CASE cmd_syn_refused \/ cmd_heart_request
  <2>1. outbox' = <<Ctl>> /\ after' # "spawn"
    BY <1>2 DEF cmd_syn_refused, cmd_heart_request, WriteThen
  <2>2. QED
    BY <2>1 DEF OutboxOK
<1>3. ASSUME NEW s \in Sid, NEW o \in Obj, cmd_syn(s, o) PROVE OutboxOK'
  BY <1>3 DEF cmd_syn, WriteThen, IInv, TypeOK, OutboxOK
<1>4. CASE loop_write
  <2>1. CASE Len(outbox) > 1
    <3>1. outbox = <<Ctl, Ctl>> /\ after # "spawn"
      BY <1>4, <2>1 DEF IInv, OutboxOK, loop_write
    <3>2. outbox' = <<Ctl>> /\ after' # "spawn"
      BY <1>4, <2>1, <3>1 DEF loop_write
    <3>3. QED
      BY <3>2 DEF OutboxOK
  <2>2. CASE ~(Len(outbox) > 1)
    BY <1>4, <2>2 DEF OutboxOK, loop_write
  <2>3. QED
    BY <2>1, <2>2
<1>5. CASE \/ \E s \in Sid, i \in {"data"} \cup (env \cap {"empty"}) : cmd_psh(s, i)
           \/ (\E s \in Sid : cmd_fin(s)) \/ cmd_stop \/ loop_deliver
           \/ (\E s \in Sid : drain_next(s)) \/ drain_send \/ drain_end
  BY <1>5 DEF OutboxOK, cmd_psh, cmd_fin, cmd_stop, loop_deliver, drain_next, drain_send, drain_end
<1>6. CASE writer_write \/ writer_fails
  BY <1>6 DEF OutboxOK, IInv, writer_write, writer_fails
<1>7. ASSUME NEW o \in Obj, TaskOf(o) PROVE OutboxOK'
  BY <1>7, TaskFacts DEF IInv, OutboxOK
<1>8. QED
  BY <1>1, <1>2, <1>3, <1>4, <1>5, <1>6, <1>7 DEF Next, ClientFrame, LoopStep, TaskOf

\* The first part of SynackFirst, over positions.
Ordered(q) ==
    \A i, j \in 1..Len(q) :
        q[i].cmd \in {"psh", "fin"} /\ q[j].cmd = "synack" /\ q[j].o = q[i].o => j < i

LEMMA OrderedTail ==
    ASSUME NEW q \in Seq(Frames), q # <<>>, Ordered(q)
    PROVE  Ordered(Tail(q))
<1>1. Len(Tail(q)) = Len(q) - 1 /\ Len(q) \in Nat /\ \A i \in 1..Len(Tail(q)) : Tail(q)[i] = q[i + 1]
  BY TailFacts
<1>2. SUFFICES ASSUME NEW i \in 1..Len(Tail(q)), NEW j \in 1..Len(Tail(q)),
                      Tail(q)[i].cmd \in {"psh", "fin"}, Tail(q)[j].cmd = "synack",
                      Tail(q)[j].o = Tail(q)[i].o
               PROVE  j < i
  BY DEF Ordered
<1>3. i + 1 \in 1..Len(q) /\ j + 1 \in 1..Len(q)
  BY <1>1
<1>4. j + 1 < i + 1
  BY <1>1, <1>2, <1>3 DEF Ordered
<1>5. QED
  BY <1>4

\* A frame may follow what is in the channel unless it is the SYNACK of a stream that has
\* already sent something.
LEMMA OrderedAppend ==
    ASSUME NEW q \in Seq(Frames), NEW r \in Seq(Frames), NEW f \in Frames, Ordered(q),
           Len(r) = Len(q) + 1, r[Len(q) + 1] = f, \A i \in 1..Len(q) : r[i] = q[i],
           f.cmd = "synack" => \A i \in 1..Len(q) : q[i].o # f.o
    PROVE  Ordered(r)
<1>1. SUFFICES ASSUME NEW i \in 1..Len(r), NEW j \in 1..Len(r),
                      r[i].cmd \in {"psh", "fin"}, r[j].cmd = "synack", r[j].o = r[i].o
               PROVE  j < i
  BY DEF Ordered
<1>2. Len(q) \in Nat
  OBVIOUS
<1>3. CASE j \in 1..Len(q) /\ i \in 1..Len(q)
  BY <1>1, <1>3 DEF Ordered
<1>4. CASE j \in 1..Len(q) /\ i = Len(q) + 1
  BY <1>2, <1>4
<1>5. CASE j = Len(q) + 1 /\ i \in 1..Len(q)
  BY <1>1, <1>5
<1>6. CASE j = Len(q) + 1 /\ i = Len(q) + 1
  BY <1>1, <1>6
<1>7. QED
  BY <1>2, <1>3, <1>4, <1>5, <1>6

LEMMA OrderedIs ==
    ASSUME NEW q \in Seq(Frames)
    PROVE  (\A i, j \in DOMAIN q :
              q[i].cmd \in {"psh", "fin"} /\ q[j] = Frame("synack", q[i].o) => j < i) <=> Ordered(q)
<1>1. DOMAIN q = 1..Len(q) /\ \A i \in 1..Len(q) : q[i] \in Frames
  OBVIOUS
<1>2. \A o : \A f \in Frames : f = Frame("synack", o) <=> f.cmd = "synack" /\ f.o = o
  BY DEF Frames, Frame
<1>3. QED
  BY <1>1, <1>2 DEF Ordered

LEMMA ChannelStep ==
    ASSUME IInv, Next, TypeOK'
    PROVE  QuietOK' /\ Ordered(wq')
<1> USE NoObjIsNone, FrameTypes
<1>1. wq \in Seq(Frames) /\ Len(wq) \in Nat /\ Ordered(wq)
  BY SMTT(30), OrderedIs DEF IInv, TypeOK, SynackFirst
<1>2. CASE UNCHANGED <<wq, up, dn>> /\ \A o \in Obj : st'[o] = st[o] \/ st[o] = "none"
  BY <1>1, <1>2 DEF IInv, QuietOK
<1>3. ASSUME NEW s \in Sid, NEW o \in Obj, cmd_syn(s, o) PROVE QuietOK' /\ Ordered(wq')
  BY <1>2, <1>3 DEF cmd_syn, IInv, TypeOK
<1>4. CASE loop_write
  <2>1. PICK f \in Frames : /\ wq' = Written(f) /\ CanWrite /\ UNCHANGED <<up, dn>>
                            /\ \/ f = Ctl /\ st' = st
                               \/ /\ f = Frame("synack", cur) /\ cur \in Obj /\ st[cur] = "syn"
                                  /\ st' = [st EXCEPT ![cur] = "addr"]
    <3>1. CASE outbox \in {<<Ctl>>, <<Ctl, Ctl>>} /\ after # "spawn"
      BY <1>4, <3>1 DEF loop_write
    <3>2. CASE outbox = <<Frame("synack", cur)>> /\ after = "spawn" /\ cur \in Obj /\ st[cur] = "syn"
      BY <1>4, <3>2 DEF loop_write
    <3>3. QED
      BY <1>4, <3>1, <3>2 DEF IInv, OutboxOK, loop_write
  <2>2. /\ wq' \in Seq(Frames)
        /\ \/ wq' = wq
           \/ /\ Len(wq') = Len(wq) + 1 /\ wq'[Len(wq) + 1] = f
              /\ \A i \in 1..Len(wq) : wq'[i] = wq[i]
    BY <2>1, WrittenFacts DEF IInv
  <2>3. f.cmd = "synack" => \A i \in 1..Len(wq) : wq[i].o # f.o
    BY <2>1 DEF Ctl, Frame, IInv, QuietOK
  <2>4. Ordered(wq')
    BY <1>1, <2>2, <2>3, OrderedAppend
  <2>5. \A o \in Obj : st'[o] \in {"none", "syn"} => st[o] = st'[o] /\ f.o # o
    BY <2>1 DEF Ctl, Frame, IInv, TypeOK
  <2>6. \A o \in Obj : st'[o] \in {"none", "syn"} => \A i \in 1..Len(wq') : wq'[i].o # o
    <3>1. SUFFICES ASSUME NEW o \in Obj, st'[o] \in {"none", "syn"}, NEW i \in 1..Len(wq')
                   PROVE  wq'[i].o # o
      OBVIOUS
    <3>2. \A k \in 1..Len(wq) : wq[k].o # o
      BY <2>5, <3>1 DEF IInv, QuietOK
    <3>3. wq' = wq \/ i \in 1..Len(wq) \/ i = Len(wq) + 1
      BY <1>1, <2>2, <3>1
    <3>4. QED
      BY <2>2, <2>5, <3>1, <3>2, <3>3
  <2>7. \A o \in Obj : (dn'[o] # "off" \/ up'[o] # "off") => st'[o] = "relay"
    BY <2>1 DEF IInv, QuietOK, TypeOK
  <2>8. QED
    BY <2>4, <2>6, <2>7 DEF QuietOK
<1>5. CASE writer_write \/ writer_fails
  <2>1. UNCHANGED <<st, up, dn>>
    BY <1>5 DEF writer_write, writer_fails
  <2>2. CASE wq # <<>> /\ wq' = Tail(wq)
    <3>1. Ordered(wq')
      BY <1>1, <2>2, OrderedTail
    <3>2. \A i \in 1..Len(wq') : i + 1 \in 1..Len(wq) /\ wq'[i] = wq[i + 1]
      BY <1>1, <2>2, TailFacts
    <3>3. QED
      BY <2>1, <3>1, <3>2 DEF IInv, QuietOK
  <2>3. CASE wq' = <<>>
    BY <2>1, <2>3 DEF IInv, QuietOK, Ordered
  <2>4. QED
    BY <1>5, <2>2, <2>3 DEF writer_write, writer_fails
<1>6. ASSUME NEW o \in Obj, TaskOf(o) PROVE QuietOK' /\ Ordered(wq')
  <2>1. /\ st'[o] \notin {"none", "syn"} /\ (dn'[o] # "off" \/ up'[o] # "off" => st'[o] = "relay")
        /\ \A p \in Obj \ {o} : st'[p] = st[p] /\ up'[p] = up[p] /\ dn'[p] = dn[p]
    BY <1>6, TaskFacts
  <2>2. CASE wq' = wq
    BY <1>1, <2>1, <2>2 DEF IInv, QuietOK
  <2>3. ASSUME NEW c \in {"psh", "fin"}, CanWrite, wq' = Written(Frame(c, o)), wq' # wq
        PROVE  QuietOK' /\ Ordered(wq')
    <3>1. /\ wq' \in Seq(Frames) /\ Len(wq') = Len(wq) + 1 /\ wq'[Len(wq) + 1] = Frame(c, o)
          /\ \A i \in 1..Len(wq) : wq'[i] = wq[i]
      BY <2>3, WrittenFacts DEF IInv
    <3>2. Frame(c, o).cmd # "synack" /\ Frame(c, o).o = o
      BY DEF Frame
    <3>3. Ordered(wq')
      BY <1>1, <3>1, <3>2, OrderedAppend
    <3>4. \A i \in 1..Len(wq') : wq'[i].o = o \/ (i \in 1..Len(wq) /\ wq'[i] = wq[i])
      BY <1>1, <3>1, <3>2
    <3>5. QED
      BY <2>1, <3>3, <3>4 DEF IInv, QuietOK
  <2>4. QED
    BY <1>6, <2>2, <2>3, TaskFacts
<1>7. CASE \/ \E v \in {1, 2}, m \in BOOLEAN : cmd_settings(v, m)
           \/ \E s \in Sid, i \in {"data"} \cup (env \cap {"empty"}) : cmd_psh(s, i)
           \/ (\E s \in Sid : cmd_fin(s)) \/ cmd_syn_refused \/ cmd_heart_request \/ cmd_stop
           \/ loop_deliver \/ (\E s \in Sid : drain_next(s)) \/ drain_send \/ drain_end
  <2>1. UNCHANGED <<wq, st, up, dn>>
    BY <1>7 DEF cmd_settings, cmd_psh, cmd_fin, cmd_syn_refused, cmd_heart_request, cmd_stop,
                loop_deliver, drain_next, drain_send, drain_end
  <2>2. QED
    BY <1>2, <2>1
<1>8. QED
  BY <1>3, <1>4, <1>5, <1>6, <1>7 DEF Next, ClientFrame, LoopStep, TaskOf

\* What is in the outbox and which streams are quiet give the second part of SynackFirst.
LEMMA SynackFromParts ==
    ASSUME TypeOK', OutboxOK', QuietOK', Ordered(wq')
    PROVE  SynackFirst'
<1>1. DOMAIN wq' = 1..Len(wq')
  BY DEF TypeOK
<1>2. ASSUME rl' = "write", outbox'[1].cmd = "synack"
      PROVE  st'[outbox'[1].o] = "syn" /\ \A i \in DOMAIN wq' : wq'[i].o # outbox'[1].o
  <2>1. outbox' = <<Frame("synack", cur')>> /\ cur' \in Obj /\ st'[cur'] = "syn"
    BY <1>2 DEF OutboxOK, Ctl, Frame
  <2>2. outbox'[1].o = cur'
    BY <2>1 DEF Frame
  <2>3. QED
    BY <1>1, <2>1, <2>2 DEF QuietOK
<1>3. wq' \in Seq(Frames)
  BY DEF TypeOK
<1>4. QED
  BY <1>2, <1>3, OrderedIs DEF SynackFirst

-----------------------------------------------------------------------------
LEMMA InitOK == Init => IInv
<1>1. SUFFICES ASSUME Init PROVE IInv
  OBVIOUS
<1>2. TypeOK
  <2>1. /\ rxq \in [Obj -> Seq({"data", "empty", "fin"})]
        /\ \A o \in Obj : Len(rxq[o]) <= RxCap
    BY <1>1, CapAssumption DEF Init
  <2>2. lockq \in [Obj -> Seq({"up", "dn"})]
    BY <1>1 DEF Init
  <2>3. wq \in Seq(Frames) /\ Len(wq) <= WriteCap /\ outbox \in Seq(Frames)
    BY <1>1, CapAssumption DEF Init
  <2>4. QED
    BY <1>1, <2>1, <2>2, <2>3 DEF Init, TypeOK
<1>3. TableOK /\ DeliverOK /\ OutboxOK /\ QuietOK
  BY <1>1, NoObjIsNone DEF Init, TableOK, DeliverOK, OutboxOK, QuietOK
<1>4. FinIsLast
  BY <1>1 DEF Init, FinIsLast
<1>5. SynackFirst
  BY <1>1 DEF Init, SynackFirst
<1>6. QED
  BY <1>2, <1>3, <1>4, <1>5 DEF IInv

LEMMA Inductive == IInv /\ [Next]_vars => IInv'
<1>1. SUFFICES ASSUME IInv, [Next]_vars PROVE IInv'
  OBVIOUS
<1>2. TypeOK'
  BY <1>1, TypeStep
<1>3. CASE Next
  <2>1. TableOK' /\ DeliverOK' /\ FinIsLast' /\ OutboxOK' /\ QuietOK' /\ Ordered(wq')
    BY <1>1, <1>2, <1>3, QueueStep, OutboxStep, ChannelStep
  <2>2. SynackFirst'
    BY <1>2, <2>1, SynackFromParts
  <2>3. QED
    BY <1>2, <2>1, <2>2 DEF IInv
<1>4. CASE UNCHANGED vars
  BY <1>1, <1>2, <1>4 DEF vars, IInv, TableOK, DeliverOK, OutboxOK, QuietOK, FinIsLast, SynackFirst
<1>5. QED
  BY <1>1, <1>3, <1>4

LEMMA Invariance == Spec => []IInv
<1>1. Init => IInv
  BY InitOK
<1>2. IInv /\ [Next]_vars => IInv'
  BY Inductive
<1>3. QED
  BY <1>1, <1>2, PTL DEF Spec

\* The session's state keeps its types, and the writer channel and the streams' channels
\* their capacity.
THEOREM TypeCorrect == Spec => []TypeOK
<1>1. IInv => TypeOK
  BY DEF IInv
<1>2. QED
  BY <1>1, Invariance, PTL

\* Nothing follows the FIN in a stream's channel, however ids are reused and whenever the
\* session ends.
THEOREM FinComesLast == Spec => []FinIsLast
<1>1. IInv => FinIsLast
  BY DEF IInv
<1>2. QED
  BY <1>1, Invariance, PTL

\* A stream's SYNACK is in the writer channel before anything its handler sends.
THEOREM SynackComesFirst == Spec => []SynackFirst
<1>1. IInv => SynackFirst
  BY DEF IInv
<1>2. QED
  BY <1>1, Invariance, PTL
=============================================================================
