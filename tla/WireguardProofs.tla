-------------------------- MODULE WireguardProofs --------------------------
(***************************************************************************)
(* Proofs about the WireGuard exit node: its types, FlowsOwnSockets and    *)
(* AnswersReachTheAsker hold for any peers, clients and destinations, any  *)
(* traffic, any number of sockets and relays and any channel capacities,   *)
(* and no peer but the first is ever served.                               *)
(***************************************************************************)
EXTENDS Wireguard, TLAPS, SequenceTheorems, WellFoundedInduction

Sock == [state : TcpStates \cup {"free", "bound"}, dst : Dst \cup {NoClient},
         remote : Client \cup {NoClient}, rx : Seq(Client)]
Flow == [handle : Slot, relay : Relay \cup {NoRelay}, idle : BOOLEAN]

\* An address no peer is known at counts as the first peer's, so no other peer ever gets
\* an endpoint, and no packet ever reaches another peer's stack.
OnlyFirstPeer == \A p \in Peer \ {First} : endpoint[p] = NoAddr /\ stack_rx[p] = <<>>

\* The receive loop only ever talks to the first peer's stack.
ServerOK ==
    /\ todo \subseteq Datagram
    /\ endpoint \in [Peer -> Addr \cup {NoAddr}]
    /\ rl \in {"recv", "send"}
    /\ held \in [peer : {First}, pkt : Packet \cup {NoKey}]
    /\ rl = "send" => held.pkt \in Packet
    /\ stack_rx \in [Peer -> Seq(Packet)]
    /\ \A p \in Peer : Len(stack_rx[p]) <= StackCap
    /\ OnlyFirstPeer

\* A connected TCP socket knows its client.
Connected(s) == s.state \in {"syn_received", "established", "close_wait"} => s.remote \in Client

SocksOK(socks) == socks \in [Slot -> Sock] /\ \A h \in Slot : Connected(socks[h])

\* Every flow has a socket of its own, of its protocol and for its destination.
Own(fl, socks) ==
    \A k \in FlowKey : fl[k] # NoFlow =>
        /\ socks[fl[k].handle].dst = k.dst
        /\ socks[fl[k].handle].state \in IF k.proto = "tcp" THEN TcpStates ELSE {"bound"}
        /\ \A j \in FlowKey : fl[j] # NoFlow /\ fl[j].handle = fl[k].handle => j = k

ActorOK ==
    /\ actor \in {"recv", "drain", "tick", "panicked"}
    /\ SocksOK(sockets)
    /\ flows \in [FlowKey -> Flow \cup {NoFlow}]
    /\ Own(flows, sockets)

\* A relay that reads its remote, or will, knows its client; one that awaits an answer or
\* has one knows who asked; one that has not been started does nothing.
RelayOK ==
    /\ relay \in [Relay -> {"none", "dial", "up", "ask", "reply", "ended"}]
    /\ flowOf \in [Relay -> [key : FlowKey \cup {NoKey}, handle : 0..MaxSock]]
    /\ client \in [Relay -> Client \cup {NoClient}] /\ asker \in [Relay -> Client \cup {NoClient}]
    /\ reads \in [Relay -> BOOLEAN] /\ fed \in [Relay -> 0..MaxData]
    /\ out \in [Relay -> Seq(Client)] /\ \A r \in Relay : Len(out[r]) <= OutCap
    /\ \A r \in Relay :
         /\ relay[r] = "dial" \/ reads[r] => client[r] \in Client
         /\ relay[r] \in {"ask", "reply"} => asker[r] \in Client
         /\ relay[r] = "none" => ~reads[r]
         /\ relay[r] # "none" => flowOf[r].handle \in Slot

\* Data and answers on their way to the actor come from relays that know their client.
Sound(m) ==
    /\ m.type = "tcp_data" => relay[m.relay] # "none" /\ client[m.relay] \in Client
    /\ m.type = "udp_reply" => m.client \in Client

ChannelOK ==
    /\ actor_rx \in Seq(Msg) /\ Len(actor_rx) <= ActorCap
    /\ \A i \in 1..Len(actor_rx) : Sound(actor_rx[i])

GotOK == got \subseteq [from : Client, to : Client, relay : Relay]

IInv == ServerOK /\ ActorOK /\ RelayOK /\ ChannelOK /\ GotOK

USE DEF serverVars, actorVars, relayVars

-----------------------------------------------------------------------------
(* Sequences, messages and sockets                                          *)

LEMMA TailFacts ==
    ASSUME NEW S, NEW q \in Seq(S), q # <<>>
    PROVE  /\ Head(q) \in S /\ Head(q) = q[1]
           /\ Tail(q) \in Seq(S) /\ Len(q) > 0 /\ Len(Tail(q)) = Len(q) - 1
           /\ \A i \in 1..Len(Tail(q)) : Tail(q)[i] = q[i + 1]
  BY HeadTailProperties

LEMMA AppendFacts ==
    ASSUME NEW S, NEW q \in Seq(S), NEW e \in S
    PROVE  /\ Append(q, e) \in Seq(S) /\ Len(Append(q, e)) = Len(q) + 1
           /\ \A i \in 1..Len(q) : Append(q, e)[i] = q[i]
           /\ Append(q, e)[Len(q) + 1] = e
  BY AppendProperties

\* What the type of a message says about it.
LEMMA MsgFacts ==
    ASSUME NEW m \in Msg
    PROVE  /\ m.type \in {"inbound", "tcp_data", "udp_reply", "tick"}
           /\ m.type = "inbound" => m.pkt \in Packet
           /\ m.type \in {"tcp_data", "udp_reply"} => m.relay \in Relay
  BY DEF Msg

\* A non-empty set of naturals has a lowest member.
LEMMA LowestIn ==
    ASSUME NEW H, H \subseteq Nat, H # {}
    PROVE  Lowest(H) \in H
<1>1. \E x \in H : \A y \in H : ~ (<<y, x>> \in OpToRel(<, Nat))
  BY NatLessThanWellFounded, WFMin
<1>2. PICK x \in H : \A y \in H : ~ (<<y, x>> \in OpToRel(<, Nat))
  BY <1>1
<1>3. \A y \in H : ~ (y < x)
  BY <1>2 DEF OpToRel
<1>4. \A y \in H : x <= y
  BY <1>3
<1>5. QED
  BY <1>4 DEF Lowest

LEMMA NoFlowIsNone == NoFlow \notin Flow
  BY WgAssumption DEF NoFlow, Flow, Slot

\* What a packet leaves of a socket: its protocol and its destination.
Same(s, t) ==
    /\ t.dst = s.dst
    /\ s.state \in TcpStates => t.state \in TcpStates
    /\ s.state = "bound" => t.state = "bound"

LEMMA TakenFacts ==
    ASSUME NEW s \in Sock, Connected(s), NEW pkt \in Packet, Accepts(s, pkt)
    PROVE  Taken(s, pkt) \in Sock /\ Connected(Taken(s, pkt)) /\ Same(s, Taken(s, pkt))
<1>1. pkt.key.src \in Client /\ pkt.key.proto \in {"tcp", "udp"}
  BY DEF Packet, FlowKey
<1>2. Append(s.rx, pkt.key.src) \in Seq(Client)
  BY <1>1, AppendFacts DEF Sock
<1>3. CASE pkt.key.proto = "udp"
  <2>1. s.state = "bound" /\ pkt.kind = "data"
    BY <1>3 DEF Accepts, Packet
  <2>2. Taken(s, pkt) = [s EXCEPT !.rx = Append(s.rx, pkt.key.src)]
    BY <1>3, <2>1 DEF Taken
  <2>3. QED
    BY <1>2, <2>1, <2>2 DEF Sock, Connected, Same, TcpStates
<1>4. CASE pkt.key.proto = "tcp"
  <2>1. s.state \in {"listen", "syn_received", "established", "close_wait"}
        /\ (s.state # "listen" => s.remote \in Client)
        /\ (s.state = "listen" => pkt.kind = "syn")
    BY <1>4 DEF Accepts, Connected
  <2>2. \/ Taken(s, pkt) = [s EXCEPT !.remote = pkt.key.src, !.state = "syn_received"]
        \/ Taken(s, pkt) = [s EXCEPT !.state = "established", !.rx = Append(s.rx, pkt.key.src)]
           /\ s.state # "listen"
        \/ Taken(s, pkt) = [s EXCEPT !.state = "close_wait"] /\ s.state # "listen"
        \/ Taken(s, pkt) = [s EXCEPT !.state = "listen", !.remote = NoClient]
        \/ Taken(s, pkt) = [s EXCEPT !.state = "closed"]
        \/ Taken(s, pkt) = s
    BY <1>4 DEF Taken
  <2>3. QED
    BY <1>1, <1>2, <2>1, <2>2 DEF Sock, Connected, Same, TcpStates
<1>5. QED
  BY <1>1, <1>3, <1>4

LEMMA InjectedFacts ==
    ASSUME NEW socks, SocksOK(socks), NEW pkt \in Packet
    PROVE  SocksOK(Injected(socks, pkt)) /\ \A h \in Slot : Same(socks[h], Injected(socks, pkt)[h])
<1> DEFINE A == {h \in Slot : Accepts(socks[h], pkt)}
<1>1. CASE A = {}
  BY <1>1 DEF Injected, Same
<1>2. CASE A # {}
  <2>1. Lowest(A) \in A
    BY <1>2, LowestIn, WgAssumption DEF Slot
  <2>2. Injected(socks, pkt) = [socks EXCEPT ![Lowest(A)] = Taken(socks[Lowest(A)], pkt)]
    BY <1>2 DEF Injected
  <2>3. /\ Taken(socks[Lowest(A)], pkt) \in Sock /\ Connected(Taken(socks[Lowest(A)], pkt))
        /\ Same(socks[Lowest(A)], Taken(socks[Lowest(A)], pkt))
    BY <2>1, TakenFacts DEF SocksOK
  <2> HIDE DEF A
  <2>4. \A h \in Slot : Same(socks[h], socks[h])
    BY DEF Same
  <2>5. Lowest(A) \in Slot
    BY <2>1 DEF A
  <2>6. QED
    BY <2>2, <2>3, <2>4, <2>5 DEF SocksOK
<1>3. QED
  BY <1>1, <1>2

-----------------------------------------------------------------------------
(* The receive loop                                                         *)

\* An address is taken for the first peer's, whoever sent from it.
LEMMA FoundIsFirst ==
    ASSUME ServerOK, NEW a \in Addr
    PROVE  find_peer(a) = {First}
  BY WgAssumption DEF ServerOK, OnlyFirstPeer, find_peer

LEMMA ServerStep ==
    ASSUME IInv, Next
    PROVE  ServerOK'
<1> USE WgAssumption
<1>1. ASSUME NEW d \in todo, recv_from(d) PROVE ServerOK'
  <2>1. d \in Datagram /\ d.from \in Addr /\ d.body \in Packet \cup {Handshake}
    BY <1>1 DEF IInv, ServerOK, Datagram
  <2>2. /\ todo' \subseteq Datagram /\ stack_rx' = stack_rx
        /\ endpoint' = [endpoint EXCEPT ![First] = d.from]
        /\ \/ rl' = "send" /\ held' = [peer |-> First, pkt |-> d.body] /\ d.body # Handshake
           \/ rl' = rl /\ held' = held
    <3>1. find_peer(d.from) = {First}
      BY <2>1, FoundIsFirst DEF IInv
    <3>2. PICK p \in find_peer(d.from) :
             /\ endpoint' = [endpoint EXCEPT ![p] = d.from]
             /\ IF d.by = p /\ d.body # Handshake /\ d.allowed
                THEN rl' = "send" /\ held' = [peer |-> p, pkt |-> d.body]
                ELSE UNCHANGED <<rl, held>>
      BY <1>1 DEF recv_from
    <3>3. p = First
      BY <3>1
    <3>4. todo' \subseteq Datagram /\ stack_rx' = stack_rx
      BY <1>1 DEF IInv, ServerOK, recv_from
    <3>5. CASE d.by = p /\ d.body # Handshake /\ d.allowed
      BY <3>2, <3>3, <3>4, <3>5
    <3>6. CASE ~(d.by = p /\ d.body # Handshake /\ d.allowed)
      BY <3>2, <3>3, <3>4, <3>6
    <3>7. QED
      BY <3>5, <3>6
  <2>3. endpoint' \in [Peer -> Addr \cup {NoAddr}] /\ \A p \in Peer \ {First} : endpoint'[p] = endpoint[p]
    BY <2>1, <2>2 DEF IInv, ServerOK
  <2>4. /\ rl' \in {"recv", "send"} /\ held' \in [peer : {First}, pkt : Packet \cup {NoKey}]
        /\ rl' = "send" => held'.pkt \in Packet
    BY <2>1, <2>2 DEF IInv, ServerOK
  <2>5. QED
    BY <2>2, <2>3, <2>4 DEF IInv, ServerOK, OnlyFirstPeer
<1>2. CASE stack_send
  <2>1. held.peer = First /\ held.pkt \in Packet /\ stack_rx[First] \in Seq(Packet)
    BY <1>2 DEF IInv, ServerOK, stack_send
  <2>2. /\ UNCHANGED <<todo, endpoint>> /\ rl' = "recv" /\ held' = [peer |-> First, pkt |-> NoKey]
        /\ \/ Len(stack_rx[First]) < StackCap /\ stack_rx' = [stack_rx EXCEPT ![First] = Append(stack_rx[First], held.pkt)]
           \/ stack_rx' = stack_rx
    BY <1>2, <2>1 DEF stack_send
  <2>3. Append(stack_rx[First], held.pkt) \in Seq(Packet)
        /\ Len(Append(stack_rx[First], held.pkt)) = Len(stack_rx[First]) + 1
    BY <2>1, AppendFacts
  <2>4. /\ stack_rx' \in [Peer -> Seq(Packet)] /\ \A p \in Peer : Len(stack_rx'[p]) <= StackCap
        /\ \A p \in Peer \ {First} : stack_rx'[p] = stack_rx[p]
    <3>1. /\ stack_rx \in [Peer -> Seq(Packet)] /\ \A p \in Peer : Len(stack_rx[p]) <= StackCap
          /\ Len(stack_rx[First]) \in Nat
      BY <2>1 DEF IInv, ServerOK
    <3>2. CASE stack_rx' = stack_rx
      BY <3>1, <3>2
    <3>3. CASE stack_rx' # stack_rx
      <4>1. PICK q \in Seq(Packet) : Len(q) <= StackCap /\ stack_rx' = [stack_rx EXCEPT ![First] = q]
        <5>1. Len(stack_rx[First]) < StackCap /\ stack_rx' = [stack_rx EXCEPT ![First] = Append(stack_rx[First], held.pkt)]
          BY <2>2, <3>3
        <5>2. Len(Append(stack_rx[First], held.pkt)) <= StackCap
          BY <2>3, <3>1, <5>1
        <5>3. QED
          BY <2>3, <5>1, <5>2
      <4>2. QED
        BY <3>1, <4>1
    <3>4. QED
      BY <3>2, <3>3
  <2>5. QED
    BY <2>2, <2>4 DEF IInv, ServerOK, OnlyFirstPeer
<1>3. CASE forward
  <2>1. stack_rx[First] \in Seq(Packet) /\ stack_rx[First] # <<>> /\ Len(stack_rx[First]) <= StackCap
    BY <1>3 DEF IInv, ServerOK, forward
  <2>2. UNCHANGED serverVars /\ stack_rx' = [stack_rx EXCEPT ![First] = Tail(stack_rx[First])]
    BY <1>3 DEF forward
  <2>3. Tail(stack_rx[First]) \in Seq(Packet) /\ Len(Tail(stack_rx[First])) <= StackCap
    <3>1. Tail(stack_rx[First]) \in Seq(Packet) /\ Len(Tail(stack_rx[First])) = Len(stack_rx[First]) - 1
      BY <2>1, TailFacts
    <3>2. QED
      BY <2>1, <3>1
  <2>4. /\ stack_rx' \in [Peer -> Seq(Packet)] /\ \A p \in Peer : Len(stack_rx'[p]) <= StackCap
        /\ \A p \in Peer \ {First} : stack_rx'[p] = stack_rx[p]
    BY <2>1, <2>2, <2>3 DEF IInv, ServerOK
  <2>5. QED
    BY <2>2, <2>4 DEF IInv, ServerOK, OnlyFirstPeer
<1>4. CASE UNCHANGED <<serverVars, stack_rx>>
  BY <1>4 DEF IInv, ServerOK, OnlyFirstPeer
<1>5. CASE ActorStep \/ ticker \/ \E k \in FlowKey : time_passes(k)
  BY <1>4, <1>5 DEF ActorStep, ticker, time_passes, inbound, drained, tick, evict_flows, tcp_data, udp_reply, drain
<1>6. ASSUME NEW r \in Relay, RelayStep(r) PROVE ServerOK'
  BY <1>4, <1>6 DEF RelayStep, connect, fwd, fwd_ends, bwd, bwd_ends, UdpStep, udp_sends, udp_timeout,
                    udp_ends, udp_answer, udp_passes
<1>7. QED
  BY <1>1, <1>2, <1>3, <1>5, <1>6 DEF Next

-----------------------------------------------------------------------------
(* Flows and sockets                                                        *)

\* An entry without its other fields: ownership only looks at the handles.
SameHandles(fl, gl) ==
    \A k \in FlowKey : (gl[k] # NoFlow <=> fl[k] # NoFlow) /\ (fl[k] # NoFlow => gl[k].handle = fl[k].handle)

LEMMA OwnKept ==
    ASSUME NEW fl, NEW gl, NEW socks, NEW tocks, SameHandles(fl, gl), Own(fl, socks),
           fl \in [FlowKey -> Flow \cup {NoFlow}],
           \A h \in Slot : Same(socks[h], tocks[h])
    PROVE  Own(gl, tocks)
<1>1. SUFFICES ASSUME NEW k \in FlowKey, gl[k] # NoFlow
               PROVE  /\ tocks[gl[k].handle].dst = k.dst
                      /\ tocks[gl[k].handle].state \in IF k.proto = "tcp" THEN TcpStates ELSE {"bound"}
                      /\ \A j \in FlowKey : gl[j] # NoFlow /\ gl[j].handle = gl[k].handle => j = k
  BY DEF Own
<1>2. fl[k] # NoFlow /\ gl[k].handle = fl[k].handle /\ fl[k].handle \in Slot
  BY <1>1 DEF SameHandles, Flow
<1>3. /\ socks[fl[k].handle].dst = k.dst
      /\ socks[fl[k].handle].state \in IF k.proto = "tcp" THEN TcpStates ELSE {"bound"}
      /\ \A j \in FlowKey : fl[j] # NoFlow /\ fl[j].handle = fl[k].handle => j = k
  BY <1>2 DEF Own
<1>4. Same(socks[fl[k].handle], tocks[fl[k].handle])
  BY <1>2
<1>5. QED
  BY <1>2, <1>3, <1>4 DEF Same, SameHandles

LEMMA NewSockFacts ==
    ASSUME NEW k \in FlowKey
    PROVE  /\ NewSock(k) \in Sock /\ Connected(NewSock(k)) /\ NewSock(k).dst = k.dst
           /\ NewSock(k).state \in IF k.proto = "tcp" THEN TcpStates ELSE {"bound"}
<1>1. FreeSock \in Sock
  BY DEF FreeSock, Sock
<1>2. k.dst \in Dst
  BY DEF FlowKey
<1>3. CASE k.proto = "tcp"
  <2>1. NewSock(k) = [FreeSock EXCEPT !.state = "listen", !.dst = k.dst]
    BY <1>3 DEF NewSock
  <2>2. QED
    BY <1>1, <1>2, <1>3, <2>1 DEF Sock, Connected, TcpStates
<1>4. CASE k.proto # "tcp"
  <2>1. NewSock(k) = [FreeSock EXCEPT !.state = "bound", !.dst = k.dst]
    BY <1>4 DEF NewSock
  <2>2. QED
    BY <1>1, <1>2, <1>4, <2>1 DEF Sock, Connected, TcpStates
<1>5. QED
  BY <1>3, <1>4

\* ensure_tcp and ensure_udp take a slot that no flow has.
LEMMA OwnNew ==
    ASSUME ActorOK, NEW k \in FlowKey, flows[k] = NoFlow, FreeSlots # {},
           NEW fl, fl = [flows EXCEPT ![k] = [handle |-> Lowest(FreeSlots), relay |-> NoRelay, idle |-> FALSE]]
    PROVE  /\ fl \in [FlowKey -> Flow \cup {NoFlow}] /\ SocksOK(Ensured(k)) /\ Own(fl, Ensured(k))
           /\ Lowest(FreeSlots) \in Slot /\ fl[k] # NoFlow
<1>1. Lowest(FreeSlots) \in FreeSlots
  BY LowestIn, WgAssumption DEF FreeSlots, Slot
<1> DEFINE h == Lowest(FreeSlots)
<1>2. h \in Slot /\ sockets[h].state = "free"
  BY <1>1 DEF FreeSlots
<1>3. Ensured(k) = [sockets EXCEPT ![h] = NewSock(k)]
  BY DEF Ensured
<1> HIDE DEF h
<1>4. /\ NewSock(k) \in Sock /\ Connected(NewSock(k)) /\ NewSock(k).dst = k.dst
      /\ NewSock(k).state \in IF k.proto = "tcp" THEN TcpStates ELSE {"bound"}
  BY NewSockFacts
<1>5. SocksOK(Ensured(k))
  BY <1>2, <1>3, <1>4 DEF ActorOK, SocksOK
<1>6. fl = [flows EXCEPT ![k] = [handle |-> h, relay |-> NoRelay, idle |-> FALSE]]
  BY DEF h
<1>7. /\ fl \in [FlowKey -> Flow \cup {NoFlow}] /\ fl[k].handle = h /\ fl[k] # NoFlow
      /\ \A j \in FlowKey \ {k} : fl[j] = flows[j]
  <2>1. PICK e \in Flow : fl = [flows EXCEPT ![k] = e] /\ e.handle = h
    <3>1. [handle |-> h, relay |-> NoRelay, idle |-> FALSE] \in Flow
      BY <1>2 DEF Flow
    <3>2. [handle |-> h, relay |-> NoRelay, idle |-> FALSE].handle = h
      OBVIOUS
    <3>3. QED
      BY <1>6, <3>1, <3>2
  <2>2. fl[k] = e /\ e # NoFlow
    BY <2>1, NoFlowIsNone DEF ActorOK
  <2>3. QED
    BY <2>1, <2>2 DEF ActorOK
<1>8. ASSUME NEW j \in FlowKey, flows[j] # NoFlow PROVE flows[j].handle \in Slot \ {h}
  <2>1. flows[j].handle \in Slot
    BY <1>8 DEF ActorOK, Flow
  <2>2. sockets[flows[j].handle].state # "free"
    BY <1>8 DEF ActorOK, Own, TcpStates
  <2>3. QED
    BY <1>2, <2>1, <2>2
<1>9. Own(fl, Ensured(k))
  <2>1. SUFFICES ASSUME NEW j \in FlowKey, fl[j] # NoFlow
                 PROVE  /\ Ensured(k)[fl[j].handle].dst = j.dst
                        /\ Ensured(k)[fl[j].handle].state \in IF j.proto = "tcp" THEN TcpStates ELSE {"bound"}
                        /\ \A i \in FlowKey : fl[i] # NoFlow /\ fl[i].handle = fl[j].handle => i = j
    BY DEF Own
  <2>2. sockets \in [Slot -> Sock]
    BY DEF ActorOK, SocksOK
  <2>3. CASE j = k
    BY <1>2, <1>3, <1>4, <1>7, <1>8, <2>2, <2>3
  <2>4. CASE j # k
    <3>1. flows[j] # NoFlow /\ fl[j] = flows[j] /\ flows[j].handle \in Slot \ {h}
      BY <1>7, <1>8, <2>1, <2>4
    <3>2. Ensured(k)[fl[j].handle] = sockets[flows[j].handle]
      BY <1>2, <1>3, <2>2, <3>1
    <3>3. \A i \in FlowKey : fl[i] # NoFlow /\ fl[i].handle = fl[j].handle => i = j
      BY <1>7, <3>1 DEF ActorOK, Own
    <3>4. QED
      BY <3>1, <3>2, <3>3 DEF ActorOK, Own
  <2>5. QED
    BY <2>3, <2>4
<1>10. QED
  BY <1>2, <1>5, <1>7, <1>9 DEF h

\* A change of an entry that leaves its handle alone.
LEMMA EntryChanged ==
    ASSUME NEW fl \in [FlowKey -> Flow \cup {NoFlow}], NEW k \in FlowKey, fl[k] # NoFlow,
           NEW e \in Flow, e.handle = fl[k].handle
    PROVE  [fl EXCEPT ![k] = e] \in [FlowKey -> Flow \cup {NoFlow}] /\ SameHandles(fl, [fl EXCEPT ![k] = e])
  BY NoFlowIsNone DEF SameHandles

LEMMA EntryFacts ==
    ASSUME NEW fl \in [FlowKey -> Flow \cup {NoFlow}], NEW k \in FlowKey, fl[k] # NoFlow
    PROVE  /\ fl[k] \in Flow /\ fl[k].handle \in Slot
           /\ \A r \in Relay : /\ [fl[k] EXCEPT !.relay = r] \in Flow
                              /\ [fl[k] EXCEPT !.relay = r].handle = fl[k].handle
           /\ \A b \in BOOLEAN : /\ [fl[k] EXCEPT !.idle = b] \in Flow
                                /\ [fl[k] EXCEPT !.idle = b].handle = fl[k].handle
  BY DEF Flow

LEMMA RelaySet ==
    ASSUME NEW fl \in [FlowKey -> Flow \cup {NoFlow}], NEW k \in FlowKey, fl[k] # NoFlow, NEW r \in Relay
    PROVE  /\ [fl EXCEPT ![k].relay = r] \in [FlowKey -> Flow \cup {NoFlow}]
           /\ SameHandles(fl, [fl EXCEPT ![k].relay = r])
<1> DEFINE e == [fl[k] EXCEPT !.relay = r]
<1>1. e \in Flow /\ e.handle = fl[k].handle
  BY EntryFacts
<1>2. [fl EXCEPT ![k].relay = r] = [fl EXCEPT ![k] = e]
  OBVIOUS
<1> HIDE DEF e
<1>3. [fl EXCEPT ![k] = e] \in [FlowKey -> Flow \cup {NoFlow}] /\ SameHandles(fl, [fl EXCEPT ![k] = e])
  BY <1>1, EntryChanged
<1>4. QED
  BY <1>2, <1>3

LEMMA SameSocks == \A s : Same(s, s)
  BY DEF Same

LEMMA FreshRelayFacts ==
    ASSUME \E r \in Relay : relay[r] = "none"
    PROVE  FreshRelay \in Relay /\ relay[FreshRelay] = "none"
<1> DEFINE R == {r \in Relay : relay[r] = "none"}
<1>1. R \subseteq Nat /\ R # {}
  BY WgAssumption DEF Relay
<1>2. Lowest(R) \in R
  BY <1>1, LowestIn
<1>3. QED
  BY <1>2 DEF FreshRelay

\* What an inbound packet does to sockets, flows and relays.
LEMMA InboundFacts ==
    ASSUME IInv, inbound
    PROVE  /\ SocksOK(sockets') /\ flows' \in [FlowKey -> Flow \cup {NoFlow}] /\ Own(flows', sockets')
           /\ \/ UNCHANGED <<relay, flowOf, client>>
              \/ \E r \in Relay, k \in FlowKey, h \in Slot, c \in Client \cup {NoClient} :
                    relay[r] = "none" /\ (k.proto = "tcp" => c \in Client) /\ Spawned(r, k, h, c)
<1> DEFINE pkt == Head(actor_rx).pkt
           k == pkt.key
           new == flows[k] = NoFlow
           h == IF new THEN Lowest(FreeSlots) ELSE flows[k].handle
           socks == Injected(Ensured(k), pkt)
           fl == IF new THEN [flows EXCEPT ![k] = [handle |-> h, relay |-> NoRelay, idle |-> FALSE]] ELSE flows
           S == Starts(socks, fl)
<1>1. pkt \in Packet /\ k \in FlowKey
  <2>1. Head(actor_rx) \in Msg /\ Head(actor_rx).type = "inbound"
    BY TailFacts DEF IInv, ChannelOK, inbound
  <2>2. QED
    BY <2>1, MsgFacts DEF Packet
<1>2. new => FreeSlots # {}
  BY DEF inbound
<1>3. /\ fl \in [FlowKey -> Flow \cup {NoFlow}] /\ SocksOK(Ensured(k)) /\ Own(fl, Ensured(k))
      /\ h \in Slot /\ fl[k] # NoFlow
  <2>1. CASE new
    <3>1. fl = [flows EXCEPT ![k] = [handle |-> Lowest(FreeSlots), relay |-> NoRelay, idle |-> FALSE]]
          /\ h = Lowest(FreeSlots)
      BY <2>1
    <3> HIDE DEF fl, h, k
    <3>2. QED
      BY <1>1, <1>2, <2>1, <3>1, OwnNew DEF IInv
  <2>2. CASE ~new
    <3>1. fl = flows /\ Ensured(k) = sockets /\ h = flows[k].handle
      BY <2>2 DEF Ensured
    <3> HIDE DEF fl, h, k
    <3>2. QED
      BY <1>1, <2>2, <3>1, EntryFacts DEF IInv, ActorOK
  <2>3. QED
    BY <2>1, <2>2
<1>4. SocksOK(socks) /\ Own(fl, socks) /\ sockets' = socks
  <2>1. SocksOK(socks) /\ \A g \in Slot : Same(Ensured(k)[g], socks[g])
    BY <1>1, <1>3, InjectedFacts
  <2>2. SameHandles(fl, fl)
    BY DEF SameHandles
  <2>3. sockets' = socks
    BY DEF inbound
  <2> HIDE DEF fl, socks, k
  <2>4. QED
    BY <1>3, <2>1, <2>2, <2>3, OwnKept
<1>5. ASSUME NEW j \in FlowKey, fl[j] # NoFlow, NEW r \in Relay, flows' = [fl EXCEPT ![j].relay = r]
      PROVE  flows' \in [FlowKey -> Flow \cup {NoFlow}] /\ Own(flows', sockets')
  <2>1. fl \in [FlowKey -> Flow \cup {NoFlow}] /\ Own(fl, sockets')
    BY <1>3, <1>4
  <2> HIDE DEF fl, socks
  <2>2. [fl EXCEPT ![j].relay = r] \in [FlowKey -> Flow \cup {NoFlow}]
        /\ SameHandles(fl, [fl EXCEPT ![j].relay = r])
    BY <1>5, <2>1, RelaySet
  <2>3. QED
    BY <1>5, <2>1, <2>2, OwnKept, SameSocks
<1>6. CASE new /\ k.proto = "udp"
  <2>1. FreshRelay \in Relay /\ relay[FreshRelay] = "none"
    BY <1>6, FreshRelayFacts DEF inbound
  <2>2. flows' = [fl EXCEPT ![k].relay = FreshRelay] /\ Spawned(FreshRelay, k, h, NoClient)
    BY <1>6 DEF inbound
  <2> HIDE DEF fl, h, socks, new, k
  <2>3. QED
    BY <1>1, <1>3, <1>4, <1>5, <1>6, <2>1, <2>2
<1>7. CASE ~(new /\ k.proto = "udp") /\ S # {}
  <2>1. FreshRelay \in Relay /\ relay[FreshRelay] = "none"
    BY <1>7, FreshRelayFacts DEF inbound
  <2>2. PICK s \in S : /\ flows' = [fl EXCEPT ![s].relay = FreshRelay]
                       /\ Spawned(FreshRelay, s, fl[s].handle, socks[fl[s].handle].remote)
    BY <1>7 DEF inbound
  <2>3. s \in FlowKey /\ fl[s] # NoFlow /\ socks[fl[s].handle].state = "established"
    BY <2>2 DEF Starts
  <2> HIDE DEF fl, socks
  <2>4. fl[s].handle \in Slot
    BY <1>3, <2>3, EntryFacts
  <2>5. socks[fl[s].handle].remote \in Client
    BY <1>4, <2>3, <2>4 DEF SocksOK, Connected
  <2>6. QED
    BY <1>4, <1>5, <2>1, <2>2, <2>3, <2>4, <2>5
<1>8. CASE ~(new /\ k.proto = "udp") /\ S = {}
  <2>1. flows' = fl /\ UNCHANGED <<relay, flowOf, client>>
    BY <1>8 DEF inbound
  <2> HIDE DEF fl, socks
  <2>2. QED
    BY <1>3, <1>4, <2>1
<1>9. QED
  BY <1>6, <1>7, <1>8

LEMMA ActorStepOK ==
    ASSUME IInv, Next
    PROVE  ActorOK'
<1>1. CASE inbound
  <2>1. actor' = "drain"
    BY <1>1 DEF inbound
  <2>2. QED
    BY <1>1, <2>1, InboundFacts DEF ActorOK
<1>2. ASSUME NEW k \in FlowKey, drain(k) PROVE ActorOK'
  <2> DEFINE g == flows[k].handle
             s == sockets[g]
  <2>1. flows[k] # NoFlow /\ s.rx # <<>> /\ actor' = actor
    BY <1>2 DEF drain, Drainable
  <2>2. g \in Slot /\ flows[k] \in Flow /\ s \in Sock /\ Connected(s)
    BY <2>1, EntryFacts DEF IInv, ActorOK, SocksOK
  <2>3. PICK q \in Seq(Client) : sockets' = [sockets EXCEPT ![g] = [s EXCEPT !.rx = q]]
    <3>1. Tail(s.rx) \in Seq(Client) /\ <<>> \in Seq(Client)
      BY <2>1, <2>2, TailFacts DEF Sock
    <3>2. sockets' = [sockets EXCEPT ![g] = [s EXCEPT !.rx = IF k.proto = "udp" THEN Tail(s.rx) ELSE <<>>]]
      BY <1>2 DEF drain
    <3>3. QED
      BY <3>1, <3>2
  <2>4. flows' = [flows EXCEPT ![k] = [flows[k] EXCEPT !.idle = FALSE]]
    BY <1>2 DEF drain
  <2>5. flows' \in [FlowKey -> Flow \cup {NoFlow}] /\ SameHandles(flows, flows')
    BY <2>1, <2>4, EntryFacts, EntryChanged DEF IInv, ActorOK
  <2> HIDE DEF g, s
  <2>6. [s EXCEPT !.rx = q] \in Sock /\ Connected([s EXCEPT !.rx = q]) /\ Same(s, [s EXCEPT !.rx = q])
    BY <2>2 DEF Sock, Connected, Same
  <2>7. SocksOK(sockets') /\ \A f \in Slot : Same(sockets[f], sockets'[f])
    BY <2>2, <2>3, <2>6, SameSocks DEF IInv, ActorOK, SocksOK, s
  <2>8. QED
    BY <2>1, <2>5, <2>7, OwnKept DEF IInv, ActorOK
<1>3. ASSUME NEW k \in FlowKey, time_passes(k) PROVE ActorOK'
  <2>1. flows[k] # NoFlow /\ UNCHANGED <<actor, sockets>>
    BY <1>3 DEF time_passes
  <2>2. flows' = [flows EXCEPT ![k] = [flows[k] EXCEPT !.idle = TRUE]]
    BY <1>3 DEF time_passes
  <2>3. flows' \in [FlowKey -> Flow \cup {NoFlow}] /\ SameHandles(flows, flows')
    BY <2>1, <2>2, EntryFacts, EntryChanged DEF IInv, ActorOK
  <2>4. QED
    BY <2>1, <2>3, OwnKept, SameSocks DEF IInv, ActorOK
<1>4. CASE evict_flows
  <2> DEFINE gone == {k \in FlowKey : flows[k] # NoFlow /\ flows[k].idle}
  <2>1. /\ flows' = [k \in FlowKey |-> IF k \in gone THEN NoFlow ELSE flows[k]]
        /\ sockets' = [h \in Slot |-> IF \E k \in gone : flows[k].handle = h THEN FreeSock ELSE sockets[h]]
        /\ actor' = "recv"
    BY <1>4 DEF evict_flows
  <2>2. \A j \in gone : j \in FlowKey /\ flows[j] # NoFlow
    OBVIOUS
  <2> HIDE DEF gone
  <2>3. flows' \in [FlowKey -> Flow \cup {NoFlow}]
    BY <2>1 DEF IInv, ActorOK
  <2>4. SocksOK(sockets')
    <3>1. FreeSock \in Sock /\ Connected(FreeSock)
      BY DEF FreeSock, Sock, Connected
    <3>2. \A h \in Slot : sockets'[h] = FreeSock \/ sockets'[h] = sockets[h]
      BY <2>1
    <3>3. sockets' \in [Slot -> Sock]
      BY <2>1, <3>1 DEF IInv, ActorOK, SocksOK
    <3>4. QED
      BY <3>1, <3>2, <3>3 DEF IInv, ActorOK, SocksOK
  <2>5. ASSUME NEW k \in FlowKey, flows'[k] # NoFlow
        PROVE  flows'[k] = flows[k] /\ flows[k] # NoFlow /\ sockets'[flows[k].handle] = sockets[flows[k].handle]
    <3>1. k \notin gone /\ flows'[k] = flows[k] /\ flows[k] # NoFlow
      BY <2>1, <2>5
    <3>2. flows[k].handle \in Slot
      BY <3>1, EntryFacts DEF IInv, ActorOK
    <3>3. ~ \E j \in gone : flows[j].handle = flows[k].handle
      BY <2>2, <3>1 DEF IInv, ActorOK, Own
    <3>4. QED
      BY <2>1, <3>1, <3>2, <3>3
  <2>6. Own(flows', sockets')
    BY <2>5 DEF IInv, ActorOK, Own
  <2>7. QED
    BY <2>1, <2>3, <2>4, <2>6 DEF ActorOK
<1>5. CASE /\ UNCHANGED <<sockets, flows>> /\ actor' \in {actor, "recv", "tick", "panicked"}
  BY <1>5 DEF IInv, ActorOK, SocksOK, Own
<1>6. CASE drained \/ tick \/ tcp_data \/ udp_reply \/ stack_send \/ forward \/ ticker \/ \E d \in todo : recv_from(d)
  BY <1>5, <1>6 DEF drained, tick, tcp_data, udp_reply, stack_send, forward, ticker, recv_from
<1>7. ASSUME NEW r \in Relay, RelayStep(r) PROVE ActorOK'
  BY <1>5, <1>7 DEF RelayStep, connect, fwd, fwd_ends, bwd, bwd_ends, UdpStep, udp_sends, udp_timeout,
                    udp_ends, udp_answer, udp_passes
<1>8. QED
  BY <1>1, <1>2, <1>3, <1>4, <1>6, <1>7 DEF Next, ActorStep

-----------------------------------------------------------------------------
(* Relays                                                                   *)

LEMMA RelayStepOK ==
    ASSUME IInv, Next
    PROVE  RelayOK'
<1> USE WgAssumption
<1>1. CASE inbound
  <2>1. UNCHANGED <<reads, out, asker, fed>>
    BY <1>1 DEF inbound
  <2>2. CASE UNCHANGED <<relay, flowOf, client>>
    BY <2>1, <2>2 DEF IInv, RelayOK
  <2>3. ASSUME NEW r \in Relay, NEW k \in FlowKey, NEW h \in Slot, NEW c \in Client \cup {NoClient},
               relay[r] = "none", k.proto = "tcp" => c \in Client, Spawned(r, k, h, c)
        PROVE  RelayOK'
    <3>1. /\ relay' \in [Relay -> {"none", "dial", "up", "ask", "reply", "ended"}]
          /\ relay'[r] \in {"dial", "up"} /\ (relay'[r] = "dial" => k.proto = "tcp")
          /\ \A q \in Relay \ {r} : relay'[q] = relay[q]
      BY <2>3 DEF IInv, RelayOK, Spawned
    <3>2. /\ flowOf' \in [Relay -> [key : FlowKey \cup {NoKey}, handle : 0..MaxSock]]
          /\ flowOf'[r].handle = h /\ \A q \in Relay \ {r} : flowOf'[q] = flowOf[q]
      <4>1. [key |-> k, handle |-> h] \in [key : FlowKey \cup {NoKey}, handle : 0..MaxSock]
        BY DEF Slot
      <4>2. QED
        BY <2>3, <4>1 DEF IInv, RelayOK, Spawned
    <3>3. client' \in [Relay -> Client \cup {NoClient}] /\ client'[r] = c
          /\ \A q \in Relay \ {r} : client'[q] = client[q]
      BY <2>3 DEF IInv, RelayOK, Spawned
    <3>4. \A q \in Relay :
            /\ relay'[q] = "dial" \/ reads'[q] => client'[q] \in Client
            /\ relay'[q] \in {"ask", "reply"} => asker'[q] \in Client
            /\ relay'[q] = "none" => ~reads'[q]
            /\ relay'[q] # "none" => flowOf'[q].handle \in Slot
      BY <2>1, <2>3, <3>1, <3>2, <3>3 DEF IInv, RelayOK
    <3>5. QED
      BY <2>1, <3>1, <3>2, <3>3, <3>4 DEF IInv, RelayOK
  <2>4. QED
    BY <1>1, <2>2, <2>3, InboundFacts
<1>2. ASSUME NEW k \in FlowKey, drain(k) PROVE RelayOK'
  <2> DEFINE r == flows[k].relay
             rx == sockets[flows[k].handle].rx
  <2>1. flows[k] # NoFlow /\ r # NoRelay /\ rx # <<>>
    BY <1>2 DEF drain, Drainable
  <2>2. r \in Relay /\ rx \in Seq(Client)
    BY <2>1, EntryFacts DEF IInv, ActorOK, SocksOK, Flow, Sock
  <2>3. /\ UNCHANGED <<relay, flowOf, client, reads, asker, fed>>
        /\ OutOpen(r) => Len(out[r]) < OutCap
        /\ out' = [out EXCEPT ![r] = IF OutOpen(r) THEN Append(out[r], Head(rx)) ELSE out[r]]
    BY <1>2 DEF drain
  <2>4. Head(rx) \in Client
    BY <2>1, <2>2, TailFacts
  <2> HIDE DEF r, rx
  <2>5. out[r] \in Seq(Client) /\ Len(out[r]) <= OutCap /\ Len(out[r]) \in Nat
    BY <2>2 DEF IInv, RelayOK
  <2>6. PICK q \in Seq(Client) : Len(q) <= OutCap /\ out' = [out EXCEPT ![r] = q]
    <3>1. CASE OutOpen(r)
      <4>1. Append(out[r], Head(rx)) \in Seq(Client) /\ Len(Append(out[r], Head(rx))) = Len(out[r]) + 1
        BY <2>4, <2>5, AppendFacts
      <4>2. Len(Append(out[r], Head(rx))) <= OutCap
        BY <2>3, <2>5, <3>1, <4>1
      <4>3. out' = [out EXCEPT ![r] = Append(out[r], Head(rx))]
        BY <2>3, <3>1
      <4>4. QED
        BY <4>1, <4>2, <4>3
    <3>2. CASE ~OutOpen(r)
      BY <2>3, <2>5, <3>2
    <3>3. QED
      BY <3>1, <3>2
  <2>7. out' \in [Relay -> Seq(Client)] /\ \A p \in Relay : Len(out'[p]) <= OutCap
    BY <2>2, <2>6 DEF IInv, RelayOK
  <2>8. QED
    BY <2>3, <2>7 DEF IInv, RelayOK
<1>3. CASE UNCHANGED relayVars
  BY <1>3 DEF IInv, RelayOK
<1>4. CASE \/ drained \/ tick \/ tcp_data \/ udp_reply \/ evict_flows \/ stack_send \/ forward \/ ticker
           \/ (\E d \in todo : recv_from(d)) \/ \E k \in FlowKey : time_passes(k)
  BY <1>3, <1>4 DEF drained, tick, tcp_data, udp_reply, evict_flows, stack_send, forward, ticker, recv_from, time_passes
<1>5. ASSUME NEW r \in Relay, NEW q \in Seq(Client), Len(q) <= OutCap
      PROVE  LET o == [out EXCEPT ![r] = q]
             IN  o \in [Relay -> Seq(Client)] /\ \A p \in Relay : Len(o[p]) <= OutCap
  BY <1>5 DEF IInv, RelayOK
<1>6. ASSUME NEW r \in Relay, out[r] # <<>>
      PROVE  Tail(out[r]) \in Seq(Client) /\ Len(Tail(out[r])) <= OutCap /\ Head(out[r]) \in Client
  <2>1. out[r] \in Seq(Client) /\ Len(out[r]) <= OutCap
    BY DEF IInv, RelayOK
  <2>2. /\ Tail(out[r]) \in Seq(Client) /\ Len(Tail(out[r])) = Len(out[r]) - 1 /\ Head(out[r]) \in Client
        /\ Len(out[r]) \in Nat
    BY <1>6, <2>1, TailFacts
  <2>3. QED
    BY <2>1, <2>2
<1>7. <<>> \in Seq(Client) /\ Len(<<>>) <= OutCap
  OBVIOUS
<1>8. ASSUME NEW r \in Relay, RelayStep(r) PROVE RelayOK'
  <2>1. ASSUME NEW ok \in BOOLEAN, connect(r, ok) PROVE RelayOK'
    <3>1. out' \in [Relay -> Seq(Client)] /\ \A p \in Relay : Len(out'[p]) <= OutCap
      <4>1. CASE ok
        BY <2>1, <4>1 DEF connect, IInv, RelayOK
      <4>2. CASE ~ok
        BY <1>5, <1>7, <2>1, <4>2 DEF connect
      <4>3. QED
        BY <4>1, <4>2
    <3>2. /\ relay[r] = "dial" /\ relay' \in [Relay -> {"none", "dial", "up", "ask", "reply", "ended"}]
          /\ relay'[r] \in {"up", "ended"} /\ \A p \in Relay \ {r} : relay'[p] = relay[p]
      BY <2>1 DEF connect, IInv, RelayOK
    <3>3. reads' \in [Relay -> BOOLEAN] /\ \A p \in Relay \ {r} : reads'[p] = reads[p]
      BY <2>1 DEF connect, IInv, RelayOK
    <3>4. UNCHANGED <<flowOf, client, asker, fed>>
      BY <2>1 DEF connect
    <3>5. QED
      BY <3>1, <3>2, <3>3, <3>4 DEF IInv, RelayOK
  <2>2. CASE fwd(r)
    <3>1. UNCHANGED <<relay, flowOf, client, out, asker>> /\ reads' \in {reads, [reads EXCEPT ![r] = FALSE]}
      BY <2>2 DEF fwd
    <3>2. fed' \in [Relay -> 0..MaxData]
      <4>1. fed[r] \in 0..MaxData /\ fed[r] < MaxData /\ fed' = [fed EXCEPT ![r] = fed[r] + 1]
        BY <2>2 DEF fwd, IInv, RelayOK
      <4>2. fed[r] + 1 \in 0..MaxData
        BY <4>1
      <4>3. QED
        BY <4>1, <4>2 DEF IInv, RelayOK
    <3>3. reads' \in [Relay -> BOOLEAN] /\ \A p \in Relay : reads'[p] => reads[p]
      BY <3>1 DEF IInv, RelayOK
    <3>4. QED
      BY <3>1, <3>2, <3>3 DEF IInv, RelayOK
  <2>3. CASE fwd_ends(r)
    <3>1. UNCHANGED <<relay, flowOf, client, out, asker, fed>> /\ reads' = [reads EXCEPT ![r] = FALSE]
      BY <2>3 DEF fwd_ends
    <3>2. reads' \in [Relay -> BOOLEAN] /\ \A p \in Relay : reads'[p] => reads[p]
      BY <3>1 DEF IInv, RelayOK
    <3>3. QED
      BY <3>1, <3>2 DEF IInv, RelayOK
  <2>4. CASE bwd(r)
    <3>1. /\ UNCHANGED <<relay, flowOf, client, reads, asker, fed>> /\ out[r] # <<>>
          /\ out' = [out EXCEPT ![r] = Tail(out[r])]
      BY <2>4 DEF bwd
    <3>2. out' \in [Relay -> Seq(Client)] /\ \A p \in Relay : Len(out'[p]) <= OutCap
      BY <1>5, <1>6, <3>1
    <3>3. QED
      BY <3>1, <3>2 DEF IInv, RelayOK
  <2>5. CASE bwd_ends(r)
    <3>1. /\ UNCHANGED <<flowOf, client, reads, asker, fed>> /\ out' = [out EXCEPT ![r] = <<>>]
          /\ relay[r] = "up" /\ relay' = [relay EXCEPT ![r] = "ended"]
      BY <2>5 DEF bwd_ends
    <3>2. out' \in [Relay -> Seq(Client)] /\ \A p \in Relay : Len(out'[p]) <= OutCap
      BY <1>5, <1>7, <3>1
    <3>3. QED
      BY <3>1, <3>2 DEF IInv, RelayOK
  <2>6. CASE udp_sends(r)
    <3>1. /\ UNCHANGED <<flowOf, client, reads, fed>> /\ out[r] # <<>>
          /\ out' = [out EXCEPT ![r] = Tail(out[r])] /\ asker' = [asker EXCEPT ![r] = Head(out[r])]
          /\ relay[r] = "up" /\ relay' = [relay EXCEPT ![r] = "ask"]
      BY <2>6 DEF udp_sends
    <3>2. out' \in [Relay -> Seq(Client)] /\ \A p \in Relay : Len(out'[p]) <= OutCap
      BY <1>5, <1>6, <3>1
    <3>3. Head(out[r]) \in Client
      BY <1>6, <3>1
    <3>4. QED
      BY <3>1, <3>2, <3>3 DEF IInv, RelayOK
  <2>7. CASE udp_answer(r)
    BY <2>7 DEF udp_answer, IInv, RelayOK
  <2>8. CASE udp_passes(r) \/ udp_timeout(r)
    <3>1. /\ UNCHANGED <<flowOf, client, reads, out, fed>> /\ relay[r] \in {"ask", "reply"}
          /\ relay' = [relay EXCEPT ![r] = "up"] /\ asker' = [asker EXCEPT ![r] = NoClient]
      BY <2>8 DEF udp_passes, udp_timeout
    <3>2. QED
      BY <3>1 DEF IInv, RelayOK
  <2>9. CASE udp_ends(r)
    BY <2>9 DEF udp_ends, IInv, RelayOK
  <2>10. QED
    BY <1>8, <2>1, <2>2, <2>3, <2>4, <2>5, <2>6, <2>7, <2>8, <2>9 DEF RelayStep, UdpStep
<1>9. QED
  BY <1>1, <1>2, <1>4, <1>8 DEF Next, ActorStep

-----------------------------------------------------------------------------
(* The actor's channel and what clients get                                 *)

\* Sound, in the next state, of a message of this state.
SoundNext(m) ==
    /\ m.type = "tcp_data" => relay'[m.relay] # "none" /\ client'[m.relay] \in Client
    /\ m.type = "udp_reply" => m.client \in Client

\* A relay keeps its client for good, so messages stay sound.
LEMMA SoundStays ==
    ASSUME IInv, Next, NEW m \in Msg, Sound(m)
    PROVE  SoundNext(m)
<1>1. CASE inbound
  <2>1. CASE UNCHANGED <<relay, flowOf, client>>
    BY <2>1 DEF Sound, SoundNext
  <2>2. ASSUME NEW r \in Relay, NEW k \in FlowKey, NEW h \in Slot, NEW c \in Client \cup {NoClient},
               relay[r] = "none", Spawned(r, k, h, c)
        PROVE  SoundNext(m)
    <3>1. \A q \in Relay : relay[q] # "none" => relay'[q] = relay[q] /\ client'[q] = client[q]
      BY <2>2 DEF IInv, RelayOK, Spawned
    <3>2. QED
      BY <3>1, MsgFacts DEF Sound, SoundNext
  <2>3. QED
    BY <1>1, <2>1, <2>2, InboundFacts
<1>2. CASE UNCHANGED <<relay, client>>
  BY <1>2 DEF Sound, SoundNext
<1>3. CASE UNCHANGED client /\ \A r \in Relay : relay[r] # "none" => relay'[r] # "none"
  BY <1>3, MsgFacts DEF Sound, SoundNext
<1>4. CASE \/ drained \/ tick \/ tcp_data \/ udp_reply \/ evict_flows \/ stack_send \/ forward \/ ticker
           \/ (\E d \in todo : recv_from(d)) \/ \E k \in FlowKey : time_passes(k) \/ drain(k)
  BY <1>2, <1>4 DEF drained, tick, tcp_data, udp_reply, evict_flows, stack_send, forward, ticker, recv_from,
                    time_passes, drain
<1>5. ASSUME NEW r \in Relay, RelayStep(r) PROVE SoundNext(m)
  <2>1. CASE fwd(r) \/ fwd_ends(r) \/ bwd(r)
    BY <1>2, <2>1 DEF fwd, fwd_ends, bwd
  <2>2. CASE \E ok \in BOOLEAN : connect(r, ok)
    BY <1>3, <2>2 DEF connect, IInv, RelayOK
  <2>3. CASE bwd_ends(r) \/ UdpStep(r) \/ udp_answer(r) \/ udp_passes(r)
    BY <1>3, <2>3 DEF bwd_ends, UdpStep, udp_sends, udp_timeout, udp_ends, udp_answer, udp_passes, IInv, RelayOK
  <2>4. QED
    BY <1>5, <2>1, <2>2, <2>3 DEF RelayStep
<1>6. QED
  BY <1>1, <1>4, <1>5 DEF Next, ActorStep

LEMMA ChannelStepOK ==
    ASSUME IInv, Next
    PROVE  ChannelOK'
<1> USE WgAssumption
<1>1. /\ actor_rx \in Seq(Msg) /\ Len(actor_rx) <= ActorCap /\ Len(actor_rx) \in Nat
      /\ \A i \in 1..Len(actor_rx) : SoundNext(actor_rx[i])
  <2>1. /\ actor_rx \in Seq(Msg) /\ Len(actor_rx) <= ActorCap /\ Len(actor_rx) \in Nat
        /\ \A i \in 1..Len(actor_rx) : actor_rx[i] \in Msg /\ Sound(actor_rx[i])
    BY DEF IInv, ChannelOK
  <2>2. QED
    BY <2>1, SoundStays
<1>2. CASE UNCHANGED actor_rx
  BY <1>1, <1>2 DEF ChannelOK, Sound, SoundNext
<1>3. ASSUME NEW m \in Msg, SoundNext(m), HasRoom, actor_rx' = Append(actor_rx, m) PROVE ChannelOK'
  <2>1. /\ actor_rx' \in Seq(Msg) /\ Len(actor_rx') = Len(actor_rx) + 1
        /\ (\A i \in 1..Len(actor_rx) : actor_rx'[i] = actor_rx[i]) /\ actor_rx'[Len(actor_rx) + 1] = m
    BY <1>1, <1>3, AppendFacts
  <2>2. Len(actor_rx') <= ActorCap
    BY <1>1, <1>3, <2>1 DEF HasRoom
  <2>3. \A i \in 1..Len(actor_rx') : SoundNext(actor_rx'[i])
    <3>1. SUFFICES ASSUME NEW i \in 1..Len(actor_rx') PROVE SoundNext(actor_rx'[i])
      OBVIOUS
    <3>2. CASE i \in 1..Len(actor_rx)
      BY <1>1, <2>1, <3>2
    <3>3. CASE i = Len(actor_rx) + 1
      BY <1>3, <2>1, <3>3
    <3>4. QED
      BY <1>1, <2>1, <3>2, <3>3
  <2>4. QED
    BY <2>1, <2>2, <2>3 DEF ChannelOK, Sound, SoundNext
<1>4. ASSUME actor_rx # <<>>, actor_rx' = Tail(actor_rx) PROVE ChannelOK'
  <2>1. /\ actor_rx' \in Seq(Msg) /\ Len(actor_rx') = Len(actor_rx) - 1 /\ Len(actor_rx') \in Nat
        /\ \A i \in 1..Len(actor_rx') : actor_rx'[i] = actor_rx[i + 1]
    BY <1>1, <1>4, TailFacts
  <2>2. \A i \in 1..Len(actor_rx') : i + 1 \in 1..Len(actor_rx)
    BY <1>1, <2>1
  <2>3. \A i \in 1..Len(actor_rx') : SoundNext(actor_rx'[i])
    BY <1>1, <2>1, <2>2
  <2>4. Len(actor_rx') <= ActorCap
    BY <1>1, <2>1
  <2>5. QED
    BY <2>1, <2>3, <2>4 DEF ChannelOK, Sound, SoundNext
<1>5. CASE inbound \/ tick \/ udp_reply
  BY <1>4, <1>5 DEF inbound, tick, udp_reply
<1>6. CASE tcp_data
  <2>1. CASE actor_rx' = <<>>
    BY <2>1 DEF ChannelOK
  <2>2. CASE actor_rx' # <<>>
    BY <1>4, <1>6, <2>2 DEF tcp_data
  <2>3. QED
    BY <2>1, <2>2
<1>7. CASE forward
  <2>1. Head(stack_rx[First]) \in Packet
    BY <1>7, TailFacts DEF forward, IInv, ServerOK
  <2>2. [type |-> "inbound", pkt |-> Head(stack_rx[First])] \in Msg
    BY <2>1 DEF Msg
  <2>3. SoundNext([type |-> "inbound", pkt |-> Head(stack_rx[First])])
    BY DEF SoundNext
  <2>4. QED
    BY <1>3, <1>7, <2>2, <2>3 DEF forward
<1>8. CASE ticker
  <2>1. [type |-> "tick"] \in Msg /\ SoundNext([type |-> "tick"])
    BY DEF Msg, SoundNext
  <2>2. QED
    BY <1>3, <1>8, <2>1 DEF ticker
<1>9. ASSUME NEW r \in Relay, fwd(r) PROVE ChannelOK'
  <2>1. CASE actor = "panicked"
    BY <1>2, <1>9, <2>1 DEF fwd
  <2>2. CASE actor # "panicked"
    <3> DEFINE m == [type |-> "tcp_data", relay |-> r, client |-> client[r]]
    <3>1. HasRoom /\ actor_rx' = Append(actor_rx, m) /\ reads[r] /\ UNCHANGED <<relay, client>>
      BY <1>9, <2>2 DEF fwd
    <3>2. client[r] \in Client /\ relay[r] # "none"
      BY <3>1 DEF IInv, RelayOK
    <3>3. m \in Msg
      BY <3>2 DEF Msg
    <3>4. SoundNext(m)
      BY <3>1, <3>2 DEF SoundNext
    <3> HIDE DEF m
    <3>5. QED
      BY <1>3, <3>1, <3>3, <3>4
  <2>3. QED
    BY <2>1, <2>2
<1>10. ASSUME NEW r \in Relay, udp_passes(r) PROVE ChannelOK'
  <2>1. CASE actor = "panicked"
    BY <1>2, <1>10, <2>1 DEF udp_passes
  <2>2. CASE actor # "panicked"
    <3> DEFINE m == [type |-> "udp_reply", relay |-> r, client |-> asker[r]]
    <3>1. HasRoom /\ actor_rx' = Append(actor_rx, m) /\ relay[r] = "reply"
      BY <1>10, <2>2 DEF udp_passes
    <3>2. asker[r] \in Client
      BY <3>1 DEF IInv, RelayOK
    <3>3. m \in Msg
      BY <3>2 DEF Msg
    <3>4. SoundNext(m)
      BY <3>2 DEF SoundNext
    <3> HIDE DEF m
    <3>5. QED
      BY <1>3, <3>1, <3>3, <3>4
  <2>3. QED
    BY <2>1, <2>2
<1>11. CASE \/ drained \/ evict_flows \/ stack_send \/ (\E d \in todo : recv_from(d))
            \/ \E k \in FlowKey : time_passes(k) \/ drain(k)
  BY <1>2, <1>11 DEF drained, evict_flows, stack_send, recv_from, time_passes, drain
<1>12. ASSUME NEW r \in Relay, RelayStep(r) PROVE ChannelOK'
  <2>1. CASE (\E ok \in BOOLEAN : connect(r, ok)) \/ fwd_ends(r) \/ bwd(r) \/ bwd_ends(r) \/ UdpStep(r) \/ udp_answer(r)
    BY <1>2, <2>1 DEF connect, fwd_ends, bwd, bwd_ends, UdpStep, udp_sends, udp_timeout, udp_ends, udp_answer
  <2>2. QED
    BY <1>9, <1>10, <1>12, <2>1 DEF RelayStep
<1>13. QED
  BY <1>5, <1>6, <1>7, <1>8, <1>11, <1>12 DEF Next, ActorStep

LEMMA GotStepOK ==
    ASSUME IInv, Next
    PROVE  GotOK'
<1>1. CASE UNCHANGED got
  BY <1>1 DEF IInv, GotOK
<1>2. ASSUME actor_rx # <<>>
      PROVE  /\ Head(actor_rx) \in Msg /\ Sound(Head(actor_rx))
             /\ Head(actor_rx).type \in {"tcp_data", "udp_reply"} => Head(actor_rx).relay \in Relay
  <2>1. Head(actor_rx) \in Msg /\ Head(actor_rx) = actor_rx[1] /\ Len(actor_rx) > 0
    BY <1>2, TailFacts DEF IInv, ChannelOK
  <2>2. Sound(actor_rx[1])
    BY <2>1 DEF IInv, ChannelOK
  <2>3. QED
    BY <2>1, <2>2, MsgFacts
<1>3. CASE tcp_data
  <2> DEFINE r == Head(actor_rx).relay
             sock == sockets[flowOf[r].handle]
  <2>1. r \in Relay /\ client[r] \in Client /\ flowOf[r].handle \in Slot
    BY <1>2, <1>3 DEF tcp_data, Sound, IInv, RelayOK
  <2>2. CASE sock.state \in {"established", "close_wait"} /\ UNCHANGED actor
    <3>1. got' \in {got, got \cup {[from |-> client[r], to |-> sock.remote, relay |-> r]}}
      BY <1>3, <2>2 DEF tcp_data, TcpStates
    <3>2. sock.remote \in Client
      BY <2>1, <2>2 DEF IInv, ActorOK, SocksOK, Connected
    <3>3. [from |-> client[r], to |-> sock.remote, relay |-> r] \in [from : Client, to : Client, relay : Relay]
      BY <2>1, <3>2
    <3>4. QED
      BY <3>1, <3>3 DEF IInv, GotOK
  <2>3. QED
    BY <1>1, <1>3, <2>2 DEF tcp_data
<1>4. CASE udp_reply
  <2> DEFINE m == Head(actor_rx)
  <2>1. m.relay \in Relay /\ m.client \in Client
    BY <1>2, <1>4 DEF udp_reply, Sound
  <2>2. CASE FlowsAt(flowOf[m.relay].handle) = {}
    BY <1>1, <1>4, <2>2 DEF udp_reply
  <2>3. CASE FlowsAt(flowOf[m.relay].handle) # {}
    <3>1. PICK k \in FlowsAt(flowOf[m.relay].handle) :
             got' = got \cup {[from |-> m.client, to |-> k.src, relay |-> m.relay]}
      BY <1>4, <2>3 DEF udp_reply
    <3>2. k.src \in Client
      BY <3>1 DEF FlowsAt, FlowKey
    <3> HIDE DEF m
    <3>3. [from |-> m.client, to |-> k.src, relay |-> m.relay] \in [from : Client, to : Client, relay : Relay]
      BY <2>1, <3>2
    <3>4. QED
      BY <3>1, <3>3 DEF IInv, GotOK
  <2>4. QED
    BY <2>2, <2>3
<1>5. CASE \/ inbound \/ drained \/ tick \/ evict_flows \/ stack_send \/ forward \/ ticker
           \/ (\E d \in todo : recv_from(d)) \/ \E k \in FlowKey : time_passes(k) \/ drain(k)
  BY <1>1, <1>5 DEF inbound, drained, tick, evict_flows, stack_send, forward, ticker, recv_from, time_passes, drain
<1>6. ASSUME NEW r \in Relay, RelayStep(r) PROVE GotOK'
  BY <1>1, <1>6 DEF RelayStep, connect, fwd, fwd_ends, bwd, bwd_ends, UdpStep, udp_sends, udp_timeout,
                    udp_ends, udp_answer, udp_passes
<1>7. QED
  BY <1>3, <1>4, <1>5, <1>6 DEF Next, ActorStep

-----------------------------------------------------------------------------
LEMMA InitOK == Init => IInv
<1>1. SUFFICES ASSUME Init PROVE IInv
  OBVIOUS
<1> USE WgAssumption
<1>2. ServerOK
  <2>1. todo \subseteq Datagram
    BY <1>1, WorkloadAssumption DEF Init
  <2>2. stack_rx \in [Peer -> Seq(Packet)] /\ \A p \in Peer : Len(stack_rx[p]) <= StackCap /\ stack_rx[p] = <<>>
    BY <1>1 DEF Init
  <2>3. QED
    BY <1>1, <2>1, <2>2 DEF Init, ServerOK, OnlyFirstPeer
<1>3. ActorOK
  <2>1. FreeSock \in Sock /\ Connected(FreeSock)
    BY DEF FreeSock, Sock, Connected
  <2>2. QED
    BY <1>1, <2>1 DEF Init, ActorOK, SocksOK, Own
<1>4. RelayOK
  <2>1. out \in [Relay -> Seq(Client)] /\ \A r \in Relay : Len(out[r]) <= OutCap
    BY <1>1 DEF Init
  <2>2. flowOf \in [Relay -> [key : FlowKey \cup {NoKey}, handle : 0..MaxSock]]
    BY <1>1 DEF Init
  <2>3. relay \in [Relay -> {"none", "dial", "up", "ask", "reply", "ended"}] /\ \A r \in Relay : relay[r] = "none" /\ ~reads[r]
    BY <1>1 DEF Init
  <2>4. /\ client \in [Relay -> Client \cup {NoClient}] /\ asker \in [Relay -> Client \cup {NoClient}]
        /\ reads \in [Relay -> BOOLEAN] /\ fed \in [Relay -> 0..MaxData]
    BY <1>1 DEF Init
  <2>5. QED
    BY <2>1, <2>2, <2>3, <2>4 DEF RelayOK
<1>5. ChannelOK /\ GotOK
  BY <1>1 DEF Init, ChannelOK, GotOK
<1>6. QED
  BY <1>2, <1>3, <1>4, <1>5 DEF IInv

LEMMA Invariance == Spec => []IInv
<1>1. Init => IInv
  BY InitOK
<1>2. IInv /\ [Next]_vars => IInv'
  <2>1. CASE Next
    BY <2>1, ServerStep, ActorStepOK, RelayStepOK, ChannelStepOK, GotStepOK DEF IInv
  <2>2. CASE UNCHANGED vars
    BY <2>2 DEF vars, IInv, ServerOK, OnlyFirstPeer, ActorOK, SocksOK, Own, RelayOK, ChannelOK, Sound, GotOK
  <2>3. QED
    BY <2>1, <2>2
<1>3. QED
  BY <1>1, <1>2, PTL DEF Spec

\* The exit node's state keeps its types, every channel its capacity, and what clients get
\* always comes from a relay that knows for whom it asked.
THEOREM TypeCorrect == Spec => []TypeOK
<1>1. IInv => TypeOK
  <2>1. ASSUME IInv PROVE TypeOK
    <3>1. held \in [peer : Peer, pkt : Packet \cup {NoKey}]
      BY <2>1, WgAssumption DEF IInv, ServerOK
    <3>2. QED
      BY <2>1, <3>1 DEF IInv, ServerOK, ActorOK, SocksOK, RelayOK, ChannelOK, GotOK, TypeOK, Sock, Flow
  <2>2. QED
    BY <2>1
<1>2. QED
  BY <1>1, Invariance, PTL

\* How far the limitation of find_peer goes: of all the peers that can be configured, none
\* but the first ever gets an endpoint or a packet, whoever sends what from where.  The
\* stack and the relays below therefore only ever serve the first peer.
THEOREM OthersNeverServed == Spec => []OnlyFirstPeer
<1>1. IInv => OnlyFirstPeer
  BY DEF IInv, ServerOK
<1>2. QED
  BY <1>1, Invariance, PTL

\* A flow in the table owns a socket of its protocol, for its destination, that no other
\* flow has, however slots are freed by eviction and reused.
THEOREM SocketsOwned == Spec => []FlowsOwnSockets
<1>1. IInv => FlowsOwnSockets
  BY DEF IInv, ActorOK, Own, FlowsOwnSockets
<1>2. QED
  BY <1>1, Invariance, PTL

-----------------------------------------------------------------------------
(* Flows and their relays                                                   *)

\* States of a TCP socket that has been connected; none leads back to one that has not.
Live == {"established", "close_wait", "closed"}

\* A flow and the relay it has name each other, and the TCP socket of such a flow is
\* still connected to the client the relay was started for, or closed.
Linked(k) ==
    LET r == flows[k].relay
        s == sockets[flows[k].handle]
    IN r # NoRelay =>
         /\ relay[r] # "none" /\ flowOf[r].key = k /\ flowOf[r].handle = flows[k].handle
         /\ k.proto = "tcp" => s.state \in Live /\ s.remote = client[r]

\* A relay is of its flow's protocol.
Kind(r) ==
    /\ relay[r] # "none" => flowOf[r].key \in FlowKey
    /\ relay[r] = "dial" \/ reads[r] => IsTcp(r)
    /\ relay[r] \in {"ask", "reply"} => ~IsTcp(r)

\* And so are its messages.
Right(m) ==
    /\ m.type = "tcp_data" => IsTcp(m.relay)
    /\ m.type = "udp_reply" => relay[m.relay] # "none" /\ ~IsTcp(m.relay)

LinkOK ==
    /\ \A k \in FlowKey : Linked(k)
    /\ \A r \in Relay : Kind(r)
    /\ \A i \in 1..Len(actor_rx) : Right(actor_rx[i])
    /\ \A g \in got : relay[g.relay] # "none"

\* What AnswersReachTheAsker needs to be inductive.
AInv == IInv /\ LinkOK /\ AnswersReachTheAsker

\* A connected socket keeps its client whatever arrives.
Keeps(s, t) == s.state \in Live => t.state \in Live /\ t.remote = s.remote

LEMMA TakenKeeps ==
    ASSUME NEW s \in Sock, NEW pkt \in Packet, Accepts(s, pkt)
    PROVE  Keeps(s, Taken(s, pkt))
<1>1. SUFFICES ASSUME s.state \in Live PROVE Taken(s, pkt).state \in Live /\ Taken(s, pkt).remote = s.remote
  BY DEF Keeps
<1>2. pkt.key.proto # "udp" /\ pkt.key.proto = "tcp"
  BY <1>1 DEF Accepts, Live, Packet, FlowKey
<1>3. \/ Taken(s, pkt) = [s EXCEPT !.state = "established", !.rx = Append(s.rx, pkt.key.src)]
      \/ Taken(s, pkt) = [s EXCEPT !.state = "close_wait"]
      \/ Taken(s, pkt) = [s EXCEPT !.state = "closed"]
      \/ Taken(s, pkt) = s
  BY <1>1, <1>2 DEF Taken, Live
<1>4. QED
  BY <1>1, <1>3 DEF Sock, Live

LEMMA InjectedKeeps ==
    ASSUME NEW socks, SocksOK(socks), NEW pkt \in Packet
    PROVE  \A h \in Slot : Keeps(socks[h], Injected(socks, pkt)[h])
<1> DEFINE A == {h \in Slot : Accepts(socks[h], pkt)}
<1>1. CASE A = {}
  BY <1>1 DEF Injected, Keeps
<1>2. CASE A # {}
  <2>1. Lowest(A) \in A
    BY <1>2, LowestIn, WgAssumption DEF Slot
  <2>2. Injected(socks, pkt) = [socks EXCEPT ![Lowest(A)] = Taken(socks[Lowest(A)], pkt)]
    BY <1>2 DEF Injected
  <2>3. Keeps(socks[Lowest(A)], Taken(socks[Lowest(A)], pkt))
    BY <2>1, TakenKeeps DEF SocksOK
  <2> HIDE DEF A
  <2>4. \A h \in Slot : Keeps(socks[h], socks[h])
    BY DEF Keeps
  <2>5. QED
    BY <2>2, <2>3, <2>4 DEF SocksOK
<1>3. QED
  BY <1>1, <1>2

\* The relay of an entry, once set.
LEMMA RelayIs ==
    ASSUME NEW fl \in [FlowKey -> Flow \cup {NoFlow}], NEW k \in FlowKey, fl[k] # NoFlow, NEW r \in Relay,
           NEW gl, gl = [fl EXCEPT ![k].relay = r]
    PROVE  /\ gl[k].relay = r /\ gl[k].handle = fl[k].handle /\ fl[k].handle \in Slot
           /\ \A j \in FlowKey \ {k} : gl[j] = fl[j]
<1> DEFINE e == [fl[k] EXCEPT !.relay = r]
<1>1. e.relay = r /\ e.handle = fl[k].handle /\ fl[k].handle \in Slot
  BY DEF Flow
<1>2. gl = [fl EXCEPT ![k] = e]
  OBVIOUS
<1> HIDE DEF e
<1>3. QED
  BY <1>1, <1>2

\* Entries with a relay, connected sockets and relays in the step of an inbound packet.
LEMMA InboundLinks ==
    ASSUME IInv, inbound
    PROVE  /\ \A g \in Slot : Keeps(sockets[g], sockets'[g])
           /\ \/ /\ UNCHANGED <<relay, flowOf, client>>
                 /\ \A j \in FlowKey : flows'[j].relay # NoRelay => flows'[j] = flows[j]
              \/ \E r \in Relay, s \in FlowKey, h \in Slot, c \in Client \cup {NoClient} :
                    /\ relay[r] = "none" /\ Spawned(r, s, h, c)
                    /\ flows'[s].relay = r /\ flows'[s].handle = h
                    /\ s.proto = "tcp" => sockets'[h].state = "established" /\ sockets'[h].remote = c
                    /\ \A j \in FlowKey \ {s} : flows'[j].relay # NoRelay => flows'[j] = flows[j]
<1> DEFINE pkt == Head(actor_rx).pkt
           k == pkt.key
           new == flows[k] = NoFlow
           h == IF new THEN Lowest(FreeSlots) ELSE flows[k].handle
           socks == Injected(Ensured(k), pkt)
           fl == IF new THEN [flows EXCEPT ![k] = [handle |-> h, relay |-> NoRelay, idle |-> FALSE]] ELSE flows
           S == Starts(socks, fl)
<1>1. pkt \in Packet /\ k \in FlowKey
  <2>1. Head(actor_rx) \in Msg /\ Head(actor_rx).type = "inbound"
    BY TailFacts DEF IInv, ChannelOK, inbound
  <2>2. QED
    BY <2>1, MsgFacts DEF Packet
<1>2. new => FreeSlots # {}
  BY DEF inbound
<1>3. /\ fl \in [FlowKey -> Flow \cup {NoFlow}] /\ SocksOK(Ensured(k)) /\ fl[k] # NoFlow
      /\ \A g \in Slot : Keeps(sockets[g], Ensured(k)[g])
      /\ \A j \in FlowKey : fl[j].relay # NoRelay => fl[j] = flows[j]
      /\ fl[k].handle = h
  <2>1. CASE new
    <3>1. fl = [flows EXCEPT ![k] = [handle |-> Lowest(FreeSlots), relay |-> NoRelay, idle |-> FALSE]]
          /\ h = Lowest(FreeSlots)
      BY <2>1
    <3>2. Ensured(k) = [sockets EXCEPT ![Lowest(FreeSlots)] = NewSock(k)]
      BY <2>1 DEF Ensured
    <3> HIDE DEF fl, h, k
    <3>3. fl \in [FlowKey -> Flow \cup {NoFlow}] /\ SocksOK(Ensured(k)) /\ fl[k] # NoFlow /\ Lowest(FreeSlots) \in Slot
      BY <1>1, <1>2, <2>1, <3>1, OwnNew DEF IInv
    <3>4. sockets[Lowest(FreeSlots)].state = "free"
      BY <1>2, <2>1, LowestIn, WgAssumption DEF FreeSlots, Slot
    <3>5. \A g \in Slot : Keeps(sockets[g], Ensured(k)[g])
      BY <3>2, <3>4 DEF IInv, ActorOK, SocksOK, Keeps, Live
    <3>6. \A j \in FlowKey \ {k} : fl[j] = flows[j]
      BY <3>1 DEF IInv, ActorOK
    <3>7. fl[k].relay = NoRelay /\ fl[k].handle = h
      BY <1>1, <3>1 DEF IInv, ActorOK
    <3>8. QED
      BY <3>3, <3>5, <3>6, <3>7
  <2>2. CASE ~new
    <3>1. fl = flows /\ Ensured(k) = sockets /\ h = flows[k].handle
      BY <2>2 DEF Ensured
    <3> HIDE DEF fl, h, k
    <3>2. QED
      BY <1>1, <2>2, <3>1 DEF IInv, ActorOK, Keeps
  <2>3. QED
    BY <2>1, <2>2
<1>4. SocksOK(socks) /\ sockets' = socks /\ \A g \in Slot : Keeps(sockets[g], sockets'[g])
  <2>1. SocksOK(socks) /\ \A g \in Slot : Keeps(Ensured(k)[g], socks[g])
    BY <1>1, <1>3, InjectedFacts, InjectedKeeps
  <2>2. sockets' = socks
    BY DEF inbound
  <2> HIDE DEF fl, socks, k
  <2>3. QED
    BY <1>3, <2>1, <2>2 DEF Keeps
<1>5. CASE new /\ k.proto = "udp"
  <2>1. FreshRelay \in Relay /\ relay[FreshRelay] = "none"
    BY <1>5, FreshRelayFacts DEF inbound
  <2>2. flows' = [fl EXCEPT ![k].relay = FreshRelay] /\ Spawned(FreshRelay, k, h, NoClient)
    BY <1>5 DEF inbound
  <2> HIDE DEF fl, h, socks, new, k
  <2>3. /\ flows'[k].relay = FreshRelay /\ flows'[k].handle = h /\ h \in Slot
        /\ \A j \in FlowKey \ {k} : flows'[j] = fl[j]
    BY <1>1, <1>3, <2>1, <2>2, RelayIs
  <2>4. \A j \in FlowKey \ {k} : flows'[j].relay # NoRelay => flows'[j] = flows[j]
    BY <1>3, <2>3
  <2>5. k.proto # "tcp"
    BY <1>5
  <2>6. QED
    BY <1>1, <1>4, <2>1, <2>2, <2>3, <2>4, <2>5
<1>6. CASE ~(new /\ k.proto = "udp") /\ S # {}
  <2>1. FreshRelay \in Relay /\ relay[FreshRelay] = "none"
    BY <1>6, FreshRelayFacts DEF inbound
  <2>2. PICK s \in S : /\ flows' = [fl EXCEPT ![s].relay = FreshRelay]
                       /\ Spawned(FreshRelay, s, fl[s].handle, socks[fl[s].handle].remote)
    BY <1>6 DEF inbound
  <2>3. s \in FlowKey /\ fl[s] # NoFlow /\ socks[fl[s].handle].state = "established"
    BY <2>2 DEF Starts
  <2> HIDE DEF fl, socks, k, h
  <2>4. /\ flows'[s].relay = FreshRelay /\ flows'[s].handle = fl[s].handle /\ fl[s].handle \in Slot
        /\ \A j \in FlowKey \ {s} : flows'[j] = fl[j]
    BY <1>3, <2>1, <2>2, <2>3, RelayIs
  <2>5. \A j \in FlowKey \ {s} : flows'[j].relay # NoRelay => flows'[j] = flows[j]
    BY <1>3, <2>4
  <2>6. socks[fl[s].handle].remote \in Client
    BY <1>4, <2>3, <2>4 DEF SocksOK, Connected
  <2>7. QED
    BY <1>4, <2>1, <2>2, <2>3, <2>4, <2>5, <2>6
<1>7. CASE ~(new /\ k.proto = "udp") /\ S = {}
  <2>1. flows' = fl /\ UNCHANGED <<relay, flowOf, client>>
    BY <1>7 DEF inbound
  <2> HIDE DEF fl, socks, k, h
  <2>2. QED
    BY <1>3, <1>4, <2>1
<1>8. QED
  BY <1>5, <1>6, <1>7

\* A relay keeps its flow and its client for good.
StartedKept ==
    \A r \in Relay : relay[r] # "none" =>
        relay'[r] # "none" /\ flowOf'[r] = flowOf[r] /\ client'[r] = client[r]

\* Entries that have a relay had it before, and so their connected sockets their clients.
EntriesKept ==
    \A j \in FlowKey : flows'[j].relay # NoRelay =>
        /\ flows'[j].relay = flows[j].relay /\ flows'[j].handle = flows[j].handle
        /\ Keeps(sockets[flows[j].handle], sockets'[flows[j].handle])

\* What is asked of every step: links hold afterwards, and a relay that has outlived its
\* flow never gets one again.
LinksHold ==
    /\ StartedKept
    /\ \A j \in FlowKey : Linked(j)'
    /\ \A r \in Relay : relay[r] # "none" /\ Outlived(r) => Outlived(r)'

LEMMA HandleIn ==
    ASSUME ActorOK, NEW j \in FlowKey, flows[j].relay # NoRelay
    PROVE  flows[j] # NoFlow /\ flows[j].handle \in Slot /\ flows[j].relay \in Relay
<1>1. flows[j] # NoFlow
  BY DEF NoFlow
<1>2. QED
  BY <1>1 DEF ActorOK, Flow

LEMMA NoRelayIsNone == NoRelay \notin Relay
  BY WgAssumption DEF NoRelay, Relay

LEMMA LinksKept ==
    ASSUME IInv, LinkOK, StartedKept, EntriesKept
    PROVE  LinksHold
<1>1. ASSUME NEW j \in FlowKey, flows'[j].relay # NoRelay
      PROVE  /\ flows'[j].relay \in Relay
             /\ relay'[flows'[j].relay] # "none" /\ flowOf'[flows'[j].relay].key = j
             /\ flowOf'[flows'[j].relay].handle = flows'[j].handle
             /\ j.proto = "tcp" => /\ sockets'[flows'[j].handle].state \in Live
                                   /\ sockets'[flows'[j].handle].remote = client'[flows'[j].relay]
  <2>1. /\ flows'[j].relay = flows[j].relay /\ flows'[j].handle = flows[j].handle
        /\ Keeps(sockets[flows[j].handle], sockets'[flows[j].handle])
    BY <1>1 DEF EntriesKept
  <2>2. flows[j].relay \in Relay /\ flows[j].relay # NoRelay
    BY <1>1, <2>1, HandleIn DEF IInv
  <2>3. Linked(j)
    BY DEF LinkOK
  <2>4. relay[flows[j].relay] # "none"
    BY <2>2, <2>3 DEF Linked
  <2>5. /\ relay'[flows[j].relay] # "none" /\ flowOf'[flows[j].relay] = flowOf[flows[j].relay]
        /\ client'[flows[j].relay] = client[flows[j].relay]
    BY <2>2, <2>4 DEF StartedKept
  <2>6. QED
    BY <2>1, <2>2, <2>3, <2>5 DEF Linked, Keeps
<1>2. \A j \in FlowKey : Linked(j)'
  BY <1>1 DEF Linked
<1>3. ASSUME NEW r \in Relay, relay[r] # "none", Outlived(r) PROVE Outlived(r)'
  <2>1. flowOf[r].key \in FlowKey /\ flowOf'[r] = flowOf[r] /\ flows[flowOf[r].key].relay # r
    BY <1>3 DEF LinkOK, Kind, StartedKept, Outlived
  <2>2. flows'[flowOf[r].key].relay # r
    BY <2>1, NoRelayIsNone DEF EntriesKept
  <2>3. QED
    BY <2>1, <2>2 DEF Outlived
<1>4. QED
  BY <1>2, <1>3 DEF LinksHold

LEMMA InboundHolds ==
    ASSUME IInv, LinkOK, inbound
    PROVE  LinksHold
<1>1. \A g \in Slot : Keeps(sockets[g], sockets'[g])
  BY InboundLinks
<1>2. ASSUME NEW j \in FlowKey, flows'[j].relay # NoRelay, flows'[j] = flows[j]
      PROVE  /\ flows'[j].relay = flows[j].relay /\ flows'[j].handle = flows[j].handle
             /\ Keeps(sockets[flows[j].handle], sockets'[flows[j].handle])
  BY <1>1, <1>2, HandleIn DEF IInv
<1>3. CASE /\ UNCHANGED <<relay, flowOf, client>>
           /\ \A j \in FlowKey : flows'[j].relay # NoRelay => flows'[j] = flows[j]
  <2>1. StartedKept /\ EntriesKept
    BY <1>2, <1>3 DEF StartedKept, EntriesKept
  <2>2. QED
    BY <2>1, LinksKept
<1>4. ASSUME NEW r \in Relay, NEW s \in FlowKey, NEW h \in Slot, NEW c \in Client \cup {NoClient},
             relay[r] = "none", Spawned(r, s, h, c), flows'[s].relay = r, flows'[s].handle = h,
             s.proto = "tcp" => sockets'[h].state = "established" /\ sockets'[h].remote = c,
             \A j \in FlowKey \ {s} : flows'[j].relay # NoRelay => flows'[j] = flows[j]
      PROVE  LinksHold
  <2>1. /\ relay'[r] # "none" /\ flowOf'[r].key = s /\ flowOf'[r].handle = h /\ client'[r] = c
        /\ \A q \in Relay \ {r} : relay'[q] = relay[q] /\ flowOf'[q] = flowOf[q] /\ client'[q] = client[q]
    BY <1>4 DEF Spawned, IInv, RelayOK
  <2>2. StartedKept
    BY <1>4, <2>1 DEF StartedKept
  <2>3. Linked(s)'
    <3>1. s.proto = "tcp" => sockets'[h].state \in Live /\ sockets'[h].remote = c
      BY <1>4 DEF Live
    <3>2. QED
      BY <1>4, <2>1, <3>1 DEF Linked
  <2>4. ASSUME NEW j \in FlowKey \ {s} PROVE Linked(j)'
    <3>1. CASE flows'[j].relay = NoRelay
      BY <3>1 DEF Linked
    <3>2. CASE flows'[j].relay # NoRelay
      <4>1. flows'[j] = flows[j] /\ Keeps(sockets[flows[j].handle], sockets'[flows[j].handle])
        BY <1>2, <1>4, <3>2
      <4>2. flows[j].relay \in Relay /\ Linked(j) /\ flows[j].relay # NoRelay
        BY <3>2, <4>1, HandleIn DEF IInv, LinkOK
      <4>3. relay[flows[j].relay] # "none" /\ flows[j].relay # r
        BY <1>4, <4>2 DEF Linked
      <4>4. /\ relay'[flows[j].relay] # "none" /\ flowOf'[flows[j].relay] = flowOf[flows[j].relay]
            /\ client'[flows[j].relay] = client[flows[j].relay]
        BY <2>2, <4>2, <4>3 DEF StartedKept
      <4>5. QED
        BY <4>1, <4>2, <4>4 DEF Linked, Keeps
    <3>3. QED
      BY <3>1, <3>2
  <2>5. ASSUME NEW q \in Relay, relay[q] # "none", Outlived(q) PROVE Outlived(q)'
    <3>1. flowOf[q].key \in FlowKey /\ flowOf'[q] = flowOf[q] /\ flows[flowOf[q].key].relay # q /\ q # r
      BY <1>4, <2>2, <2>5 DEF LinkOK, Kind, StartedKept, Outlived
    <3>2. flows'[flowOf[q].key].relay # q
      BY <1>4, <3>1, NoRelayIsNone
    <3>3. QED
      BY <3>1, <3>2 DEF Outlived
  <2>6. \A j \in FlowKey : Linked(j)'
    BY <2>3, <2>4
  <2>7. QED
    BY <2>2, <2>5, <2>6 DEF LinksHold
<1>5. QED
  BY <1>3, <1>4, InboundLinks

LEMMA LinksStep ==
    ASSUME IInv, LinkOK, Next
    PROVE  LinksHold
<1>1. CASE inbound
  BY <1>1, InboundHolds
<1>2. CASE UNCHANGED <<relay, flowOf, client>> /\ EntriesKept
  BY <1>2, LinksKept DEF StartedKept
<1>3. CASE UNCHANGED <<flows, sockets>> /\ StartedKept
  BY <1>3, LinksKept DEF EntriesKept, Keeps
<1>4. ASSUME NEW k \in FlowKey, drain(k) PROVE LinksHold
  <2> DEFINE g == flows[k].handle
             s == sockets[g]
             q == IF k.proto = "udp" THEN Tail(s.rx) ELSE <<>>
  <2>1. flows[k] # NoFlow /\ UNCHANGED <<relay, flowOf, client>>
    BY <1>4 DEF drain, Drainable
  <2>2. g \in Slot /\ flows[k] \in Flow /\ s \in Sock
    BY <2>1, EntryFacts DEF IInv, ActorOK, SocksOK
  <2>3. sockets' = [sockets EXCEPT ![g] = [s EXCEPT !.rx = q]]
    BY <1>4 DEF drain
  <2>4. flows' = [flows EXCEPT ![k] = [flows[k] EXCEPT !.idle = FALSE]]
    BY <1>4 DEF drain
  <2>5. [flows[k] EXCEPT !.idle = FALSE].relay = flows[k].relay /\ [flows[k] EXCEPT !.idle = FALSE].handle = flows[k].handle
    BY <2>2 DEF Flow
  <2>6. \A j \in FlowKey : flows'[j].relay = flows[j].relay /\ flows'[j].handle = flows[j].handle
    BY <2>4, <2>5 DEF IInv, ActorOK
  <2> HIDE DEF g, s, q
  <2>7. [s EXCEPT !.rx = q].state = s.state /\ [s EXCEPT !.rx = q].remote = s.remote
    BY <2>2 DEF Sock
  <2>8. \A h \in Slot : Keeps(sockets[h], sockets'[h])
    BY <2>2, <2>3, <2>7 DEF IInv, ActorOK, SocksOK, Keeps, s
  <2>9. EntriesKept
    BY <2>6, <2>8, HandleIn DEF EntriesKept, IInv
  <2>10. QED
    BY <1>2, <2>1, <2>9
<1>5. ASSUME NEW k \in FlowKey, time_passes(k) PROVE LinksHold
  <2>1. flows[k] # NoFlow /\ UNCHANGED <<relay, flowOf, client, sockets>>
        /\ flows' = [flows EXCEPT ![k] = [flows[k] EXCEPT !.idle = TRUE]]
    BY <1>5 DEF time_passes
  <2>2. [flows[k] EXCEPT !.idle = TRUE].relay = flows[k].relay /\ [flows[k] EXCEPT !.idle = TRUE].handle = flows[k].handle
    BY <2>1, EntryFacts DEF IInv, ActorOK, Flow
  <2>3. \A j \in FlowKey : flows'[j].relay = flows[j].relay /\ flows'[j].handle = flows[j].handle
    BY <2>1, <2>2 DEF IInv, ActorOK
  <2>4. EntriesKept
    BY <2>1, <2>3 DEF EntriesKept, Keeps
  <2>5. QED
    BY <1>2, <2>1, <2>4
<1>6. CASE evict_flows
  <2> DEFINE gone == {k \in FlowKey : flows[k] # NoFlow /\ flows[k].idle}
  <2>1. /\ flows' = [k \in FlowKey |-> IF k \in gone THEN NoFlow ELSE flows[k]]
        /\ sockets' = [h \in Slot |-> IF \E k \in gone : flows[k].handle = h THEN FreeSock ELSE sockets[h]]
        /\ UNCHANGED <<relay, flowOf, client>>
    BY <1>6 DEF evict_flows
  <2>2. \A j \in gone : j \in FlowKey /\ flows[j] # NoFlow
    OBVIOUS
  <2> HIDE DEF gone
  <2>3. ASSUME NEW j \in FlowKey, flows'[j].relay # NoRelay
        PROVE  flows'[j] = flows[j] /\ sockets'[flows[j].handle] = sockets[flows[j].handle]
    <3>1. j \notin gone /\ flows'[j] = flows[j]
      BY <2>1, <2>3 DEF NoFlow
    <3>2. flows[j].handle \in Slot /\ flows[j] # NoFlow
      BY <2>3, <3>1, HandleIn DEF IInv
    <3>3. ~ \E i \in gone : flows[i].handle = flows[j].handle
      BY <2>2, <3>1, <3>2 DEF IInv, ActorOK, Own
    <3>4. QED
      BY <2>1, <3>1, <3>2, <3>3
  <2>4. EntriesKept
    BY <2>3 DEF EntriesKept, Keeps
  <2>5. QED
    BY <1>2, <2>1, <2>4
<1>7. CASE drained \/ tick \/ tcp_data \/ udp_reply \/ stack_send \/ forward \/ ticker \/ \E d \in todo : recv_from(d)
  <2>1. UNCHANGED <<flows, sockets, relay, flowOf, client>>
    BY <1>7 DEF drained, tick, tcp_data, udp_reply, stack_send, forward, ticker, recv_from
  <2>2. QED
    BY <1>3, <2>1 DEF StartedKept
<1>8. ASSUME NEW r \in Relay, RelayStep(r) PROVE LinksHold
  <2>1. UNCHANGED <<flows, sockets, flowOf, client>>
    BY <1>8 DEF RelayStep, connect, fwd, fwd_ends, bwd, bwd_ends, UdpStep, udp_sends, udp_timeout,
                udp_ends, udp_answer, udp_passes
  <2>2. relay' = relay \/ \E x \in {"up", "ended", "ask", "reply"} : relay' = [relay EXCEPT ![r] = x]
    <3>1. CASE fwd(r) \/ fwd_ends(r) \/ bwd(r)
      BY <3>1 DEF fwd, fwd_ends, bwd
    <3>2. CASE \E ok \in BOOLEAN : connect(r, ok)
      BY <3>2 DEF connect
    <3>3. CASE bwd_ends(r) \/ UdpStep(r) \/ udp_answer(r) \/ udp_passes(r)
      BY <3>3 DEF bwd_ends, UdpStep, udp_sends, udp_timeout, udp_ends, udp_answer, udp_passes
    <3>4. QED
      BY <1>8, <3>1, <3>2, <3>3 DEF RelayStep
  <2>3. \A q \in Relay : relay[q] # "none" => relay'[q] # "none"
    BY <2>2 DEF IInv, RelayOK
  <2>4. StartedKept
    BY <2>1, <2>3 DEF StartedKept
  <2>5. QED
    BY <1>3, <2>1, <2>4
<1>9. QED
  BY <1>1, <1>4, <1>5, <1>6, <1>7, <1>8 DEF Next, ActorStep

LEMMA KindStep ==
    ASSUME IInv, LinkOK, Next
    PROVE  \A r \in Relay : Kind(r)'
<1>1. CASE UNCHANGED <<relay, flowOf, reads>>
  BY <1>1 DEF LinkOK, Kind, IsTcp
<1>2. CASE inbound
  <2>1. UNCHANGED reads
    BY <1>2 DEF inbound
  <2>2. ASSUME NEW r \in Relay, NEW s \in FlowKey, NEW h \in Slot, NEW c \in Client \cup {NoClient},
               relay[r] = "none", Spawned(r, s, h, c)
        PROVE  \A q \in Relay : Kind(q)'
    <3>1. /\ relay'[r] = (IF s.proto = "tcp" THEN "dial" ELSE "up") /\ flowOf'[r].key = s
          /\ \A q \in Relay \ {r} : relay'[q] = relay[q] /\ flowOf'[q] = flowOf[q]
      BY <2>2 DEF Spawned, IInv, RelayOK
    <3>2. ~reads[r]
      BY <2>2 DEF IInv, RelayOK
    <3>3. QED
      BY <2>1, <3>1, <3>2 DEF LinkOK, Kind, IsTcp
  <2>3. QED
    BY <1>1, <1>2, <2>1, <2>2, InboundLinks
<1>3. CASE \/ drained \/ tick \/ tcp_data \/ udp_reply \/ evict_flows \/ stack_send \/ forward \/ ticker
           \/ (\E d \in todo : recv_from(d)) \/ \E k \in FlowKey : time_passes(k) \/ drain(k)
  BY <1>1, <1>3 DEF drained, tick, tcp_data, udp_reply, evict_flows, stack_send, forward, ticker, recv_from,
                    time_passes, drain
<1>4. ASSUME NEW r \in Relay, RelayStep(r) PROVE \A q \in Relay : Kind(q)'
  <2>1. Kind(r) /\ flowOf' = flowOf
    BY <1>4 DEF LinkOK, RelayStep, connect, fwd, fwd_ends, bwd, bwd_ends, UdpStep, udp_sends, udp_timeout,
                udp_ends, udp_answer, udp_passes
  <2>2. ASSUME NEW x \in {"none", "dial", "up", "ask", "reply", "ended"}, NEW b \in BOOLEAN,
               relay' = [relay EXCEPT ![r] = x], reads' = [reads EXCEPT ![r] = b],
               x # "none" => relay[r] # "none", x # "dial", x \in {"ask", "reply"} => ~IsTcp(r), b => IsTcp(r)
        PROVE  \A q \in Relay : Kind(q)'
    BY <2>1, <2>2 DEF IInv, RelayOK, LinkOK, Kind, IsTcp
  <2>3. ASSUME NEW b \in BOOLEAN, relay' = relay, reads' = [reads EXCEPT ![r] = b], b => IsTcp(r)
        PROVE  \A q \in Relay : Kind(q)'
    BY <2>1, <2>3 DEF IInv, RelayOK, LinkOK, Kind, IsTcp
  <2>4. reads[r] \in BOOLEAN /\ reads = [reads EXCEPT ![r] = reads[r]] /\ (reads[r] => IsTcp(r))
    BY <2>1 DEF IInv, RelayOK, Kind
  <2>5. ASSUME NEW ok \in BOOLEAN, connect(r, ok) PROVE \A q \in Relay : Kind(q)'
    <3>1. /\ relay[r] = "dial" /\ reads' = [reads EXCEPT ![r] = ok]
          /\ relay' = [relay EXCEPT ![r] = IF ok THEN "up" ELSE "ended"]
      BY <2>5 DEF connect
    <3>2. IsTcp(r)
      BY <2>1, <3>1 DEF Kind
    <3>3. QED
      BY <2>2, <3>1, <3>2
  <2>6. CASE fwd(r) \/ fwd_ends(r)
    <3>1. relay' = relay /\ reads' \in {reads, [reads EXCEPT ![r] = FALSE]}
      BY <2>6 DEF fwd, fwd_ends
    <3>2. CASE reads' = reads
      BY <1>1, <2>1, <3>1, <3>2
    <3>3. CASE reads' = [reads EXCEPT ![r] = FALSE]
      BY <2>3, <3>1, <3>3
    <3>4. QED
      BY <3>1, <3>2, <3>3
  <2>7. CASE bwd(r)
    BY <1>1, <2>7 DEF bwd
  <2>8. CASE bwd_ends(r) \/ UdpStep(r) \/ udp_answer(r) \/ udp_passes(r)
    <3>1. reads' = [reads EXCEPT ![r] = reads[r]] /\ relay[r] # "none"
      BY <2>4, <2>8 DEF bwd_ends, UdpStep, udp_sends, udp_timeout, udp_ends, udp_answer, udp_passes
    <3>2. \E x \in {"up", "ask", "reply", "ended"} :
             relay' = [relay EXCEPT ![r] = x] /\ (x \in {"ask", "reply"} => ~IsTcp(r))
      BY <2>1, <2>8 DEF bwd_ends, UdpStep, udp_sends, udp_timeout, udp_ends, udp_answer, udp_passes, Kind
    <3>3. QED
      BY <2>2, <2>4, <3>1, <3>2
  <2>9. QED
    BY <1>4, <2>5, <2>6, <2>7, <2>8 DEF RelayStep
<1>5. QED
  BY <1>2, <1>3, <1>4 DEF Next, ActorStep

\* Right, in the next state, of a message of this state.
RightNext(m) ==
    /\ m.type = "tcp_data" => flowOf'[m.relay].key.proto = "tcp"
    /\ m.type = "udp_reply" => relay'[m.relay] # "none" /\ flowOf'[m.relay].key.proto # "tcp"

LEMMA RightStep ==
    ASSUME IInv, LinkOK, Next
    PROVE  (\A i \in 1..Len(actor_rx) : Right(actor_rx[i]))'
<1> USE WgAssumption
<1>1. StartedKept
  BY LinksStep DEF LinksHold
<1>2. /\ actor_rx \in Seq(Msg) /\ Len(actor_rx) \in Nat
      /\ \A i \in 1..Len(actor_rx) : RightNext(actor_rx[i])
  <2>1. /\ actor_rx \in Seq(Msg) /\ Len(actor_rx) \in Nat
        /\ \A i \in 1..Len(actor_rx) : actor_rx[i] \in Msg /\ Sound(actor_rx[i]) /\ Right(actor_rx[i])
    BY DEF IInv, ChannelOK, LinkOK
  <2>2. ASSUME NEW m \in Msg, Sound(m), Right(m) PROVE RightNext(m)
    BY <1>1, <2>2, MsgFacts DEF Sound, Right, RightNext, StartedKept, IsTcp
  <2>3. QED
    BY <2>1, <2>2
<1>3. SUFFICES \A i \in 1..Len(actor_rx') : RightNext(actor_rx'[i])
  BY DEF Right, RightNext, IsTcp
<1>4. CASE UNCHANGED actor_rx
  BY <1>2, <1>4
<1>5. ASSUME NEW m \in Msg, RightNext(m), actor_rx' = Append(actor_rx, m)
      PROVE  \A i \in 1..Len(actor_rx') : RightNext(actor_rx'[i])
  <2>1. /\ Len(actor_rx') = Len(actor_rx) + 1
        /\ (\A i \in 1..Len(actor_rx) : actor_rx'[i] = actor_rx[i]) /\ actor_rx'[Len(actor_rx) + 1] = m
    BY <1>2, <1>5, AppendFacts
  <2>2. SUFFICES ASSUME NEW i \in 1..Len(actor_rx') PROVE RightNext(actor_rx'[i])
    OBVIOUS
  <2>3. CASE i \in 1..Len(actor_rx)
    BY <1>2, <2>1, <2>3
  <2>4. CASE i = Len(actor_rx) + 1
    BY <1>5, <2>1, <2>4
  <2>5. QED
    BY <1>2, <2>1, <2>3, <2>4
<1>6. ASSUME actor_rx # <<>>, actor_rx' = Tail(actor_rx)
      PROVE  \A i \in 1..Len(actor_rx') : RightNext(actor_rx'[i])
  <2>1. /\ Len(actor_rx') = Len(actor_rx) - 1 /\ Len(actor_rx') \in Nat
        /\ \A i \in 1..Len(actor_rx') : actor_rx'[i] = actor_rx[i + 1]
    BY <1>2, <1>6, TailFacts
  <2>2. \A i \in 1..Len(actor_rx') : i + 1 \in 1..Len(actor_rx)
    BY <1>2, <2>1
  <2>3. QED
    BY <1>2, <2>1, <2>2
<1>7. CASE inbound \/ tick \/ udp_reply
  BY <1>6, <1>7 DEF inbound, tick, udp_reply
<1>8. CASE tcp_data
  <2>1. CASE actor_rx' = <<>>
    BY <2>1
  <2>2. CASE actor_rx' # <<>>
    BY <1>6, <1>8, <2>2 DEF tcp_data
  <2>3. QED
    BY <2>1, <2>2
<1>9. CASE forward
  <2> DEFINE m == [type |-> "inbound", pkt |-> Head(stack_rx[First])]
  <2>1. Head(stack_rx[First]) \in Packet
    BY <1>9, TailFacts DEF forward, IInv, ServerOK
  <2>2. m \in Msg /\ RightNext(m) /\ actor_rx' = Append(actor_rx, m)
    BY <1>9, <2>1 DEF Msg, RightNext, forward
  <2> HIDE DEF m
  <2>3. QED
    BY <1>5, <2>2
<1>10. CASE ticker
  <2> DEFINE m == [type |-> "tick"]
  <2>1. m \in Msg /\ RightNext(m) /\ actor_rx' = Append(actor_rx, m)
    BY <1>10 DEF Msg, RightNext, ticker
  <2> HIDE DEF m
  <2>2. QED
    BY <1>5, <2>1
<1>11. ASSUME NEW r \in Relay, fwd(r) PROVE \A i \in 1..Len(actor_rx') : RightNext(actor_rx'[i])
  <2>1. CASE actor = "panicked"
    BY <1>4, <1>11, <2>1 DEF fwd
  <2>2. CASE actor # "panicked"
    <3> DEFINE m == [type |-> "tcp_data", relay |-> r, client |-> client[r]]
    <3>1. actor_rx' = Append(actor_rx, m) /\ reads[r] /\ UNCHANGED flowOf
      BY <1>11, <2>2 DEF fwd
    <3>2. client[r] \in Client /\ flowOf[r].key.proto = "tcp"
      BY <3>1 DEF IInv, RelayOK, LinkOK, Kind, IsTcp
    <3>3. m \in Msg /\ RightNext(m)
      BY <3>1, <3>2 DEF Msg, RightNext
    <3> HIDE DEF m
    <3>4. QED
      BY <1>5, <3>1, <3>3
  <2>3. QED
    BY <2>1, <2>2
<1>12. ASSUME NEW r \in Relay, udp_passes(r) PROVE \A i \in 1..Len(actor_rx') : RightNext(actor_rx'[i])
  <2>1. CASE actor = "panicked"
    BY <1>4, <1>12, <2>1 DEF udp_passes
  <2>2. CASE actor # "panicked"
    <3> DEFINE m == [type |-> "udp_reply", relay |-> r, client |-> asker[r]]
    <3>1. actor_rx' = Append(actor_rx, m) /\ relay[r] = "reply" /\ UNCHANGED flowOf
      BY <1>12, <2>2 DEF udp_passes
    <3>2. asker[r] \in Client /\ flowOf[r].key.proto # "tcp" /\ relay'[r] # "none"
      BY <1>1, <3>1 DEF IInv, RelayOK, LinkOK, Kind, IsTcp, StartedKept
    <3>3. m \in Msg
      BY <3>2 DEF Msg
    <3>4. RightNext(m)
      BY <3>1, <3>2 DEF RightNext
    <3> HIDE DEF m
    <3>5. QED
      BY <1>5, <3>1, <3>3, <3>4
  <2>3. QED
    BY <2>1, <2>2
<1>13. CASE \/ drained \/ evict_flows \/ stack_send \/ (\E d \in todo : recv_from(d))
            \/ \E k \in FlowKey : time_passes(k) \/ drain(k)
  BY <1>4, <1>13 DEF drained, evict_flows, stack_send, recv_from, time_passes, drain
<1>14. ASSUME NEW r \in Relay, RelayStep(r) PROVE \A i \in 1..Len(actor_rx') : RightNext(actor_rx'[i])
  <2>1. CASE (\E ok \in BOOLEAN : connect(r, ok)) \/ fwd_ends(r) \/ bwd(r) \/ bwd_ends(r) \/ UdpStep(r) \/ udp_answer(r)
    BY <1>4, <2>1 DEF connect, fwd_ends, bwd, bwd_ends, UdpStep, udp_sends, udp_timeout, udp_ends, udp_answer
  <2>2. QED
    BY <1>11, <1>12, <1>14, <2>1 DEF RelayStep
<1>15. QED
  BY <1>7, <1>8, <1>9, <1>10, <1>13, <1>14 DEF Next, ActorStep

\* A message the actor takes, its relay and that relay's flow.
LEMMA TakenMsg ==
    ASSUME IInv, LinkOK, actor_rx # <<>>, Head(actor_rx).type \in {"tcp_data", "udp_reply"}
    PROVE  LET r == Head(actor_rx).relay
           IN /\ r \in Relay /\ relay[r] # "none" /\ flowOf[r].key \in FlowKey
              /\ Head(actor_rx).type = "tcp_data" <=> IsTcp(r)
<1>1. Head(actor_rx) \in Msg /\ Head(actor_rx) = actor_rx[1] /\ Len(actor_rx) > 0
  BY TailFacts DEF IInv, ChannelOK
<1>2. Sound(Head(actor_rx)) /\ Right(Head(actor_rx))
  BY <1>1 DEF IInv, ChannelOK, LinkOK
<1>3. Head(actor_rx).relay \in Relay /\ relay[Head(actor_rx).relay] # "none"
  BY <1>1, <1>2, MsgFacts DEF Sound, Right
<1>4. QED
  BY <1>2, <1>3 DEF Right, LinkOK, Kind

\* A relay that has not outlived its flow has the flow's socket.
LEMMA OwnSocket ==
    ASSUME IInv, LinkOK, NEW r \in Relay, flowOf[r].key \in FlowKey, ~Outlived(r)
    PROVE  /\ flows[flowOf[r].key] # NoFlow /\ flows[flowOf[r].key].handle = flowOf[r].handle
           /\ IsTcp(r) => /\ sockets[flowOf[r].handle].state \in Live
                          /\ sockets[flowOf[r].handle].remote = client[r]
<1> DEFINE k == flowOf[r].key
<1>1. flows[k].relay = r /\ r # NoRelay
  BY NoRelayIsNone DEF Outlived
<1>2. Linked(k)
  BY DEF LinkOK
<1>3. flows[k] # NoFlow
  BY <1>1 DEF NoFlow
<1>4. QED
  BY <1>1, <1>2, <1>3 DEF Linked, IsTcp

\* The exceptions of AnswersReachTheAsker.
Fair(g) == g.to = g.from \/ Outlived(g.relay) \/ (~IsTcp(g.relay) /\ flowOf[g.relay].key.src # g.from)

LEMMA NewAnswer ==
    ASSUME IInv, LinkOK, Next, NEW g \in got', g \notin got
    PROVE  relay[g.relay] # "none" /\ g.relay \in Relay /\ Fair(g)
<1>1. CASE tcp_data
  <2> DEFINE r == Head(actor_rx).relay
             sock == sockets[flowOf[r].handle]
  <2>1. r \in Relay /\ relay[r] # "none" /\ flowOf[r].key \in FlowKey /\ IsTcp(r)
    BY <1>1, TakenMsg DEF tcp_data
  <2>2. g = [from |-> client[r], to |-> sock.remote, relay |-> r]
    BY <1>1 DEF tcp_data
  <2>3. g.relay = r /\ g.from = client[r] /\ g.to = sock.remote
    BY <2>2
  <2> HIDE DEF r
  <2>4. ~Outlived(r) => sock.remote = client[r]
    BY <2>1, OwnSocket
  <2>5. QED
    BY <2>1, <2>3, <2>4 DEF Fair
<1>2. CASE udp_reply
  <2> DEFINE m == Head(actor_rx)
             r == m.relay
  <2>1. r \in Relay /\ relay[r] # "none" /\ flowOf[r].key \in FlowKey /\ ~IsTcp(r)
    BY <1>2, TakenMsg DEF udp_reply
  <2>2. PICK k \in FlowsAt(flowOf[r].handle) : g = [from |-> m.client, to |-> k.src, relay |-> r]
    BY <1>2 DEF udp_reply
  <2>3. g.relay = r /\ g.from = m.client /\ g.to = k.src
    BY <2>2
  <2> HIDE DEF r, m
  <2>4. k \in FlowKey /\ flows[k] # NoFlow /\ flows[k].handle = flowOf[r].handle
    BY <2>2 DEF FlowsAt
  <2>5. ASSUME ~Outlived(r) PROVE k = flowOf[r].key
    BY <2>1, <2>4, <2>5, OwnSocket DEF IInv, ActorOK, Own
  <2>6. QED
    BY <2>1, <2>3, <2>5 DEF Fair
<1>3. CASE \/ inbound \/ drained \/ tick \/ evict_flows \/ stack_send \/ forward \/ ticker
           \/ (\E d \in todo : recv_from(d)) \/ \E k \in FlowKey : time_passes(k) \/ drain(k)
  BY <1>3 DEF inbound, drained, tick, evict_flows, stack_send, forward, ticker, recv_from, time_passes, drain
<1>4. ASSUME NEW r \in Relay, RelayStep(r) PROVE FALSE
  BY <1>4 DEF RelayStep, connect, fwd, fwd_ends, bwd, bwd_ends, UdpStep, udp_sends, udp_timeout,
                    udp_ends, udp_answer, udp_passes
<1>5. QED
  BY <1>1, <1>2, <1>3, <1>4 DEF Next, ActorStep

\* The actor panics only on data of a TCP relay that has outlived its flow.
LEMMA NewPanic ==
    ASSUME IInv, LinkOK, Next, actor' = "panicked", actor # "panicked"
    PROVE  \E r \in Relay : relay[r] # "none" /\ IsTcp(r) /\ Outlived(r)
<1>1. tcp_data
  <2>1. ASSUME NEW r \in Relay, RelayStep(r) PROVE FALSE
    BY <2>1 DEF RelayStep, connect, fwd, fwd_ends, bwd, bwd_ends, UdpStep, udp_sends, udp_timeout,
                udp_ends, udp_answer, udp_passes
  <2>2. QED
    BY <2>1 DEF Next, ActorStep, inbound, drained, tick, evict_flows, stack_send, forward, ticker, recv_from,
                time_passes, drain, udp_reply
<1> DEFINE r == Head(actor_rx).relay
<1>2. r \in Relay /\ relay[r] # "none" /\ flowOf[r].key \in FlowKey /\ IsTcp(r)
  BY <1>1, TakenMsg DEF tcp_data
<1>3. sockets[flowOf[r].handle].state \notin TcpStates
  BY <1>1 DEF tcp_data
<1> HIDE DEF r
<1>4. Outlived(r)
  BY <1>2, <1>3, OwnSocket DEF Live, TcpStates
<1>5. QED
  BY <1>2, <1>4

LEMMA AnswersStep ==
    ASSUME AInv, Next
    PROVE  AnswersReachTheAsker' /\ \A g \in got' : relay'[g.relay] # "none"
<1>1. StartedKept /\ \A r \in Relay : relay[r] # "none" /\ Outlived(r) => Outlived(r)'
  BY LinksStep DEF LinksHold, AInv
<1>2. ASSUME NEW g \in got' PROVE relay[g.relay] # "none" /\ g.relay \in Relay /\ Fair(g)
  <2>1. CASE g \in got
    BY <2>1 DEF AInv, IInv, GotOK, LinkOK, AnswersReachTheAsker, Fair
  <2>2. CASE g \notin got
    BY <2>2, NewAnswer DEF AInv
  <2>3. QED
    BY <2>1, <2>2
<1>3. ASSUME NEW g \in got'
      PROVE  /\ relay'[g.relay] # "none"
             /\ \/ g.to = g.from \/ flows'[flowOf'[g.relay].key].relay # g.relay
                \/ flowOf'[g.relay].key.proto # "tcp" /\ flowOf'[g.relay].key.src # g.from
  BY <1>1, <1>2 DEF Fair, StartedKept, Outlived, IsTcp
<1>4. ASSUME actor' = "panicked" PROVE (\E r \in Relay : relay[r] # "none" /\ IsTcp(r) /\ Outlived(r))'
  <2>1. PICK r \in Relay : relay[r] # "none" /\ IsTcp(r) /\ Outlived(r)
    BY <1>4, NewPanic DEF AInv, AnswersReachTheAsker
  <2>2. relay'[r] # "none" /\ IsTcp(r)' /\ Outlived(r)'
    BY <1>1, <2>1 DEF StartedKept, IsTcp
  <2>3. QED
    BY <2>2
<1>5. QED
  BY <1>3, <1>4 DEF AnswersReachTheAsker, Outlived, IsTcp

LEMMA LinkStep ==
    ASSUME AInv, Next
    PROVE  LinkOK'
<1>1. (\A k \in FlowKey : Linked(k))'
  BY LinksStep DEF LinksHold, AInv
<1>2. (\A r \in Relay : Kind(r))' /\ (\A i \in 1..Len(actor_rx) : Right(actor_rx[i]))'
  BY KindStep, RightStep DEF AInv
<1>3. (\A g \in got : relay[g.relay] # "none")'
  BY AnswersStep
<1>4. QED
  BY <1>1, <1>2, <1>3 DEF LinkOK

LEMMA AnswersInvariance == Spec => []AInv
<1>1. Init => AInv
  <2>1. ASSUME Init PROVE LinkOK /\ AnswersReachTheAsker
    <3>1. /\ \A k \in FlowKey : flows[k].relay = NoRelay
          /\ \A r \in Relay : relay[r] = "none" /\ ~reads[r]
          /\ actor_rx = <<>> /\ got = {} /\ actor = "recv"
      BY <2>1 DEF Init, NoFlow
    <3>2. QED
      BY <3>1 DEF LinkOK, Linked, Kind, AnswersReachTheAsker
  <2>2. QED
    BY <2>1, InitOK DEF AInv
<1>2. AInv /\ IInv' /\ [Next]_vars => AInv'
  <2>1. CASE AInv /\ IInv' /\ Next
    BY <2>1, LinkStep, AnswersStep DEF AInv
  <2>2. CASE AInv /\ IInv' /\ UNCHANGED vars
    BY <2>2 DEF vars, AInv, LinkOK, Linked, Kind, Right, IsTcp, AnswersReachTheAsker, Outlived
  <2>3. QED
    BY <2>1, <2>2
<1>3. QED
  BY <1>1, <1>2, Invariance, PTL DEF Spec

\* An answer reaches the client that asked and the actor never panics, unless a relay has
\* outlived its evicted flow or two UDP clients share a destination, however many clients,
\* flows, slots and relays there are and whatever is evicted when.
THEOREM AnswersArrive == Spec => []AnswersReachTheAsker
<1>1. AInv => AnswersReachTheAsker
  BY DEF AInv
<1>2. QED
  BY <1>1, AnswersInvariance, PTL
=============================================================================
