----------------------------- MODULE Wireguard -----------------------------
(***************************************************************************)
(* The WireGuard exit node: the receive loop that finds the peer of an     *)
(* outer datagram, decrypts it and hands the inner packet to that peer's   *)
(* stack (wireguard/server.rs, peer.rs), and the stack's actor, which      *)
(* feeds a userspace TCP/IP stack with one socket per flow and relays each *)
(* flow to its real destination (wireguard/stack.rs, iface.rs).            *)
(*                                                                         *)
(* Outer datagrams arrive in any order or not at all.  smoltcp's socket    *)
(* set is external: a slot is freed by remove and reused by the next add,  *)
(* get_mut panics on a free slot or on a socket of the other protocol, and *)
(* a packet goes to the first socket that accepts it.                      *)
(***************************************************************************)
EXTENDS Naturals, Sequences, FiniteSets

CONSTANTS
    Peer,       \* peers; the model follows the stack of First
    First,      \* the peer that peers.iter().next() returns, the same at every call
    Addr,       \* outer addresses
    NoAddr,     \* None
    Client,     \* inner source endpoints
    NoClient,
    Dst,        \* inner destination endpoints
    Workloads,  \* bound: sets of datagrams, each a subset of Datagram
    MaxSock,    \* bound: sockets at a time
    MaxRelay,   \* bound: relay tasks of the stack, over its lifetime
    MaxData,    \* bound: pieces of data one TCP remote sends
    Idling,     \* bound: whether the run is long enough for flows to fall idle
    StackCap,   \* capacity of the channel into the stack (512 in the code)
    ActorCap,   \* capacity of the actor's channel (2048 in the code)
    OutCap      \* capacity of a relay's channel (256 for TCP, 128 for UDP)

ASSUME WgAssumption ==
    /\ First \in Peer
    /\ NoAddr \notin Addr /\ NoClient \notin Client
    /\ Idling \in BOOLEAN
    /\ MaxSock \in Nat /\ MaxRelay \in Nat /\ MaxData \in Nat
    /\ StackCap \in Nat \ {0} /\ ActorCap \in Nat \ {0} /\ OutCap \in Nat \ {0}

\* FlowKey, as parse_flow_key returns it.
FlowKey == [proto : {"tcp", "udp"}, src : Client, dst : Dst]

\* An inner packet: a UDP datagram, or the TCP segments that matter to the stack.
Packet == {p \in [key : FlowKey, kind : {"syn", "data", "fin", "rst"}] :
             p.key.proto = "udp" => p.kind = "data"}

\* An outer datagram: where it comes from, whose keys it was made with, its counter,
\* whether its inner source is one of that peer's AllowedIPs, and the packet inside it; a
\* handshake has no packet inside.
Handshake == [kind |-> "handshake"]
Datagram == [from : Addr, by : Peer, counter : Nat, allowed : BOOLEAN, body : Packet \cup {Handshake}]

ASSUME WorkloadAssumption == \A W \in Workloads : W \subseteq Datagram

Slot == 0..(MaxSock - 1)
Relay == 1..MaxRelay
NoRelay == 0

\* A smoltcp socket: state "free", or a UDP socket "bound", or a TCP socket; remote is the
\* client a TCP socket is connected to, rx the clients whose data it holds.
FreeSock == [state |-> "free", dst |-> NoClient, remote |-> NoClient, rx |-> <<>>]
TcpStates == {"listen", "syn_received", "established", "close_wait", "closed"}

\* An entry of tcp_flows or udp_flows.
NoFlow == [handle |-> MaxSock, relay |-> NoRelay, idle |-> FALSE]

Msg == [type : {"inbound"}, pkt : Packet]
         \cup [type : {"tcp_data", "udp_reply"}, relay : Relay, client : Client \cup {NoClient}]
         \cup [type : {"tick"}]

VARIABLES
    todo,       \* datagrams on their way
    endpoint,   \* Peer.endpoint
    rl,         \* receive loop: "recv", or "send" while the channel into a stack is full
    held,       \* the peer and the packet it sends
    stack_rx,   \* channels into the stacks
    actor_rx,   \* the actor's channel
    actor,      \* "recv", "drain", "tick" (drains, then evicts) or "panicked"
    sockets,    \* smoltcp's SocketSet
    flows,      \* tcp_flows and udp_flows
    relay,      \* relay tasks: "none", "dial", "up", "ended"; a UDP relay awaits an
                \* answer in "ask" and passes it to the actor in "reply"
    flowOf,     \* the flow a relay was started for and its socket
    client,     \* the client the socket was connected to when the relay was started
    reads,      \* a TCP relay's fwd half is still reading the remote
    out,        \* a relay's channel: the clients whose data is in it
    asker,      \* the client whose datagram a UDP relay has sent
    got,        \* what clients received: [relay, to], [asker, to] for UDP
    fed         \* pieces of data a TCP relay's remote has sent

serverVars == <<todo, endpoint, rl, held>>
actorVars  == <<actor, sockets, flows>>
relayVars  == <<relay, flowOf, client, reads, out, asker, fed>>
vars == <<serverVars, stack_rx, actor_rx, actorVars, relayVars, got>>

NoKey == [proto |-> "none"]

Init ==
    /\ todo \in Workloads
    /\ endpoint = [p \in Peer |-> NoAddr]
    /\ rl = "recv" /\ held = [peer |-> First, pkt |-> NoKey]
    /\ stack_rx = [p \in Peer |-> <<>>]
    /\ actor_rx = <<>> /\ actor = "recv"
    /\ sockets = [h \in Slot |-> FreeSock]
    /\ flows = [k \in FlowKey |-> NoFlow]
    /\ relay = [r \in Relay |-> "none"]
    /\ flowOf = [r \in Relay |-> [key |-> NoKey, handle |-> MaxSock]]
    /\ client = [r \in Relay |-> NoClient]
    /\ reads = [r \in Relay |-> FALSE]
    /\ out = [r \in Relay |-> <<>>]
    /\ asker = [r \in Relay |-> NoClient]
    /\ got = {}
    /\ fed = [r \in Relay |-> 0]

-----------------------------------------------------------------------------
(* server.rs                                                                *)

\* The peer whose endpoint the address is, and the first peer if there is none ("correct
\* with a single peer", says the comment at server.rs:263).
find_peer(a) ==
    LET known == {p \in Peer : endpoint[p] = a}
    IN IF known = {} THEN {First} ELSE known

\* One turn of the receive loop: the endpoint is set before decapsulate, which fails if
\* the datagram was made with other keys than the peer's; a handshake is answered; a
\* packet from outside AllowedIPs is dropped; others go to the peer's stack.
recv_from(d) ==
    /\ rl = "recv" /\ d \in todo
    /\ todo' = todo \ {d}
    /\ \E p \in find_peer(d.from) :
         /\ endpoint' = [endpoint EXCEPT ![p] = d.from]
         /\ IF d.by = p /\ d.body # Handshake /\ d.allowed
            THEN rl' = "send" /\ held' = [peer |-> p, pkt |-> d.body]
            ELSE UNCHANGED <<rl, held>>
    /\ UNCHANGED <<stack_rx, actor_rx, actorVars, relayVars, got>>

\* stack_tx.send(ip_pkt).await: waits for room; if the actor is gone, so is the channel's
\* receiver, and the packet is dropped.
stack_send ==
    /\ rl = "send"
    /\ \/ /\ held.peer = First => actor # "panicked"
          /\ Len(stack_rx[held.peer]) < StackCap
          /\ stack_rx' = [stack_rx EXCEPT ![held.peer] = Append(@, held.pkt)]
       \/ held.peer = First /\ actor = "panicked" /\ UNCHANGED stack_rx
    /\ rl' = "recv" /\ held' = [peer |-> First, pkt |-> NoKey]
    /\ UNCHANGED <<todo, endpoint, actor_rx, actorVars, relayVars, got>>

-----------------------------------------------------------------------------
(* spawn_stack: the forwarder and the ticker                                *)

\* Mutant: the channel has no bound.
HasRoom_Always == TRUE

HasRoom == Len(actor_rx) < ActorCap

forward ==
    /\ actor # "panicked" /\ stack_rx[First] # <<>> /\ HasRoom
    /\ actor_rx' = Append(actor_rx, [type |-> "inbound", pkt |-> Head(stack_rx[First])])
    /\ stack_rx' = [stack_rx EXCEPT ![First] = Tail(@)]
    /\ UNCHANGED <<serverVars, actorVars, relayVars, got>>

\* Every 100 ms.  Bound: one tick in the channel at a time.
ticker ==
    /\ actor # "panicked" /\ HasRoom
    /\ \A i \in 1..Len(actor_rx) : actor_rx[i].type # "tick"
    /\ actor_rx' = Append(actor_rx, [type |-> "tick"])
    /\ UNCHANGED <<serverVars, stack_rx, actorVars, relayVars, got>>

-----------------------------------------------------------------------------
(* The actor: inbound packets                                               *)

Lowest(H) == CHOOSE h \in H : \A g \in H : h <= g

\* ensure_tcp and ensure_udp: a socket in the lowest free slot and an entry for it.
NewSock(k) == [FreeSock EXCEPT !.state = IF k.proto = "tcp" THEN "listen" ELSE "bound", !.dst = k.dst]

\* Mutant: a slot in use is given out again.
FreeSlots_All == Slot

FreeSlots == {h \in Slot : sockets[h].state = "free"}

Ensured(k) == IF flows[k] = NoFlow THEN [sockets EXCEPT ![Lowest(FreeSlots)] = NewSock(k)] ELSE sockets

\* inject_and_poll: the first socket that accepts the packet.  A UDP socket accepts what
\* is for its endpoint, whoever sent it, and so does a listening TCP socket with a SYN;
\* a connected TCP socket accepts only its own connection.
Accepts(sock, pkt) ==
    /\ sock.state # "free" /\ sock.dst = pkt.key.dst
    /\ IF pkt.key.proto = "udp" THEN sock.state = "bound"
       ELSE \/ sock.state = "listen" /\ pkt.kind = "syn"
            \/ sock.state \in {"syn_received", "established", "close_wait"} /\ sock.remote = pkt.key.src

\* What the socket does with it.  A segment that carries data also acknowledges the SYN.
\* The program never closes a socket, so one whose client has sent a FIN stays half open.
Taken(sock, pkt) ==
    CASE pkt.key.proto = "udp" -> [sock EXCEPT !.rx = Append(@, pkt.key.src)]
      [] pkt.kind = "syn" /\ sock.state = "listen" ->
            [sock EXCEPT !.remote = pkt.key.src, !.state = "syn_received"]
      [] pkt.kind = "data" /\ sock.state \in {"syn_received", "established"} ->
            [sock EXCEPT !.state = "established", !.rx = Append(@, pkt.key.src)]
      [] pkt.kind = "fin" /\ sock.state \in {"syn_received", "established"} ->
            [sock EXCEPT !.state = "close_wait"]
      [] pkt.kind = "rst" /\ sock.state = "syn_received" ->
            [sock EXCEPT !.state = "listen", !.remote = NoClient]
      [] pkt.kind = "rst" /\ sock.state # "syn_received" -> [sock EXCEPT !.state = "closed"]
      [] OTHER -> sock

Injected(socks, pkt) ==
    LET A == {h \in Slot : Accepts(socks[h], pkt)}
    IN IF A = {} THEN socks ELSE [socks EXCEPT ![Lowest(A)] = Taken(@, pkt)]

FreshRelay == Lowest({r \in Relay : relay[r] = "none"})

\* start_tcp_relays finds a flow whose socket has become established.
Starts(socks, fl) ==
    {k \in FlowKey : /\ k.proto = "tcp" /\ fl[k] # NoFlow /\ fl[k].relay = NoRelay
                     /\ socks[fl[k].handle].state = "established"}

Spawned(r, k, h, c) ==
    /\ relay' = [relay EXCEPT ![r] = IF k.proto = "tcp" THEN "dial" ELSE "up"]
    /\ flowOf' = [flowOf EXCEPT ![r] = [key |-> k, handle |-> h]]
    /\ client' = [client EXCEPT ![r] = c]

inbound ==
    /\ actor = "recv" /\ actor_rx # <<>> /\ Head(actor_rx).type = "inbound"
    /\ LET pkt == Head(actor_rx).pkt
           k == pkt.key
           new == flows[k] = NoFlow
           h == IF new THEN Lowest(FreeSlots) ELSE flows[k].handle
           socks == Injected(Ensured(k), pkt)
           fl == IF new THEN [flows EXCEPT ![k] = [handle |-> h, relay |-> NoRelay, idle |-> FALSE]] ELSE flows
           S == Starts(socks, fl)
       IN /\ new => FreeSlots # {}                               \* bound: MaxSock
          /\ (new /\ k.proto = "udp") \/ S # {} =>               \* bound: MaxRelay
                \E r \in Relay : relay[r] = "none"
          /\ sockets' = socks
          /\ IF new /\ k.proto = "udp"
             THEN /\ flows' = [fl EXCEPT ![k].relay = FreshRelay]
                  /\ Spawned(FreshRelay, k, h, NoClient)
             ELSE IF S # {}
             THEN \E s \in S : /\ flows' = [fl EXCEPT ![s].relay = FreshRelay]
                               /\ Spawned(FreshRelay, s, fl[s].handle, socks[fl[s].handle].remote)
             ELSE flows' = fl /\ UNCHANGED <<relay, flowOf, client>>
    /\ actor_rx' = Tail(actor_rx) /\ actor' = "drain"
    /\ UNCHANGED <<serverVars, stack_rx, reads, out, asker, fed, got>>

-----------------------------------------------------------------------------
(* The actor: draining, fed, ticks                                      *)

\* drain_tcp_recv skips flows whose relay has not been started.
Drainable(k) ==
    /\ flows[k] # NoFlow /\ flows[k].relay # NoRelay
    /\ sockets[flows[k].handle].rx # <<>>

\* A relay's channel is open until its receiving task has ended.
OutOpen(r) == relay[r] \in {"dial", "up", "ask", "reply"}

\* All bytes of a TCP socket go as one item, UDP datagrams one by one.  The actor waits
\* while the channel is full; what a closed channel refuses is lost.
drain(k) ==
    /\ actor \in {"drain", "tick"} /\ Drainable(k)
    /\ LET r == flows[k].relay
           rx == sockets[flows[k].handle].rx
           one == k.proto = "udp"
       IN /\ OutOpen(r) => Len(out[r]) < OutCap
          /\ out' = [out EXCEPT ![r] = IF OutOpen(r) THEN Append(@, Head(rx)) ELSE @]
          /\ sockets' = [sockets EXCEPT ![flows[k].handle].rx = IF one THEN Tail(@) ELSE <<>>]
    /\ flows' = [flows EXCEPT ![k].idle = FALSE]
    /\ UNCHANGED <<serverVars, stack_rx, actor_rx, actor, relay, flowOf, client, reads, asker, fed, got>>

drained ==
    /\ actor = "drain" /\ \A k \in FlowKey : ~Drainable(k)
    /\ actor' = "recv"
    /\ UNCHANGED <<serverVars, stack_rx, actor_rx, sockets, flows, relayVars, got>>

tick ==
    /\ actor = "recv" /\ actor_rx # <<>> /\ Head(actor_rx).type = "tick"
    /\ actor_rx' = Tail(actor_rx) /\ actor' = "tick"
    /\ UNCHANGED <<serverVars, stack_rx, sockets, flows, relayVars, got>>

\* A flow has been idle for TCP_IDLE or UDP_IDLE.  Only data from the client counts as
\* activity: what the remote sends does not.
time_passes(k) ==
    /\ Idling /\ flows[k] # NoFlow /\ ~flows[k].idle
    /\ flows' = [flows EXCEPT ![k].idle = TRUE]
    /\ UNCHANGED <<serverVars, stack_rx, actor_rx, actor, sockets, relayVars, got>>

\* After the drains of a tick (no socket has become established since the last packet,
\* so start_tcp_relays finds none) the idle flows and their sockets go.
evict_flows ==
    /\ actor = "tick" /\ \A k \in FlowKey : ~Drainable(k)
    /\ LET gone == {k \in FlowKey : flows[k] # NoFlow /\ flows[k].idle}
       IN /\ flows' = [k \in FlowKey |-> IF k \in gone THEN NoFlow ELSE flows[k]]
          /\ sockets' = [h \in Slot |-> IF \E k \in gone : flows[k].handle = h THEN FreeSock ELSE sockets[h]]
    /\ actor' = "recv"
    /\ UNCHANGED <<serverVars, stack_rx, actor_rx, relayVars, got>>

\* Msg::TcpData goes to whatever holds the slot: a free slot or a UDP socket makes
\* get_mut panic and ends the actor, and with it everything of this peer.
tcp_data ==
    /\ actor = "recv" /\ actor_rx # <<>> /\ Head(actor_rx).type = "tcp_data"
    /\ LET r == Head(actor_rx).relay
           sock == sockets[flowOf[r].handle]
       IN IF sock.state \notin TcpStates
          THEN actor' = "panicked" /\ actor_rx' = <<>> /\ UNCHANGED got
          ELSE /\ actor_rx' = Tail(actor_rx)
               /\ got' = IF sock.state \in {"established", "close_wait"}
                         THEN got \cup {[from |-> client[r], to |-> sock.remote, relay |-> r]} ELSE got
               /\ UNCHANGED actor
    /\ UNCHANGED <<serverVars, stack_rx, sockets, flows, relayVars>>

\* Mutant: the handle is not compared.
FlowsAt_Any(h) == {k \in FlowKey : k.proto = "udp" /\ flows[k] # NoFlow}

\* udp_flows.iter().find(handle)
FlowsAt(h) == {k \in FlowKey : k.proto = "udp" /\ flows[k] # NoFlow /\ flows[k].handle = h}

\* Msg::UdpReply goes to the source of whichever UDP flow has the handle by now.
udp_reply ==
    /\ actor = "recv" /\ actor_rx # <<>> /\ Head(actor_rx).type = "udp_reply"
    /\ LET m == Head(actor_rx)
           F == FlowsAt(flowOf[m.relay].handle)
       IN IF F = {} THEN UNCHANGED got
          ELSE \E k \in F : got' = got \cup {[from |-> m.client, to |-> k.src, relay |-> m.relay]}
    /\ actor_rx' = Tail(actor_rx)
    /\ UNCHANGED <<serverVars, stack_rx, actor, sockets, flows, relayVars>>

-----------------------------------------------------------------------------
(* Relay tasks                                                              *)

IsTcp(r) == flowOf[r].key.proto = "tcp"

\* The actor's table holds the sender of the relay's channel.
TxAlive(r) == actor # "panicked" /\ flows[flowOf[r].key].relay = r

connect(r, ok) ==
    /\ relay[r] = "dial"
    /\ relay' = [relay EXCEPT ![r] = IF ok THEN "up" ELSE "ended"]
    /\ reads' = [reads EXCEPT ![r] = ok]
    /\ out' = [out EXCEPT ![r] = IF ok THEN @ ELSE <<>>]
    /\ UNCHANGED <<serverVars, stack_rx, actor_rx, actorVars, flowOf, client, asker, fed, got>>

\* fwd: a piece of data from the remote goes into the actor's channel; it ends with the
\* remote's side or with the actor, and is not told that its flow has been evicted.
fwd(r) ==
    /\ reads[r] /\ fed[r] < MaxData
    /\ actor # "panicked" => HasRoom
    /\ IF actor = "panicked" THEN reads' = [reads EXCEPT ![r] = FALSE] /\ UNCHANGED actor_rx
       ELSE /\ actor_rx' = Append(actor_rx, [type |-> "tcp_data", relay |-> r, client |-> client[r]])
            /\ UNCHANGED reads
    /\ fed' = [fed EXCEPT ![r] = @ + 1]
    /\ UNCHANGED <<serverVars, stack_rx, actorVars, relay, flowOf, client, out, asker, got>>

fwd_ends(r) ==
    /\ reads[r]
    /\ reads' = [reads EXCEPT ![r] = FALSE]
    /\ UNCHANGED <<serverVars, stack_rx, actor_rx, actorVars, relay, flowOf, client, out, asker, fed, got>>

\* bwd: write_all returns once the remote has taken the bytes.
bwd(r) ==
    /\ IsTcp(r) /\ relay[r] = "up" /\ out[r] # <<>>
    /\ out' = [out EXCEPT ![r] = Tail(@)]
    /\ UNCHANGED <<serverVars, stack_rx, actor_rx, actorVars, relay, flowOf, client, reads, asker, fed, got>>

\* bwd ends when the channel is empty and its sender gone, or when a write fails.
bwd_ends(r) ==
    /\ IsTcp(r) /\ relay[r] = "up"
    /\ relay' = [relay EXCEPT ![r] = "ended"]
    /\ out' = [out EXCEPT ![r] = <<>>]
    /\ UNCHANGED <<serverVars, stack_rx, actor_rx, actorVars, flowOf, client, reads, asker, fed, got>>

\* The UDP relay sends a datagram and waits a second for one answer.
udp_sends(r) ==
    /\ ~IsTcp(r) /\ relay[r] = "up" /\ out[r] # <<>>
    /\ out' = [out EXCEPT ![r] = Tail(@)]
    /\ asker' = [asker EXCEPT ![r] = Head(out[r])]
    /\ relay' = [relay EXCEPT ![r] = "ask"]
    /\ UNCHANGED <<serverVars, stack_rx, actor_rx, actorVars, flowOf, client, reads, fed, got>>

udp_answer(r) ==
    /\ relay[r] = "ask"
    /\ relay' = [relay EXCEPT ![r] = "reply"]
    /\ UNCHANGED <<serverVars, stack_rx, actor_rx, actorVars, flowOf, client, reads, out, asker, fed, got>>

\* actor_tx.send(UdpReply).await: the relay takes nothing from its own channel until the
\* actor's has room.
udp_passes(r) ==
    /\ relay[r] = "reply"
    /\ actor # "panicked" => HasRoom
    /\ actor_rx' = IF actor = "panicked" THEN actor_rx
                   ELSE Append(actor_rx, [type |-> "udp_reply", relay |-> r, client |-> asker[r]])
    /\ relay' = [relay EXCEPT ![r] = "up"]
    /\ asker' = [asker EXCEPT ![r] = NoClient]
    /\ UNCHANGED <<serverVars, stack_rx, actorVars, flowOf, client, reads, out, fed, got>>

\* Mutant: an answer is awaited without a time-out.
udp_timeout_Never(r) == relay[r] = "none" /\ relay[r] = "ask" /\ UNCHANGED vars

udp_timeout(r) ==
    /\ relay[r] = "ask"
    /\ relay' = [relay EXCEPT ![r] = "up"]
    /\ asker' = [asker EXCEPT ![r] = NoClient]
    /\ UNCHANGED <<serverVars, stack_rx, actor_rx, actorVars, flowOf, client, reads, out, fed, got>>

udp_ends(r) ==
    /\ ~IsTcp(r) /\ relay[r] = "up" /\ out[r] = <<>> /\ ~TxAlive(r)
    /\ relay' = [relay EXCEPT ![r] = "ended"]
    /\ UNCHANGED <<serverVars, stack_rx, actor_rx, actorVars, flowOf, client, reads, out, asker, fed, got>>

-----------------------------------------------------------------------------
ActorStep ==
    \/ inbound \/ drained \/ tick \/ evict_flows \/ tcp_data \/ udp_reply
    \/ \E k \in FlowKey : drain(k)

UdpStep(r) == udp_sends(r) \/ udp_timeout(r) \/ udp_ends(r)

RelayStep(r) ==
    \/ \E ok \in BOOLEAN : connect(r, ok)
    \/ fwd(r) \/ fwd_ends(r) \/ bwd(r) \/ bwd_ends(r)
    \/ UdpStep(r) \/ udp_answer(r) \/ udp_passes(r)

Next ==
    \/ \E d \in todo : recv_from(d)
    \/ stack_send \/ forward \/ ticker
    \/ ActorStep
    \/ \E k \in FlowKey : time_passes(k)
    \/ \E r \in Relay : RelayStep(r)

Spec == Init /\ [][Next]_vars

\* The runtime polls every task that can move, dials end, and remotes take what is
\* written to them.  Senders that wait for room in the actor's channel are served in the
\* order they came (tokio's semaphore), hence SF.  Nothing is assumed of clients, nor that remotes send anything.
Fairness ==
    /\ WF_vars(stack_send) /\ SF_vars(forward)
    /\ WF_vars(ActorStep)
    /\ \A r \in Relay :
         /\ WF_vars(\E ok \in BOOLEAN : connect(r, ok)) /\ WF_vars(bwd(r))
         /\ WF_vars(UdpStep(r)) /\ SF_vars(udp_passes(r))

FairSpec == Spec /\ Fairness

-----------------------------------------------------------------------------
(* Properties                                                               *)

TypeOK ==
    /\ todo \subseteq Datagram
    /\ endpoint \in [Peer -> Addr \cup {NoAddr}]
    /\ rl \in {"recv", "send"} /\ held \in [peer : Peer, pkt : Packet \cup {NoKey}]
    /\ \A p \in Peer : stack_rx[p] \in Seq(Packet) /\ Len(stack_rx[p]) <= StackCap
    /\ actor_rx \in Seq(Msg) /\ Len(actor_rx) <= ActorCap
    /\ actor \in {"recv", "drain", "tick", "panicked"}
    /\ sockets \in [Slot -> [state : TcpStates \cup {"free", "bound"}, dst : Dst \cup {NoClient},
                             remote : Client \cup {NoClient}, rx : Seq(Client)]]
    /\ flows \in [FlowKey -> [handle : Slot, relay : Relay \cup {NoRelay}, idle : BOOLEAN] \cup {NoFlow}]
    /\ relay \in [Relay -> {"none", "dial", "up", "ask", "reply", "ended"}]
    /\ flowOf \in [Relay -> [key : FlowKey \cup {NoKey}, handle : 0..MaxSock]]
    /\ client \in [Relay -> Client \cup {NoClient}] /\ asker \in [Relay -> Client \cup {NoClient}]
    /\ reads \in [Relay -> BOOLEAN] /\ fed \in [Relay -> 0..MaxData]
    /\ out \in [Relay -> Seq(Client)] /\ \A r \in Relay : Len(out[r]) <= OutCap
    /\ got \subseteq [from : Client, to : Client, relay : Relay]

\* However slots are freed by eviction and reused, a flow in the table owns its socket:
\* it is of the flow's protocol, listens where the flow goes to, and no other flow has
\* it.  The drains and start_tcp_relays, which call get_mut on it, never panic.
FlowsOwnSockets ==
    \A k \in FlowKey : flows[k] # NoFlow =>
        /\ sockets[flows[k].handle].dst = k.dst
        /\ sockets[flows[k].handle].state \in IF k.proto = "tcp" THEN TcpStates ELSE {"bound"}
        /\ \A j \in FlowKey : flows[j] # NoFlow /\ flows[j].handle = flows[k].handle => j = k

\* The relay outlived its flow: the table has no entry, or a later one, for it.
Outlived(r) == flows[flowOf[r].key].relay # r

\* Answers go to the client that asked and the actor survives, with two exceptions: a
\* relay that outlived its evicted flow writes to whatever has its slot by then, and
\* datagrams of two clients for one destination all pass the socket of the first, whose
\* client gets the answers.
AnswersReachTheAsker ==
    /\ \A g \in got : g.to = g.from \/ Outlived(g.relay)
                         \/ (~IsTcp(g.relay) /\ flowOf[g.relay].key.src # g.from)
    /\ actor = "panicked" => \E r \in Relay : relay[r] # "none" /\ IsTcp(r) /\ Outlived(r)

\* As long as remotes take what is written to them, the actor gets stuck in a drain only
\* if its own channel is full: then a UDP relay that has an answer for the actor and the
\* actor, which has a datagram for the relay, wait for each other.
StuckOnlyWhenFull ==
    actor \in {"drain", "tick"} ~> actor \notin {"drain", "tick"} \/ Len(actor_rx) = ActorCap

\* "Every peer has its own actor, they do not block each other" (server.rs:23): the
\* receive loop, which serves all peers, always gets rid of the packet it has.
ReceiveLoopFree == rl = "send" ~> rl = "recv"
=============================================================================
