----------------------------- MODULE Hysteria2 -----------------------------
(***************************************************************************)
(* One Hysteria2 connection (hysteria2/server.rs) and what it proxies      *)
(* (hysteria2/proxy.rs).  handle_connection answers HTTP/3 requests until  *)
(* one authenticates; from then on quic_tcp_loop accepts streams and       *)
(* datagram_loop hands UDP frames to session tasks, one per session id,    *)
(* through bounded channels kept in a table both sides write to.  QUIC     *)
(* datagrams arrive in any order or not at all, and never twice.           *)
(***************************************************************************)
EXTENDS Naturals, Sequences, FiniteSets

CONSTANTS
    Pkt,        \* UDP datagrams the client sends; a packet has the fields below
    SidOf,      \* its session_id
    PidOf,      \* its packet_id
    TotalOf,    \* its frag_total
    Req,        \* HTTP/3 requests other than the authentication
    Str,        \* streams the client opens after authentication
    Workloads,  \* bound: sets of frames, requests and streams one client sends
    MaxSess,    \* bound: UDP session tasks of the connection
    MaxData,    \* bound: pieces of data a remote sends on a stream
    ChanCap,    \* capacity of a session's channel (256 in the code)
    AuthNeeded, \* AuthConfig::Password rather than AuthConfig::None
    MasqProxy   \* masquerade.type = "proxy" with a proxy section

ASSUME Hy2Assumption ==
    /\ PidOf \in [Pkt -> Nat]
    /\ TotalOf \in [Pkt -> Nat \ {0}]
    /\ MaxSess \in Nat /\ MaxData \in Nat
    /\ ChanCap \in Nat \ {0}
    /\ AuthNeeded \in BOOLEAN /\ MasqProxy \in BOOLEAN

Sid == {SidOf[p] : p \in Pkt}
Pid == {PidOf[p] : p \in Pkt}
Sess == 1..MaxSess
NoSess == 0

\* UdpFrame, as parse_udp_frame returns it: fragment frag of packet pkt.  The ids and
\* the total of the frame are those of the packet, the payload is its <<pkt, frag>>.
UdpFrame == UNION {[pkt : {p}, frag : 0..(TotalOf[p] - 1)] : p \in Pkt}
NoFrame == [pkt |-> NoSess, frag |-> NoSess]

ASSUME WorkloadAssumption == \A W \in Workloads : W \subseteq UdpFrame \cup Req \cup Str

VARIABLES
    quic,       \* the QUIC connection: "open" or "closed"
    phase,      \* handle_connection: "h3", "proxy", "closed", or "refused" (never authenticated)
    web,        \* masquerade requests: "none", "masq", or the status of the answer
    todo,       \* what of its workload the client has not sent, or the server not got
    udp,        \* datagram_loop: "off", "read", "send" (on a full channel) or "ended"
    frame,      \* the frame it is sending
    dest,       \* the session whose sender it has cloned
    session_map,\* session id -> session whose sender the table holds
    st,         \* session tasks: "none", "start", "relay", "wait", "exit", "done"
    sid,        \* their session id
    rx,         \* their channel
    job,        \* the frame a session is relaying
    frag_table, \* packet id -> FragBuffer
    recv_task,  \* "off", "on", "ended"
    sent,       \* datagrams sent to remotes: what fragment came from which packet
    tcp,        \* quic_tcp_loop: "off", "run" or "ended"
    hs,         \* handle_tcp_bidi: "none", "open", "dial", "relay", "done"
    t1, t2,     \* the two copies of a relay: "off", "copy", "done"
    out         \* what was written to the client's stream

connVars == <<quic, phase>>
loopVars == <<udp, frame, dest, session_map>>
sessVars == <<st, sid, rx, job, frag_table, recv_task, sent>>
tcpVars  == <<tcp, hs, t1, t2, out>>
vars == <<todo, connVars, web, loopVars, sessVars, tcpVars>>

NoBuf == [total |-> 0, received |-> 0, frags |-> <<>>]
FragBuffer == [total : Nat, received : Nat, frags : UNION {[F -> Pkt] : F \in SUBSET {f.frag : f \in UdpFrame}}]

Init ==
    /\ quic = "open" /\ phase = "h3"
    /\ web = [r \in Req |-> "none"]
    /\ todo \in Workloads
    /\ udp = "off" /\ frame = NoFrame /\ dest = NoSess
    /\ session_map = [i \in Sid |-> NoSess]
    /\ st = [s \in Sess |-> "none"]
    /\ sid = [s \in Sess |-> NoSess]
    /\ rx = [s \in Sess |-> <<>>]
    /\ job = [s \in Sess |-> NoFrame]
    /\ frag_table = [s \in Sess |-> [i \in Pid |-> NoBuf]]
    /\ recv_task = [s \in Sess |-> "off"]
    /\ sent = {}
    /\ tcp = "off"
    /\ hs = [i \in Str |-> "none"]
    /\ t1 = [i \in Str |-> "off"] /\ t2 = [i \in Str |-> "off"]
    /\ out = [i \in Str |-> <<>>]

-----------------------------------------------------------------------------
(* handle_connection, masquerade                                            *)

\* The connection closes for a reason outside this code: the client closes it, or
\* quinn gives it up after MAX_IDLE_TIMEOUT.
connection_lost ==
    /\ quic = "open"
    /\ quic' = "closed"
    /\ UNCHANGED <<todo, phase, web, loopVars, sessVars, tcpVars>>

\* h3.accept returns None or an error, or send_auth_ok fails: the task returns and the
\* connection goes with it.
h3_ends ==
    /\ phase = "h3"
    /\ phase' = "refused" /\ quic' = "closed"
    /\ UNCHANGED <<todo, web, loopVars, sessVars, tcpVars>>

\* A request that is not the authentication is answered by a task of its own.
h3_other(r) ==
    /\ phase = "h3" /\ quic = "open" /\ r \in todo
    /\ todo' = todo \ {r}
    /\ web' = [web EXCEPT ![r] = "masq"]
    /\ UNCHANGED <<connVars, loopVars, sessVars, tcpVars>>

\* What masquerade_proxy makes of the upstream's answer: 404 if no request can be built,
\* 502 if the upstream or its body fails, its status without a body if it redirects.
MasqStatus == {"404"} \cup IF MasqProxy THEN {"502", "redirect", "page"} ELSE {}

masquerade(r) ==
    /\ web[r] = "masq"
    /\ \E status \in MasqStatus : web' = [web EXCEPT ![r] = status]
    /\ UNCHANGED <<todo, connVars, loopVars, sessVars, tcpVars>>

\* A request for AUTH_PATH: with the right Hysteria-Auth header, or without a configured
\* password, the loops start; otherwise the connection is closed.
AuthOk(good) == ~AuthNeeded \/ good

\* Mutant: a refusal is answered and the loops start all the same.
h3_auth_FallsThrough(good) ==
    /\ phase = "h3" /\ quic = "open"
    /\ IF AuthOk(good)
       THEN /\ phase' = "proxy" /\ udp' = "read" /\ tcp' = "run"
            /\ UNCHANGED quic
       ELSE /\ phase' = "refused" /\ udp' = "read" /\ tcp' = "run"
            /\ UNCHANGED quic
    /\ UNCHANGED <<todo, web, frame, dest, session_map, sessVars, hs, t1, t2, out>>

h3_auth(good) ==
    /\ phase = "h3" /\ quic = "open"
    /\ IF AuthOk(good)
       THEN /\ phase' = "proxy" /\ udp' = "read" /\ tcp' = "run"
            /\ UNCHANGED quic
       ELSE /\ phase' = "refused" /\ quic' = "closed"
            /\ UNCHANGED <<udp, tcp>>
    /\ UNCHANGED <<todo, web, frame, dest, session_map, sessVars, hs, t1, t2, out>>

\* The select: whichever loop ends first, the connection is closed for all.
select_ends ==
    /\ phase = "proxy"
    /\ udp = "ended" \/ tcp = "ended"
    /\ phase' = "closed" /\ quic' = "closed"
    /\ UNCHANGED <<todo, web, loopVars, sessVars, tcpVars>>

-----------------------------------------------------------------------------
(* datagram_loop                                                            *)

\* A session's channel is open while its task holds the receiver.
RxOpen(s) == st[s] \in {"start", "relay", "wait"}

\* Mutant: the channel has no bound.
HasRoom_Always(s) == TRUE

HasRoom(s) == Len(rx[s]) < ChanCap

\* Mutant: the table is not consulted.
Known_Never(i) == FALSE

Known(i) == session_map[i] # NoSess

\* Mutant: the entry stays.
Removed_Nothing(i) == session_map

\* The table without the entry under an id, whichever session it is for.
Removed(i) == [session_map EXCEPT ![i] = NoSess]

loop_ends ==
    /\ udp = "read" /\ quic = "closed"
    /\ udp' = "ended"
    /\ UNCHANGED <<todo, connVars, web, frame, dest, session_map, sessVars, tcpVars>>

\* A frame of a session in the table: its sender is cloned and the lock released.
read_datagram(f) ==
    /\ udp = "read" /\ quic = "open" /\ f \in todo
    /\ Known(SidOf[f.pkt])
    /\ todo' = todo \ {f}
    /\ udp' = "send" /\ frame' = f /\ dest' = session_map[SidOf[f.pkt]]
    /\ UNCHANGED <<connVars, web, session_map, sessVars, tcpVars>>

\* tx.send(frame).await: waits for room.
send_frame ==
    /\ udp = "send" /\ RxOpen(dest) /\ HasRoom(dest)
    /\ rx' = [rx EXCEPT ![dest] = Append(@, frame)]
    /\ udp' = "read" /\ frame' = NoFrame /\ dest' = NoSess
    /\ UNCHANGED <<todo, connVars, web, session_map, st, sid, job, frag_table, recv_task, sent, tcpVars>>

\* The receiver is gone: the frame is lost and the entry removed, by its id.
send_fails ==
    /\ udp = "send" /\ ~RxOpen(dest)
    /\ session_map' = Removed(SidOf[frame.pkt])
    /\ udp' = "read" /\ frame' = NoFrame /\ dest' = NoSess
    /\ UNCHANGED <<todo, connVars, web, sessVars, tcpVars>>

\* A frame of an unknown session: a channel, an entry and a task for it.
new_session(f, s) ==
    /\ udp = "read" /\ quic = "open" /\ f \in todo
    /\ ~Known(SidOf[f.pkt])
    /\ st[s] = "none" /\ \A t \in Sess : t < s => st[t] # "none"
    /\ todo' = todo \ {f}
    /\ session_map' = [session_map EXCEPT ![SidOf[f.pkt]] = s]
    /\ st' = [st EXCEPT ![s] = "start"]
    /\ sid' = [sid EXCEPT ![s] = SidOf[f.pkt]]
    /\ job' = [job EXCEPT ![s] = f]
    /\ UNCHANGED <<connVars, web, udp, frame, dest, rx, frag_table, recv_task, sent, tcpVars>>

-----------------------------------------------------------------------------
(* handle_udp_session                                                       *)

\* FragBuffer::insert: the first payload under a fragment id stays, and every call counts.
FragInsert(buf, f) ==
    [total    |-> buf.total,
     received |-> buf.received + 1,
     frags    |-> [i \in DOMAIN buf.frags \cup {f.frag} |->
                     IF i \in DOMAIN buf.frags THEN buf.frags[i] ELSE f.pkt]]

\* Mutant: the buffer starts with one fragment counted.
BufferOf_CountsItself(s, f) ==
    IF frag_table[s][PidOf[f.pkt]] = NoBuf
    THEN [NoBuf EXCEPT !.total = TotalOf[f.pkt], !.received = 1]
    ELSE frag_table[s][PidOf[f.pkt]]

\* frag_table.entry(packet_id).or_insert_with(FragBuffer::new): the total is that of the
\* packet whose fragment came first.
BufferOf(s, f) ==
    IF frag_table[s][PidOf[f.pkt]] = NoBuf
    THEN [NoBuf EXCEPT !.total = TotalOf[f.pkt]]
    ELSE frag_table[s][PidOf[f.pkt]]

\* relay_frame, up to its send_to: the datagrams that go out and the table after it.
relay_frame(s, f) ==
    IF TotalOf[f.pkt] <= 1
    THEN /\ sent' = sent \cup {[i \in {f.frag} |-> f.pkt]}
         /\ UNCHANGED frag_table
    ELSE LET buf == FragInsert(BufferOf(s, f), f)
             whole == buf.received >= buf.total
         IN /\ frag_table' = [frag_table EXCEPT ![s][PidOf[f.pkt]] = IF whole THEN NoBuf ELSE buf]
            /\ sent' = IF whole THEN sent \cup {buf.frags} ELSE sent

\* The socket is bound, the first frame relayed and the receiving task spawned.
session_starts(s) ==
    /\ st[s] = "start"
    /\ relay_frame(s, job[s])
    /\ st' = [st EXCEPT ![s] = "wait"]
    /\ job' = [job EXCEPT ![s] = NoFrame]
    /\ recv_task' = [recv_task EXCEPT ![s] = "on"]
    /\ UNCHANGED <<todo, connVars, web, loopVars, sid, rx, tcpVars>>

\* The socket cannot be bound: the function returns and the receiver is dropped.
bind_fails(s) ==
    /\ st[s] = "start"
    /\ st' = [st EXCEPT ![s] = "exit"]
    /\ job' = [job EXCEPT ![s] = NoFrame]
    /\ rx' = [rx EXCEPT ![s] = <<>>]
    /\ UNCHANGED <<todo, connVars, web, loopVars, sid, frag_table, recv_task, sent, tcpVars>>

\* rx.recv returns a frame within the idle time-out.
session_recv(s) ==
    /\ st[s] = "wait" /\ rx[s] # <<>>
    /\ st' = [st EXCEPT ![s] = "relay"]
    /\ job' = [job EXCEPT ![s] = Head(rx[s])]
    /\ rx' = [rx EXCEPT ![s] = Tail(@)]
    /\ UNCHANGED <<todo, connVars, web, loopVars, sid, frag_table, recv_task, sent, tcpVars>>

\* send_to, which resolves the target's name first, has ended.
session_relays(s) ==
    /\ st[s] = "relay"
    /\ relay_frame(s, job[s])
    /\ st' = [st EXCEPT ![s] = "wait"]
    /\ job' = [job EXCEPT ![s] = NoFrame]
    /\ UNCHANGED <<todo, connVars, web, loopVars, sid, rx, recv_task, tcpVars>>

\* Mutant: a session waits for its next frame without a time-out.
RecvEnds_NoTimeout(s) == rx[s] = <<>> /\ session_map[sid[s]] # s

\* rx.recv finds no frame for 60 seconds, or None because every sender is gone.
RecvEnds(s) == rx[s] = <<>>

\* recv_task is aborted and the receiver dropped with the function's frame.
session_ends(s) ==
    /\ st[s] = "wait" /\ RecvEnds(s)
    /\ st' = [st EXCEPT ![s] = "exit"]
    /\ recv_task' = [recv_task EXCEPT ![s] = "ended"]
    /\ UNCHANGED <<todo, connVars, web, loopVars, sid, rx, job, frag_table, sent, tcpVars>>

\* Only then the task removes the entry under its id, whoever it belongs to by now.
session_cleanup(s) ==
    /\ st[s] = "exit"
    /\ st' = [st EXCEPT ![s] = "done"]
    /\ session_map' = Removed(sid[s])
    /\ UNCHANGED <<todo, connVars, web, udp, frame, dest, sid, rx, job, frag_table, recv_task, sent, tcpVars>>

\* recv_task: a receive error or 60 seconds without an answer end it for good, whatever
\* the session still sends, and so does a send_datagram that fails because the connection
\* is closed or the datagram too large.  An answer it relays changes nothing else.
recv_ends(s) ==
    /\ recv_task[s] = "on"
    /\ recv_task' = [recv_task EXCEPT ![s] = "ended"]
    /\ UNCHANGED <<todo, connVars, web, loopVars, st, sid, rx, job, frag_table, sent, tcpVars>>

-----------------------------------------------------------------------------
(* quic_tcp_loop, handle_tcp_bidi, handle_tcp_stream                        *)

tcp_loop_ends ==
    /\ tcp = "run" /\ quic = "closed"
    /\ tcp' = "ended"
    /\ UNCHANGED <<todo, connVars, web, loopVars, sessVars, hs, t1, t2, out>>

accept_bi(i) ==
    /\ tcp = "run" /\ quic = "open" /\ i \in todo
    /\ todo' = todo \ {i}
    /\ hs' = [hs EXCEPT ![i] = "open"]
    /\ UNCHANGED <<connVars, web, loopVars, sessVars, tcp, t1, t2, out>>

\* The stream is a TCP request (0x401) that read_tcp_request can read, or something that
\* is ignored: an HTTP/3 frame, another type, a broken request.
handle_tcp_bidi(i) ==
    /\ hs[i] = "open"
    /\ \/ quic = "open" /\ hs' = [hs EXCEPT ![i] = "dial"]
       \/ hs' = [hs EXCEPT ![i] = "done"]
    /\ UNCHANGED <<todo, connVars, web, loopVars, sessVars, tcp, t1, t2, out>>

\* Writes to the client's stream fail once the connection is closed.
Written(i, items) == IF quic = "open" THEN out[i] \o items ELSE out[i]

\* The target refuses, or CONNECT_TIMEOUT passes.
connect_fails(i) ==
    /\ hs[i] = "dial"
    /\ out' = [out EXCEPT ![i] = Written(i, <<"error", "fin">>)]
    /\ hs' = [hs EXCEPT ![i] = "done"]
    /\ UNCHANGED <<todo, connVars, web, loopVars, sessVars, tcp, t1, t2>>

\* The response is written and flushed before the stream is handed to the copies.
connect_ok(i) ==
    /\ hs[i] = "dial"
    /\ out' = [out EXCEPT ![i] = Written(i, <<"ok">>)]
    /\ IF quic = "open"
       THEN /\ hs' = [hs EXCEPT ![i] = "relay"]
            /\ t1' = [t1 EXCEPT ![i] = "copy"] /\ t2' = [t2 EXCEPT ![i] = "copy"]
       ELSE /\ hs' = [hs EXCEPT ![i] = "done"]
            /\ UNCHANGED <<t1, t2>>
    /\ UNCHANGED <<todo, connVars, web, loopVars, sessVars, tcp>>

\* Client to target: ends with the client's stream or with a failed write, and shuts
\* the target's side down.  What it copies is not recorded.
t1_ends(i) ==
    /\ t1[i] = "copy"
    /\ t1' = [t1 EXCEPT ![i] = "done"]
    /\ UNCHANGED <<todo, connVars, web, loopVars, sessVars, tcp, hs, t2, out>>

\* Target to client.
t2_copies(i) ==
    /\ t2[i] = "copy" /\ Len(out[i]) <= MaxData
    /\ out' = [out EXCEPT ![i] = Written(i, <<"data">>)]
    /\ t2' = [t2 EXCEPT ![i] = IF quic = "open" THEN "copy" ELSE "done"]
    /\ UNCHANGED <<todo, connVars, web, loopVars, sessVars, tcp, hs, t1>>

t2_ends(i) ==
    /\ t2[i] = "copy"
    /\ t2' = [t2 EXCEPT ![i] = "done"]
    /\ out' = [out EXCEPT ![i] = Written(i, <<"fin">>)]
    /\ UNCHANGED <<todo, connVars, web, loopVars, sessVars, tcp, hs, t1>>

\* The join of both copies: one that has ended does not end the other.
stream_ends(i) ==
    /\ hs[i] = "relay" /\ t1[i] = "done" /\ t2[i] = "done"
    /\ hs' = [hs EXCEPT ![i] = "done"]
    /\ UNCHANGED <<todo, connVars, web, loopVars, sessVars, tcp, t1, t2, out>>

-----------------------------------------------------------------------------
SessionStep(s) ==
    session_starts(s) \/ session_recv(s) \/ session_relays(s) \/ session_ends(s) \/ session_cleanup(s)

StreamStep(i) ==
    \/ accept_bi(i) \/ handle_tcp_bidi(i) \/ connect_ok(i) \/ connect_fails(i)
    \/ t1_ends(i) \/ t2_copies(i) \/ t2_ends(i) \/ stream_ends(i)

Next ==
    \/ connection_lost \/ h3_ends \/ select_ends
    \/ \E r \in Req : h3_other(r) \/ masquerade(r)
    \/ \E good \in BOOLEAN : h3_auth(good)
    \/ loop_ends \/ send_frame \/ send_fails
    \/ \E f \in todo \cap UdpFrame : read_datagram(f) \/ \E s \in Sess : new_session(f, s)
    \/ \E s \in Sess : SessionStep(s) \/ bind_fails(s) \/ recv_ends(s)
    \/ tcp_loop_ends
    \/ \E i \in Str : StreamStep(i)

Spec == Init /\ [][Next]_vars

\* The runtime polls every task that can move, name look-ups and sends to remotes end, and
\* the 60 seconds of a session that gets no frame pass.  Nothing is assumed of the client,
\* of targets or of remotes.
Fairness ==
    /\ WF_vars(quic = "closed" /\ h3_ends) /\ WF_vars(select_ends)
    /\ WF_vars(loop_ends) /\ WF_vars(send_frame \/ send_fails)
    /\ WF_vars(tcp_loop_ends)
    /\ \A s \in Sess : WF_vars(SessionStep(s))

FairSpec == Spec /\ Fairness

-----------------------------------------------------------------------------
(* Properties                                                               *)

TypeOK ==
    /\ quic \in {"open", "closed"}
    /\ phase \in {"h3", "proxy", "closed", "refused"}
    /\ web \in [Req -> {"none", "masq", "404", "502", "redirect", "page"}]
    /\ todo \subseteq UdpFrame \cup Req \cup Str
    /\ udp \in {"off", "read", "send", "ended"}
    /\ frame \in UdpFrame \cup {NoFrame} /\ dest \in Sess \cup {NoSess}
    /\ session_map \in [Sid -> Sess \cup {NoSess}]
    /\ st \in [Sess -> {"none", "start", "relay", "wait", "exit", "done"}]
    /\ sid \in [Sess -> Sid \cup {NoSess}]
    /\ rx \in [Sess -> Seq(UdpFrame)] /\ \A s \in Sess : Len(rx[s]) <= ChanCap
    /\ job \in [Sess -> UdpFrame \cup {NoFrame}]
    /\ frag_table \in [Sess -> [Pid -> FragBuffer]]
    /\ recv_task \in [Sess -> {"off", "on", "ended"}]
    /\ \A d \in sent : \A i \in DOMAIN d : [pkt |-> d[i], frag |-> i] \in UdpFrame
    /\ tcp \in {"off", "run", "ended"}
    /\ hs \in [Str -> {"none", "open", "dial", "relay", "done"}]
    /\ t1 \in [Str -> {"off", "copy", "done"}] /\ t2 \in [Str -> {"off", "copy", "done"}]
    /\ out \in [Str -> Seq({"ok", "error", "data", "fin"})]

\* Before a good authentication, and after a refused one, nothing is proxied: no UDP
\* session, no dialled stream, no datagram to a remote.
OnlyAuthenticated ==
    phase \in {"h3", "refused"} =>
        /\ udp = "off" /\ tcp = "off" /\ sent = {}
        /\ \A s \in Sess : st[s] = "none"
        /\ \A i \in Str : hs[i] = "none"

\* Packets whose fragments one FragBuffer cannot tell apart.
Confusable(p, q) == p # q /\ SidOf[p] = SidOf[q] /\ PidOf[p] = PidOf[q] /\ TotalOf[p] > 1 /\ TotalOf[q] > 1

\* However fragments are lost or reordered, and however often the session under an id
\* is replaced between them, a datagram that reaches a remote consists of all fragments
\* of one packet, unless its sender reused a packet id within a session (fragments of a
\* packet that lost one stay in the table for as long as the session lives, and the next
\* packet of that id completes them).
WholeDatagrams ==
    \A d \in sent :
        \/ \E p \in Pkt : d = [i \in 0..(TotalOf[p] - 1) |-> p]
        \/ \E i \in DOMAIN d, q \in Pkt : Confusable(d[i], q)

\* The table never keeps the entry of a session task that is through with its clean-up,
\* and an answer is relayed only while the session can still be sent to.
TableSound ==
    /\ \A i \in Sid : session_map[i] # NoSess =>
         sid[session_map[i]] = i /\ st[session_map[i]] \notin {"none", "done"}
    /\ \A s \in Sess : recv_task[s] = "on" => RxOpen(s)

\* A session that can still receive loses its entry in one way only: an older session
\* under its id cleans up late.  The loop's own removal, which also goes by the id,
\* never hits a session that replaced the one it failed to send to.
UnmappedOnlyByOlder ==
    [][\A i \in Sid, s \in Sess :
         session_map[i] = s /\ session_map'[i] # s /\ RxOpen(s) =>
            \E o \in Sess : o < s /\ sid[o] = i /\ st[o] = "exit" /\ st'[o] = "done"]_vars

\* No session can hold the loop up for ever, a session that has lost its entry ends
\* (and frees its socket), and a closed connection ends every session and both loops.
SessionsEnd ==
    /\ udp = "send" ~> udp # "send"
    /\ \A s \in Sess : RxOpen(s) /\ session_map[sid[s]] # s ~> ~RxOpen(s)
    /\ quic = "closed" ~> /\ udp \in {"off", "ended"} /\ tcp \in {"off", "ended"}
                          /\ phase \in {"closed", "refused"}
                          /\ \A s \in Sess : st[s] \in {"none", "done"}
=============================================================================
