--------------------------- MODULE Hysteria2Proofs ---------------------------
(***************************************************************************)
(* Proofs about a Hysteria2 connection: its types, OnlyAuthenticated,      *)
(* TableSound, UnmappedOnlyByOlder and WholeDatagrams hold for any packets *)
(* and fragments, requests and streams, any number of sessions and any     *)
(* channel capacity.                                                       *)
(***************************************************************************)
EXTENDS Hysteria2, TLAPS, FiniteSetTheorems, SequenceTheorems

\* The types of the session table and of the session tasks.
TableTypes ==
    /\ session_map \in [Sid -> Sess \cup {NoSess}]
    /\ st \in [Sess -> {"none", "start", "relay", "wait", "exit", "done"}]
    /\ sid \in [Sess -> Sid \cup {NoSess}]
    /\ recv_task \in [Sess -> {"off", "on", "ended"}]
    /\ hs \in [Str -> {"none", "open", "dial", "relay", "done"}]

\* Tasks are created in order, and their receiving task with the socket.
TasksOK ==
    \A s \in Sess :
        /\ st[s] # "none" => sid[s] \in Sid
        /\ st[s] # "none" => \A t \in Sess : t < s => st[t] # "none"
        /\ st[s] \in {"none", "start"} => recv_task[s] = "off"

\* An entry is that of the newest session under its id.
NewestOK ==
    \A i \in Sid, s \in Sess :
        session_map[i] = s => \A o \in Sess : st[o] # "none" /\ sid[o] = i => o <= s

\* While the loop sends a frame, only that frame's session is in the table under its id:
\* a removal may take the entry away, but nobody replaces it.
LoopOK ==
    udp = "send" =>
        /\ frame \in UdpFrame /\ dest \in Sess
        /\ session_map[SidOf[frame.pkt]] \in {dest, NoSess}

IInv ==
    /\ TableTypes
    /\ TasksOK
    /\ NewestOK
    /\ LoopOK
    /\ OnlyAuthenticated
    /\ TableSound

USE DEF connVars, loopVars, sessVars, tcpVars

\* Tasks are numbered from 1, so the number that stands for no task is not one.
LEMMA SessFacts ==
    /\ NoSess \notin Sess
    /\ \A s \in Sess : s \in Nat
  BY Hy2Assumption DEF Sess, NoSess

\* A frame belongs to a session id.
LEMMA FrameSid == \A f \in UdpFrame : SidOf[f.pkt] \in Sid
<1>1. SUFFICES ASSUME NEW f \in UdpFrame PROVE SidOf[f.pkt] \in Sid
  OBVIOUS
<1>2. PICK p \in Pkt : f \in [pkt : {p}, frag : 0..(TotalOf[p] - 1)]
  BY DEF UdpFrame
<1>3. f.pkt = p
  BY <1>2
<1>4. QED
  BY <1>3 DEF Sid

LEMMA InitOK == Init => IInv
<1>1. SUFFICES ASSUME Init PROVE IInv
  OBVIOUS
<1>2. TableTypes
  BY <1>1, SessFacts DEF Init, TableTypes
<1>3. TasksOK /\ NewestOK /\ LoopOK
  BY <1>1, SessFacts DEF Init, TasksOK, NewestOK, LoopOK
<1>4. OnlyAuthenticated
  BY <1>1 DEF Init, OnlyAuthenticated
<1>5. TableSound
  BY <1>1, SessFacts DEF Init, TableSound
<1>6. QED
  BY <1>2, <1>3, <1>4, <1>5 DEF IInv

-----------------------------------------------------------------------------
(* What does not touch the table keeps everything.                          *)

\* The session table, its tasks and the loop's hands.
tableVars == <<udp, frame, dest, session_map, st, sid, recv_task>>

LEMMA TableKept ==
    ASSUME IInv, UNCHANGED tableVars, hs' \in [Str -> {"none", "open", "dial", "relay", "done"}]
    PROVE  TableTypes' /\ TasksOK' /\ NewestOK' /\ LoopOK' /\ TableSound'
<1>1. TableTypes'
  BY DEF IInv, TableTypes, tableVars
<1>2. TasksOK' /\ NewestOK' /\ LoopOK'
  BY DEF IInv, TasksOK, NewestOK, LoopOK, tableVars
<1>3. TableSound'
  BY DEF IInv, TableSound, RxOpen, tableVars
<1>4. QED
  BY <1>1, <1>2, <1>3

\* The connection and the web requests.
LEMMA ConnStep ==
    ASSUME IInv,
           \/ connection_lost \/ h3_ends \/ select_ends
           \/ \E r \in Req : h3_other(r) \/ masquerade(r)
    PROVE  IInv'
<1>1. UNCHANGED tableVars /\ UNCHANGED <<hs, tcp, sent>>
  BY DEF connection_lost, h3_ends, select_ends, h3_other, masquerade, tableVars
<1>2. hs' \in [Str -> {"none", "open", "dial", "relay", "done"}]
  BY <1>1 DEF IInv, TableTypes
<1>3. phase' \in {"h3", "refused"} => phase \in {"h3", "refused"}
  BY DEF connection_lost, h3_ends, select_ends, h3_other, masquerade
<1>4. OnlyAuthenticated'
  BY <1>1, <1>3 DEF IInv, OnlyAuthenticated, tableVars
<1>5. QED
  BY <1>1, <1>2, <1>4, TableKept DEF IInv

\* The authentication, and the two loops' ends.
LEMMA AuthStep ==
    ASSUME IInv, (\E good \in BOOLEAN : h3_auth(good)) \/ loop_ends \/ tcp_loop_ends
    PROVE  IInv'
<1>1. UNCHANGED <<frame, dest, session_map, st, sid, recv_task, hs, sent>>
  BY DEF h3_auth, loop_ends, tcp_loop_ends
<1>2. udp' = "send" => udp = "send"
  BY DEF h3_auth, loop_ends, tcp_loop_ends
<1>3. TableTypes' /\ TasksOK' /\ NewestOK'
  BY <1>1 DEF IInv, TableTypes, TasksOK, NewestOK
<1>4. LoopOK'
  BY <1>1, <1>2 DEF IInv, LoopOK
<1>5. TableSound'
  BY <1>1 DEF IInv, TableSound, RxOpen
<1>6. phase' \in {"h3", "refused"} => phase \in {"h3", "refused"} /\ udp' = udp /\ tcp' = tcp
  BY DEF IInv, OnlyAuthenticated, h3_auth, loop_ends, tcp_loop_ends
<1>7. OnlyAuthenticated'
  BY <1>1, <1>6 DEF IInv, OnlyAuthenticated
<1>8. QED
  BY <1>3, <1>4, <1>5, <1>7 DEF IInv

\* Streams run only after the authentication.
LEMMA StreamKept ==
    ASSUME IInv, NEW i \in Str, StreamStep(i)
    PROVE  IInv'
<1>1. UNCHANGED tableVars /\ UNCHANGED <<phase, tcp, sent>>
  BY DEF StreamStep, accept_bi, handle_tcp_bidi, connect_ok, connect_fails,
         t1_ends, t2_copies, t2_ends, stream_ends, tableVars
<1>2. hs' \in [Str -> {"none", "open", "dial", "relay", "done"}]
  BY DEF IInv, TableTypes, StreamStep, accept_bi, handle_tcp_bidi, connect_ok, connect_fails,
         t1_ends, t2_copies, t2_ends, stream_ends
<1>3. (tcp = "off" /\ \A j \in Str : hs[j] = "none") => hs' = hs
  BY DEF StreamStep, accept_bi, handle_tcp_bidi, connect_ok, connect_fails,
         t1_ends, t2_copies, t2_ends, stream_ends
<1>4. OnlyAuthenticated'
  BY <1>1, <1>3 DEF IInv, OnlyAuthenticated, tableVars
<1>5. QED
  BY <1>1, <1>2, <1>4, TableKept DEF IInv

-----------------------------------------------------------------------------
(* The loop                                                                 *)

LEMMA LoopReads ==
    ASSUME IInv, NEW f \in UdpFrame, read_datagram(f)
    PROVE  IInv'
<1>1. SidOf[f.pkt] \in Sid
  BY FrameSid
<1>2. session_map[SidOf[f.pkt]] \in Sess
  BY <1>1 DEF IInv, TableTypes, read_datagram, Known
<1>3. UNCHANGED <<phase, tcp, sent, hs, session_map, st, sid, recv_task>>
  BY DEF read_datagram
<1>4. TableTypes' /\ TasksOK' /\ NewestOK' /\ TableSound'
  BY <1>3 DEF IInv, TableTypes, TasksOK, NewestOK, TableSound, RxOpen
<1>5. LoopOK'
  BY <1>2 DEF read_datagram, LoopOK
<1>6. OnlyAuthenticated'
  BY <1>3 DEF IInv, OnlyAuthenticated, read_datagram
<1>7. QED
  BY <1>4, <1>5, <1>6 DEF IInv

LEMMA LoopSends ==
    ASSUME IInv, send_frame
    PROVE  IInv'
<1>1. UNCHANGED <<phase, tcp, sent, hs, session_map, st, sid, recv_task>> /\ udp' = "read"
  BY DEF send_frame
<1>2. TableTypes' /\ TasksOK' /\ NewestOK' /\ TableSound' /\ LoopOK'
  BY <1>1 DEF IInv, TableTypes, TasksOK, NewestOK, TableSound, RxOpen, LoopOK
<1>3. OnlyAuthenticated'
  BY <1>1 DEF IInv, OnlyAuthenticated, send_frame
<1>4. QED
  BY <1>2, <1>3 DEF IInv

\* A removal takes one entry away.
LEMMA RemovedFacts ==
    ASSUME TableTypes, NEW i \in Sid
    PROVE  /\ Removed(i) \in [Sid -> Sess \cup {NoSess}]
           /\ Removed(i)[i] = NoSess
           /\ \A j \in Sid : j # i => Removed(i)[j] = session_map[j]
  BY DEF Removed, TableTypes

LEMMA LoopFails ==
    ASSUME IInv, send_fails
    PROVE  IInv'
<1>1. UNCHANGED <<phase, tcp, sent, hs, st, sid, recv_task>> /\ udp' = "read"
  BY DEF send_fails
<1>2. SidOf[frame.pkt] \in Sid
  BY FrameSid DEF IInv, LoopOK, send_fails
<1>3. /\ session_map' \in [Sid -> Sess \cup {NoSess}]
      /\ \A j \in Sid : session_map'[j] = NoSess \/ session_map'[j] = session_map[j]
  BY <1>2, RemovedFacts DEF IInv, send_fails
<1>4. TableTypes' /\ TasksOK' /\ LoopOK'
  BY <1>1, <1>3 DEF IInv, TableTypes, TasksOK, LoopOK
<1>5. NewestOK'
  BY <1>1, <1>3, SessFacts DEF IInv, NewestOK
<1>6. TableSound'
  BY <1>1, <1>3 DEF IInv, TableSound, RxOpen
<1>7. OnlyAuthenticated'
  BY <1>1 DEF IInv, OnlyAuthenticated, send_fails
<1>8. QED
  BY <1>4, <1>5, <1>6, <1>7 DEF IInv

LEMMA LoopOpens ==
    ASSUME IInv, NEW f \in UdpFrame, NEW s \in Sess, new_session(f, s)
    PROVE  IInv'
<1> DEFINE i == SidOf[f.pkt]
<1>1. i \in Sid
  BY FrameSid
<1>2. UNCHANGED <<phase, tcp, sent, hs, recv_task, udp>> /\ udp = "read"
  BY DEF new_session
<1>3. /\ session_map' = [session_map EXCEPT ![i] = s] /\ session_map[i] = NoSess
      /\ st' = [st EXCEPT ![s] = "start"] /\ st[s] = "none"
      /\ sid' = [sid EXCEPT ![s] = i]
      /\ \A t \in Sess : t < s => st[t] # "none"
  BY DEF new_session, Known
<1> HIDE DEF i
<1>4. TableTypes'
  BY <1>1, <1>2, <1>3 DEF IInv, TableTypes
<1>5. TasksOK'
  <2>1. SUFFICES ASSUME NEW u \in Sess
                 PROVE  /\ st'[u] # "none" => sid'[u] \in Sid
                        /\ st'[u] # "none" => \A t \in Sess : t < u => st'[t] # "none"
                        /\ st'[u] \in {"none", "start"} => recv_task'[u] = "off"
    BY DEF TasksOK
  <2>2. st'[u] # "none" => sid'[u] \in Sid
    BY <1>1, <1>3 DEF IInv, TasksOK, TableTypes
  <2>3. st'[u] # "none" => \A t \in Sess : t < u => st'[t] # "none"
    BY <1>3, SessFacts DEF IInv, TasksOK, TableTypes
  <2>4. st'[u] \in {"none", "start"} => recv_task'[u] = "off"
    BY <1>2, <1>3 DEF IInv, TasksOK, TableTypes
  <2>5. QED
    BY <2>2, <2>3, <2>4
<1>6. NewestOK'
  <2>1. SUFFICES ASSUME NEW j \in Sid, NEW u \in Sess, session_map'[j] = u,
                        NEW o \in Sess, st'[o] # "none", sid'[o] = j
                 PROVE  o <= u
    BY DEF NewestOK
  <2>2. CASE j = i
    <3>1. u = s
      BY <1>1, <1>3, <2>1, <2>2 DEF IInv, TableTypes
    <3>2. o # s => st[o] # "none"
      BY <1>3, <2>1 DEF IInv, TableTypes
    <3>3. o # s => ~(s < o)
      BY <1>3, <3>2 DEF IInv, TasksOK
    <3>4. QED
      BY <3>1, <3>3, SessFacts
  <2>3. CASE j # i
    <3>1. session_map[j] = u
      BY <1>1, <1>3, <2>1, <2>3 DEF IInv, TableTypes
    <3>2. o # s
      BY <1>1, <1>3, <2>1, <2>3 DEF IInv, TableTypes
    <3>3. st[o] # "none" /\ sid[o] = j
      BY <1>3, <2>1, <3>2 DEF IInv, TableTypes
    <3>4. QED
      BY <3>1, <3>3 DEF IInv, NewestOK
  <2>4. QED
    BY <2>2, <2>3
<1>7. LoopOK'
  BY <1>2 DEF LoopOK
<1>8. TableSound'
  <2>1. ASSUME NEW j \in Sid, session_map'[j] # NoSess
        PROVE  sid'[session_map'[j]] = j /\ st'[session_map'[j]] \notin {"none", "done"}
    <3>1. CASE j = i
      BY <1>1, <1>3, <3>1 DEF IInv, TableTypes
    <3>2. CASE j # i
      <4>1. session_map'[j] = session_map[j] /\ session_map[j] \in Sess
        BY <1>3, <2>1, <3>2 DEF IInv, TableTypes
      <4>2. sid[session_map[j]] = j /\ st[session_map[j]] \notin {"none", "done"}
        BY <2>1, <4>1 DEF IInv, TableSound
      <4>3. session_map[j] # s
        BY <1>3, <4>2
      <4>4. QED
        BY <1>3, <4>1, <4>2, <4>3 DEF IInv, TableTypes
    <3>3. QED
      BY <3>1, <3>2
  <2>2. ASSUME NEW u \in Sess, recv_task'[u] = "on" PROVE RxOpen(u)'
    BY <1>2, <1>3, <2>2 DEF IInv, TableSound, TableTypes, RxOpen
  <2>3. QED
    BY <2>1, <2>2 DEF TableSound
<1>9. OnlyAuthenticated'
  BY <1>2 DEF IInv, OnlyAuthenticated
<1>10. QED
  BY <1>4, <1>5, <1>6, <1>7, <1>8, <1>9 DEF IInv

-----------------------------------------------------------------------------
(* Session tasks                                                            *)

\* A task that goes on, or drops its receiver, leaves the table alone; its receiving task
\* is started by a socket and ends with it.
LEMMA TaskMoves ==
    ASSUME IInv, NEW s \in Sess, NEW v \in {"wait", "relay", "exit"},
           st[s] \in {"start", "relay", "wait"}, st' = [st EXCEPT ![s] = v],
           recv_task' \in [Sess -> {"off", "on", "ended"}],
           \A t \in Sess \ {s} : recv_task'[t] = recv_task[t],
           v = "exit" => recv_task'[s] # "on",
           UNCHANGED <<phase, tcp, hs, udp, frame, dest, session_map, sid>>
    PROVE  IInv'
<1>1. phase \notin {"h3", "refused"}
  BY DEF IInv, OnlyAuthenticated
<1>2. TableTypes'
  BY DEF IInv, TableTypes
<1>3. \A t \in Sess : st'[t] = "none" <=> st[t] = "none"
  BY DEF IInv, TableTypes
<1>4. \A t \in Sess : st'[t] \in {"none", "start"} => st[t] = st'[t] /\ t # s
  BY DEF IInv, TableTypes
<1>5. TasksOK'
  BY <1>3, <1>4 DEF IInv, TasksOK
<1>6. NewestOK'
  BY <1>3 DEF IInv, NewestOK
<1>7. LoopOK'
  BY DEF IInv, LoopOK
<1>8. OnlyAuthenticated'
  BY <1>1 DEF OnlyAuthenticated
<1>9. TableSound'
  <2>1. \A t \in Sess : st'[t] = "done" => st[t] = "done"
    BY DEF IInv, TableTypes
  <2>2. \A j \in Sid : session_map[j] # NoSess => session_map[j] \in Sess
    BY DEF IInv, TableTypes
  <2>3. \A t \in Sess : recv_task'[t] = "on" => RxOpen(t)'
    BY DEF IInv, TableSound, TableTypes, RxOpen
  <2>4. QED
    BY <1>3, <2>1, <2>2, <2>3 DEF IInv, TableSound
<1>10. QED
  BY <1>2, <1>5, <1>6, <1>7, <1>8, <1>9 DEF IInv

LEMMA TaskCleansUp ==
    ASSUME IInv, NEW s \in Sess, session_cleanup(s)
    PROVE  IInv'
<1>1. UNCHANGED <<phase, tcp, sent, hs, udp, frame, dest, sid, recv_task>>
  BY DEF session_cleanup
<1>2. st[s] = "exit" /\ st' = [st EXCEPT ![s] = "done"] /\ sid[s] \in Sid
  BY DEF session_cleanup, IInv, TasksOK
<1>3. /\ session_map' \in [Sid -> Sess \cup {NoSess}] /\ session_map'[sid[s]] = NoSess
      /\ \A j \in Sid : session_map'[j] = NoSess \/ session_map'[j] = session_map[j]
  BY <1>2, RemovedFacts DEF IInv, session_cleanup
<1>4. TableTypes'
  BY <1>1, <1>2, <1>3 DEF IInv, TableTypes
<1>5. \A t \in Sess : st'[t] = "none" <=> st[t] = "none"
  BY <1>2 DEF IInv, TableTypes
<1>6. TasksOK'
  <2>1. \A t \in Sess : st'[t] \in {"none", "start"} => st[t] = st'[t]
    BY <1>2 DEF IInv, TableTypes
  <2>2. QED
    BY <1>1, <1>5, <2>1 DEF IInv, TasksOK
<1>7. NewestOK'
  BY <1>1, <1>3, <1>5, SessFacts DEF IInv, NewestOK
<1>8. LoopOK'
  BY <1>1, <1>3, FrameSid DEF IInv, LoopOK
<1>9. OnlyAuthenticated'
  BY <1>1, <1>2 DEF IInv, OnlyAuthenticated
<1>10. TableSound'
  <2>1. ASSUME NEW j \in Sid, session_map'[j] # NoSess
        PROVE  sid'[session_map'[j]] = j /\ st'[session_map'[j]] \notin {"none", "done"}
    <3>1. session_map'[j] = session_map[j] /\ session_map[j] \in Sess
      BY <1>3, <2>1 DEF IInv, TableTypes
    <3>2. sid[session_map[j]] = j /\ st[session_map[j]] \notin {"none", "done"}
      BY <2>1, <3>1 DEF IInv, TableSound
    <3>3. session_map[j] # s
      BY <1>3, <2>1, <3>2
    <3>4. QED
      BY <1>1, <1>2, <3>1, <3>2, <3>3 DEF IInv, TableTypes
  <2>2. ASSUME NEW u \in Sess, recv_task'[u] = "on" PROVE RxOpen(u)'
    BY <1>1, <1>2, <2>2 DEF IInv, TableSound, TableTypes, RxOpen
  <2>3. QED
    BY <2>1, <2>2 DEF TableSound
<1>11. QED
  BY <1>4, <1>6, <1>7, <1>8, <1>9, <1>10 DEF IInv

LEMMA RecvTaskEnds ==
    ASSUME IInv, NEW s \in Sess, recv_ends(s)
    PROVE  IInv'
<1>1. UNCHANGED <<phase, tcp, sent, hs, udp, frame, dest, session_map, st, sid>>
  BY DEF recv_ends
<1>2. recv_task[s] = "on" /\ recv_task' = [recv_task EXCEPT ![s] = "ended"]
  BY DEF recv_ends
<1>3. TableTypes' /\ NewestOK' /\ LoopOK' /\ OnlyAuthenticated'
  BY <1>1, <1>2 DEF IInv, TableTypes, NewestOK, LoopOK, OnlyAuthenticated
<1>4. \A t \in Sess : recv_task[t] = "off" => recv_task'[t] = "off"
  BY <1>2 DEF IInv, TableTypes
<1>5. TasksOK'
  BY <1>1, <1>4 DEF IInv, TasksOK
<1>6. \A t \in Sess : recv_task'[t] = "on" => recv_task[t] = "on"
  BY <1>2 DEF IInv, TableTypes
<1>7. TableSound'
  BY <1>1, <1>6 DEF IInv, TableSound, RxOpen
<1>8. QED
  BY <1>3, <1>5, <1>7 DEF IInv

LEMMA TaskStep ==
    ASSUME IInv, NEW s \in Sess, SessionStep(s) \/ bind_fails(s) \/ recv_ends(s)
    PROVE  IInv'
<1> USE DEF IInv, TableTypes, TasksOK
<1>1. CASE session_starts(s)
  <2>1. /\ st[s] = "start" /\ st' = [st EXCEPT ![s] = "wait"]
        /\ recv_task' = [recv_task EXCEPT ![s] = "on"]
        /\ UNCHANGED <<phase, tcp, hs, udp, frame, dest, session_map, sid>>
    BY <1>1 DEF session_starts
  <2>2. QED
    BY <2>1, TaskMoves
<1>2. CASE bind_fails(s)
  <2>1. /\ st[s] = "start" /\ st' = [st EXCEPT ![s] = "exit"] /\ recv_task[s] = "off"
        /\ UNCHANGED <<phase, tcp, hs, udp, frame, dest, session_map, sid, recv_task>>
    BY <1>2 DEF bind_fails
  <2>2. QED
    BY <2>1, TaskMoves
<1>3. CASE session_recv(s)
  <2>1. /\ st[s] = "wait" /\ st' = [st EXCEPT ![s] = "relay"]
        /\ UNCHANGED <<phase, tcp, hs, udp, frame, dest, session_map, sid, recv_task>>
    BY <1>3 DEF session_recv
  <2>2. QED
    BY <2>1, TaskMoves
<1>4. CASE session_relays(s)
  <2>1. /\ st[s] = "relay" /\ st' = [st EXCEPT ![s] = "wait"]
        /\ UNCHANGED <<phase, tcp, hs, udp, frame, dest, session_map, sid, recv_task>>
    BY <1>4 DEF session_relays
  <2>2. QED
    BY <2>1, TaskMoves
<1>5. CASE session_ends(s)
  <2>1. /\ st[s] = "wait" /\ st' = [st EXCEPT ![s] = "exit"]
        /\ recv_task' = [recv_task EXCEPT ![s] = "ended"]
        /\ UNCHANGED <<phase, tcp, hs, udp, frame, dest, session_map, sid>>
    BY <1>5 DEF session_ends
  <2>2. QED
    BY <2>1, TaskMoves
<1>6. CASE session_cleanup(s)
  BY <1>6, TaskCleansUp
<1>7. CASE recv_ends(s)
  BY <1>7, RecvTaskEnds
<1>8. QED
  BY <1>1, <1>2, <1>3, <1>4, <1>5, <1>6, <1>7 DEF SessionStep

-----------------------------------------------------------------------------
LEMMA Inductive == IInv /\ [Next]_vars => IInv'
<1>1. SUFFICES ASSUME IInv, [Next]_vars PROVE IInv'
  OBVIOUS
<1>2. CASE UNCHANGED vars
  <2>1. UNCHANGED tableVars /\ UNCHANGED <<phase, tcp, sent, hs>>
    BY <1>2 DEF vars, tableVars
  <2>2. OnlyAuthenticated'
    BY <1>1, <2>1 DEF IInv, OnlyAuthenticated, tableVars
  <2>3. hs' \in [Str -> {"none", "open", "dial", "relay", "done"}]
    BY <1>1, <2>1 DEF IInv, TableTypes
  <2>4. QED
    BY <1>1, <2>1, <2>2, <2>3, TableKept DEF IInv
<1>3. CASE Next
  <2>1. CASE connection_lost \/ h3_ends \/ select_ends \/ \E r \in Req : h3_other(r) \/ masquerade(r)
    BY <1>1, <2>1, ConnStep
  <2>2. CASE (\E good \in BOOLEAN : h3_auth(good)) \/ loop_ends \/ tcp_loop_ends
    BY <1>1, <2>2, AuthStep
  <2>3. CASE send_frame
    BY <1>1, <2>3, LoopSends
  <2>4. CASE send_fails
    BY <1>1, <2>4, LoopFails
  <2>5. ASSUME NEW f \in UdpFrame, read_datagram(f) \/ \E s \in Sess : new_session(f, s) PROVE IInv'
    BY <1>1, <2>5, LoopReads, LoopOpens
  <2>6. ASSUME NEW s \in Sess, SessionStep(s) \/ bind_fails(s) \/ recv_ends(s) PROVE IInv'
    BY <1>1, <2>6, TaskStep
  <2>7. ASSUME NEW i \in Str, StreamStep(i) PROVE IInv'
    BY <1>1, <2>7, StreamKept
  <2>8. QED
    BY <1>3, <2>1, <2>2, <2>3, <2>4, <2>5, <2>6, <2>7 DEF Next
<1>4. QED
  BY <1>1, <1>2, <1>3

LEMMA Invariance == Spec => []IInv
<1>1. Init => IInv
  BY InitOK
<1>2. IInv /\ [Next]_vars => IInv'
  BY Inductive
<1>3. QED
  BY <1>1, <1>2, PTL DEF Spec

\* handle_connection proxies nothing before a good authentication or after a refused one,
\* whatever the client sends and whenever it sends it.
THEOREM Authenticated == Spec => []OnlyAuthenticated
<1>1. IInv => OnlyAuthenticated
  BY DEF IInv
<1>2. QED
  BY <1>1, Invariance, PTL

\* datagram_loop's table never holds a session that is through with its clean-up, nor one
\* under another id, however often sessions are replaced.
THEOREM TableIsSound == Spec => []TableSound
<1>1. IInv => TableSound
  BY DEF IInv
<1>2. QED
  BY <1>1, Invariance, PTL

\* A session that can still receive loses its entry only to the late clean-up of an older
\* one, never to datagram_loop's own removal.
THEOREM OnlyOlderUnmap == Spec => UnmappedOnlyByOlder
<1> DEFINE Step == \A i \in Sid, s \in Sess :
                      session_map[i] = s /\ session_map'[i] # s /\ RxOpen(s) =>
                         \E o \in Sess : o < s /\ sid[o] = i /\ st[o] = "exit" /\ st'[o] = "done"
<1>1. IInv /\ [Next]_vars => [Step]_vars
  <2>1. SUFFICES ASSUME IInv, [Next]_vars, NEW i \in Sid, NEW s \in Sess,
                        session_map[i] = s, session_map'[i] # s, RxOpen(s)
                 PROVE  \E o \in Sess : o < s /\ sid[o] = i /\ st[o] = "exit" /\ st'[o] = "done"
    OBVIOUS
  <2>2. CASE send_fails
    <3>1. SidOf[frame.pkt] \in Sid /\ session_map[SidOf[frame.pkt]] \in {dest, NoSess} /\ ~RxOpen(dest)
      BY <2>1, <2>2, FrameSid DEF IInv, LoopOK, send_fails
    <3>2. i = SidOf[frame.pkt]
      BY <2>1, <2>2, <3>1, RemovedFacts DEF IInv, send_fails
    <3>3. QED
      BY <2>1, <3>1, <3>2, SessFacts
  <2>3. ASSUME NEW o \in Sess, session_cleanup(o)
        PROVE  o < s /\ sid[o] = i /\ st[o] = "exit" /\ st'[o] = "done"
    <3>1. st[o] = "exit" /\ st'[o] = "done" /\ sid[o] \in Sid
      BY <2>1, <2>3 DEF IInv, TasksOK, TableTypes, session_cleanup
    <3>2. sid[o] = i
      BY <2>1, <2>3, <3>1, RemovedFacts DEF IInv, session_cleanup
    <3>3. o # s
      BY <2>1, <3>1 DEF RxOpen
    <3>4. o <= s
      BY <2>1, <3>1, <3>2 DEF IInv, NewestOK
    <3>5. QED
      BY <3>1, <3>2, <3>3, <3>4, SessFacts
  <2>4. ASSUME NEW f \in UdpFrame, NEW t \in Sess, new_session(f, t) PROVE FALSE
    BY <2>1, <2>4, FrameSid, SessFacts DEF IInv, TableTypes, new_session, Known
  <2>5. CASE UNCHANGED session_map
    BY <2>1, <2>5
  <2>6. send_fails \/ (\E o \in Sess : session_cleanup(o)) \/ UNCHANGED session_map
          \/ \E f \in UdpFrame, t \in Sess : new_session(f, t)
    <3>1. CASE UNCHANGED vars
      BY <3>1 DEF vars
    <3>2. CASE connection_lost \/ h3_ends \/ select_ends \/ loop_ends \/ tcp_loop_ends \/ send_frame
                 \/ (\E r \in Req : h3_other(r) \/ masquerade(r)) \/ \E good \in BOOLEAN : h3_auth(good)
      BY <3>2 DEF connection_lost, h3_ends, select_ends, loop_ends, tcp_loop_ends, send_frame,
                  h3_other, masquerade, h3_auth
    <3>3. ASSUME NEW f \in UdpFrame, read_datagram(f) PROVE UNCHANGED session_map
      BY <3>3 DEF read_datagram
    <3>4. ASSUME NEW t \in Sess,
                 SessionStep(t) \/ bind_fails(t) \/ recv_ends(t), ~session_cleanup(t)
          PROVE  UNCHANGED session_map
      BY <3>4 DEF SessionStep, session_starts, session_recv, session_relays, session_ends,
                  bind_fails, recv_ends
    <3>5. ASSUME NEW j \in Str, StreamStep(j) PROVE UNCHANGED session_map
      BY <3>5 DEF StreamStep, accept_bi, handle_tcp_bidi, connect_ok, connect_fails,
                  t1_ends, t2_copies, t2_ends, stream_ends
    <3>6. QED
      BY <2>1, <3>1, <3>2, <3>3, <3>4, <3>5 DEF Next
  <2>7. QED
    BY <2>2, <2>3, <2>4, <2>5, <2>6
<1>2. QED
  BY <1>1, Invariance, PTL DEF Spec, UnmappedOnlyByOlder

-----------------------------------------------------------------------------
(* Frames and fragments                                                     *)

\* A frame is under way in the loop, in a session's channel, in the session's hands, or
\* in its fragment table.
InHand(f) == udp = "send" /\ frame = f
Queued(s, f) == \E i \in 1..Len(rx[s]) : rx[s][i] = f
Working(s) == st[s] \in {"start", "relay"}
Kept(b, f) == f.frag \in DOMAIN b.frags /\ b.frags[f.frag] = f.pkt
Buffered(s, f) == Kept(frag_table[s][PidOf[f.pkt]], f)

PlainTypes ==
    /\ quic \in {"open", "closed"}
    /\ phase \in {"h3", "proxy", "closed", "refused"}
    /\ web \in [Req -> {"none", "masq", "404", "502", "redirect", "page"}]
    /\ todo \subseteq UdpFrame \cup Req \cup Str
    /\ udp \in {"off", "read", "send", "ended"}
    /\ frame \in UdpFrame \cup {NoFrame} /\ dest \in Sess \cup {NoSess}
    /\ tcp \in {"off", "run", "ended"}
    /\ t1 \in [Str -> {"off", "copy", "done"}] /\ t2 \in [Str -> {"off", "copy", "done"}]
    /\ out \in [Str -> Seq({"ok", "error", "data", "fin"})]

\* What is on its way to a session, or with it, is of that session's id.
FramesOK ==
    /\ udp = "send" => st[dest] # "none" /\ sid[dest] = SidOf[frame.pkt]
    /\ rx \in [Sess -> Seq(UdpFrame)]
    /\ job \in [Sess -> UdpFrame \cup {NoFrame}]
    /\ \A s \in Sess :
         /\ Len(rx[s]) <= ChanCap
         /\ st[s] = "none" => rx[s] = <<>>
         /\ \A i \in 1..Len(rx[s]) : SidOf[rx[s][i].pkt] = sid[s]
         /\ Working(s) => job[s] \in UdpFrame /\ SidOf[job[s].pkt] = sid[s]

\* A buffer of session id n and packet id j: every fragment is one of a fragmented packet
\* of these ids.  If no other packet has them, all are of one packet, the total is that
\* packet's, and every fragment has been counted once.
BufSound(b, n, j) ==
    /\ b.total \in Nat /\ b.received \in Nat
    /\ b.frags \in [DOMAIN b.frags -> Pkt]
    /\ IsFiniteSet(DOMAIN b.frags) /\ DOMAIN b.frags # {}
    /\ \A x \in DOMAIN b.frags :
         LET p == b.frags[x]
         IN  [pkt |-> p, frag |-> x] \in UdpFrame /\ SidOf[p] = n /\ PidOf[p] = j /\ TotalOf[p] > 1
    /\ \/ \E x \in DOMAIN b.frags, q \in Pkt : Confusable(b.frags[x], q)
       \/ \E p \in Pkt : /\ \A x \in DOMAIN b.frags : b.frags[x] = p
                         /\ b.total = TotalOf[p] /\ b.received = Cardinality(DOMAIN b.frags)

BuffersOK ==
    /\ frag_table \in [Sess -> [Pid -> FragBuffer]]
    /\ \A s \in Sess, j \in Pid :
         frag_table[s][j] # NoBuf => st[s] # "none" /\ BufSound(frag_table[s][j], sid[s], j)

\* A frame is in one place only: QUIC never delivers it twice, and nobody copies it.
OnceOK ==
    /\ \A f \in todo \cap UdpFrame, s \in Sess :
         ~InHand(f) /\ ~Queued(s, f) /\ ~(Working(s) /\ job[s] = f) /\ ~Buffered(s, f)
    /\ udp = "send" => \A s \in Sess :
         ~Queued(s, frame) /\ ~(Working(s) /\ job[s] = frame) /\ ~Buffered(s, frame)
    /\ \A s \in Sess :
         /\ \A i, j \in 1..Len(rx[s]) : rx[s][i] = rx[s][j] => i = j
         /\ \A i \in 1..Len(rx[s]) : ~(Working(s) /\ job[s] = rx[s][i]) /\ ~Buffered(s, rx[s][i])
         /\ Working(s) => ~Buffered(s, job[s])

SentOK ==
    /\ \A d \in sent : \A i \in DOMAIN d : [pkt |-> d[i], frag |-> i] \in UdpFrame
    /\ WholeDatagrams

\* The inductive invariant of WholeDatagrams.
FInv == IInv /\ PlainTypes /\ FramesOK /\ BuffersOK /\ OnceOK /\ SentOK

LEMMA FrameFacts ==
    ASSUME NEW f \in UdpFrame
    PROVE  /\ f.pkt \in Pkt /\ f.frag \in 0..(TotalOf[f.pkt] - 1) /\ TotalOf[f.pkt] \in Nat \ {0}
           /\ f = [pkt |-> f.pkt, frag |-> f.frag]
           /\ PidOf[f.pkt] \in Pid /\ SidOf[f.pkt] \in Sid
<1>1. PICK p \in Pkt : f \in [pkt : {p}, frag : 0..(TotalOf[p] - 1)]
  BY DEF UdpFrame
<1>2. f.pkt = p /\ f = [pkt |-> f.pkt, frag |-> f.frag]
  BY <1>1
<1>3. QED
  BY <1>1, <1>2, Hy2Assumption DEF Sid, Pid

LEMMA PlainStep ==
    ASSUME FInv, Next
    PROVE  PlainTypes'
<1> USE DEF PlainTypes
<1>1. PlainTypes
  BY DEF FInv
<1>2. CASE UNCHANGED <<web, udp, frame, dest, tcp, t1, t2, out>> /\ quic' \in {"open", "closed"}
           /\ phase' \in {"h3", "proxy", "closed", "refused"} /\ todo' \subseteq todo
  BY <1>1, <1>2
<1>3. CASE connection_lost \/ h3_ends \/ select_ends
  BY <1>1, <1>2, <1>3 DEF connection_lost, h3_ends, select_ends
<1>4. ASSUME NEW r \in Req, h3_other(r) \/ masquerade(r) PROVE PlainTypes'
  <2>1. /\ UNCHANGED <<quic, phase, udp, frame, dest, tcp, t1, t2, out>> /\ todo' \subseteq todo
        /\ \E x \in {"masq", "404", "502", "redirect", "page"} : web' = [web EXCEPT ![r] = x]
    BY <1>4 DEF h3_other, masquerade, MasqStatus
  <2>2. QED
    BY <1>1, <2>1
<1>5. ASSUME NEW good \in BOOLEAN, h3_auth(good) PROVE PlainTypes'
  BY <1>1, <1>5 DEF h3_auth
<1>6. CASE loop_ends \/ send_frame \/ send_fails \/ tcp_loop_ends
  <2>1. /\ UNCHANGED <<quic, phase, web, todo, t1, t2, out>> /\ udp' \in {"off", "read", "send", "ended"}
        /\ tcp' \in {"off", "run", "ended"}
        /\ frame' \in {frame, NoFrame} /\ dest' \in {dest, NoSess}
    BY <1>1, <1>6 DEF loop_ends, send_frame, send_fails, tcp_loop_ends
  <2>2. QED
    BY <1>1, <2>1
<1>7. ASSUME NEW f \in UdpFrame, read_datagram(f) \/ \E s \in Sess : new_session(f, s) PROVE PlainTypes'
  <2>1. CASE read_datagram(f)
    <3>1. session_map[SidOf[f.pkt]] \in Sess \cup {NoSess}
      BY FrameFacts DEF FInv, IInv, TableTypes
    <3>2. QED
      BY <1>1, <2>1, <3>1 DEF read_datagram
  <2>2. CASE \E s \in Sess : new_session(f, s)
    BY <1>1, <2>2 DEF new_session
  <2>3. QED
    BY <1>7, <2>1, <2>2
<1>8. ASSUME NEW s \in Sess, SessionStep(s) \/ bind_fails(s) \/ recv_ends(s) PROVE PlainTypes'
  BY <1>1, <1>8 DEF SessionStep, session_starts, session_recv, session_relays, session_ends, session_cleanup,
                    bind_fails, recv_ends
<1>9. ASSUME NEW i \in Str, StreamStep(i) PROVE PlainTypes'
  <2>1. /\ UNCHANGED <<quic, phase, web, udp, frame, dest, tcp>> /\ todo' \subseteq todo
    BY <1>9 DEF StreamStep, accept_bi, handle_tcp_bidi, connect_ok, connect_fails, t1_ends, t2_copies, t2_ends, stream_ends
  <2>2. t1' = t1 \/ \E x \in {"copy", "done"} : t1' = [t1 EXCEPT ![i] = x]
    BY <1>9 DEF StreamStep, accept_bi, handle_tcp_bidi, connect_ok, connect_fails, t1_ends, t2_copies, t2_ends, stream_ends
  <2>3. t2' = t2 \/ \E x \in {"copy", "done"} : t2' = [t2 EXCEPT ![i] = x]
    BY <1>9 DEF StreamStep, accept_bi, handle_tcp_bidi, connect_ok, connect_fails, t1_ends, t2_copies, t2_ends, stream_ends
  <2>4. ASSUME NEW items \in Seq({"ok", "error", "data", "fin"})
        PROVE  Written(i, items) \in Seq({"ok", "error", "data", "fin"})
    <3>1. out[i] \in Seq({"ok", "error", "data", "fin"})
      BY <1>1
    <3>2. out[i] \o items \in Seq({"ok", "error", "data", "fin"})
      BY <3>1, ConcatProperties
    <3>3. QED
      BY <3>1, <3>2 DEF Written
  <2>5. out' = out \/ \E items \in {<<"error", "fin">>, <<"ok">>, <<"data">>, <<"fin">>} :
                         out' = [out EXCEPT ![i] = Written(i, items)]
    BY <1>9 DEF StreamStep, accept_bi, handle_tcp_bidi, connect_ok, connect_fails, t1_ends, t2_copies, t2_ends, stream_ends
  <2>6. out' \in [Str -> Seq({"ok", "error", "data", "fin"})]
    <3>1. CASE out' = out
      BY <1>1, <3>1
    <3>2. ASSUME NEW items \in Seq({"ok", "error", "data", "fin"}), out' = [out EXCEPT ![i] = Written(i, items)]
          PROVE  out' \in [Str -> Seq({"ok", "error", "data", "fin"})]
      BY <1>1, <2>4, <3>2
    <3>3. /\ <<"error", "fin">> \in Seq({"ok", "error", "data", "fin"})
          /\ <<"ok">> \in Seq({"ok", "error", "data", "fin"})
          /\ <<"data">> \in Seq({"ok", "error", "data", "fin"})
          /\ <<"fin">> \in Seq({"ok", "error", "data", "fin"})
      OBVIOUS
    <3>4. QED
      BY <2>5, <3>1, <3>2, <3>3
  <2>7. t1' \in [Str -> {"off", "copy", "done"}]
    BY <1>1, <2>2
  <2>8. t2' \in [Str -> {"off", "copy", "done"}]
    BY <1>1, <2>3
  <2>9. QED
    BY <1>1, <2>1, <2>6, <2>7, <2>8
<1>10. QED
  BY <1>3, <1>4, <1>5, <1>6, <1>7, <1>8, <1>9 DEF Next

-----------------------------------------------------------------------------
(* Fragment buffers                                                         *)

\* The buffer the first fragment of a packet finds.
LEMMA FirstInsert ==
    ASSUME NEW f \in UdpFrame, TotalOf[f.pkt] > 1
    PROVE  BufSound(FragInsert([NoBuf EXCEPT !.total = TotalOf[f.pkt]], f), SidOf[f.pkt], PidOf[f.pkt])
<1> DEFINE b == [NoBuf EXCEPT !.total = TotalOf[f.pkt]]
           c == FragInsert(b, f)
<1>1. b.total = TotalOf[f.pkt] /\ b.received = 0 /\ DOMAIN b.frags = {}
  BY DEF NoBuf
<1>2. c.total = TotalOf[f.pkt] /\ c.received = 1 /\ c.frags = [i \in {f.frag} |-> f.pkt]
  BY <1>1 DEF FragInsert
<1> HIDE DEF b, c
<1>3. DOMAIN c.frags = {f.frag} /\ \A x \in DOMAIN c.frags : c.frags[x] = f.pkt /\ x = f.frag
  BY <1>2
<1>4. IsFiniteSet(DOMAIN c.frags) /\ Cardinality(DOMAIN c.frags) = 1
  BY <1>3, FS_Singleton
<1>5. c.frags \in [DOMAIN c.frags -> Pkt]
  BY <1>2, <1>3, FrameFacts
<1>6. f.pkt \in Pkt /\ TotalOf[f.pkt] \in Nat /\ [pkt |-> f.pkt, frag |-> f.frag] \in UdpFrame
  BY FrameFacts
<1>7. \A x \in DOMAIN c.frags :
         /\ [pkt |-> c.frags[x], frag |-> x] \in UdpFrame /\ SidOf[c.frags[x]] = SidOf[f.pkt]
         /\ PidOf[c.frags[x]] = PidOf[f.pkt] /\ TotalOf[c.frags[x]] > 1
  BY <1>3, <1>6
<1>8. \E p \in Pkt : /\ \A x \in DOMAIN c.frags : c.frags[x] = p
                     /\ c.total = TotalOf[p] /\ c.received = Cardinality(DOMAIN c.frags)
  BY <1>2, <1>3, <1>4, <1>6
<1>9. c.total \in Nat /\ c.received \in Nat /\ DOMAIN c.frags # {}
  BY <1>2, <1>3, <1>6
<1>10. BufSound(c, SidOf[f.pkt], PidOf[f.pkt])
  BY <1>4, <1>5, <1>7, <1>8, <1>9 DEF BufSound
<1>11. QED
  BY <1>10 DEF b, c

\* The buffer a later fragment finds: if that fragment is not in it, it is counted once.
LEMMA NextInsert ==
    ASSUME NEW f \in UdpFrame, TotalOf[f.pkt] > 1,
           NEW b, BufSound(b, SidOf[f.pkt], PidOf[f.pkt]), ~Kept(b, f)
    PROVE  BufSound(FragInsert(b, f), SidOf[f.pkt], PidOf[f.pkt])
<1> DEFINE c == FragInsert(b, f)
           D == DOMAIN b.frags
<1>1. /\ c.total = b.total /\ c.received = b.received + 1
      /\ c.frags = [i \in D \cup {f.frag} |-> IF i \in D THEN b.frags[i] ELSE f.pkt]
  BY DEF FragInsert
<1>2. /\ b.total \in Nat /\ b.received \in Nat /\ b.frags \in [D -> Pkt] /\ IsFiniteSet(D) /\ D # {}
      /\ \A x \in D : /\ [pkt |-> b.frags[x], frag |-> x] \in UdpFrame /\ SidOf[b.frags[x]] = SidOf[f.pkt]
                      /\ PidOf[b.frags[x]] = PidOf[f.pkt] /\ TotalOf[b.frags[x]] > 1
  BY DEF BufSound
<1> HIDE DEF c, D
<1>3. /\ DOMAIN c.frags = D \cup {f.frag} /\ (\A x \in D : c.frags[x] = b.frags[x])
      /\ (f.frag \notin D => c.frags[f.frag] = f.pkt)
  BY <1>1
<1>4. f.pkt \in Pkt /\ f = [pkt |-> f.pkt, frag |-> f.frag]
  BY FrameFacts
<1>5. c.frags \in [DOMAIN c.frags -> Pkt]
  BY <1>1, <1>2, <1>3, <1>4
<1>6. IsFiniteSet(DOMAIN c.frags) /\ (f.frag \notin D => Cardinality(DOMAIN c.frags) = Cardinality(D) + 1)
  <2>1. /\ IsFiniteSet(D \cup {f.frag})
        /\ Cardinality(D \cup {f.frag}) = IF f.frag \in D THEN Cardinality(D) ELSE Cardinality(D) + 1
    BY <1>2, FS_AddElement
  <2>2. QED
    BY <1>3, <2>1
<1>7. \A x \in DOMAIN c.frags : /\ [pkt |-> c.frags[x], frag |-> x] \in UdpFrame /\ SidOf[c.frags[x]] = SidOf[f.pkt]
                                /\ PidOf[c.frags[x]] = PidOf[f.pkt] /\ TotalOf[c.frags[x]] > 1
  BY <1>2, <1>3, <1>4
<1>8. \/ \E x \in DOMAIN c.frags, q \in Pkt : Confusable(c.frags[x], q)
      \/ \E p \in Pkt : /\ \A x \in DOMAIN c.frags : c.frags[x] = p
                        /\ c.total = TotalOf[p] /\ c.received = Cardinality(DOMAIN c.frags)
  <2>1. CASE \E x \in D, q \in Pkt : Confusable(b.frags[x], q)
    BY <1>3, <2>1
  <2>2. ASSUME NEW p \in Pkt, \A x \in D : b.frags[x] = p, b.total = TotalOf[p], b.received = Cardinality(D)
        PROVE  \/ \E x \in DOMAIN c.frags, q \in Pkt : Confusable(c.frags[x], q)
               \/ \E q \in Pkt : /\ \A x \in DOMAIN c.frags : c.frags[x] = q
                                 /\ c.total = TotalOf[q] /\ c.received = Cardinality(DOMAIN c.frags)
    <3>1. PICK x \in D : TRUE
      BY <1>2
    <3>2. CASE p # f.pkt
      <4>1. Confusable(b.frags[x], f.pkt)
        BY <1>2, <2>2, <3>1, <3>2 DEF Confusable
      <4>2. QED
        BY <1>3, <1>4, <3>1, <4>1
    <3>3. CASE p = f.pkt
      <4>1. f.frag \notin D
        BY <2>2, <3>3 DEF Kept, D
      <4>2. \A y \in DOMAIN c.frags : c.frags[y] = p
        BY <1>3, <2>2, <3>3, <4>1
      <4>3. c.received = Cardinality(DOMAIN c.frags)
        BY <1>1, <1>6, <2>2, <4>1
      <4>4. QED
        BY <1>1, <2>2, <4>2, <4>3
    <3>4. QED
      BY <3>2, <3>3
  <2>3. \/ \E x \in D, q \in Pkt : Confusable(b.frags[x], q)
        \/ \E p \in Pkt : (\A x \in D : b.frags[x] = p) /\ b.total = TotalOf[p] /\ b.received = Cardinality(D)
    BY DEF BufSound, D
  <2>4. QED
    BY <2>1, <2>2, <2>3
<1>9. c.total \in Nat /\ c.received \in Nat /\ DOMAIN c.frags # {}
  BY <1>1, <1>2, <1>3
<1>10. BufSound(c, SidOf[f.pkt], PidOf[f.pkt])
  BY <1>5, <1>6, <1>7, <1>8, <1>9 DEF BufSound
<1>11. QED
  BY <1>10 DEF c

\* A buffer that counts as complete holds one packet, all of it, or mixes packets that
\* share their ids.
LEMMA CompleteIsWhole ==
    ASSUME NEW b, NEW n, NEW j, BufSound(b, n, j), b.received >= b.total
    PROVE  \/ \E p \in Pkt : b.frags = [i \in 0..(TotalOf[p] - 1) |-> p]
           \/ \E i \in DOMAIN b.frags, q \in Pkt : Confusable(b.frags[i], q)
<1> DEFINE D == DOMAIN b.frags
<1>1. SUFFICES ASSUME NEW p \in Pkt, \A x \in D : b.frags[x] = p,
                      b.total = TotalOf[p], b.received = Cardinality(D)
               PROVE  b.frags = [i \in 0..(TotalOf[p] - 1) |-> p]
  BY DEF BufSound
<1>2. /\ b.frags \in [D -> Pkt] /\ IsFiniteSet(D)
      /\ \A x \in D : [pkt |-> b.frags[x], frag |-> x] \in UdpFrame
  BY DEF BufSound
<1> HIDE DEF D
<1>3. ASSUME NEW x \in D PROVE x \in 0..(TotalOf[p] - 1)
  <2>1. [pkt |-> p, frag |-> x] \in UdpFrame
    BY <1>1, <1>2
  <2>2. QED
    BY <2>1, FrameFacts
<1>4. TotalOf[p] \in Nat \ {0}
  BY Hy2Assumption
<1>5. IsFiniteSet(0..(TotalOf[p] - 1)) /\ Cardinality(0..(TotalOf[p] - 1)) = TotalOf[p]
  <2>1. 0 \in Int /\ TotalOf[p] - 1 \in Int /\ ~(0 > TotalOf[p] - 1) /\ (TotalOf[p] - 1) - 0 + 1 = TotalOf[p]
    BY <1>4
  <2>2. QED
    BY <2>1, FS_Interval
<1>6. D \in SUBSET (0..(TotalOf[p] - 1))
  BY <1>3
<1>7. Cardinality(D) <= TotalOf[p] /\ Cardinality(D) \in Nat
  <2>1. Cardinality(D) <= Cardinality(0..(TotalOf[p] - 1))
    BY <1>5, <1>6, FS_Subset
  <2>2. Cardinality(D) \in Nat
    BY <1>2, FS_CardinalityType
  <2>3. QED
    BY <1>5, <2>1, <2>2
<1>8. Cardinality(0..(TotalOf[p] - 1)) = Cardinality(D)
  BY <1>1, <1>4, <1>5, <1>7
<1>9. D = 0..(TotalOf[p] - 1)
  BY <1>5, <1>6, <1>8, FS_Subset
<1>10. QED
  BY <1>1, <1>2, <1>9

LEMMA InsertTyped ==
    ASSUME NEW f \in UdpFrame, NEW b, NEW n, NEW j, BufSound(FragInsert(b, f), n, j)
    PROVE  FragInsert(b, f) \in FragBuffer
<1> DEFINE c == FragInsert(b, f)
<1>1. c = [total |-> c.total, received |-> c.received, frags |-> c.frags]
  BY DEF FragInsert
<1>2. /\ c.total \in Nat /\ c.received \in Nat /\ c.frags \in [DOMAIN c.frags -> Pkt]
      /\ \A x \in DOMAIN c.frags : [pkt |-> c.frags[x], frag |-> x] \in UdpFrame
  BY DEF BufSound
<1> HIDE DEF c
<1>3. ASSUME NEW x \in DOMAIN c.frags PROVE x \in {g.frag : g \in UdpFrame}
  <2>1. [pkt |-> c.frags[x], frag |-> x].frag = x
    OBVIOUS
  <2>2. QED
    BY <1>2, <2>1
<1>4. DOMAIN c.frags \in SUBSET {g.frag : g \in UdpFrame}
  BY <1>3
<1>5. c.frags \in UNION {[F -> Pkt] : F \in SUBSET {g.frag : g \in UdpFrame}}
  BY <1>2, <1>4
<1>6. QED
  BY <1>1, <1>2, <1>5 DEF FragBuffer, c

LEMMA NoBufFacts == NoBuf \in FragBuffer /\ \A f : ~Kept(NoBuf, f)
<1>1. <<>> \in [{} -> Pkt] /\ {} \in SUBSET {f.frag : f \in UdpFrame}
  OBVIOUS
<1>2. NoBuf \in FragBuffer
  BY <1>1 DEF NoBuf, FragBuffer
<1>3. DOMAIN NoBuf.frags = {}
  BY DEF NoBuf
<1>4. QED
  BY <1>2, <1>3 DEF Kept

\* A fragment that is not kept yet goes into a sound buffer.
LEMMA InsertOK ==
    ASSUME FInv, NEW s \in Sess, NEW f \in UdpFrame, SidOf[f.pkt] = sid[s], TotalOf[f.pkt] > 1, ~Buffered(s, f)
    PROVE  LET c == FragInsert(BufferOf(s, f), f)
           IN  /\ BufSound(c, sid[s], PidOf[f.pkt]) /\ c \in FragBuffer
               /\ \A g \in UdpFrame : PidOf[g.pkt] = PidOf[f.pkt] /\ Kept(c, g) => g = f \/ Buffered(s, g)
<1> DEFINE old == frag_table[s][PidOf[f.pkt]]
           b == BufferOf(s, f)
           c == FragInsert(b, f)
<1>1. PidOf[f.pkt] \in Pid
  BY FrameFacts
<1>2. CASE old = NoBuf
  <2>1. b = [NoBuf EXCEPT !.total = TotalOf[f.pkt]]
    BY <1>2 DEF BufferOf
  <2>2. BufSound(c, SidOf[f.pkt], PidOf[f.pkt])
    BY <2>1, FirstInsert
  <2>3. DOMAIN b.frags = {}
    BY <2>1 DEF NoBuf
  <2>4. ASSUME NEW g \in UdpFrame, Kept(c, g) PROVE g = f
    <3>1. c.frags = [i \in {f.frag} |-> f.pkt]
      BY <2>3 DEF FragInsert
    <3>2. g.frag = f.frag /\ g.pkt = f.pkt
      BY <2>4, <3>1 DEF Kept
    <3>3. QED
      BY <3>2, FrameFacts
  <2>5. QED
    BY <2>2, <2>4, InsertTyped
<1>3. CASE old # NoBuf
  <2>1. b = old /\ BufSound(b, SidOf[f.pkt], PidOf[f.pkt]) /\ ~Kept(b, f)
    BY <1>1, <1>3 DEF BufferOf, FInv, BuffersOK, Buffered
  <2> HIDE DEF b
  <2>2. BufSound(c, SidOf[f.pkt], PidOf[f.pkt])
    BY <2>1, NextInsert
  <2>3. ASSUME NEW g \in UdpFrame, PidOf[g.pkt] = PidOf[f.pkt], Kept(c, g) PROVE g = f \/ Buffered(s, g)
    <3>1. c.frags = [i \in DOMAIN b.frags \cup {f.frag} |-> IF i \in DOMAIN b.frags THEN b.frags[i] ELSE f.pkt]
      BY DEF FragInsert
    <3>2. CASE g.frag \in DOMAIN b.frags
      BY <2>1, <2>3, <3>1, <3>2 DEF Kept, Buffered
    <3>3. CASE g.frag \notin DOMAIN b.frags
      <4>1. g.frag = f.frag /\ g.pkt = f.pkt
        BY <2>3, <3>1, <3>3 DEF Kept
      <4>2. QED
        BY <4>1, FrameFacts
    <3>4. QED
      BY <3>2, <3>3
  <2>4. QED
    BY <2>2, <2>3, InsertTyped DEF b
<1>4. QED
  BY <1>2, <1>3

\* What relay_frame does to the fragment table.
TableAfter(s, f) ==
    /\ frag_table' \in [Sess -> [Pid -> FragBuffer]]
    /\ \A t \in Sess, j \in Pid : frag_table'[t][j] # NoBuf =>
         \/ frag_table'[t][j] = frag_table[t][j]
         \/ t = s /\ BufSound(frag_table'[t][j], sid[s], j)
    /\ \A t \in Sess, g \in UdpFrame : Kept(frag_table'[t][PidOf[g.pkt]], g) =>
         Buffered(t, g) \/ (t = s /\ g = f)

LEMMA RelayFrame ==
    ASSUME FInv, NEW s \in Sess, Working(s), relay_frame(s, job[s])
    PROVE  TableAfter(s, job[s]) /\ SentOK'
<1> DEFINE f == job[s]
           k == PidOf[f.pkt]
<1>1. f \in UdpFrame /\ SidOf[f.pkt] = sid[s] /\ ~Buffered(s, f)
  BY DEF FInv, FramesOK, OnceOK
<1>2. /\ f.pkt \in Pkt /\ f.frag \in 0..(TotalOf[f.pkt] - 1) /\ TotalOf[f.pkt] \in Nat \ {0} /\ k \in Pid
      /\ f = [pkt |-> f.pkt, frag |-> f.frag]
  BY <1>1, FrameFacts
<1>3. frag_table \in [Sess -> [Pid -> FragBuffer]]
  BY DEF FInv, BuffersOK
<1>4. ASSUME NEW d, sent' = sent \cup {d}, \A i \in DOMAIN d : [pkt |-> d[i], frag |-> i] \in UdpFrame,
             \/ \E p \in Pkt : d = [i \in 0..(TotalOf[p] - 1) |-> p]
             \/ \E i \in DOMAIN d, q \in Pkt : Confusable(d[i], q)
      PROVE  SentOK'
  BY <1>4 DEF FInv, SentOK, WholeDatagrams
<1>5. CASE TotalOf[f.pkt] <= 1
  <2> DEFINE d == [i \in {f.frag} |-> f.pkt]
  <2>1. sent' = sent \cup {d} /\ frag_table' = frag_table
    BY <1>5 DEF relay_frame
  <2>2. TotalOf[f.pkt] = 1 /\ f.frag = 0
    BY <1>2, <1>5
  <2>3. d = [i \in 0..(TotalOf[f.pkt] - 1) |-> f.pkt]
    BY <2>2
  <2>4. \A i \in DOMAIN d : [pkt |-> d[i], frag |-> i] \in UdpFrame
    BY <1>1, <1>2
  <2> HIDE DEF d, f
  <2>5. SentOK'
    BY <1>2, <1>4, <2>1, <2>3, <2>4
  <2>6. TableAfter(s, f)
    BY <1>3, <2>1 DEF TableAfter, Buffered
  <2>7. QED
    BY <2>5, <2>6 DEF f
<1>6. CASE ~(TotalOf[f.pkt] <= 1)
  <2> DEFINE c == FragInsert(BufferOf(s, f), f)
  <2>1. TotalOf[f.pkt] > 1
    BY <1>2, <1>6
  <2>2. /\ BufSound(c, sid[s], k) /\ c \in FragBuffer
        /\ \A g \in UdpFrame : PidOf[g.pkt] = k /\ Kept(c, g) => g = f \/ Buffered(s, g)
    BY <1>1, <2>1, InsertOK
  <2>3. /\ frag_table' = [frag_table EXCEPT ![s] = [frag_table[s] EXCEPT ![k] = IF c.received >= c.total THEN NoBuf ELSE c]]
        /\ sent' = IF c.received >= c.total THEN sent \cup {c.frags} ELSE sent
    BY <1>6 DEF relay_frame
  <2> HIDE DEF c, k, f
  <2>4. PICK e \in {NoBuf, c} : frag_table' = [frag_table EXCEPT ![s] = [frag_table[s] EXCEPT ![k] = e]]
    BY <2>3
  <2>5. e \in FragBuffer
    BY <2>2, NoBufFacts
  <2>6. /\ frag_table' \in [Sess -> [Pid -> FragBuffer]] /\ frag_table'[s][k] = e
        /\ \A j \in Pid \ {k} : frag_table'[s][j] = frag_table[s][j]
        /\ \A t \in Sess \ {s} : frag_table'[t] = frag_table[t]
    BY <1>2, <1>3, <2>4, <2>5
  <2>7. ASSUME NEW t \in Sess, NEW j \in Pid, frag_table'[t][j] # NoBuf
        PROVE  \/ frag_table'[t][j] = frag_table[t][j]
               \/ t = s /\ BufSound(frag_table'[t][j], sid[s], j)
    BY <2>2, <2>6, <2>7
  <2>8. ASSUME NEW t \in Sess, NEW g \in UdpFrame, Kept(frag_table'[t][PidOf[g.pkt]], g)
        PROVE  Buffered(t, g) \/ (t = s /\ g = f)
    <3>1. PidOf[g.pkt] \in Pid
      BY FrameFacts
    <3>2. CASE t = s /\ PidOf[g.pkt] = k
      BY <2>2, <2>6, <2>8, <3>2, NoBufFacts
    <3>3. CASE ~(t = s /\ PidOf[g.pkt] = k)
      BY <2>6, <2>8, <3>1, <3>3 DEF Buffered
    <3>4. QED
      BY <3>2, <3>3
  <2>9. TableAfter(s, f)
    BY <2>6, <2>7, <2>8 DEF TableAfter
  <2>10. SentOK'
    <3>1. CASE c.received >= c.total
      <4>1. sent' = sent \cup {c.frags}
        BY <2>3, <3>1
      <4>2. \/ \E p \in Pkt : c.frags = [i \in 0..(TotalOf[p] - 1) |-> p]
            \/ \E i \in DOMAIN c.frags, q \in Pkt : Confusable(c.frags[i], q)
        BY <2>2, <3>1, CompleteIsWhole
      <4>3. \A i \in DOMAIN c.frags : [pkt |-> c.frags[i], frag |-> i] \in UdpFrame
        BY <2>2 DEF BufSound
      <4>4. QED
        BY <1>4, <4>1, <4>2, <4>3
    <3>2. CASE ~(c.received >= c.total)
      BY <2>3, <3>2 DEF FInv, SentOK, WholeDatagrams
    <3>3. QED
      BY <3>1, <3>2
  <2>11. QED
    BY <2>9, <2>10 DEF f
<1>7. QED
  BY <1>5, <1>6

-----------------------------------------------------------------------------
(* Frames on their way                                                      *)

FlowInv == FramesOK /\ BuffersOK /\ OnceOK /\ SentOK

\* Steps that move no frame: the loop may drop the one it has, sessions may end.
LEMMA QuietStep ==
    ASSUME FInv, UNCHANGED <<sid, rx, job, frag_table, sent>>, todo' \subseteq todo,
           udp' = "send" => udp = "send" /\ frame' = frame /\ dest' = dest,
           \A s \in Sess : (st'[s] \in {"start", "relay"} => Working(s)) /\ (st'[s] = "none" <=> st[s] = "none")
    PROVE  FlowInv'
<1>1. udp = "send" => dest \in Sess
  BY DEF FInv, IInv, LoopOK
<1>2. FramesOK'
  BY <1>1 DEF FInv, FramesOK, Working
<1>3. BuffersOK'
  BY DEF FInv, BuffersOK
<1>4. OnceOK'
  <2>1. /\ \A f \in todo' \cap UdpFrame, s \in Sess :
              ~InHand(f)' /\ ~Queued(s, f) /\ ~(Working(s) /\ job[s] = f) /\ ~Buffered(s, f)
        /\ udp' = "send" => \A s \in Sess :
              ~Queued(s, frame') /\ ~(Working(s) /\ job[s] = frame') /\ ~Buffered(s, frame')
    BY DEF FInv, OnceOK, InHand
  <2>2. \A s \in Sess : Working(s)' => Working(s)
    BY DEF Working
  <2>3. /\ \A s \in Sess : \A f : Queued(s, f)' <=> Queued(s, f)
        /\ \A s \in Sess : \A f : Buffered(s, f)' <=> Buffered(s, f)
    BY DEF Queued, Buffered
  <2>4. \A s \in Sess :
         /\ \A i, j \in 1..Len(rx'[s]) : rx'[s][i] = rx'[s][j] => i = j
         /\ \A i \in 1..Len(rx'[s]) : ~(Working(s)' /\ job'[s] = rx'[s][i]) /\ ~Buffered(s, rx'[s][i])
         /\ Working(s)' => ~Buffered(s, job'[s])
    BY <2>2 DEF FInv, OnceOK
  <2>5. QED
    BY <2>1, <2>2, <2>3, <2>4 DEF OnceOK, Queued, Buffered
<1>5. SentOK'
  BY DEF FInv, SentOK, WholeDatagrams
<1>6. QED
  BY <1>2, <1>3, <1>4, <1>5 DEF FlowInv

LEMMA ReadStep ==
    ASSUME FInv, NEW f \in UdpFrame, read_datagram(f)
    PROVE  FlowInv'
<1>1. /\ f \in todo /\ todo' = todo \ {f} /\ udp = "read" /\ udp' = "send" /\ frame' = f
      /\ dest' = session_map[SidOf[f.pkt]] /\ session_map[SidOf[f.pkt]] # NoSess
      /\ UNCHANGED <<st, sid, rx, job, frag_table, sent>>
  BY DEF read_datagram, Known
<1>2. SidOf[f.pkt] \in Sid
  BY FrameFacts
<1>3. st[dest'] # "none" /\ sid[dest'] = SidOf[f.pkt]
  BY <1>1, <1>2 DEF FInv, IInv, TableSound
<1>4. FramesOK'
  BY <1>1, <1>3 DEF FInv, FramesOK, Working
<1>5. BuffersOK' /\ SentOK'
  BY <1>1 DEF FInv, BuffersOK, SentOK, WholeDatagrams
<1>6. OnceOK'
  BY <1>1 DEF FInv, OnceOK, InHand, Queued, Working, Buffered
<1>7. QED
  BY <1>4, <1>5, <1>6 DEF FlowInv

\* The frame moves from the loop into the session's channel.
LEMMA SendStep ==
    ASSUME FInv, send_frame
    PROVE  FlowInv'
<1>1. /\ udp = "send" /\ udp' = "read" /\ Len(rx[dest]) < ChanCap /\ RxOpen(dest)
      /\ rx' = [rx EXCEPT ![dest] = Append(rx[dest], frame)]
      /\ UNCHANGED <<todo, st, sid, job, frag_table, sent>>
  BY DEF send_frame, HasRoom
<1>2. dest \in Sess /\ frame \in UdpFrame /\ sid[dest] = SidOf[frame.pkt] /\ rx \in [Sess -> Seq(UdpFrame)]
  BY <1>1 DEF FInv, IInv, LoopOK, FramesOK
<1>3. /\ ~Queued(dest, frame) /\ ~(Working(dest) /\ job[dest] = frame) /\ ~Buffered(dest, frame)
      /\ frame \notin todo
  BY <1>1, <1>2 DEF FInv, OnceOK, InHand
<1>4. PICK q \in Seq(UdpFrame) : q = Append(rx[dest], frame)
  BY <1>2, AppendProperties
<1>5. /\ Len(q) = Len(rx[dest]) + 1 /\ Len(rx[dest]) \in Nat
      /\ \A i \in 1..Len(rx[dest]) : q[i] = rx[dest][i]
      /\ q[Len(rx[dest]) + 1] = frame
  BY <1>2, <1>4, AppendProperties
<1>6. rx' \in [Sess -> Seq(UdpFrame)] /\ rx'[dest] = q /\ \A s \in Sess \ {dest} : rx'[s] = rx[s]
  BY <1>1, <1>2, <1>4
<1>7. \A i \in 1..Len(q) : (i \in 1..Len(rx[dest]) /\ q[i] = rx[dest][i]) \/ (i = Len(rx[dest]) + 1 /\ q[i] = frame)
  BY <1>5
<1>8. FramesOK'
  <2>1. Len(q) <= ChanCap /\ st[dest] # "none"
    BY <1>1, <1>5, Hy2Assumption DEF RxOpen
  <2>2. \A i \in 1..Len(q) : SidOf[q[i].pkt] = sid[dest]
    BY <1>2, <1>7 DEF FInv, FramesOK
  <2>3. QED
    BY <1>1, <1>2, <1>6, <2>1, <2>2 DEF FInv, FramesOK, Working
<1>9. BuffersOK' /\ SentOK'
  BY <1>1 DEF FInv, BuffersOK, SentOK, WholeDatagrams
<1>10. ASSUME NEW s \in Sess, NEW f, Queued(s, f)' PROVE Queued(s, f) \/ (s = dest /\ f = frame)
  BY <1>6, <1>7, <1>10 DEF Queued
<1>11. OnceOK'
  <2>1. \A f \in todo' \cap UdpFrame, s \in Sess :
           ~InHand(f)' /\ ~Queued(s, f)' /\ ~(Working(s)' /\ job'[s] = f) /\ ~Buffered(s, f)'
    BY <1>1, <1>3, <1>10 DEF FInv, OnceOK, InHand, Working, Buffered
  <2>2. ASSUME NEW s \in Sess
        PROVE  /\ \A i, j \in 1..Len(rx'[s]) : rx'[s][i] = rx'[s][j] => i = j
               /\ \A i \in 1..Len(rx'[s]) : ~(Working(s) /\ job[s] = rx'[s][i]) /\ ~Buffered(s, rx'[s][i])
               /\ Working(s) => ~Buffered(s, job[s])
    <3>1. CASE s # dest
      BY <1>6, <3>1 DEF FInv, OnceOK
    <3>2. CASE s = dest
      <4>1. \A i \in 1..Len(rx[s]) : rx[s][i] # frame
        BY <1>3, <3>2 DEF Queued
      <4>2. /\ \A i, j \in 1..Len(rx[s]) : rx[s][i] = rx[s][j] => i = j
            /\ \A i \in 1..Len(rx[s]) : ~(Working(s) /\ job[s] = rx[s][i]) /\ ~Buffered(s, rx[s][i])
            /\ Working(s) => ~Buffered(s, job[s])
        BY DEF FInv, OnceOK
      <4>3. \A i, j \in 1..Len(q) : q[i] = q[j] => i = j
        BY <1>7, <3>2, <4>1, <4>2
      <4>4. \A i \in 1..Len(q) : ~(Working(s) /\ job[s] = q[i]) /\ ~Buffered(s, q[i])
        BY <1>3, <1>7, <3>2, <4>2
      <4>5. QED
        BY <1>6, <3>2, <4>2, <4>3, <4>4
    <3>3. QED
      BY <3>1, <3>2
  <2>3. QED
    BY <1>1, <2>1, <2>2 DEF OnceOK, Working, Buffered
<1>12. QED
  BY <1>8, <1>9, <1>11 DEF FlowInv

\* The frame goes to a new task.
LEMMA OpenStep ==
    ASSUME FInv, NEW f \in UdpFrame, NEW s \in Sess, new_session(f, s)
    PROVE  FlowInv'
<1>1. /\ f \in todo /\ todo' = todo \ {f} /\ udp = "read" /\ udp' = "read" /\ st[s] = "none"
      /\ st' = [st EXCEPT ![s] = "start"] /\ sid' = [sid EXCEPT ![s] = SidOf[f.pkt]]
      /\ job' = [job EXCEPT ![s] = f] /\ UNCHANGED <<rx, frag_table, sent>>
  BY DEF new_session
<1>2. /\ st'[s] = "start" /\ sid'[s] = SidOf[f.pkt] /\ job'[s] = f /\ rx[s] = <<>>
      /\ \A t \in Sess \ {s} : st'[t] = st[t] /\ sid'[t] = sid[t] /\ job'[t] = job[t]
      /\ job' \in [Sess -> UdpFrame \cup {NoFrame}]
  BY <1>1 DEF FInv, IInv, TableTypes, FramesOK
<1>3. ~Queued(s, f) /\ ~Buffered(s, f)
  BY <1>1 DEF FInv, OnceOK
<1>4. FramesOK'
  BY <1>1, <1>2 DEF FInv, FramesOK, Working
<1>5. BuffersOK' /\ SentOK'
  BY <1>1, <1>2 DEF FInv, BuffersOK, SentOK, WholeDatagrams
<1>6. OnceOK'
  <2>1. \A t \in Sess : (Working(t)' /\ t # s) => Working(t) /\ job'[t] = job[t]
    BY <1>2 DEF Working
  <2>2. \A g \in todo' \cap UdpFrame, t \in Sess :
           ~InHand(g)' /\ ~Queued(t, g) /\ ~(Working(t)' /\ job'[t] = g) /\ ~Buffered(t, g)
    BY <1>1, <1>2, <2>1 DEF FInv, OnceOK, InHand
  <2>3. \A t \in Sess :
           /\ \A i, j \in 1..Len(rx[t]) : rx[t][i] = rx[t][j] => i = j
           /\ \A i \in 1..Len(rx[t]) : ~(Working(t)' /\ job'[t] = rx[t][i]) /\ ~Buffered(t, rx[t][i])
           /\ Working(t)' => ~Buffered(t, job'[t])
    <3>1. ASSUME NEW t \in Sess \ {s}
          PROVE  /\ \A i, j \in 1..Len(rx[t]) : rx[t][i] = rx[t][j] => i = j
                 /\ \A i \in 1..Len(rx[t]) : ~(Working(t)' /\ job'[t] = rx[t][i]) /\ ~Buffered(t, rx[t][i])
                 /\ Working(t)' => ~Buffered(t, job'[t])
      BY <2>1 DEF FInv, OnceOK
    <3>2. Len(rx[s]) = 0
      BY <1>2
    <3>3. QED
      BY <1>2, <1>3, <3>1, <3>2
  <2>4. QED
    BY <1>1, <2>2, <2>3 DEF OnceOK, Queued, Buffered
<1>7. QED
  BY <1>4, <1>5, <1>6 DEF FlowInv

\* The session takes the first frame of its channel.
LEMMA RecvStep ==
    ASSUME FInv, NEW s \in Sess, session_recv(s)
    PROVE  FlowInv'
<1>1. /\ st[s] = "wait" /\ rx[s] # <<>> /\ st' = [st EXCEPT ![s] = "relay"]
      /\ job' = [job EXCEPT ![s] = Head(rx[s])] /\ rx' = [rx EXCEPT ![s] = Tail(rx[s])]
      /\ UNCHANGED <<todo, udp, frame, dest, sid, frag_table, sent>>
  BY DEF session_recv
<1>2. rx \in [Sess -> Seq(UdpFrame)] /\ rx[s] \in Seq(UdpFrame) /\ Len(rx[s]) <= ChanCap
  BY DEF FInv, FramesOK
<1>3. PICK q \in Seq(UdpFrame) : q = Tail(rx[s])
  BY <1>1, <1>2, HeadTailProperties
<1>4. /\ Head(rx[s]) = rx[s][1] /\ Len(rx[s]) \in Nat /\ Len(rx[s]) > 0 /\ Len(q) = Len(rx[s]) - 1
      /\ \A i \in 1..Len(q) : q[i] = rx[s][i + 1]
  BY <1>1, <1>2, <1>3, HeadTailProperties
<1>5. 1 \in 1..Len(rx[s]) /\ \A i \in 1..Len(q) : i + 1 \in 1..Len(rx[s]) /\ i + 1 # 1
  BY <1>4
<1>6. PICK h \in UdpFrame : h = rx[s][1]
  BY <1>2, <1>5
<1>7. /\ rx' \in [Sess -> Seq(UdpFrame)] /\ rx'[s] = q /\ \A t \in Sess \ {s} : rx'[t] = rx[t]
      /\ job' \in [Sess -> UdpFrame \cup {NoFrame}] /\ job'[s] = h /\ \A t \in Sess \ {s} : job'[t] = job[t]
      /\ st'[s] = "relay" /\ \A t \in Sess \ {s} : st'[t] = st[t]
  BY <1>1, <1>2, <1>3, <1>4, <1>6 DEF FInv, FramesOK, IInv, TableTypes
<1>8. \A t \in Sess : st'[t] = "none" <=> st[t] = "none"
  BY <1>1, <1>7
<1>9. FramesOK'
  <2>1. Len(q) <= ChanCap
    BY <1>2, <1>4, Hy2Assumption
  <2>2. SidOf[h.pkt] = sid[s] /\ \A i \in 1..Len(q) : SidOf[q[i].pkt] = sid[s]
    BY <1>4, <1>5, <1>6 DEF FInv, FramesOK
  <2>3. udp = "send" => dest \in Sess
    BY DEF FInv, IInv, LoopOK
  <2>4. QED
    BY <1>1, <1>7, <1>8, <2>1, <2>2, <2>3 DEF FInv, FramesOK, Working
<1>10. BuffersOK' /\ SentOK'
  BY <1>1, <1>8 DEF FInv, BuffersOK, SentOK, WholeDatagrams
<1>11. ASSUME NEW t \in Sess, NEW f, Queued(t, f)' \/ (Working(t)' /\ job'[t] = f)
       PROVE  Queued(t, f) \/ (Working(t) /\ job[t] = f)
  <2>1. CASE t # s
    BY <1>7, <1>11, <2>1 DEF Queued, Working
  <2>2. CASE t = s /\ Queued(t, f)'
    <3>1. PICK i \in 1..Len(q) : q[i] = f
      BY <1>7, <2>2 DEF Queued
    <3>2. i + 1 \in 1..Len(rx[s]) /\ rx[s][i + 1] = f
      BY <1>4, <1>5, <3>1
    <3>3. QED
      BY <2>2, <3>2 DEF Queued
  <2>3. CASE t = s /\ job'[t] = f
    BY <1>5, <1>6, <1>7, <2>3 DEF Queued
  <2>4. QED
    BY <1>11, <2>1, <2>2, <2>3
<1>12. ASSUME NEW t \in Sess
       PROVE  /\ \A i, j \in 1..Len(rx'[t]) : rx'[t][i] = rx'[t][j] => i = j
              /\ \A i \in 1..Len(rx'[t]) : ~(Working(t)' /\ job'[t] = rx'[t][i]) /\ ~Buffered(t, rx'[t][i])
              /\ Working(t)' => ~Buffered(t, job'[t])
  <2>1. CASE t # s
    BY <1>7, <2>1 DEF FInv, OnceOK, Working
  <2>2. CASE t = s
    <3>1. /\ \A i, j \in 1..Len(rx[s]) : rx[s][i] = rx[s][j] => i = j
          /\ \A i \in 1..Len(rx[s]) : ~Buffered(s, rx[s][i])
      BY DEF FInv, OnceOK
    <3>2. \A i, j \in 1..Len(q) : q[i] = q[j] => i = j
      <4>1. SUFFICES ASSUME NEW i \in 1..Len(q), NEW j \in 1..Len(q), q[i] = q[j] PROVE i = j
        OBVIOUS
      <4>2. i + 1 = j + 1
        BY <1>4, <1>5, <3>1, <4>1
      <4>3. QED
        BY <4>2
    <3>3. \A i \in 1..Len(q) : q[i] # h /\ ~Buffered(s, q[i])
      BY <1>4, <1>5, <1>6, <3>1
    <3>4. ~Buffered(s, h)
      BY <1>5, <1>6, <3>1
    <3>5. QED
      BY <1>7, <2>2, <3>2, <3>3, <3>4
  <2>3. QED
    BY <2>1, <2>2
<1>13. OnceOK'
  <2>1. \A f \in todo' \cap UdpFrame, t \in Sess :
           ~InHand(f)' /\ ~Queued(t, f)' /\ ~(Working(t)' /\ job'[t] = f) /\ ~Buffered(t, f)
    BY <1>1, <1>11 DEF FInv, OnceOK, InHand
  <2>2. udp' = "send" => \A t \in Sess :
           ~Queued(t, frame)' /\ ~(Working(t)' /\ job'[t] = frame') /\ ~Buffered(t, frame')
    BY <1>1, <1>11 DEF FInv, OnceOK
  <2>3. QED
    BY <1>1, <1>12, <2>1, <2>2 DEF OnceOK, Buffered
<1>14. QED
  BY <1>9, <1>10, <1>13 DEF FlowInv

\* The session drops its frame and its channel.
LEMMA BindFailsStep ==
    ASSUME FInv, NEW s \in Sess, bind_fails(s)
    PROVE  FlowInv'
<1>1. /\ st[s] = "start" /\ st' = [st EXCEPT ![s] = "exit"] /\ job' = [job EXCEPT ![s] = NoFrame]
      /\ rx' = [rx EXCEPT ![s] = <<>>] /\ UNCHANGED <<todo, udp, frame, dest, sid, frag_table, sent>>
  BY DEF bind_fails
<1>2. /\ rx' \in [Sess -> Seq(UdpFrame)] /\ rx'[s] = <<>> /\ \A t \in Sess \ {s} : rx'[t] = rx[t]
      /\ job' \in [Sess -> UdpFrame \cup {NoFrame}] /\ \A t \in Sess \ {s} : job'[t] = job[t]
      /\ st'[s] = "exit" /\ \A t \in Sess \ {s} : st'[t] = st[t]
  <2>1. <<>> \in Seq(UdpFrame)
    OBVIOUS
  <2>2. QED
    BY <1>1, <2>1 DEF FInv, FramesOK, IInv, TableTypes
<1>3. Len(rx'[s]) = 0 /\ ~Working(s)' /\ \A t \in Sess : st'[t] = "none" <=> st[t] = "none"
  BY <1>1, <1>2 DEF Working
<1>4. udp = "send" => dest \in Sess
  BY DEF FInv, IInv, LoopOK
<1>5. FramesOK'
  BY <1>1, <1>2, <1>3, <1>4, Hy2Assumption DEF FInv, FramesOK, Working
<1>6. BuffersOK' /\ SentOK'
  BY <1>1, <1>3 DEF FInv, BuffersOK, SentOK, WholeDatagrams
<1>7. ASSUME NEW t \in Sess, NEW f, Queued(t, f)' \/ (Working(t)' /\ job'[t] = f)
      PROVE  Queued(t, f) \/ (Working(t) /\ job[t] = f)
  BY <1>2, <1>3, <1>7 DEF Queued, Working
<1>8. \A t \in Sess :
        /\ \A i, j \in 1..Len(rx'[t]) : rx'[t][i] = rx'[t][j] => i = j
        /\ \A i \in 1..Len(rx'[t]) : ~(Working(t)' /\ job'[t] = rx'[t][i]) /\ ~Buffered(t, rx'[t][i])
        /\ Working(t)' => ~Buffered(t, job'[t])
  <2>1. ASSUME NEW t \in Sess \ {s}
        PROVE  /\ \A i, j \in 1..Len(rx'[t]) : rx'[t][i] = rx'[t][j] => i = j
               /\ \A i \in 1..Len(rx'[t]) : ~(Working(t)' /\ job'[t] = rx'[t][i]) /\ ~Buffered(t, rx'[t][i])
               /\ Working(t)' => ~Buffered(t, job'[t])
    BY <1>2 DEF FInv, OnceOK, Working
  <2>2. QED
    BY <1>3, <2>1
<1>9. OnceOK'
  <2>1. \A f \in todo' \cap UdpFrame, t \in Sess :
           ~InHand(f)' /\ ~Queued(t, f)' /\ ~(Working(t)' /\ job'[t] = f) /\ ~Buffered(t, f)
    BY <1>1, <1>7 DEF FInv, OnceOK, InHand
  <2>2. udp' = "send" => \A t \in Sess :
           ~Queued(t, frame)' /\ ~(Working(t)' /\ job'[t] = frame') /\ ~Buffered(t, frame')
    BY <1>1, <1>7 DEF FInv, OnceOK
  <2>3. QED
    BY <1>1, <1>8, <2>1, <2>2 DEF OnceOK, Buffered
<1>10. QED
  BY <1>5, <1>6, <1>9 DEF FlowInv

\* The session relays its frame: it goes into the table, or out.
LEMMA RelayStep ==
    ASSUME FInv, NEW s \in Sess, session_starts(s) \/ session_relays(s)
    PROVE  FlowInv'
<1>1. /\ Working(s) /\ relay_frame(s, job[s]) /\ st' = [st EXCEPT ![s] = "wait"]
      /\ job' = [job EXCEPT ![s] = NoFrame] /\ UNCHANGED <<todo, udp, frame, dest, sid, rx>>
  BY DEF session_starts, session_relays, Working
<1>2. TableAfter(s, job[s]) /\ SentOK'
  BY <1>1, RelayFrame
<1>3. /\ job' \in [Sess -> UdpFrame \cup {NoFrame}] /\ \A t \in Sess \ {s} : job'[t] = job[t]
      /\ st'[s] = "wait" /\ \A t \in Sess \ {s} : st'[t] = st[t]
  BY <1>1 DEF FInv, FramesOK, IInv, TableTypes
<1>4. ~Working(s)' /\ (\A t \in Sess \ {s} : Working(t)' <=> Working(t)) /\ \A t \in Sess : st'[t] = "none" <=> st[t] = "none"
  BY <1>1, <1>3 DEF Working
<1>5. udp = "send" => dest \in Sess /\ frame \in UdpFrame
  BY DEF FInv, IInv, LoopOK
<1>6. FramesOK'
  BY <1>1, <1>3, <1>4, <1>5 DEF FInv, FramesOK
<1>7. BuffersOK'
  <2>1. frag_table' \in [Sess -> [Pid -> FragBuffer]]
    BY <1>2 DEF TableAfter
  <2>2. ASSUME NEW t \in Sess, NEW j \in Pid, frag_table'[t][j] # NoBuf
        PROVE  st'[t] # "none" /\ BufSound(frag_table'[t][j], sid'[t], j)
    <3>1. CASE frag_table'[t][j] = frag_table[t][j]
      BY <1>1, <1>4, <2>2, <3>1 DEF FInv, BuffersOK
    <3>2. CASE t = s /\ BufSound(frag_table'[t][j], sid[s], j)
      BY <1>1, <1>3, <3>2
    <3>3. QED
      BY <1>2, <2>2, <3>1, <3>2 DEF TableAfter
  <2>3. QED
    BY <2>1, <2>2 DEF BuffersOK
<1>8. ASSUME NEW t \in Sess, NEW g \in UdpFrame, Buffered(t, g)'
      PROVE  Buffered(t, g) \/ (t = s /\ g = job[s])
  BY <1>2, <1>8 DEF TableAfter, Buffered
<1>9. ASSUME NEW t \in Sess, NEW g, Working(t)' /\ job'[t] = g PROVE Working(t) /\ job[t] = g /\ t # s
  BY <1>3, <1>4, <1>9
<1>10. ASSUME NEW t \in Sess
       PROVE  /\ \A i, j \in 1..Len(rx[t]) : rx[t][i] = rx[t][j] => i = j
              /\ \A i \in 1..Len(rx[t]) : ~(Working(t)' /\ job'[t] = rx[t][i]) /\ ~Buffered(t, rx[t][i])'
              /\ Working(t)' => ~Buffered(t, job[t])'
  <2>1. /\ \A i, j \in 1..Len(rx[t]) : rx[t][i] = rx[t][j] => i = j
        /\ \A i \in 1..Len(rx[t]) : ~(Working(t) /\ job[t] = rx[t][i]) /\ ~Buffered(t, rx[t][i])
        /\ Working(t) => ~Buffered(t, job[t])
    BY DEF FInv, OnceOK
  <2>2. \A i \in 1..Len(rx[t]) : rx[t][i] \in UdpFrame
    BY DEF FInv, FramesOK
  <2>3. \A i \in 1..Len(rx[t]) : ~(Working(t)' /\ job'[t] = rx[t][i])
    BY <1>9, <2>1
  <2>4. ASSUME NEW i \in 1..Len(rx[t]) PROVE ~Kept(frag_table'[t][PidOf[rx[t][i].pkt]], rx[t][i])
    BY <1>1, <1>2, <2>1, <2>2 DEF TableAfter
  <2>5. ASSUME Working(t)' PROVE ~Kept(frag_table'[t][PidOf[job'[t].pkt]], job'[t])
    <3>1. t # s /\ Working(t) /\ job'[t] = job[t] /\ job[t] \in UdpFrame
      BY <1>3, <1>9, <2>5 DEF FInv, FramesOK
    <3>2. QED
      BY <1>2, <2>1, <3>1 DEF TableAfter
  <2>6. QED
    BY <1>1, <2>1, <2>3, <2>4, <2>5 DEF Buffered
<1>11. OnceOK'
  <2>1. \A f \in todo' \cap UdpFrame, t \in Sess :
           ~InHand(f)' /\ ~Queued(t, f)' /\ ~(Working(t)' /\ job'[t] = f) /\ ~Buffered(t, f)'
    <3>1. SUFFICES ASSUME NEW f \in todo \cap UdpFrame, NEW t \in Sess
                   PROVE  ~InHand(f)' /\ ~Queued(t, f)' /\ ~(Working(t)' /\ job'[t] = f) /\ ~Buffered(t, f)'
      BY <1>1
    <3>2. ~InHand(f) /\ ~Queued(t, f) /\ ~(Working(t) /\ job[t] = f) /\ ~Buffered(t, f) /\ ~(Working(s) /\ job[s] = f)
      BY DEF FInv, OnceOK
    <3>3. ~InHand(f)' /\ ~Queued(t, f)'
      BY <1>1, <3>2 DEF InHand, Queued
    <3>4. QED
      BY <1>1, <1>8, <1>9, <3>2, <3>3
  <2>2. ASSUME udp' = "send", NEW t \in Sess
        PROVE  ~Queued(t, frame)' /\ ~(Working(t)' /\ job'[t] = frame') /\ ~Buffered(t, frame)'
    <3>1. /\ ~Queued(t, frame) /\ ~(Working(t) /\ job[t] = frame) /\ ~Buffered(t, frame)
          /\ ~(Working(s) /\ job[s] = frame) /\ frame \in UdpFrame /\ frame' = frame
      BY <1>1, <1>5, <2>2 DEF FInv, OnceOK
    <3>2. ~Queued(t, frame)'
      BY <1>1, <3>1 DEF Queued
    <3>3. ~Kept(frag_table'[t][PidOf[frame.pkt]], frame)
      BY <1>1, <1>2, <3>1 DEF TableAfter
    <3>4. QED
      BY <1>9, <3>1, <3>2, <3>3 DEF Buffered
  <2>3. QED
    BY <1>1, <1>10, <2>1, <2>2 DEF OnceOK
<1>12. QED
  BY <1>2, <1>6, <1>7, <1>11 DEF FlowInv

LEMMA FlowStep ==
    ASSUME FInv, Next
    PROVE  FlowInv'
<1>1. CASE connection_lost \/ h3_ends \/ select_ends \/ loop_ends \/ tcp_loop_ends \/ send_fails
             \/ (\E r \in Req : h3_other(r) \/ masquerade(r)) \/ \E good \in BOOLEAN : h3_auth(good)
  <2>1. /\ UNCHANGED <<st, sid, rx, job, frag_table, sent>> /\ todo' \subseteq todo
        /\ udp' = "send" => udp = "send" /\ frame' = frame /\ dest' = dest
    BY <1>1 DEF connection_lost, h3_ends, select_ends, loop_ends, tcp_loop_ends, send_fails, h3_other, masquerade, h3_auth
  <2>2. QED
    BY <2>1, QuietStep DEF Working
<1>2. ASSUME NEW i \in Str, StreamStep(i) PROVE FlowInv'
  <2>1. UNCHANGED <<udp, frame, dest, st, sid, rx, job, frag_table, sent>> /\ todo' \subseteq todo
    BY <1>2 DEF StreamStep, accept_bi, handle_tcp_bidi, connect_ok, connect_fails, t1_ends, t2_copies, t2_ends, stream_ends
  <2>2. QED
    BY <2>1, QuietStep DEF Working
<1>3. ASSUME NEW s \in Sess, session_ends(s) \/ session_cleanup(s) \/ recv_ends(s) PROVE FlowInv'
  <2>1. /\ UNCHANGED <<todo, udp, frame, dest, sid, rx, job, frag_table, sent>>
        /\ \/ st' = st
           \/ st[s] \in {"wait", "exit"} /\ \E x \in {"exit", "done"} : st' = [st EXCEPT ![s] = x]
    BY <1>3 DEF session_ends, session_cleanup, recv_ends
  <2>2. \A t \in Sess : (st'[t] \in {"start", "relay"} => Working(t)) /\ (st'[t] = "none" <=> st[t] = "none")
    BY <2>1 DEF Working, FInv, IInv, TableTypes
  <2>3. QED
    BY <2>1, <2>2, QuietStep
<1>4. QED
  BY <1>1, <1>2, <1>3, ReadStep, SendStep, OpenStep, RecvStep, BindFailsStep, RelayStep DEF Next, SessionStep

LEMMA FrameInvariance == Spec => []FInv
<1>1. Init => FInv
  <2>1. SUFFICES ASSUME Init PROVE FInv
    OBVIOUS
  <2>2. PlainTypes
    <3>1. todo \subseteq UdpFrame \cup Req \cup Str
      BY <2>1, WorkloadAssumption DEF Init
    <3>2. out \in [Str -> Seq({"ok", "error", "data", "fin"})]
      BY <2>1 DEF Init
    <3>3. QED
      BY <2>1, <3>1, <3>2 DEF Init, PlainTypes
  <2>3. /\ udp = "off" /\ \A s \in Sess : st[s] = "none" /\ rx[s] = <<>> /\ Len(rx[s]) = 0
        /\ \A s \in Sess, j \in Pid : frag_table[s][j] = NoBuf
    BY <2>1 DEF Init
  <2>4. rx \in [Sess -> Seq(UdpFrame)] /\ job \in [Sess -> UdpFrame \cup {NoFrame}]
    BY <2>1 DEF Init
  <2>5. FramesOK
    BY <2>3, <2>4, Hy2Assumption DEF FramesOK, Working
  <2>6. BuffersOK
    BY <2>1, <2>3, NoBufFacts DEF Init, BuffersOK
  <2>7. \A f \in UdpFrame, s \in Sess : ~InHand(f) /\ ~Queued(s, f) /\ ~Buffered(s, f) /\ ~Working(s)
    BY <2>3, NoBufFacts, FrameFacts DEF InHand, Queued, Buffered, Working
  <2>8. OnceOK
    <3>1. \A s \in Sess : 1..Len(rx[s]) = {} /\ ~Working(s)
      BY <2>3 DEF Working
    <3>2. QED
      BY <2>3, <2>7, <3>1 DEF OnceOK
  <2>9. SentOK
    BY <2>1 DEF Init, SentOK, WholeDatagrams
  <2>10. QED
    BY <2>1, <2>2, <2>5, <2>6, <2>8, <2>9, InitOK DEF FInv
<1>2. FInv /\ [Next]_vars => FInv'
  <2>1. SUFFICES ASSUME FInv, [Next]_vars PROVE FInv'
    OBVIOUS
  <2>2. IInv'
    BY <2>1, Inductive DEF FInv
  <2>3. CASE Next
    BY <2>1, <2>2, <2>3, PlainStep, FlowStep DEF FInv, FlowInv
  <2>4. CASE UNCHANGED vars
    <3>1. PlainTypes'
      BY <2>1, <2>4 DEF vars, FInv, PlainTypes
    <3>2. FlowInv'
      BY <2>1, <2>4, QuietStep DEF vars, Working
    <3>3. QED
      BY <2>2, <3>1, <3>2 DEF FInv, FlowInv
  <2>5. QED
    BY <2>1, <2>3, <2>4
<1>3. QED
  BY <1>1, <1>2, PTL DEF Spec

\* The connection's state keeps its types: the sessions' channels their capacity, the
\* fragment buffers their form, whatever the client sends.
THEOREM TypeCorrect == Spec => []TypeOK
<1>1. FInv => TypeOK
  BY DEF FInv, IInv, TableTypes, PlainTypes, FramesOK, BuffersOK, SentOK, TypeOK
<1>2. QED
  BY <1>1, FrameInvariance, PTL

\* A datagram that relay_frame sends to a remote is one packet, all of it, unless the
\* sender reused a packet id within the session, for any packets and fragment counts and
\* however fragments are lost, reordered and spread over sessions.
THEOREM DatagramsWhole == Spec => []WholeDatagrams
<1>1. FInv => WholeDatagrams
  BY DEF FInv, SentOK
<1>2. QED
  BY <1>1, FrameInvariance, PTL
=============================================================================
