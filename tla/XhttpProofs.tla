---------------------------- MODULE XhttpProofs ----------------------------
(***************************************************************************)
(* Proofs about the XHTTP session table and its handlers: the type         *)
(* invariant, the safety invariants MappedHasTtl, ReceiversTogether and    *)
(* ReadyOnce, and the action property TtlRemovesOnlyItsOwn hold for any    *)
(* number of session ids, sessions and requests and any capacities.        *)
(***************************************************************************)
EXTENDS Xhttp, TLAPS

\* The TTL tasks that are still going to remove their entry.
Pending == {"armed", "expired", "lifetime"}

\* A handler knows what it works on: a lookup has a session id, a handler past its
\* lookup a channel pair, and a handler that waits for the ready queue has a stream
\* that no other handler has.
HandlerOK ==
    /\ \A r \in Req :
         /\ pc[r] = "lookup" /\ kind[r] # "one" => want[r] \in Sid
         /\ pc[r] \in {"have", "collect", "send", "ready"} => tgt[r] \in Obj
         /\ pc[r] = "ready" => stream[tgt[r]] = "handler"
    /\ \A r, q \in Req : pc[r] = "ready" /\ pc[q] = "ready" /\ tgt[r] = tgt[q] => r = q

\* A channel pair that was not created yet has neither a task nor a stream.
FreshOK ==
    \A o \in Obj : upRx[o] = "unused" => ttl[o] = "none" /\ stream[o] = "none"

\* The converse of MappedHasTtl, without which neither it nor the action property is
\* inductive: a pending task's session still is the entry under the task's key.
TtlHasEntry ==
    \A o \in Obj : ttl[o] \in Pending => sidOf[o] \in Sid /\ sessions[sidOf[o]] = o

\* The inductive part of ReceiversTogether that HandlerOK and FreshOK do not say.
Paired ==
    \A o \in Obj :
        /\ upRx[o] = "session" <=> downRx[o] = "session"
        /\ upRx[o] = "session" => stream[o] = "none"

IInv ==
    /\ TypeOK
    /\ HandlerOK
    /\ FreshOK
    /\ TtlHasEntry
    /\ MappedHasTtl
    /\ Paired
    /\ ReadyOnce

\* The uplink channels are typed and within their capacity.
Items == {"data", "eof"}
ChanOK(u) == u \in [Obj -> Seq(Items)] /\ \A p \in Obj : Len(u[p]) <= UpCap

\* The two variables UplinkEnds changes besides the channel are typed.
RelayOK(rx, str) ==
    /\ rx \in [Obj -> {"unused", "session", "stream", "gone"}]
    /\ str \in [Obj -> {"none", "handler", "queued", "open", "downonly", "uponly",
                         "closed"}]

\* The empty channel fits every capacity.
LEMMA EmptyQueue == <<>> \in Seq(Items) /\ Len(<<>>) <= UpCap
  BY CapAssumption

\* Replacing one channel by one that fits keeps the channels in order.
LEMMA ChanUpdate ==
    ASSUME ChanOK(upq), NEW o, NEW q \in Seq(Items), Len(q) <= UpCap
    PROVE  ChanOK([upq EXCEPT ![o] = q])
  BY DEF ChanOK

\* Emptying one channel (its receiver is dropped) keeps the channels in order.
LEMMA ChanClear ==
    ASSUME ChanOK(upq), NEW o
    PROVE  ChanOK([upq EXCEPT ![o] = <<>>])
<1>1. <<>> \in Seq(Items) /\ Len(<<>>) <= UpCap
  BY EmptyQueue
<1>2. [upq EXCEPT ![o] = <<>>] \in [Obj -> Seq(Items)]
  BY <1>1 DEF ChanOK
<1>3. ASSUME NEW p \in Obj PROVE Len([upq EXCEPT ![o] = <<>>][p]) <= UpCap
  <2>1. CASE p = o
    BY <1>1, <2>1 DEF ChanOK
  <2>2. CASE p # o
    BY <2>2 DEF ChanOK
  <2>3. QED
    BY <2>1, <2>2
<1>4. QED
  BY <1>2, <1>3 DEF ChanOK

\* A send that may complete (CanSend) keeps the channels within their capacity.
LEMMA SentType ==
    ASSUME ChanOK(upq), NEW o, NEW item \in Items, CanSend(o)
    PROVE  ChanOK(Sent(o, item))
<1>1. CASE UpRxAlive(o) /\ o \in Obj
  <2>1. upq[o] \in Seq(Items) /\ Len(upq[o]) < UpCap
    BY <1>1 DEF ChanOK, CanSend
  <2>2. Append(upq[o], item) \in Seq(Items) /\ Len(Append(upq[o], item)) <= UpCap
    BY <2>1, CapAssumption
  <2>3. QED
    BY <1>1, <2>2, ChanUpdate DEF Sent
<1>2. CASE ~(UpRxAlive(o) /\ o \in Obj)
  BY <1>2 DEF ChanOK, Sent
<1>3. QED
  BY <1>1, <1>2

\* The end of an uplink copy keeps the channel, the receiver and the stream typed.
LEMMA UplinkEndsType ==
    ASSUME ChanOK(upq), RelayOK(upRx, stream), NEW o \in Obj,
           NEW q \in Seq(Items), Len(q) <= UpCap, UplinkEnds(o, q)
    PROVE  ChanOK(upq') /\ RelayOK(upRx', stream')
<1>1. CASE stream[o] = "open"
  BY <1>1, ChanUpdate DEF UplinkEnds, RelayOK
<1>2. CASE stream[o] # "open"
  BY <1>2, ChanClear DEF UplinkEnds, RelayOK
<1>3. QED
  BY <1>1, <1>2

\* Every step of the server keeps the types and the capacities.
LEMMA TypeStep == IInv /\ [Next]_vars => TypeOK'
<1>0. SUFFICES ASSUME IInv, [Next]_vars PROVE TypeOK'
  OBVIOUS
<1> USE DEF IInv, TypeOK, HandlerOK, Kinds,
           tableVars, sessVars, chanVars, strmVars, reqVars
<1>a. ChanOK(upq)
  BY <1>0 DEF ChanOK, Items
<1>b. RelayOK(upRx, stream)
  BY <1>0 DEF RelayOK
<1>1. ASSUME NEW r \in Req, handle_request(r) PROVE TypeOK'
  BY <1>0, <1>1 DEF handle_request
<1>2. ASSUME NEW r \in Req, Disconnect(r) PROVE TypeOK'
  <2>1. CASE pc[r] = "ready"
    <3>1. ChanOK(upq')
      BY <1>2, <1>a, <2>1, ChanClear DEF Disconnect
    <3>2. /\ upRx' = [upRx EXCEPT ![tgt[r]] = "gone"]
          /\ downRx' = [downRx EXCEPT ![tgt[r]] = "gone"]
          /\ stream' = [stream EXCEPT ![tgt[r]] = "closed"]
          /\ pc' = [pc EXCEPT ![r] = "done"]
          /\ UNCHANGED <<sessions, mapLock, victim, sidOf, permit, ttl, downq, ready,
                         kind, want, tgt, pump, frames>>
      BY <1>2, <2>1 DEF Disconnect, tableVars
    <3>3. QED
      BY <1>0, <3>1, <3>2 DEF ChanOK, Items
  <2>2. CASE pc[r] # "ready"
    BY <1>0, <1>2, <2>2 DEF Disconnect
  <2>3. QED
    BY <2>1, <2>2
<1>3. ASSUME NEW r \in Req, get_or_create_session(r) PROVE TypeOK'
  <2>1. want[r] \in Sid
    BY <1>0, <1>3 DEF get_or_create_session
  <2>2. /\ pc' = [pc EXCEPT ![r] = "have"]
        /\ UNCHANGED <<mapLock, victim, upq, downq, stream, ready, kind, want, pump,
                       frames>>
    BY <1>3 DEF get_or_create_session, chanVars, strmVars
  <2>3. CASE sessions[want[r]] # NoObj
    <3>1. /\ tgt' = [tgt EXCEPT ![r] = sessions[want[r]]]
          /\ UNCHANGED <<sessions, sidOf, upRx, downRx, permit, ttl>>
      BY <1>3, <2>3 DEF get_or_create_session, sessVars
    <3>2. QED
      BY <1>0, <2>1, <2>2, <3>1
  <2>4. CASE sessions[want[r]] = NoObj
    <3>1. PICK o \in Obj :
             /\ tgt' = [tgt EXCEPT ![r] = o]
             /\ sessions' = [sessions EXCEPT ![want[r]] = o]
             /\ sidOf' = [sidOf EXCEPT ![o] = want[r]]
             /\ upRx' = [upRx EXCEPT ![o] = "session"]
             /\ downRx' = [downRx EXCEPT ![o] = "session"]
             /\ ttl' = [ttl EXCEPT ![o] = "armed"]
             /\ UNCHANGED permit
      BY <1>3, <2>4 DEF get_or_create_session
    <3>2. QED
      BY <1>0, <2>1, <2>2, <3>1
  <2>5. QED
    BY <2>3, <2>4
<1>4. ASSUME NEW r \in Req, handle_get_one(r) PROVE TypeOK'
  BY <1>0, <1>4 DEF handle_get_one
<1>5. ASSUME NEW r \in Req, handle_get(r) PROVE TypeOK'
  BY <1>0, <1>5 DEF handle_get
<1>6. ASSUME NEW r \in Req, handle_get_conflict(r) PROVE TypeOK'
  BY <1>0, <1>6 DEF handle_get_conflict
<1>7. ASSUME NEW r \in Req, send_ready(r) PROVE TypeOK'
  <2>1. tgt[r] \in Obj
    BY <1>0, <1>7 DEF send_ready
  <2>2. ready' \in Seq(Obj) /\ Len(ready') <= ReadyCap
    BY <1>0, <1>7, <2>1, CapAssumption DEF send_ready
  <2>3. QED
    BY <1>0, <1>7, <2>2 DEF send_ready
<1>8. ASSUME NEW r \in Req, handle_post(r) PROVE TypeOK'
  BY <1>0, <1>8 DEF handle_post
<1>9. ASSUME NEW r \in Req, collect(r) PROVE TypeOK'
  BY <1>0, <1>9 DEF collect
<1>10. ASSUME NEW r \in Req, send_packet(r) PROVE TypeOK'
  <2>1. ChanOK(upq')
    BY <1>a, <1>10, SentType DEF send_packet, Items
  <2>2. QED
    BY <1>0, <1>10, <2>1 DEF send_packet, ChanOK, Items
<1>11. ASSUME NEW r \in Req, pump_chunk(r) PROVE TypeOK'
  <2>1. ChanOK(upq')
    BY <1>a, <1>11, SentType DEF pump_chunk, Items
  <2>2. frames' \in [Req -> 0..MaxFrames]
    BY <1>0, <1>11, CapAssumption DEF pump_chunk
  <2>3. QED
    BY <1>0, <1>11, <2>1, <2>2 DEF pump_chunk, ChanOK, Items
<1>12. ASSUME NEW r \in Req, pump_end(r) PROVE TypeOK'
  BY <1>0, <1>12 DEF pump_end
<1>13. ASSUME NEW r \in Req, pump_eof(r) PROVE TypeOK'
  <2>1. ChanOK(upq')
    BY <1>a, <1>13, SentType DEF pump_eof, Items
  <2>2. QED
    BY <1>0, <1>13, <2>1 DEF pump_eof, ChanOK, Items
<1>14. ASSUME NEW o \in Obj, ttl_get_arrived(o) PROVE TypeOK'
  BY <1>0, <1>14 DEF ttl_get_arrived
<1>15. ASSUME NEW o \in Obj, ttl_timeout(o) PROVE TypeOK'
  BY <1>0, <1>15 DEF ttl_timeout
<1>16. ASSUME NEW o \in Obj, ttl_remove(o) PROVE TypeOK'
  <2>1. sidOf[o] \in Sid
    BY <1>0, <1>16 DEF ttl_remove, TtlHasEntry, Pending
  <2>2. QED
    BY <1>0, <1>16, <2>1 DEF ttl_remove
<1>17. ASSUME NEW o \in Obj, ttl_lock_session(o) PROVE TypeOK'
  BY <1>0, <1>17 DEF ttl_lock_session
<1>18. ASSUME NEW o \in Obj, ttl_send_eof(o) PROVE TypeOK'
  <2>1. ChanOK(upq')
    BY <1>a, <1>18, SentType DEF ttl_send_eof, Items
  <2>2. QED
    BY <1>0, <1>18, <2>1 DEF ttl_send_eof, ChanOK, Items
<1>19. ASSUME NEW o \in Obj, ttl_lifetime_end(o) PROVE TypeOK'
  BY <1>0, <1>19 DEF ttl_lifetime_end
<1>20. ASSUME NEW o \in Obj, poll_read(o) PROVE TypeOK'
  <2>1. Tail(upq[o]) \in Seq(Items) /\ Len(Tail(upq[o])) <= UpCap
    BY <1>a, <1>20, CapAssumption DEF poll_read, ChanOK
  <2>2. CASE Head(upq[o]) = "eof"
    <3>1. ChanOK(upq') /\ RelayOK(upRx', stream')
      BY <1>20, <1>a, <1>b, <2>1, <2>2, UplinkEndsType DEF poll_read
    <3>2. QED
      BY <1>0, <1>20, <3>1 DEF poll_read, ChanOK, RelayOK, Items
  <2>3. CASE Head(upq[o]) # "eof"
    <3>1. ChanOK(upq')
      BY <1>20, <1>a, <2>1, <2>3, ChanUpdate DEF poll_read
    <3>2. QED
      BY <1>0, <1>20, <2>3, <3>1 DEF poll_read, ChanOK, Items
  <2>4. QED
    BY <2>2, <2>3
<1>21. ASSUME NEW o \in Obj, poll_read_none(o) PROVE TypeOK'
  <2>1. ChanOK(upq') /\ RelayOK(upRx', stream')
    BY <1>21, <1>a, <1>b, EmptyQueue, UplinkEndsType DEF poll_read_none
  <2>2. QED
    BY <1>0, <1>21, <2>1 DEF poll_read_none, ChanOK, RelayOK, Items
<1>22. ASSUME NEW o \in Obj, relay_up_fails(o) PROVE TypeOK'
  <2>1. upq[o] \in Seq(Items) /\ Len(upq[o]) <= UpCap
    BY <1>22, <1>a DEF ChanOK
  <2>2. ChanOK(upq') /\ RelayOK(upRx', stream')
    BY <1>22, <1>a, <1>b, <2>1, UplinkEndsType DEF relay_up_fails
  <2>3. QED
    BY <1>0, <1>22, <2>2 DEF relay_up_fails, ChanOK, RelayOK, Items
<1>23. ASSUME NEW o \in Obj, poll_write(o) PROVE TypeOK'
  <2>1. downq' \in [Obj -> 0..DownCap]
    BY <1>0, <1>23, CapAssumption DEF poll_write
  <2>2. QED
    BY <1>0, <1>23, <2>1 DEF poll_write
<1>24. ASSUME NEW o \in Obj, relay_down_ends(o) PROVE TypeOK'
  <2>1. ChanOK(upq')
    <3>1. CASE stream[o] = "open"
      BY <1>24, <1>a, <3>1 DEF relay_down_ends
    <3>2. CASE stream[o] # "open"
      BY <1>24, <1>a, <3>2, ChanClear DEF relay_down_ends
    <3>3. QED
      BY <3>1, <3>2
  <2>2. RelayOK(upRx', stream')
    BY <1>b, <1>24 DEF relay_down_ends, RelayOK
  <2>3. QED
    BY <1>0, <1>24, <2>1, <2>2 DEF relay_down_ends, ChanOK, RelayOK, Items
<1>25. ASSUME NEW o \in Obj, poll_frame(o) PROVE TypeOK'
  <2>1. downq' \in [Obj -> 0..DownCap]
    BY <1>0, <1>25, CapAssumption DEF poll_frame
  <2>2. QED
    BY <1>0, <1>25, <2>1 DEF poll_frame
<1>26. ASSUME NEW o \in Obj, poll_frame_none(o) PROVE TypeOK'
  BY <1>0, <1>26 DEF poll_frame_none
<1>27. ASSUME NEW o \in Obj, body_dropped(o) PROVE TypeOK'
  BY <1>0, <1>27, CapAssumption DEF body_dropped
<1>28. CASE accept
  <2>1. Head(ready) \in Obj
    BY <1>0, <1>28 DEF accept
  <2>2. ready' \in Seq(Obj) /\ Len(ready') <= ReadyCap
    BY <1>0, <1>28, CapAssumption DEF accept
  <2>3. QED
    BY <1>0, <1>28, <2>1, <2>2 DEF accept
<1>29. CASE UNCHANGED vars
  BY <1>0, <1>29 DEF vars
<1> QED
  BY <1>0, <1>1, <1>2, <1>3, <1>4, <1>5, <1>6, <1>7, <1>8, <1>9, <1>10,
     <1>11, <1>12, <1>13, <1>14, <1>15, <1>16, <1>17, <1>18, <1>19, <1>20,
     <1>21, <1>22, <1>23, <1>24, <1>25, <1>26, <1>27, <1>28, <1>29
  DEF Next, HandlerStep, PumpStep, ClientStep, TtlStep, StreamStep

\* Every step keeps what the handlers know about their targets.
LEMMA HandlerInvStep == IInv /\ [Next]_vars => HandlerOK'
<1>0. SUFFICES ASSUME IInv, [Next]_vars PROVE HandlerOK'
  OBVIOUS
<1> USE DEF IInv, TypeOK, HandlerOK, FreshOK, Paired, ReadyOnce,
           tableVars, sessVars, chanVars, strmVars, reqVars
<1>1. ASSUME NEW r \in Req, handle_request(r) PROVE HandlerOK'
  BY <1>0, <1>1 DEF handle_request
<1>2. ASSUME NEW r \in Req, Disconnect(r) PROVE HandlerOK'
  BY <1>0, <1>2 DEF Disconnect
<1>3. ASSUME NEW r \in Req, get_or_create_session(r) PROVE HandlerOK'
  BY <1>0, <1>3 DEF get_or_create_session
<1>4. ASSUME NEW r \in Req, handle_get_one(r) PROVE HandlerOK'
  BY <1>0, <1>4 DEF handle_get_one
<1>5. ASSUME NEW r \in Req, handle_get(r) PROVE HandlerOK'
  BY <1>0, <1>5 DEF handle_get
<1>6. ASSUME NEW r \in Req, handle_get_conflict(r) PROVE HandlerOK'
  BY <1>0, <1>6 DEF handle_get_conflict
<1>7. ASSUME NEW r \in Req, send_ready(r) PROVE HandlerOK'
  BY <1>0, <1>7 DEF send_ready
<1>8. ASSUME NEW r \in Req, handle_post(r) PROVE HandlerOK'
  BY <1>0, <1>8 DEF handle_post
<1>9. ASSUME NEW r \in Req, collect(r) PROVE HandlerOK'
  BY <1>0, <1>9 DEF collect
<1>10. ASSUME NEW r \in Req, send_packet(r) PROVE HandlerOK'
  BY <1>0, <1>10 DEF send_packet, CanSend, Sent
<1>11. ASSUME NEW r \in Req, pump_chunk(r) PROVE HandlerOK'
  BY <1>0, <1>11 DEF pump_chunk, CanSend, Sent
<1>12. ASSUME NEW r \in Req, pump_end(r) PROVE HandlerOK'
  BY <1>0, <1>12 DEF pump_end
<1>13. ASSUME NEW r \in Req, pump_eof(r) PROVE HandlerOK'
  BY <1>0, <1>13 DEF pump_eof, CanSend, Sent
<1>14. ASSUME NEW o \in Obj, ttl_get_arrived(o) PROVE HandlerOK'
  BY <1>0, <1>14 DEF ttl_get_arrived
<1>15. ASSUME NEW o \in Obj, ttl_timeout(o) PROVE HandlerOK'
  BY <1>0, <1>15 DEF ttl_timeout
<1>16. ASSUME NEW o \in Obj, ttl_remove(o) PROVE HandlerOK'
  BY <1>0, <1>16 DEF ttl_remove
<1>17. ASSUME NEW o \in Obj, ttl_lock_session(o) PROVE HandlerOK'
  BY <1>0, <1>17 DEF ttl_lock_session
<1>18. ASSUME NEW o \in Obj, ttl_send_eof(o) PROVE HandlerOK'
  BY <1>0, <1>18 DEF ttl_send_eof, CanSend, Sent
<1>19. ASSUME NEW o \in Obj, ttl_lifetime_end(o) PROVE HandlerOK'
  BY <1>0, <1>19 DEF ttl_lifetime_end
<1>20. ASSUME NEW o \in Obj, poll_read(o) PROVE HandlerOK'
  BY <1>0, <1>20 DEF poll_read, UplinkEnds, Reading
<1>21. ASSUME NEW o \in Obj, poll_read_none(o) PROVE HandlerOK'
  BY <1>0, <1>21 DEF poll_read_none, UplinkEnds, Reading
<1>22. ASSUME NEW o \in Obj, relay_up_fails(o) PROVE HandlerOK'
  BY <1>0, <1>22 DEF relay_up_fails, UplinkEnds, Reading
<1>23. ASSUME NEW o \in Obj, poll_write(o) PROVE HandlerOK'
  BY <1>0, <1>23 DEF poll_write
<1>24. ASSUME NEW o \in Obj, relay_down_ends(o) PROVE HandlerOK'
  BY <1>0, <1>24 DEF relay_down_ends
<1>25. ASSUME NEW o \in Obj, poll_frame(o) PROVE HandlerOK'
  BY <1>0, <1>25 DEF poll_frame
<1>26. ASSUME NEW o \in Obj, poll_frame_none(o) PROVE HandlerOK'
  BY <1>0, <1>26 DEF poll_frame_none
<1>27. ASSUME NEW o \in Obj, body_dropped(o) PROVE HandlerOK'
  BY <1>0, <1>27 DEF body_dropped
<1>28. CASE accept
  <2>1. Head(ready) \in Obj /\ stream[Head(ready)] = "queued"
    BY <1>0, <1>28 DEF accept
  <2>2. QED
    BY <1>0, <1>28, <2>1 DEF accept
<1>29. CASE UNCHANGED vars
  BY <1>0, <1>29 DEF vars
<1> QED
  BY <1>0, <1>1, <1>2, <1>3, <1>4, <1>5, <1>6, <1>7, <1>8, <1>9, <1>10,
     <1>11, <1>12, <1>13, <1>14, <1>15, <1>16, <1>17, <1>18, <1>19, <1>20,
     <1>21, <1>22, <1>23, <1>24, <1>25, <1>26, <1>27, <1>28, <1>29
  DEF Next, HandlerStep, PumpStep, ClientStep, TtlStep, StreamStep

\* Every step leaves the channel pairs that are not created yet untouched.
LEMMA FreshStep == IInv /\ [Next]_vars => FreshOK'
<1>0. SUFFICES ASSUME IInv, [Next]_vars PROVE FreshOK'
  OBVIOUS
<1> USE DEF IInv, TypeOK, FreshOK, HandlerOK, ReadyOnce,
           tableVars, sessVars, chanVars, strmVars, reqVars
<1>1. ASSUME NEW r \in Req, handle_request(r) PROVE FreshOK'
  BY <1>0, <1>1 DEF handle_request
<1>2. ASSUME NEW r \in Req, Disconnect(r) PROVE FreshOK'
  BY <1>0, <1>2 DEF Disconnect
<1>3. ASSUME NEW r \in Req, get_or_create_session(r) PROVE FreshOK'
  BY <1>0, <1>3 DEF get_or_create_session
<1>4. ASSUME NEW r \in Req, handle_get_one(r) PROVE FreshOK'
  BY <1>0, <1>4 DEF handle_get_one
<1>5. ASSUME NEW r \in Req, handle_get(r) PROVE FreshOK'
  BY <1>0, <1>5 DEF handle_get
<1>6. ASSUME NEW r \in Req, handle_get_conflict(r) PROVE FreshOK'
  BY <1>0, <1>6 DEF handle_get_conflict
<1>7. ASSUME NEW r \in Req, send_ready(r) PROVE FreshOK'
  BY <1>0, <1>7 DEF send_ready
<1>8. ASSUME NEW r \in Req, handle_post(r) PROVE FreshOK'
  BY <1>0, <1>8 DEF handle_post
<1>9. ASSUME NEW r \in Req, collect(r) PROVE FreshOK'
  BY <1>0, <1>9 DEF collect
<1>10. ASSUME NEW r \in Req, send_packet(r) PROVE FreshOK'
  BY <1>0, <1>10 DEF send_packet, CanSend, Sent
<1>11. ASSUME NEW r \in Req, pump_chunk(r) PROVE FreshOK'
  BY <1>0, <1>11 DEF pump_chunk, CanSend, Sent
<1>12. ASSUME NEW r \in Req, pump_end(r) PROVE FreshOK'
  BY <1>0, <1>12 DEF pump_end
<1>13. ASSUME NEW r \in Req, pump_eof(r) PROVE FreshOK'
  BY <1>0, <1>13 DEF pump_eof, CanSend, Sent
<1>14. ASSUME NEW o \in Obj, ttl_get_arrived(o) PROVE FreshOK'
  BY <1>0, <1>14 DEF ttl_get_arrived
<1>15. ASSUME NEW o \in Obj, ttl_timeout(o) PROVE FreshOK'
  BY <1>0, <1>15 DEF ttl_timeout
<1>16. ASSUME NEW o \in Obj, ttl_remove(o) PROVE FreshOK'
  BY <1>0, <1>16 DEF ttl_remove
<1>17. ASSUME NEW o \in Obj, ttl_lock_session(o) PROVE FreshOK'
  BY <1>0, <1>17 DEF ttl_lock_session
<1>18. ASSUME NEW o \in Obj, ttl_send_eof(o) PROVE FreshOK'
  BY <1>0, <1>18 DEF ttl_send_eof, CanSend, Sent
<1>19. ASSUME NEW o \in Obj, ttl_lifetime_end(o) PROVE FreshOK'
  BY <1>0, <1>19 DEF ttl_lifetime_end
<1>20. ASSUME NEW o \in Obj, poll_read(o) PROVE FreshOK'
  BY <1>0, <1>20 DEF poll_read, UplinkEnds, Reading
<1>21. ASSUME NEW o \in Obj, poll_read_none(o) PROVE FreshOK'
  BY <1>0, <1>21 DEF poll_read_none, UplinkEnds, Reading
<1>22. ASSUME NEW o \in Obj, relay_up_fails(o) PROVE FreshOK'
  BY <1>0, <1>22 DEF relay_up_fails, UplinkEnds, Reading
<1>23. ASSUME NEW o \in Obj, poll_write(o) PROVE FreshOK'
  BY <1>0, <1>23 DEF poll_write
<1>24. ASSUME NEW o \in Obj, relay_down_ends(o) PROVE FreshOK'
  BY <1>0, <1>24 DEF relay_down_ends
<1>25. ASSUME NEW o \in Obj, poll_frame(o) PROVE FreshOK'
  BY <1>0, <1>25 DEF poll_frame
<1>26. ASSUME NEW o \in Obj, poll_frame_none(o) PROVE FreshOK'
  BY <1>0, <1>26 DEF poll_frame_none
<1>27. ASSUME NEW o \in Obj, body_dropped(o) PROVE FreshOK'
  BY <1>0, <1>27 DEF body_dropped
<1>28. CASE accept
  <2>1. Head(ready) \in Obj /\ stream[Head(ready)] = "queued"
    BY <1>0, <1>28 DEF accept
  <2>2. QED
    BY <1>0, <1>28, <2>1 DEF accept
<1>29. CASE UNCHANGED vars
  BY <1>0, <1>29 DEF vars
<1> QED
  BY <1>0, <1>1, <1>2, <1>3, <1>4, <1>5, <1>6, <1>7, <1>8, <1>9, <1>10,
     <1>11, <1>12, <1>13, <1>14, <1>15, <1>16, <1>17, <1>18, <1>19, <1>20,
     <1>21, <1>22, <1>23, <1>24, <1>25, <1>26, <1>27, <1>28, <1>29
  DEF Next, HandlerStep, PumpStep, ClientStep, TtlStep, StreamStep

\* Every step keeps the session table and the TTL tasks in step with each other.
LEMMA TableStep == IInv /\ [Next]_vars => (TtlHasEntry /\ MappedHasTtl)'
<1>0. SUFFICES ASSUME IInv, [Next]_vars PROVE (TtlHasEntry /\ MappedHasTtl)'
  OBVIOUS
<1> USE DEF IInv, TypeOK, FreshOK, TtlHasEntry, MappedHasTtl, Pending,
           tableVars, sessVars, chanVars, strmVars, reqVars
<1>1. ASSUME NEW r \in Req, handle_request(r) PROVE (TtlHasEntry /\ MappedHasTtl)'
  BY <1>0, <1>1 DEF handle_request
<1>2. ASSUME NEW r \in Req, Disconnect(r) PROVE (TtlHasEntry /\ MappedHasTtl)'
  BY <1>0, <1>2 DEF Disconnect
<1>3. ASSUME NEW r \in Req, get_or_create_session(r) PROVE (TtlHasEntry /\ MappedHasTtl)'
  <2>1. want[r] \in Sid
    BY <1>0, <1>3 DEF get_or_create_session, HandlerOK
  <2>2. CASE sessions[want[r]] # NoObj
    BY <1>0, <1>3, <2>1, <2>2 DEF get_or_create_session
  <2>3. CASE sessions[want[r]] = NoObj
    <3>1. PICK o \in Obj :
             /\ upRx[o] = "unused"
             /\ sessions' = [sessions EXCEPT ![want[r]] = o]
             /\ sidOf' = [sidOf EXCEPT ![o] = want[r]]
             /\ ttl' = [ttl EXCEPT ![o] = "armed"]
      BY <1>0, <1>3, <2>3 DEF get_or_create_session
    <3>2. ttl[o] = "none" /\ \A s \in Sid : sessions[s] # o
      <4>1. ttl[o] = "none"
        BY <1>0, <3>1
      <4>2. ASSUME NEW s \in Sid, sessions[s] = o PROVE FALSE
        <5>1. sessions[s] # NoObj
          BY <4>2, NullAssumption
        <5>2. ttl[sessions[s]] \in {"armed", "expired", "lifetime"}
          BY <1>0, <5>1
        <5>3. QED
          BY <4>1, <4>2, <5>2
      <4>3. QED
        BY <4>1, <4>2
    <3>3. TtlHasEntry'
      BY <1>0, <2>1, <2>3, <3>1, <3>2, NullAssumption
    <3>4. MappedHasTtl'
      BY <1>0, <2>1, <2>3, <3>1, <3>2, NullAssumption
    <3>5. QED
      BY <3>3, <3>4
  <2>4. QED
    BY <2>2, <2>3
<1>4. ASSUME NEW r \in Req, handle_get_one(r) PROVE (TtlHasEntry /\ MappedHasTtl)'
  BY <1>0, <1>4 DEF handle_get_one
<1>5. ASSUME NEW r \in Req, handle_get(r) PROVE (TtlHasEntry /\ MappedHasTtl)'
  BY <1>0, <1>5 DEF handle_get
<1>6. ASSUME NEW r \in Req, handle_get_conflict(r) PROVE (TtlHasEntry /\ MappedHasTtl)'
  BY <1>0, <1>6 DEF handle_get_conflict
<1>7. ASSUME NEW r \in Req, send_ready(r) PROVE (TtlHasEntry /\ MappedHasTtl)'
  BY <1>0, <1>7 DEF send_ready
<1>8. ASSUME NEW r \in Req, handle_post(r) PROVE (TtlHasEntry /\ MappedHasTtl)'
  BY <1>0, <1>8 DEF handle_post
<1>9. ASSUME NEW r \in Req, collect(r) PROVE (TtlHasEntry /\ MappedHasTtl)'
  BY <1>0, <1>9 DEF collect
<1>10. ASSUME NEW r \in Req, send_packet(r) PROVE (TtlHasEntry /\ MappedHasTtl)'
  BY <1>0, <1>10 DEF send_packet, CanSend, Sent
<1>11. ASSUME NEW r \in Req, pump_chunk(r) PROVE (TtlHasEntry /\ MappedHasTtl)'
  BY <1>0, <1>11 DEF pump_chunk, CanSend, Sent
<1>12. ASSUME NEW r \in Req, pump_end(r) PROVE (TtlHasEntry /\ MappedHasTtl)'
  BY <1>0, <1>12 DEF pump_end
<1>13. ASSUME NEW r \in Req, pump_eof(r) PROVE (TtlHasEntry /\ MappedHasTtl)'
  BY <1>0, <1>13 DEF pump_eof, CanSend, Sent
<1>14. ASSUME NEW o \in Obj, ttl_get_arrived(o) PROVE (TtlHasEntry /\ MappedHasTtl)'
  BY <1>0, <1>14 DEF ttl_get_arrived
<1>15. ASSUME NEW o \in Obj, ttl_timeout(o) PROVE (TtlHasEntry /\ MappedHasTtl)'
  BY <1>0, <1>15 DEF ttl_timeout
<1>16. ASSUME NEW o \in Obj, ttl_remove(o) PROVE (TtlHasEntry /\ MappedHasTtl)'
  BY <1>0, <1>16 DEF ttl_remove
<1>17. ASSUME NEW o \in Obj, ttl_lock_session(o) PROVE (TtlHasEntry /\ MappedHasTtl)'
  BY <1>0, <1>17 DEF ttl_lock_session
<1>18. ASSUME NEW o \in Obj, ttl_send_eof(o) PROVE (TtlHasEntry /\ MappedHasTtl)'
  BY <1>0, <1>18 DEF ttl_send_eof, CanSend, Sent
<1>19. ASSUME NEW o \in Obj, ttl_lifetime_end(o) PROVE (TtlHasEntry /\ MappedHasTtl)'
  BY <1>0, <1>19 DEF ttl_lifetime_end
<1>20. ASSUME NEW o \in Obj, poll_read(o) PROVE (TtlHasEntry /\ MappedHasTtl)'
  BY <1>0, <1>20 DEF poll_read, UplinkEnds, Reading
<1>21. ASSUME NEW o \in Obj, poll_read_none(o) PROVE (TtlHasEntry /\ MappedHasTtl)'
  BY <1>0, <1>21 DEF poll_read_none, UplinkEnds, Reading
<1>22. ASSUME NEW o \in Obj, relay_up_fails(o) PROVE (TtlHasEntry /\ MappedHasTtl)'
  BY <1>0, <1>22 DEF relay_up_fails, UplinkEnds, Reading
<1>23. ASSUME NEW o \in Obj, poll_write(o) PROVE (TtlHasEntry /\ MappedHasTtl)'
  BY <1>0, <1>23 DEF poll_write
<1>24. ASSUME NEW o \in Obj, relay_down_ends(o) PROVE (TtlHasEntry /\ MappedHasTtl)'
  BY <1>0, <1>24 DEF relay_down_ends
<1>25. ASSUME NEW o \in Obj, poll_frame(o) PROVE (TtlHasEntry /\ MappedHasTtl)'
  BY <1>0, <1>25 DEF poll_frame
<1>26. ASSUME NEW o \in Obj, poll_frame_none(o) PROVE (TtlHasEntry /\ MappedHasTtl)'
  BY <1>0, <1>26 DEF poll_frame_none
<1>27. ASSUME NEW o \in Obj, body_dropped(o) PROVE (TtlHasEntry /\ MappedHasTtl)'
  BY <1>0, <1>27 DEF body_dropped
<1>28. CASE accept
  BY <1>0, <1>28 DEF accept
<1>29. CASE UNCHANGED vars
  BY <1>0, <1>29 DEF vars
<1> QED
  BY <1>0, <1>1, <1>2, <1>3, <1>4, <1>5, <1>6, <1>7, <1>8, <1>9, <1>10,
     <1>11, <1>12, <1>13, <1>14, <1>15, <1>16, <1>17, <1>18, <1>19, <1>20,
     <1>21, <1>22, <1>23, <1>24, <1>25, <1>26, <1>27, <1>28, <1>29
  DEF Next, HandlerStep, PumpStep, ClientStep, TtlStep, StreamStep

\* Every step hands out the two receivers of a session together.
LEMMA ReceiversStep == IInv /\ [Next]_vars => Paired'
<1>0. SUFFICES ASSUME IInv, [Next]_vars PROVE Paired'
  OBVIOUS
<1> USE DEF IInv, TypeOK, FreshOK, HandlerOK, Paired, ReadyOnce,
           tableVars, sessVars, chanVars, strmVars, reqVars
<1>1. ASSUME NEW r \in Req, handle_request(r) PROVE Paired'
  BY <1>0, <1>1 DEF handle_request
<1>2. ASSUME NEW r \in Req, Disconnect(r) PROVE Paired'
  <2>1. CASE pc[r] = "ready"
    <3>1. /\ upRx' = [upRx EXCEPT ![tgt[r]] = "gone"]
          /\ downRx' = [downRx EXCEPT ![tgt[r]] = "gone"]
          /\ stream' = [stream EXCEPT ![tgt[r]] = "closed"]
      BY <1>2, <2>1 DEF Disconnect
    <3>2. QED
      BY <1>0, <3>1
  <2>2. CASE pc[r] # "ready"
    BY <1>0, <1>2, <2>2 DEF Disconnect
  <2>3. QED
    BY <2>1, <2>2
<1>3. ASSUME NEW r \in Req, get_or_create_session(r) PROVE Paired'
  BY <1>0, <1>3 DEF get_or_create_session
<1>4. ASSUME NEW r \in Req, handle_get_one(r) PROVE Paired'
  BY <1>0, <1>4 DEF handle_get_one
<1>5. ASSUME NEW r \in Req, handle_get(r) PROVE Paired'
  BY <1>0, <1>5 DEF handle_get
<1>6. ASSUME NEW r \in Req, handle_get_conflict(r) PROVE Paired'
  BY <1>0, <1>6 DEF handle_get_conflict
<1>7. ASSUME NEW r \in Req, send_ready(r) PROVE Paired'
  BY <1>0, <1>7 DEF send_ready
<1>8. ASSUME NEW r \in Req, handle_post(r) PROVE Paired'
  BY <1>0, <1>8 DEF handle_post
<1>9. ASSUME NEW r \in Req, collect(r) PROVE Paired'
  BY <1>0, <1>9 DEF collect
<1>10. ASSUME NEW r \in Req, send_packet(r) PROVE Paired'
  BY <1>0, <1>10 DEF send_packet, CanSend, Sent
<1>11. ASSUME NEW r \in Req, pump_chunk(r) PROVE Paired'
  BY <1>0, <1>11 DEF pump_chunk, CanSend, Sent
<1>12. ASSUME NEW r \in Req, pump_end(r) PROVE Paired'
  BY <1>0, <1>12 DEF pump_end
<1>13. ASSUME NEW r \in Req, pump_eof(r) PROVE Paired'
  BY <1>0, <1>13 DEF pump_eof, CanSend, Sent
<1>14. ASSUME NEW o \in Obj, ttl_get_arrived(o) PROVE Paired'
  BY <1>0, <1>14 DEF ttl_get_arrived
<1>15. ASSUME NEW o \in Obj, ttl_timeout(o) PROVE Paired'
  BY <1>0, <1>15 DEF ttl_timeout
<1>16. ASSUME NEW o \in Obj, ttl_remove(o) PROVE Paired'
  BY <1>0, <1>16 DEF ttl_remove
<1>17. ASSUME NEW o \in Obj, ttl_lock_session(o) PROVE Paired'
  BY <1>0, <1>17 DEF ttl_lock_session
<1>18. ASSUME NEW o \in Obj, ttl_send_eof(o) PROVE Paired'
  BY <1>0, <1>18 DEF ttl_send_eof, CanSend, Sent
<1>19. ASSUME NEW o \in Obj, ttl_lifetime_end(o) PROVE Paired'
  BY <1>0, <1>19 DEF ttl_lifetime_end
<1>20. ASSUME NEW o \in Obj, poll_read(o) PROVE Paired'
  BY <1>0, <1>20 DEF poll_read, UplinkEnds, Reading
<1>21. ASSUME NEW o \in Obj, poll_read_none(o) PROVE Paired'
  BY <1>0, <1>21 DEF poll_read_none, UplinkEnds, Reading
<1>22. ASSUME NEW o \in Obj, relay_up_fails(o) PROVE Paired'
  BY <1>0, <1>22 DEF relay_up_fails, UplinkEnds, Reading
<1>23. ASSUME NEW o \in Obj, poll_write(o) PROVE Paired'
  BY <1>0, <1>23 DEF poll_write
<1>24. ASSUME NEW o \in Obj, relay_down_ends(o) PROVE Paired'
  BY <1>0, <1>24 DEF relay_down_ends
<1>25. ASSUME NEW o \in Obj, poll_frame(o) PROVE Paired'
  BY <1>0, <1>25 DEF poll_frame
<1>26. ASSUME NEW o \in Obj, poll_frame_none(o) PROVE Paired'
  BY <1>0, <1>26 DEF poll_frame_none
<1>27. ASSUME NEW o \in Obj, body_dropped(o) PROVE Paired'
  BY <1>0, <1>27 DEF body_dropped
<1>28. CASE accept
  <2>1. Head(ready) \in Obj /\ stream[Head(ready)] = "queued"
    BY <1>0, <1>28 DEF accept
  <2>2. QED
    BY <1>0, <1>28, <2>1 DEF accept
<1>29. CASE UNCHANGED vars
  BY <1>0, <1>29 DEF vars
<1> QED
  BY <1>0, <1>1, <1>2, <1>3, <1>4, <1>5, <1>6, <1>7, <1>8, <1>9, <1>10,
     <1>11, <1>12, <1>13, <1>14, <1>15, <1>16, <1>17, <1>18, <1>19, <1>20,
     <1>21, <1>22, <1>23, <1>24, <1>25, <1>26, <1>27, <1>28, <1>29
  DEF Next, HandlerStep, PumpStep, ClientStep, TtlStep, StreamStep

\* Every step keeps the ready queue and the queued streams the same.
LEMMA ReadyStep == IInv /\ [Next]_vars => ReadyOnce'
<1>0. SUFFICES ASSUME IInv, [Next]_vars PROVE ReadyOnce'
  OBVIOUS
<1> USE DEF IInv, TypeOK, FreshOK, HandlerOK, Paired, ReadyOnce,
           tableVars, sessVars, chanVars, strmVars, reqVars
<1>1. ASSUME NEW r \in Req, handle_request(r) PROVE ReadyOnce'
  BY <1>0, <1>1 DEF handle_request
<1>2. ASSUME NEW r \in Req, Disconnect(r) PROVE ReadyOnce'
  BY <1>0, <1>2 DEF Disconnect
<1>3. ASSUME NEW r \in Req, get_or_create_session(r) PROVE ReadyOnce'
  BY <1>0, <1>3 DEF get_or_create_session
<1>4. ASSUME NEW r \in Req, handle_get_one(r) PROVE ReadyOnce'
  BY <1>0, <1>4 DEF handle_get_one
<1>5. ASSUME NEW r \in Req, handle_get(r) PROVE ReadyOnce'
  BY <1>0, <1>5 DEF handle_get
<1>6. ASSUME NEW r \in Req, handle_get_conflict(r) PROVE ReadyOnce'
  BY <1>0, <1>6 DEF handle_get_conflict
<1>7. ASSUME NEW r \in Req, send_ready(r) PROVE ReadyOnce'
  <2>1. tgt[r] \in Obj /\ stream[tgt[r]] = "handler"
    BY <1>0, <1>7 DEF send_ready
  <2>2. \A i \in DOMAIN ready : ready[i] # tgt[r]
    BY <1>0, <2>1
  <2>3. /\ Len(ready) \in Nat
        /\ DOMAIN ready = 1..Len(ready)
        /\ DOMAIN ready' = 1..(Len(ready) + 1)
        /\ \A i \in 1..Len(ready) : ready'[i] = ready[i]
        /\ ready'[Len(ready) + 1] = tgt[r]
    BY <1>0, <1>7, <2>1 DEF send_ready
  <2>4. \A i, j \in DOMAIN ready' : ready'[i] = ready'[j] => i = j
    <3>1. \A i, j \in DOMAIN ready : ready[i] = ready[j] => i = j
      BY <1>0
    <3>2. QED
      BY <2>2, <2>3, <3>1
  <2>5. ASSUME NEW p \in Obj
        PROVE  stream'[p] = "queued" <=> \E i \in DOMAIN ready' : ready'[i] = p
    <3>1. stream'[p] = "queued" <=> p = tgt[r] \/ stream[p] = "queued"
      BY <1>0, <1>7, <2>1 DEF send_ready
    <3>2. (\E i \in DOMAIN ready' : ready'[i] = p)
             <=> p = tgt[r] \/ \E i \in DOMAIN ready : ready[i] = p
      BY <2>3
    <3>3. QED
      BY <1>0, <3>1, <3>2
  <2>6. QED
    BY <2>4, <2>5
<1>8. ASSUME NEW r \in Req, handle_post(r) PROVE ReadyOnce'
  BY <1>0, <1>8 DEF handle_post
<1>9. ASSUME NEW r \in Req, collect(r) PROVE ReadyOnce'
  BY <1>0, <1>9 DEF collect
<1>10. ASSUME NEW r \in Req, send_packet(r) PROVE ReadyOnce'
  BY <1>0, <1>10 DEF send_packet, CanSend, Sent
<1>11. ASSUME NEW r \in Req, pump_chunk(r) PROVE ReadyOnce'
  BY <1>0, <1>11 DEF pump_chunk, CanSend, Sent
<1>12. ASSUME NEW r \in Req, pump_end(r) PROVE ReadyOnce'
  BY <1>0, <1>12 DEF pump_end
<1>13. ASSUME NEW r \in Req, pump_eof(r) PROVE ReadyOnce'
  BY <1>0, <1>13 DEF pump_eof, CanSend, Sent
<1>14. ASSUME NEW o \in Obj, ttl_get_arrived(o) PROVE ReadyOnce'
  BY <1>0, <1>14 DEF ttl_get_arrived
<1>15. ASSUME NEW o \in Obj, ttl_timeout(o) PROVE ReadyOnce'
  BY <1>0, <1>15 DEF ttl_timeout
<1>16. ASSUME NEW o \in Obj, ttl_remove(o) PROVE ReadyOnce'
  BY <1>0, <1>16 DEF ttl_remove
<1>17. ASSUME NEW o \in Obj, ttl_lock_session(o) PROVE ReadyOnce'
  BY <1>0, <1>17 DEF ttl_lock_session
<1>18. ASSUME NEW o \in Obj, ttl_send_eof(o) PROVE ReadyOnce'
  BY <1>0, <1>18 DEF ttl_send_eof, CanSend, Sent
<1>19. ASSUME NEW o \in Obj, ttl_lifetime_end(o) PROVE ReadyOnce'
  BY <1>0, <1>19 DEF ttl_lifetime_end
<1>20. ASSUME NEW o \in Obj, poll_read(o) PROVE ReadyOnce'
  BY <1>0, <1>20 DEF poll_read, UplinkEnds, Reading
<1>21. ASSUME NEW o \in Obj, poll_read_none(o) PROVE ReadyOnce'
  BY <1>0, <1>21 DEF poll_read_none, UplinkEnds, Reading
<1>22. ASSUME NEW o \in Obj, relay_up_fails(o) PROVE ReadyOnce'
  BY <1>0, <1>22 DEF relay_up_fails, UplinkEnds, Reading
<1>23. ASSUME NEW o \in Obj, poll_write(o) PROVE ReadyOnce'
  BY <1>0, <1>23 DEF poll_write
<1>24. ASSUME NEW o \in Obj, relay_down_ends(o) PROVE ReadyOnce'
  BY <1>0, <1>24 DEF relay_down_ends
<1>25. ASSUME NEW o \in Obj, poll_frame(o) PROVE ReadyOnce'
  BY <1>0, <1>25 DEF poll_frame
<1>26. ASSUME NEW o \in Obj, poll_frame_none(o) PROVE ReadyOnce'
  BY <1>0, <1>26 DEF poll_frame_none
<1>27. ASSUME NEW o \in Obj, body_dropped(o) PROVE ReadyOnce'
  BY <1>0, <1>27 DEF body_dropped
<1>28. CASE accept
  <2>1. /\ Len(ready) \in Nat \ {0}
        /\ DOMAIN ready = 1..Len(ready)
        /\ Head(ready) = ready[1] /\ ready[1] \in Obj
        /\ DOMAIN ready' = 1..(Len(ready) - 1)
        /\ \A i \in 1..(Len(ready) - 1) : ready'[i] = ready[i + 1]
    BY <1>0, <1>28 DEF accept
  <2>2. \A i, j \in DOMAIN ready' : ready'[i] = ready'[j] => i = j
    <3>1. \A i, j \in DOMAIN ready : ready[i] = ready[j] => i = j
      BY <1>0
    <3>2. QED
      BY <2>1, <3>1
  <2>3. ASSUME NEW p \in Obj
        PROVE  stream'[p] = "queued" <=> \E i \in DOMAIN ready' : ready'[i] = p
    <3>1. stream'[p] = "queued" <=> p # ready[1] /\ stream[p] = "queued"
      BY <1>0, <1>28, <2>1 DEF accept
    <3>2. ASSUME NEW i \in DOMAIN ready', ready'[i] = p
          PROVE  p # ready[1] /\ stream[p] = "queued"
      <4>1. i + 1 \in DOMAIN ready /\ ready[i + 1] = p /\ i + 1 # 1 /\ 1 \in DOMAIN ready
        BY <2>1, <3>2
      <4>2. QED
        BY <1>0, <4>1
    <3>3. ASSUME p # ready[1], stream[p] = "queued"
          PROVE  \E i \in DOMAIN ready' : ready'[i] = p
      <4>1. PICK i \in DOMAIN ready : ready[i] = p
        BY <1>0, <3>3
      <4>2. i - 1 \in DOMAIN ready' /\ ready'[i - 1] = p
        BY <2>1, <3>3, <4>1
      <4>3. QED
        BY <4>2
    <3>4. QED
      BY <3>1, <3>2, <3>3
  <2>4. QED
    BY <2>2, <2>3
<1>29. CASE UNCHANGED vars
  BY <1>0, <1>29 DEF vars
<1> QED
  BY <1>0, <1>1, <1>2, <1>3, <1>4, <1>5, <1>6, <1>7, <1>8, <1>9, <1>10,
     <1>11, <1>12, <1>13, <1>14, <1>15, <1>16, <1>17, <1>18, <1>19, <1>20,
     <1>21, <1>22, <1>23, <1>24, <1>25, <1>26, <1>27, <1>28, <1>29
  DEF Next, HandlerStep, PumpStep, ClientStep, TtlStep, StreamStep

\* The initial state satisfies the invariant.
LEMMA InitInv == Init => IInv
<1>1. SUFFICES ASSUME Init PROVE IInv
  OBVIOUS
<1>2. TypeOK
  BY <1>1, CapAssumption DEF Init, TypeOK, Kinds
<1>3. HandlerOK /\ FreshOK /\ TtlHasEntry /\ MappedHasTtl
  BY <1>1 DEF Init, HandlerOK, FreshOK, TtlHasEntry, MappedHasTtl, Pending
<1>4. Paired /\ ReadyOnce
  BY <1>1 DEF Init, Paired, ReadyOnce
<1>5. QED
  BY <1>2, <1>3, <1>4 DEF IInv

\* The conjunction is inductive.
LEMMA IInvStep == IInv /\ [Next]_vars => IInv'
<1>1. SUFFICES ASSUME IInv, [Next]_vars PROVE IInv'
  OBVIOUS
<1>2. TypeOK' /\ HandlerOK' /\ FreshOK'
  BY <1>1, TypeStep, HandlerInvStep, FreshStep
<1>3. (TtlHasEntry /\ MappedHasTtl)' /\ Paired' /\ ReadyOnce'
  BY <1>1, TableStep, ReceiversStep, ReadyStep
<1>4. QED
  BY <1>2, <1>3 DEF IInv

\* The inductive invariant holds in every reachable state.
THEOREM Invariance == Spec => []IInv
<1>1. Init => IInv
  BY InitInv
<1>2. IInv /\ [Next]_vars => IInv'
  BY IInvStep
<1>3. QED
  BY <1>1, <1>2, PTL DEF Spec

\* No step of any handler, pump or task leaves the types of the server's state or
\* exceeds the capacity of up_tx, down_tx or ready_tx.
THEOREM TypeCorrect == Spec => []TypeOK
<1>1. IInv => TypeOK
  BY DEF IInv
<1>2. QED
  BY <1>1, Invariance, PTL

\* Every entry of the session table has its own pending TTL task, which removes it
\* under the right key (get_or_create_session and the task it spawns).
THEOREM TableOwned == Spec => []MappedHasTtl
<1>1. IInv => MappedHasTtl
  BY DEF IInv
<1>2. QED
  BY <1>1, Invariance, PTL

\* The two receivers of a channel pair leave the session together, there is no stream on
\* them before, and the GET that took them is the only one that has a stream on them:
\* handle_get never gives a session a second reader.
THEOREM ReceiversPaired == Spec => []ReceiversTogether
<1>1. ASSUME IInv PROVE ReceiversTogether
  <2>1. ASSUME NEW o \in Obj
        PROVE  /\ upRx[o] = "session" <=> downRx[o] = "session"
               /\ upRx[o] \in {"unused", "session"} => stream[o] = "none"
    BY <1>1 DEF IInv, Paired, FreshOK
  <2>2. ASSUME NEW r \in Req, pc[r] = "ready"
        PROVE  /\ stream[tgt[r]] = "handler"
               /\ \A i \in DOMAIN ready : ready[i] # tgt[r]
               /\ \A q \in Req : pc[q] = "ready" /\ tgt[q] = tgt[r] => q = r
    <3>1. /\ tgt[r] \in Obj /\ stream[tgt[r]] = "handler"
          /\ \A q \in Req : pc[q] = "ready" /\ tgt[q] = tgt[r] => q = r
      BY <1>1, <2>2 DEF IInv, HandlerOK
    <3>2. ASSUME NEW i \in DOMAIN ready, ready[i] = tgt[r] PROVE FALSE
      <4>1. stream[tgt[r]] = "queued"
        BY <1>1, <3>1, <3>2 DEF IInv, ReadyOnce
      <4>2. QED
        BY <3>1, <4>1
    <3>3. QED
      BY <3>1, <3>2
  <2>3. QED
    BY <2>1, <2>2 DEF ReceiversTogether
<1>2. IInv => ReceiversTogether
  BY <1>1
<1>3. QED
  BY <1>2, Invariance, PTL

\* The node accepts each logical connection once (ready_tx, feed and accept).
THEOREM AcceptedOnce == Spec => []ReadyOnce
<1>1. IInv => ReadyOnce
  BY DEF IInv
<1>2. QED
  BY <1>1, Invariance, PTL

\* A step that changes an entry of the table is the removal by the entry's own task.
LEMMA RemovalStep == IInv /\ [Next]_vars => [OwnRemoval]_vars
<1>0. SUFFICES ASSUME IInv, Next PROVE OwnRemoval
  BY DEF vars
<1>1. SUFFICES ASSUME NEW s \in Sid, sessions[s] # NoObj, sessions'[s] # sessions[s]
               PROVE  /\ sessions'[s] = NoObj
                      /\ ttl[sessions[s]] \in {"expired", "lifetime"}
                      /\ ttl'[sessions[s]] \in {"removed", "done"}
  BY DEF OwnRemoval
<1>2. ASSUME NEW r \in Req, get_or_create_session(r) PROVE FALSE
  BY <1>0, <1>1, <1>2 DEF get_or_create_session, IInv, TypeOK
<1>3. ASSUME NEW o \in Obj, ttl_remove(o) \/ ttl_lifetime_end(o)
      PROVE  sessions'[s] = NoObj /\ sessions[s] = o
  BY <1>0, <1>1, <1>3
  DEF ttl_remove, ttl_lifetime_end, IInv, TypeOK, TtlHasEntry, Pending
<1>4. ASSUME NEW o \in Obj, ttl_remove(o)
      PROVE  ttl[o] = "expired" /\ ttl'[o] \in {"removed", "done"}
  BY <1>0, <1>4 DEF ttl_remove, IInv, TypeOK
<1>5. ASSUME NEW o \in Obj, ttl_lifetime_end(o)
      PROVE  ttl[o] = "lifetime" /\ ttl'[o] = "done"
  BY <1>0, <1>5 DEF ttl_lifetime_end, IInv, TypeOK
<1>6. ASSUME NEW r \in Req, ~get_or_create_session(r),
             HandlerStep(r) \/ PumpStep(r) \/ ClientStep(r)
      PROVE  FALSE
  BY <1>1, <1>6
  DEF HandlerStep, PumpStep, ClientStep, tableVars, handle_get_one, handle_get,
      handle_get_conflict, send_ready, handle_post, send_packet, pump_chunk, pump_end,
      pump_eof, handle_request, Disconnect, collect
<1>7. ASSUME NEW o \in Obj, ~ttl_remove(o), ~ttl_lifetime_end(o),
             TtlStep(o) \/ StreamStep(o)
      PROVE  FALSE
  BY <1>1, <1>7
  DEF TtlStep, StreamStep, tableVars, ttl_get_arrived, ttl_timeout, ttl_lock_session,
      ttl_send_eof, poll_read, poll_read_none, relay_up_fails, poll_write,
      relay_down_ends, poll_frame, poll_frame_none, body_dropped
<1>8. ASSUME accept PROVE FALSE
  BY <1>1, <1>8 DEF accept, tableVars
<1>9. QED
  BY <1>0, <1>2, <1>3, <1>4, <1>5, <1>6, <1>7, <1>8 DEF Next

\* No TTL task ever removes a newer session that was created under its key: an entry
\* leaves the table only by a step of its own task.
THEOREM RemovesOnlyItsOwn == Spec => TtlRemovesOnlyItsOwn
<1>1. IInv /\ [Next]_vars => [OwnRemoval]_vars
  BY RemovalStep
<1>2. QED
  BY <1>1, Invariance, PTL DEF Spec, TtlRemovesOnlyItsOwn

=============================================================================
