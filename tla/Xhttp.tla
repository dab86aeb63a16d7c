------------------------------- MODULE Xhttp -------------------------------
(***************************************************************************)
(* The XHTTP server transport (common/transport/xhttp.rs): the session     *)
(* table shared by every HTTP connection, the GET and POST handlers, the   *)
(* TTL task every session gets, the two bounded channels of a session and  *)
(* the queue of ready streams.                                             *)
(*                                                                         *)
(* A step of the model is the code between two awaits that can really      *)
(* wait.  The map lock and a session lock are held across an await by one  *)
(* piece of code only, the expiry branch of the TTL task; everywhere else  *)
(* they are taken and released inside one step.                            *)
(***************************************************************************)
EXTENDS Naturals, Sequences, FiniteSets

CONSTANTS
    Sid,        \* session ids clients put in the path
    Obj,        \* channel pairs, one per Session (or per stream-one GET)
    Req,        \* HTTP requests; each is issued at most once
    UpCap,      \* capacity of the uplink channel (64 in the code)
    DownCap,    \* capacity of the downlink channel (64 in the code)
    ReadyCap,   \* capacity of ready_tx (64 in the code)
    MaxFrames,  \* bound: body frames one streaming request sends
    NoObj, NoSid, Free

ASSUME CapAssumption ==
    /\ UpCap \in Nat \ {0}
    /\ DownCap \in Nat \ {0}
    /\ ReadyCap \in Nat \ {0}
    /\ MaxFrames \in Nat

ASSUME NullAssumption ==
    /\ NoObj \notin Obj
    /\ NoSid \notin Sid
    /\ Free \notin Obj

VARIABLES
    sessions,   \* ServerInner.sessions: the table, NoObj where there is no entry
    mapLock,    \* the TTL task that holds the table's lock across an await, or Free
    victim,     \* the session that task took out of the table (its local `s`)
    sidOf,      \* key a session was created under; NoSid: unused or stream-one
    upRx,       \* where the uplink receiver is
    downRx,     \* where the downlink receiver is
    permit,     \* the stored permit of get_arrived
    ttl,        \* state of the session's TTL task
    upq,        \* uplink channel: "data" and "eof" items
    downq,      \* number of items in the downlink channel
    stream,     \* the XhttpStream built on the channel pair
    ready,      \* the ready_tx queue
    kind,       \* what request r asks for
    want,       \* the session id in r's path
    pc,         \* state of r's handler
    tgt,        \* the channel pair r's handler or body pump works on
    pump,       \* state of r's spawned body pump
    frames      \* frames r's pump has sent

tableVars == <<sessions, mapLock, victim>>
sessVars  == <<sidOf, upRx, downRx, permit, ttl>>
chanVars  == <<upq, downq>>
strmVars  == <<stream, ready>>
reqVars   == <<kind, want, pc, tgt, pump, frames>>
vars == <<tableVars, sessVars, chanVars, strmVars, reqVars>>

Kinds == {"get", "one", "packet", "up", "badseq", "refused"}

TypeOK ==
    /\ sessions \in [Sid -> Obj \cup {NoObj}]
    /\ mapLock \in Obj \cup {Free}
    /\ victim \in Obj \cup {NoObj}
    /\ sidOf \in [Obj -> Sid \cup {NoSid}]
    /\ upRx \in [Obj -> {"unused", "session", "stream", "gone"}]
    /\ downRx \in [Obj -> {"unused", "session", "handler", "body", "gone"}]
    /\ permit \in [Obj -> BOOLEAN]
    /\ ttl \in [Obj -> {"none", "armed", "expired", "removed", "sending",
                        "lifetime", "done"}]
    /\ upq \in [Obj -> Seq({"data", "eof"})]
    /\ \A o \in Obj : Len(upq[o]) <= UpCap
    /\ downq \in [Obj -> 0..DownCap]
    /\ stream \in [Obj -> {"none", "handler", "queued", "open", "downonly", "uponly",
                           "closed"}]
    /\ ready \in Seq(Obj)
    /\ Len(ready) <= ReadyCap
    /\ kind \in [Req -> Kinds]
    /\ want \in [Req -> Sid \cup {NoSid}]
    /\ pc \in [Req -> {"idle", "lookup", "have", "collect", "send", "ready", "done"}]
    /\ tgt \in [Req -> Obj \cup {NoObj}]
    /\ pump \in [Req -> {"none", "body", "eof", "done"}]
    /\ frames \in [Req -> 0..MaxFrames]

Init ==
    /\ sessions = [s \in Sid |-> NoObj]
    /\ mapLock = Free
    /\ victim = NoObj
    /\ sidOf = [o \in Obj |-> NoSid]
    /\ upRx = [o \in Obj |-> "unused"]
    /\ downRx = [o \in Obj |-> "unused"]
    /\ permit = [o \in Obj |-> FALSE]
    /\ ttl = [o \in Obj |-> "none"]
    /\ upq = [o \in Obj |-> <<>>]
    /\ downq = [o \in Obj |-> 0]
    /\ stream = [o \in Obj |-> "none"]
    /\ ready = <<>>
    /\ kind = [r \in Req |-> "refused"]
    /\ want = [r \in Req |-> NoSid]
    /\ pc = [r \in Req |-> "idle"]
    /\ tgt = [r \in Req |-> NoObj]
    /\ pump = [r \in Req |-> "none"]
    /\ frames = [r \in Req |-> 0]
-----------------------------------------------------------------------------
(* Who keeps an end of a channel alive (Arc and Sender counts of the code). *)

\* The Session object is referenced by the table, by the TTL task that took it out,
\* by a handler that has not locked it yet, and by a GET handler until it returns.
SessionAlive(o) ==
    \/ \E s \in Sid : sessions[s] = o
    \/ victim = o
    \/ \E r \in Req : tgt[r] = o /\ (pc[r] = "have" \/ (pc[r] = "ready" /\ kind[r] = "get"))

UpTxAlive(o) ==
    \/ SessionAlive(o)
    \/ \E r \in Req : tgt[r] = o /\ (pc[r] \in {"collect", "send"} \/ pump[r] \in {"body", "eof"})

UpRxAlive(o) == upRx[o] = "stream" \/ (upRx[o] = "session" /\ SessionAlive(o))

DownTxAlive(o) ==
    SessionAlive(o) \/ stream[o] \in {"handler", "queued", "open", "downonly", "uponly"}

\* The expiry branch holds the session's lock while it waits to send Eof.
SessionLocked(o) == victim = o /\ mapLock # Free /\ ttl[mapLock] = "sending"

\* Mutant: a sender is not woken when the receiver is dropped.
CanSend_IgnoresClosed(o) == Len(upq[o]) < UpCap

\* mpsc send: it completes when there is room, or at once when the receiver is gone.
CanSend(o) == ~UpRxAlive(o) \/ Len(upq[o]) < UpCap
Sent(o, item) == IF UpRxAlive(o) THEN [upq EXCEPT ![o] = Append(@, item)] ELSE upq

-----------------------------------------------------------------------------
(* Clients: a request arrives; the connection carrying one goes away.       *)

handle_request(r) ==
    /\ pc[r] = "idle"
    /\ \E k \in Kinds, s \in Sid \cup {NoSid} :
         /\ s = NoSid <=> k \in {"one", "refused"}
         /\ kind' = [kind EXCEPT ![r] = k]
         /\ want' = [want EXCEPT ![r] = s]
         /\ pc' = [pc EXCEPT ![r] = IF k = "refused" THEN "done" ELSE "lookup"]
    /\ UNCHANGED <<tableVars, sessVars, chanVars, strmVars, tgt, pump, frames>>

\* hyper drops the handler's future: what the handler owned at its await is dropped.
Disconnect(r) ==
    LET o == tgt[r] IN
    /\ pc[r] \in {"lookup", "have", "collect", "send", "ready"}
    /\ pc' = [pc EXCEPT ![r] = "done"]
    /\ IF pc[r] = "ready"
       THEN /\ upRx' = [upRx EXCEPT ![o] = "gone"]
            /\ downRx' = [downRx EXCEPT ![o] = "gone"]
            /\ stream' = [stream EXCEPT ![o] = "closed"]
            /\ upq' = [upq EXCEPT ![o] = <<>>]
       ELSE UNCHANGED <<upRx, downRx, stream, upq>>
    /\ UNCHANGED <<tableVars, sidOf, permit, ttl, downq, ready, kind, want, tgt, pump, frames>>

-----------------------------------------------------------------------------
(* get_or_create_session: one critical section under the map lock.          *)

get_or_create_session(r) ==
    LET s == want[r] IN
    /\ pc[r] = "lookup"
    /\ kind[r] # "one"
    /\ mapLock = Free
    /\ pc' = [pc EXCEPT ![r] = "have"]
    /\ \/ /\ sessions[s] # NoObj
          /\ tgt' = [tgt EXCEPT ![r] = sessions[s]]
          /\ UNCHANGED <<sessions, sessVars>>
       \/ /\ sessions[s] = NoObj
          /\ \E o \in Obj :
               /\ upRx[o] = "unused"
               /\ tgt' = [tgt EXCEPT ![r] = o]
               /\ sessions' = [sessions EXCEPT ![s] = o]
               /\ sidOf' = [sidOf EXCEPT ![o] = s]
               /\ upRx' = [upRx EXCEPT ![o] = "session"]
               /\ downRx' = [downRx EXCEPT ![o] = "session"]
               /\ ttl' = [ttl EXCEPT ![o] = "armed"]
               /\ UNCHANGED permit
    /\ UNCHANGED <<mapLock, victim, chanVars, strmVars, kind, want, pump, frames>>

-----------------------------------------------------------------------------
(* handle_get                                                               *)

\* stream-one: private channels, a spawned body pump, no session.
handle_get_one(r) ==
    /\ pc[r] = "lookup"
    /\ kind[r] = "one"
    /\ \E o \in Obj :
         /\ upRx[o] = "unused"
         /\ tgt' = [tgt EXCEPT ![r] = o]
         /\ upRx' = [upRx EXCEPT ![o] = "stream"]
         /\ downRx' = [downRx EXCEPT ![o] = "handler"]
         /\ stream' = [stream EXCEPT ![o] = "handler"]
    /\ pump' = [pump EXCEPT ![r] = "body"]
    /\ pc' = [pc EXCEPT ![r] = "ready"]
    /\ UNCHANGED <<tableVars, sidOf, permit, ttl, chanVars, ready, kind, want, frames>>

\* Mutant: the GET handler takes the entry out of the table.
handle_get_RemovesEntry(r) ==
    LET o == tgt[r] IN
    /\ pc[r] = "have"
    /\ kind[r] = "get"
    /\ ~SessionLocked(o)
    /\ upRx[o] = "session"
    /\ mapLock = Free
    /\ sessions' = [sessions EXCEPT ![sidOf[o]] = NoObj]
    /\ upRx' = [upRx EXCEPT ![o] = "stream"]
    /\ downRx' = [downRx EXCEPT ![o] = "handler"]
    /\ permit' = [permit EXCEPT ![o] = TRUE]
    /\ stream' = [stream EXCEPT ![o] = "handler"]
    /\ pc' = [pc EXCEPT ![r] = "ready"]
    /\ UNCHANGED <<mapLock, victim, sidOf, ttl, chanVars, ready, kind, want, tgt, pump, frames>>

\* Mutant: a second GET for the same session is served as well.
handle_get_NoConflict(r) ==
    LET o == tgt[r] IN
    /\ pc[r] = "have"
    /\ kind[r] = "get"
    /\ ~SessionLocked(o)
    /\ upRx' = [upRx EXCEPT ![o] = "stream"]
    /\ downRx' = [downRx EXCEPT ![o] = "handler"]
    /\ permit' = [permit EXCEPT ![o] = TRUE]
    /\ stream' = [stream EXCEPT ![o] = "handler"]
    /\ pc' = [pc EXCEPT ![r] = "ready"]
    /\ UNCHANGED <<tableVars, sidOf, ttl, chanVars, ready, kind, want, tgt, pump, frames>>

\* stream-down, under the session lock: take both receivers and notify the TTL task.
\* A missing down_rx is the code's second CONFLICT branch: up_rx is already taken.
handle_get(r) ==
    LET o == tgt[r]
        both == downRx[o] = "session" IN
    /\ pc[r] = "have"
    /\ kind[r] = "get"
    /\ ~SessionLocked(o)
    /\ upRx[o] = "session"
    /\ upRx' = [upRx EXCEPT ![o] = IF both THEN "stream" ELSE "gone"]
    /\ downRx' = [downRx EXCEPT ![o] = IF both THEN "handler" ELSE @]
    /\ permit' = [permit EXCEPT ![o] = @ \/ both]
    /\ stream' = [stream EXCEPT ![o] = IF both THEN "handler" ELSE @]
    /\ pc' = [pc EXCEPT ![r] = IF both THEN "ready" ELSE "done"]
    /\ UNCHANGED <<tableVars, sidOf, ttl, chanVars, ready, kind, want, tgt, pump, frames>>

\* The uplink receiver has been taken: 409 CONFLICT.
handle_get_conflict(r) ==
    /\ pc[r] = "have"
    /\ kind[r] = "get"
    /\ ~SessionLocked(tgt[r])
    /\ upRx[tgt[r]] # "session"
    /\ pc' = [pc EXCEPT ![r] = "done"]
    /\ UNCHANGED <<tableVars, sessVars, chanVars, strmVars, kind, want, tgt, pump, frames>>

\* ready_tx.send(xhs).await, then the response with down_rx as its body.
send_ready(r) ==
    LET o == tgt[r] IN
    /\ pc[r] = "ready"
    /\ Len(ready) < ReadyCap
    /\ ready' = Append(ready, o)
    /\ stream' = [stream EXCEPT ![o] = "queued"]
    /\ downRx' = [downRx EXCEPT ![o] = "body"]
    /\ pc' = [pc EXCEPT ![r] = "done"]
    /\ UNCHANGED <<tableVars, sidOf, upRx, permit, ttl, chanVars, kind, want, tgt, pump, frames>>

-----------------------------------------------------------------------------
(* handle_post                                                              *)

\* Under the session lock: clone up_tx.  A sequence number that does not parse is
\* refused only now, after the session has been created.
handle_post(r) ==
    /\ pc[r] = "have"
    /\ kind[r] \in {"packet", "up", "badseq"}
    /\ ~SessionLocked(tgt[r])
    /\ pc' = [pc EXCEPT ![r] = IF kind[r] = "packet" THEN "collect" ELSE "done"]
    /\ pump' = [pump EXCEPT ![r] = IF kind[r] = "up" THEN "body" ELSE @]
    /\ UNCHANGED <<tableVars, sessVars, chanVars, strmVars, kind, want, tgt, frames>>

\* packet-up: the body is collected before anything is sent.
collect(r) ==
    /\ pc[r] = "collect"
    /\ pc' = [pc EXCEPT ![r] = "send"]
    /\ UNCHANGED <<tableVars, sessVars, chanVars, strmVars, kind, want, tgt, pump, frames>>

\* packet-up: up_tx.send(Packet).await; an error is ignored and 200 returned.
send_packet(r) ==
    /\ pc[r] = "send"
    /\ CanSend(tgt[r])
    /\ upq' = Sent(tgt[r], "data")
    /\ pc' = [pc EXCEPT ![r] = "done"]
    /\ UNCHANGED <<tableVars, sessVars, downq, strmVars, kind, want, tgt, pump, frames>>

\* Mutant: the pump does not wait for room in the channel.
pump_chunk_Unbounded(r) ==
    LET o == tgt[r] IN
    /\ pump[r] = "body"
    /\ frames[r] < MaxFrames
    /\ UpRxAlive(o)
    /\ upq' = Sent(o, "data")
    /\ frames' = [frames EXCEPT ![r] = @ + 1]
    /\ UNCHANGED <<tableVars, sessVars, downq, strmVars, kind, want, pc, tgt, pump>>

\* The body pump of stream-up and stream-one sends one frame.
pump_chunk(r) ==
    LET o == tgt[r] IN
    /\ pump[r] = "body"
    /\ frames[r] < MaxFrames
    /\ UpRxAlive(o)
    /\ CanSend(o)
    /\ upq' = Sent(o, "data")
    /\ frames' = [frames EXCEPT ![r] = @ + 1]
    /\ UNCHANGED <<tableVars, sessVars, downq, strmVars, kind, want, pc, tgt, pump>>

\* The body ends or fails, or the receiver is gone.  Only stream-one sends an Eof then.
pump_end(r) ==
    /\ pump[r] = "body"
    /\ pump' = [pump EXCEPT ![r] = IF kind[r] = "one" THEN "eof" ELSE "done"]
    /\ UNCHANGED <<tableVars, sessVars, chanVars, strmVars, kind, want, pc, tgt, frames>>

pump_eof(r) ==
    /\ pump[r] = "eof"
    /\ CanSend(tgt[r])
    /\ upq' = Sent(tgt[r], "eof")
    /\ pump' = [pump EXCEPT ![r] = "done"]
    /\ UNCHANGED <<tableVars, sessVars, downq, strmVars, kind, want, pc, tgt, frames>>

-----------------------------------------------------------------------------
(* The TTL task spawned with every session.                                 *)

\* Mutant: the task returns once the GET has come and leaves the entry for ever.
ttl_get_arrived_Returns(o) ==
    /\ ttl[o] = "armed"
    /\ permit[o]
    /\ permit' = [permit EXCEPT ![o] = FALSE]
    /\ ttl' = [ttl EXCEPT ![o] = "done"]
    /\ UNCHANGED <<tableVars, sidOf, upRx, downRx, chanVars, strmVars, reqVars>>

\* timeout(30s, get_arrived.notified()): the notification wins when it is there.
ttl_get_arrived(o) ==
    /\ ttl[o] = "armed"
    /\ permit[o]
    /\ permit' = [permit EXCEPT ![o] = FALSE]
    /\ ttl' = [ttl EXCEPT ![o] = "lifetime"]
    /\ UNCHANGED <<tableVars, sidOf, upRx, downRx, chanVars, strmVars, reqVars>>

ttl_timeout(o) ==
    /\ ttl[o] = "armed"
    /\ ~permit[o]
    /\ ttl' = [ttl EXCEPT ![o] = "expired"]
    /\ UNCHANGED <<tableVars, sidOf, upRx, downRx, permit, chanVars, strmVars, reqVars>>

\* Expiry: lock the table and remove the entry under this sid; the lock is kept.
ttl_remove(o) ==
    LET s == sidOf[o] IN
    /\ ttl[o] = "expired"
    /\ mapLock = Free
    /\ sessions' = [sessions EXCEPT ![s] = NoObj]
    /\ victim' = sessions[s]
    /\ mapLock' = IF sessions[s] = NoObj THEN Free ELSE o
    /\ ttl' = [ttl EXCEPT ![o] = IF sessions[s] = NoObj THEN "done" ELSE "removed"]
    /\ UNCHANGED <<sidOf, upRx, downRx, permit, chanVars, strmVars, reqVars>>

ttl_lock_session(o) ==
    /\ ttl[o] = "removed"
    /\ ttl' = [ttl EXCEPT ![o] = "sending"]
    /\ UNCHANGED <<tableVars, sidOf, upRx, downRx, permit, chanVars, strmVars, reqVars>>

\* up_tx.send(Eof).await with both locks held; then both are released.
ttl_send_eof(o) ==
    /\ ttl[o] = "sending"
    /\ CanSend(victim)
    /\ upq' = Sent(victim, "eof")
    /\ ttl' = [ttl EXCEPT ![o] = "done"]
    /\ mapLock' = Free
    /\ victim' = NoObj
    /\ UNCHANGED <<sessions, sidOf, upRx, downRx, permit, downq, strmVars, reqVars>>

\* Mutant: the task ends after the 300 s without removing the entry.
ttl_lifetime_end_KeepsEntry(o) ==
    /\ ttl[o] = "lifetime"
    /\ mapLock = Free
    /\ ttl' = [ttl EXCEPT ![o] = "done"]
    /\ UNCHANGED <<tableVars, sidOf, upRx, downRx, permit, chanVars, strmVars, reqVars>>

\* The GET came: sleep 300 s, then remove the entry under this sid.
ttl_lifetime_end(o) ==
    /\ ttl[o] = "lifetime"
    /\ mapLock = Free
    /\ sessions' = [sessions EXCEPT ![sidOf[o]] = NoObj]
    /\ ttl' = [ttl EXCEPT ![o] = "done"]
    /\ UNCHANGED <<mapLock, victim, sidOf, upRx, downRx, permit, chanVars, strmVars, reqVars>>

-----------------------------------------------------------------------------
(* The node's accept loop, the relay over an XhttpStream and the response   *)
(* body.  The relay joins an uplink copy and a downlink copy; the stream is *)
(* dropped when both have ended ("downonly": the uplink copy has ended).    *)

accept ==
    /\ ready # <<>>
    /\ ready' = Tail(ready)
    /\ stream' = [stream EXCEPT ![Head(ready)] = "open"]
    /\ UNCHANGED <<tableVars, sessVars, chanVars, reqVars>>

\* The uplink copy ends: the stream goes on as "downonly", or is dropped.
UplinkEnds(o, q) ==
    IF stream[o] = "open"
    THEN /\ stream' = [stream EXCEPT ![o] = "downonly"]
         /\ upq' = [upq EXCEPT ![o] = q]
         /\ UNCHANGED upRx
    ELSE /\ stream' = [stream EXCEPT ![o] = "closed"]
         /\ upRx' = [upRx EXCEPT ![o] = "gone"]
         /\ upq' = [upq EXCEPT ![o] = <<>>]

Reading(o) == stream[o] \in {"open", "uponly"}

\* poll_read takes the next item of the uplink channel.
poll_read(o) ==
    /\ Reading(o)
    /\ upq[o] # <<>>
    /\ IF Head(upq[o]) = "eof"
       THEN UplinkEnds(o, Tail(upq[o]))
       ELSE upq' = [upq EXCEPT ![o] = Tail(@)] /\ UNCHANGED <<stream, upRx>>
    /\ UNCHANGED <<tableVars, sidOf, downRx, permit, ttl, downq, ready, reqVars>>

\* poll_read finds the channel empty and every sender gone.
poll_read_none(o) ==
    /\ Reading(o)
    /\ upq[o] = <<>>
    /\ ~UpTxAlive(o)
    /\ UplinkEnds(o, <<>>)
    /\ UNCHANGED <<tableVars, sidOf, downRx, permit, ttl, downq, ready, reqVars>>

\* The uplink copy fails writing to the remote.
relay_up_fails(o) ==
    /\ Reading(o)
    /\ UplinkEnds(o, upq[o])
    /\ UNCHANGED <<tableVars, sidOf, downRx, permit, ttl, downq, ready, reqVars>>

poll_write(o) ==
    /\ stream[o] \in {"open", "downonly"}
    /\ downRx[o] # "gone"
    /\ downq[o] < DownCap
    /\ downq' = [downq EXCEPT ![o] = @ + 1]
    /\ UNCHANGED <<tableVars, sessVars, upq, strmVars, reqVars>>

\* The remote ends, or poll_write reports BrokenPipe; poll_shutdown does nothing.
relay_down_ends(o) ==
    /\ stream[o] \in {"open", "downonly"}
    /\ IF stream[o] = "open"
       THEN stream' = [stream EXCEPT ![o] = "uponly"] /\ UNCHANGED <<upRx, upq>>
       ELSE /\ stream' = [stream EXCEPT ![o] = "closed"]
            /\ upRx' = [upRx EXCEPT ![o] = "gone"]
            /\ upq' = [upq EXCEPT ![o] = <<>>]
    /\ UNCHANGED <<tableVars, sidOf, downRx, permit, ttl, downq, ready, reqVars>>

\* ResponseBody::poll_frame hands hyper the next item.
poll_frame(o) ==
    /\ downRx[o] = "body"
    /\ downq[o] > 0
    /\ downq' = [downq EXCEPT ![o] = @ - 1]
    /\ UNCHANGED <<tableVars, sessVars, upq, strmVars, reqVars>>

\* The body ends when the channel is drained and the last down_tx is gone.
poll_frame_none(o) ==
    /\ downRx[o] = "body"
    /\ downq[o] = 0
    /\ ~DownTxAlive(o)
    /\ downRx' = [downRx EXCEPT ![o] = "gone"]
    /\ UNCHANGED <<tableVars, sidOf, upRx, permit, ttl, chanVars, strmVars, reqVars>>

\* The client goes away while the response streams: hyper drops the body.
body_dropped(o) ==
    /\ downRx[o] = "body"
    /\ downRx' = [downRx EXCEPT ![o] = "gone"]
    /\ downq' = [downq EXCEPT ![o] = 0]
    /\ UNCHANGED <<tableVars, sidOf, upRx, permit, ttl, upq, strmVars, reqVars>>

-----------------------------------------------------------------------------
HandlerStep(r) ==
    \/ get_or_create_session(r) \/ handle_get_one(r) \/ handle_get(r)
    \/ handle_get_conflict(r) \/ send_ready(r) \/ handle_post(r)
    \/ send_packet(r)

PumpStep(r) == pump_chunk(r) \/ pump_end(r) \/ pump_eof(r)

ClientStep(r) == handle_request(r) \/ Disconnect(r) \/ collect(r)

TtlStep(o) ==
    \/ ttl_get_arrived(o) \/ ttl_timeout(o) \/ ttl_remove(o)
    \/ ttl_lock_session(o) \/ ttl_send_eof(o) \/ ttl_lifetime_end(o)

StreamStep(o) ==
    \/ poll_read(o) \/ poll_read_none(o) \/ relay_up_fails(o) \/ poll_write(o)
    \/ relay_down_ends(o) \/ poll_frame(o) \/ poll_frame_none(o) \/ body_dropped(o)

Next ==
    \/ \E r \in Req : HandlerStep(r) \/ PumpStep(r) \/ ClientStep(r)
    \/ \E o \in Obj : TtlStep(o) \/ StreamStep(o)
    \/ accept

Spec == Init /\ [][Next]_vars

(***************************************************************************)
(* Fairness.  The runtime polls every task that can move (handlers, TTL    *)
(* tasks, the accept loop, a body pump with an Eof to send), timers fire,  *)
(* and tokio's mutexes and channels serve their waiters in order.  The     *)
(* relay reads the uplink while it is open; a remote that has got our FIN  *)
(* ends its side; a client reads its response or goes away.  Nothing is    *)
(* assumed of a client's requests and bodies.                              *)
(***************************************************************************)
Fairness ==
    /\ \A r \in Req : WF_vars(HandlerStep(r)) /\ WF_vars(pump_eof(r))
    /\ \A o \in Obj :
         /\ WF_vars(TtlStep(o))
         /\ WF_vars(poll_read(o) \/ poll_read_none(o))
         /\ WF_vars(stream[o] = "downonly" /\ relay_down_ends(o))
         /\ WF_vars(poll_frame(o) \/ poll_frame_none(o))
    /\ WF_vars(accept)

FairSpec == Spec /\ Fairness

-----------------------------------------------------------------------------
(* Properties                                                               *)

\* Every entry of the session table is owned by exactly one TTL task that is still
\* going to remove it, and it stands under the key that task will use
\* (get_or_create_session inserts and spawns in one critical section).
MappedHasTtl ==
    \A s \in Sid : sessions[s] # NoObj =>
        /\ sidOf[sessions[s]] = s
        /\ ttl[sessions[s]] \in {"armed", "expired", "lifetime"}

\* An entry that changes is removed, by a step of its own TTL task.
OwnRemoval ==
    \A s \in Sid : sessions[s] # NoObj /\ sessions'[s] # sessions[s] =>
        /\ sessions'[s] = NoObj
        /\ ttl[sessions[s]] \in {"expired", "lifetime"}
        /\ ttl'[sessions[s]] \in {"removed", "done"}

\* An entry leaves the table only by a step of its own TTL task: no task removes by
\* its sid a newer session that was created under the same sid.
TtlRemovesOnlyItsOwn == [][OwnRemoval]_vars

\* The two receivers of a channel pair are handed out together and have one owner at a
\* time: as long as they are in the session there is no stream on them (the second
\* CONFLICT branch of handle_get is dead), and while a GET waits with the stream it has
\* built no other GET has one on the same pair, and none is queued or being relayed.
ReceiversTogether ==
    /\ \A o \in Obj :
         /\ upRx[o] = "session" <=> downRx[o] = "session"
         /\ upRx[o] \in {"unused", "session"} => stream[o] = "none"
    /\ \A r \in Req : pc[r] = "ready" =>
         /\ stream[tgt[r]] = "handler"
         /\ \A i \in DOMAIN ready : ready[i] # tgt[r]
         /\ \A q \in Req : pc[q] = "ready" /\ tgt[q] = tgt[r] => q = r

\* The accept loop gets each logical connection once: the ready queue holds no stream
\* twice, and holds exactly the streams that were sent and not yet accepted.
ReadyOnce ==
    /\ \A i, j \in DOMAIN ready : ready[i] = ready[j] => i = j
    /\ \A o \in Obj : stream[o] = "queued" <=> \E i \in DOMAIN ready : ready[i] = o

\* The expiry branch waits for room in a channel whose receiver is inside the session
\* it has locked: nothing in the server can ever drain it.
Wedged ==
    /\ mapLock # Free
    /\ ttl[mapLock] = "sending"
    /\ upRx[victim] = "session"
    /\ Len(upq[victim]) >= UpCap

\* A handler that waits for the table, a session, the uplink channel or the ready
\* queue goes on, unless the expiry branch has wedged the server.
HandlersProgress ==
    \A r \in Req : pc[r] \in {"lookup", "have", "send", "ready"}
                      ~> (pc[r] \in {"collect", "done"} \/ Wedged)

\* The downlink response ends after its stream was dropped, although the session in
\* the table still owns a down_tx: the TTL task gives that one up in the end.
ResponseEnds ==
    \A o \in Obj : (stream[o] = "closed" /\ downRx[o] = "body")
                      ~> (downRx[o] = "gone" \/ Wedged)

\* A relay whose remote has ended gets its uplink EOF (poll_shutdown tells the client
\* nothing), unless a client still sends a body into that session.
RelayEnds ==
    \A o \in Obj : stream[o] = "uponly" ~>
        \/ stream[o] = "closed"
        \/ Wedged
        \/ \E r \in Req : tgt[r] = o /\ (pc[r] = "collect" \/ pump[r] = "body")

\* xhttp.rs:199 and 208: a session whose GET does not come within 30 s is cleaned up.
ExpiredSessionIsCleaned == \A o \in Obj : ttl[o] = "expired" ~> ttl[o] = "done"

\* xhttp.rs:359-360: up_tx stays in the session, so later POSTs still reach the stream
\* through the table.
LaterPostsReachTheStream ==
    \A o \in Obj : sidOf[o] # NoSid /\ Reading(o) => sessions[sidOf[o]] = o
=============================================================================
