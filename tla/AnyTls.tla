------------------------------- MODULE AnyTls -------------------------------
(***************************************************************************)
(* An AnyTLS server session (anytls/session.rs) and the stream handlers it *)
(* spawns (anytls/server.rs): one read loop that demultiplexes the         *)
(* client's frames, one writer task behind a bounded channel, and for each *)
(* stream a handler that reads the target, dials it and joins an uplink    *)
(* and a downlink that share the StreamConn behind a mutex.                *)
(***************************************************************************)
EXTENDS Naturals, Sequences, FiniteSets

CONSTANTS
    Sid,        \* stream ids
    MaxStreams, \* bound: SYNs in one session; StreamConns are numbered
    Envs,       \* bound: what a client and its remotes may do, sets of EnvChoices
    RxCap,      \* capacity of a stream's channel (64 in the code)
    WriteCap    \* capacity of the writer channel (256 in the code)

\* A client announces version 1 or 2, repeats its SETTINGS, opens more than one stream,
\* sends heart beats, sends a PSH of length 0, sends payload behind the address in one
\* frame; a remote sends more than one piece of data; the client's connection breaks
\* under the writer.
EnvChoices == {"v1", "v2", "again", "second", "heart", "empty", "tail", "more", "broken"}

ASSUME CapAssumption ==
    /\ RxCap \in Nat \ {0}
    /\ WriteCap \in Nat \ {0}
    /\ MaxStreams \in Nat
    /\ Envs \subseteq SUBSET EnvChoices

Obj == 1..MaxStreams
NoObj == 0

VARIABLES
    env,        \* what this client and its remotes may do, a member of Envs
    streams,    \* the read loop's table: stream id -> sender of a stream
    settings,   \* received_settings
    version,    \* peer_version: 1 or 2
    rl,         \* read loop: "read", "write", "deliver", "drain" or "ended"
    outbox,     \* frames the read loop still has to put into the writer channel
    after,      \* what it does then: "read", "spawn" or "stop"
    cur,        \* the stream it is opening or delivering to
    item,       \* what it is delivering
    wq,         \* the writer channel
    writer,     \* "up" or "dead"
    rxq,        \* a StreamConn's channel: "data", "empty" (a PSH of length 0) or "fin"
    buf,        \* StreamConn.buf is not empty
    st,         \* its handler: "none", "syn", "addr", "dial", "relay" or "done"
    up, dn,     \* the uplink and the downlink of the relay
    lockq       \* the mutex around the StreamConn: holder first, then waiters

loopVars  == <<streams, settings, version, rl, outbox, after, cur, item>>
writeVars == <<wq, writer>>
connVars  == <<rxq, buf>>
taskVars  == <<st, up, dn, lockq>>
vars == <<env, loopVars, writeVars, connVars, taskVars>>

\* Frames of the session itself (padding update, server settings, alert, heart beat)
\* are all "ctl": only their place in the writer channel matters.
Frames == [cmd : {"synack", "psh", "fin"}, o : Obj]
            \cup {[cmd |-> "ctl", o |-> NoObj]}

TypeOK ==
    /\ env \in Envs
    /\ streams \in [Sid -> Obj \cup {NoObj}]
    /\ settings \in BOOLEAN
    /\ version \in {1, 2}
    /\ rl \in {"read", "write", "deliver", "drain", "ended"}
    /\ outbox \in Seq(Frames)
    /\ after \in {"read", "spawn", "stop"}
    /\ cur \in Obj \cup {NoObj}
    /\ item \in {"data", "empty", "fin"}
    /\ wq \in Seq(Frames) /\ Len(wq) <= WriteCap
    /\ writer \in {"up", "dead"}
    /\ rxq \in [Obj -> Seq({"data", "empty", "fin"})]
    /\ \A o \in Obj : Len(rxq[o]) <= RxCap
    /\ buf \in [Obj -> BOOLEAN]
    /\ st \in [Obj -> {"none", "syn", "addr", "dial", "relay", "done"}]
    /\ up \in [Obj -> {"off", "read", "write", "done"}]
    /\ dn \in [Obj -> {"off", "recv", "last", "send", "close", "done"}]
    /\ lockq \in [Obj -> Seq({"up", "dn"})]

Init ==
    /\ env \in Envs
    /\ streams = [s \in Sid |-> NoObj]
    /\ settings = FALSE
    /\ version = 1
    /\ rl = "read"
    /\ outbox = <<>>
    /\ after = "read"
    /\ cur = NoObj
    /\ item = "data"
    /\ wq = <<>>
    /\ writer = "up"
    /\ rxq = [o \in Obj |-> <<>>]
    /\ buf = [o \in Obj |-> FALSE]
    /\ st = [o \in Obj |-> "none"]
    /\ up = [o \in Obj |-> "off"]
    /\ dn = [o \in Obj |-> "off"]
    /\ lockq = [o \in Obj |-> <<>>]

-----------------------------------------------------------------------------
Frame(c, o) == [cmd |-> c, o |-> o]
Ctl == Frame("ctl", NoObj)

\* The StreamConn, and with it the stream's receiver, lives as long as its handler.
RxAlive(o) == st[o] \in {"syn", "addr", "dial", "relay"}

\* Mutant: the StreamConn keeps a clone of its own sender.
TxAlive_SelfReference(o) == RxAlive(o)

\* The stream's sender is in the table, or in the read loop's hands.
TxAlive(o) ==
    \/ \E s \in Sid : streams[s] = o
    \/ rl \in {"deliver", "drain"} /\ cur = o

\* mpsc send: there is room, or the receiver is gone and it fails at once.
CanWrite == writer = "dead" \/ Len(wq) < WriteCap
Written(f) == IF writer = "dead" THEN wq ELSE Append(wq, f)
CanDeliver(o) == ~RxAlive(o) \/ Len(rxq[o]) < RxCap
Delivered(o, i) == IF RxAlive(o) THEN [rxq EXCEPT ![o] = Append(@, i)] ELSE rxq

-----------------------------------------------------------------------------
(* The read loop, one action per command.  WASTE, HEART_RESPONSE, unknown   *)
(* commands, and PSH or FIN for an unknown stream change nothing.           *)

\* Put frames fs into the writer channel, then do `next`.
WriteThen(fs, next) ==
    /\ rl' = IF fs = <<>> THEN "read" ELSE "write"
    /\ outbox' = fs
    /\ after' = IF fs = <<>> THEN "read" ELSE next

\* SETTINGS: version, padding update on an md5 mismatch, reply to a v2 client.
cmd_settings(v, mismatch) ==
    /\ rl = "read"
    /\ settings' = TRUE
    /\ version' = v
    /\ WriteThen((IF mismatch THEN <<Ctl>> ELSE <<>>)
                   \o (IF v >= 2 THEN <<Ctl>> ELSE <<>>), "read")
    /\ UNCHANGED <<env, streams, cur, item, writeVars, connVars, taskVars>>

\* SYN before SETTINGS: alert and leave the loop.
cmd_syn_refused ==
    /\ rl = "read"
    /\ ~settings
    /\ WriteThen(<<Ctl>>, "stop")
    /\ UNCHANGED <<env, streams, settings, version, cur, item, writeVars, connVars, taskVars>>

\* Mutant: the handler is spawned before the SYNACK is written.
cmd_syn_SpawnFirst(s, o) ==
    /\ rl = "read"
    /\ settings
    /\ st[o] = "none" /\ \A p \in Obj : p < o => st[p] # "none"
    /\ streams' = [streams EXCEPT ![s] = o]
    /\ st' = [st EXCEPT ![o] = "addr"]
    /\ IF version >= 2
       THEN WriteThen(<<Frame("synack", o)>>, "read")
       ELSE UNCHANGED <<rl, outbox, after>>
    /\ UNCHANGED <<env, settings, version, cur, item, writeVars, rxq, buf, up, dn, lockq>>

\* SYN: the entry is inserted (an older stream under this id loses its sender), a v2
\* client gets its SYNACK, and only then the handler is spawned.
cmd_syn(s, o) ==
    /\ rl = "read"
    /\ settings
    /\ st[o] = "none" /\ \A p \in Obj : p < o => st[p] # "none"
    /\ streams' = [streams EXCEPT ![s] = o]
    /\ IF version >= 2
       THEN /\ WriteThen(<<Frame("synack", o)>>, "spawn")
            /\ cur' = o
            /\ st' = [st EXCEPT ![o] = "syn"]
       ELSE /\ st' = [st EXCEPT ![o] = "addr"]
            /\ UNCHANGED <<rl, outbox, after, cur>>
    /\ UNCHANGED <<env, settings, version, item, writeVars, rxq, buf, up, dn, lockq>>

\* PSH for a known stream; the loop waits until the stream has room.
cmd_psh(s, i) ==
    /\ rl = "read"
    /\ streams[s] # NoObj
    /\ rl' = "deliver"
    /\ cur' = streams[s]
    /\ item' = i
    /\ UNCHANGED <<env, streams, settings, version, outbox, after, writeVars, connVars, taskVars>>

\* Mutant: FIN looks the stream up and leaves the entry in the table.
cmd_fin_KeepsEntry(s) ==
    /\ rl = "read"
    /\ streams[s] # NoObj
    /\ rl' = "deliver"
    /\ cur' = streams[s]
    /\ item' = "fin"
    /\ UNCHANGED <<env, streams, settings, version, outbox, after, writeVars, connVars, taskVars>>

\* FIN for a known stream: the entry goes first, then EOF is sent.
cmd_fin(s) ==
    /\ rl = "read"
    /\ streams[s] # NoObj
    /\ streams' = [streams EXCEPT ![s] = NoObj]
    /\ rl' = "deliver"
    /\ cur' = streams[s]
    /\ item' = "fin"
    /\ UNCHANGED <<env, settings, version, outbox, after, writeVars, connVars, taskVars>>

cmd_heart_request ==
    /\ rl = "read"
    /\ WriteThen(<<Ctl>>, "read")
    /\ UNCHANGED <<env, streams, settings, version, cur, item, writeVars, connVars, taskVars>>

\* ALERT, end of input or a read error: leave the loop.
cmd_stop ==
    /\ rl = "read"
    /\ rl' = "drain"
    /\ cur' = NoObj
    /\ UNCHANGED <<env, streams, settings, version, outbox, after, item, writeVars, connVars, taskVars>>

\* Mutant: the read loop does not wait for room in the writer channel.
loop_write_Unbounded ==
    /\ rl = "write"
    /\ wq' = Written(Head(outbox))
    /\ outbox' = Tail(outbox)
    /\ rl' = IF after = "stop" THEN "drain" ELSE "read"
    /\ after' = "read"
    /\ cur' = NoObj
    /\ st' = IF after = "spawn" THEN [st EXCEPT ![cur] = "addr"] ELSE st
    /\ UNCHANGED <<env, streams, settings, version, item, writer, connVars, up, dn, lockq>>

\* write_tx.send(frame).await
loop_write ==
    /\ rl = "write"
    /\ CanWrite
    /\ wq' = Written(Head(outbox))
    /\ outbox' = Tail(outbox)
    /\ IF Len(outbox) > 1
       THEN UNCHANGED <<rl, after, cur, st>>
       ELSE /\ rl' = IF after = "stop" THEN "drain" ELSE "read"
            /\ after' = "read"
            /\ cur' = NoObj
            /\ st' = IF after = "spawn" THEN [st EXCEPT ![cur] = "addr"] ELSE st
    /\ UNCHANGED <<env, streams, settings, version, item, writer, connVars, up, dn, lockq>>

\* tx.send(item).await; a PSH that fails removes the entry.
loop_deliver ==
    /\ rl = "deliver"
    /\ CanDeliver(cur)
    /\ rxq' = Delivered(cur, item)
    /\ streams' = IF RxAlive(cur) \/ item = "fin" THEN streams
                  ELSE [s \in Sid |-> IF streams[s] = cur THEN NoObj ELSE streams[s]]
    /\ rl' = "read"
    /\ cur' = NoObj
    /\ item' = "data"
    /\ UNCHANGED <<env, settings, version, outbox, after, writeVars, buf, taskVars>>

\* After the loop: take the next entry and send it EOF, one after the other.
drain_next(s) ==
    /\ rl = "drain" /\ cur = NoObj
    /\ streams[s] # NoObj
    /\ streams' = [streams EXCEPT ![s] = NoObj]
    /\ cur' = streams[s]
    /\ UNCHANGED <<env, settings, version, rl, outbox, after, item, writeVars, connVars, taskVars>>

drain_send ==
    /\ rl = "drain" /\ cur # NoObj
    /\ CanDeliver(cur)
    /\ rxq' = Delivered(cur, "fin")
    /\ cur' = NoObj
    /\ UNCHANGED <<env, streams, settings, version, rl, outbox, after, item, writeVars, buf, taskVars>>

drain_end ==
    /\ rl = "drain" /\ cur = NoObj
    /\ \A s \in Sid : streams[s] = NoObj
    /\ rl' = "ended"
    /\ UNCHANGED <<env, streams, settings, version, outbox, after, cur, item, writeVars, connVars, taskVars>>

-----------------------------------------------------------------------------
(* The writer task.                                                         *)

writer_write ==
    /\ writer = "up" /\ wq # <<>>
    /\ wq' = Tail(wq)
    /\ UNCHANGED <<env, writer, loopVars, connVars, taskVars>>

writer_fails ==
    /\ writer = "up" /\ wq # <<>>
    /\ writer' = "dead"
    /\ wq' = <<>>
    /\ UNCHANGED <<env, loopVars, connVars, taskVars>>

-----------------------------------------------------------------------------
(* handle_stream: read the target, dial it, relay.  StreamConn.read takes   *)
(* what is left in its buffer, then the next item of the channel; an empty  *)
(* item, FIN or not, and a channel without sender are the end of input.     *)

\* The handler returns (or fails) and drops its StreamConn.  It sends no frame.
Finish(o) ==
    /\ st' = [st EXCEPT ![o] = "done"]
    /\ rxq' = [rxq EXCEPT ![o] = <<>>]
    /\ buf' = [buf EXCEPT ![o] = FALSE]
    /\ up' = [up EXCEPT ![o] = "off"]
    /\ dn' = [dn EXCEPT ![o] = "off"]
    /\ lockq' = [lockq EXCEPT ![o] = <<>>]

\* The address may need more frames, and payload may follow it in the same frame.
read_socks5_addr(o) ==
    /\ st[o] = "addr"
    /\ rxq[o] # <<>> /\ Head(rxq[o]) = "data"
    /\ rxq' = [rxq EXCEPT ![o] = Tail(@)]
    /\ \E complete, more \in BOOLEAN :
         /\ more => complete /\ "tail" \in env
         /\ st' = [st EXCEPT ![o] = IF complete THEN "dial" ELSE @]
         /\ buf' = [buf EXCEPT ![o] = more]
    /\ UNCHANGED <<env, loopVars, writeVars, up, dn, lockq>>

\* The input ends within the address, or the address is malformed.
read_socks5_addr_fails(o) ==
    /\ st[o] = "addr"
    /\ rxq[o] # <<>> \/ ~TxAlive(o)
    /\ Finish(o)
    /\ UNCHANGED <<env, loopVars, writeVars>>

\* TcpStream::connect answers; the uplink asks for the lock first (join! order).
connect(o) ==
    /\ st[o] = "dial"
    /\ st' = [st EXCEPT ![o] = "relay"]
    /\ up' = [up EXCEPT ![o] = "read"]
    /\ dn' = [dn EXCEPT ![o] = "recv"]
    /\ lockq' = [lockq EXCEPT ![o] = <<"up">>]
    /\ UNCHANGED <<env, loopVars, writeVars, connVars>>

\* It fails, or ten seconds pass.
connect_fails(o) ==
    /\ st[o] = "dial"
    /\ Finish(o)
    /\ UNCHANGED <<env, loopVars, writeVars>>

Holds(o, who) == lockq[o] # <<>> /\ Head(lockq[o]) = who

\* StreamConn.read under the lock returns data; the lock is released.
uplink_read(o) ==
    /\ up[o] = "read" /\ Holds(o, "up")
    /\ \/ /\ buf[o]
          /\ buf' = [buf EXCEPT ![o] = FALSE]
          /\ UNCHANGED rxq
       \/ /\ ~buf[o] /\ rxq[o] # <<>> /\ Head(rxq[o]) = "data"
          /\ rxq' = [rxq EXCEPT ![o] = Tail(@)]
          /\ UNCHANGED buf
    /\ up' = [up EXCEPT ![o] = "write"]
    /\ lockq' = [lockq EXCEPT ![o] = Tail(@)]
    /\ UNCHANGED <<env, loopVars, writeVars, st, dn>>

\* The uplink ends in state "done"; the join ends with the later of the two.
UplinkDone(o, q, l) ==
    IF dn[o] = "done"
    THEN Finish(o)
    ELSE /\ up' = [up EXCEPT ![o] = "done"]
         /\ rxq' = [rxq EXCEPT ![o] = q]
         /\ lockq' = [lockq EXCEPT ![o] = l]
         /\ UNCHANGED <<st, buf, dn>>

\* Mutant: the lock guard outlives the loop that it was taken in.
uplink_eof_KeepsLock(o) ==
    /\ up[o] = "read" /\ Holds(o, "up") /\ ~buf[o]
    /\ \/ /\ rxq[o] # <<>> /\ Head(rxq[o]) # "data"
          /\ UplinkDone(o, Tail(rxq[o]), lockq[o])
       \/ /\ rxq[o] = <<>> /\ ~TxAlive(o)
          /\ UplinkDone(o, <<>>, lockq[o])
    /\ UNCHANGED <<env, loopVars, writeVars>>

\* StreamConn.read returns 0.
uplink_eof(o) ==
    /\ up[o] = "read" /\ Holds(o, "up") /\ ~buf[o]
    /\ \/ /\ rxq[o] # <<>> /\ Head(rxq[o]) # "data"
          /\ UplinkDone(o, Tail(rxq[o]), Tail(lockq[o]))
       \/ /\ rxq[o] = <<>> /\ ~TxAlive(o)
          /\ UplinkDone(o, <<>>, Tail(lockq[o]))
    /\ UNCHANGED <<env, loopVars, writeVars>>

\* Mutant: the uplink copies one piece and does not ask for the lock again.
uplink_write_NoLoop(o) ==
    /\ up[o] = "write"
    /\ up' = [up EXCEPT ![o] = "read"]
    /\ UNCHANGED <<env, loopVars, writeVars, connVars, st, dn, lockq>>

\* write_all to the remote, then back to the lock's queue.
uplink_write(o) ==
    /\ up[o] = "write"
    /\ up' = [up EXCEPT ![o] = "read"]
    /\ lockq' = [lockq EXCEPT ![o] = Append(@, "up")]
    /\ UNCHANGED <<env, loopVars, writeVars, connVars, st, dn>>

uplink_write_fails(o) ==
    /\ up[o] = "write"
    /\ UplinkDone(o, rxq[o], lockq[o])
    /\ UNCHANGED <<env, loopVars, writeVars>>

\* The remote sent data: ask for the lock.
downlink_recv(o) ==
    /\ dn[o] = "recv"
    /\ dn' = [dn EXCEPT ![o] = "send"]
    /\ lockq' = [lockq EXCEPT ![o] = Append(@, "dn")]
    /\ UNCHANGED <<env, loopVars, writeVars, connVars, st, up>>

\* The remote ended: ask for the lock to send FIN.
downlink_recv_eof(o) ==
    /\ dn[o] \in {"recv", "last"}
    /\ dn' = [dn EXCEPT ![o] = "close"]
    /\ lockq' = [lockq EXCEPT ![o] = Append(@, "dn")]
    /\ UNCHANGED <<env, loopVars, writeVars, connVars, st, up>>

\* StreamConn.write under the lock; if the session is closed, go on to FIN.
downlink_send(o) ==
    /\ dn[o] = "send" /\ Holds(o, "dn")
    /\ CanWrite
    /\ wq' = Written(Frame("psh", o))
    /\ dn' = [dn EXCEPT ![o] = IF writer = "dead" THEN "close"
                                   ELSE IF "more" \in env THEN "recv" ELSE "last"]
    /\ lockq' = [lockq EXCEPT ![o] =
                   IF writer = "dead" THEN Append(Tail(@), "dn") ELSE Tail(@)]
    /\ UNCHANGED <<env, loopVars, writer, connVars, st, up>>

\* StreamConn.close under the lock.
downlink_close(o) ==
    /\ dn[o] = "close" /\ Holds(o, "dn")
    /\ CanWrite
    /\ wq' = Written(Frame("fin", o))
    /\ IF up[o] = "done"
       THEN Finish(o)
       ELSE /\ dn' = [dn EXCEPT ![o] = "done"]
            /\ lockq' = [lockq EXCEPT ![o] = Tail(@)]
            /\ UNCHANGED <<st, up, connVars>>
    /\ UNCHANGED <<env, loopVars, writer>>

-----------------------------------------------------------------------------
ClientFrame ==
    \/ \E v \in {1, 2}, mismatch \in BOOLEAN :
         /\ (IF v = 1 THEN "v1" ELSE "v2") \in env
         /\ settings => "again" \in env
         /\ cmd_settings(v, mismatch)
    \/ cmd_syn_refused
    \/ \E s \in Sid, o \in Obj : (o > 1 => "second" \in env) /\ cmd_syn(s, o)
    \/ \E s \in Sid, i \in {"data"} \cup (env \cap {"empty"}) : cmd_psh(s, i)
    \/ \E s \in Sid : cmd_fin(s)
    \/ "heart" \in env /\ cmd_heart_request
    \/ cmd_stop

LoopStep == loop_write \/ loop_deliver \/ (\E s \in Sid : drain_next(s)) \/ drain_send \/ drain_end

HandlerStep(o) ==
    \/ read_socks5_addr(o) \/ read_socks5_addr_fails(o)
    \/ connect(o) \/ connect_fails(o)

UplinkStep(o) ==
    \/ uplink_read(o) \/ uplink_eof(o) \/ uplink_write(o) \/ uplink_write_fails(o)

RemoteStep(o) == downlink_recv(o) \/ downlink_recv_eof(o)
DownlinkStep(o) == downlink_send(o) \/ downlink_close(o)

Next ==
    \/ ClientFrame \/ LoopStep \/ writer_write \/ ("broken" \in env /\ writer_fails)
    \/ \E o \in Obj : HandlerStep(o) \/ UplinkStep(o) \/ RemoteStep(o) \/ DownlinkStep(o)

Spec == Init /\ [][Next]_vars

(***************************************************************************)
(* Fairness.  Every task of the server that can move is polled, a dial     *)
(* ends within ten seconds, and the client's connection takes the writer's *)
(* frames or fails.  The writer channel serves waiting senders in order    *)
(* (tokio's semaphore is FIFO), hence the strong fairness of whoever sends *)
(* into it.  Nothing is assumed of a remote: it may leave the uplink's     *)
(* write_all waiting and need not end after our FIN, for handle_stream has *)
(* no time-out.  Nor need the client send anything.                        *)
(***************************************************************************)

Fairness ==
    /\ WF_vars(LoopStep) /\ SF_vars(loop_write)
    /\ WF_vars(writer_write \/ writer_fails)
    /\ \A o \in Obj :
         /\ WF_vars(HandlerStep(o) \/ uplink_read(o) \/ uplink_eof(o))
         /\ SF_vars(DownlinkStep(o))

FairSpec == Spec /\ Fairness

-----------------------------------------------------------------------------
(* Properties                                                               *)

\* Nothing follows a FIN in a stream's channel: the read loop takes the entry out
\* before it delivers the FIN, and a later SYN under the same id gets a channel of
\* its own.
FinIsLast ==
    \A o \in Obj :
        \A i \in DOMAIN rxq[o] : rxq[o][i] = "fin" =>
            /\ i = Len(rxq[o])
            /\ \A s \in Sid : streams[s] # o
            /\ ~(rl = "deliver" /\ cur = o)

\* A v2 client sees the SYNACK of a stream before any data of that stream, although
\* the read loop may wait for room in the writer channel with the stream already in
\* its table: the handler is spawned after the SYNACK has gone into the channel.
SynackFirst ==
    /\ \A i, j \in DOMAIN wq :
         wq[i].cmd \in {"psh", "fin"} /\ wq[j] = Frame("synack", wq[i].o) => j < i
    /\ rl = "write" /\ outbox[1].cmd = "synack" =>
         st[outbox[1].o] = "syn" /\ \A i \in DOMAIN wq : wq[i].o # outbox[1].o

\* Only the remote can end this relay: the uplink waits for it to take data, or the
\* uplink is over and the remote has not closed its side.
RemoteHolds(o) ==
    /\ st[o] = "relay"
    /\ up[o] = "write" \/ (up[o] = "done" /\ dn[o] \in {"recv", "last", "send"})

\* On top of that the stream's channel is full: whoever delivers to this stream waits
\* for that remote.
Stuck(o) == RemoteHolds(o) /\ Len(rxq[o]) = RxCap

\* The read loop gets back to its socket, unless the one stream it is delivering to has
\* a full channel that only its own remote can free: neither another stream nor the
\* writer channel holds it up for good.
ReadLoopProgress ==
    rl \in {"write", "deliver"} ~>
        (rl \in {"read", "drain", "ended"} \/ (rl = "deliver" /\ Stuck(cur)))

\* When the session is over, every stream handler ends but those whose remote holds
\* them: no handler waits for the client, for the lock of its StreamConn or for a frame
\* that cannot come any more.  The exception at the end is the drain loop itself, which
\* waits for room in a full channel (session.rs:278) and gives later streams no EOF.
SessionEndEndsStreams ==
    rl \in {"drain", "ended"} ~>
        \/ \A o \in Obj : st[o] \in {"none", "done"} \/ RemoteHolds(o)
        \/ rl = "drain" /\ cur # NoObj /\ Stuck(cur)

\* A stream that is no longer in the table (FIN, or its id taken by a later SYN) comes
\* to the end of its input, unless its remote does not take what the uplink writes.
UnmappedUplinkEnds ==
    \A o \in Obj : (st[o] = "relay" /\ \A s \in Sid : streams[s] # o)
                       ~> (up[o] \in {"write", "done"} \/ st[o] = "done")

\* The downlink waits for the StreamConn's lock no longer than the uplink sits idle in
\* its read: as soon as the client sends something, the downlink gets its turn.
DownlinkWaitsOnlyForIdleUplink ==
    \A o \in Obj : dn[o] \in {"send", "close"} ~>
        \/ dn[o] \notin {"send", "close"}
        \/ Holds(o, "up") /\ up[o] = "read" /\ ~buf[o] /\ rxq[o] = <<>>

\* server.rs:128: the two halves of the relay can be used concurrently, so data from
\* the remote reaches the writer whatever the uplink does.
DownlinkConcurrent == \A o \in Obj : dn[o] = "send" ~> dn[o] # "send"
=============================================================================
