# Formal models of ruproxy

ruproxy is a proxy server: `main.rs` reads a configuration, starts one task per
node, and each node speaks one proxy protocol over one transport. This
directory holds TLA+ models of the parts of it that keep state between two
awaits, the TLC configurations that check them, and TLAPS proofs.
`PROJECT.json` lists the components, the runs, the mutants, the source lines
each definition stands for, the findings, the hazards and the theorems.

## Inventory

| Part | State | Operations | Interacts with | What is hard | What makes it correct |
|---|---|---|---|---|---|
| XHTTP server (`common/transport/xhttp.rs`) | session table under a lock, two channels per session, ready queue | GET, POST (packet-up, stream-up), stream-one, TTL task per session | hyper calls the handlers; nodes call `accept` | handlers, TTL tasks and disconnects interleave; two locks; bounded channels; two time-outs | entries have an owner; a session has one reader; handlers and responses end |
| XHTTP stream (`XhttpStream::poll_read`, same file) | reordering heap, `next_seq`, two carry-over buffers, `eof` | `poll_read`, `poll_write` | POST handlers and body pumps feed it; the relay reads it | packets reordered and retried, small buffers, empty packets | the client's bytes once and in order |
| AnyTLS session (`anytls/session.rs`) | stream table, settings, version, writer channel | one per frame command; writer task | spawns a handler per stream | one read loop serves all streams through bounded channels; ids are reused | FIN is last, SYNACK is first, no stream stops the others |
| AnyTLS handler (`anytls/server.rs`) | one `StreamConn` behind a mutex | read address, dial, relay up, relay down | reads what the session delivers, writes to its writer | the two directions share one lock | both directions end; neither starves |
| TUIC (`tuic/`) | authentication state, UDP sessions | authenticate, connect, packet, dissociate, heart beat | QUIC streams and datagrams | commands wait for authentication; a watchdog; idle time-outs | nothing is relayed before authentication; associations are released |
| Hysteria2 (`hysteria2/`) | authentication, UDP session table, fragment buffers | HTTP/3 request, TCP stream, datagram, masquerade | QUIC; one task per stream, session and web request | sessions replaced while an old task cleans up; lost and reordered fragments, reused packet ids | nothing is proxied before authentication; datagrams are assembled from all their fragments; sessions end |
| WireGuard (`wireguard/`) | flows by five-tuple, sockets of a userspace stack, peers | packet in, data in, drain, evict, timers | receive loop, one actor per peer, relay tasks, bounded channels between them | late messages for evicted or reused sockets; channels that fill in a circle | a relay's data reaches its own flow only; no peer stops another |
| VMess, Shadowsocks | nonces and mask words of two directions | header, dial, response, read chunk, write chunk, end | relay | counters that wrap, two nonces per chunk, streams cut anywhere | both sides use the same nonce for the same chunk; a missing rest is noticed |
| SOCKS5, Trojan, VLESS headers | none across connections | parse, reply, relay | relay | truncated input | every refusal ends the connection |
| WebSocket transport | read buffer | `poll_read`, `poll_write` | nodes | partial frames | bytes once and in order |
| TLS, Reality, certificates, configuration, generator | none | set-up | - | cryptography, I/O | not modelled |

## Plan

1. `Xhttp`, `XhttpStream` with `UplinkAbs`, and their proofs: the only transport
   with state shared between connections. *Done.*
2. `AnyTls`: session and stream handlers, and its proofs. *Done.*
3. `Tuic`: authentication, its waiters and the watchdog, UDP associations with
   their time-outs, and its proofs. *Done.*
4. `Hysteria2`: authentication, session table and its clean-up, fragment
   assembly, TCP streams. *Done.*
5. `Wireguard`: receive loop, actor, relays and eviction. *Done.*
6. `ChunkStream`: nonces and framing of VMess and Shadowsocks connections. *Done.*
7. Proofs: every safety invariant and action property of the passing runs, and
   the refinement of `UplinkAbs`. *Done.*

## Modules

### `Xhttp`: sessions, handlers, TTL tasks

A step is the code between two awaits that can really wait. `sessions` is
`ServerInner.sessions`; an element of `Obj` stands for the channel pair that
`get_or_create_session` (or a stream-one GET) creates, and `upRx[o]`,
`downRx[o]` say where its two receivers are: in the session, in the GET handler
or the stream, or dropped. `stream[o]` follows the `XhttpStream` from the
handler through the ready queue into the node's relay, whose two copies are
joined (`vless/listener.rs`, `relay`), and `ttl[o]` is the state of the task
spawned with the session. A request `r` has a kind, the id in its path, a
program counter and, for streaming bodies, a spawned pump.

Whether a channel end is alive is computed, not stored: `SessionAlive`,
`UpTxAlive`, `UpRxAlive` and `DownTxAlive` list the owners of the `Arc`, of the
senders and of the receivers. `CanSend` and `Sent` are tokio's bounded channel:
a send waits for room and fails at once when the receiver is gone.

The table's lock and a session's lock are held across an await by one piece of
code only, the expiry branch of the TTL task (`ttl_remove`, `ttl_lock_session`,
`ttl_send_eof`); `mapLock` and `victim` record that. Everywhere else a critical
section lies within one step. `Disconnect` is hyper dropping a handler's future
at its await, with what the handler owned there.

Paths, headers and the payload are left out: a request is one of `Kinds`, an
item of a channel is `"data"` or `"eof"`.

### `XhttpStream` and `UplinkAbs`: the read side

A byte is its position in what the client sent. A buffer is a pair of
positions, and packet `q` carries `Off[q]+1 .. Off[q+1]`. The loop of
`poll_read` is split at its turns, since senders run on other threads. Each
branch of the loop is an action: `read_leftover`, `read_stream_buf`,
`read_heap`, `recv_none`, `recv_eof`, `recv_packet`, `recv_chunk`. The relay
stops at the first read of zero bytes, as `tokio::io::copy` does.

`UplinkAbs` is what the stream promises: pieces that continue where the last
one stopped, until an end. `UplinkInOrder` states the refinement.

### `AnyTls`: one session

`streams`, `settings`, `version` are the read loop's locals; `rl`, `outbox`,
`after`, `cur` and `item` say where it waits: in its socket, for the writer
channel, or for a stream's channel. `st`, `up`, `dn` are the handler of a
stream and the two halves of its relay, and `lockq` is the queue of the mutex
around the `StreamConn`, holder first (tokio's mutex is fair). Each frame
command is an action; `WASTE`, `HEART_RESPONSE`, unknown commands and frames
for unknown streams change nothing and have none.

### `Tuic`: one connection

A task stands for the stream or datagram it was spawned for; `cmd[t]` is its
command and `pc[t]` the place it has come to, both dropped when it ends. The
session that a task creates carries the task's name. A step is the code between
two accesses to state that tasks on other threads share, so `Authenticated::set`
(uuid, flag, notification), `Authenticated::wait` (check, make the future,
check, await), `handle_authenticate` (check, judge the token) and the watchdog
(check, close) are split: an Authenticate that has passed its check is judged
even if another one has set the flag since, and then overwrites the uuid or
closes the connection. `woken[t]` is tokio's
`Notified`: `notify_waiters` completes every future made before the call.
The guard in `handle_dissociate` lives through its `if let`, so removal and
`close()` are one step. Addresses, payloads and tokens are left out; a token is
right or wrong by choice, and right only for a configured user.

### `Hysteria2`: one connection

`phase` is `handle_connection`: it answers HTTP/3 requests until one
authenticates, then its two loops run. `datagram_loop` reads a frame, clones the
sender out of `session_map` and sends without the lock, so `read_datagram` and
`send_frame` are two steps; a session task (`st`, `rx`, `job`, `frag_table`)
drops its receiver (`session_ends`) before it removes the entry under its id
(`session_cleanup`). A frame is a packet and the number of a fragment, a
`FragBuffer` maps fragment numbers to the packet they came from, and `sent`
collects what went out, so a datagram mixed from two packets can be seen. A
frame that is never taken from `todo` is lost. `handle_tcp_stream` with its two
copies is per stream (`hs`, `t1`, `t2`, `out`).

`WholeDatagrams` holds for packet ids in one use at a time: when an id is reused
while fragments of the older packet are left over, `FragBuffer` counts both and
may send a mixture, which the property names (`Confusable`) and excludes.
`UnmappedOnlyByOlder` shows the same for the table: a session that still takes
frames loses its entry only to the late clean-up of an older session under its
id, and never to the loop, which also removes by id.

### `Wireguard`: receive loop and one stack

`recv_from` and `stack_send` are a turn of `run`'s receive loop, which waits for
room in a stack's channel. The forwarder and the ticker feed `actor_rx`; a turn
of the actor is the message (`inbound`, `tick`, `tcp_data`, `udp_reply`) and
then, one by one, the sends of its drains, each of which waits for room in a
relay's channel. Relays are tasks: a TCP relay dials, then copies both ways; a
UDP relay sends one datagram, waits a second for one answer, and passes it to
the actor. smoltcp's socket set is external: slots are reused, `get_mut` panics
on a free slot or on a socket of the other protocol (`"panicked"`), and a packet
goes to the first socket that accepts it. Peers other than the first have no
modelled stack, since `find_peer` takes every unknown address for the first
peer's. Its comment (`server.rs:263`) says that this is right with a single peer
only, although `config-example.toml` shows several; the theorem
`OthersNeverServed` says how far it goes: no other peer ever gets an endpoint or
a packet. No run asks for more.

### `ChunkStream`: one VMess or Shadowsocks connection

Both protocols are the same machine: header, dial, response header, two halves
that cut a stream into chunks. A piece on the wire carries the nonce that sealed
it and the words of the Shake128 stream that masked it; a reader that expects
others fails, as decryption would. Words of the Shake128 stream are their
positions, and padding is always there when it is asked for (its size may be
zero in the code, which only skips a read). A header is good or bad. The
client's two ends are external. They have definitions of their own
(`ClientNonces`, `ClientWords`), after the format the code documents: a sealed
length takes its nonce before the payload does, the padding its word before the
mask, and answers have the "same chunk format" as requests (`vmess/mod.rs:21`).
`ReadNonces` and `Words` are what `relay_up` and `AeadReader` do, `WriteNonces`
and `WriteWords` what `relay_down` and `AeadWriter` do, so `InStep` compares the
server with the client in both directions. A response header written after the
connection was cut may go into the buffer of the socket, and the relay starts.

`InStep` lets a reader fail to open a chunk in two formats: one with an unknown
security, of which nothing is sealed, and VMess answers with AUTH_LEN, which the
run `chunks_authlen` is about.

## Runs

| Run | Bounds | Shows |
|---|---|---|
| `xhttp` | one id, two channel pairs, two requests of any kind, capacities 1, one frame per body | the invariants and the liveness of the session table (155 thousand states) |
| `xhttp_wedge` | as above | violated: an expired session with a full channel is never cleaned up |
| `xhttp_lifetime` | as above | violated: a live connection loses its entry after 300 s |
| `xhttp_stream` | packets of 2, 1, 2 and 0 bytes, each posted up to twice, channel of 3, buffers of 1 and 2 bytes | refinement, genuine end, delivery (49 thousand states) |
| `anytls` | two ids, two streams, capacities 1; one stream with everything a client, its connection and a remote may do, or two streams with a version 2 client | `FinIsLast`, `SynackFirst`, liveness of read loop, streams and lock (133 thousand states) |
| `tuic` | three tasks of one of three clients: one user and one association, a configured and an unknown user that connect, two configured users | authorisation, sessions, wake-ups, reply mode, liveness of waiters, watchdog and dissociated listeners (213 thousand states) |
| `hysteria2` | four workloads: two packets with one packet id in one session, or in two sessions, or one of them unfragmented, and a web request with a stream and a packet; three session tasks, channels of 1 | authentication, fragments, session table, sessions end (157 thousand states) |
| `wireguard` | five workloads: two peers, two TCP clients, a TCP client that closes and resets, TCP and UDP, two UDP clients; two sockets, two relays, capacities 1 | flows own sockets, answers, when the actor gets stuck (189 thousand states) |
| `wireguard_block` | one UDP client with five datagrams, capacities 1 | violated: a full stack stops the receive loop for every peer |
| `chunks` | every option of a chunked body, four other formats; three chunks one way or one each way; counters wrap at 3 | `InStep` (1.2 million states) |
| `chunks_authlen` | as above | violated: with AUTH_LEN the client cannot open an answer |
| `anytls_lock` | one stream | violated: the downlink waits for a silent client |

Bounds and why they are enough. Capacity 1 makes "full" reachable with one
item, which is where senders start to wait. Two requests on one id are a GET
against a POST, two GETs, or two POSTs; two channel pairs are the old session
and the one that replaces it under the same id. One id suffices for the
table: entries under different ids meet only in the table's lock, which the
proofs cover for any number. In `xhttp_stream` four packets give a gap of two,
a packet larger than the buffer, a retry of a delivered packet and an empty
packet. `anytls` has two environments. One stream meets both versions, heart
beats, repeated settings, empty data frames, a connection that breaks and a
remote that sends more than once. Two streams give one that holds up another
and an id reused while its first stream runs; heart beats and repeated settings
would only add senders to the writer channel there.

In `tuic` one of the three tasks has to authenticate before the others get
anywhere. The first client then has two packets of both modes that race for the
session of its association, or a packet and a dissociation in either order; a
packet that opens the association again after its dissociation needs a fourth
task and is left to the proof. The second client's Authenticate of a user that is
not configured races one that is, before and after the flag is set, and its
Connect waits for either. The third has two Authenticates that both pass the
check, so that the uuid is written twice. `Workloads` (`hysteria2`, `wireguard`) are the sets of
messages one run of the system gets, in any order and with any of them lost:
each set is a conflict worth looking at, and their union would only multiply
the interleavings of messages that do not meet. Three session tasks are a
session, the one that replaces it and the one that replaces that. Two sockets
and two relays are a flow and the one that takes its slot, while the first one's
relay still runs; at most one tick is in the actor's channel, since a second one
finds nothing new. `Idling` is off in `wireguard_block`, which needs no
eviction. In `chunks` three chunks pass the wrap of a counter with one or with
two nonces per chunk.

Deadlock is not checked: a server whose clients have nothing more to send rests.

### Fairness

Weak fairness of a task's next step: tokio polls every task that can move and
its timers fire. For `Xhttp` this covers handlers, TTL tasks, the accept loop
and the relay's uplink copy; a remote that has got our FIN ends its side, and a
client reads its response or goes away. For `AnyTls` it covers the read loop
and its drain, the writer (the peer takes frames or the connection fails),
handlers (a dial ends within ten seconds) and the uplink's reads; whoever sends
into the writer channel has strong fairness, since tokio's semaphore serves
waiting senders in order. Nothing is assumed of a remote, for `handle_stream` has
no time-out: it may never take what the uplink writes and never end after our
FIN, and the liveness properties name the state this leaves (`RemoteHolds`). For `Tuic` it covers
waiting and authenticating tasks, the watchdog and the listener's close branch;
the idle time-out of a UDP session is not assumed to fire, since remotes that
keep answering prevent it. For `Hysteria2` it covers the loops, session tasks
(name look-ups end, and the 60 seconds of a session without frames pass) and the
end of `handle_connection` on a closed connection. For `Wireguard` it covers the
receive loop's send, the actor, dials and relays: remotes take what is written
to them, but need not answer. Senders that wait for room in the actor's channel
are served in order (tokio's semaphore is a queue), so the forwarder and the UDP
relays' answers have strong fairness. Nothing is
assumed of what clients send: a request, a body or a frame may never come.

### What the violations mean

* `xhttp_wedge`: `up_tx.send(Eof).await` runs with both locks held. If 64 items
  wait in the channel of a session without a GET, the send never completes and
  every later request waits for the table. `HandlersProgress`, `ResponseEnds`
  and `RelayEnds` name this state `Wedged` and show that it is the only one
  that stops them.
* `xhttp_lifetime`: the 300 s of the TTL task are counted from the GET, not
  from the end of the connection.
* `anytls_lock`: the uplink holds the mutex across its read.
  `DownlinkWaitsOnlyForIdleUplink` shows the exact extent: the downlink waits
  only while the uplink sits in a read with nothing to read.
* `wireguard_block`: a UDP relay with an answer waits for the actor's channel,
  the actor waits for the relay's channel, the forwarder for the actor's, and
  the receive loop for the stack's. `StuckOnlyWhenFull` shows the exact extent:
  a drain only stays stuck once the actor's own channel is full.
* `chunks_authlen`: with AUTH_LEN `relay_down` seals a payload with the first nonce
  and its length with the second, while `relay_up` opens the length with the
  first. Answers are not in the format of requests, and a client that reads them
  as such stops at the first length. `InStep` shows that this is the only format
  in which the two ends come apart.

## Proofs

`XhttpProofs` proves, for any sets of ids, channel pairs and requests and any
positive capacities, the type invariant, `MappedHasTtl`, `ReceiversTogether`,
`ReadyOnce` and the action property `TtlRemovesOnlyItsOwn`. The inductive
invariant `IInv` adds four facts. `Paired` is what a GET relies on when it finds the
receivers in the session: both are there and no stream is on them. With `HandlerOK`
it gives `ReceiversTogether`: the receivers leave together, and the GET that took
them is the only one with a stream on them. `TtlHasEntry` is the converse of
`MappedHasTtl` (a pending task's session still is the entry under its key):
without it a task could remove by its key an entry that is not its own.
`HandlerOK` says that a handler waiting for the ready queue is the only one
with its stream, and `FreshOK` that an unused channel pair has neither task nor
stream. One lemma per part shows that every action preserves it.

`XhttpStreamProofs` proves the type invariant, `EndIsGenuine` and the
refinement `Spec => UplinkInOrder` for any number and size of packets, any
capacity, any number of retries and any buffer size. The invariant is that
`leftover` always is the rest of the packets before `next_seq`
(`PacketOK`), respectively that `stream_buf` is the rest of the chunks received
and the channel holds the following chunks in order (`ChunkOK`); `PostedOK`
says that nothing is received that was not posted. Each reader then hands out
positions that start at `got + 1` (`Hands`), which is a step of `UplinkAbs`.

`TuicProofs` proves the type invariant, `AuthorisedOnly`, `NoLostWakeup`,
`SessionAccounted` and `ReplyMode` for any clients and any number of tasks, users
and associations. `AuthorisedOnly` covers the gap between the check of
`handle_authenticate` and the write of the uuid: any number of Authenticates may be
in it when one of them sets the flag. The inductive invariant adds `CommandOK` (a task's command fits
its place), `SetterOK` (the uuid is written before the flag is set, the flag is
set before anyone is notified or woken), `EntryOK` (the map's side of
`SessionAccounted`: an entry is a session of that association that has not been
told to close, and a task that has not come to its session has none) and
`ModeOK` (there is a mode from the first packet on). `SessionAccounted` alone is
not inductive: without `EntryOK` a dissociation could close a session of another
association.

`AnyTlsProofs` proves the type invariant, `FinIsLast` and `SynackFirst` for any
number of ids and streams, any capacities and any client. `FinIsLast` needs to
know whom the read loop delivers to: `TableOK` (a stream is in the table once,
and not before its SYN) and `DeliverOK` (a FIN is only delivered to a stream that
is out of the table, and the final drain only meets streams that have got none).
`SynackFirst` needs `OutboxOK` (what the loop has to write is frames of the
session, or the SYNACK of the one stream that waits for its handler) and
`QuietOK` (a stream without a handler has no frame in the writer channel, and
only a relay sends).

`Hysteria2Proofs` proves `OnlyAuthenticated`, `TableSound` and the action property
`UnmappedOnlyByOlder` for any traffic. The invariant adds `TasksOK` (tasks are
created in order), `NewestOK` (an entry is the newest session under its id, so
that whoever removes another one's entry is older) and `LoopOK` (while
`datagram_loop` sends to a session, its entry may be removed but is not replaced,
so that the loop's own removal only hits the session it failed to reach).

It also proves the type invariant and `WholeDatagrams`, for any packets, fragments,
order of arrival and number of sessions. What a session sends depends on everything
its fragments went through, so the invariant `FInv` follows a frame from the
connection to the fragment table. `FramesOK`: what is in the loop's hands, in a
session's channel or in its hands is of that session's id. `OnceOK`: a frame is in
one of these places only, so that a fragment is not counted twice. `BuffersOK`: a
buffer either holds fragments of a packet that shares its ids with another one (the
case `WholeDatagrams` excepts), or all of it is one packet, with that packet's total
and as many fragments as `received` says. A buffer that is complete by its count then
is complete (`SentOK`).

`WireguardProofs` proves the type invariant, `OthersNeverServed` and
`FlowsOwnSockets` for any peers, traffic, number of sockets and capacities.
`OthersNeverServed` (its formula, `OnlyFirstPeer`, is in the same module) rests
on the receive loop holding a packet for the first peer only: an address that is
not `NoAddr` can only be the first peer's endpoint, so `find_peer` returns the
first peer for every address.
`FlowsOwnSockets` is inductive
together with the types: a new flow takes a free slot, which no flow has
(`OwnNew`), smoltcp's treatment of a packet keeps a socket's protocol and
destination (`TakenFacts`, `InjectedFacts`), and an eviction frees only slots of
flows that go with it. For the type of what clients get, `RelayOK` and `Sound` say
that relays that deliver know their client.

`AnswersReachTheAsker` says that an answer goes to the client that asked and that the
actor does not panic, except through a relay that outlived its evicted flow and, for
UDP, through a socket that two clients share: slots are reused, and messages of a
relay may be taken long after its flow is gone. It needs `LinkOK`: a flow and the relay it has name each other, and a TCP socket of
such a flow is still connected to the client the relay was started for, or closed
(`Linked`; no packet leads a connected socket back to listening, `TakenKeeps`), and
relays and their messages are of their flow's protocol (`Kind`, `Right`).

`ChunkStreamProofs` proves the type invariant and `InStep` for any set of formats of
VMess and Shadowsocks, any number of chunks and any place where the connection is cut.
`InStep` speaks of the chunks sent and delivered and of how a reader stopped; whether
the next piece opens depends on the counters it was sealed with, and on all that the
wire holds before it. `OnTheWay` therefore says that the pieces on the wire lead,
position by position (`Pos`, `Fits`, `Way`), from where the reader is, with its nonce
counter and its Shake128 words, to where the writer is; a piece that is written makes
the run longer by one position, one that is read takes the first away. `FinOK` says that
the end of a stream comes last, `Numbered` that chunks are numbered as they are
sent and delivered in that order, and `StoppedOK` what a reader that has stopped has
seen: all of the stream, or a cut, or a chunk it cannot open. That the client, `relay_up`
and `relay_down` count alike is a lemma of its own (`NoncesOK`, `SameWords`).

What the models of TUIC also show: a session whose listener has timed out stays
in the map until it is dissociated, and packets sent through it get no answers
back; an authentication may be overwritten by a concurrent one, or its connection
closed by one that is refused; the watchdog may close a connection that was
authenticated between its check and its close.

Assumptions: capacities and buffer sizes are positive, offsets do not decrease,
the null values are not members of the sets they stand beside, WireGuard's
workloads consist of datagrams and Hysteria2's of its frames, requests and streams,
and the counters of `ChunkStream` have a modulus of at least 2 (the code's are 2^16
and 2^96): with 1 the next nonce would be the same nonce.

Only model-checked: liveness under fairness, which is out of the prover's reach
(`HandlersProgress`, `ResponseEnds`, `RelayEnds`, `EverythingDelivered`,
`ReadLoopProgress`, `SessionEndEndsStreams`, `UnmappedUplinkEnds`,
`DownlinkWaitsOnlyForIdleUplink`, `AuthOrClosed`, `WaitersLeave`, `DissociatedEnds`,
`SessionsEnd`, `StuckOnlyWhenFull`), and the five properties that the code violates.

## Not modelled

Cryptography and TLS (Reality, rustls, VMess and Shadowsocks ciphers and key
derivation), HTTP and QUIC libraries, smoltcp and boringtun, parsing of
configuration files, wall-clock durations (a timer may fire at any time it is
armed), logging, and the pages of Hysteria2's masquerade. WireGuard's encrypting
task and timer task only write to the outer socket. SOCKS5, Trojan, the VLESS
header and the WebSocket adapter are sequential code over one connection: their
relay is the join modelled in `Xhttp`, and what is left is parsing. `PROJECT.json` gives the reason for each component that has no
module. XHTTP's `poll_flush` and `poll_shutdown` do nothing and have no action.
