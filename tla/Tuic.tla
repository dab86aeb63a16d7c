-------------------------------- MODULE Tuic --------------------------------
(***************************************************************************)
(* One TUIC connection (tuic/connection.rs): the accept loop, one task per *)
(* QUIC stream or datagram, the authentication state they share, the       *)
(* authentication watchdog, and the UDP associations with the task that    *)
(* listens on the sockets of each.                                         *)
(*                                                                         *)
(* A task stands for the stream or datagram it was spawned for.  The UDP   *)
(* session that a task creates is named by that task.                      *)
(***************************************************************************)
EXTENDS Naturals

CONSTANTS
    Clients,    \* bound: the commands a client sends, sets of Commands
    MaxTasks,   \* bound: streams and datagrams of the connection
    Uuid,       \* ids clients present
    Users,      \* ids of configured users
    Assoc,      \* UDP association ids
    NoUuid, NoAssoc,
    MaxReplies  \* bound: answers of the remotes of one session in the relay's hands

Kinds == {"authenticate", "packet_quic", "packet_native", "dissociate", "connect"}
Packets == {"packet_quic", "packet_native"}

\* A command, with the uuid of an Authenticate or the association of a Packet or a
\* Dissociate.
Commands ==
    {c \in [k : Kinds, u : Uuid \cup {NoUuid}, a : Assoc \cup {NoAssoc}] :
        /\ c.k = "authenticate" <=> c.u # NoUuid
        /\ c.k \in Packets \cup {"dissociate"} <=> c.a # NoAssoc}

ASSUME ConstAssumption ==
    /\ Clients \subseteq SUBSET Commands
    /\ MaxTasks \in Nat
    /\ Users \subseteq Uuid
    /\ NoUuid \notin Uuid
    /\ NoAssoc \notin Assoc
    /\ MaxReplies \in Nat

Task == 1..MaxTasks
NoTask == 0

VARIABLES
    client,     \* what this client sends, a member of Clients
    loop,       \* Connection::handle: "select" or "ended"
    closed,     \* the QUIC connection has a close reason
    watchdog,   \* "sleep", "close" or "done"
    uuid,       \* AuthInner.uuid
    is_authenticated,
    cmd,        \* the command of a task that has not ended
    pc,         \* where a task is
    woken,      \* its Notified future has been completed
    udp_mode,
    udp_sessions,
    assoc_id,   \* of a session
    listener,   \* task of a session: "none", "run" or "ended"
    close_sent, \* the session's oneshot has been sent
    replies,    \* relay_udp_to_client tasks spawned and not finished
    wire        \* ways in which answers have been sent to the client

authVars == <<uuid, is_authenticated>>
connVars == <<client, loop, closed, watchdog>>
taskVars == <<cmd, pc, woken>>
sessVars == <<udp_sessions, assoc_id, listener, close_sent>>
udpVars  == <<udp_mode, sessVars, replies, wire>>
vars == <<authVars, connVars, taskVars, udpVars>>

NoCmd == [k |-> "none", u |-> NoUuid, a |-> NoAssoc]

\* In auth.wait() inside the select.
Waiting == {"notified", "recheck", "await"}
\* Past the wait for authentication.
Admitted == {"body", "resolve", "session", "send", "dial", "copy"}

TypeOK ==
    /\ client \in Clients
    /\ loop \in {"select", "ended"}
    /\ closed \in BOOLEAN
    /\ watchdog \in {"sleep", "close", "done"}
    /\ uuid \in Uuid \cup {NoUuid}
    /\ is_authenticated \in BOOLEAN
    /\ cmd \in [Task -> Commands \cup {NoCmd}]
    /\ pc \in [Task -> {"idle", "parse", "gate", "validate", "token", "set_flag",
                        "notify", "remove", "done"} \cup Waiting \cup Admitted]
    /\ woken \in [Task -> BOOLEAN]
    /\ udp_mode \in {"none", "quic", "native"}
    /\ udp_sessions \in [Assoc -> Task \cup {NoTask}]
    /\ assoc_id \in [Task -> Assoc \cup {NoAssoc}]
    /\ listener \in [Task -> {"none", "run", "ended"}]
    /\ close_sent \in [Task -> BOOLEAN]
    /\ replies \in [Task -> 0..MaxReplies]
    /\ wire \subseteq {"quic", "native"}

Init ==
    /\ client \in Clients
    /\ loop = "select"
    /\ closed = FALSE
    /\ watchdog = "sleep"
    /\ uuid = NoUuid
    /\ is_authenticated = FALSE
    /\ cmd = [t \in Task |-> NoCmd]
    /\ pc = [t \in Task |-> "idle"]
    /\ woken = [t \in Task |-> FALSE]
    /\ udp_mode = "none"
    /\ udp_sessions = [a \in Assoc |-> NoTask]
    /\ assoc_id = [t \in Task |-> NoAssoc]
    /\ listener = [t \in Task |-> "none"]
    /\ close_sent = [t \in Task |-> FALSE]
    /\ replies = [t \in Task |-> 0]
    /\ wire = {}

Goto(t, from, to) == pc[t] = from /\ pc' = [pc EXCEPT ![t] = to]

\* The task ends and drops its locals.
Ends(t, from) ==
    /\ pc[t] \in from
    /\ pc' = [pc EXCEPT ![t] = "done"]
    /\ cmd' = [cmd EXCEPT ![t] = NoCmd]
    /\ woken' = [woken EXCEPT ![t] = FALSE]

-----------------------------------------------------------------------------
(* Connection::handle                                                       *)

\* The select accepts a stream or a datagram and spawns its task; then the loop looks
\* at close_reason.  Tasks are taken in order.
accept(t, c) ==
    /\ loop = "select"
    /\ c \in client
    /\ pc[t] = "idle" /\ \A s \in Task : s < t => pc[s] # "idle"
    /\ cmd' = [cmd EXCEPT ![t] = c]
    /\ pc' = [pc EXCEPT ![t] = IF c.k \in {"connect", "packet_native"} THEN "gate" ELSE "parse"]
    /\ loop' = IF closed THEN "ended" ELSE "select"
    /\ UNCHANGED <<authVars, client, closed, watchdog, woken, udpVars>>

\* accept_uni, accept_bi and read_datagram fail on a closed connection.
accept_fails ==
    /\ loop = "select"
    /\ closed
    /\ loop' = "ended"
    /\ UNCHANGED <<authVars, client, closed, watchdog, taskVars, udpVars>>

\* The peer closes the connection, or it is lost or idle for too long.
connection_lost ==
    /\ ~closed
    /\ closed' = TRUE
    /\ UNCHANGED <<authVars, client, loop, watchdog, taskVars, udpVars>>

\* Mutant: the watchdog looks at the state when it is spawned and again never.
watchdog_wakes_Gone ==
    /\ watchdog = "sleep"
    /\ watchdog' = "done"
    /\ UNCHANGED <<authVars, client, loop, closed, taskVars, udpVars>>

\* The watchdog's sleep is over.  Its check and its close are two steps: a task on
\* another thread may authenticate the connection in between.
watchdog_wakes ==
    /\ watchdog = "sleep"
    /\ watchdog' = IF is_authenticated THEN "done" ELSE "close"
    /\ UNCHANGED <<authVars, client, loop, closed, taskVars, udpVars>>

watchdog_closes ==
    /\ watchdog = "close"
    /\ watchdog' = "done"
    /\ closed' = TRUE
    /\ UNCHANGED <<authVars, client, loop, taskVars, udpVars>>

-----------------------------------------------------------------------------
(* handle_uni, handle_bi, handle_datagram                                   *)

\* A stream that ends early, carries no TUIC prefix, an unknown command or one that
\* does not belong on it, a datagram too short or a heart beat: the task ends.
parse_fails(t) ==
    /\ pc[t] = "gate" => cmd[t].k # "packet_quic"
    /\ Ends(t, {"parse", "gate", "body"})
    /\ UNCHANGED <<authVars, connVars, udpVars>>

\* handle_uni: the commands of a unidirectional stream.  Dissociate does not wait for
\* authentication.
handle_uni(t) ==
    /\ Goto(t, "parse", CASE cmd[t].k = "authenticate" -> "validate"
                          [] cmd[t].k = "dissociate" -> "remove"
                          [] OTHER -> "gate")
    /\ UNCHANGED <<authVars, connVars, cmd, woken, udpVars>>

\* The check before the select, and the first one of Authenticated::wait, which does
\* the same again.
gate(t) ==
    /\ Goto(t, "gate", IF is_authenticated THEN "body" ELSE "notified")
    /\ UNCHANGED <<authVars, connVars, cmd, woken, udpVars>>

\* Authenticated::wait makes its Notified future, ...
wait_notified(t) ==
    /\ Goto(t, "notified", "recheck")
    /\ UNCHANGED <<authVars, connVars, cmd, woken, udpVars>>

\* Mutant: the state is not looked at again once the future exists.
wait_recheck_Skipped(t) ==
    /\ Goto(t, "recheck", "await")
    /\ UNCHANGED <<authVars, connVars, cmd, woken, udpVars>>

\* ... looks again, ...
wait_recheck(t) ==
    /\ Goto(t, "recheck", IF is_authenticated THEN "body" ELSE "await")
    /\ woken' = [woken EXCEPT ![t] = @ /\ ~is_authenticated]
    /\ UNCHANGED <<authVars, connVars, cmd, udpVars>>

\* ... and awaits the future.
wait_woken(t) ==
    /\ woken[t]
    /\ Goto(t, "await", "body")
    /\ woken' = [woken EXCEPT ![t] = FALSE]
    /\ UNCHANGED <<authVars, connVars, cmd, udpVars>>

\* Mutant: a wait on a connection that has been closed has no time-out.
wait_timeout_OnlyOpen(t) ==
    /\ ~closed
    /\ Ends(t, {"await"})
    /\ UNCHANGED <<authVars, connVars, udpVars>>

\* The other branch of the select: auth_timeout has passed.
wait_timeout(t) ==
    /\ Ends(t, {"await"})
    /\ UNCHANGED <<authVars, connVars, udpVars>>

-----------------------------------------------------------------------------
(* handle_authenticate                                                      *)

\* The first thing it does: has the connection been authenticated already?
duplicate_authentication(t) ==
    /\ is_authenticated
    /\ Ends(t, {"validate"})
    /\ UNCHANGED <<authVars, connVars, udpVars>>

\* It has not been; by the time the token is judged, another task may have done it.
handle_authenticate(t) ==
    /\ ~is_authenticated
    /\ Goto(t, "validate", "token")
    /\ UNCHANGED <<authVars, connVars, cmd, woken, udpVars>>

\* Mutant: a uuid without a configured password is accepted.
token_valid_AnyUser(t) ==
    /\ Goto(t, "token", "set_flag")
    /\ uuid' = cmd[t].u
    /\ UNCHANGED <<is_authenticated, connVars, cmd, woken, udpVars>>

\* The user is configured and validate_token finds its token right.  Authenticated::set
\* writes the uuid, sets the flag and notifies, in three steps; several tasks may be in
\* here together, and a late one overwrites the uuid of a connection that another one
\* has authenticated.
token_valid(t) ==
    /\ cmd[t].u \in Users
    /\ Goto(t, "token", "set_flag")
    /\ uuid' = cmd[t].u
    /\ UNCHANGED <<is_authenticated, connVars, cmd, woken, udpVars>>

set_flag(t) ==
    /\ Goto(t, "set_flag", "notify")
    /\ is_authenticated' = TRUE
    /\ UNCHANGED <<uuid, connVars, cmd, woken, udpVars>>

\* notify_waiters completes every Notified made before the call, awaited already or not.
notify_waiters(t) ==
    /\ Goto(t, "notify", "done")
    /\ cmd' = [cmd EXCEPT ![t] = NoCmd]
    /\ woken' = [s \in Task |-> woken[s] \/ pc[s] \in {"recheck", "await"}]
    /\ UNCHANGED <<authVars, connVars, udpVars>>

\* An unknown user, or a token that is not the expected one: the connection is closed,
\* also if it has been authenticated in between.
token_invalid(t) ==
    /\ Ends(t, {"token"})
    /\ closed' = TRUE
    /\ UNCHANGED <<authVars, client, loop, watchdog, udpVars>>

-----------------------------------------------------------------------------
(* handle_packet_data                                                       *)

ModeOf(t) == IF cmd[t].k = "packet_quic" THEN "quic" ELSE "native"

\* Mutant: every packet sets the mode.
packet_mode_Overwritten(t) ==
    /\ cmd[t].k \in Packets
    /\ Goto(t, "body", "resolve")
    /\ udp_mode' = ModeOf(t)
    /\ UNCHANGED <<authVars, connVars, cmd, woken, sessVars, replies, wire>>

\* The packet has been read.  The first one sets the mode; later ones of the other
\* mode go on all the same.
packet_mode(t) ==
    /\ cmd[t].k \in Packets
    /\ Goto(t, "body", "resolve")
    /\ udp_mode' = IF udp_mode = "none" THEN ModeOf(t) ELSE udp_mode
    /\ UNCHANGED <<authVars, connVars, cmd, woken, sessVars, replies, wire>>

packet_resolved(t) ==
    /\ Goto(t, "resolve", "session")
    /\ UNCHANGED <<authVars, connVars, cmd, woken, udpVars>>

\* A fragment, a target that does not resolve, sockets that cannot be had.
packet_dropped(t) ==
    /\ pc[t] = "session" => udp_sessions[cmd[t].a] = NoTask
    /\ Ends(t, {"resolve", "session"})
    /\ UNCHANGED <<authVars, connVars, udpVars>>

\* With udp_sessions locked: the association has a session.
get_session(t) ==
    /\ Goto(t, "session", "send")
    /\ udp_sessions[cmd[t].a] # NoTask
    /\ UNCHANGED <<authVars, connVars, cmd, woken, udpVars>>

\* Mutant: the map is not looked at.
create_session_Always(t) ==
    /\ Goto(t, "session", "send")
    /\ udp_sessions' = [udp_sessions EXCEPT ![cmd[t].a] = t]
    /\ assoc_id' = [assoc_id EXCEPT ![t] = cmd[t].a]
    /\ listener' = [listener EXCEPT ![t] = "run"]
    /\ UNCHANGED <<authVars, connVars, cmd, woken, udp_mode, close_sent, replies, wire>>

\* With udp_sessions locked: UdpSession::new binds the sockets and spawns the listener,
\* and the session goes into the map.
create_session(t) ==
    /\ Goto(t, "session", "send")
    /\ udp_sessions[cmd[t].a] = NoTask
    /\ udp_sessions' = [udp_sessions EXCEPT ![cmd[t].a] = t]
    /\ assoc_id' = [assoc_id EXCEPT ![t] = cmd[t].a]
    /\ listener' = [listener EXCEPT ![t] = "run"]
    /\ UNCHANGED <<authVars, connVars, cmd, woken, udp_mode, close_sent, replies, wire>>

\* UdpSession::send, to the remote or into an error.
send_packet(t) ==
    /\ Ends(t, {"send"})
    /\ UNCHANGED <<authVars, connVars, udpVars>>

\* Mutant: the session is dropped without close(): its listener holds an Arc of it.
handle_dissociate_NoClose(t) ==
    /\ Ends(t, {"remove"})
    /\ udp_sessions' = [udp_sessions EXCEPT ![cmd[t].a] = NoTask]
    /\ UNCHANGED <<authVars, connVars, udp_mode, assoc_id, listener, close_sent, replies, wire>>

\* handle_dissociate: the guard of the map lives through the whole `if let`, so the
\* removal and UdpSession::close are one step for everyone who needs the map.
handle_dissociate(t) ==
    /\ Ends(t, {"remove"})
    /\ udp_sessions' = [udp_sessions EXCEPT ![cmd[t].a] = NoTask]
    /\ close_sent' = [o \in Task |-> close_sent[o] \/ o = udp_sessions[cmd[t].a]]
    /\ UNCHANGED <<authVars, connVars, udp_mode, assoc_id, listener, replies, wire>>

-----------------------------------------------------------------------------
(* handle_connect                                                           *)

read_connect(t) ==
    /\ cmd[t].k = "connect"
    /\ Goto(t, "body", "dial")
    /\ UNCHANGED <<authVars, connVars, cmd, woken, udpVars>>

\* dial_tcp: one of the target's addresses accepts.
dial_tcp(t) ==
    /\ Goto(t, "dial", "copy")
    /\ UNCHANGED <<authVars, connVars, cmd, woken, udpVars>>

\* No address accepts and the stream is reset; or one direction of the copy ends and
\* the other is dropped.
connect_ends(t) ==
    /\ Ends(t, {"dial", "copy"})
    /\ UNCHANGED <<authVars, connVars, udpVars>>

-----------------------------------------------------------------------------
(* The listening task of session o                                          *)

\* A remote answers: a task is spawned that relays the answer.
recv(o) ==
    /\ listener[o] = "run"
    /\ replies[o] < MaxReplies
    /\ replies' = [replies EXCEPT ![o] = @ + 1]
    /\ UNCHANGED <<authVars, connVars, taskVars, udp_mode, sessVars, wire>>

\* No answer for udp_timeout.  The session stays in udp_sessions.
session_timeout(o) ==
    /\ listener[o] = "run"
    /\ listener' = [listener EXCEPT ![o] = "ended"]
    /\ UNCHANGED <<authVars, connVars, taskVars, udp_mode, udp_sessions, assoc_id, close_sent,
                   replies, wire>>

\* The oneshot.  Its sender lives in the session, which the listener itself keeps
\* alive: only close() can complete it.
session_closed(o) ==
    /\ listener[o] = "run"
    /\ close_sent[o]
    /\ listener' = [listener EXCEPT ![o] = "ended"]
    /\ UNCHANGED <<authVars, connVars, taskVars, udp_mode, udp_sessions, assoc_id, close_sent,
                   replies, wire>>

\* Mutant: an answer is relayed again after its task has finished.
relay_udp_to_client_Again(o) ==
    /\ listener[o] = "run"
    /\ replies' = [replies EXCEPT ![o] = @ - 1]
    /\ wire' = IF closed THEN wire
               ELSE wire \cup {IF udp_mode = "quic" THEN "quic" ELSE "native"}
    /\ UNCHANGED <<authVars, connVars, taskVars, udp_mode, sessVars>>

\* The mode decides between a datagram and a unidirectional stream; on a closed
\* connection both fail.
relay_udp_to_client(o) ==
    /\ replies[o] > 0
    /\ replies' = [replies EXCEPT ![o] = @ - 1]
    /\ wire' = IF closed THEN wire
               ELSE wire \cup {IF udp_mode = "quic" THEN "quic" ELSE "native"}
    /\ UNCHANGED <<authVars, connVars, taskVars, udp_mode, sessVars>>

-----------------------------------------------------------------------------
WaitStep(t) ==
    \/ gate(t)
    \/ wait_notified(t)
    \/ wait_recheck(t)
    \/ wait_woken(t)
    \/ wait_timeout(t)

AuthStep(t) ==
    \/ duplicate_authentication(t)
    \/ handle_authenticate(t)
    \/ token_valid(t)
    \/ token_invalid(t)
    \/ set_flag(t)
    \/ notify_waiters(t)

PacketStep(t) ==
    \/ packet_mode(t)
    \/ packet_dropped(t)
    \/ packet_resolved(t)
    \/ get_session(t)
    \/ create_session(t)
    \/ send_packet(t)

TaskStep(t) ==
    \/ parse_fails(t)
    \/ handle_uni(t)
    \/ WaitStep(t)
    \/ AuthStep(t)
    \/ PacketStep(t)
    \/ handle_dissociate(t)
    \/ read_connect(t)
    \/ dial_tcp(t)
    \/ connect_ends(t)

Listen(o) ==
    \/ recv(o)
    \/ session_timeout(o)
    \/ session_closed(o)
    \/ relay_udp_to_client(o)

Next ==
    \/ \E t \in Task, c \in Commands : accept(t, c)
    \/ accept_fails
    \/ connection_lost
    \/ watchdog_wakes
    \/ watchdog_closes
    \/ \E t \in Task : TaskStep(t)
    \/ \E o \in Task : Listen(o)

Spec == Init /\ [][Next]_vars

\* The runtime polls every task that can move and its timers fire.  Nothing is assumed
\* of the client, of targets or of remotes, and no idle time-out of a UDP session is
\* assumed: remotes that keep answering keep it from firing.
Fairness ==
    /\ WF_vars(watchdog_wakes \/ watchdog_closes)
    /\ \A t \in Task :
         /\ WF_vars(WaitStep(t) \/ AuthStep(t) \/ handle_dissociate(t))
         /\ WF_vars(session_closed(t))

FairSpec == Spec /\ Fairness

-----------------------------------------------------------------------------
(* Properties                                                               *)

\* No command that relays anything gets past the wait before a configured user has
\* been accepted, although waiting tasks, time-outs, the judging of tokens and the three
\* steps of set run on different threads; and whoever sees the flag finds a configured
\* user, although several Authenticates write the uuid, one of them perhaps late.
AuthorisedOnly ==
    /\ is_authenticated => uuid \in Users
    /\ \A t \in Task :
         /\ pc[t] \in Admitted => is_authenticated
         /\ listener[t] # "none" => is_authenticated

\* No wake-up is lost between the check and the await of Authenticated::wait: once the
\* flag is set and nobody is about to notify, a task that awaits has been woken.
NoLostWakeup ==
    is_authenticated /\ (\A t \in Task : pc[t] # "notify") =>
        \A t \in Task : pc[t] = "await" => woken[t]

\* Every UDP session is either the one under its association or has been told to close,
\* never both and never neither: no listener is left without anyone to end it, and no
\* packet is sent through a session that has been dissociated before the packet asked
\* for one.  (A session that timed out still is in the map.)
SessionAccounted ==
    \A o \in Task : listener[o] # "none" =>
        (udp_sessions[assoc_id[o]] = o <=> ~close_sent[o])

\* All answers take the way of the connection's first packet, whatever mode later
\* packets come in, and none is sent before there is a mode.
ReplyMode == wire \subseteq {udp_mode}

\* A connection is authenticated within auth_timeout or closed.
AuthOrClosed == <>(is_authenticated \/ closed)

\* A task that waits for authentication goes on or ends, also if the connection is
\* closed under it.
WaitersLeave == \A t \in Task : pc[t] \in Waiting ~> pc[t] \notin Waiting

\* The listener of a dissociated session ends without any help of its idle time-out,
\* even if remotes keep answering.
DissociatedEnds ==
    \A o \in Task :
        (listener[o] = "run" /\ udp_sessions[assoc_id[o]] # o) ~> listener[o] = "ended"
=============================================================================
