----------------------------- MODULE TuicProofs -----------------------------
(***************************************************************************)
(* Proofs about a TUIC connection: its types, AuthorisedOnly,              *)
(* NoLostWakeup, SessionAccounted and ReplyMode hold for any number of     *)
(* streams, datagrams, users and associations.                             *)
(***************************************************************************)
EXTENDS Tuic, TLAPS

\* A task's command fits the place it has come to.
CommandOK ==
    \A t \in Task :
        /\ pc[t] \in {"validate", "token"} => cmd[t].k = "authenticate"
        /\ pc[t] = "remove" => cmd[t].k = "dissociate"
        /\ pc[t] \in {"resolve", "session", "send"} => cmd[t].k \in Packets

\* Whoever is about to set the flag has written a configured user, whoever notifies
\* has set the flag, and only a notification wakes.
SetterOK ==
    \A t \in Task :
        /\ pc[t] = "set_flag" => uuid \in Users
        /\ pc[t] = "notify" => is_authenticated
        /\ woken[t] => is_authenticated

\* The map's side of SessionAccounted: an entry is a session of that association whose
\* oneshot has not been sent.  A task that has not created a session has none.
EntryOK ==
    /\ \A a \in Assoc : udp_sessions[a] # NoTask =>
         /\ listener[udp_sessions[a]] # "none"
         /\ assoc_id[udp_sessions[a]] = a
         /\ ~close_sent[udp_sessions[a]]
    /\ \A o \in Task :
         /\ listener[o] = "none" => ~close_sent[o]
         /\ listener[o] # "none" => pc[o] \in {"send", "done"} /\ assoc_id[o] \in Assoc

\* From a connection's first packet on there is a mode.
ModeOK ==
    \A t \in Task :
        /\ pc[t] \in {"resolve", "session", "send"} => udp_mode # "none"
        /\ listener[t] # "none" => udp_mode # "none"
        /\ replies[t] > 0 => listener[t] # "none"

IInv ==
    /\ TypeOK
    /\ CommandOK
    /\ SetterOK
    /\ AuthorisedOnly
    /\ NoLostWakeup
    /\ EntryOK
    /\ SessionAccounted
    /\ ModeOK
    /\ ReplyMode

USE DEF authVars, connVars, taskVars, sessVars, udpVars, Packets, Waiting, Admitted

\* A packet or dissociate command has an association, an authenticate command a uuid.
LEMMA CommandArgs ==
    ASSUME TypeOK, NEW t \in Task
    PROVE  /\ cmd[t].k \in Packets \cup {"dissociate"} => cmd[t].a \in Assoc
           /\ cmd[t].k = "authenticate" => cmd[t].u \in Uuid
           /\ NoCmd \in Commands \cup {NoCmd}
<1>1. cmd[t] \in Commands \/ cmd[t] = NoCmd
  BY DEF TypeOK
<1>2. CASE cmd[t] \in Commands
  <2>1. /\ cmd[t].k \in Kinds
        /\ cmd[t].u \in Uuid \cup {NoUuid}
        /\ cmd[t].a \in Assoc \cup {NoAssoc}
        /\ cmd[t].k = "authenticate" <=> cmd[t].u # NoUuid
        /\ cmd[t].k \in Packets \cup {"dissociate"} <=> cmd[t].a # NoAssoc
    BY <1>2 DEF Commands
  <2>2. QED
    BY <2>1
<1>3. CASE cmd[t] = NoCmd
  BY <1>3 DEF NoCmd
<1>4. QED
  BY <1>1, <1>2, <1>3

\* The value that stands for no task is not one.
LEMMA NoTaskIsNone == NoTask \notin Task
  BY ConstAssumption DEF NoTask, Task

\* Every step keeps the types.
LEMMA TypeStep == IInv /\ [Next]_vars => TypeOK'
<1>0. SUFFICES ASSUME IInv, [Next]_vars PROVE TypeOK'
  OBVIOUS
<1>1. ASSUME NEW t \in Task, NEW c \in Commands, accept(t, c) PROVE TypeOK'
  BY <1>0, <1>1, CommandArgs DEF IInv, TypeOK, accept
<1>2. CASE accept_fails
  BY <1>0, <1>2, CommandArgs DEF IInv, TypeOK, accept_fails
<1>3. CASE connection_lost
  BY <1>0, <1>3, CommandArgs DEF IInv, TypeOK, connection_lost
<1>4. CASE watchdog_wakes
  BY <1>0, <1>4, CommandArgs DEF IInv, TypeOK, watchdog_wakes
<1>5. CASE watchdog_closes
  BY <1>0, <1>5, CommandArgs DEF IInv, TypeOK, watchdog_closes
<1>6. ASSUME NEW t \in Task, parse_fails(t) PROVE TypeOK'
  BY <1>0, <1>6, CommandArgs DEF IInv, TypeOK, parse_fails, Ends
<1>7. ASSUME NEW t \in Task, handle_uni(t) PROVE TypeOK'
  BY <1>0, <1>7, CommandArgs DEF IInv, TypeOK, handle_uni, Goto
<1>8. ASSUME NEW t \in Task, gate(t) PROVE TypeOK'
  BY <1>0, <1>8, CommandArgs DEF IInv, TypeOK, gate, Goto
<1>9. ASSUME NEW t \in Task, wait_notified(t) PROVE TypeOK'
  BY <1>0, <1>9, CommandArgs DEF IInv, TypeOK, wait_notified, Goto
<1>10. ASSUME NEW t \in Task, wait_recheck(t) PROVE TypeOK'
  BY <1>0, <1>10, CommandArgs DEF IInv, TypeOK, wait_recheck, Goto
<1>11. ASSUME NEW t \in Task, wait_woken(t) PROVE TypeOK'
  BY <1>0, <1>11, CommandArgs DEF IInv, TypeOK, wait_woken, Goto
<1>12. ASSUME NEW t \in Task, wait_timeout(t) PROVE TypeOK'
  BY <1>0, <1>12, CommandArgs DEF IInv, TypeOK, wait_timeout, Ends
<1>13. ASSUME NEW t \in Task, duplicate_authentication(t) PROVE TypeOK'
  BY <1>0, <1>13, CommandArgs DEF IInv, TypeOK, duplicate_authentication, Ends
<1>14. ASSUME NEW t \in Task, token_valid(t) PROVE TypeOK'
  BY <1>0, <1>14, ConstAssumption DEF IInv, TypeOK, token_valid, Goto
<1>15. ASSUME NEW t \in Task, token_invalid(t) PROVE TypeOK'
  BY <1>0, <1>15, CommandArgs DEF IInv, TypeOK, token_invalid, Ends
<1>16. ASSUME NEW t \in Task, set_flag(t) PROVE TypeOK'
  BY <1>0, <1>16, CommandArgs DEF IInv, TypeOK, set_flag, Goto
<1>17. ASSUME NEW t \in Task, notify_waiters(t) PROVE TypeOK'
  BY <1>0, <1>17, CommandArgs DEF IInv, TypeOK, notify_waiters, Goto
<1>18. ASSUME NEW t \in Task, packet_mode(t) PROVE TypeOK'
  BY <1>0, <1>18, CommandArgs DEF IInv, TypeOK, packet_mode, Goto, ModeOf
<1>19. ASSUME NEW t \in Task, packet_dropped(t) PROVE TypeOK'
  BY <1>0, <1>19, CommandArgs DEF IInv, TypeOK, packet_dropped, Ends
<1>20. ASSUME NEW t \in Task, packet_resolved(t) PROVE TypeOK'
  BY <1>0, <1>20, CommandArgs DEF IInv, TypeOK, packet_resolved, Goto
<1>21. ASSUME NEW t \in Task, get_session(t) PROVE TypeOK'
  BY <1>0, <1>21, CommandArgs DEF IInv, TypeOK, get_session, Goto
<1>22. ASSUME NEW t \in Task, create_session(t) PROVE TypeOK'
  BY <1>0, <1>22, CommandArgs DEF IInv, TypeOK, CommandOK, create_session, Goto
<1>23. ASSUME NEW t \in Task, send_packet(t) PROVE TypeOK'
  BY <1>0, <1>23, CommandArgs DEF IInv, TypeOK, send_packet, Ends
<1>24. ASSUME NEW t \in Task, handle_dissociate(t) PROVE TypeOK'
  BY <1>0, <1>24, CommandArgs DEF IInv, TypeOK, handle_dissociate, Ends
<1>25. ASSUME NEW t \in Task, read_connect(t) PROVE TypeOK'
  BY <1>0, <1>25, CommandArgs DEF IInv, TypeOK, read_connect, Goto
<1>26. ASSUME NEW t \in Task, dial_tcp(t) PROVE TypeOK'
  BY <1>0, <1>26, CommandArgs DEF IInv, TypeOK, dial_tcp, Goto
<1>27. ASSUME NEW t \in Task, connect_ends(t) PROVE TypeOK'
  BY <1>0, <1>27, CommandArgs DEF IInv, TypeOK, connect_ends, Ends
<1>28. ASSUME NEW t \in Task, recv(t) PROVE TypeOK'
  <2>1. replies' \in [Task -> 0..MaxReplies]
    <3>1. replies \in [Task -> 0..MaxReplies] /\ replies[t] + 1 \in 0..MaxReplies
      BY <1>0, <1>28, ConstAssumption DEF IInv, TypeOK, recv
    <3>2. QED
      BY <3>1, <1>28 DEF recv
  <2>2. QED
    BY <1>0, <1>28, <2>1 DEF IInv, TypeOK, recv
<1>29. ASSUME NEW t \in Task, session_timeout(t) PROVE TypeOK'
  BY <1>0, <1>29, CommandArgs DEF IInv, TypeOK, session_timeout
<1>30. ASSUME NEW t \in Task, session_closed(t) PROVE TypeOK'
  BY <1>0, <1>30, CommandArgs DEF IInv, TypeOK, session_closed
<1>31. ASSUME NEW t \in Task, relay_udp_to_client(t) PROVE TypeOK'
  <2>1. replies' \in [Task -> 0..MaxReplies]
    <3>1. replies \in [Task -> 0..MaxReplies] /\ replies[t] - 1 \in 0..MaxReplies
      BY <1>0, <1>31, ConstAssumption DEF IInv, TypeOK, relay_udp_to_client
    <3>2. QED
      BY <3>1, <1>31 DEF relay_udp_to_client
  <2>2. wire' \subseteq {"quic", "native"}
    BY <1>0, <1>31 DEF IInv, TypeOK, relay_udp_to_client
  <2>3. QED
    BY <1>0, <1>31, <2>1, <2>2 DEF IInv, TypeOK, relay_udp_to_client
<1>32. CASE UNCHANGED vars
  BY <1>0, <1>32, CommandArgs DEF IInv, TypeOK, vars
<1>33. ASSUME NEW t \in Task, handle_authenticate(t) PROVE TypeOK'
  BY <1>0, <1>33, CommandArgs DEF IInv, TypeOK, handle_authenticate, Goto
<1>34. QED
  BY <1>0, <1>1, <1>2, <1>3, <1>4, <1>5, <1>6, <1>7, <1>8, <1>9, <1>10, <1>11,
     <1>12, <1>13, <1>14, <1>15, <1>16, <1>17, <1>18, <1>19, <1>20, <1>21, <1>22,
     <1>23, <1>24, <1>25, <1>26, <1>27, <1>28, <1>29, <1>30, <1>31, <1>32, <1>33 DEF Next,
     TaskStep, WaitStep, AuthStep, PacketStep, Listen

\* Every step keeps a command where it belongs.
LEMMA CommandStep == IInv /\ [Next]_vars => CommandOK'
<1>0. SUFFICES ASSUME IInv, [Next]_vars PROVE CommandOK'
  OBVIOUS
<1>1. ASSUME NEW t \in Task, NEW c \in Commands, accept(t, c) PROVE CommandOK'
  BY <1>0, <1>1 DEF IInv, TypeOK, CommandOK, accept
<1>2. CASE accept_fails
  BY <1>0, <1>2 DEF IInv, TypeOK, CommandOK, accept_fails
<1>3. CASE connection_lost
  BY <1>0, <1>3 DEF IInv, TypeOK, CommandOK, connection_lost
<1>4. CASE watchdog_wakes
  BY <1>0, <1>4 DEF IInv, TypeOK, CommandOK, watchdog_wakes
<1>5. CASE watchdog_closes
  BY <1>0, <1>5 DEF IInv, TypeOK, CommandOK, watchdog_closes
<1>6. ASSUME NEW t \in Task, parse_fails(t) PROVE CommandOK'
  BY <1>0, <1>6 DEF IInv, TypeOK, CommandOK, parse_fails, Ends
<1>7. ASSUME NEW t \in Task, handle_uni(t) PROVE CommandOK'
  BY <1>0, <1>7 DEF IInv, TypeOK, CommandOK, handle_uni, Goto
<1>8. ASSUME NEW t \in Task, gate(t) PROVE CommandOK'
  BY <1>0, <1>8 DEF IInv, TypeOK, CommandOK, gate, Goto
<1>9. ASSUME NEW t \in Task, wait_notified(t) PROVE CommandOK'
  BY <1>0, <1>9 DEF IInv, TypeOK, CommandOK, wait_notified, Goto
<1>10. ASSUME NEW t \in Task, wait_recheck(t) PROVE CommandOK'
  BY <1>0, <1>10 DEF IInv, TypeOK, CommandOK, wait_recheck, Goto
<1>11. ASSUME NEW t \in Task, wait_woken(t) PROVE CommandOK'
  BY <1>0, <1>11 DEF IInv, TypeOK, CommandOK, wait_woken, Goto
<1>12. ASSUME NEW t \in Task, wait_timeout(t) PROVE CommandOK'
  BY <1>0, <1>12 DEF IInv, TypeOK, CommandOK, wait_timeout, Ends
<1>13. ASSUME NEW t \in Task, duplicate_authentication(t) PROVE CommandOK'
  BY <1>0, <1>13 DEF IInv, TypeOK, CommandOK, duplicate_authentication, Ends
<1>14. ASSUME NEW t \in Task, token_valid(t) PROVE CommandOK'
  BY <1>0, <1>14 DEF IInv, TypeOK, CommandOK, token_valid, Goto
<1>15. ASSUME NEW t \in Task, token_invalid(t) PROVE CommandOK'
  BY <1>0, <1>15 DEF IInv, TypeOK, CommandOK, token_invalid, Ends
<1>16. ASSUME NEW t \in Task, set_flag(t) PROVE CommandOK'
  BY <1>0, <1>16 DEF IInv, TypeOK, CommandOK, set_flag, Goto
<1>17. ASSUME NEW t \in Task, notify_waiters(t) PROVE CommandOK'
  BY <1>0, <1>17 DEF IInv, TypeOK, CommandOK, notify_waiters, Goto
<1>18. ASSUME NEW t \in Task, packet_mode(t) PROVE CommandOK'
  BY <1>0, <1>18 DEF IInv, TypeOK, CommandOK, packet_mode, Goto
<1>19. ASSUME NEW t \in Task, packet_dropped(t) PROVE CommandOK'
  BY <1>0, <1>19 DEF IInv, TypeOK, CommandOK, packet_dropped, Ends
<1>20. ASSUME NEW t \in Task, packet_resolved(t) PROVE CommandOK'
  BY <1>0, <1>20 DEF IInv, TypeOK, CommandOK, packet_resolved, Goto
<1>21. ASSUME NEW t \in Task, get_session(t) PROVE CommandOK'
  BY <1>0, <1>21 DEF IInv, TypeOK, CommandOK, get_session, Goto
<1>22. ASSUME NEW t \in Task, create_session(t) PROVE CommandOK'
  BY <1>0, <1>22 DEF IInv, TypeOK, CommandOK, create_session, Goto
<1>23. ASSUME NEW t \in Task, send_packet(t) PROVE CommandOK'
  BY <1>0, <1>23 DEF IInv, TypeOK, CommandOK, send_packet, Ends
<1>24. ASSUME NEW t \in Task, handle_dissociate(t) PROVE CommandOK'
  BY <1>0, <1>24 DEF IInv, TypeOK, CommandOK, handle_dissociate, Ends
<1>25. ASSUME NEW t \in Task, read_connect(t) PROVE CommandOK'
  BY <1>0, <1>25 DEF IInv, TypeOK, CommandOK, read_connect, Goto
<1>26. ASSUME NEW t \in Task, dial_tcp(t) PROVE CommandOK'
  BY <1>0, <1>26 DEF IInv, TypeOK, CommandOK, dial_tcp, Goto
<1>27. ASSUME NEW t \in Task, connect_ends(t) PROVE CommandOK'
  BY <1>0, <1>27 DEF IInv, TypeOK, CommandOK, connect_ends, Ends
<1>28. ASSUME NEW t \in Task, recv(t) PROVE CommandOK'
  BY <1>0, <1>28 DEF IInv, TypeOK, CommandOK, recv
<1>29. ASSUME NEW t \in Task, session_timeout(t) PROVE CommandOK'
  BY <1>0, <1>29 DEF IInv, TypeOK, CommandOK, session_timeout
<1>30. ASSUME NEW t \in Task, session_closed(t) PROVE CommandOK'
  BY <1>0, <1>30 DEF IInv, TypeOK, CommandOK, session_closed
<1>31. ASSUME NEW t \in Task, relay_udp_to_client(t) PROVE CommandOK'
  BY <1>0, <1>31 DEF IInv, TypeOK, CommandOK, relay_udp_to_client
<1>32. CASE UNCHANGED vars
  BY <1>0, <1>32 DEF IInv, TypeOK, CommandOK, vars
<1>33. ASSUME NEW t \in Task, handle_authenticate(t) PROVE CommandOK'
  BY <1>0, <1>33 DEF IInv, TypeOK, CommandOK, handle_authenticate, Goto
<1>34. QED
  BY <1>0, <1>1, <1>2, <1>3, <1>4, <1>5, <1>6, <1>7, <1>8, <1>9, <1>10, <1>11,
     <1>12, <1>13, <1>14, <1>15, <1>16, <1>17, <1>18, <1>19, <1>20, <1>21, <1>22,
     <1>23, <1>24, <1>25, <1>26, <1>27, <1>28, <1>29, <1>30, <1>31, <1>32, <1>33 DEF Next,
     TaskStep, WaitStep, AuthStep, PacketStep, Listen

\* Every step keeps the order of Authenticated::set.
LEMMA SetterStep == IInv /\ [Next]_vars => SetterOK'
<1>0. SUFFICES ASSUME IInv, [Next]_vars PROVE SetterOK'
  OBVIOUS
<1>1. ASSUME NEW t \in Task, NEW c \in Commands, accept(t, c) PROVE SetterOK'
  BY <1>0, <1>1 DEF IInv, TypeOK, SetterOK, AuthorisedOnly, accept
<1>2. CASE accept_fails
  BY <1>0, <1>2 DEF IInv, TypeOK, SetterOK, AuthorisedOnly, accept_fails
<1>3. CASE connection_lost
  BY <1>0, <1>3 DEF IInv, TypeOK, SetterOK, AuthorisedOnly, connection_lost
<1>4. CASE watchdog_wakes
  BY <1>0, <1>4 DEF IInv, TypeOK, SetterOK, AuthorisedOnly, watchdog_wakes
<1>5. CASE watchdog_closes
  BY <1>0, <1>5 DEF IInv, TypeOK, SetterOK, AuthorisedOnly, watchdog_closes
<1>6. ASSUME NEW t \in Task, parse_fails(t) PROVE SetterOK'
  BY <1>0, <1>6 DEF IInv, TypeOK, SetterOK, AuthorisedOnly, parse_fails, Ends
<1>7. ASSUME NEW t \in Task, handle_uni(t) PROVE SetterOK'
  BY <1>0, <1>7 DEF IInv, TypeOK, SetterOK, AuthorisedOnly, handle_uni, Goto
<1>8. ASSUME NEW t \in Task, gate(t) PROVE SetterOK'
  BY <1>0, <1>8 DEF IInv, TypeOK, SetterOK, AuthorisedOnly, gate, Goto
<1>9. ASSUME NEW t \in Task, wait_notified(t) PROVE SetterOK'
  BY <1>0, <1>9 DEF IInv, TypeOK, SetterOK, AuthorisedOnly, wait_notified, Goto
<1>10. ASSUME NEW t \in Task, wait_recheck(t) PROVE SetterOK'
  BY <1>0, <1>10 DEF IInv, TypeOK, SetterOK, AuthorisedOnly, wait_recheck, Goto
<1>11. ASSUME NEW t \in Task, wait_woken(t) PROVE SetterOK'
  BY <1>0, <1>11 DEF IInv, TypeOK, SetterOK, AuthorisedOnly, wait_woken, Goto
<1>12. ASSUME NEW t \in Task, wait_timeout(t) PROVE SetterOK'
  BY <1>0, <1>12 DEF IInv, TypeOK, SetterOK, AuthorisedOnly, wait_timeout, Ends
<1>13. ASSUME NEW t \in Task, duplicate_authentication(t) PROVE SetterOK'
  BY <1>0, <1>13 DEF IInv, TypeOK, SetterOK, AuthorisedOnly, duplicate_authentication, Ends
<1>14. ASSUME NEW t \in Task, token_valid(t) PROVE SetterOK'
  BY <1>0, <1>14 DEF IInv, TypeOK, SetterOK, AuthorisedOnly, token_valid, Goto
<1>15. ASSUME NEW t \in Task, token_invalid(t) PROVE SetterOK'
  BY <1>0, <1>15 DEF IInv, TypeOK, SetterOK, AuthorisedOnly, token_invalid, Ends
<1>16. ASSUME NEW t \in Task, set_flag(t) PROVE SetterOK'
  BY <1>0, <1>16 DEF IInv, TypeOK, SetterOK, AuthorisedOnly, set_flag, Goto
<1>17. ASSUME NEW t \in Task, notify_waiters(t) PROVE SetterOK'
  BY <1>0, <1>17 DEF IInv, TypeOK, SetterOK, AuthorisedOnly, notify_waiters, Goto
<1>18. ASSUME NEW t \in Task, packet_mode(t) PROVE SetterOK'
  BY <1>0, <1>18 DEF IInv, TypeOK, SetterOK, AuthorisedOnly, packet_mode, Goto
<1>19. ASSUME NEW t \in Task, packet_dropped(t) PROVE SetterOK'
  BY <1>0, <1>19 DEF IInv, TypeOK, SetterOK, AuthorisedOnly, packet_dropped, Ends
<1>20. ASSUME NEW t \in Task, packet_resolved(t) PROVE SetterOK'
  BY <1>0, <1>20 DEF IInv, TypeOK, SetterOK, AuthorisedOnly, packet_resolved, Goto
<1>21. ASSUME NEW t \in Task, get_session(t) PROVE SetterOK'
  BY <1>0, <1>21 DEF IInv, TypeOK, SetterOK, AuthorisedOnly, get_session, Goto
<1>22. ASSUME NEW t \in Task, create_session(t) PROVE SetterOK'
  BY <1>0, <1>22 DEF IInv, TypeOK, SetterOK, AuthorisedOnly, create_session, Goto
<1>23. ASSUME NEW t \in Task, send_packet(t) PROVE SetterOK'
  BY <1>0, <1>23 DEF IInv, TypeOK, SetterOK, AuthorisedOnly, send_packet, Ends
<1>24. ASSUME NEW t \in Task, handle_dissociate(t) PROVE SetterOK'
  BY <1>0, <1>24 DEF IInv, TypeOK, SetterOK, AuthorisedOnly, handle_dissociate, Ends
<1>25. ASSUME NEW t \in Task, read_connect(t) PROVE SetterOK'
  BY <1>0, <1>25 DEF IInv, TypeOK, SetterOK, AuthorisedOnly, read_connect, Goto
<1>26. ASSUME NEW t \in Task, dial_tcp(t) PROVE SetterOK'
  BY <1>0, <1>26 DEF IInv, TypeOK, SetterOK, AuthorisedOnly, dial_tcp, Goto
<1>27. ASSUME NEW t \in Task, connect_ends(t) PROVE SetterOK'
  BY <1>0, <1>27 DEF IInv, TypeOK, SetterOK, AuthorisedOnly, connect_ends, Ends
<1>28. ASSUME NEW t \in Task, recv(t) PROVE SetterOK'
  BY <1>0, <1>28 DEF IInv, TypeOK, SetterOK, AuthorisedOnly, recv
<1>29. ASSUME NEW t \in Task, session_timeout(t) PROVE SetterOK'
  BY <1>0, <1>29 DEF IInv, TypeOK, SetterOK, AuthorisedOnly, session_timeout
<1>30. ASSUME NEW t \in Task, session_closed(t) PROVE SetterOK'
  BY <1>0, <1>30 DEF IInv, TypeOK, SetterOK, AuthorisedOnly, session_closed
<1>31. ASSUME NEW t \in Task, relay_udp_to_client(t) PROVE SetterOK'
  BY <1>0, <1>31 DEF IInv, TypeOK, SetterOK, AuthorisedOnly, relay_udp_to_client
<1>32. CASE UNCHANGED vars
  BY <1>0, <1>32 DEF IInv, TypeOK, SetterOK, AuthorisedOnly, vars
<1>33. ASSUME NEW t \in Task, handle_authenticate(t) PROVE SetterOK'
  BY <1>0, <1>33 DEF IInv, TypeOK, SetterOK, AuthorisedOnly, handle_authenticate, Goto
<1>34. QED
  BY <1>0, <1>1, <1>2, <1>3, <1>4, <1>5, <1>6, <1>7, <1>8, <1>9, <1>10, <1>11,
     <1>12, <1>13, <1>14, <1>15, <1>16, <1>17, <1>18, <1>19, <1>20, <1>21, <1>22,
     <1>23, <1>24, <1>25, <1>26, <1>27, <1>28, <1>29, <1>30, <1>31, <1>32, <1>33 DEF Next,
     TaskStep, WaitStep, AuthStep, PacketStep, Listen

\* Every step keeps unauthenticated tasks out.
LEMMA AuthorisedStep == IInv /\ [Next]_vars => AuthorisedOnly'
<1>0. SUFFICES ASSUME IInv, [Next]_vars PROVE AuthorisedOnly'
  OBVIOUS
<1>1. ASSUME NEW t \in Task, NEW c \in Commands, accept(t, c) PROVE AuthorisedOnly'
  BY <1>0, <1>1 DEF IInv, TypeOK, SetterOK, AuthorisedOnly, accept
<1>2. CASE accept_fails
  BY <1>0, <1>2 DEF IInv, TypeOK, SetterOK, AuthorisedOnly, accept_fails
<1>3. CASE connection_lost
  BY <1>0, <1>3 DEF IInv, TypeOK, SetterOK, AuthorisedOnly, connection_lost
<1>4. CASE watchdog_wakes
  BY <1>0, <1>4 DEF IInv, TypeOK, SetterOK, AuthorisedOnly, watchdog_wakes
<1>5. CASE watchdog_closes
  BY <1>0, <1>5 DEF IInv, TypeOK, SetterOK, AuthorisedOnly, watchdog_closes
<1>6. ASSUME NEW t \in Task, parse_fails(t) PROVE AuthorisedOnly'
  BY <1>0, <1>6 DEF IInv, TypeOK, SetterOK, AuthorisedOnly, parse_fails, Ends
<1>7. ASSUME NEW t \in Task, handle_uni(t) PROVE AuthorisedOnly'
  BY <1>0, <1>7 DEF IInv, TypeOK, SetterOK, AuthorisedOnly, handle_uni, Goto
<1>8. ASSUME NEW t \in Task, gate(t) PROVE AuthorisedOnly'
  BY <1>0, <1>8 DEF IInv, TypeOK, SetterOK, AuthorisedOnly, gate, Goto
<1>9. ASSUME NEW t \in Task, wait_notified(t) PROVE AuthorisedOnly'
  BY <1>0, <1>9 DEF IInv, TypeOK, SetterOK, AuthorisedOnly, wait_notified, Goto
<1>10. ASSUME NEW t \in Task, wait_recheck(t) PROVE AuthorisedOnly'
  BY <1>0, <1>10 DEF IInv, TypeOK, SetterOK, AuthorisedOnly, wait_recheck, Goto
<1>11. ASSUME NEW t \in Task, wait_woken(t) PROVE AuthorisedOnly'
  BY <1>0, <1>11 DEF IInv, TypeOK, SetterOK, AuthorisedOnly, wait_woken, Goto
<1>12. ASSUME NEW t \in Task, wait_timeout(t) PROVE AuthorisedOnly'
  BY <1>0, <1>12 DEF IInv, TypeOK, SetterOK, AuthorisedOnly, wait_timeout, Ends
<1>13. ASSUME NEW t \in Task, duplicate_authentication(t) PROVE AuthorisedOnly'
  BY <1>0, <1>13 DEF IInv, TypeOK, SetterOK, AuthorisedOnly, duplicate_authentication, Ends
<1>14. ASSUME NEW t \in Task, token_valid(t) PROVE AuthorisedOnly'
  BY <1>0, <1>14 DEF IInv, TypeOK, SetterOK, AuthorisedOnly, token_valid, Goto
<1>15. ASSUME NEW t \in Task, token_invalid(t) PROVE AuthorisedOnly'
  BY <1>0, <1>15 DEF IInv, TypeOK, SetterOK, AuthorisedOnly, token_invalid, Ends
<1>16. ASSUME NEW t \in Task, set_flag(t) PROVE AuthorisedOnly'
  BY <1>0, <1>16 DEF IInv, TypeOK, SetterOK, AuthorisedOnly, set_flag, Goto
<1>17. ASSUME NEW t \in Task, notify_waiters(t) PROVE AuthorisedOnly'
  BY <1>0, <1>17 DEF IInv, TypeOK, SetterOK, AuthorisedOnly, notify_waiters, Goto
<1>18. ASSUME NEW t \in Task, packet_mode(t) PROVE AuthorisedOnly'
  BY <1>0, <1>18 DEF IInv, TypeOK, SetterOK, AuthorisedOnly, packet_mode, Goto
<1>19. ASSUME NEW t \in Task, packet_dropped(t) PROVE AuthorisedOnly'
  BY <1>0, <1>19 DEF IInv, TypeOK, SetterOK, AuthorisedOnly, packet_dropped, Ends
<1>20. ASSUME NEW t \in Task, packet_resolved(t) PROVE AuthorisedOnly'
  BY <1>0, <1>20 DEF IInv, TypeOK, SetterOK, AuthorisedOnly, packet_resolved, Goto
<1>21. ASSUME NEW t \in Task, get_session(t) PROVE AuthorisedOnly'
  BY <1>0, <1>21 DEF IInv, TypeOK, SetterOK, AuthorisedOnly, get_session, Goto
<1>22. ASSUME NEW t \in Task, create_session(t) PROVE AuthorisedOnly'
  BY <1>0, <1>22 DEF IInv, TypeOK, SetterOK, AuthorisedOnly, create_session, Goto
<1>23. ASSUME NEW t \in Task, send_packet(t) PROVE AuthorisedOnly'
  BY <1>0, <1>23 DEF IInv, TypeOK, SetterOK, AuthorisedOnly, send_packet, Ends
<1>24. ASSUME NEW t \in Task, handle_dissociate(t) PROVE AuthorisedOnly'
  BY <1>0, <1>24 DEF IInv, TypeOK, SetterOK, AuthorisedOnly, handle_dissociate, Ends
<1>25. ASSUME NEW t \in Task, read_connect(t) PROVE AuthorisedOnly'
  BY <1>0, <1>25 DEF IInv, TypeOK, SetterOK, AuthorisedOnly, read_connect, Goto
<1>26. ASSUME NEW t \in Task, dial_tcp(t) PROVE AuthorisedOnly'
  BY <1>0, <1>26 DEF IInv, TypeOK, SetterOK, AuthorisedOnly, dial_tcp, Goto
<1>27. ASSUME NEW t \in Task, connect_ends(t) PROVE AuthorisedOnly'
  BY <1>0, <1>27 DEF IInv, TypeOK, SetterOK, AuthorisedOnly, connect_ends, Ends
<1>28. ASSUME NEW t \in Task, recv(t) PROVE AuthorisedOnly'
  BY <1>0, <1>28 DEF IInv, TypeOK, SetterOK, AuthorisedOnly, recv
<1>29. ASSUME NEW t \in Task, session_timeout(t) PROVE AuthorisedOnly'
  BY <1>0, <1>29 DEF IInv, TypeOK, SetterOK, AuthorisedOnly, session_timeout
<1>30. ASSUME NEW t \in Task, session_closed(t) PROVE AuthorisedOnly'
  BY <1>0, <1>30 DEF IInv, TypeOK, SetterOK, AuthorisedOnly, session_closed
<1>31. ASSUME NEW t \in Task, relay_udp_to_client(t) PROVE AuthorisedOnly'
  BY <1>0, <1>31 DEF IInv, TypeOK, SetterOK, AuthorisedOnly, relay_udp_to_client
<1>32. CASE UNCHANGED vars
  BY <1>0, <1>32 DEF IInv, TypeOK, SetterOK, AuthorisedOnly, vars
<1>33. ASSUME NEW t \in Task, handle_authenticate(t) PROVE AuthorisedOnly'
  BY <1>0, <1>33 DEF IInv, TypeOK, SetterOK, AuthorisedOnly, handle_authenticate, Goto
<1>34. QED
  BY <1>0, <1>1, <1>2, <1>3, <1>4, <1>5, <1>6, <1>7, <1>8, <1>9, <1>10, <1>11,
     <1>12, <1>13, <1>14, <1>15, <1>16, <1>17, <1>18, <1>19, <1>20, <1>21, <1>22,
     <1>23, <1>24, <1>25, <1>26, <1>27, <1>28, <1>29, <1>30, <1>31, <1>32, <1>33 DEF Next,
     TaskStep, WaitStep, AuthStep, PacketStep, Listen

\* No step loses a wake-up.
LEMMA WakeupStep == IInv /\ [Next]_vars => NoLostWakeup'
<1>0. SUFFICES ASSUME IInv, [Next]_vars PROVE NoLostWakeup'
  OBVIOUS
<1>1. ASSUME NEW t \in Task, NEW c \in Commands, accept(t, c) PROVE NoLostWakeup'
  BY <1>0, <1>1 DEF IInv, TypeOK, SetterOK, NoLostWakeup, accept
<1>2. CASE accept_fails
  BY <1>0, <1>2 DEF IInv, TypeOK, SetterOK, NoLostWakeup, accept_fails
<1>3. CASE connection_lost
  BY <1>0, <1>3 DEF IInv, TypeOK, SetterOK, NoLostWakeup, connection_lost
<1>4. CASE watchdog_wakes
  BY <1>0, <1>4 DEF IInv, TypeOK, SetterOK, NoLostWakeup, watchdog_wakes
<1>5. CASE watchdog_closes
  BY <1>0, <1>5 DEF IInv, TypeOK, SetterOK, NoLostWakeup, watchdog_closes
<1>6. ASSUME NEW t \in Task, parse_fails(t) PROVE NoLostWakeup'
  BY <1>0, <1>6 DEF IInv, TypeOK, SetterOK, NoLostWakeup, parse_fails, Ends
<1>7. ASSUME NEW t \in Task, handle_uni(t) PROVE NoLostWakeup'
  BY <1>0, <1>7 DEF IInv, TypeOK, SetterOK, NoLostWakeup, handle_uni, Goto
<1>8. ASSUME NEW t \in Task, gate(t) PROVE NoLostWakeup'
  BY <1>0, <1>8 DEF IInv, TypeOK, SetterOK, NoLostWakeup, gate, Goto
<1>9. ASSUME NEW t \in Task, wait_notified(t) PROVE NoLostWakeup'
  BY <1>0, <1>9 DEF IInv, TypeOK, SetterOK, NoLostWakeup, wait_notified, Goto
<1>10. ASSUME NEW t \in Task, wait_recheck(t) PROVE NoLostWakeup'
  BY <1>0, <1>10 DEF IInv, TypeOK, SetterOK, NoLostWakeup, wait_recheck, Goto
<1>11. ASSUME NEW t \in Task, wait_woken(t) PROVE NoLostWakeup'
  BY <1>0, <1>11 DEF IInv, TypeOK, SetterOK, NoLostWakeup, wait_woken, Goto
<1>12. ASSUME NEW t \in Task, wait_timeout(t) PROVE NoLostWakeup'
  BY <1>0, <1>12 DEF IInv, TypeOK, SetterOK, NoLostWakeup, wait_timeout, Ends
<1>13. ASSUME NEW t \in Task, duplicate_authentication(t) PROVE NoLostWakeup'
  BY <1>0, <1>13 DEF IInv, TypeOK, SetterOK, NoLostWakeup, duplicate_authentication, Ends
<1>14. ASSUME NEW t \in Task, token_valid(t) PROVE NoLostWakeup'
  BY <1>0, <1>14 DEF IInv, TypeOK, SetterOK, NoLostWakeup, token_valid, Goto
<1>15. ASSUME NEW t \in Task, token_invalid(t) PROVE NoLostWakeup'
  BY <1>0, <1>15 DEF IInv, TypeOK, SetterOK, NoLostWakeup, token_invalid, Ends
<1>16. ASSUME NEW t \in Task, set_flag(t) PROVE NoLostWakeup'
  BY <1>0, <1>16 DEF IInv, TypeOK, SetterOK, NoLostWakeup, set_flag, Goto
<1>17. ASSUME NEW t \in Task, notify_waiters(t) PROVE NoLostWakeup'
  BY <1>0, <1>17 DEF IInv, TypeOK, SetterOK, NoLostWakeup, notify_waiters, Goto
<1>18. ASSUME NEW t \in Task, packet_mode(t) PROVE NoLostWakeup'
  BY <1>0, <1>18 DEF IInv, TypeOK, SetterOK, NoLostWakeup, packet_mode, Goto
<1>19. ASSUME NEW t \in Task, packet_dropped(t) PROVE NoLostWakeup'
  BY <1>0, <1>19 DEF IInv, TypeOK, SetterOK, NoLostWakeup, packet_dropped, Ends
<1>20. ASSUME NEW t \in Task, packet_resolved(t) PROVE NoLostWakeup'
  BY <1>0, <1>20 DEF IInv, TypeOK, SetterOK, NoLostWakeup, packet_resolved, Goto
<1>21. ASSUME NEW t \in Task, get_session(t) PROVE NoLostWakeup'
  BY <1>0, <1>21 DEF IInv, TypeOK, SetterOK, NoLostWakeup, get_session, Goto
<1>22. ASSUME NEW t \in Task, create_session(t) PROVE NoLostWakeup'
  BY <1>0, <1>22 DEF IInv, TypeOK, SetterOK, NoLostWakeup, create_session, Goto
<1>23. ASSUME NEW t \in Task, send_packet(t) PROVE NoLostWakeup'
  BY <1>0, <1>23 DEF IInv, TypeOK, SetterOK, NoLostWakeup, send_packet, Ends
<1>24. ASSUME NEW t \in Task, handle_dissociate(t) PROVE NoLostWakeup'
  BY <1>0, <1>24 DEF IInv, TypeOK, SetterOK, NoLostWakeup, handle_dissociate, Ends
<1>25. ASSUME NEW t \in Task, read_connect(t) PROVE NoLostWakeup'
  BY <1>0, <1>25 DEF IInv, TypeOK, SetterOK, NoLostWakeup, read_connect, Goto
<1>26. ASSUME NEW t \in Task, dial_tcp(t) PROVE NoLostWakeup'
  BY <1>0, <1>26 DEF IInv, TypeOK, SetterOK, NoLostWakeup, dial_tcp, Goto
<1>27. ASSUME NEW t \in Task, connect_ends(t) PROVE NoLostWakeup'
  BY <1>0, <1>27 DEF IInv, TypeOK, SetterOK, NoLostWakeup, connect_ends, Ends
<1>28. ASSUME NEW t \in Task, recv(t) PROVE NoLostWakeup'
  BY <1>0, <1>28 DEF IInv, TypeOK, SetterOK, NoLostWakeup, recv
<1>29. ASSUME NEW t \in Task, session_timeout(t) PROVE NoLostWakeup'
  BY <1>0, <1>29 DEF IInv, TypeOK, SetterOK, NoLostWakeup, session_timeout
<1>30. ASSUME NEW t \in Task, session_closed(t) PROVE NoLostWakeup'
  BY <1>0, <1>30 DEF IInv, TypeOK, SetterOK, NoLostWakeup, session_closed
<1>31. ASSUME NEW t \in Task, relay_udp_to_client(t) PROVE NoLostWakeup'
  BY <1>0, <1>31 DEF IInv, TypeOK, SetterOK, NoLostWakeup, relay_udp_to_client
<1>32. CASE UNCHANGED vars
  BY <1>0, <1>32 DEF IInv, TypeOK, SetterOK, NoLostWakeup, vars
<1>33. ASSUME NEW t \in Task, handle_authenticate(t) PROVE NoLostWakeup'
  BY <1>0, <1>33 DEF IInv, TypeOK, SetterOK, NoLostWakeup, handle_authenticate, Goto
<1>34. QED
  BY <1>0, <1>1, <1>2, <1>3, <1>4, <1>5, <1>6, <1>7, <1>8, <1>9, <1>10, <1>11,
     <1>12, <1>13, <1>14, <1>15, <1>16, <1>17, <1>18, <1>19, <1>20, <1>21, <1>22,
     <1>23, <1>24, <1>25, <1>26, <1>27, <1>28, <1>29, <1>30, <1>31, <1>32, <1>33 DEF Next,
     TaskStep, WaitStep, AuthStep, PacketStep, Listen

\* Every step keeps the map and the sessions together.
LEMMA EntryStep == IInv /\ [Next]_vars => EntryOK'
<1>0. SUFFICES ASSUME IInv, [Next]_vars PROVE EntryOK'
  OBVIOUS
<1>1. ASSUME NEW t \in Task, NEW c \in Commands, accept(t, c) PROVE EntryOK'
  BY <1>0, <1>1, CommandArgs DEF IInv, TypeOK, CommandOK, EntryOK, accept
<1>2. CASE accept_fails
  BY <1>0, <1>2, CommandArgs DEF IInv, TypeOK, CommandOK, EntryOK, accept_fails
<1>3. CASE connection_lost
  BY <1>0, <1>3, CommandArgs DEF IInv, TypeOK, CommandOK, EntryOK, connection_lost
<1>4. CASE watchdog_wakes
  BY <1>0, <1>4, CommandArgs DEF IInv, TypeOK, CommandOK, EntryOK, watchdog_wakes
<1>5. CASE watchdog_closes
  BY <1>0, <1>5, CommandArgs DEF IInv, TypeOK, CommandOK, EntryOK, watchdog_closes
<1>6. ASSUME NEW t \in Task, parse_fails(t) PROVE EntryOK'
  BY <1>0, <1>6, CommandArgs DEF IInv, TypeOK, CommandOK, EntryOK, parse_fails, Ends
<1>7. ASSUME NEW t \in Task, handle_uni(t) PROVE EntryOK'
  BY <1>0, <1>7, CommandArgs DEF IInv, TypeOK, CommandOK, EntryOK, handle_uni, Goto
<1>8. ASSUME NEW t \in Task, gate(t) PROVE EntryOK'
  BY <1>0, <1>8, CommandArgs DEF IInv, TypeOK, CommandOK, EntryOK, gate, Goto
<1>9. ASSUME NEW t \in Task, wait_notified(t) PROVE EntryOK'
  BY <1>0, <1>9, CommandArgs DEF IInv, TypeOK, CommandOK, EntryOK, wait_notified, Goto
<1>10. ASSUME NEW t \in Task, wait_recheck(t) PROVE EntryOK'
  BY <1>0, <1>10, CommandArgs DEF IInv, TypeOK, CommandOK, EntryOK, wait_recheck, Goto
<1>11. ASSUME NEW t \in Task, wait_woken(t) PROVE EntryOK'
  BY <1>0, <1>11, CommandArgs DEF IInv, TypeOK, CommandOK, EntryOK, wait_woken, Goto
<1>12. ASSUME NEW t \in Task, wait_timeout(t) PROVE EntryOK'
  BY <1>0, <1>12, CommandArgs DEF IInv, TypeOK, CommandOK, EntryOK, wait_timeout, Ends
<1>13. ASSUME NEW t \in Task, duplicate_authentication(t) PROVE EntryOK'
  BY <1>0, <1>13, CommandArgs DEF IInv, TypeOK, CommandOK, EntryOK, duplicate_authentication, Ends
<1>14. ASSUME NEW t \in Task, token_valid(t) PROVE EntryOK'
  BY <1>0, <1>14, CommandArgs DEF IInv, TypeOK, CommandOK, EntryOK, token_valid, Goto
<1>15. ASSUME NEW t \in Task, token_invalid(t) PROVE EntryOK'
  BY <1>0, <1>15, CommandArgs DEF IInv, TypeOK, CommandOK, EntryOK, token_invalid, Ends
<1>16. ASSUME NEW t \in Task, set_flag(t) PROVE EntryOK'
  BY <1>0, <1>16, CommandArgs DEF IInv, TypeOK, CommandOK, EntryOK, set_flag, Goto
<1>17. ASSUME NEW t \in Task, notify_waiters(t) PROVE EntryOK'
  BY <1>0, <1>17, CommandArgs DEF IInv, TypeOK, CommandOK, EntryOK, notify_waiters, Goto
<1>18. ASSUME NEW t \in Task, packet_mode(t) PROVE EntryOK'
  BY <1>0, <1>18, CommandArgs DEF IInv, TypeOK, CommandOK, EntryOK, packet_mode, Goto
<1>19. ASSUME NEW t \in Task, packet_dropped(t) PROVE EntryOK'
  BY <1>0, <1>19, CommandArgs DEF IInv, TypeOK, CommandOK, EntryOK, packet_dropped, Ends
<1>20. ASSUME NEW t \in Task, packet_resolved(t) PROVE EntryOK'
  BY <1>0, <1>20, CommandArgs DEF IInv, TypeOK, CommandOK, EntryOK, packet_resolved, Goto
<1>21. ASSUME NEW t \in Task, get_session(t) PROVE EntryOK'
  BY <1>0, <1>21, CommandArgs DEF IInv, TypeOK, CommandOK, EntryOK, get_session, Goto
<1>22. ASSUME NEW t \in Task, create_session(t) PROVE EntryOK'
  BY <1>0, <1>22, CommandArgs DEF IInv, TypeOK, CommandOK, EntryOK, create_session, Goto
<1>23. ASSUME NEW t \in Task, send_packet(t) PROVE EntryOK'
  BY <1>0, <1>23, CommandArgs DEF IInv, TypeOK, CommandOK, EntryOK, send_packet, Ends
<1>24. ASSUME NEW t \in Task, handle_dissociate(t) PROVE EntryOK'
  <2>1. cmd[t].a \in Assoc /\ NoTask \notin Task
    BY <1>0, <1>24, CommandArgs, NoTaskIsNone DEF IInv, CommandOK, handle_dissociate, Ends
  <2>2. /\ udp_sessions' = [udp_sessions EXCEPT ![cmd[t].a] = NoTask]
        /\ close_sent' = [o \in Task |-> close_sent[o] \/ o = udp_sessions[cmd[t].a]]
        /\ UNCHANGED <<assoc_id, listener>>
        /\ pc[t] = "remove" /\ pc' = [pc EXCEPT ![t] = "done"]
    BY <1>24 DEF handle_dissociate, Ends
  <2>3. QED
    BY <1>0, <2>1, <2>2 DEF IInv, TypeOK, EntryOK
<1>25. ASSUME NEW t \in Task, read_connect(t) PROVE EntryOK'
  BY <1>0, <1>25, CommandArgs DEF IInv, TypeOK, CommandOK, EntryOK, read_connect, Goto
<1>26. ASSUME NEW t \in Task, dial_tcp(t) PROVE EntryOK'
  BY <1>0, <1>26, CommandArgs DEF IInv, TypeOK, CommandOK, EntryOK, dial_tcp, Goto
<1>27. ASSUME NEW t \in Task, connect_ends(t) PROVE EntryOK'
  BY <1>0, <1>27, CommandArgs DEF IInv, TypeOK, CommandOK, EntryOK, connect_ends, Ends
<1>28. ASSUME NEW t \in Task, recv(t) PROVE EntryOK'
  BY <1>0, <1>28, CommandArgs DEF IInv, TypeOK, CommandOK, EntryOK, recv
<1>29. ASSUME NEW t \in Task, session_timeout(t) PROVE EntryOK'
  BY <1>0, <1>29, CommandArgs DEF IInv, TypeOK, CommandOK, EntryOK, session_timeout
<1>30. ASSUME NEW t \in Task, session_closed(t) PROVE EntryOK'
  BY <1>0, <1>30, CommandArgs DEF IInv, TypeOK, CommandOK, EntryOK, session_closed
<1>31. ASSUME NEW t \in Task, relay_udp_to_client(t) PROVE EntryOK'
  BY <1>0, <1>31, CommandArgs DEF IInv, TypeOK, CommandOK, EntryOK, relay_udp_to_client
<1>32. CASE UNCHANGED vars
  BY <1>0, <1>32, CommandArgs DEF IInv, TypeOK, CommandOK, EntryOK, vars
<1>33. ASSUME NEW t \in Task, handle_authenticate(t) PROVE EntryOK'
  BY <1>0, <1>33, CommandArgs DEF IInv, TypeOK, CommandOK, EntryOK, handle_authenticate, Goto
<1>34. QED
  BY <1>0, <1>1, <1>2, <1>3, <1>4, <1>5, <1>6, <1>7, <1>8, <1>9, <1>10, <1>11,
     <1>12, <1>13, <1>14, <1>15, <1>16, <1>17, <1>18, <1>19, <1>20, <1>21, <1>22,
     <1>23, <1>24, <1>25, <1>26, <1>27, <1>28, <1>29, <1>30, <1>31, <1>32, <1>33 DEF Next,
     TaskStep, WaitStep, AuthStep, PacketStep, Listen

\* Every step keeps each session mapped or told to close.
LEMMA AccountedStep == IInv /\ [Next]_vars => SessionAccounted'
<1>0. SUFFICES ASSUME IInv, [Next]_vars PROVE SessionAccounted'
  OBVIOUS
<1>1. ASSUME NEW t \in Task, NEW c \in Commands, accept(t, c) PROVE SessionAccounted'
  BY <1>0, <1>1, CommandArgs DEF IInv, TypeOK, CommandOK, EntryOK, SessionAccounted, accept
<1>2. CASE accept_fails
  BY <1>0, <1>2, CommandArgs DEF IInv, TypeOK, CommandOK, EntryOK, SessionAccounted, accept_fails
<1>3. CASE connection_lost
  BY <1>0, <1>3, CommandArgs DEF IInv, TypeOK, CommandOK, EntryOK, SessionAccounted, connection_lost
<1>4. CASE watchdog_wakes
  BY <1>0, <1>4, CommandArgs DEF IInv, TypeOK, CommandOK, EntryOK, SessionAccounted, watchdog_wakes
<1>5. CASE watchdog_closes
  BY <1>0, <1>5, CommandArgs DEF IInv, TypeOK, CommandOK, EntryOK, SessionAccounted, watchdog_closes
<1>6. ASSUME NEW t \in Task, parse_fails(t) PROVE SessionAccounted'
  BY <1>0, <1>6, CommandArgs DEF IInv, TypeOK, CommandOK, EntryOK, SessionAccounted, parse_fails, Ends
<1>7. ASSUME NEW t \in Task, handle_uni(t) PROVE SessionAccounted'
  BY <1>0, <1>7, CommandArgs DEF IInv, TypeOK, CommandOK, EntryOK, SessionAccounted, handle_uni, Goto
<1>8. ASSUME NEW t \in Task, gate(t) PROVE SessionAccounted'
  BY <1>0, <1>8, CommandArgs DEF IInv, TypeOK, CommandOK, EntryOK, SessionAccounted, gate, Goto
<1>9. ASSUME NEW t \in Task, wait_notified(t) PROVE SessionAccounted'
  BY <1>0, <1>9, CommandArgs DEF IInv, TypeOK, CommandOK, EntryOK, SessionAccounted, wait_notified, Goto
<1>10. ASSUME NEW t \in Task, wait_recheck(t) PROVE SessionAccounted'
  BY <1>0, <1>10, CommandArgs DEF IInv, TypeOK, CommandOK, EntryOK, SessionAccounted, wait_recheck, Goto
<1>11. ASSUME NEW t \in Task, wait_woken(t) PROVE SessionAccounted'
  BY <1>0, <1>11, CommandArgs DEF IInv, TypeOK, CommandOK, EntryOK, SessionAccounted, wait_woken, Goto
<1>12. ASSUME NEW t \in Task, wait_timeout(t) PROVE SessionAccounted'
  BY <1>0, <1>12, CommandArgs DEF IInv, TypeOK, CommandOK, EntryOK, SessionAccounted, wait_timeout, Ends
<1>13. ASSUME NEW t \in Task, duplicate_authentication(t) PROVE SessionAccounted'
  BY <1>0, <1>13, CommandArgs DEF IInv, TypeOK, CommandOK, EntryOK, SessionAccounted, duplicate_authentication, Ends
<1>14. ASSUME NEW t \in Task, token_valid(t) PROVE SessionAccounted'
  BY <1>0, <1>14, CommandArgs DEF IInv, TypeOK, CommandOK, EntryOK, SessionAccounted, token_valid, Goto
<1>15. ASSUME NEW t \in Task, token_invalid(t) PROVE SessionAccounted'
  BY <1>0, <1>15, CommandArgs DEF IInv, TypeOK, CommandOK, EntryOK, SessionAccounted, token_invalid, Ends
<1>16. ASSUME NEW t \in Task, set_flag(t) PROVE SessionAccounted'
  BY <1>0, <1>16, CommandArgs DEF IInv, TypeOK, CommandOK, EntryOK, SessionAccounted, set_flag, Goto
<1>17. ASSUME NEW t \in Task, notify_waiters(t) PROVE SessionAccounted'
  BY <1>0, <1>17, CommandArgs DEF IInv, TypeOK, CommandOK, EntryOK, SessionAccounted, notify_waiters, Goto
<1>18. ASSUME NEW t \in Task, packet_mode(t) PROVE SessionAccounted'
  BY <1>0, <1>18, CommandArgs DEF IInv, TypeOK, CommandOK, EntryOK, SessionAccounted, packet_mode, Goto
<1>19. ASSUME NEW t \in Task, packet_dropped(t) PROVE SessionAccounted'
  BY <1>0, <1>19, CommandArgs DEF IInv, TypeOK, CommandOK, EntryOK, SessionAccounted, packet_dropped, Ends
<1>20. ASSUME NEW t \in Task, packet_resolved(t) PROVE SessionAccounted'
  BY <1>0, <1>20, CommandArgs DEF IInv, TypeOK, CommandOK, EntryOK, SessionAccounted, packet_resolved, Goto
<1>21. ASSUME NEW t \in Task, get_session(t) PROVE SessionAccounted'
  BY <1>0, <1>21, CommandArgs DEF IInv, TypeOK, CommandOK, EntryOK, SessionAccounted, get_session, Goto
<1>22. ASSUME NEW t \in Task, create_session(t) PROVE SessionAccounted'
  <2>1. cmd[t].a \in Assoc /\ NoTask \notin Task
    BY <1>0, <1>22, CommandArgs, NoTaskIsNone DEF IInv, CommandOK, create_session, Goto
  <2>2. QED
    BY <1>0, <1>22, <2>1 DEF IInv, TypeOK, EntryOK, SessionAccounted, create_session, Goto
<1>23. ASSUME NEW t \in Task, send_packet(t) PROVE SessionAccounted'
  BY <1>0, <1>23, CommandArgs DEF IInv, TypeOK, CommandOK, EntryOK, SessionAccounted, send_packet, Ends
<1>24. ASSUME NEW t \in Task, handle_dissociate(t) PROVE SessionAccounted'
  <2>1. cmd[t].a \in Assoc /\ NoTask \notin Task
    BY <1>0, <1>24, CommandArgs, NoTaskIsNone DEF IInv, CommandOK, handle_dissociate, Ends
  <2>2. /\ udp_sessions' = [udp_sessions EXCEPT ![cmd[t].a] = NoTask]
        /\ close_sent' = [o \in Task |-> close_sent[o] \/ o = udp_sessions[cmd[t].a]]
        /\ UNCHANGED <<assoc_id, listener>>
        /\ pc[t] = "remove" /\ pc' = [pc EXCEPT ![t] = "done"]
    BY <1>24 DEF handle_dissociate, Ends
  <2>3. ASSUME NEW o \in Task, listener'[o] # "none"
        PROVE  udp_sessions'[assoc_id'[o]] = o <=> ~close_sent'[o]
    <3>1. /\ listener[o] # "none" /\ assoc_id[o] \in Assoc
          /\ udp_sessions[assoc_id[o]] = o <=> ~close_sent[o]
          /\ close_sent'[o] <=> (close_sent[o] \/ o = udp_sessions[cmd[t].a])
      BY <1>0, <2>2, <2>3 DEF IInv, EntryOK, SessionAccounted
    <3>2. CASE assoc_id[o] = cmd[t].a
      BY <1>0, <2>1, <2>2, <3>1, <3>2 DEF IInv, TypeOK
    <3>3. CASE assoc_id[o] # cmd[t].a
      <4>1. o # udp_sessions[cmd[t].a]
        BY <1>0, <2>1, <3>3 DEF IInv, EntryOK
      <4>2. udp_sessions'[assoc_id'[o]] = udp_sessions[assoc_id[o]]
        BY <1>0, <2>1, <2>2, <3>1, <3>3 DEF IInv, TypeOK
      <4>3. QED
        BY <3>1, <4>1, <4>2
    <3>4. QED
      BY <3>2, <3>3
  <2>4. QED
    BY <2>3 DEF SessionAccounted
<1>25. ASSUME NEW t \in Task, read_connect(t) PROVE SessionAccounted'
  BY <1>0, <1>25, CommandArgs DEF IInv, TypeOK, CommandOK, EntryOK, SessionAccounted, read_connect, Goto
<1>26. ASSUME NEW t \in Task, dial_tcp(t) PROVE SessionAccounted'
  BY <1>0, <1>26, CommandArgs DEF IInv, TypeOK, CommandOK, EntryOK, SessionAccounted, dial_tcp, Goto
<1>27. ASSUME NEW t \in Task, connect_ends(t) PROVE SessionAccounted'
  BY <1>0, <1>27, CommandArgs DEF IInv, TypeOK, CommandOK, EntryOK, SessionAccounted, connect_ends, Ends
<1>28. ASSUME NEW t \in Task, recv(t) PROVE SessionAccounted'
  BY <1>0, <1>28, CommandArgs DEF IInv, TypeOK, CommandOK, EntryOK, SessionAccounted, recv
<1>29. ASSUME NEW t \in Task, session_timeout(t) PROVE SessionAccounted'
  BY <1>0, <1>29, CommandArgs DEF IInv, TypeOK, CommandOK, EntryOK, SessionAccounted, session_timeout
<1>30. ASSUME NEW t \in Task, session_closed(t) PROVE SessionAccounted'
  BY <1>0, <1>30, CommandArgs DEF IInv, TypeOK, CommandOK, EntryOK, SessionAccounted, session_closed
<1>31. ASSUME NEW t \in Task, relay_udp_to_client(t) PROVE SessionAccounted'
  BY <1>0, <1>31, CommandArgs DEF IInv, TypeOK, CommandOK, EntryOK, SessionAccounted, relay_udp_to_client
<1>32. CASE UNCHANGED vars
  BY <1>0, <1>32, CommandArgs DEF IInv, TypeOK, CommandOK, EntryOK, SessionAccounted, vars
<1>33. ASSUME NEW t \in Task, handle_authenticate(t) PROVE SessionAccounted'
  BY <1>0, <1>33, CommandArgs DEF IInv, TypeOK, CommandOK, EntryOK, SessionAccounted, handle_authenticate, Goto
<1>34. QED
  BY <1>0, <1>1, <1>2, <1>3, <1>4, <1>5, <1>6, <1>7, <1>8, <1>9, <1>10, <1>11,
     <1>12, <1>13, <1>14, <1>15, <1>16, <1>17, <1>18, <1>19, <1>20, <1>21, <1>22,
     <1>23, <1>24, <1>25, <1>26, <1>27, <1>28, <1>29, <1>30, <1>31, <1>32, <1>33 DEF Next,
     TaskStep, WaitStep, AuthStep, PacketStep, Listen

\* No step unsets the mode.
LEMMA ModeStep == IInv /\ [Next]_vars => ModeOK'
<1>0. SUFFICES ASSUME IInv, [Next]_vars PROVE ModeOK'
  OBVIOUS
<1>1. ASSUME NEW t \in Task, NEW c \in Commands, accept(t, c) PROVE ModeOK'
  BY <1>0, <1>1 DEF IInv, TypeOK, ModeOK, accept
<1>2. CASE accept_fails
  BY <1>0, <1>2 DEF IInv, TypeOK, ModeOK, accept_fails
<1>3. CASE connection_lost
  BY <1>0, <1>3 DEF IInv, TypeOK, ModeOK, connection_lost
<1>4. CASE watchdog_wakes
  BY <1>0, <1>4 DEF IInv, TypeOK, ModeOK, watchdog_wakes
<1>5. CASE watchdog_closes
  BY <1>0, <1>5 DEF IInv, TypeOK, ModeOK, watchdog_closes
<1>6. ASSUME NEW t \in Task, parse_fails(t) PROVE ModeOK'
  BY <1>0, <1>6 DEF IInv, TypeOK, ModeOK, parse_fails, Ends
<1>7. ASSUME NEW t \in Task, handle_uni(t) PROVE ModeOK'
  BY <1>0, <1>7 DEF IInv, TypeOK, ModeOK, handle_uni, Goto
<1>8. ASSUME NEW t \in Task, gate(t) PROVE ModeOK'
  BY <1>0, <1>8 DEF IInv, TypeOK, ModeOK, gate, Goto
<1>9. ASSUME NEW t \in Task, wait_notified(t) PROVE ModeOK'
  BY <1>0, <1>9 DEF IInv, TypeOK, ModeOK, wait_notified, Goto
<1>10. ASSUME NEW t \in Task, wait_recheck(t) PROVE ModeOK'
  BY <1>0, <1>10 DEF IInv, TypeOK, ModeOK, wait_recheck, Goto
<1>11. ASSUME NEW t \in Task, wait_woken(t) PROVE ModeOK'
  BY <1>0, <1>11 DEF IInv, TypeOK, ModeOK, wait_woken, Goto
<1>12. ASSUME NEW t \in Task, wait_timeout(t) PROVE ModeOK'
  BY <1>0, <1>12 DEF IInv, TypeOK, ModeOK, wait_timeout, Ends
<1>13. ASSUME NEW t \in Task, duplicate_authentication(t) PROVE ModeOK'
  BY <1>0, <1>13 DEF IInv, TypeOK, ModeOK, duplicate_authentication, Ends
<1>14. ASSUME NEW t \in Task, token_valid(t) PROVE ModeOK'
  BY <1>0, <1>14 DEF IInv, TypeOK, ModeOK, token_valid, Goto
<1>15. ASSUME NEW t \in Task, token_invalid(t) PROVE ModeOK'
  BY <1>0, <1>15 DEF IInv, TypeOK, ModeOK, token_invalid, Ends
<1>16. ASSUME NEW t \in Task, set_flag(t) PROVE ModeOK'
  BY <1>0, <1>16 DEF IInv, TypeOK, ModeOK, set_flag, Goto
<1>17. ASSUME NEW t \in Task, notify_waiters(t) PROVE ModeOK'
  BY <1>0, <1>17 DEF IInv, TypeOK, ModeOK, notify_waiters, Goto
<1>18. ASSUME NEW t \in Task, packet_mode(t) PROVE ModeOK'
  BY <1>0, <1>18 DEF IInv, TypeOK, ModeOK, packet_mode, Goto, ModeOf
<1>19. ASSUME NEW t \in Task, packet_dropped(t) PROVE ModeOK'
  BY <1>0, <1>19 DEF IInv, TypeOK, ModeOK, packet_dropped, Ends
<1>20. ASSUME NEW t \in Task, packet_resolved(t) PROVE ModeOK'
  BY <1>0, <1>20 DEF IInv, TypeOK, ModeOK, packet_resolved, Goto
<1>21. ASSUME NEW t \in Task, get_session(t) PROVE ModeOK'
  BY <1>0, <1>21 DEF IInv, TypeOK, ModeOK, get_session, Goto
<1>22. ASSUME NEW t \in Task, create_session(t) PROVE ModeOK'
  BY <1>0, <1>22 DEF IInv, TypeOK, ModeOK, create_session, Goto
<1>23. ASSUME NEW t \in Task, send_packet(t) PROVE ModeOK'
  BY <1>0, <1>23 DEF IInv, TypeOK, ModeOK, send_packet, Ends
<1>24. ASSUME NEW t \in Task, handle_dissociate(t) PROVE ModeOK'
  BY <1>0, <1>24 DEF IInv, TypeOK, ModeOK, handle_dissociate, Ends
<1>25. ASSUME NEW t \in Task, read_connect(t) PROVE ModeOK'
  BY <1>0, <1>25 DEF IInv, TypeOK, ModeOK, read_connect, Goto
<1>26. ASSUME NEW t \in Task, dial_tcp(t) PROVE ModeOK'
  BY <1>0, <1>26 DEF IInv, TypeOK, ModeOK, dial_tcp, Goto
<1>27. ASSUME NEW t \in Task, connect_ends(t) PROVE ModeOK'
  BY <1>0, <1>27 DEF IInv, TypeOK, ModeOK, connect_ends, Ends
<1>28. ASSUME NEW t \in Task, recv(t) PROVE ModeOK'
  BY <1>0, <1>28 DEF IInv, TypeOK, ModeOK, recv
<1>29. ASSUME NEW t \in Task, session_timeout(t) PROVE ModeOK'
  BY <1>0, <1>29 DEF IInv, TypeOK, ModeOK, session_timeout
<1>30. ASSUME NEW t \in Task, session_closed(t) PROVE ModeOK'
  BY <1>0, <1>30 DEF IInv, TypeOK, ModeOK, session_closed
<1>31. ASSUME NEW t \in Task, relay_udp_to_client(t) PROVE ModeOK'
  BY <1>0, <1>31 DEF IInv, TypeOK, ModeOK, relay_udp_to_client
<1>32. CASE UNCHANGED vars
  BY <1>0, <1>32 DEF IInv, TypeOK, ModeOK, vars
<1>33. ASSUME NEW t \in Task, handle_authenticate(t) PROVE ModeOK'
  BY <1>0, <1>33 DEF IInv, TypeOK, ModeOK, handle_authenticate, Goto
<1>34. QED
  BY <1>0, <1>1, <1>2, <1>3, <1>4, <1>5, <1>6, <1>7, <1>8, <1>9, <1>10, <1>11,
     <1>12, <1>13, <1>14, <1>15, <1>16, <1>17, <1>18, <1>19, <1>20, <1>21, <1>22,
     <1>23, <1>24, <1>25, <1>26, <1>27, <1>28, <1>29, <1>30, <1>31, <1>32, <1>33 DEF Next,
     TaskStep, WaitStep, AuthStep, PacketStep, Listen

\* Every answer goes the way of the first packet.
LEMMA ReplyStep == IInv /\ [Next]_vars => ReplyMode'
<1>0. SUFFICES ASSUME IInv, [Next]_vars PROVE ReplyMode'
  OBVIOUS
<1>1. ASSUME NEW t \in Task, NEW c \in Commands, accept(t, c) PROVE ReplyMode'
  BY <1>0, <1>1 DEF IInv, TypeOK, ModeOK, ReplyMode, accept
<1>2. CASE accept_fails
  BY <1>0, <1>2 DEF IInv, TypeOK, ModeOK, ReplyMode, accept_fails
<1>3. CASE connection_lost
  BY <1>0, <1>3 DEF IInv, TypeOK, ModeOK, ReplyMode, connection_lost
<1>4. CASE watchdog_wakes
  BY <1>0, <1>4 DEF IInv, TypeOK, ModeOK, ReplyMode, watchdog_wakes
<1>5. CASE watchdog_closes
  BY <1>0, <1>5 DEF IInv, TypeOK, ModeOK, ReplyMode, watchdog_closes
<1>6. ASSUME NEW t \in Task, parse_fails(t) PROVE ReplyMode'
  BY <1>0, <1>6 DEF IInv, TypeOK, ModeOK, ReplyMode, parse_fails, Ends
<1>7. ASSUME NEW t \in Task, handle_uni(t) PROVE ReplyMode'
  BY <1>0, <1>7 DEF IInv, TypeOK, ModeOK, ReplyMode, handle_uni, Goto
<1>8. ASSUME NEW t \in Task, gate(t) PROVE ReplyMode'
  BY <1>0, <1>8 DEF IInv, TypeOK, ModeOK, ReplyMode, gate, Goto
<1>9. ASSUME NEW t \in Task, wait_notified(t) PROVE ReplyMode'
  BY <1>0, <1>9 DEF IInv, TypeOK, ModeOK, ReplyMode, wait_notified, Goto
<1>10. ASSUME NEW t \in Task, wait_recheck(t) PROVE ReplyMode'
  BY <1>0, <1>10 DEF IInv, TypeOK, ModeOK, ReplyMode, wait_recheck, Goto
<1>11. ASSUME NEW t \in Task, wait_woken(t) PROVE ReplyMode'
  BY <1>0, <1>11 DEF IInv, TypeOK, ModeOK, ReplyMode, wait_woken, Goto
<1>12. ASSUME NEW t \in Task, wait_timeout(t) PROVE ReplyMode'
  BY <1>0, <1>12 DEF IInv, TypeOK, ModeOK, ReplyMode, wait_timeout, Ends
<1>13. ASSUME NEW t \in Task, duplicate_authentication(t) PROVE ReplyMode'
  BY <1>0, <1>13 DEF IInv, TypeOK, ModeOK, ReplyMode, duplicate_authentication, Ends
<1>14. ASSUME NEW t \in Task, token_valid(t) PROVE ReplyMode'
  BY <1>0, <1>14 DEF IInv, TypeOK, ModeOK, ReplyMode, token_valid, Goto
<1>15. ASSUME NEW t \in Task, token_invalid(t) PROVE ReplyMode'
  BY <1>0, <1>15 DEF IInv, TypeOK, ModeOK, ReplyMode, token_invalid, Ends
<1>16. ASSUME NEW t \in Task, set_flag(t) PROVE ReplyMode'
  BY <1>0, <1>16 DEF IInv, TypeOK, ModeOK, ReplyMode, set_flag, Goto
<1>17. ASSUME NEW t \in Task, notify_waiters(t) PROVE ReplyMode'
  BY <1>0, <1>17 DEF IInv, TypeOK, ModeOK, ReplyMode, notify_waiters, Goto
<1>18. ASSUME NEW t \in Task, packet_mode(t) PROVE ReplyMode'
  BY <1>0, <1>18 DEF IInv, TypeOK, ModeOK, ReplyMode, packet_mode, Goto, ModeOf
<1>19. ASSUME NEW t \in Task, packet_dropped(t) PROVE ReplyMode'
  BY <1>0, <1>19 DEF IInv, TypeOK, ModeOK, ReplyMode, packet_dropped, Ends
<1>20. ASSUME NEW t \in Task, packet_resolved(t) PROVE ReplyMode'
  BY <1>0, <1>20 DEF IInv, TypeOK, ModeOK, ReplyMode, packet_resolved, Goto
<1>21. ASSUME NEW t \in Task, get_session(t) PROVE ReplyMode'
  BY <1>0, <1>21 DEF IInv, TypeOK, ModeOK, ReplyMode, get_session, Goto
<1>22. ASSUME NEW t \in Task, create_session(t) PROVE ReplyMode'
  BY <1>0, <1>22 DEF IInv, TypeOK, ModeOK, ReplyMode, create_session, Goto
<1>23. ASSUME NEW t \in Task, send_packet(t) PROVE ReplyMode'
  BY <1>0, <1>23 DEF IInv, TypeOK, ModeOK, ReplyMode, send_packet, Ends
<1>24. ASSUME NEW t \in Task, handle_dissociate(t) PROVE ReplyMode'
  BY <1>0, <1>24 DEF IInv, TypeOK, ModeOK, ReplyMode, handle_dissociate, Ends
<1>25. ASSUME NEW t \in Task, read_connect(t) PROVE ReplyMode'
  BY <1>0, <1>25 DEF IInv, TypeOK, ModeOK, ReplyMode, read_connect, Goto
<1>26. ASSUME NEW t \in Task, dial_tcp(t) PROVE ReplyMode'
  BY <1>0, <1>26 DEF IInv, TypeOK, ModeOK, ReplyMode, dial_tcp, Goto
<1>27. ASSUME NEW t \in Task, connect_ends(t) PROVE ReplyMode'
  BY <1>0, <1>27 DEF IInv, TypeOK, ModeOK, ReplyMode, connect_ends, Ends
<1>28. ASSUME NEW t \in Task, recv(t) PROVE ReplyMode'
  BY <1>0, <1>28 DEF IInv, TypeOK, ModeOK, ReplyMode, recv
<1>29. ASSUME NEW t \in Task, session_timeout(t) PROVE ReplyMode'
  BY <1>0, <1>29 DEF IInv, TypeOK, ModeOK, ReplyMode, session_timeout
<1>30. ASSUME NEW t \in Task, session_closed(t) PROVE ReplyMode'
  BY <1>0, <1>30 DEF IInv, TypeOK, ModeOK, ReplyMode, session_closed
<1>31. ASSUME NEW t \in Task, relay_udp_to_client(t) PROVE ReplyMode'
  BY <1>0, <1>31 DEF IInv, TypeOK, ModeOK, ReplyMode, relay_udp_to_client
<1>32. CASE UNCHANGED vars
  BY <1>0, <1>32 DEF IInv, TypeOK, ModeOK, ReplyMode, vars
<1>33. ASSUME NEW t \in Task, handle_authenticate(t) PROVE ReplyMode'
  BY <1>0, <1>33 DEF IInv, TypeOK, ModeOK, ReplyMode, handle_authenticate, Goto
<1>34. QED
  BY <1>0, <1>1, <1>2, <1>3, <1>4, <1>5, <1>6, <1>7, <1>8, <1>9, <1>10, <1>11,
     <1>12, <1>13, <1>14, <1>15, <1>16, <1>17, <1>18, <1>19, <1>20, <1>21, <1>22,
     <1>23, <1>24, <1>25, <1>26, <1>27, <1>28, <1>29, <1>30, <1>31, <1>32, <1>33 DEF Next,
     TaskStep, WaitStep, AuthStep, PacketStep, Listen

\* The invariant holds initially and every step keeps it.
THEOREM Invariance == Spec => []IInv
<1>1. Init => IInv
  <2>0. SUFFICES ASSUME Init PROVE IInv
    OBVIOUS
  <2>1. TypeOK
    <3>1. 0 \in 0..MaxReplies
      BY ConstAssumption
    <3>2. replies \in [Task -> 0..MaxReplies] /\ cmd \in [Task -> Commands \cup {NoCmd}]
      BY <2>0, <3>1 DEF Init
    <3>3. QED
      BY <2>0, <3>2 DEF Init, TypeOK
  <2>2. CommandOK /\ SetterOK /\ AuthorisedOnly /\ NoLostWakeup
    BY <2>0 DEF Init, CommandOK, SetterOK, AuthorisedOnly, NoLostWakeup
  <2>3. EntryOK /\ SessionAccounted
    BY <2>0 DEF Init, EntryOK, SessionAccounted
  <2>4. ModeOK /\ ReplyMode
    BY <2>0 DEF Init, ModeOK, ReplyMode
  <2>5. QED
    BY <2>1, <2>2, <2>3, <2>4 DEF IInv
<1>2. IInv /\ [Next]_vars => IInv'
  BY TypeStep, CommandStep, SetterStep, AuthorisedStep, WakeupStep, EntryStep, AccountedStep,
     ModeStep, ReplyStep DEF IInv
<1>3. QED
  BY <1>1, <1>2, PTL DEF Spec

\* The connection's state keeps its types (connection.rs, Connection and UdpSession).
THEOREM TypeCorrect == Spec => []TypeOK
<1>1. IInv => TypeOK
  BY DEF IInv
<1>2. QED
  BY <1>1, Invariance, PTL

\* Nothing is relayed for a connection without a configured user (handle_bi,
\* handle_datagram, handle_packet_stream against Authenticated::set).
THEOREM Authorised == Spec => []AuthorisedOnly
<1>1. IInv => AuthorisedOnly
  BY DEF IInv
<1>2. QED
  BY <1>1, Invariance, PTL

\* Authenticated::wait misses no notification of Authenticated::set.
THEOREM WakeupsKept == Spec => []NoLostWakeup
<1>1. IInv => NoLostWakeup
  BY DEF IInv
<1>2. QED
  BY <1>1, Invariance, PTL

\* Every UDP session is in the map or has been told to close (handle_packet_data
\* against handle_dissociate).
THEOREM SessionsAccounted == Spec => []SessionAccounted
<1>1. IInv => SessionAccounted
  BY DEF IInv
<1>2. QED
  BY <1>1, Invariance, PTL

\* All answers take the way of the first packet (relay_udp_to_client).
THEOREM OneReplyMode == Spec => []ReplyMode
<1>1. IInv => ReplyMode
  BY DEF IInv
<1>2. QED
  BY <1>1, Invariance, PTL
=============================================================================
