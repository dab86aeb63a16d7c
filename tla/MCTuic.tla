------------------------------- MODULE MCTuic -------------------------------
(* Small instances of Tuic for TLC. *)
EXTENDS Tuic

CONSTANTS u1, u2, u3, a1

Authenticate(u) == [k |-> "authenticate", u |-> u, a |-> NoAssoc]
OnAssoc(k) == [k |-> k, u |-> NoUuid, a |-> a1]
Connect == [k |-> "connect", u |-> NoUuid, a |-> NoAssoc]

\* A client that uses one association, one that connects and presents itself as a
\* configured and as an unknown user, and one that authenticates as two users.
MCClients ==
    { {Authenticate(u1), OnAssoc("packet_quic"), OnAssoc("packet_native"), OnAssoc("dissociate")},
      {Authenticate(u1), Authenticate(u3), Connect},
      {Authenticate(u1), Authenticate(u2)} }
=============================================================================
