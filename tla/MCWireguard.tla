---------------------------- MODULE MCWireguard ----------------------------
(* A small instance of Wireguard for TLC: two peers and the addresses they send from; two
   clients behind the first peer that use the same destination. *)
EXTENDS Wireguard

CONSTANTS p1, p2, a1, a2, c1, c2, d1

FromPeer(p, a, n, ok, body) == [from |-> a, by |-> p, counter |-> n, allowed |-> ok, body |-> body]
InnerNo(n, proto, c, kind) ==
    FromPeer(p1, a1, n, TRUE, [key |-> [proto |-> proto, src |-> c, dst |-> d1], kind |-> kind])
Inner(proto, c, kind) == InnerNo(0, proto, c, kind)

\* Two peers connect and one of them sends from an address it may not use; two TCP
\* clients; a TCP client and a UDP client; two UDP clients.
MCWorkloads == {
    {FromPeer(p1, a1, 0, TRUE, Handshake), FromPeer(p2, a2, 0, TRUE, Handshake),
     FromPeer(p2, a2, 0, TRUE, Inner("udp", c2, "data").body),
     FromPeer(p1, a2, 0, FALSE, Inner("udp", c1, "data").body), Inner("udp", c1, "data")},
    {Inner("tcp", c1, "syn"), Inner("tcp", c1, "data"), Inner("tcp", c2, "syn"), Inner("tcp", c2, "data")},
    {Inner("tcp", c1, "syn"), Inner("tcp", c1, "data"), Inner("tcp", c1, "fin"), Inner("tcp", c1, "rst")},
    {Inner("tcp", c1, "syn"), Inner("tcp", c1, "data"), Inner("udp", c2, "data")},
    {Inner("udp", c1, "data"), Inner("udp", c2, "data"), InnerNo(1, "udp", c2, "data")}}

\* A UDP client that sends faster than its remote answers.
MCFlood == {{InnerNo(n, "udp", c1, "data") : n \in 1..5}}
=============================================================================
