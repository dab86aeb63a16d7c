----------------------------- MODULE UplinkAbs -----------------------------
(***************************************************************************)
(* What the uplink of an XHTTP connection promises its relay: the bytes    *)
(* the client sent, each once and in order, up to some point where the     *)
(* stream ends.  Bytes are their positions 1, 2, ... in what the client    *)
(* sent, so a relay that has got n bytes has got exactly 1..n.             *)
(***************************************************************************)
EXTENDS Naturals

CONSTANT Total      \* bytes the client sends

VARIABLES got,      \* bytes the relay has received
          piece,    \* positions <<from, to>> of the last piece it received
          ended     \* it has been told that there is no more

vars == <<got, piece, ended>>

Init == got = 0 /\ piece = <<1, 0>> /\ ended = FALSE

\* The next piece continues where the last one stopped.
Deliver ==
    /\ ~ended
    /\ got' \in (got + 1)..Total
    /\ piece' = <<got + 1, got'>>
    /\ UNCHANGED ended

End == ~ended /\ ended' = TRUE /\ UNCHANGED <<got, piece>>

Next == Deliver \/ End
Spec == Init /\ [][Next]_vars
=============================================================================
