--------------------------- MODULE MCXhttpStream ---------------------------
(* Four packets of two, one, two and no bytes, each posted at most twice. *)
EXTENDS XhttpStream, TLC

MCOff == 0 :> 0 @@ 1 :> 2 @@ 2 :> 3 @@ 3 :> 5 @@ 4 :> 5
=============================================================================
