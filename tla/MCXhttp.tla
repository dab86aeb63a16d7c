------------------------------ MODULE MCXhttp ------------------------------
(* Small instances of Xhttp for TLC. *)
EXTENDS Xhttp
=============================================================================
