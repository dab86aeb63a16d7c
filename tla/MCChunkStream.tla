--------------------------- MODULE MCChunkStream ---------------------------
(* A small instance of ChunkStream for TLC: every combination of the options that changes
   a chunked VMess body, sealed and not; one that is not chunked, one without the flag
   that makes no difference to a sealed body, an unknown security, and Shadowsocks. *)
EXTENDS ChunkStream

Plain(proto, sec, chunk) ==
    [proto |-> proto, sec |-> sec, chunk |-> chunk, masking |-> FALSE, padding |-> FALSE, auth_len |-> FALSE]

MCFormats ==
    {f \in Format : f.proto = "vmess" /\ f.sec # "unknown" /\ f.chunk}
      \cup {Plain("vmess", "none", FALSE), Plain("vmess", "aead", FALSE),
            Plain("vmess", "unknown", TRUE), Plain("ss", "aead", TRUE)}
\* Long enough for a counter to wrap in one direction, or both directions at work.
Load(i, j) == [d \in Dir |-> IF d = "up" THEN i ELSE j]
MCLoads == {Load(3, 0), Load(0, 3), Load(1, 1)}
=============================================================================
