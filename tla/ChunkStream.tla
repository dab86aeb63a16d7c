---------------------------- MODULE ChunkStream ----------------------------
(***************************************************************************)
(* One VMess (vmess/mod.rs) or Shadowsocks 2022 (shadowsocks/) connection: *)
(* the request header, the dial, the response header, and the two halves   *)
(* of the relay, each of which cuts a byte stream into sealed chunks.      *)
(*                                                                         *)
(* A chunk is a length and a payload, then padding.  Nothing on the wire   *)
(* says which nonce sealed a piece, nor which word of the Shake128 stream  *)
(* masked a length: each end counts for itself, and the two must never     *)
(* come apart.  The client's two ends are external: they follow the one    *)
(* format the code documents and reads, for requests and for answers       *)
(* ("same chunk format", vmess/mod.rs:21).                                 *)
(***************************************************************************)
EXTENDS Naturals, Sequences, SequencesExt

CONSTANTS
    Formats,    \* records of the fields below: what a client may ask for
    CountMod,   \* counters wrap here (2^16 for VMess, 2^96 for Shadowsocks)
    MaxChunks,  \* bound: chunks of data in one direction
    Loads       \* bound: how many chunks one connection has for each direction

Format == [proto : {"vmess", "ss"}, sec : {"none", "aead", "unknown"},
           chunk : BOOLEAN, masking : BOOLEAN, padding : BOOLEAN, auth_len : BOOLEAN]

ASSUME ChunkAssumption ==
    /\ Formats \subseteq Format
    /\ CountMod \in Nat \ {0, 1} /\ MaxChunks \in Nat
    /\ Loads \subseteq [{"up", "down"} -> 0..MaxChunks]

Dir == {"up", "down"}

VARIABLES
    fmt,        \* security and option of the request; the protocol of the node
    phase,      \* process: "header", "dial", "relay" or "done"
    lost,       \* the client's connection has been cut
    wire,       \* pieces in flight, per direction
    w,          \* a direction's writer: its counters and whether it is "open", "eof" or "done"
    r,          \* its reader: its counters, where it is, and the plaintext in its hands
    sent, got,  \* chunks given to the writer and delivered by the reader
    load        \* the member of Loads

vars == <<fmt, load, phase, lost, wire, w, r, sent, got>>

Ss == fmt.proto = "ss"

\* security "none" without ChunkStream: tokio::io::copy.
Raw == fmt.proto = "vmess" /\ fmt.sec = "none" /\ ~fmt.chunk

\* Pieces.  A length is sealed with a nonce or masked with a word of the Shake128 stream,
\* and counts the padding, whose size is another such word.
Piece(k, nonce, mask, pad, v) == [k |-> k, nonce |-> nonce, mask |-> mask, pad |-> pad, v |-> v]
\* What is in them: chunk number 1..MaxChunks, no data, or a header.
NoVal == 0
Eof == MaxChunks + 1
Good == MaxChunks + 2
Bad == MaxChunks + 3
Unsealed == CountMod
NoWord == 0
Fin == Piece("fin", Unsealed, NoWord, NoWord, NoVal)

-----------------------------------------------------------------------------
(* The counters of the two ends                                             *)

\* Mutant: the counter does not wrap.
Inc_Unbounded(c) == c + 1

\* count.wrapping_add(1), increment_nonce
Inc(c) == (c + 1) % CountMod

LenSealed == Ss \/ fmt.auth_len

\* The client's two ends, after c operations: a length that is sealed comes first and has
\* a nonce of its own.
ClientNonces(c) ==
    IF fmt.proto = "vmess" /\ ~fmt.auth_len THEN [len |-> Unsealed, data |-> c, next |-> Inc(c)]
    ELSE [len |-> c, data |-> Inc(c), next |-> Inc(Inc(c))]

\* relay_up and AeadReader: count moves when a length has been opened, and again when a
\* payload has been.
ReadNonces(c) ==
    IF LenSealed THEN [len |-> c, data |-> Inc(c), next |-> Inc(Inc(c))]
    ELSE [len |-> Unsealed, data |-> c, next |-> Inc(c)]

\* relay_down seals the payload before the length, AeadWriter the length first.
WriteNonces(c) ==
    CASE Ss -> [len |-> c, data |-> Inc(c), next |-> Inc(Inc(c))]
      [] ~Ss /\ fmt.auth_len -> [len |-> Inc(c), data |-> c, next |-> Inc(Inc(c))]
      [] OTHER -> [len |-> Unsealed, data |-> c, next |-> Inc(c)]

Padded == ~Ss /\ fmt.masking /\ fmt.padding
Masked == ~Ss /\ fmt.masking /\ ~fmt.auth_len

\* The client's words of the Shake128 stream for one chunk after s words: "called ONCE for
\* padding (NextPaddingLen), then ONCE for size mask (Decode)" (vmess/mod.rs:258).
ClientWords(s) ==
    LET padding == IF Padded THEN 1 ELSE 0
        mask == IF Masked THEN 1 ELSE 0
    IN [pad |-> IF Padded THEN s + 1 ELSE NoWord,
        mask |-> IF Masked THEN s + padding + 1 ELSE NoWord, next |-> s + padding + mask]

\* relay_up draws the size of the padding, then unmasks the length.
Words(s) ==
    LET p == IF Padded THEN s + 1 ELSE s
    IN [pad |-> IF Padded THEN s + 1 ELSE NoWord, mask |-> IF Masked THEN p + 1 ELSE NoWord,
        next |-> IF Masked THEN p + 1 ELSE p]

\* Mutant: the mask is drawn before the padding.
WriteWords_MaskFirst(s) ==
    LET m == IF Masked THEN s + 1 ELSE s
    IN [mask |-> IF Masked THEN s + 1 ELSE NoWord, pad |-> IF Padded THEN m + 1 ELSE NoWord,
        next |-> IF Padded THEN m + 1 ELSE m]

\* relay_down draws the size of the padding before it seals the payload, the mask after.
WriteWords(s) ==
    LET p == IF Padded THEN s + 1 ELSE s
        m == IF Masked THEN p + 1 ELSE p
    IN [pad |-> IF Padded THEN p ELSE NoWord, mask |-> IF Masked THEN m ELSE NoWord, next |-> m]

\* The pieces of one chunk, and the end of a stream; without sealing, the chunk that
\* ends it has no payload.
Chunk(n, ws, v) ==
    <<Piece("len", n.len, ws.mask, ws.pad, v)>>
      \o (IF v = Eof /\ fmt.sec = "none" THEN <<>> ELSE <<Piece("data", n.data, NoWord, NoWord, v)>>)
      \o (IF Padded THEN <<Piece("pad", Unsealed, NoWord, NoWord, v)>> ELSE <<>>)

\* Uplink: the client writes and relay_up or AeadReader reads.  Downlink: relay_down or
\* AeadWriter writes and the client reads.
Nonces(d, c) == IF d = "up" THEN ClientNonces(c) ELSE WriteNonces(c)
WordsOf(d, s) == IF d = "up" THEN ClientWords(s) ELSE WriteWords(s)
ReaderNonces(d, c) == IF d = "up" THEN ReadNonces(c) ELSE ClientNonces(c)
ReaderWords(d, s) == IF d = "up" THEN Words(s) ELSE ClientWords(s)

ChunkOf(d, v) ==
    IF Raw THEN <<Piece("data", Unsealed, NoWord, NoWord, v)>>
    ELSE Chunk(Nonces(d, w[d].count), WordsOf(d, w[d].shake), v)

\* A writer after a chunk.
Advanced(d) ==
    IF Raw THEN w[d]
    ELSE [w[d] EXCEPT !.count = Nonces(d, @).next, !.shake = WordsOf(d, @).next]

\* A header: VMess has keys of its own for it, Shadowsocks a salt and then a chunk under
\* the key of the body.
HeaderOf(f, v) == IF f.proto = "ss" THEN <<Piece("len", 0, NoWord, NoWord, v), Piece("data", Inc(0), NoWord, NoWord, v)>>
                  ELSE <<Piece("data", Unsealed, NoWord, NoWord, v)>>
AfterHeader(f) == IF f.proto = "ss" THEN Inc(Inc(0)) ELSE 0

Init ==
    /\ fmt \in Formats /\ load \in Loads
    /\ phase = "header" /\ lost = FALSE
    /\ \E v \in {Good, Bad} : wire = [up |-> HeaderOf(fmt, v), down |-> <<>>]
    /\ w = [up   |-> [count |-> AfterHeader(fmt), shake |-> 0, st |-> "open"],
            down |-> [count |-> 0, shake |-> 0, st |-> "open"]]
    /\ r = [d \in Dir |-> [count |-> 0, shake |-> 0, st |-> "header", plain |-> NoVal]]
    /\ sent = [d \in Dir |-> <<>>] /\ got = [d \in Dir |-> <<>>]

-----------------------------------------------------------------------------
(* The client, and its connection                                           *)

client_writes ==
    /\ w["up"].st = "open" /\ ~lost /\ phase # "done" /\ Len(sent["up"]) < load["up"]
    /\ LET v == Len(sent["up"]) + 1
       IN /\ wire' = [wire EXCEPT !["up"] = @ \o ChunkOf("up", v)]
          /\ sent' = [sent EXCEPT !["up"] = Append(@, v)]
    /\ w' = [w EXCEPT !["up"] = Advanced("up")]
    /\ UNCHANGED <<fmt, load, phase, lost, r, got>>

\* The chunk without data that ends a VMess body; a Shadowsocks client that sends one
\* ends its stream as well.
client_eof ==
    /\ w["up"].st = "open" /\ ~lost /\ phase # "done" /\ ~Raw
    /\ wire' = [wire EXCEPT !["up"] = @ \o ChunkOf("up", Eof)]
    /\ w' = [w EXCEPT !["up"] = [Advanced("up") EXCEPT !.st = "eof"]]
    /\ UNCHANGED <<fmt, load, phase, lost, r, sent, got>>

client_closes ==
    /\ w["up"].st # "done" /\ ~lost /\ phase # "done"
    /\ wire' = [wire EXCEPT !["up"] = Append(@, Fin)]
    /\ w' = [w EXCEPT !["up"].st = "done"]
    /\ UNCHANGED <<fmt, load, phase, lost, r, sent, got>>

\* The connection breaks: what has not arrived of either direction is lost from some
\* point on, possibly in the middle of a chunk.
connection_cut ==
    /\ ~lost
    /\ lost' = TRUE
    /\ \E i \in 0..Len(wire["up"]), j \in 0..Len(wire["down"]) :
         wire' = [up   |-> Append(SubSeq(wire["up"], 1, i), Fin),
                  down |-> Append(SubSeq(wire["down"], 1, j), Fin)]
    /\ UNCHANGED <<fmt, load, phase, w, r, sent, got>>

-----------------------------------------------------------------------------
(* process: header, dial, join                                              *)

\* The function returns and the connection is dropped.
Closed(d) == IF lost \/ Fin \in ToSet(wire[d]) THEN wire[d] ELSE Append(wire[d], Fin)

HeaderLen == Len(HeaderOf(fmt, Good))

\* A header of which a part is missing, or which does not open, has a wrong type, a
\* stale time stamp or a broken address, ends the connection.
read_header_fails ==
    /\ phase = "header"
    /\ \/ \E i \in 1..HeaderLen : i <= Len(wire["up"]) /\ wire["up"][i] = Fin
       \/ Len(wire["up"]) >= HeaderLen /\ wire["up"][1].v = Bad
    /\ phase' = "done"
    /\ wire' = [wire EXCEPT !["down"] = Closed("down")]
    /\ r' = [r EXCEPT !["up"].st = "refused"]
    /\ w' = [w EXCEPT !["down"].st = "done"]
    /\ UNCHANGED <<fmt, load, lost, sent, got>>

read_header ==
    /\ phase = "header" /\ Len(wire["up"]) >= HeaderLen
    /\ \A i \in 1..HeaderLen : wire["up"][i].v = Good
    /\ wire' = [wire EXCEPT !["up"] = SubSeq(@, HeaderLen + 1, Len(@))]
    /\ r' = [r EXCEPT !["up"].count = AfterHeader(fmt), !["up"].st = "len"]
    /\ phase' = "dial"
    /\ UNCHANGED <<fmt, load, lost, w, sent, got>>

\* The target refuses or, with Shadowsocks, 10 seconds pass.
dial_fails ==
    /\ phase = "dial"
    /\ phase' = "done"
    /\ wire' = [wire EXCEPT !["down"] = Closed("down")]
    /\ r' = [r EXCEPT !["up"].st = "refused"]
    /\ w' = [w EXCEPT !["down"].st = "done"]
    /\ UNCHANGED <<fmt, load, lost, sent, got>>

\* The response header goes out and the relay starts.  After a cut the write may still
\* succeed, into the buffer of the socket.
respond ==
    /\ phase = "dial"
    /\ phase' = "relay"
    /\ wire' = IF lost THEN wire ELSE [wire EXCEPT !["down"] = @ \o HeaderOf(fmt, Good)]
    /\ w' = [w EXCEPT !["down"].count = AfterHeader(fmt)]
    /\ UNCHANGED <<fmt, load, lost, r, sent, got>>

Reading(d) == r[d].st \in {"len", "data", "pad"}

\* The join of both halves.  VMess has shut its half of the client's connection down
\* already; with Shadowsocks only the end of process closes it.
process_ends ==
    /\ phase = "relay" /\ ~Reading("up") /\ w["down"].st = "done"
    /\ phase' = "done"
    /\ wire' = [wire EXCEPT !["down"] = Closed("down")]
    /\ UNCHANGED <<fmt, load, lost, w, r, sent, got>>

-----------------------------------------------------------------------------
(* relay_up and AeadReader; the client's reader                             *)

\* A direction's reader runs: the server's during the relay, the client's always.
Runs(d) == d = "up" => phase = "relay"

\* read_exact meets the end of the stream.  Shadowsocks takes one between chunks, or
\* within a length, for a clean end.
read_end(d) ==
    /\ Runs(d) /\ Reading(d) /\ wire[d] # <<>> /\ Head(wire[d]) = Fin
    /\ r' = [r EXCEPT ![d].st = IF (Ss /\ @ = "len") \/ Raw THEN "ended" ELSE "short"]
    /\ UNCHANGED <<fmt, load, phase, lost, wire, w, sent, got>>

\* The length: the size of the padding is drawn, then the length opened or unmasked.  A
\* length it cannot open, or unmasks wrongly, is the end of this stream.
read_len(d) ==
    /\ Runs(d) /\ r[d].st = "len" /\ ~Raw /\ wire[d] # <<>> /\ Head(wire[d]) # Fin
    /\ LET m == Head(wire[d])
           n == ReaderNonces(d, r[d].count)
           ws == ReaderWords(d, r[d].shake)
           ok == m.k = "len" /\ m.nonce = n.len /\ m.mask = ws.mask /\ m.pad = ws.pad
       IN r' = [r EXCEPT ![d].shake = ws.next,
                         ![d].st = CASE ~ok -> "garbled"
                                     [] ok /\ fmt.sec = "unknown" -> "garbled"
                                     [] ok /\ fmt.sec = "none" /\ m.v = Eof -> "ended"
                                     [] OTHER -> "data"]
    /\ wire' = [wire EXCEPT ![d] = Tail(@)]
    /\ UNCHANGED <<fmt, load, phase, lost, w, sent, got>>

\* What follows a chunk: an empty one ends the stream.
After(v) == IF v = Eof THEN "ended" ELSE "len"
Taken(d, v) == [got EXCEPT ![d] = IF v \in 1..MaxChunks THEN Append(@, v) ELSE @]

\* The payload; with padding to skip, the plaintext waits for it.
read_data(d) ==
    /\ Runs(d) /\ r[d].st = "data" /\ wire[d] # <<>> /\ Head(wire[d]) # Fin
    /\ LET m == Head(wire[d])
           n == ReaderNonces(d, r[d].count)
           opens == fmt.sec = "none" \/ m.nonce = n.data
           v == IF opens THEN m.v ELSE NoVal
       IN /\ r' = [r EXCEPT ![d] = [@ EXCEPT !.count = n.next, !.plain = IF Padded THEN v ELSE NoVal,
                                !.st = CASE ~opens -> "garbled" [] opens /\ Padded -> "pad" [] OTHER -> After(v)]]
          /\ got' = IF Padded THEN got ELSE Taken(d, v)
    /\ wire' = [wire EXCEPT ![d] = Tail(@)]
    /\ UNCHANGED <<fmt, load, phase, lost, w, sent>>

skip_padding(d) ==
    /\ Runs(d) /\ r[d].st = "pad" /\ wire[d] # <<>> /\ Head(wire[d]) # Fin
    /\ got' = Taken(d, r[d].plain)
    /\ r' = [r EXCEPT ![d].st = After(r[d].plain), ![d].plain = NoVal]
    /\ wire' = [wire EXCEPT ![d] = Tail(@)]
    /\ UNCHANGED <<fmt, load, phase, lost, w, sent>>

\* tokio::io::copy
copy(d) ==
    /\ Runs(d) /\ Reading(d) /\ Raw /\ wire[d] # <<>> /\ Head(wire[d]) # Fin
    /\ got' = Taken(d, Head(wire[d]).v)
    /\ wire' = [wire EXCEPT ![d] = Tail(@)]
    /\ UNCHANGED <<fmt, load, phase, lost, w, r, sent>>

\* The target no longer takes what is written to it.
uplink_fails ==
    /\ phase = "relay" /\ Reading("up")
    /\ r' = [r EXCEPT !["up"].st = "refused"]
    /\ UNCHANGED <<fmt, load, phase, lost, wire, w, sent, got>>

client_reads_header ==
    /\ r["down"].st = "header" /\ Len(wire["down"]) >= HeaderLen
    /\ \A i \in 1..HeaderLen : wire["down"][i] # Fin
    /\ wire' = [wire EXCEPT !["down"] = SubSeq(@, HeaderLen + 1, Len(@))]
    /\ r' = [r EXCEPT !["down"].count = AfterHeader(fmt), !["down"].st = "len"]
    /\ UNCHANGED <<fmt, load, phase, lost, w, sent, got>>

-----------------------------------------------------------------------------
(* relay_down and AeadWriter                                                *)

\* The writer's end: VMess shuts its side of the connection down.
Shut == IF Ss THEN wire["down"] ELSE Closed("down")

\* The target has sent something.  An unknown security is only found out here.
down_writes ==
    /\ phase = "relay" /\ w["down"].st = "open" /\ ~lost /\ Len(sent["down"]) < load["down"]
    /\ IF fmt.sec = "unknown"
       THEN /\ wire' = [wire EXCEPT !["down"] = Shut]
            /\ w' = [w EXCEPT !["down"].st = "done"]
            /\ UNCHANGED sent
       ELSE LET v == Len(sent["down"]) + 1
            IN /\ wire' = [wire EXCEPT !["down"] = @ \o ChunkOf("down", v)]
               /\ w' = [w EXCEPT !["down"] = Advanced("down")]
               /\ sent' = [sent EXCEPT !["down"] = Append(@, v)]
    /\ UNCHANGED <<fmt, load, phase, lost, r, got>>

\* The target has ended: VMess writes a chunk without data, then shuts down.
down_ends ==
    /\ phase = "relay" /\ w["down"].st = "open" /\ ~lost
    /\ IF Ss \/ Raw \/ fmt.sec = "unknown"
       THEN /\ wire' = [wire EXCEPT !["down"] = Shut]
            /\ w' = [w EXCEPT !["down"].st = "done"]
       ELSE /\ wire' = [wire EXCEPT !["down"] = @ \o ChunkOf("down", Eof) \o <<Fin>>]
            /\ w' = [w EXCEPT !["down"] = [Advanced("down") EXCEPT !.st = "done"]]
    /\ UNCHANGED <<fmt, load, phase, lost, r, sent, got>>

\* Reading from the target or writing to the client fails.
down_fails ==
    /\ phase = "relay" /\ w["down"].st = "open"
    /\ wire' = [wire EXCEPT !["down"] = Shut]
    /\ w' = [w EXCEPT !["down"].st = "done"]
    /\ UNCHANGED <<fmt, load, phase, lost, r, sent, got>>

-----------------------------------------------------------------------------
Next ==
    \/ client_writes \/ client_eof \/ client_closes \/ connection_cut
    \/ read_header \/ read_header_fails \/ dial_fails \/ respond \/ process_ends
    \/ \E d \in Dir : read_end(d) \/ read_len(d) \/ read_data(d) \/ skip_padding(d) \/ copy(d)
    \/ uplink_fails \/ client_reads_header
    \/ down_writes \/ down_ends \/ down_fails

Spec == Init /\ [][Next]_vars

-----------------------------------------------------------------------------
(* Properties                                                               *)

Value == 0..Bad

TypeOK ==
    /\ fmt \in Formats /\ load \in Loads
    /\ phase \in {"header", "dial", "relay", "done"}
    /\ lost \in BOOLEAN
    /\ \A d \in Dir : \A i \in 1..Len(wire[d]) :
         wire[d][i] \in [k : {"len", "data", "pad", "fin"}, nonce : 0..CountMod, mask : Nat, pad : Nat, v : Value]
    /\ w \in [Dir -> [count : 0..(CountMod - 1), shake : Nat, st : {"open", "eof", "done"}]]
    /\ r \in [Dir -> [count : 0..(CountMod - 1), shake : Nat, plain : Value,
                      st : {"header", "len", "data", "pad", "ended", "short", "garbled", "refused"}]]
    /\ sent \in [Dir -> Seq(1..MaxChunks)] /\ got \in [Dir -> Seq(1..MaxChunks)]

\* A format whose chunks the reader cannot open: an unknown security, and an answer with
\* AUTH_LEN, of which relay_down seals the payload before the length.
Unreadable(d) == fmt.sec = "unknown" \/ (d = "down" /\ fmt.proto = "vmess" /\ fmt.auth_len /\ ~Raw)

\* Whatever options the client asks for, wherever the counters wrap and wherever the
\* connection is cut: the two ends of a direction never come apart.  A reader delivers
\* the chunks that were sent, in order, and fails to open one only in an unreadable
\* format (AnswersOpen is what the code promises there); a reader that came to the end of
\* an uncut stream has everything; and one that misses a rest says so, unless that rest
\* begins between two Shadowsocks chunks or the stream is not chunked.
InStep ==
    \A d \in Dir :
        /\ IsPrefix(got[d], sent[d])
        /\ r[d].st = "garbled" => Unreadable(d)
        /\ r[d].st \in {"ended", "short"} => got[d] = sent[d] \/ lost
        /\ r[d].st = "ended" /\ got[d] # sent[d] => Ss \/ Raw

\* "Response body (same chunk format, but using responseBodyKey/IV)" (vmess/mod.rs:21): a
\* client that reads answers in the format its requests have opens every length and every
\* payload that relay_down seals.  (Of an unknown security nothing is ever sealed.)
AnswersOpen == r["down"].st = "garbled" => fmt.sec = "unknown"
=============================================================================
