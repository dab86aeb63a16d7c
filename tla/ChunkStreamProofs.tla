------------------------- MODULE ChunkStreamProofs -------------------------
(***************************************************************************)
(* Proofs about the chunked streams of VMess and Shadowsocks: their types  *)
(* and InStep hold for every set of formats, every modulus of the counters *)
(* from two on, and any number of chunks.                                  *)
(***************************************************************************)
EXTENDS ChunkStream, TLAPS, SequenceTheorems

PieceT == [k : {"len", "data", "pad", "fin"}, nonce : 0..CountMod, mask : Nat, pad : Nat, v : Value]
Writer == [count : 0..(CountMod - 1), shake : Nat, st : {"open", "eof", "done"}]
Reader == [count : 0..(CountMod - 1), shake : Nat, plain : Value,
           st : {"header", "len", "data", "pad", "ended", "short", "garbled", "refused"}]

Types ==
    /\ fmt \in Formats /\ load \in Loads
    /\ phase \in {"header", "dial", "relay", "done"}
    /\ lost \in BOOLEAN
    /\ wire \in [Dir -> Seq(PieceT)]
    /\ w \in [Dir -> Writer] /\ r \in [Dir -> Reader]
    /\ sent \in [Dir -> Seq(1..MaxChunks)] /\ got \in [Dir -> Seq(1..MaxChunks)]

-----------------------------------------------------------------------------
(* Where an end of a direction is: before or within the header, before the *)
(* length, the payload or the padding of a chunk, or past the end; its     *)
(* counters, the chunks behind it, and the chunk it is in.                 *)

Pos == [st : {"header", "header2", "len", "data", "pad", "end"},
        count : 0..(CountMod - 1), shake : Nat, n : Nat, v : Nat]

First == [st |-> "header", count |-> 0, shake |-> 0, n |-> 0, v |-> NoVal]
Start == [st |-> "len", count |-> AfterHeader(fmt), shake |-> 0, n |-> 0, v |-> NoVal]

\* Behind a chunk.
Behind(p) == IF p.v = Eof THEN [p EXCEPT !.st = "end"]
             ELSE [p EXCEPT !.st = "len", !.n = p.n + 1, !.v = NoVal]

\* Behind the length and behind the payload of a chunk.
BehindLen(p, v) == [p EXCEPT !.shake = Words(p.shake).next, !.v = v,
                             !.st = IF v = Eof /\ fmt.sec = "none" THEN "end" ELSE "data"]
BehindData(d, p) == IF Padded THEN [p EXCEPT !.st = "pad", !.count = Nonces(d, p.count).next]
                    ELSE Behind([p EXCEPT !.count = Nonces(d, p.count).next])

\* Piece m is what comes after position p in the format of direction d, and leads to q.
Fits(d, p, m, q) ==
    \/ m = Fin /\ q = p
    \/ m # Fin /\ p.st = "end" /\ q = p
    \/ m # Fin /\ p.st = "header" /\ Ss /\ q = [p EXCEPT !.st = "header2"]
    \/ m # Fin /\ (p.st = "header2" \/ (p.st = "header" /\ ~Ss)) /\ q = Start
    \/ m # Fin /\ p.st = "len" /\ Raw /\ m.v = p.n + 1 /\ q = [p EXCEPT !.n = p.n + 1]
    \/ /\ m # Fin /\ p.st = "len" /\ ~Raw
       /\ m.k = "len" /\ m.nonce = Nonces(d, p.count).len
       /\ m.mask = Words(p.shake).mask /\ m.pad = Words(p.shake).pad
       /\ q = BehindLen(p, m.v)
    \/ /\ m # Fin /\ p.st = "data" /\ m.v = p.v /\ m.nonce = Nonces(d, p.count).data
       /\ q = BehindData(d, p)
    \/ m # Fin /\ p.st = "pad" /\ q = Behind(p)

\* What holds of a position on the wire when n chunks are sent and the writer is st: no
\* chunk is there that was not sent, and the one that ends the stream comes after all.
PosOK(p, n, st) ==
    /\ p.n <= n
    /\ \/ p.st \in {"header", "header2", "len"} /\ p.v = NoVal
       \/ p.st \in {"data", "pad"} /\ p.v = p.n + 1 /\ p.v <= n /\ ~Raw
       \/ p.st \in {"data", "pad", "end"} /\ p.v = Eof /\ p.n = n /\ st # "open" /\ ~Raw

\* The pieces q lead from a to b, through the positions e.
Run(d, q, e) ==
    /\ e \in [0..Len(q) -> Pos]
    /\ \A i \in 1..Len(q) : Fits(d, e[i - 1], q[i], e[i])
Way(d, q, n, st, a, b) ==
    \E e \in [0..Len(q) -> Pos] :
        /\ Run(d, q, e)
        /\ \A i \in 0..Len(q) : PosOK(e[i], n, st)
        /\ e[0] = a /\ e[Len(q)] = b

\* The reader x, which has delivered n chunks, is at p, unless it has stopped.
ReaderAt(p, x, n) ==
    /\ x.st = "header" => p.st = "header" /\ x.shake = 0 /\ n = 0
    /\ x.st \in {"len", "data", "pad"} =>
         /\ p.st = x.st /\ p.count = x.count /\ p.shake = x.shake /\ p.n = n
         /\ x.st = "pad" => p.v = x.plain

\* The writer x of direction d is at p, or was when it stopped.
WriterAt(d, p, x, n, ph) ==
    /\ p.n = n
    /\ x.st = "open" =>
         IF d = "down" /\ ph \in {"header", "dial"} THEN p = First /\ x.shake = 0
         ELSE p.st = "len" /\ p.count = x.count /\ p.shake = x.shake

\* The two ends are in step: what is on the wire leads from the reader's position, with
\* the reader's counters, to the writer's.
OnTheWay(d) ==
    \E a, b \in Pos :
        /\ Way(d, wire[d], Len(sent[d]), w[d].st, a, b)
        /\ ReaderAt(a, r[d], Len(got[d]))
        /\ ~lost => WriterAt(d, b, w[d], Len(sent[d]), phase)

\* Chunks are numbered, and delivered in that order.
Numbered(d) ==
    /\ \A i \in 1..Len(sent[d]) : sent[d][i] = i
    /\ \A i \in 1..Len(got[d]) : got[d][i] = i
    /\ Len(got[d]) <= Len(sent[d]) /\ Len(sent[d]) <= MaxChunks

\* Unless the connection is cut, the end of a stream comes last.
FinOK(d) == ~lost => \A i \in 1..Len(wire[d]) : wire[d][i] = Fin => i = Len(wire[d]) /\ w[d].st = "done"

\* What a reader that has stopped has seen.
StoppedOK(d) ==
    /\ r[d].st \in {"ended", "short"} => lost \/ (Len(got[d]) = Len(sent[d]) /\ w[d].st # "open")
    /\ r[d].st = "ended" => Ss \/ Raw \/ (Len(got[d]) = Len(sent[d]) /\ w[d].st # "open")
    /\ r[d].st = "garbled" => Unreadable(d)
    /\ Unreadable(d) => r[d].st \notin {"data", "pad"} /\ Len(got[d]) = 0

DirOK(d) == OnTheWay(d) /\ Numbered(d) /\ FinOK(d) /\ StoppedOK(d)

\* Before the relay.
Early ==
    /\ phase = "header" => r["up"].st = "header"
    /\ phase \in {"header", "dial"} => w["down"].st = "open"

\* The inductive invariant.
IInv == Types /\ Early /\ \A d \in Dir : DirOK(d)

-----------------------------------------------------------------------------
(* Counters, pieces and chunks                                              *)

\* A counter stays below the modulus and an increment changes it.
LEMMA IncOK == \A c \in 0..(CountMod - 1) : Inc(c) \in 0..(CountMod - 1) /\ Inc(c) # c
  BY ChunkAssumption DEF Inc

\* The four values of a message.
LEMMA ValuesOK == /\ NoVal \in Value /\ Eof \in Value /\ Good \in Value /\ Bad \in Value
                  /\ \A i \in 1..MaxChunks : i \in Value /\ i # Eof
                  /\ Eof # NoVal /\ Good # NoVal /\ MaxChunks \in Nat
  BY ChunkAssumption DEF NoVal, Eof, Good, Bad, Value

\* The nonces of a chunk, for the reader and for the writer of a direction.
LEMMA NoncesOK ==
    ASSUME Types, NEW d \in Dir, NEW c \in 0..(CountMod - 1)
    PROVE /\ Nonces(d, c).len \in 0..CountMod /\ Nonces(d, c).data \in 0..CountMod
          /\ Nonces(d, c).next \in 0..(CountMod - 1)
          /\ ~Unreadable(d) /\ ~Raw => Nonces(d, c) = ReaderNonces(d, c)
          /\ Unreadable(d) /\ fmt.sec # "unknown" => Nonces(d, c).len # ReaderNonces(d, c).len
          /\ ReaderNonces(d, c).next \in 0..(CountMod - 1)
  <1>1. /\ Inc(c) \in 0..(CountMod - 1) /\ Inc(c) # c
        /\ Inc(Inc(c)) \in 0..(CountMod - 1)
    BY IncOK
  <1>2. CountMod \in Nat
    BY ChunkAssumption
  <1>3. fmt.proto \in {"vmess", "ss"}
    BY ChunkAssumption DEF Types, Format
  <1> QED
    <2>1. ClientNonces(c) = ReadNonces(c)
      BY <1>3 DEF ClientNonces, ReadNonces, LenSealed, Ss
    <2>2. CASE d = "up"
      BY <1>1, <1>2, <1>3, <2>1, <2>2 DEF Nonces, ReaderNonces, ReadNonces, Unreadable, Unsealed, LenSealed, Ss
    <2>3. CASE d = "down"
      BY <1>1, <1>2, <1>3, <2>1, <2>3
         DEF Nonces, ReaderNonces, ReadNonces, WriteNonces, Unreadable, Unsealed, LenSealed, Ss
    <2> QED
      BY <2>2, <2>3 DEF Dir

\* The words of a chunk.
LEMMA WordsOK ==
    ASSUME NEW s \in Nat
    PROVE Words(s).next \in Nat /\ Words(s).mask \in Nat /\ Words(s).pad \in Nat
  BY DEF Words, NoWord

\* The client, relay_up and relay_down draw the same words for a chunk.
LEMMA SameWords ==
    ASSUME NEW d, NEW s \in Nat
    PROVE WordsOf(d, s) = Words(s) /\ ReaderWords(d, s) = Words(s)
  <1>1. ClientWords(s) = Words(s)
    BY DEF ClientWords, Words
  <1>2. WriteWords(s) = Words(s)
    BY DEF WriteWords, Words
  <1> QED
    BY <1>1, <1>2 DEF WordsOf, ReaderWords

\* A piece.
LEMMA PieceOK ==
    ASSUME NEW k \in {"len", "data", "pad", "fin"}, NEW nonce \in 0..CountMod,
           NEW mask \in Nat, NEW pad \in Nat, NEW v \in Value
    PROVE Piece(k, nonce, mask, pad, v) \in PieceT
  BY DEF Piece, PieceT

\* The end of a stream; what is not one.
LEMMA FinPiece ==
    /\ Fin \in PieceT /\ Fin.v = NoVal
    /\ \A k, nonce, mask, pad, v : k # "fin" => Piece(k, nonce, mask, pad, v) # Fin
  <1>1. Fin \in PieceT
    BY ChunkAssumption, PieceOK, ValuesOK DEF Fin, Unsealed, NoWord
  <1>2. Fin.v = NoVal /\ Fin.k = "fin"
    BY DEF Fin, Piece
  <1>3. ASSUME NEW k, NEW nonce, NEW mask, NEW pad, NEW v, k # "fin"
        PROVE Piece(k, nonce, mask, pad, v) # Fin
    <2>1. Piece(k, nonce, mask, pad, v).k = k
      BY DEF Piece
    <2> QED
      BY <1>2, <1>3, <2>1
  <1> QED
    BY <1>1, <1>2, <1>3

-----------------------------------------------------------------------------
(* Ways: the empty one, one more piece, one piece less, a part              *)

\* The ends of a way.
LEMMA WayEnds ==
    ASSUME NEW d, NEW q \in Seq(PieceT), NEW n, NEW st, NEW a, NEW b, Way(d, q, n, st, a, b)
    PROVE a \in Pos /\ b \in Pos /\ PosOK(a, n, st) /\ PosOK(b, n, st)
  <1>1. PICK e \in [0..Len(q) -> Pos] :
            (\A i \in 0..Len(q) : PosOK(e[i], n, st)) /\ e[0] = a /\ e[Len(q)] = b
    BY DEF Way
  <1>2. 0 \in 0..Len(q) /\ Len(q) \in 0..Len(q)
    OBVIOUS
  <1> QED
    BY <1>1, <1>2

\* Nothing on the wire leads nowhere.
LEMMA WayEmpty ==
    ASSUME NEW d, NEW n, NEW st, NEW a \in Pos, PosOK(a, n, st)
    PROVE Way(d, <<>>, n, st, a, a)
  <1> DEFINE e == [i \in 0..Len(<<>>) |-> a]
  <1>1. Len(<<>>) = 0
    OBVIOUS
  <1>2. e \in [0..Len(<<>>) -> Pos] /\ e[0] = a /\ e[Len(<<>>)] = a
    BY <1>1
  <1>3. \A i \in 0..Len(<<>>) : PosOK(e[i], n, st)
    BY <1>1
  <1>4. Run(d, <<>>, e)
    BY <1>1, <1>2 DEF Run
  <1> HIDE DEF e
  <1> QED
    BY <1>2, <1>3, <1>4 DEF Way

\* The writer adds a piece.
LEMMA WayAppend ==
    ASSUME NEW d, NEW q \in Seq(PieceT), NEW n, NEW st, NEW a, NEW b, Way(d, q, n, st, a, b),
           NEW m \in PieceT, NEW c \in Pos, Fits(d, b, m, c), PosOK(c, n, st)
    PROVE Way(d, Append(q, m), n, st, a, c)
  <1>1. PICK e \in [0..Len(q) -> Pos] :
            /\ Run(d, q, e)
            /\ \A i \in 0..Len(q) : PosOK(e[i], n, st)
            /\ e[0] = a /\ e[Len(q)] = b
    BY DEF Way
  <1> DEFINE x == Append(q, m)
             g == [i \in 0..Len(x) |-> IF i <= Len(q) THEN e[i] ELSE c]
  <1>2. /\ Len(x) = Len(q) + 1 /\ Len(q) \in Nat /\ x[Len(x)] = m
        /\ \A i \in 1..Len(q) : x[i] = q[i]
    OBVIOUS
  <1> HIDE DEF x
  <1>3. /\ g \in [0..Len(x) -> Pos]
        /\ \A i \in 0..Len(q) : g[i] = e[i]
        /\ g[Len(x)] = c /\ g[0] = a
    BY <1>1, <1>2
  <1> HIDE DEF g
  <1>4. ASSUME NEW i \in 1..Len(x)
        PROVE Fits(d, g[i - 1], x[i], g[i])
    <2>1. CASE i = Len(x)
      <3>1. g[i - 1] = b /\ x[i] = m /\ g[i] = c
        BY <1>1, <1>2, <1>3, <2>1
      <3> QED
        BY <3>1
    <2>2. CASE i # Len(x)
      <3>1. i \in 1..Len(q) /\ g[i - 1] = e[i - 1] /\ x[i] = q[i] /\ g[i] = e[i]
        BY <1>2, <1>3, <2>2
      <3> QED
        BY <1>1, <3>1 DEF Run
    <2> QED
      BY <2>1, <2>2
  <1>5. ASSUME NEW i \in 0..Len(x)
        PROVE PosOK(g[i], n, st)
    <2>1. CASE i = Len(x)
      BY <1>3, <2>1
    <2>2. CASE i # Len(x)
      <3>1. i \in 0..Len(q) /\ g[i] = e[i]
        BY <1>2, <1>3, <2>2
      <3> QED
        BY <1>1, <3>1
    <2> QED
      BY <2>1, <2>2
  <1>6. Run(d, x, g)
    BY <1>3, <1>4 DEF Run
  <1>7. Way(d, x, n, st, a, c)
    BY <1>3, <1>5, <1>6 DEF Way
  <1> QED
    BY <1>7 DEF x

\* The reader takes a piece.
LEMMA WayTail ==
    ASSUME NEW d, NEW q \in Seq(PieceT), NEW n, NEW st, NEW a, NEW b, Way(d, q, n, st, a, b),
           q # <<>>
    PROVE /\ Head(q) \in PieceT /\ Tail(q) \in Seq(PieceT)
          /\ \E c \in Pos : /\ Fits(d, a, Head(q), c) /\ PosOK(c, n, st)
                            /\ Way(d, Tail(q), n, st, c, b)
                            /\ Len(q) = 1 => c = b
  <1>1. PICK e \in [0..Len(q) -> Pos] :
            /\ Run(d, q, e)
            /\ \A i \in 0..Len(q) : PosOK(e[i], n, st)
            /\ e[0] = a /\ e[Len(q)] = b
    BY DEF Way
  <1> DEFINE x == Tail(q)
             g == [i \in 0..Len(x) |-> e[i + 1]]
  <1>2. /\ Head(q) \in PieceT /\ x \in Seq(PieceT) /\ Len(x) = Len(q) - 1
        /\ Len(x) \in Nat /\ Len(q) \in Nat
        /\ Head(q) = q[1] /\ \A i \in 1..Len(x) : x[i] = q[i + 1]
    OBVIOUS
  <1> HIDE DEF x
  <1>3. /\ g \in [0..Len(x) -> Pos]
        /\ \A i \in 0..Len(x) : g[i] = e[i + 1]
        /\ g[0] = e[1] /\ g[Len(x)] = b
    BY <1>1, <1>2
  <1> HIDE DEF g
  <1>4. ASSUME NEW i \in 1..Len(x)
        PROVE Fits(d, g[i - 1], x[i], g[i])
    <2>1. i + 1 \in 1..Len(q) /\ (i + 1) - 1 = i /\ g[i - 1] = e[i] /\ x[i] = q[i + 1] /\ g[i] = e[i + 1]
      BY <1>2, <1>3
    <2>2. Fits(d, e[(i + 1) - 1], q[i + 1], e[i + 1])
      BY <1>1, <2>1 DEF Run
    <2> QED
      BY <2>1, <2>2
  <1>5. ASSUME NEW i \in 0..Len(x)
        PROVE PosOK(g[i], n, st)
    <2>1. i + 1 \in 0..Len(q) /\ g[i] = e[i + 1]
      BY <1>2, <1>3
    <2> QED
      BY <1>1, <2>1
  <1>6. Run(d, x, g)
    BY <1>3, <1>4 DEF Run
  <1>7. Way(d, x, n, st, g[0], b)
    BY <1>3, <1>5, <1>6 DEF Way
  <1>8. Fits(d, a, Head(q), g[0])
    <2>1. 1 \in 1..Len(q) /\ 1 - 1 = 0
      BY <1>2
    <2>2. Fits(d, e[1 - 1], q[1], e[1])
      BY <1>1, <2>1 DEF Run
    <2> QED
      BY <1>1, <1>2, <1>3, <2>1, <2>2
  <1>9. PosOK(g[0], n, st) /\ g[0] \in Pos
    BY <1>2, <1>3, <1>5
  <1>10. Len(q) = 1 => g[0] = b
    BY <1>1, <1>3
  <1> QED
    BY <1>2, <1>7, <1>8, <1>9, <1>10 DEF x

\* The rest of the stream is lost.
LEMMA WayCut ==
    ASSUME NEW d, NEW q \in Seq(PieceT), NEW n, NEW st, NEW a, NEW b, Way(d, q, n, st, a, b),
           NEW k \in 0..Len(q)
    PROVE /\ SubSeq(q, 1, k) \in Seq(PieceT)
          /\ \E c \in Pos : Way(d, SubSeq(q, 1, k), n, st, a, c)
  <1>1. PICK e \in [0..Len(q) -> Pos] :
            /\ Run(d, q, e)
            /\ \A i \in 0..Len(q) : PosOK(e[i], n, st)
            /\ e[0] = a /\ e[Len(q)] = b
    BY DEF Way
  <1> DEFINE x == SubSeq(q, 1, k)
             g == [i \in 0..Len(x) |-> e[i]]
  <1>2. /\ x \in Seq(PieceT) /\ Len(x) = k /\ k \in Nat /\ Len(q) \in Nat /\ k <= Len(q)
        /\ \A i \in 1..k : x[i] = q[i]
    OBVIOUS
  <1> HIDE DEF x
  <1>3. /\ g \in [0..Len(x) -> Pos]
        /\ \A i \in 0..Len(x) : g[i] = e[i]
        /\ g[0] = a
    BY <1>1, <1>2
  <1> HIDE DEF g
  <1>4. ASSUME NEW i \in 1..Len(x)
        PROVE Fits(d, g[i - 1], x[i], g[i])
    <2>1. i \in 1..Len(q) /\ g[i - 1] = e[i - 1] /\ x[i] = q[i] /\ g[i] = e[i]
      BY <1>2, <1>3
    <2> QED
      BY <1>1, <2>1 DEF Run
  <1>5. ASSUME NEW i \in 0..Len(x)
        PROVE PosOK(g[i], n, st)
    <2>1. i \in 0..Len(q) /\ g[i] = e[i]
      BY <1>2, <1>3
    <2> QED
      BY <1>1, <2>1
  <1>6. Run(d, x, g)
    BY <1>3, <1>4 DEF Run
  <1>7. g[Len(x)] \in Pos
    BY <1>2, <1>3
  <1>8. Way(d, x, n, st, a, g[Len(x)])
    BY <1>3, <1>5, <1>6 DEF Way
  <1> QED
    BY <1>2, <1>7, <1>8 DEF x

\* More chunks are sent, or the writer stops.
LEMMA WayGrows ==
    ASSUME NEW d, NEW q \in Seq(PieceT), NEW n \in Nat, NEW st, NEW a, NEW b, Way(d, q, n, st, a, b),
           NEW n2 \in Nat, NEW st2,
           n <= n2, st = "open" \/ (n = n2 /\ st2 # "open")
    PROVE Way(d, q, n2, st2, a, b)
  <1>1. PICK e \in [0..Len(q) -> Pos] :
            /\ Run(d, q, e)
            /\ \A i \in 0..Len(q) : PosOK(e[i], n, st)
            /\ e[0] = a /\ e[Len(q)] = b
    BY DEF Way
  <1>2. ASSUME NEW p \in Pos, PosOK(p, n, st)
        PROVE PosOK(p, n2, st2)
    BY <1>2 DEF PosOK, Pos
  <1>3. \A i \in 0..Len(q) : PosOK(e[i], n2, st2)
    BY <1>1, <1>2
  <1> QED
    BY <1>1, <1>3 DEF Way

-----------------------------------------------------------------------------
(* The chunks and the headers that a writer appends                         *)

\* The positions within a chunk are positions.
LEMMA PositionsOK ==
    ASSUME Types, NEW d \in Dir, NEW p \in Pos
    PROVE /\ \A v \in Nat : BehindLen(p, v) \in Pos
          /\ BehindData(d, p) \in Pos /\ Behind(p) \in Pos
          /\ First \in Pos /\ Start \in Pos
          /\ [p EXCEPT !.n = p.n + 1] \in Pos /\ [p EXCEPT !.st = "header2"] \in Pos
  <1>1. ASSUME NEW x \in Pos
        PROVE Behind(x) \in Pos
    <2>1. [x EXCEPT !.st = "end"] \in Pos
      BY DEF Pos
    <2>2. [x EXCEPT !.st = "len", !.n = x.n + 1, !.v = NoVal] \in Pos
      <3>1. x.n + 1 \in Nat /\ NoVal \in Nat
        BY DEF Pos, NoVal
      <3> QED
        BY <3>1 DEF Pos
    <2> QED
      BY <2>1, <2>2 DEF Behind
  <1>2. ASSUME NEW v \in Nat
        PROVE BehindLen(p, v) \in Pos
    <2>1. Words(p.shake).next \in Nat
      BY WordsOK DEF Pos
    <2> QED
      BY <2>1 DEF BehindLen, Pos
  <1>3. BehindData(d, p) \in Pos
    <2>1. Nonces(d, p.count).next \in 0..(CountMod - 1)
      BY NoncesOK DEF Pos
    <2>2. [p EXCEPT !.count = Nonces(d, p.count).next] \in Pos
      BY <2>1 DEF Pos
    <2>3. [p EXCEPT !.st = "pad", !.count = Nonces(d, p.count).next] \in Pos
      BY <2>1 DEF Pos
    <2> QED
      BY <1>1, <2>2, <2>3 DEF BehindData
  <1>4. 0 \in 0..(CountMod - 1)
    BY ChunkAssumption
  <1>5. First \in Pos
    BY <1>4 DEF First, Pos, NoVal
  <1>6. AfterHeader(fmt) \in 0..(CountMod - 1)
    BY <1>4, IncOK DEF AfterHeader
  <1>7. Start \in Pos
    BY <1>6 DEF Start, Pos, NoVal
  <1>8. [p EXCEPT !.n = p.n + 1] \in Pos /\ [p EXCEPT !.st = "header2"] \in Pos
    BY DEF Pos
  <1> QED
    BY <1>1, <1>2, <1>3, <1>5, <1>7, <1>8

\* Behind a chunk: its number counts, and nothing comes after the one that ends a stream.
LEMMA BehindOK ==
    ASSUME NEW p \in Pos, NEW n \in Nat, NEW st, ~Raw,
           \/ p.v = p.n + 1 /\ p.v <= n /\ p.v <= MaxChunks
           \/ p.v = Eof /\ p.n = n /\ st # "open"
    PROVE /\ Behind(p).count = p.count /\ Behind(p).shake = p.shake
          /\ PosOK(Behind(p), n, st)
          /\ p.v = Eof => Behind(p).st = "end" /\ Behind(p).n = p.n
          /\ p.v # Eof => Behind(p).st = "len" /\ Behind(p).n = p.n + 1
  <1>1. CASE p.v = Eof
    <2>1. p.n = n /\ st # "open"
      BY <1>1, ValuesOK DEF Eof
    <2>2. Behind(p) = [p EXCEPT !.st = "end"]
      BY <1>1 DEF Behind
    <2>3. /\ Behind(p).st = "end" /\ Behind(p).n = p.n /\ Behind(p).v = Eof
          /\ Behind(p).count = p.count /\ Behind(p).shake = p.shake
      BY <1>1, <2>2 DEF Pos
    <2> QED
      BY <1>1, <2>1, <2>3 DEF PosOK
  <1>2. CASE p.v # Eof
    <2>1. p.v = p.n + 1 /\ p.v <= n /\ p.n \in Nat
      BY <1>2 DEF Pos
    <2>2. Behind(p) = [p EXCEPT !.st = "len", !.n = p.n + 1, !.v = NoVal]
      BY <1>2 DEF Behind
    <2>3. /\ Behind(p).st = "len" /\ Behind(p).n = p.n + 1 /\ Behind(p).v = NoVal
          /\ Behind(p).count = p.count /\ Behind(p).shake = p.shake
      BY <2>2 DEF Pos
    <2> QED
      BY <1>2, <2>1, <2>3 DEF PosOK
  <1> QED
    BY <1>1, <1>2

\* Sequences of pieces.
LEMMA PiecesAssociate == \A x, y, z \in Seq(PieceT) : (x \o y) \o z = x \o (y \o z)
  <1> TAKE x, y, z \in Seq(PieceT)
  <1> QED
    BY ONLY x \in Seq(PieceT), y \in Seq(PieceT), z \in Seq(PieceT), ConcatAssociative

\* One piece more.
LEMMA AppendIs ==
    ASSUME NEW x \in Seq(PieceT), NEW m \in PieceT
    PROVE Append(x, m) = x \o <<m>>
  <1>1. /\ Append(x, m) \in Seq(PieceT) /\ Len(Append(x, m)) = Len(x) + 1
        /\ \A i \in 1..(Len(x) + 1) : Append(x, m)[i] = IF i <= Len(x) THEN x[i] ELSE m
    OBVIOUS
  <1>2. <<m>> \in Seq(PieceT) /\ Len(<<m>>) = 1 /\ <<m>>[1] = m
    OBVIOUS
  <1>3. /\ x \o <<m>> \in Seq(PieceT) /\ Len(x \o <<m>>) = Len(x) + 1
        /\ \A i \in 1..(Len(x) + 1) : (x \o <<m>>)[i] = IF i <= Len(x) THEN x[i] ELSE <<m>>[i - Len(x)]
    BY <1>2, ConcatProperties
  <1>4. ASSUME NEW i \in 1..(Len(x) + 1)
        PROVE Append(x, m)[i] = (x \o <<m>>)[i]
    <2>1. CASE i <= Len(x)
      BY <1>1, <1>3, <2>1
    <2>2. CASE i = Len(x) + 1
      <3>1. ~(i <= Len(x)) /\ i - Len(x) = 1
        BY <2>2
      <3> QED
        BY <1>1, <1>2, <1>3, <3>1
    <2> QED
      BY <2>1, <2>2
  <1> QED
    BY <1>1, <1>3, <1>4, SeqEqual

\* A writer before a chunk that appends it is behind that chunk.  The chunk is the next
\* one that was sent, or the one that ends the stream.
LEMMA WayChunk ==
    ASSUME Types, NEW d \in Dir, NEW q \in Seq(PieceT), NEW n \in Nat, NEW st, NEW a, NEW b,
           Way(d, q, n, st, a, b), b.st = "len", ~Raw, NEW v \in Value,
           \/ v = b.n + 1 /\ v <= n /\ v <= MaxChunks
           \/ v = Eof /\ b.n = n /\ st # "open"
    PROVE LET x == q \o Chunk(Nonces(d, b.count), Words(b.shake), v)
          IN /\ x \in Seq(PieceT) /\ Len(x) >= Len(q)
             /\ \A i \in 1..Len(x) : x[i] = Fin => i <= Len(q) /\ q[i] = Fin
             /\ \E c \in Pos :
                  /\ Way(d, x, n, st, a, c)
                  /\ c.n = n \/ v # Eof
                  /\ v # Eof => /\ c.st = "len" /\ c.n = v
                                /\ c.count = Nonces(d, b.count).next /\ c.shake = Words(b.shake).next
  <1> DEFINE nn == Nonces(d, b.count)
             ww == Words(b.shake)
             m1 == Piece("len", nn.len, ww.mask, ww.pad, v)
             m2 == Piece("data", nn.data, NoWord, NoWord, v)
             m3 == Piece("pad", Unsealed, NoWord, NoWord, v)
             q1 == Append(q, m1)
             q2 == IF v = Eof /\ fmt.sec = "none" THEN q1 ELSE Append(q1, m2)
             q3 == IF Padded THEN Append(q2, m3) ELSE q2
             c1 == BehindLen(b, v)
  <1>1. b \in Pos /\ b.v = NoVal /\ PosOK(b, n, st)
    BY WayEnds DEF PosOK
  <1>2. b.count \in 0..(CountMod - 1) /\ b.shake \in Nat /\ b.n \in Nat
    BY <1>1 DEF Pos
  <1>3. nn.len \in 0..CountMod /\ nn.data \in 0..CountMod /\ nn.next \in 0..(CountMod - 1)
    BY <1>2, NoncesOK
  <1>4. ww.next \in Nat /\ ww.mask \in Nat /\ ww.pad \in Nat
    BY <1>2, WordsOK
  <1>5. v \in Nat /\ NoWord \in Nat /\ Unsealed \in 0..CountMod
    BY ChunkAssumption DEF Value, NoWord, Unsealed, Bad
  <1>6. m1 \in PieceT /\ m2 \in PieceT /\ m3 \in PieceT
    BY <1>3, <1>4, <1>5, PieceOK
  <1>7. m1 # Fin /\ m2 # Fin /\ m3 # Fin
    BY FinPiece
  <1>8. m1.k = "len" /\ m1.nonce = nn.len /\ m1.mask = ww.mask /\ m1.pad = ww.pad /\ m1.v = v
    BY DEF Piece
  <1>9. m2.nonce = nn.data /\ m2.v = v
    BY DEF Piece
  <1> HIDE DEF m1, m2, m3, nn, ww
  <1>10. q1 \in Seq(PieceT) /\ q2 \in Seq(PieceT) /\ q3 \in Seq(PieceT)
    <2>1. q1 \in Seq(PieceT)
      BY <1>6
    <2>2. Append(q1, m2) \in Seq(PieceT)
      BY <1>6, <2>1
    <2>3. q2 \in Seq(PieceT)
      BY <2>1, <2>2
    <2>4. Append(q2, m3) \in Seq(PieceT)
      BY <1>6, <2>3
    <2> QED
      BY <2>1, <2>3, <2>4
  <1>11. /\ c1 = [b EXCEPT !.shake = ww.next, !.v = v,
                           !.st = IF v = Eof /\ fmt.sec = "none" THEN "end" ELSE "data"]
         /\ c1 \in Pos
    BY <1>1, <1>5, PositionsOK DEF BehindLen, ww
  <1>12. /\ c1.st = IF v = Eof /\ fmt.sec = "none" THEN "end" ELSE "data"
         /\ c1.n = b.n /\ c1.v = v /\ c1.count = b.count /\ c1.shake = ww.next
    BY <1>1, <1>11 DEF Pos
  <1>13. PosOK(c1, n, st)
    <2>1. CASE v = b.n + 1 /\ v <= n /\ v <= MaxChunks
      <3>1. v # Eof
        BY <1>5, <2>1, ValuesOK DEF Eof
      <3> QED
        BY <1>2, <1>5, <1>12, <2>1, <3>1 DEF PosOK
    <2>2. CASE v = Eof /\ b.n = n /\ st # "open"
      BY <1>2, <1>5, <1>12, <2>2 DEF PosOK
    <2> QED
      BY <2>1, <2>2
  <1>14. Way(d, q1, n, st, a, c1)
    <2>1. Fits(d, b, m1, c1)
      BY <1>7, <1>8 DEF Fits, nn, ww
    <2> QED
      BY <1>6, <1>11, <1>13, <2>1, WayAppend
  <1> HIDE DEF c1, q1
  <1> DEFINE Goal(c) == /\ Way(d, q3, n, st, a, c)
                        /\ c.n = n \/ v # Eof
                        /\ v # Eof => /\ c.st = "len" /\ c.n = v
                                      /\ c.count = nn.next /\ c.shake = ww.next
  <1>15. ASSUME v = Eof /\ fmt.sec = "none"
         PROVE \E c \in Pos : Goal(c)
    <2>1. q2 = q1 /\ c1.st = "end" /\ c1.n = n
      BY <1>12, <1>15, <1>2, ValuesOK DEF Eof
    <2>2. Fits(d, c1, m3, c1)
      BY <1>7, <2>1 DEF Fits
    <2>3. Way(d, Append(q1, m3), n, st, a, c1)
      BY <1>6, <1>10, <1>11, <1>13, <1>14, <2>2, WayAppend
    <2>4. Way(d, q3, n, st, a, c1)
      BY <1>14, <2>1, <2>3
    <2> HIDE DEF q2, q3
    <2>5. Goal(c1)
      BY <1>15, <2>1, <2>4
    <2> HIDE DEF Goal
    <2> QED
      BY <1>11, <2>5
  <1>16. ASSUME ~(v = Eof /\ fmt.sec = "none")
         PROVE \E c \in Pos : Goal(c)
    <2> DEFINE c0 == [c1 EXCEPT !.count = nn.next]
    <2>1. q2 = Append(q1, m2) /\ c1.st = "data"
      BY <1>12, <1>16
    <2>2. BehindData(d, c1) \in Pos /\ Fits(d, c1, m2, BehindData(d, c1))
      BY <1>7, <1>9, <1>11, <1>12, <2>1, PositionsOK DEF Fits, nn
    <2>3. /\ c0 \in Pos /\ c0.count = nn.next /\ c0.st = "data" /\ c0.n = b.n
          /\ c0.v = v /\ c0.shake = ww.next
      BY <1>3, <1>11, <1>12, <2>1 DEF Pos
    <2>4. CASE ~Padded
      <3>1. BehindData(d, c1) = Behind(c0) /\ q3 = q2
        BY <1>12, <2>4 DEF BehindData, nn
      <3> HIDE DEF c0
      <3>2. /\ Behind(c0).count = nn.next /\ Behind(c0).shake = ww.next
            /\ PosOK(Behind(c0), n, st)
            /\ v = Eof => Behind(c0).n = b.n
            /\ v # Eof => Behind(c0).st = "len" /\ Behind(c0).n = b.n + 1
        BY <2>3, BehindOK
      <3>3. Way(d, Append(q1, m2), n, st, a, Behind(c0))
        BY <1>6, <1>10, <1>14, <2>2, <3>1, <3>2, WayAppend
      <3>4. (v = Eof => b.n = n) /\ (v # Eof => b.n + 1 = v)
        BY <1>2, ValuesOK DEF Eof
      <3>5. Way(d, q3, n, st, a, Behind(c0))
        BY <2>1, <3>1, <3>3
      <3> HIDE DEF q2, q3
      <3>6. Goal(Behind(c0))
        BY <3>2, <3>4, <3>5
      <3> HIDE DEF Goal
      <3> QED
        BY <2>2, <3>1, <3>6
    <2>5. CASE Padded
      <3> DEFINE c2 == [c1 EXCEPT !.st = "pad", !.count = nn.next]
      <3>1. BehindData(d, c1) = c2 /\ q3 = Append(q2, m3)
        BY <1>12, <2>5 DEF BehindData, nn
      <3>2. /\ c2 \in Pos /\ c2.count = nn.next /\ c2.st = "pad" /\ c2.n = b.n
            /\ c2.v = v /\ c2.shake = ww.next
        BY <1>3, <1>11, <1>12, <2>1 DEF Pos
      <3> HIDE DEF c2
      <3>3. PosOK(c2, n, st)
        BY <1>12, <1>13, <1>2, <3>2 DEF PosOK
      <3>4. Way(d, q2, n, st, a, c2)
        BY <1>6, <1>10, <1>14, <2>1, <2>2, <3>1, <3>3, WayAppend
      <3>5. /\ Behind(c2).count = nn.next /\ Behind(c2).shake = ww.next
            /\ PosOK(Behind(c2), n, st)
            /\ v = Eof => Behind(c2).n = b.n
            /\ v # Eof => Behind(c2).st = "len" /\ Behind(c2).n = b.n + 1
        BY <3>2, BehindOK
      <3>6. Behind(c2) \in Pos
        BY <3>2, PositionsOK
      <3>7. Fits(d, c2, m3, Behind(c2))
        BY <1>7, <3>2 DEF Fits
      <3> HIDE DEF q2
      <3>8. Way(d, Append(q2, m3), n, st, a, Behind(c2))
        BY <1>6, <1>10, <3>4, <3>5, <3>6, <3>7, WayAppend
      <3>9. (v = Eof => b.n = n) /\ (v # Eof => b.n + 1 = v)
        BY <1>2, ValuesOK DEF Eof
      <3>10. Way(d, q3, n, st, a, Behind(c2))
        BY <3>1, <3>8
      <3> HIDE DEF q3
      <3>11. Goal(Behind(c2))
        BY <3>5, <3>9, <3>10
      <3> HIDE DEF Goal
      <3> QED
        BY <3>6, <3>11
    <2> QED
      BY <2>4, <2>5
  <1>17. \E c \in Pos : Goal(c)
    BY <1>15, <1>16
  <1>18. q3 = q \o Chunk(nn, ww, v)
    <2>1. \A x \in Seq(PieceT), m \in PieceT : Append(x, m) = x \o <<m>>
      BY AppendIs
    <2>2. \A x, y, z \in Seq(PieceT) : (x \o y) \o z = x \o (y \o z)
      BY PiecesAssociate
    <2>3. \A x \in Seq(PieceT) : x \o <<>> = x
      OBVIOUS
    <2>4. <<m1>> \in Seq(PieceT) /\ <<m2>> \in Seq(PieceT) /\ <<m3>> \in Seq(PieceT) /\ <<>> \in Seq(PieceT)
      BY <1>6
    <2> DEFINE A == IF v = Eof /\ fmt.sec = "none" THEN <<>> ELSE <<m2>>
               B == IF Padded THEN <<m3>> ELSE <<>>
    <2>5. A \in Seq(PieceT) /\ B \in Seq(PieceT)
      BY <2>4
    <2>6. q1 = q \o <<m1>>
      BY <1>6, <2>1 DEF q1
    <2>7. q2 = q1 \o A
      BY <1>6, <1>10, <2>1, <2>3
    <2>8. q3 = q2 \o B
      BY <1>6, <1>10, <2>1, <2>3
    <2>9. Chunk(nn, ww, v) = (<<m1>> \o A) \o B
      BY DEF Chunk, m1, m2, m3
    <2> HIDE DEF A, B, q2, q3
    <2>10. <<m1>> \o A \in Seq(PieceT)
      BY <2>4, <2>5
    <2>11. q3 = (q \o (<<m1>> \o A)) \o B
      BY <2>2, <2>4, <2>5, <2>6, <2>7, <2>8
    <2>12. (q \o (<<m1>> \o A)) \o B = q \o ((<<m1>> \o A) \o B)
      BY <2>2, <2>5, <2>10
    <2> QED
      BY <2>9, <2>11, <2>12
  <1>19. Len(q3) >= Len(q) /\ \A i \in 1..Len(q3) : q3[i] = Fin => i <= Len(q) /\ q[i] = Fin
    <2>1. ASSUME NEW x \in Seq(PieceT), NEW m \in PieceT, m # Fin, Len(x) >= Len(q),
                 \A i \in 1..Len(x) : x[i] = Fin => i <= Len(q) /\ q[i] = Fin
          PROVE /\ Len(Append(x, m)) >= Len(q)
                /\ \A i \in 1..Len(Append(x, m)) : Append(x, m)[i] = Fin => i <= Len(q) /\ q[i] = Fin
      BY <2>1
    <2> DEFINE OK(x) == /\ Len(x) >= Len(q)
                        /\ \A i \in 1..Len(x) : x[i] = Fin => i <= Len(q) /\ q[i] = Fin
    <2>2. OK(q)
      OBVIOUS
    <2>3. \A x \in Seq(PieceT), m \in PieceT : OK(x) /\ m # Fin => OK(Append(x, m))
      BY <2>1
    <2> HIDE DEF OK
    <2>4. OK(q1)
      BY <1>6, <1>7, <2>2, <2>3 DEF q1
    <2>5. OK(q2)
      BY <1>6, <1>7, <1>10, <2>3, <2>4
    <2>6. OK(q3)
      BY <1>6, <1>7, <1>10, <2>3, <2>5
    <2> QED
      BY <2>6 DEF OK
  <1> HIDE DEF q2, q3
  <1> QED
    BY <1>10, <1>17, <1>18, <1>19 DEF nn, ww

\* A writer appends a header.
LEMMA WayHeader ==
    ASSUME Types, NEW d \in Dir, NEW q \in Seq(PieceT), NEW n \in Nat, NEW st, NEW a,
           Way(d, q, n, st, a, First), NEW v \in Value
    PROVE LET x == q \o HeaderOf(fmt, v)
          IN /\ x \in Seq(PieceT) /\ Len(x) >= Len(q)
             /\ \A i \in 1..Len(x) : x[i] = Fin => i <= Len(q) /\ q[i] = Fin
             /\ Way(d, x, n, st, a, Start)
  <1> DEFINE m1 == Piece("len", 0, NoWord, NoWord, v)
             m2 == Piece("data", Inc(0), NoWord, NoWord, v)
             m3 == Piece("data", Unsealed, NoWord, NoWord, v)
             c == [First EXCEPT !.st = "header2"]
  <1>1. m1 \in PieceT /\ m2 \in PieceT /\ m3 \in PieceT
    <2>1. /\ 0 \in 0..CountMod /\ Inc(0) \in 0..CountMod /\ Unsealed \in 0..CountMod
          /\ NoWord \in Nat
      BY IncOK, ChunkAssumption DEF Unsealed, NoWord
    <2> QED
      BY <2>1, PieceOK
  <1>2. m1 # Fin /\ m2 # Fin /\ m3 # Fin
    BY FinPiece
  <1>3. First \in Pos /\ Start \in Pos /\ First.st = "header"
    BY WayEnds, PositionsOK DEF First
  <1>4. PosOK(Start, n, st) /\ Start.st = "len"
    BY DEF Start, PosOK
  <1>5. c \in Pos /\ PosOK(c, n, st) /\ c.st = "header2"
    <2>1. c \in Pos
      BY <1>3, PositionsOK
    <2>2. c.st = "header2" /\ c.n = 0 /\ c.v = NoVal
      BY DEF First
    <2> HIDE DEF c
    <2> QED
      BY <2>1, <2>2 DEF PosOK
  <1> HIDE DEF m1, m2, m3, c
  <1>6. CASE Ss
    <2>1. HeaderOf(fmt, v) = <<m1, m2>>
      BY <1>6 DEF HeaderOf, Ss, m1, m2
    <2>2. Append(q, m1) \in Seq(PieceT) /\ q \o <<m1, m2>> = Append(Append(q, m1), m2)
      BY <1>1
    <2>3. Fits(d, First, m1, c) /\ Fits(d, c, m2, Start)
      BY <1>2, <1>3, <1>5, <1>6 DEF Fits, c
    <2>4. Way(d, Append(q, m1), n, st, a, c)
      BY <1>1, <1>5, <2>3, WayAppend
    <2>5. Way(d, Append(Append(q, m1), m2), n, st, a, Start)
      BY <1>1, <1>3, <1>4, <2>2, <2>3, <2>4, WayAppend
    <2>6. /\ q \o <<m1, m2>> \in Seq(PieceT) /\ Len(q \o <<m1, m2>>) >= Len(q)
          /\ \A i \in 1..Len(q \o <<m1, m2>>) : (q \o <<m1, m2>>)[i] = Fin => i <= Len(q) /\ q[i] = Fin
      BY <1>1, <1>2
    <2> QED
      BY <2>1, <2>2, <2>5, <2>6
  <1>7. CASE ~Ss
    <2>1. HeaderOf(fmt, v) = <<m3>>
      BY <1>7 DEF HeaderOf, Ss, m3
    <2>2. q \o <<m3>> = Append(q, m3)
      BY <1>1
    <2>3. Fits(d, First, m3, Start)
      BY <1>2, <1>3, <1>7 DEF Fits
    <2>4. Way(d, Append(q, m3), n, st, a, Start)
      BY <1>1, <1>3, <1>4, <2>3, WayAppend
    <2>5. /\ q \o <<m3>> \in Seq(PieceT) /\ Len(q \o <<m3>>) >= Len(q)
          /\ \A i \in 1..Len(q \o <<m3>>) : (q \o <<m3>>)[i] = Fin => i <= Len(q) /\ q[i] = Fin
      BY <1>1, <1>2
    <2> QED
      BY <2>1, <2>2, <2>4, <2>5
  <1> QED
    BY <1>6, <1>7

\* A chunk of a stream that is copied as it is.
LEMMA WayRaw ==
    ASSUME Types, NEW d \in Dir, NEW q \in Seq(PieceT), NEW n \in Nat, NEW st, NEW a, NEW b,
           Way(d, q, n, st, a, b), b.st = "len", Raw,
           NEW m \in PieceT, m # Fin, m.v = b.n + 1, m.v <= n
    PROVE /\ Append(q, m) \in Seq(PieceT)
          /\ \A i \in 1..Len(Append(q, m)) : Append(q, m)[i] = Fin => i <= Len(q) /\ q[i] = Fin
          /\ \E c \in Pos : /\ Way(d, Append(q, m), n, st, a, c)
                            /\ c.st = "len" /\ c.n = m.v /\ c.count = b.count /\ c.shake = b.shake
  <1> DEFINE c == [b EXCEPT !.n = b.n + 1]
  <1>1. b \in Pos /\ PosOK(b, n, st)
    BY WayEnds
  <1>2. /\ c \in Pos /\ c.st = "len" /\ c.n = m.v /\ c.count = b.count /\ c.shake = b.shake
        /\ c.v = NoVal
    <2>1. b.v = NoVal
      BY <1>1 DEF PosOK
    <2>2. c \in Pos
      BY <1>1, PositionsOK
    <2> QED
      BY <1>1, <2>1, <2>2 DEF Pos
  <1>3. Fits(d, b, m, c)
    BY DEF Fits
  <1> HIDE DEF c
  <1>4. PosOK(c, n, st)
    BY <1>2 DEF PosOK
  <1>5. Way(d, Append(q, m), n, st, a, c)
    BY <1>2, <1>3, <1>4, WayAppend
  <1> QED
    BY <1>2, <1>5

\* The length of a header.
LEMMA HeaderLenIs == HeaderLen = IF Ss THEN 2 ELSE 1
  BY DEF HeaderLen, HeaderOf, Ss

\* A reader takes a header.
LEMMA WayPastHeader ==
    ASSUME Types, NEW d \in Dir, NEW q \in Seq(PieceT), NEW n \in Nat, NEW st, NEW a, NEW b,
           Way(d, q, n, st, a, b), a.st = "header", Len(q) >= HeaderLen,
           \A i \in 1..HeaderLen : q[i] # Fin
    PROVE LET x == SubSeq(q, HeaderLen + 1, Len(q))
          IN /\ x \in Seq(PieceT) /\ Len(x) <= Len(q)
             /\ \A i \in 1..Len(x) : x[i] = q[i + (Len(q) - Len(x))]
             /\ Way(d, x, n, st, Start, b)
  <1> DEFINE y == Tail(q)
  <1>1. q # <<>> /\ Head(q) = q[1] /\ q[1] # Fin /\ Len(q) \in Nat
    BY HeaderLenIs
  <1>2. /\ y \in Seq(PieceT) /\ Len(y) = Len(q) - 1
        /\ \A i \in 1..Len(y) : y[i] = q[i + 1]
    BY <1>1
  <1>3. PICK c \in Pos : Fits(d, a, q[1], c) /\ Way(d, y, n, st, c, b)
    BY <1>1, WayTail
  <1>4. CASE ~Ss
    <2>1. SubSeq(q, HeaderLen + 1, Len(q)) = y
      BY <1>1, <1>4, HeaderLenIs, TailIsSubSeq
    <2>2. c = Start
      BY <1>1, <1>3, <1>4 DEF Fits
    <2> HIDE DEF y
    <2>3. Len(q) - Len(y) = 1 /\ Len(y) <= Len(q)
      BY <1>1, <1>2
    <2>4. \A i \in 1..Len(y) : y[i] = q[i + (Len(q) - Len(y))]
      BY <1>2, <2>3
    <2> QED
      BY <1>2, <1>3, <2>1, <2>2, <2>3, <2>4
  <1>5. CASE Ss
    <2> DEFINE z == SubSeq(q, 3, Len(q))
    <2>1. c.st = "header2"
      <3>1. c = [a EXCEPT !.st = "header2"]
        BY <1>1, <1>3, <1>5 DEF Fits
      <3>2. a \in Pos
        BY WayEnds
      <3> QED
        BY <3>1, <3>2 DEF Pos
    <2>2. Len(q) >= 2 /\ q[2] # Fin
      BY <1>5, HeaderLenIs
    <2>3. y # <<>> /\ Head(y) = q[2]
      <3> HIDE DEF y
      <3>1. 1 \in 1..Len(y) /\ 1 + 1 = 2
        BY <1>1, <1>2, <2>2
      <3>2. y[1] = q[2]
        BY <1>2, <3>1
      <3>3. y # <<>> /\ Head(y) = y[1]
        BY <1>2, <3>1
      <3> QED
        BY <3>2, <3>3
    <2>4. /\ z \in Seq(PieceT) /\ Len(z) = Len(q) - 2
          /\ \A i \in 1..Len(z) : z[i] = q[i + 2]
      <3>1. \A i \in 3..Len(q) : q[i] \in PieceT
        OBVIOUS
      <3>2. /\ z \in Seq(PieceT) /\ Len(z) = IF 3 <= Len(q) THEN Len(q) - 3 + 1 ELSE 0
            /\ \A i \in 1..(Len(q) - 3 + 1) : z[i] = q[3 + i - 1]
        BY <1>1, <3>1, SubSeqProperties
      <3> HIDE DEF z
      <3>3. Len(z) = Len(q) - 2 /\ Len(q) - 3 + 1 = Len(q) - 2
        <4>1. Len(z) = IF 3 <= Len(q) THEN Len(q) - 3 + 1 ELSE 0
          BY <3>2
        <4>2. \A l \in Nat : l >= 2 => /\ l - 3 + 1 = l - 2
                                       /\ (IF 3 <= l THEN l - 3 + 1 ELSE 0) = l - 2
          OBVIOUS
        <4> QED
          BY <1>1, <2>2, <4>1, <4>2
      <3>4. \A i \in 1..Len(z) : 3 + i - 1 = i + 2
        BY <1>1, <3>3
      <3> QED
        BY <3>2, <3>3, <3>4
    <2>5. z = Tail(y)
      <3>1. /\ Tail(y) \in Seq(PieceT) /\ Len(Tail(y)) = Len(y) - 1
            /\ \A i \in 1..Len(Tail(y)) : Tail(y)[i] = y[i + 1]
        BY <1>2, <2>3, HeadTailProperties
      <3>2. Len(z) = Len(Tail(y))
        BY <1>1, <1>2, <2>4, <3>1
      <3> HIDE DEF y, z
      <3>3. ASSUME NEW i \in 1..Len(z)
            PROVE z[i] = Tail(y)[i]
        <4>1. Tail(y)[i] = y[i + 1]
          BY <3>1, <3>2
        <4>2. i + 1 \in 1..Len(y) /\ (i + 1) + 1 = i + 2
          BY <1>1, <1>2, <2>4
        <4>3. y[i + 1] = q[i + 2]
          BY <1>2, <4>2
        <4> QED
          BY <2>4, <4>1, <4>3
      <3> QED
        BY <2>4, <3>1, <3>2, <3>3, SeqEqual
    <2> HIDE DEF y, z
    <2>6. PICK c2 \in Pos : Fits(d, c, q[2], c2) /\ Way(d, z, n, st, c2, b)
      BY <1>2, <1>3, <2>3, <2>5, WayTail
    <2>7. c2 = Start
      BY <2>1, <2>2, <2>6 DEF Fits
    <2>8. SubSeq(q, HeaderLen + 1, Len(q)) = z
      BY <1>5, HeaderLenIs DEF z
    <2>9. Len(q) - Len(z) = 2 /\ Len(z) <= Len(q)
      BY <1>1, <2>4
    <2>10. \A i \in 1..Len(z) : z[i] = q[i + (Len(q) - Len(z))]
      BY <2>4, <2>9
    <2> QED
      BY <2>4, <2>6, <2>7, <2>8, <2>9, <2>10
  <1> QED
    BY <1>4, <1>5

-----------------------------------------------------------------------------
(* From one state to the next                                               *)

\* A way depends on the format alone, which never changes.
LEMMA WayStays ==
    ASSUME fmt' = fmt, NEW d, NEW q, NEW n, NEW st, NEW a, NEW b, Way(d, q, n, st, a, b)
    PROVE Way(d, q, n, st, a, b)'
  <1>1. Ss' = Ss /\ Raw' = Raw /\ Padded' = Padded /\ Masked' = Masked /\ LenSealed' = LenSealed
    BY DEF Ss, Raw, Padded, Masked, LenSealed
  <1>2. ASSUME NEW p, NEW m, NEW c, Fits(d, p, m, c)
        PROVE Fits(d, p, m, c)'
    <2>1. \A x : Nonces(d, x)' = Nonces(d, x)
      BY <1>1 DEF Nonces, ClientNonces, WriteNonces
    <2>2. \A x : Words(x)' = Words(x)
      BY <1>1 DEF Words
    <2>3. Start' = Start
      BY DEF Start
    <2>4. \A x : BehindLen(p, x)' = BehindLen(p, x)
      BY <2>2 DEF BehindLen
    <2>5. BehindData(d, p)' = BehindData(d, p)
      BY <1>1, <2>1 DEF BehindData
    <2>6. Behind(p)' = Behind(p)
      BY DEF Behind
    <2> QED
      BY <1>1, <1>2, <2>1, <2>2, <2>3, <2>4, <2>5, <2>6 DEF Fits
  <1>3. ASSUME NEW p, PosOK(p, n, st)
        PROVE PosOK(p, n, st)'
    BY <1>1, <1>3 DEF PosOK
  <1>4. PICK e \in [0..Len(q) -> Pos] :
            /\ Run(d, q, e)
            /\ \A i \in 0..Len(q) : PosOK(e[i], n, st)
            /\ e[0] = a /\ e[Len(q)] = b
    BY DEF Way
  <1>5. \A i \in 1..Len(q) : Fits(d, e[i - 1], q[i], e[i])'
    BY <1>2, <1>4 DEF Run
  <1>6. Run(d, q, e)'
    BY <1>4, <1>5 DEF Run
  <1>7. \A i \in 0..Len(q) : PosOK(e[i], n, st)'
    BY <1>3, <1>4
  <1> QED
    BY <1>4, <1>6, <1>7 DEF Way

\* How a direction is shown to be in step again.
LEMMA OnTheWayNext ==
    ASSUME fmt' = fmt, NEW d, NEW q, NEW n, NEW st, NEW a \in Pos, NEW b \in Pos,
           Way(d, q, n, st, a, b), wire'[d] = q, Len(sent'[d]) = n, w'[d].st = st,
           ReaderAt(a, r'[d], Len(got'[d])),
           ~lost' => WriterAt(d, b, w'[d], Len(sent'[d]), phase')
    PROVE OnTheWay(d)'
  <1>1. Way(d, q, n, st, a, b)'
    BY WayStays
  <1>2. Way(d, wire[d], Len(sent[d]), w[d].st, a, b)'
    BY <1>1
  <1> QED
    BY <1>2 DEF OnTheWay

\* The format never changes, nor what depends on it.
LEMMA FmtStays ==
    ASSUME fmt' = fmt, NEW d
    PROVE /\ Ss' = Ss /\ Raw' = Raw /\ Padded' = Padded
          /\ Unreadable(d)' = Unreadable(d)
  BY DEF Ss, Raw, Padded, Unreadable

\* The two ends of a direction.
LEMMA Ends ==
    ASSUME Types, NEW d \in Dir, OnTheWay(d)
    PROVE /\ wire[d] \in Seq(PieceT) /\ Len(sent[d]) \in Nat /\ Len(got[d]) \in Nat
          /\ w[d] \in Writer /\ r[d] \in Reader
          /\ \E a, b \in Pos :
               /\ Way(d, wire[d], Len(sent[d]), w[d].st, a, b)
               /\ PosOK(a, Len(sent[d]), w[d].st)
               /\ ReaderAt(a, r[d], Len(got[d]))
               /\ ~lost => WriterAt(d, b, w[d], Len(sent[d]), phase)
  <1>1. /\ wire[d] \in Seq(PieceT) /\ Len(sent[d]) \in Nat /\ Len(got[d]) \in Nat
        /\ w[d] \in Writer /\ r[d] \in Reader
    BY DEF Types
  <1>2. PICK a \in Pos, b \in Pos :
               /\ Way(d, wire[d], Len(sent[d]), w[d].st, a, b)
               /\ ReaderAt(a, r[d], Len(got[d]))
               /\ ~lost => WriterAt(d, b, w[d], Len(sent[d]), phase)
    BY DEF OnTheWay
  <1>3. PosOK(a, Len(sent[d]), w[d].st)
    BY <1>1, <1>2, WayEnds
  <1> QED
    BY <1>1, <1>2, <1>3

\* A direction that a step leaves alone.
LEMMA DirStays ==
    ASSUME Types, NEW d \in Dir, DirOK(d), fmt' = fmt, lost' = lost,
           wire'[d] = wire[d], w'[d] = w[d], r'[d] = r[d], sent'[d] = sent[d], got'[d] = got[d],
           d = "up" \/ w[d].st # "open" \/ (phase \in {"header", "dial"} <=> phase' \in {"header", "dial"})
    PROVE DirOK(d)'
  <1>1. OnTheWay(d) /\ Numbered(d) /\ FinOK(d) /\ StoppedOK(d)
    BY DEF DirOK
  <1>2. PICK a \in Pos, b \in Pos :
               /\ Way(d, wire[d], Len(sent[d]), w[d].st, a, b)
               /\ ReaderAt(a, r[d], Len(got[d]))
               /\ ~lost => WriterAt(d, b, w[d], Len(sent[d]), phase)
    BY <1>1 DEF OnTheWay
  <1>3. ~lost' => WriterAt(d, b, w'[d], Len(sent'[d]), phase')
    BY <1>2 DEF WriterAt
  <1>4. OnTheWay(d)'
    <2>1. ReaderAt(a, r'[d], Len(got'[d]))
      BY <1>2
    <2> QED
      BY <1>2, <1>3, <2>1, OnTheWayNext
  <1>5. Numbered(d)'
    BY <1>1 DEF Numbered
  <1>6. FinOK(d)'
    BY <1>1 DEF FinOK
  <1>7. StoppedOK(d)'
    BY <1>1, FmtStays DEF StoppedOK
  <1> QED
    BY <1>4, <1>5, <1>6, <1>7 DEF DirOK

\* A writer stops; its stream ends there, if it has not ended before.
LEMMA WriterStops ==
    ASSUME Types, NEW d \in Dir, DirOK(d), fmt' = fmt, lost' = lost,
           w'[d].st = "done", r'[d] = r[d], sent'[d] = sent[d], got'[d] = got[d],
           \/ wire'[d] = wire[d]
           \/ wire'[d] = Append(wire[d], Fin) /\ \A i \in 1..Len(wire[d]) : wire[d][i] # Fin
    PROVE DirOK(d)'
  <1>1. OnTheWay(d) /\ Numbered(d) /\ FinOK(d) /\ StoppedOK(d)
    BY DEF DirOK
  <1>2. wire[d] \in Seq(PieceT) /\ Len(sent[d]) \in Nat
    BY <1>1, Ends
  <1>3. PICK a \in Pos, b \in Pos :
               /\ Way(d, wire[d], Len(sent[d]), w[d].st, a, b)
               /\ ReaderAt(a, r[d], Len(got[d]))
               /\ ~lost => WriterAt(d, b, w[d], Len(sent[d]), phase)
    BY <1>1 DEF OnTheWay
  <1>4. Way(d, wire[d], Len(sent[d]), "done", a, b)
    BY <1>2, <1>3, WayGrows
  <1>5. PosOK(b, Len(sent[d]), "done")
    BY <1>2, <1>4, WayEnds
  <1>6. Fits(d, b, Fin, b) /\ Fin \in PieceT
    BY FinPiece DEF Fits
  <1>7. Way(d, Append(wire[d], Fin), Len(sent[d]), "done", a, b)
    BY <1>2, <1>3, <1>4, <1>5, <1>6, WayAppend
  <1>8. Way(d, wire'[d], Len(sent[d]), "done", a, b)
    BY <1>4, <1>7
  <1>9. ~lost' => WriterAt(d, b, w'[d], Len(sent'[d]), phase')
    BY <1>3 DEF WriterAt
  <1>10. OnTheWay(d)'
    <2>1. ReaderAt(a, r'[d], Len(got'[d]))
      BY <1>3
    <2>2. PICK q : q = wire'[d]
      OBVIOUS
    <2>3. Way(d, q, Len(sent[d]), "done", a, b)
      BY <1>8, <2>2
    <2>4. PICK n : n = Len(sent[d])
      OBVIOUS
    <2>5. Way(d, q, n, "done", a, b)
      BY <2>3, <2>4
    <2> QED
      BY <1>3, <1>9, <2>1, <2>2, <2>4, <2>5, OnTheWayNext
  <1>11. Numbered(d)'
    BY <1>1 DEF Numbered
  <1>12. FinOK(d)'
    <2>1. CASE wire'[d] = wire[d]
      BY <1>1, <2>1 DEF FinOK
    <2>2. CASE wire'[d] = Append(wire[d], Fin) /\ \A i \in 1..Len(wire[d]) : wire[d][i] # Fin
      <3>1. /\ Len(wire'[d]) = Len(wire[d]) + 1
            /\ \A i \in 1..Len(wire[d]) : wire'[d][i] = wire[d][i]
            /\ Len(wire[d]) \in Nat
        BY <1>2, <1>6, <2>2
      <3>2. \A i \in 1..Len(wire'[d]) : wire'[d][i] = Fin => i = Len(wire'[d])
        BY <2>2, <3>1
      <3> QED
        BY <3>2 DEF FinOK
    <2> QED
      BY <2>1, <2>2
  <1>13. StoppedOK(d)'
    BY <1>1, FmtStays DEF StoppedOK
  <1> QED
    BY <1>10, <1>11, <1>12, <1>13 DEF DirOK

\* A reader stops without reading on, because of something else than the stream.
LEMMA ReaderStops ==
    ASSUME Types, NEW d \in Dir, DirOK(d), fmt' = fmt, lost' = lost, d = "up",
           wire'[d] = wire[d], w'[d] = w[d], r'[d].st = "refused", sent'[d] = sent[d], got'[d] = got[d]
    PROVE DirOK(d)'
  <1>1. OnTheWay(d) /\ Numbered(d) /\ FinOK(d) /\ StoppedOK(d)
    BY DEF DirOK
  <1>2. PICK a \in Pos, b \in Pos :
               /\ Way(d, wire[d], Len(sent[d]), w[d].st, a, b)
               /\ ~lost => WriterAt(d, b, w[d], Len(sent[d]), phase)
    BY <1>1 DEF OnTheWay
  <1>3. ~lost' => WriterAt(d, b, w'[d], Len(sent'[d]), phase')
    BY <1>2 DEF WriterAt
  <1>4. OnTheWay(d)'
    <2>1. ReaderAt(a, r'[d], Len(got'[d]))
      BY DEF ReaderAt
    <2> QED
      BY <1>2, <1>3, <2>1, OnTheWayNext
  <1>5. Numbered(d)'
    BY <1>1 DEF Numbered
  <1>6. FinOK(d)'
    BY <1>1 DEF FinOK
  <1>7. StoppedOK(d)'
    BY <1>1, FmtStays DEF StoppedOK
  <1> QED
    BY <1>4, <1>5, <1>6, <1>7 DEF DirOK

\* The connection breaks.
LEMMA DirCut ==
    ASSUME Types, NEW d \in Dir, DirOK(d), fmt' = fmt, lost' = TRUE, NEW k \in 0..Len(wire[d]),
           wire'[d] = Append(SubSeq(wire[d], 1, k), Fin),
           w'[d] = w[d], r'[d] = r[d], sent'[d] = sent[d], got'[d] = got[d]
    PROVE DirOK(d)' /\ wire'[d] \in Seq(PieceT)
  <1>1. OnTheWay(d) /\ Numbered(d) /\ FinOK(d) /\ StoppedOK(d)
    BY DEF DirOK
  <1>2. wire[d] \in Seq(PieceT)
    BY <1>1, Ends
  <1>3. PICK a \in Pos, b \in Pos :
               /\ Way(d, wire[d], Len(sent[d]), w[d].st, a, b)
               /\ ReaderAt(a, r[d], Len(got[d]))
    BY <1>1 DEF OnTheWay
  <1> DEFINE q == SubSeq(wire[d], 1, k)
  <1>4. q \in Seq(PieceT)
    BY <1>2, <1>3, WayCut
  <1>5. PICK c \in Pos : Way(d, q, Len(sent[d]), w[d].st, a, c)
    BY <1>2, <1>3, WayCut
  <1> HIDE DEF q
  <1>6. PosOK(c, Len(sent[d]), w[d].st)
    BY <1>4, <1>5, WayEnds
  <1>7. Fits(d, c, Fin, c) /\ Fin \in PieceT
    BY FinPiece DEF Fits
  <1>8. Way(d, Append(q, Fin), Len(sent[d]), w[d].st, a, c)
    BY <1>4, <1>5, <1>6, <1>7, WayAppend
  <1>9. Append(q, Fin) \in Seq(PieceT) /\ wire'[d] = Append(q, Fin)
    BY <1>4, <1>7 DEF q
  <1>10. OnTheWay(d)'
    <2>1. ReaderAt(a, r'[d], Len(got'[d]))
      BY <1>3
    <2>2. PICK x : x = wire'[d]
      OBVIOUS
    <2>3. Way(d, x, Len(sent[d]), w[d].st, a, c)
      BY <1>8, <1>9, <2>2
    <2>4. PICK n, st : n = Len(sent[d]) /\ st = w[d].st
      OBVIOUS
    <2>5. Way(d, x, n, st, a, c)
      BY <2>3, <2>4
    <2> QED
      BY <1>3, <2>1, <2>2, <2>4, <2>5, OnTheWayNext
  <1>11. Numbered(d)'
    BY <1>1 DEF Numbered
  <1>12. FinOK(d)'
    BY DEF FinOK
  <1>13. StoppedOK(d)'
    BY <1>1, FmtStays DEF StoppedOK
  <1> QED
    BY <1>9, <1>10, <1>11, <1>12, <1>13 DEF DirOK

-----------------------------------------------------------------------------
(* What the writers do                                                      *)

\* A writer that is still writing is before a chunk, and its stream has not ended.
LEMMA WriterOpen ==
    ASSUME Types, NEW d \in Dir, DirOK(d), ~lost, w[d].st = "open",
           d = "down" => phase \notin {"header", "dial"}
    PROVE /\ \A i \in 1..Len(wire[d]) : wire[d][i] # Fin
          /\ r[d].st \notin {"ended", "short"}
          /\ \E a, b \in Pos :
               /\ Way(d, wire[d], Len(sent[d]), "open", a, b)
               /\ ReaderAt(a, r[d], Len(got[d]))
               /\ b.st = "len" /\ b.count = w[d].count /\ b.shake = w[d].shake /\ b.n = Len(sent[d])
  <1>1. PICK a \in Pos, b \in Pos :
               /\ Way(d, wire[d], Len(sent[d]), w[d].st, a, b)
               /\ ReaderAt(a, r[d], Len(got[d]))
               /\ WriterAt(d, b, w[d], Len(sent[d]), phase)
    BY DEF DirOK, OnTheWay
  <1>2. b.st = "len" /\ b.count = w[d].count /\ b.shake = w[d].shake /\ b.n = Len(sent[d])
    BY <1>1 DEF WriterAt
  <1>3. \A i \in 1..Len(wire[d]) : wire[d][i] # Fin
    BY DEF DirOK, FinOK
  <1>4. r[d].st \notin {"ended", "short"}
    BY DEF DirOK, StoppedOK
  <1> QED
    BY <1>1, <1>2, <1>3, <1>4

\* A writer behind a chunk is a writer.
LEMMA AdvancedOK ==
    ASSUME Types, NEW d \in Dir
    PROVE /\ Advanced(d) \in Writer /\ Advanced(d).st = w[d].st
          /\ ~Raw => /\ Advanced(d).count = Nonces(d, w[d].count).next
                     /\ Advanced(d).shake = Words(w[d].shake).next
          /\ Raw => Advanced(d) = w[d]
  <1>1. w[d] \in Writer /\ w[d].count \in 0..(CountMod - 1) /\ w[d].shake \in Nat
    BY DEF Types, Writer
  <1>2. Nonces(d, w[d].count).next \in 0..(CountMod - 1) /\ Words(w[d].shake).next \in Nat
    BY <1>1, NoncesOK, WordsOK
  <1>3. WordsOf(d, w[d].shake) = Words(w[d].shake)
    BY <1>1, SameWords
  <1>4. CASE Raw
    BY <1>1, <1>4 DEF Advanced
  <1>5. CASE ~Raw
    <2>1. Advanced(d) = [w[d] EXCEPT !.count = Nonces(d, w[d].count).next, !.shake = Words(w[d].shake).next]
      BY <1>1, <1>3, <1>5 DEF Advanced, Writer
    <2> QED
      BY <1>1, <1>2, <1>5, <2>1 DEF Writer
  <1> QED
    BY <1>4, <1>5

\* The next chunk of a direction is written.
LEMMA ChunkWritten ==
    ASSUME Types, NEW d \in Dir, DirOK(d), fmt' = fmt, lost' = lost, phase' = phase,
           ~lost, w[d].st = "open", d = "down" => phase \notin {"header", "dial"},
           r'[d] = r[d], got'[d] = got[d], Len(sent[d]) < MaxChunks,
           wire'[d] = wire[d] \o ChunkOf(d, Len(sent[d]) + 1),
           sent'[d] = Append(sent[d], Len(sent[d]) + 1),
           w'[d] = Advanced(d)
    PROVE DirOK(d)' /\ wire'[d] \in Seq(PieceT)
  <1> DEFINE n == Len(sent[d])
             v == n + 1
             q == wire[d]
             x == q \o ChunkOf(d, v)
  <1>1. q \in Seq(PieceT) /\ n \in Nat /\ sent[d] \in Seq(1..MaxChunks) /\ MaxChunks \in Nat
    BY ChunkAssumption DEF Types
  <1>2. v \in Value /\ v # Eof /\ v \in Nat /\ v \in 1..MaxChunks
    BY <1>1, ValuesOK
  <1>3. PICK a \in Pos, b \in Pos :
               /\ Way(d, q, n, "open", a, b)
               /\ ReaderAt(a, r[d], Len(got[d]))
               /\ b.st = "len" /\ b.count = w[d].count /\ b.shake = w[d].shake /\ b.n = n
    BY WriterOpen
  <1>4. /\ \A i \in 1..Len(q) : q[i] # Fin
        /\ r[d].st \notin {"ended", "short"}
    BY WriterOpen
  <1>5. Len(sent'[d]) = v /\ \A i \in 1..n : sent'[d][i] = sent[d][i]
    BY <1>1, <1>2
  <1>6. sent'[d][v] = v
    BY <1>1, <1>2
  <1> HIDE DEF n, q
  <1>7. Way(d, q, v, "open", a, b)
    BY <1>1, <1>2, <1>3, WayGrows
  <1>8. /\ x \in Seq(PieceT)
        /\ \A i \in 1..Len(x) : x[i] = Fin => i <= Len(q) /\ q[i] = Fin
        /\ \E c \in Pos : /\ Way(d, x, v, "open", a, c)
                          /\ c.st = "len" /\ c.n = v
                          /\ c.count = Advanced(d).count /\ c.shake = Advanced(d).shake
    <2>1. CASE Raw
      <3>1. ChunkOf(d, v) = <<Piece("data", Unsealed, NoWord, NoWord, v)>>
        BY <2>1 DEF ChunkOf
      <3>2. Advanced(d).count = b.count /\ Advanced(d).shake = b.shake
        BY <1>3, <2>1, AdvancedOK
      <3>3. v = b.n + 1 /\ v <= v
        BY <1>1, <1>2, <1>3
      <3> HIDE DEF v
      <3>4. PICK m : m = Piece("data", Unsealed, NoWord, NoWord, v)
        OBVIOUS
      <3>5. m \in PieceT /\ m # Fin /\ m.v = v
        <4>1. Unsealed \in 0..CountMod /\ NoWord \in Nat
          BY ChunkAssumption DEF Unsealed, NoWord
        <4>2. m \in PieceT
          BY <1>2, <3>4, <4>1, PieceOK
        <4>3. m # Fin
          BY <3>4, FinPiece
        <4>4. m.v = v
          BY <3>4 DEF Piece
        <4> QED
          BY <4>2, <4>3, <4>4
      <3>6. x = Append(q, m)
        BY <1>1, <3>1, <3>4, <3>5
      <3> HIDE DEF x
      <3>7. /\ x \in Seq(PieceT)
            /\ \A i \in 1..Len(x) : x[i] = Fin => i <= Len(q) /\ q[i] = Fin
            /\ \E c \in Pos : /\ Way(d, x, v, "open", a, c)
                              /\ c.st = "len" /\ c.n = v /\ c.count = b.count /\ c.shake = b.shake
        <4>1. /\ b.st = "len" /\ m.v = b.n + 1 /\ m.v <= v
              /\ q \in Seq(PieceT) /\ v \in Nat /\ Way(d, q, v, "open", a, b)
          BY <1>1, <1>2, <1>3, <1>7, <3>3, <3>5
        <4>2. \A i \in 1..Len(Append(q, m)) : Append(q, m)[i] = Fin => i <= Len(q) /\ q[i] = Fin
          BY <3>5, <4>1
        <4>3. \E c \in Pos :
                /\ Way(d, Append(q, m), v, "open", a, c)
                /\ c.st = "len" /\ c.n = m.v /\ c.count = b.count /\ c.shake = b.shake
          BY <2>1, <3>5, <4>1, WayRaw
        <4>4. Append(q, m) \in Seq(PieceT)
          BY <3>5, <4>1
        <4> QED
          BY <3>5, <3>6, <4>2, <4>3, <4>4
      <3> QED
        BY <3>2, <3>7
    <2>2. CASE ~Raw
      <3>1. ChunkOf(d, v) = Chunk(Nonces(d, b.count), Words(b.shake), v)
        BY <1>3, <2>2, SameWords DEF ChunkOf, Pos
      <3>2. Advanced(d).count = Nonces(d, b.count).next /\ Advanced(d).shake = Words(b.shake).next
        BY <1>3, <2>2, AdvancedOK
      <3>3. v = b.n + 1 /\ v <= v /\ v <= MaxChunks
        BY <1>1, <1>2, <1>3
      <3> HIDE DEF v
      <3> DEFINE y == q \o Chunk(Nonces(d, b.count), Words(b.shake), v)
      <3>4. /\ y \in Seq(PieceT)
            /\ \A i \in 1..Len(y) : y[i] = Fin => i <= Len(q) /\ q[i] = Fin
            /\ \E c \in Pos : /\ Way(d, y, v, "open", a, c)
                              /\ c.st = "len" /\ c.n = v
                              /\ c.count = Nonces(d, b.count).next /\ c.shake = Words(b.shake).next
        <4>1. q \in Seq(PieceT) /\ v \in Nat /\ v \in Value /\ b.st = "len" /\ v # Eof
          BY <1>1, <1>2, <1>3
        <4>2. \E c \in Pos : /\ Way(d, y, v, "open", a, c)
                              /\ c.st = "len" /\ c.n = v
                              /\ c.count = Nonces(d, b.count).next /\ c.shake = Words(b.shake).next
          BY <1>7, <2>2, <3>3, <4>1, WayChunk
        <4>3. \A i \in 1..Len(y) : y[i] = Fin => i <= Len(q) /\ q[i] = Fin
          BY <1>7, <2>2, <3>3, <4>1, WayChunk
        <4>4. y \in Seq(PieceT)
          BY <1>7, <2>2, <3>3, <4>1, WayChunk
        <4> QED
          BY <4>2, <4>3, <4>4
      <3>5. x = y
        BY <3>1
      <3> HIDE DEF x, y
      <3> QED
        BY <3>2, <3>4, <3>5
    <2> QED
      BY <2>1, <2>2
  <1>9. PICK c \in Pos : /\ Way(d, x, v, "open", a, c)
                         /\ c.st = "len" /\ c.n = v
                         /\ c.count = Advanced(d).count /\ c.shake = Advanced(d).shake
    BY <1>8
  <1>10. wire'[d] = x /\ w'[d].st = "open"
    BY AdvancedOK DEF n, q
  <1>11. WriterAt(d, c, w'[d], Len(sent'[d]), phase')
    BY <1>5, <1>9, <1>10 DEF WriterAt
  <1> HIDE DEF x, v
  <1>12. OnTheWay(d)'
    <2>1. ReaderAt(a, r'[d], Len(got'[d]))
      BY <1>3
    <2> QED
      BY <1>3, <1>5, <1>9, <1>10, <1>11, <2>1, OnTheWayNext
  <1>13. Numbered(d)'
    <2>1. Numbered(d)
      BY DEF DirOK
    <2>2. \A i \in 1..Len(sent'[d]) : sent'[d][i] = i
      <3>1. \A i \in 1..n : sent[d][i] = i
        BY <2>1 DEF Numbered, n
      <3> QED
        BY <1>1, <1>5, <1>6, <3>1 DEF v
    <2>3. Len(got[d]) <= n /\ Len(got[d]) \in Nat
      BY <2>1 DEF Numbered, n, Types
    <2>4. Len(got[d]) <= v /\ v <= MaxChunks
      BY <1>1, <1>2, <2>3 DEF v
    <2>5. \A i \in 1..Len(got[d]) : got[d][i] = i
      BY <2>1 DEF Numbered
    <2> QED
      BY <1>5, <2>2, <2>4, <2>5 DEF Numbered
  <1>14. FinOK(d)'
    <2>1. \A i \in 1..Len(x) : x[i] # Fin
      <3> SUFFICES ASSUME NEW i \in 1..Len(x), x[i] = Fin
                   PROVE FALSE
        OBVIOUS
      <3>1. i <= Len(q) /\ q[i] = Fin
        BY <1>8
      <3>2. i \in 1..Len(q)
        BY <1>1, <1>8, <3>1
      <3> QED
        BY <1>4, <3>1, <3>2
    <2> QED
      BY <1>10, <2>1 DEF FinOK
  <1>15. StoppedOK(d)'
    <2>1. StoppedOK(d)
      BY DEF DirOK
    <2> QED
      BY <1>4, <2>1, FmtStays DEF StoppedOK
  <1> QED
    BY <1>8, <1>10, <1>12, <1>13, <1>14, <1>15 DEF DirOK

\* A writer that ends its stream with a chunk of its own.
LEMMA EofWay ==
    ASSUME Types, NEW d \in Dir, DirOK(d), ~lost, w[d].st = "open", ~Raw,
           d = "down" => phase \notin {"header", "dial"},
           NEW st, st # "open"
    PROVE LET x == wire[d] \o ChunkOf(d, Eof)
          IN /\ x \in Seq(PieceT)
             /\ \A i \in 1..Len(x) : x[i] # Fin
             /\ \E a, c \in Pos : /\ Way(d, x, Len(sent[d]), st, a, c)
                                  /\ ReaderAt(a, r[d], Len(got[d]))
                                  /\ c.n = Len(sent[d])
  <1> DEFINE n == Len(sent[d])
             q == wire[d]
             x == q \o ChunkOf(d, Eof)
  <1>1. q \in Seq(PieceT) /\ n \in Nat
    BY DEF Types
  <1>2. PICK a \in Pos, b \in Pos :
               /\ Way(d, q, n, "open", a, b)
               /\ ReaderAt(a, r[d], Len(got[d]))
               /\ b.st = "len" /\ b.count = w[d].count /\ b.shake = w[d].shake /\ b.n = n
    BY WriterOpen
  <1>3. \A i \in 1..Len(q) : q[i] # Fin
    BY WriterOpen
  <1> HIDE DEF n, q
  <1>4. Way(d, q, n, st, a, b)
    BY <1>1, <1>2, WayGrows
  <1>5. ChunkOf(d, Eof) = Chunk(Nonces(d, b.count), Words(b.shake), Eof)
    BY <1>2, SameWords DEF ChunkOf, Pos
  <1>6. /\ x \in Seq(PieceT)
        /\ \A i \in 1..Len(x) : x[i] = Fin => i <= Len(q) /\ q[i] = Fin
        /\ \E c \in Pos : Way(d, x, n, st, a, c) /\ c.n = n
    BY <1>1, <1>2, <1>4, <1>5, ValuesOK, WayChunk
  <1> HIDE DEF x
  <1>7. \A i \in 1..Len(x) : x[i] # Fin
    <2> SUFFICES ASSUME NEW i \in 1..Len(x), x[i] = Fin
                 PROVE FALSE
      OBVIOUS
    <2>1. i <= Len(q) /\ q[i] = Fin
      BY <1>6
    <2>2. i \in 1..Len(q)
      BY <1>1, <1>6, <2>1
    <2> QED
      BY <1>3, <2>1, <2>2
  <1> QED
    BY <1>2, <1>6, <1>7 DEF x, q, n

\* The chunk that ends a stream is written, and the stream may end there.
LEMMA EofWritten ==
    ASSUME Types, NEW d \in Dir, DirOK(d), fmt' = fmt, lost' = lost,
           ~lost, w[d].st = "open", ~Raw, d = "down" => phase \notin {"header", "dial"},
           r'[d] = r[d], got'[d] = got[d], sent'[d] = sent[d],
           \/ wire'[d] = wire[d] \o ChunkOf(d, Eof) /\ w'[d].st = "eof"
           \/ wire'[d] = wire[d] \o ChunkOf(d, Eof) \o <<Fin>> /\ w'[d].st = "done"
    PROVE DirOK(d)' /\ wire'[d] \in Seq(PieceT)
  <1> DEFINE n == Len(sent[d])
             x == wire[d] \o ChunkOf(d, Eof)
             st == w'[d].st
  <1>1. st \in {"eof", "done"}
    OBVIOUS
  <1>2. x \in Seq(PieceT) /\ \A i \in 1..Len(x) : x[i] # Fin
    BY EofWay
  <1>3. PICK a \in Pos, c \in Pos : /\ Way(d, x, n, st, a, c)
                                    /\ ReaderAt(a, r[d], Len(got[d]))
                                    /\ c.n = n
    <2>1. ASSUME NEW s \in {"eof", "done"}
          PROVE \E a, c \in Pos : Way(d, x, n, s, a, c) /\ ReaderAt(a, r[d], Len(got[d])) /\ c.n = n
      BY EofWay
    <2> HIDE DEF x, n, st
    <2> QED
      BY <1>1, <2>1
  <1>4. r[d].st \notin {"ended", "short"}
    BY WriterOpen
  <1> HIDE DEF x
  <1>5. PosOK(c, n, st)
    BY <1>2, <1>3, WayEnds
  <1>6. Fits(d, c, Fin, c) /\ Fin \in PieceT
    BY FinPiece DEF Fits
  <1>7. Way(d, Append(x, Fin), n, st, a, c)
    BY <1>2, <1>3, <1>5, <1>6, WayAppend
  <1>8. Append(x, Fin) \in Seq(PieceT) /\ x \o <<Fin>> = Append(x, Fin)
    BY <1>2, <1>6
  <1>9. \/ wire'[d] = x /\ st = "eof"
        \/ wire'[d] = Append(x, Fin) /\ st = "done"
    BY <1>8 DEF x
  <1>10. Way(d, wire'[d], n, st, a, c)
    BY <1>3, <1>7, <1>9
  <1>11. WriterAt(d, c, w'[d], Len(sent'[d]), phase')
    BY <1>1, <1>3 DEF WriterAt
  <1>12. OnTheWay(d)'
    <2>1. ReaderAt(a, r'[d], Len(got'[d]))
      BY <1>3
    <2> QED
      BY <1>3, <1>10, <1>11, <2>1, OnTheWayNext
  <1>13. Numbered(d)'
    BY DEF DirOK, Numbered
  <1>14. FinOK(d)'
    <2>1. CASE wire'[d] = x
      BY <1>2, <2>1 DEF FinOK
    <2>2. CASE wire'[d] = Append(x, Fin) /\ st = "done"
      <3>1. /\ Len(wire'[d]) = Len(x) + 1 /\ Len(x) \in Nat
            /\ \A i \in 1..Len(x) : wire'[d][i] = x[i]
        BY <1>2, <1>6, <2>2
      <3>2. \A i \in 1..Len(wire'[d]) : wire'[d][i] = Fin => i = Len(wire'[d])
        BY <1>2, <3>1
      <3> QED
        BY <2>2, <3>2 DEF FinOK
    <2> QED
      BY <1>9, <2>1, <2>2
  <1>15. StoppedOK(d)'
    BY <1>4, FmtStays DEF StoppedOK, DirOK
  <1> QED
    BY <1>2, <1>8, <1>9, <1>12, <1>13, <1>14, <1>15 DEF DirOK

-----------------------------------------------------------------------------
(* What the readers do                                                      *)

\* A reader takes the piece before it: how its direction is shown to be in step again.
LEMMA PieceTaken ==
    ASSUME Types, NEW d \in Dir, DirOK(d), fmt' = fmt, lost' = lost, phase' = phase,
           w'[d] = w[d], sent'[d] = sent[d], wire[d] # <<>>, wire'[d] = Tail(wire[d]),
           NEW b \in Pos, NEW c \in Pos,
           Way(d, Tail(wire[d]), Len(sent[d]), w[d].st, c, b),
           ~lost => WriterAt(d, b, w[d], Len(sent[d]), phase),
           ReaderAt(c, r'[d], Len(got'[d])), StoppedOK(d)',
           \/ got'[d] = got[d]
           \/ got'[d] = Append(got[d], Len(got[d]) + 1) /\ Len(got[d]) + 1 <= Len(sent[d])
    PROVE DirOK(d)' /\ wire'[d] \in Seq(PieceT)
  <1>1. /\ wire[d] \in Seq(PieceT) /\ got[d] \in Seq(1..MaxChunks)
        /\ Len(sent[d]) \in Nat /\ Len(got[d]) \in Nat
    BY DEF Types
  <1>2. /\ Tail(wire[d]) \in Seq(PieceT) /\ Len(Tail(wire[d])) = Len(wire[d]) - 1
        /\ \A i \in 1..Len(Tail(wire[d])) : Tail(wire[d])[i] = wire[d][i + 1]
        /\ Len(wire[d]) \in Nat /\ Len(wire[d]) >= 1
    BY <1>1
  <1>3. OnTheWay(d)'
    <2>1. ~lost' => WriterAt(d, b, w'[d], Len(sent'[d]), phase')
      OBVIOUS
    <2>2. PICK x : x = Tail(wire[d])
      OBVIOUS
    <2>3. Way(d, x, Len(sent[d]), w[d].st, c, b)
      BY <2>2
    <2>4. PICK n, st : n = Len(sent[d]) /\ st = w[d].st
      OBVIOUS
    <2>5. Way(d, x, n, st, c, b)
      BY <2>3, <2>4
    <2> QED
      BY <2>1, <2>2, <2>4, <2>5, OnTheWayNext
  <1>4. Numbered(d)'
    <2>1. Numbered(d)
      BY DEF DirOK
    <2>2. CASE got'[d] = got[d]
      BY <2>1, <2>2 DEF Numbered
    <2>3. CASE got'[d] = Append(got[d], Len(got[d]) + 1) /\ Len(got[d]) + 1 <= Len(sent[d])
      <3>1. /\ Len(got'[d]) = Len(got[d]) + 1
            /\ \A i \in 1..Len(got[d]) : got'[d][i] = got[d][i]
            /\ got'[d][Len(got[d]) + 1] = Len(got[d]) + 1
        <4>1. Len(got[d]) + 1 \in 1..MaxChunks
          BY <1>1, <2>1, <2>3, ChunkAssumption DEF Numbered
        <4> QED
          BY <1>1, <2>3, <4>1
      <3>2. \A i \in 1..Len(got[d]) : got[d][i] = i
        BY <2>1 DEF Numbered
      <3>3. \A i \in 1..Len(got'[d]) : got'[d][i] = i
        BY <1>1, <3>1, <3>2
      <3> QED
        BY <2>1, <2>3, <3>1, <3>3 DEF Numbered
    <2> QED
      BY <2>2, <2>3
  <1>5. FinOK(d)'
    <2> SUFFICES ASSUME ~lost, NEW i \in 1..Len(Tail(wire[d])), Tail(wire[d])[i] = Fin
                 PROVE i = Len(Tail(wire[d])) /\ w[d].st = "done"
      BY DEF FinOK
    <2>1. i + 1 \in 1..Len(wire[d]) /\ wire[d][i + 1] = Fin /\ i \in Nat
      BY <1>2
    <2>2. i + 1 = Len(wire[d]) /\ w[d].st = "done"
      BY <2>1 DEF DirOK, FinOK
    <2> QED
      BY <1>2, <2>1, <2>2
  <1> QED
    BY <1>2, <1>3, <1>4, <1>5 DEF DirOK

\* The reader's position and the next one.
LEMMA NextPiece ==
    ASSUME Types, NEW d \in Dir, DirOK(d), wire[d] # <<>>
    PROVE /\ Head(wire[d]) \in PieceT
          /\ \E a, b, c \in Pos :
               /\ ReaderAt(a, r[d], Len(got[d])) /\ PosOK(a, Len(sent[d]), w[d].st)
               /\ Fits(d, a, Head(wire[d]), c) /\ PosOK(c, Len(sent[d]), w[d].st)
               /\ Way(d, Tail(wire[d]), Len(sent[d]), w[d].st, c, b)
               /\ ~lost => WriterAt(d, b, w[d], Len(sent[d]), phase)
               /\ Len(wire[d]) = 1 => c = b
  <1>1. OnTheWay(d) /\ wire[d] \in Seq(PieceT)
    BY DEF DirOK, Types
  <1>2. PICK a \in Pos, b \in Pos :
               /\ Way(d, wire[d], Len(sent[d]), w[d].st, a, b)
               /\ PosOK(a, Len(sent[d]), w[d].st)
               /\ ReaderAt(a, r[d], Len(got[d]))
               /\ ~lost => WriterAt(d, b, w[d], Len(sent[d]), phase)
    BY <1>1, Ends
  <1>3. PICK c \in Pos : /\ Fits(d, a, Head(wire[d]), c) /\ PosOK(c, Len(sent[d]), w[d].st)
                         /\ Way(d, Tail(wire[d]), Len(sent[d]), w[d].st, c, b)
                         /\ Len(wire[d]) = 1 => c = b
    BY <1>1, <1>2, WayTail
  <1>4. Head(wire[d]) \in PieceT
    BY <1>1
  <1> QED
    BY <1>2, <1>3, <1>4

\* A reader meets the end of its stream.  If the stream was not cut, nothing is missing.
LEMMA EndRead ==
    ASSUME Types, NEW d \in Dir, DirOK(d), read_end(d)
    PROVE DirOK(d)'
  <1>1. /\ fmt' = fmt /\ lost' = lost /\ phase' = phase /\ wire' = wire /\ w' = w /\ sent' = sent /\ got' = got
        /\ r[d].st \in {"len", "data", "pad"} /\ wire[d] # <<>> /\ Head(wire[d]) = Fin
        /\ r' = [r EXCEPT ![d].st = IF (Ss /\ @ = "len") \/ Raw THEN "ended" ELSE "short"]
    BY DEF read_end, Reading
  <1>2. r[d] \in Reader /\ wire[d] \in Seq(PieceT)
    BY DEF Types
  <1>3. r'[d].st \in {"ended", "short"} /\ (r'[d].st = "ended" => Ss \/ Raw)
    BY <1>1 DEF Types, Reader
  <1>4. PICK a \in Pos, b \in Pos, c \in Pos :
               /\ ReaderAt(a, r[d], Len(got[d]))
               /\ Fits(d, a, Fin, c)
               /\ ~lost => WriterAt(d, b, w[d], Len(sent[d]), phase)
               /\ Len(wire[d]) = 1 => c = b
    BY <1>1, NextPiece
  <1>5. c = a /\ a.n = Len(got[d])
    BY <1>1, <1>4 DEF Fits, ReaderAt
  <1>6. lost \/ (Len(got[d]) = Len(sent[d]) /\ w[d].st # "open")
    <2> SUFFICES ASSUME ~lost
                 PROVE Len(got[d]) = Len(sent[d]) /\ w[d].st # "open"
      OBVIOUS
    <2>1. 1 \in 1..Len(wire[d]) /\ wire[d][1] = Fin
      BY <1>1, <1>2
    <2>2. Len(wire[d]) = 1 /\ w[d].st = "done"
      BY <2>1 DEF DirOK, FinOK
    <2> QED
      BY <1>4, <1>5, <2>2 DEF WriterAt
  <1>7. OnTheWay(d)'
    <2>1. PICK x \in Pos, y \in Pos :
               /\ Way(d, wire[d], Len(sent[d]), w[d].st, x, y)
               /\ ~lost => WriterAt(d, y, w[d], Len(sent[d]), phase)
      BY DEF DirOK, OnTheWay
    <2>2. ReaderAt(x, r'[d], Len(got'[d]))
      BY <1>3 DEF ReaderAt
    <2>3. ~lost' => WriterAt(d, y, w'[d], Len(sent'[d]), phase')
      BY <1>1, <2>1
    <2> QED
      BY <1>1, <2>1, <2>2, <2>3, OnTheWayNext
  <1>8. Numbered(d)'
    BY <1>1 DEF DirOK, Numbered
  <1>9. FinOK(d)'
    BY <1>1 DEF DirOK, FinOK
  <1>10. StoppedOK(d)'
    <2>1. StoppedOK(d)
      BY DEF DirOK
    <2> QED
      BY <1>1, <1>3, <1>6, <2>1, FmtStays DEF StoppedOK
  <1> QED
    BY <1>7, <1>8, <1>9, <1>10 DEF DirOK

\* A length is read.  It opens, unless the format is one the reader cannot read; one that
\* ends the stream comes after everything that was sent.
LEMMA LenRead ==
    ASSUME Types, NEW d \in Dir, DirOK(d), read_len(d)
    PROVE DirOK(d)' /\ wire'[d] \in Seq(PieceT) /\ r'[d] \in Reader
  <1> DEFINE m == Head(wire[d])
             nn == ReaderNonces(d, r[d].count)
             ws == ReaderWords(d, r[d].shake)
             ok == m.k = "len" /\ m.nonce = nn.len /\ m.mask = ws.mask /\ m.pad = ws.pad
             st2 == CASE ~ok -> "garbled"
                      [] ok /\ fmt.sec = "unknown" -> "garbled"
                      [] ok /\ fmt.sec = "none" /\ m.v = Eof -> "ended"
                      [] OTHER -> "data"
  <1>1. /\ fmt' = fmt /\ lost' = lost /\ phase' = phase /\ w' = w /\ sent' = sent /\ got' = got
        /\ r[d].st = "len" /\ ~Raw /\ wire[d] # <<>> /\ m # Fin
        /\ r' = [r EXCEPT ![d].shake = ws.next, ![d].st = st2]
        /\ wire' = [wire EXCEPT ![d] = Tail(wire[d])]
    BY DEF read_len
  <1>2. /\ r[d] \in Reader /\ r[d].count \in 0..(CountMod - 1) /\ r[d].shake \in Nat
        /\ r \in [Dir -> Reader] /\ wire \in [Dir -> Seq(PieceT)]
        /\ Len(got[d]) \in Nat /\ Len(sent[d]) \in Nat
    BY DEF Types, Reader
  <1>3. ws = Words(r[d].shake) /\ ws.next \in Nat
    BY <1>2, WordsOK, SameWords
  <1> HIDE DEF ws, nn, st2, ok
  <1>4. st2 = IF ~ok \/ fmt.sec = "unknown" THEN "garbled"
              ELSE IF fmt.sec = "none" /\ m.v = Eof THEN "ended" ELSE "data"
    BY DEF st2
  <1>5. /\ r'[d] \in Reader /\ r'[d].st = st2 /\ r'[d].shake = ws.next /\ r'[d].count = r[d].count
    BY <1>1, <1>2, <1>3, <1>4 DEF Reader
  <1>6. PICK a \in Pos, b \in Pos, c \in Pos :
               /\ ReaderAt(a, r[d], Len(got[d]))
               /\ Fits(d, a, m, c) /\ PosOK(c, Len(sent[d]), w[d].st)
               /\ Way(d, Tail(wire[d]), Len(sent[d]), w[d].st, c, b)
               /\ ~lost => WriterAt(d, b, w[d], Len(sent[d]), phase)
    BY <1>1, NextPiece
  <1>7. a.st = "len" /\ a.count = r[d].count /\ a.shake = r[d].shake /\ a.n = Len(got[d])
    BY <1>1, <1>6 DEF ReaderAt
  <1>8. /\ m.k = "len" /\ m.nonce = Nonces(d, a.count).len
        /\ m.mask = Words(a.shake).mask /\ m.pad = Words(a.shake).pad
        /\ c = BehindLen(a, m.v)
    BY <1>1, <1>6, <1>7 DEF Fits
  <1>9. /\ c.shake = ws.next /\ c.v = m.v /\ c.count = r[d].count /\ c.n = Len(got[d])
        /\ c.st = IF m.v = Eof /\ fmt.sec = "none" THEN "end" ELSE "data"
    BY <1>3, <1>7, <1>8 DEF BehindLen, Pos
  <1>10. ~Unreadable(d) => ok
    BY <1>1, <1>2, <1>3, <1>7, <1>8, NoncesOK DEF ok, nn
  <1>11. Unreadable(d) => st2 = "garbled"
    BY <1>2, <1>4, <1>7, <1>8, NoncesOK DEF ok, nn
  <1>12. st2 = "ended" => Len(got[d]) = Len(sent[d]) /\ w[d].st # "open"
    BY <1>4, <1>6, <1>9 DEF PosOK
  <1>13. StoppedOK(d)
    BY DEF DirOK
  <1>14. fmt.sec = "unknown" => Unreadable(d)
    BY DEF Unreadable
  <1> HIDE DEF m
  <1>15. StoppedOK(d)'
    BY <1>1, <1>4, <1>5, <1>10, <1>11, <1>12, <1>13, <1>14, FmtStays DEF StoppedOK
  <1>16. ReaderAt(c, r'[d], Len(got'[d]))
    BY <1>1, <1>4, <1>5, <1>9 DEF ReaderAt
  <1>17. wire'[d] = Tail(wire[d])
    BY <1>1, <1>2
  <1> QED
    BY <1>1, <1>5, <1>6, <1>15, <1>16, <1>17, PieceTaken

\* What a reader delivers behind a chunk.
LEMMA TakenIs ==
    ASSUME Types, NEW d \in Dir, NEW v,
           \/ v = Len(got[d]) + 1 /\ v <= MaxChunks
           \/ v = Eof
    PROVE /\ v = Eof => Taken(d, v)[d] = got[d]
          /\ v # Eof => Taken(d, v)[d] = Append(got[d], Len(got[d]) + 1)
          /\ Taken(d, v) \in [Dir -> Seq(1..MaxChunks)]
          /\ \A e \in Dir : e # d => Taken(d, v)[e] = got[e]
  <1>1. got \in [Dir -> Seq(1..MaxChunks)] /\ Len(got[d]) \in Nat
    BY DEF Types
  <1>2. CASE v = Eof
    <2>1. v \notin 1..MaxChunks
      BY <1>2, ValuesOK
    <2>2. Taken(d, v) = got
      BY <1>1, <2>1 DEF Taken
    <2> QED
      BY <1>1, <1>2, <2>2
  <1>3. CASE v # Eof
    <2>1. v \in 1..MaxChunks /\ v = Len(got[d]) + 1
      BY <1>1, <1>3, ValuesOK
    <2>2. Taken(d, v) = [got EXCEPT ![d] = Append(got[d], v)]
      BY <2>1 DEF Taken
    <2>3. Append(got[d], v) \in Seq(1..MaxChunks)
      BY <1>1, <2>1
    <2> QED
      BY <1>1, <1>3, <2>1, <2>2, <2>3
  <1> QED
    BY <1>2, <1>3

\* A payload is read: it opens, and is the one that was sent after the last.
LEMMA DataRead ==
    ASSUME Types, NEW d \in Dir, DirOK(d), read_data(d)
    PROVE /\ DirOK(d)' /\ wire'[d] \in Seq(PieceT) /\ r'[d] \in Reader
          /\ got' \in [Dir -> Seq(1..MaxChunks)] /\ \A e \in Dir : e # d => got'[e] = got[e]
  <1> DEFINE m == Head(wire[d])
             nn == ReaderNonces(d, r[d].count)
             opens == fmt.sec = "none" \/ m.nonce = nn.data
             v == IF opens THEN m.v ELSE NoVal
             st2 == CASE ~opens -> "garbled" [] opens /\ Padded -> "pad" [] OTHER -> After(v)
  <1>1. /\ fmt' = fmt /\ lost' = lost /\ phase' = phase /\ w' = w /\ sent' = sent
        /\ r[d].st = "data" /\ wire[d] # <<>> /\ m # Fin
        /\ r' = [r EXCEPT ![d] = [@ EXCEPT !.count = nn.next, !.plain = IF Padded THEN v ELSE NoVal, !.st = st2]]
        /\ got' = IF Padded THEN got ELSE Taken(d, v)
        /\ wire' = [wire EXCEPT ![d] = Tail(wire[d])]
    BY DEF read_data
  <1>2. /\ r[d] \in Reader /\ r[d].count \in 0..(CountMod - 1)
        /\ r \in [Dir -> Reader] /\ wire \in [Dir -> Seq(PieceT)]
        /\ Len(got[d]) \in Nat /\ Len(sent[d]) \in Nat /\ got \in [Dir -> Seq(1..MaxChunks)]
    BY DEF Types, Reader
  <1>3. nn.next \in 0..(CountMod - 1)
    BY <1>2, NoncesOK
  <1>4. PICK a \in Pos, b \in Pos, c \in Pos :
               /\ ReaderAt(a, r[d], Len(got[d])) /\ PosOK(a, Len(sent[d]), w[d].st)
               /\ Fits(d, a, m, c) /\ PosOK(c, Len(sent[d]), w[d].st)
               /\ Way(d, Tail(wire[d]), Len(sent[d]), w[d].st, c, b)
               /\ ~lost => WriterAt(d, b, w[d], Len(sent[d]), phase)
    BY <1>1, NextPiece
  <1>5. a.st = "data" /\ a.count = r[d].count /\ a.shake = r[d].shake /\ a.n = Len(got[d])
    BY <1>1, <1>4 DEF ReaderAt
  <1>6. m.v = a.v /\ m.nonce = Nonces(d, a.count).data /\ c = BehindData(d, a)
    BY <1>1, <1>4, <1>5 DEF Fits
  <1>7. StoppedOK(d) /\ Numbered(d)
    BY DEF DirOK
  <1>8. ~Unreadable(d)
    BY <1>1, <1>7 DEF StoppedOK
  <1>9. ~Raw /\ \/ a.v = a.n + 1 /\ a.v <= Len(sent[d])
                \/ a.v = Eof /\ a.n = Len(sent[d]) /\ w[d].st # "open"
    BY <1>4, <1>5 DEF PosOK
  <1>10. Nonces(d, a.count) = nn
    BY <1>2, <1>5, <1>8, <1>9, NoncesOK
  <1>11. opens /\ v = a.v
    BY <1>6, <1>10
  <1> HIDE DEF nn, opens, v
  <1>12. st2 = IF Padded THEN "pad" ELSE After(v)
    BY <1>11
  <1> HIDE DEF st2, m
  <1>13. /\ v \in Value
         /\ \/ v = Len(got[d]) + 1 /\ v <= MaxChunks
            \/ v = Eof
    <2>1. Len(sent[d]) <= MaxChunks
      BY <1>7 DEF Numbered
    <2> QED
      BY <1>2, <1>5, <1>9, <1>11, <2>1, ValuesOK
  <1>14. r'[d] = [r[d] EXCEPT !.count = nn.next, !.plain = IF Padded THEN v ELSE NoVal, !.st = st2]
    BY <1>1, <1>2
  <1>15. /\ r'[d] \in Reader /\ r'[d].st = st2 /\ r'[d].count = nn.next /\ r'[d].shake = r[d].shake
         /\ Padded => r'[d].plain = v
    BY <1>2, <1>3, <1>12, <1>13, <1>14, ValuesOK DEF Reader, After
  <1>16. /\ got' \in [Dir -> Seq(1..MaxChunks)] /\ \A e \in Dir : e # d => got'[e] = got[e]
         /\ Padded \/ v = Eof => got'[d] = got[d]
         /\ ~Padded /\ v # Eof => got'[d] = Append(got[d], Len(got[d]) + 1)
    BY <1>1, <1>2, <1>13, TakenIs
  <1>17. Len(got[d]) + 1 <= Len(sent[d]) \/ v = Eof
    BY <1>5, <1>9, <1>11
  <1>18. ~Padded /\ v # Eof => Len(got'[d]) = Len(got[d]) + 1
    BY <1>2, <1>13, <1>16
  <1>19. StoppedOK(d)'
    <2>1. st2 \in {"pad", "ended", "len"}
      BY <1>12 DEF After
    <2>2. st2 = "ended" => v = Eof /\ ~Padded
      BY <1>12 DEF After
    <2>3. v = Eof => Len(got[d]) = Len(sent[d]) /\ w[d].st # "open"
      <3>1. Len(sent[d]) <= MaxChunks
        BY <1>7 DEF Numbered
      <3> QED
        BY <1>2, <1>5, <1>9, <1>11, <3>1, ValuesOK DEF Eof
    <2> QED
      BY <1>1, <1>8, <1>15, <1>16, <2>1, <2>2, <2>3, FmtStays DEF StoppedOK
  <1>20. ReaderAt(c, r'[d], Len(got'[d]))
    <2>1. CASE Padded
      <3>1. c = [a EXCEPT !.st = "pad", !.count = nn.next]
        BY <1>6, <1>10, <2>1 DEF BehindData
      <3>2. /\ c.st = "pad" /\ c.count = nn.next /\ c.shake = a.shake /\ c.n = a.n /\ c.v = a.v
        BY <3>1 DEF Pos
      <3> QED
        BY <1>5, <1>11, <1>12, <1>15, <1>16, <2>1, <3>2 DEF ReaderAt
    <2>2. CASE ~Padded /\ v = Eof
      BY <1>12, <1>15, <2>2 DEF After, ReaderAt
    <2>3. CASE ~Padded /\ v # Eof
      <3> DEFINE a0 == [a EXCEPT !.count = nn.next]
      <3>1. a0.count = nn.next /\ a0.shake = a.shake /\ a0.n = a.n /\ a0.v = a.v /\ a0 \in Pos
        BY <1>3 DEF Pos
      <3>2. c = Behind(a0)
        BY <1>6, <1>10, <2>3 DEF BehindData
      <3> HIDE DEF a0
      <3>3. c = [a0 EXCEPT !.st = "len", !.n = a0.n + 1, !.v = NoVal]
        BY <1>11, <2>3, <3>1, <3>2 DEF Behind
      <3>4. c.st = "len" /\ c.count = nn.next /\ c.shake = a.shake /\ c.n = a.n + 1
        BY <3>1, <3>3 DEF Pos
      <3> QED
        BY <1>5, <1>12, <1>15, <1>18, <2>3, <3>4 DEF ReaderAt, After
    <2> QED
      BY <2>1, <2>2, <2>3
  <1>21. wire'[d] = Tail(wire[d])
    BY <1>1, <1>2
  <1>22. \/ got'[d] = got[d]
         \/ got'[d] = Append(got[d], Len(got[d]) + 1) /\ Len(got[d]) + 1 <= Len(sent[d])
    BY <1>16, <1>17
  <1>23. DirOK(d)' /\ wire'[d] \in Seq(PieceT)
    BY <1>1, <1>4, <1>19, <1>20, <1>21, <1>22, PieceTaken
  <1> QED
    BY <1>15, <1>16, <1>23

\* The padding of a chunk is skipped, and the plaintext that waited for it delivered.
LEMMA PaddingSkipped ==
    ASSUME Types, NEW d \in Dir, DirOK(d), skip_padding(d)
    PROVE /\ DirOK(d)' /\ wire'[d] \in Seq(PieceT) /\ r'[d] \in Reader
          /\ got' \in [Dir -> Seq(1..MaxChunks)] /\ \A e \in Dir : e # d => got'[e] = got[e]
  <1> DEFINE m == Head(wire[d])
             v == r[d].plain
  <1>1. /\ fmt' = fmt /\ lost' = lost /\ phase' = phase /\ w' = w /\ sent' = sent
        /\ r[d].st = "pad" /\ wire[d] # <<>> /\ m # Fin
        /\ r' = [r EXCEPT ![d].st = After(v), ![d].plain = NoVal]
        /\ got' = Taken(d, v)
        /\ wire' = [wire EXCEPT ![d] = Tail(wire[d])]
    BY DEF skip_padding
  <1>2. /\ r[d] \in Reader /\ r \in [Dir -> Reader] /\ wire \in [Dir -> Seq(PieceT)]
        /\ Len(got[d]) \in Nat /\ Len(sent[d]) \in Nat /\ got \in [Dir -> Seq(1..MaxChunks)]
    BY DEF Types, Reader
  <1>3. PICK a \in Pos, b \in Pos, c \in Pos :
               /\ ReaderAt(a, r[d], Len(got[d])) /\ PosOK(a, Len(sent[d]), w[d].st)
               /\ Fits(d, a, m, c) /\ PosOK(c, Len(sent[d]), w[d].st)
               /\ Way(d, Tail(wire[d]), Len(sent[d]), w[d].st, c, b)
               /\ ~lost => WriterAt(d, b, w[d], Len(sent[d]), phase)
    BY <1>1, NextPiece
  <1>4. /\ a.st = "pad" /\ a.count = r[d].count /\ a.shake = r[d].shake /\ a.n = Len(got[d])
        /\ a.v = v
    BY <1>1, <1>3 DEF ReaderAt
  <1>5. c = Behind(a)
    BY <1>1, <1>3, <1>4 DEF Fits
  <1>6. StoppedOK(d) /\ Numbered(d)
    BY DEF DirOK
  <1>7. ~Unreadable(d)
    BY <1>1, <1>6 DEF StoppedOK
  <1>8. \/ v = a.n + 1 /\ v <= Len(sent[d])
        \/ v = Eof /\ a.n = Len(sent[d]) /\ w[d].st # "open"
    BY <1>3, <1>4 DEF PosOK
  <1> HIDE DEF m, v
  <1>9. \/ v = Len(got[d]) + 1 /\ v <= MaxChunks
        \/ v = Eof
    <2>1. Len(sent[d]) <= MaxChunks
      BY <1>6 DEF Numbered
    <2> QED
      BY <1>2, <1>4, <1>8, <2>1, ValuesOK
  <1>10. /\ r'[d] \in Reader /\ r'[d].st = After(v) /\ r'[d].count = r[d].count /\ r'[d].shake = r[d].shake
    BY <1>1, <1>2, ValuesOK DEF Reader, After
  <1>11. /\ got' \in [Dir -> Seq(1..MaxChunks)] /\ \A e \in Dir : e # d => got'[e] = got[e]
         /\ v = Eof => got'[d] = got[d]
         /\ v # Eof => got'[d] = Append(got[d], Len(got[d]) + 1)
    BY <1>1, <1>9, TakenIs
  <1>12. Len(got[d]) + 1 <= Len(sent[d]) \/ v = Eof
    BY <1>4, <1>8
  <1>13. v # Eof => Len(got'[d]) = Len(got[d]) + 1
    BY <1>2, <1>9, <1>11
  <1>14. StoppedOK(d)'
    <2>1. After(v) = IF v = Eof THEN "ended" ELSE "len"
      BY DEF After
    <2>2. v = Eof => Len(got[d]) = Len(sent[d]) /\ w[d].st # "open"
      <3>1. Len(sent[d]) <= MaxChunks
        BY <1>6 DEF Numbered
      <3> QED
        BY <1>2, <1>4, <1>8, <3>1, ValuesOK DEF Eof
    <2> QED
      BY <1>1, <1>7, <1>10, <1>11, <2>1, <2>2, FmtStays DEF StoppedOK
  <1>15. ReaderAt(c, r'[d], Len(got'[d]))
    <2>1. CASE v = Eof
      BY <1>10, <2>1 DEF After, ReaderAt
    <2>2. CASE v # Eof
      <3>1. c = [a EXCEPT !.st = "len", !.n = a.n + 1, !.v = NoVal]
        BY <1>4, <1>5, <2>2 DEF Behind
      <3>2. c.st = "len" /\ c.count = a.count /\ c.shake = a.shake /\ c.n = a.n + 1
        BY <3>1 DEF Pos
      <3> QED
        BY <1>4, <1>10, <1>13, <2>2, <3>2 DEF ReaderAt, After
    <2> QED
      BY <2>1, <2>2
  <1>16. wire'[d] = Tail(wire[d])
    BY <1>1, <1>2
  <1>17. \/ got'[d] = got[d]
         \/ got'[d] = Append(got[d], Len(got[d]) + 1) /\ Len(got[d]) + 1 <= Len(sent[d])
    BY <1>11, <1>12
  <1>18. DirOK(d)' /\ wire'[d] \in Seq(PieceT)
    BY <1>1, <1>3, <1>14, <1>15, <1>16, <1>17, PieceTaken
  <1> QED
    BY <1>10, <1>11, <1>18

\* A piece of a stream that is copied as it is.
LEMMA Copied ==
    ASSUME Types, NEW d \in Dir, DirOK(d), copy(d)
    PROVE /\ DirOK(d)' /\ wire'[d] \in Seq(PieceT)
          /\ got' \in [Dir -> Seq(1..MaxChunks)] /\ \A e \in Dir : e # d => got'[e] = got[e]
  <1> DEFINE m == Head(wire[d])
  <1>1. /\ fmt' = fmt /\ lost' = lost /\ phase' = phase /\ w' = w /\ sent' = sent /\ r' = r
        /\ r[d].st \in {"len", "data", "pad"} /\ Raw /\ wire[d] # <<>> /\ m # Fin
        /\ got' = Taken(d, m.v)
        /\ wire' = [wire EXCEPT ![d] = Tail(wire[d])]
    BY DEF copy, Reading
  <1>2. /\ wire \in [Dir -> Seq(PieceT)]
        /\ Len(got[d]) \in Nat /\ Len(sent[d]) \in Nat /\ got \in [Dir -> Seq(1..MaxChunks)]
    BY DEF Types
  <1>3. PICK a \in Pos, b \in Pos, c \in Pos :
               /\ ReaderAt(a, r[d], Len(got[d])) /\ PosOK(a, Len(sent[d]), w[d].st)
               /\ Fits(d, a, m, c) /\ PosOK(c, Len(sent[d]), w[d].st)
               /\ Way(d, Tail(wire[d]), Len(sent[d]), w[d].st, c, b)
               /\ ~lost => WriterAt(d, b, w[d], Len(sent[d]), phase)
    BY <1>1, NextPiece
  <1>4. a.st = "len" /\ a.st = r[d].st
    BY <1>1, <1>3 DEF ReaderAt, PosOK
  <1>5. a.count = r[d].count /\ a.shake = r[d].shake /\ a.n = Len(got[d])
    BY <1>1, <1>3 DEF ReaderAt
  <1>6. m.v = a.n + 1 /\ c = [a EXCEPT !.n = a.n + 1]
    BY <1>1, <1>3, <1>4 DEF Fits
  <1>7. c.st = "len" /\ c.count = a.count /\ c.shake = a.shake /\ c.n = a.n + 1
    BY <1>4, <1>6 DEF Pos
  <1>8. Len(got[d]) + 1 <= Len(sent[d])
    BY <1>3, <1>5, <1>7 DEF PosOK
  <1>9. StoppedOK(d) /\ Len(sent[d]) <= MaxChunks
    BY DEF DirOK, Numbered
  <1>10. m.v = Len(got[d]) + 1 /\ m.v <= MaxChunks /\ m.v # Eof
    <2>1. m.v = Len(got[d]) + 1 /\ m.v \in Nat
      BY <1>2, <1>5, <1>6
    <2>2. m.v <= MaxChunks /\ MaxChunks \in Nat
      BY <1>2, <1>8, <1>9, <2>1, ValuesOK
    <2>3. m.v # Eof
      BY <2>1, <2>2 DEF Eof
    <2> QED
      BY <2>1, <2>2, <2>3
  <1> HIDE DEF m
  <1>11. /\ got' \in [Dir -> Seq(1..MaxChunks)] /\ \A e \in Dir : e # d => got'[e] = got[e]
         /\ got'[d] = Append(got[d], Len(got[d]) + 1)
    BY <1>1, <1>10, TakenIs
  <1>12. Len(got'[d]) = Len(got[d]) + 1
    BY <1>2, <1>11
  <1>13. StoppedOK(d)'
    <2>1. r'[d].st = "len"
      BY <1>1, <1>4
    <2>2. ~Unreadable(d)
      BY <1>1 DEF Unreadable, Raw
    <2> QED
      BY <1>1, <2>1, <2>2, FmtStays DEF StoppedOK
  <1>14. ReaderAt(c, r'[d], Len(got'[d]))
    BY <1>1, <1>4, <1>5, <1>7, <1>12 DEF ReaderAt
  <1>15. wire'[d] = Tail(wire[d])
    BY <1>1, <1>2
  <1>16. DirOK(d)' /\ wire'[d] \in Seq(PieceT)
    BY <1>1, <1>3, <1>8, <1>11, <1>13, <1>14, <1>15, PieceTaken
  <1> QED
    BY <1>11, <1>16

\* A header is read: the reader is before the first chunk.
LEMMA HeaderRead ==
    ASSUME Types, NEW d \in Dir, DirOK(d), fmt' = fmt, lost' = lost, d = "up" \/ phase' = phase,
           w'[d] = w[d], sent'[d] = sent[d], got'[d] = got[d],
           r[d].st = "header", Len(wire[d]) >= HeaderLen, \A i \in 1..HeaderLen : wire[d][i] # Fin,
           wire'[d] = SubSeq(wire[d], HeaderLen + 1, Len(wire[d])),
           r'[d] = [r[d] EXCEPT !.count = AfterHeader(fmt), !.st = "len"]
    PROVE DirOK(d)' /\ wire'[d] \in Seq(PieceT) /\ r'[d] \in Reader
  <1>1. OnTheWay(d) /\ Numbered(d) /\ FinOK(d) /\ StoppedOK(d)
    BY DEF DirOK
  <1>2. /\ wire[d] \in Seq(PieceT) /\ r[d] \in Reader /\ Len(sent[d]) \in Nat /\ Len(got[d]) \in Nat
        /\ Len(wire[d]) \in Nat
    BY DEF Types
  <1>3. PICK a \in Pos, b \in Pos :
               /\ Way(d, wire[d], Len(sent[d]), w[d].st, a, b)
               /\ ReaderAt(a, r[d], Len(got[d]))
               /\ ~lost => WriterAt(d, b, w[d], Len(sent[d]), phase)
    BY <1>1 DEF OnTheWay
  <1>4. a.st = "header" /\ r[d].shake = 0 /\ Len(got[d]) = 0
    BY <1>3 DEF ReaderAt
  <1> DEFINE x == SubSeq(wire[d], HeaderLen + 1, Len(wire[d]))
  <1>5. /\ x \in Seq(PieceT) /\ Len(x) <= Len(wire[d])
        /\ \A i \in 1..Len(x) : x[i] = wire[d][i + (Len(wire[d]) - Len(x))]
        /\ Way(d, x, Len(sent[d]), w[d].st, Start, b)
    BY <1>2, <1>3, <1>4, WayPastHeader
  <1> HIDE DEF x
  <1>6. wire'[d] = x
    BY DEF x
  <1>7. Start \in Pos /\ AfterHeader(fmt) \in 0..(CountMod - 1)
    <2>1. Start \in Pos
      BY <1>3, PositionsOK
    <2>2. Start.count = AfterHeader(fmt)
      BY DEF Start
    <2> QED
      BY <2>1, <2>2 DEF Pos
  <1>8. r'[d] \in Reader /\ r'[d].st = "len" /\ r'[d].count = AfterHeader(fmt) /\ r'[d].shake = 0
    BY <1>2, <1>4, <1>7 DEF Reader
  <1>9. ReaderAt(Start, r'[d], Len(got'[d]))
    BY <1>4, <1>8 DEF ReaderAt, Start
  <1>10. ~lost' => WriterAt(d, b, w'[d], Len(sent'[d]), phase')
    BY <1>3 DEF WriterAt
  <1>11. OnTheWay(d)'
    <2>1. PICK n, st, a2 : n = Len(sent[d]) /\ st = w[d].st /\ a2 = Start
      OBVIOUS
    <2>2. Way(d, x, n, st, a2, b) /\ a2 \in Pos /\ ReaderAt(a2, r'[d], Len(got'[d]))
      BY <1>5, <1>7, <1>9, <2>1
    <2> QED
      BY <1>3, <1>6, <1>10, <2>1, <2>2, OnTheWayNext
  <1>12. Numbered(d)'
    BY <1>1 DEF Numbered
  <1>13. FinOK(d)'
    <2> SUFFICES ASSUME ~lost, NEW i \in 1..Len(x), x[i] = Fin
                 PROVE i = Len(x) /\ w[d].st = "done"
      BY <1>6 DEF FinOK
    <2> DEFINE j == i + (Len(wire[d]) - Len(x))
    <2>1. Len(x) \in Nat
      BY <1>5
    <2>2. j \in 1..Len(wire[d])
      BY <1>2, <1>5, <2>1
    <2>3. wire[d][j] = Fin
      BY <1>5
    <2> HIDE DEF j
    <2>4. j = Len(wire[d]) /\ w[d].st = "done"
      BY <1>1, <2>2, <2>3 DEF FinOK
    <2> QED
      BY <1>2, <2>1, <2>4 DEF j
  <1>14. StoppedOK(d)'
    BY <1>1, <1>8, FmtStays DEF StoppedOK
  <1> QED
    BY <1>5, <1>6, <1>8, <1>11, <1>12, <1>13, <1>14 DEF DirOK

-----------------------------------------------------------------------------
(* Every step                                                               *)

\* Both directions.
LEMMA BothDirs == ASSUME DirOK("up")', DirOK("down")' PROVE (\A d \in Dir : DirOK(d))'
  BY DEF Dir

\* The client writes a chunk: the uplink grows by it.
LEMMA StepOfClientWrites == ASSUME IInv, client_writes PROVE IInv'
  <1>1. Types /\ Early /\ DirOK("up") /\ DirOK("down")
    BY DEF IInv, Dir
  <1>2. /\ w["up"].st = "open" /\ ~lost /\ Len(sent["up"]) < load["up"]
        /\ wire' = [wire EXCEPT !["up"] = wire["up"] \o ChunkOf("up", Len(sent["up"]) + 1)]
        /\ sent' = [sent EXCEPT !["up"] = Append(sent["up"], Len(sent["up"]) + 1)]
        /\ w' = [w EXCEPT !["up"] = Advanced("up")]
        /\ fmt' = fmt /\ load' = load /\ phase' = phase /\ lost' = lost /\ r' = r /\ got' = got
    BY DEF client_writes
  <1>3. load["up"] \in 0..MaxChunks /\ MaxChunks \in Nat /\ Len(sent["up"]) \in Nat
    BY <1>1, ChunkAssumption DEF Types, Dir
  <1>4. Len(sent["up"]) < MaxChunks
    BY <1>2, <1>3
  <1>5. /\ wire'["up"] = wire["up"] \o ChunkOf("up", Len(sent["up"]) + 1)
        /\ sent'["up"] = Append(sent["up"], Len(sent["up"]) + 1)
        /\ w'["up"] = Advanced("up")
        /\ wire'["down"] = wire["down"] /\ sent'["down"] = sent["down"] /\ w'["down"] = w["down"]
    BY <1>1, <1>2 DEF Types, Dir
  <1>6. DirOK("up")' /\ wire'["up"] \in Seq(PieceT)
    BY <1>1, <1>2, <1>4, <1>5, ChunkWritten DEF Dir
  <1>7. DirOK("down")'
    BY <1>1, <1>2, <1>5, DirStays DEF Dir
  <1>8. Types'
    <2>1. Advanced("up") \in Writer
      BY <1>1, AdvancedOK DEF Dir
    <2>2. Append(sent["up"], Len(sent["up"]) + 1) \in Seq(1..MaxChunks)
      BY <1>1, <1>3, <1>4 DEF Types, Dir
    <2>3. wire' \in [Dir -> Seq(PieceT)]
      BY <1>1, <1>2, <1>5, <1>6 DEF Types, Dir
    <2> QED
      BY <1>1, <1>2, <2>1, <2>2, <2>3 DEF Types, Dir
  <1>9. Early'
    BY <1>1, <1>2, <1>5 DEF Early
  <1> QED
    BY <1>6, <1>7, <1>8, <1>9, BothDirs DEF IInv

\* The client ends its body with a chunk without data.
LEMMA StepOfClientEof == ASSUME IInv, client_eof PROVE IInv'
  <1>1. Types /\ Early /\ DirOK("up") /\ DirOK("down")
    BY DEF IInv, Dir
  <1>2. /\ w["up"].st = "open" /\ ~lost /\ ~Raw
        /\ wire' = [wire EXCEPT !["up"] = wire["up"] \o ChunkOf("up", Eof)]
        /\ w' = [w EXCEPT !["up"] = [Advanced("up") EXCEPT !.st = "eof"]]
        /\ fmt' = fmt /\ load' = load /\ phase' = phase /\ lost' = lost /\ r' = r /\ got' = got /\ sent' = sent
    BY DEF client_eof
  <1>3. [Advanced("up") EXCEPT !.st = "eof"] \in Writer
    <2>1. Advanced("up") \in Writer
      BY <1>1, AdvancedOK DEF Dir
    <2> QED
      BY <2>1 DEF Writer
  <1>4. /\ wire'["up"] = wire["up"] \o ChunkOf("up", Eof)
        /\ w'["up"] = [Advanced("up") EXCEPT !.st = "eof"]
        /\ wire'["down"] = wire["down"] /\ w'["down"] = w["down"]
    BY <1>1, <1>2 DEF Types, Dir
  <1>5. w'["up"].st = "eof"
    <2>1. Advanced("up") \in Writer
      BY <1>1, AdvancedOK DEF Dir
    <2> QED
      BY <1>4, <2>1 DEF Writer
  <1>6. DirOK("up")' /\ wire'["up"] \in Seq(PieceT)
    BY <1>1, <1>2, <1>4, <1>5, EofWritten DEF Dir
  <1>7. DirOK("down")'
    BY <1>1, <1>2, <1>4, DirStays DEF Dir
  <1>8. Types'
    <2>1. wire' \in [Dir -> Seq(PieceT)]
      BY <1>1, <1>2, <1>4, <1>6 DEF Types, Dir
    <2> QED
      BY <1>1, <1>2, <1>3, <2>1 DEF Types, Dir
  <1>9. Early'
    BY <1>1, <1>2, <1>4 DEF Early
  <1> QED
    BY <1>6, <1>7, <1>8, <1>9, BothDirs DEF IInv

\* The client closes its half of the connection.
LEMMA StepOfClientCloses == ASSUME IInv, client_closes PROVE IInv'
  <1>1. Types /\ Early /\ DirOK("up") /\ DirOK("down")
    BY DEF IInv, Dir
  <1>2. /\ w["up"].st # "done" /\ ~lost
        /\ wire' = [wire EXCEPT !["up"] = Append(wire["up"], Fin)]
        /\ w' = [w EXCEPT !["up"].st = "done"]
        /\ fmt' = fmt /\ load' = load /\ phase' = phase /\ lost' = lost /\ r' = r /\ got' = got /\ sent' = sent
    BY DEF client_closes
  <1>3. /\ wire'["up"] = Append(wire["up"], Fin) /\ w'["up"].st = "done"
        /\ wire'["down"] = wire["down"] /\ w'["down"] = w["down"]
    BY <1>1, <1>2 DEF Types, Dir, Writer
  <1>4. \A i \in 1..Len(wire["up"]) : wire["up"][i] # Fin
    BY <1>1, <1>2 DEF DirOK, FinOK
  <1>5. DirOK("up")'
    BY <1>1, <1>2, <1>3, <1>4, WriterStops DEF Dir
  <1>6. DirOK("down")'
    BY <1>1, <1>2, <1>3, DirStays DEF Dir
  <1>7. Types'
    <2>1. Append(wire["up"], Fin) \in Seq(PieceT)
      BY <1>1, FinPiece DEF Types, Dir
    <2>2. w' \in [Dir -> Writer]
      BY <1>1, <1>2 DEF Types, Dir, Writer
    <2> QED
      BY <1>1, <1>2, <2>1, <2>2 DEF Types, Dir
  <1>8. Early'
    BY <1>1, <1>2, <1>3 DEF Early
  <1> QED
    BY <1>5, <1>6, <1>7, <1>8, BothDirs DEF IInv

\* The connection is cut, at any piece of either direction.
LEMMA StepOfConnectionCut == ASSUME IInv, connection_cut PROVE IInv'
  <1>1. Types /\ Early /\ DirOK("up") /\ DirOK("down")
    BY DEF IInv, Dir
  <1>2. /\ lost' = TRUE
        /\ fmt' = fmt /\ load' = load /\ phase' = phase /\ w' = w /\ r' = r /\ got' = got /\ sent' = sent
    BY DEF connection_cut
  <1>3. PICK i \in 0..Len(wire["up"]), j \in 0..Len(wire["down"]) :
         wire' = [up   |-> Append(SubSeq(wire["up"], 1, i), Fin),
                  down |-> Append(SubSeq(wire["down"], 1, j), Fin)]
    BY DEF connection_cut
  <1>4. /\ wire'["up"] = Append(SubSeq(wire["up"], 1, i), Fin)
        /\ wire'["down"] = Append(SubSeq(wire["down"], 1, j), Fin)
    BY <1>3
  <1>5. DirOK("up")' /\ wire'["up"] \in Seq(PieceT)
    BY <1>1, <1>2, <1>4, DirCut DEF Dir
  <1>6. DirOK("down")' /\ wire'["down"] \in Seq(PieceT)
    BY <1>1, <1>2, <1>4, DirCut DEF Dir
  <1>7. wire' \in [Dir -> Seq(PieceT)]
    <2>1. wire' = [d \in Dir |-> wire'[d]]
      BY <1>3 DEF Dir
    <2> QED
      BY <1>5, <1>6, <2>1 DEF Dir
  <1>8. Types'
    BY <1>1, <1>2, <1>7 DEF Types
  <1>9. Early'
    BY <1>1, <1>2 DEF Early
  <1> QED
    BY <1>5, <1>6, <1>8, <1>9, BothDirs DEF IInv

\* The end of a stream that may have ended already.
LEMMA ClosedIs ==
    ASSUME Types, NEW x, x = Closed("down") \/ x = Shut
    PROVE /\ x \in Seq(PieceT)
          /\ \/ x = wire["down"]
             \/ x = Append(wire["down"], Fin) /\ \A i \in 1..Len(wire["down"]) : wire["down"][i] # Fin
  <1>1. wire["down"] \in Seq(PieceT) /\ DOMAIN wire["down"] = 1..Len(wire["down"])
    BY DEF Types, Dir
  <1>2. x = wire["down"] \/ (x = Append(wire["down"], Fin) /\ Fin \notin ToSet(wire["down"]))
    BY DEF Closed, Shut
  <1>3. Fin \notin ToSet(wire["down"]) => \A i \in 1..Len(wire["down"]) : wire["down"][i] # Fin
    BY <1>1 DEF ToSet
  <1>4. Append(wire["down"], Fin) \in Seq(PieceT)
    BY <1>1, FinPiece
  <1> QED
    BY <1>1, <1>2, <1>3, <1>4

\* The writer of the answers stops; the reader of the requests may be stopped with it.
LEMMA DownStops ==
    ASSUME IInv, fmt' = fmt, load' = load, lost' = lost, sent' = sent, got' = got,
           NEW x, x = Closed("down") \/ x = Shut, wire' = [wire EXCEPT !["down"] = x],
           w' = [w EXCEPT !["down"].st = "done"],
           r' = r \/ r' = [r EXCEPT !["up"].st = "refused"],
           phase' \in {"relay", "done"}
    PROVE IInv'
  <1>1. Types /\ Early /\ DirOK("up") /\ DirOK("down")
    BY DEF IInv, Dir
  <1>2. x \in Seq(PieceT) /\ \/ x = wire["down"]
                             \/ x = Append(wire["down"], Fin) /\ \A i \in 1..Len(wire["down"]) : wire["down"][i] # Fin
    BY <1>1, ClosedIs
  <1>3. /\ wire'["down"] = x /\ wire'["up"] = wire["up"]
        /\ w'["down"].st = "done" /\ w'["up"] = w["up"] /\ r'["down"] = r["down"]
        /\ r'["up"] = r["up"] \/ r'["up"].st = "refused"
    BY <1>1 DEF Types, Dir, Writer, Reader
  <1>4. DirOK("down")'
    BY <1>1, <1>2, <1>3, WriterStops DEF Dir
  <1>5. DirOK("up")'
    <2>1. CASE r'["up"] = r["up"]
      BY <1>1, <1>3, <2>1, DirStays DEF Dir
    <2>2. CASE r'["up"].st = "refused"
      BY <1>1, <1>3, <2>2, ReaderStops DEF Dir
    <2> QED
      BY <1>3, <2>1, <2>2
  <1>6. Types'
    <2>1. w' \in [Dir -> Writer]
      <3>1. w \in [Dir -> Writer] /\ "down" \in Dir
        BY <1>1 DEF Types, Dir
      <3>2. [w["down"] EXCEPT !.st = "done"] \in Writer
        BY <3>1 DEF Writer
      <3>3. [w EXCEPT !["down"].st = "done"] = [w EXCEPT !["down"] = [w["down"] EXCEPT !.st = "done"]]
        BY <3>1
      <3> QED
        BY <3>1, <3>2, <3>3
    <2>2. r' \in [Dir -> Reader]
      <3>1. r \in [Dir -> Reader] /\ "up" \in Dir
        BY <1>1 DEF Types, Dir
      <3>2. [r["up"] EXCEPT !.st = "refused"] \in Reader
        BY <3>1 DEF Reader
      <3>3. [r EXCEPT !["up"].st = "refused"] = [r EXCEPT !["up"] = [r["up"] EXCEPT !.st = "refused"]]
        BY <3>1
      <3> QED
        BY <3>1, <3>2, <3>3
    <2>3. wire' \in [Dir -> Seq(PieceT)]
      BY <1>1, <1>2 DEF Types, Dir
    <2> QED
      BY <1>1, <2>1, <2>2, <2>3 DEF Types
  <1>7. Early'
    BY DEF Early
  <1> QED
    BY <1>4, <1>5, <1>6, <1>7, BothDirs DEF IInv

\* The header is refused, the dial fails, or the downlink fails: the answers stop.
LEMMA StepOfFailures ==
    ASSUME IInv, read_header_fails \/ dial_fails \/ down_fails
    PROVE IInv'
  <1>1. phase \in {"header", "dial", "relay", "done"}
    BY DEF IInv, Types
  <1>2. CASE read_header_fails
    BY <1>2, DownStops DEF read_header_fails
  <1>3. CASE dial_fails
    BY <1>3, DownStops DEF dial_fails
  <1>4. CASE down_fails
    BY <1>4, DownStops DEF down_fails
  <1> QED
    BY <1>2, <1>3, <1>4

\* process returns once both halves have.
LEMMA StepOfProcessEnds == ASSUME IInv, process_ends PROVE IInv'
  <1>1. /\ w["down"].st = "done" /\ phase' = "done" /\ wire' = [wire EXCEPT !["down"] = Closed("down")]
        /\ fmt' = fmt /\ load' = load /\ lost' = lost /\ w' = w /\ r' = r /\ sent' = sent /\ got' = got
    BY DEF process_ends
  <1>2. w' = [w EXCEPT !["down"].st = "done"]
    BY <1>1 DEF IInv, Types, Dir, Writer
  <1> QED
    BY <1>1, <1>2, DownStops

\* The target no longer takes data.
LEMMA StepOfUplinkFails == ASSUME IInv, uplink_fails PROVE IInv'
  <1>1. Types /\ Early /\ DirOK("up") /\ DirOK("down")
    BY DEF IInv, Dir
  <1>2. /\ phase = "relay" /\ r' = [r EXCEPT !["up"].st = "refused"]
        /\ fmt' = fmt /\ load' = load /\ phase' = phase /\ lost' = lost /\ wire' = wire /\ w' = w
        /\ sent' = sent /\ got' = got
    BY DEF uplink_fails
  <1>3. r'["up"].st = "refused" /\ r'["down"] = r["down"] /\ r' \in [Dir -> Reader]
    BY <1>1, <1>2 DEF Types, Dir, Reader
  <1>4. DirOK("up")'
    BY <1>1, <1>2, <1>3, ReaderStops DEF Dir
  <1>5. DirOK("down")'
    BY <1>1, <1>2, <1>3, DirStays DEF Dir
  <1>6. Types'
    BY <1>1, <1>2, <1>3 DEF Types
  <1>7. Early'
    BY <1>2 DEF Early
  <1> QED
    BY <1>4, <1>5, <1>6, <1>7, BothDirs DEF IInv

\* process has read the request header.
LEMMA StepOfReadHeader == ASSUME IInv, read_header PROVE IInv'
  <1>1. Types /\ Early /\ DirOK("up") /\ DirOK("down")
    BY DEF IInv, Dir
  <1>2. /\ phase = "header" /\ Len(wire["up"]) >= HeaderLen
        /\ \A i \in 1..HeaderLen : wire["up"][i].v = Good
        /\ wire' = [wire EXCEPT !["up"] = SubSeq(wire["up"], HeaderLen + 1, Len(wire["up"]))]
        /\ r' = [r EXCEPT !["up"].count = AfterHeader(fmt), !["up"].st = "len"]
        /\ phase' = "dial"
        /\ fmt' = fmt /\ load' = load /\ lost' = lost /\ w' = w /\ sent' = sent /\ got' = got
    BY DEF read_header
  <1>3. \A i \in 1..HeaderLen : wire["up"][i] # Fin
    BY <1>2, FinPiece, ValuesOK
  <1>4. /\ wire'["up"] = SubSeq(wire["up"], HeaderLen + 1, Len(wire["up"])) /\ wire'["down"] = wire["down"]
        /\ r'["up"] = [r["up"] EXCEPT !.count = AfterHeader(fmt), !.st = "len"] /\ r'["down"] = r["down"]
    BY <1>1, <1>2 DEF Types, Dir
  <1>5. r["up"].st = "header"
    BY <1>1, <1>2 DEF Early
  <1>6. DirOK("up")' /\ wire'["up"] \in Seq(PieceT) /\ r'["up"] \in Reader
    BY <1>1, <1>2, <1>3, <1>4, <1>5, HeaderRead DEF Dir
  <1>7. DirOK("down")'
    BY <1>1, <1>2, <1>4, DirStays DEF Dir
  <1>8. Types'
    <2>1. wire' \in [Dir -> Seq(PieceT)]
      BY <1>1, <1>2, <1>4, <1>6 DEF Types, Dir
    <2>2. r' \in [Dir -> Reader]
      BY <1>1, <1>2, <1>4, <1>6 DEF Types, Dir
    <2> QED
      BY <1>1, <1>2, <2>1, <2>2 DEF Types
  <1>9. Early'
    BY <1>1, <1>2 DEF Early
  <1> QED
    BY <1>6, <1>7, <1>8, <1>9, BothDirs DEF IInv

\* The client has read the response header.
LEMMA StepOfClientReadsHeader == ASSUME IInv, client_reads_header PROVE IInv'
  <1>1. Types /\ Early /\ DirOK("up") /\ DirOK("down")
    BY DEF IInv, Dir
  <1>2. /\ r["down"].st = "header" /\ Len(wire["down"]) >= HeaderLen
        /\ \A i \in 1..HeaderLen : wire["down"][i] # Fin
        /\ wire' = [wire EXCEPT !["down"] = SubSeq(wire["down"], HeaderLen + 1, Len(wire["down"]))]
        /\ r' = [r EXCEPT !["down"].count = AfterHeader(fmt), !["down"].st = "len"]
        /\ fmt' = fmt /\ load' = load /\ phase' = phase /\ lost' = lost /\ w' = w /\ sent' = sent /\ got' = got
    BY DEF client_reads_header
  <1>3. /\ wire'["down"] = SubSeq(wire["down"], HeaderLen + 1, Len(wire["down"])) /\ wire'["up"] = wire["up"]
        /\ r'["down"] = [r["down"] EXCEPT !.count = AfterHeader(fmt), !.st = "len"] /\ r'["up"] = r["up"]
    BY <1>1, <1>2 DEF Types, Dir
  <1>4. DirOK("down")' /\ wire'["down"] \in Seq(PieceT) /\ r'["down"] \in Reader
    BY <1>1, <1>2, <1>3, HeaderRead DEF Dir
  <1>5. DirOK("up")'
    BY <1>1, <1>2, <1>3, DirStays DEF Dir
  <1>6. Types'
    <2>1. wire' \in [Dir -> Seq(PieceT)]
      BY <1>1, <1>2, <1>3, <1>4 DEF Types, Dir
    <2>2. r' \in [Dir -> Reader]
      BY <1>1, <1>2, <1>3, <1>4 DEF Types, Dir
    <2> QED
      BY <1>1, <1>2, <2>1, <2>2 DEF Types
  <1>7. Early'
    BY <1>1, <1>2, <1>3 DEF Early
  <1> QED
    BY <1>4, <1>5, <1>6, <1>7, BothDirs DEF IInv

\* The response header goes out: the downlink grows by it.
LEMMA StepOfRespondSent == ASSUME IInv, respond, ~lost PROVE IInv'
  <1>1. Types /\ Early /\ DirOK("up") /\ DirOK("down")
    BY DEF IInv, Dir
  <1>2. /\ phase = "dial" /\ ~lost /\ phase' = "relay"
        /\ wire' = [wire EXCEPT !["down"] = wire["down"] \o HeaderOf(fmt, Good)]
        /\ w' = [w EXCEPT !["down"].count = AfterHeader(fmt)]
        /\ fmt' = fmt /\ load' = load /\ lost' = lost /\ r' = r /\ sent' = sent /\ got' = got
    BY DEF respond
  <1> DEFINE x == wire["down"] \o HeaderOf(fmt, Good)
             n == Len(sent["down"])
  <1>3. w["down"].st = "open" /\ w["down"] \in Writer /\ wire["down"] \in Seq(PieceT) /\ n \in Nat
    BY <1>1, <1>2 DEF Early, Types, Dir
  <1>4. /\ wire'["down"] = x /\ wire'["up"] = wire["up"] /\ w'["up"] = w["up"]
        /\ w'["down"] = [w["down"] EXCEPT !.count = AfterHeader(fmt)]
    BY <1>1, <1>2 DEF Types, Dir
  <1>5. PICK a \in Pos, b \in Pos :
               /\ Way("down", wire["down"], n, "open", a, b)
               /\ ReaderAt(a, r["down"], Len(got["down"]))
               /\ WriterAt("down", b, w["down"], n, phase)
    BY <1>1, <1>2, <1>3 DEF DirOK, OnTheWay
  <1>6. b = First /\ w["down"].shake = 0 /\ b.n = n
    BY <1>2, <1>3, <1>5 DEF WriterAt
  <1>7. /\ x \in Seq(PieceT) /\ Way("down", x, n, "open", a, Start)
        /\ \A i \in 1..Len(x) : x[i] = Fin => i <= Len(wire["down"]) /\ wire["down"][i] = Fin
    BY <1>1, <1>3, <1>5, <1>6, ValuesOK, WayHeader DEF Dir
  <1>8. Start \in Pos /\ Start.count = AfterHeader(fmt) /\ Start.shake = 0 /\ Start.st = "len" /\ Start.n = 0
    <2>1. Start \in Pos
      BY <1>1, <1>5, PositionsOK DEF Dir
    <2> QED
      BY <2>1 DEF Start
  <1>9. AfterHeader(fmt) \in 0..(CountMod - 1)
    BY <1>8 DEF Pos
  <1>10. /\ w'["down"] \in Writer /\ w'["down"].st = "open" /\ w'["down"].count = AfterHeader(fmt)
         /\ w'["down"].shake = 0
    BY <1>3, <1>4, <1>6, <1>9 DEF Writer
  <1>11. n = 0
    BY <1>6 DEF First
  <1>12. WriterAt("down", Start, w'["down"], Len(sent'["down"]), phase')
    BY <1>2, <1>8, <1>10, <1>11 DEF WriterAt
  <1> HIDE DEF x
  <1>13. OnTheWay("down")'
    <2>1. PICK c, y, k : c = Start /\ y = x /\ k = n
      OBVIOUS
    <2>2. /\ Way("down", y, k, "open", a, c) /\ c \in Pos
          /\ WriterAt("down", c, w'["down"], Len(sent'["down"]), phase')
      BY <1>7, <1>8, <1>12, <2>1
    <2>3. ReaderAt(a, r'["down"], Len(got'["down"]))
      BY <1>2, <1>5
    <2> QED
      BY <1>2, <1>4, <1>5, <1>10, <2>1, <2>2, <2>3, OnTheWayNext
  <1>14. Numbered("down")'
    BY <1>1, <1>2 DEF DirOK, Numbered
  <1>15. FinOK("down")'
    <2>1. \A i \in 1..Len(wire["down"]) : wire["down"][i] # Fin
      BY <1>1, <1>2, <1>3 DEF DirOK, FinOK
    <2>2. \A i \in 1..Len(x) : x[i] # Fin
      <3> SUFFICES ASSUME NEW i \in 1..Len(x), x[i] = Fin
                   PROVE FALSE
        OBVIOUS
      <3>1. i <= Len(wire["down"]) /\ wire["down"][i] = Fin
        BY <1>7
      <3>2. i \in 1..Len(wire["down"])
        BY <1>3, <1>7, <3>1
      <3> QED
        BY <2>1, <3>1, <3>2
    <2> QED
      BY <1>4, <2>2 DEF FinOK
  <1>16. StoppedOK("down")'
    BY <1>1, <1>2, <1>3, <1>10, FmtStays DEF DirOK, StoppedOK
  <1>17. DirOK("up")'
    BY <1>1, <1>2, <1>4, DirStays DEF Dir
  <1>18. Types'
    <2>1. wire' \in [Dir -> Seq(PieceT)]
      BY <1>1, <1>2, <1>4, <1>7 DEF Types, Dir
    <2>2. w' \in [Dir -> Writer]
      BY <1>1, <1>2, <1>4, <1>10 DEF Types, Dir
    <2> QED
      BY <1>1, <1>2, <2>1, <2>2 DEF Types
  <1>19. Early'
    BY <1>2 DEF Early
  <1>20. DirOK("down")'
    BY <1>13, <1>14, <1>15, <1>16 DEF DirOK
  <1> QED
    BY <1>17, <1>18, <1>19, <1>20, BothDirs DEF IInv

\* The response header is written after a cut: nothing of it arrives.
LEMMA StepOfRespondLost == ASSUME IInv, respond, lost PROVE IInv'
  <1>1. Types /\ Early /\ DirOK("up") /\ DirOK("down")
    BY DEF IInv, Dir
  <1>2. /\ phase = "dial" /\ phase' = "relay" /\ wire' = wire
        /\ w' = [w EXCEPT !["down"].count = AfterHeader(fmt)]
        /\ fmt' = fmt /\ load' = load /\ lost' = lost /\ r' = r /\ sent' = sent /\ got' = got
    BY DEF respond
  <1>3. AfterHeader(fmt) \in 0..(CountMod - 1)
    <2>1. Start \in Pos
      BY <1>1, Ends, PositionsOK DEF Dir, DirOK
    <2> QED
      BY <2>1 DEF Start, Pos
  <1>4. w["down"] \in Writer /\ w'["up"] = w["up"] /\ w'["down"] = [w["down"] EXCEPT !.count = AfterHeader(fmt)]
    BY <1>1, <1>2 DEF Types, Dir
  <1>5. w'["down"] \in Writer /\ w'["down"].st = w["down"].st
    BY <1>3, <1>4 DEF Writer
  <1>6. OnTheWay("down")'
    <2>1. PICK a \in Pos, b \in Pos :
                 /\ Way("down", wire["down"], Len(sent["down"]), w["down"].st, a, b)
                 /\ ReaderAt(a, r["down"], Len(got["down"]))
      BY <1>1 DEF DirOK, OnTheWay
    <2> QED
      BY <1>2, <1>5, <2>1, OnTheWayNext
  <1>7. Numbered("down")'
    BY <1>1, <1>2 DEF DirOK, Numbered
  <1>8. FinOK("down")'
    BY <1>2 DEF FinOK
  <1>9. StoppedOK("down")'
    BY <1>1, <1>2, <1>5, FmtStays DEF DirOK, StoppedOK
  <1>10. DirOK("up")'
    BY <1>1, <1>2, <1>4, DirStays DEF Dir
  <1>11. Types'
    <2>1. w' \in [Dir -> Writer]
      BY <1>1, <1>2, <1>4, <1>5 DEF Types, Dir
    <2> QED
      BY <1>1, <1>2, <2>1 DEF Types
  <1>12. Early'
    BY <1>2 DEF Early
  <1>13. DirOK("down")'
    BY <1>6, <1>7, <1>8, <1>9 DEF DirOK
  <1> QED
    BY <1>10, <1>11, <1>12, <1>13, BothDirs DEF IInv

\* The response header, before or after a cut.
LEMMA StepOfRespond == ASSUME IInv, respond PROVE IInv'
  BY StepOfRespondSent, StepOfRespondLost

\* relay_down or AeadWriter writes a chunk, or finds out that the security is unknown.
LEMMA StepOfDownWrites == ASSUME IInv, down_writes PROVE IInv'
  <1>1. Types /\ Early /\ DirOK("up") /\ DirOK("down")
    BY DEF IInv, Dir
  <1>2. /\ phase = "relay" /\ w["down"].st = "open" /\ ~lost /\ Len(sent["down"]) < load["down"]
        /\ fmt' = fmt /\ load' = load /\ phase' = phase /\ lost' = lost /\ r' = r /\ got' = got
    BY DEF down_writes
  <1>3. CASE fmt.sec = "unknown"
    BY <1>2, <1>3, DownStops DEF down_writes
  <1>4. CASE fmt.sec # "unknown"
    <2>1. /\ wire' = [wire EXCEPT !["down"] = wire["down"] \o ChunkOf("down", Len(sent["down"]) + 1)]
          /\ sent' = [sent EXCEPT !["down"] = Append(sent["down"], Len(sent["down"]) + 1)]
          /\ w' = [w EXCEPT !["down"] = Advanced("down")]
      BY <1>4 DEF down_writes
    <2>2. load["down"] \in 0..MaxChunks /\ MaxChunks \in Nat /\ Len(sent["down"]) \in Nat
      BY <1>1, ChunkAssumption DEF Types, Dir
    <2>3. Len(sent["down"]) < MaxChunks
      BY <1>2, <2>2
    <2>4. /\ wire'["down"] = wire["down"] \o ChunkOf("down", Len(sent["down"]) + 1)
          /\ sent'["down"] = Append(sent["down"], Len(sent["down"]) + 1)
          /\ w'["down"] = Advanced("down")
          /\ wire'["up"] = wire["up"] /\ sent'["up"] = sent["up"] /\ w'["up"] = w["up"]
      BY <1>1, <2>1 DEF Types, Dir
    <2>5. DirOK("down")' /\ wire'["down"] \in Seq(PieceT)
      BY <1>1, <1>2, <2>3, <2>4, ChunkWritten DEF Dir
    <2>6. DirOK("up")'
      BY <1>1, <1>2, <2>4, DirStays DEF Dir
    <2>7. Types'
      <3>1. Advanced("down") \in Writer
        BY <1>1, AdvancedOK DEF Dir
      <3>2. Append(sent["down"], Len(sent["down"]) + 1) \in Seq(1..MaxChunks)
        BY <1>1, <2>2, <2>3 DEF Types, Dir
      <3>3. wire' \in [Dir -> Seq(PieceT)]
        BY <1>1, <2>1, <2>4, <2>5 DEF Types, Dir
      <3> QED
        BY <1>1, <1>2, <2>1, <3>1, <3>2, <3>3 DEF Types, Dir
    <2>8. Early'
      BY <1>2 DEF Early
    <2> QED
      BY <2>5, <2>6, <2>7, <2>8, BothDirs DEF IInv
  <1> QED
    BY <1>3, <1>4

\* The target has ended.
LEMMA StepOfDownEnds == ASSUME IInv, down_ends PROVE IInv'
  <1>1. Types /\ Early /\ DirOK("up") /\ DirOK("down")
    BY DEF IInv, Dir
  <1>2. /\ phase = "relay" /\ w["down"].st = "open" /\ ~lost
        /\ fmt' = fmt /\ load' = load /\ phase' = phase /\ lost' = lost /\ r' = r /\ got' = got /\ sent' = sent
    BY DEF down_ends
  <1>3. CASE Ss \/ Raw \/ fmt.sec = "unknown"
    BY <1>2, <1>3, DownStops DEF down_ends
  <1>4. CASE ~(Ss \/ Raw \/ fmt.sec = "unknown")
    <2>1. /\ wire' = [wire EXCEPT !["down"] = wire["down"] \o ChunkOf("down", Eof) \o <<Fin>>]
          /\ w' = [w EXCEPT !["down"] = [Advanced("down") EXCEPT !.st = "done"]]
      BY <1>4 DEF down_ends
    <2>2. Advanced("down") \in Writer
      BY <1>1, AdvancedOK DEF Dir
    <2>3. [Advanced("down") EXCEPT !.st = "done"] \in Writer
      BY <2>2 DEF Writer
    <2>4. /\ wire'["down"] = wire["down"] \o ChunkOf("down", Eof) \o <<Fin>>
          /\ w'["down"] = [Advanced("down") EXCEPT !.st = "done"]
          /\ wire'["up"] = wire["up"] /\ w'["up"] = w["up"]
      BY <1>1, <2>1 DEF Types, Dir
    <2>5. w'["down"].st = "done"
      BY <2>2, <2>4 DEF Writer
    <2>6. DirOK("down")' /\ wire'["down"] \in Seq(PieceT)
      BY <1>1, <1>2, <1>4, <2>4, <2>5, EofWritten DEF Dir
    <2>7. DirOK("up")'
      BY <1>1, <1>2, <2>4, DirStays DEF Dir
    <2>8. Types'
      <3>1. wire' \in [Dir -> Seq(PieceT)]
        BY <1>1, <2>1, <2>4, <2>6 DEF Types, Dir
      <3> QED
        BY <1>1, <1>2, <2>1, <2>3, <3>1 DEF Types, Dir
    <2>9. Early'
      BY <1>2 DEF Early
    <2> QED
      BY <2>6, <2>7, <2>8, <2>9, BothDirs DEF IInv
  <1> QED
    BY <1>3, <1>4

\* A reader's step leaves the other direction alone.
LEMMA OtherDir ==
    ASSUME Types, Early, NEW d \in Dir, \A e \in Dir : DirOK(e), DirOK(d)', fmt' = fmt, lost' = lost,
           phase' = phase, load' = load, w' = w, sent' = sent, Runs(d), r[d].st # "header",
           wire' \in [Dir -> Seq(PieceT)], r' \in [Dir -> Reader], got' \in [Dir -> Seq(1..MaxChunks)],
           \A e \in Dir : e # d => wire'[e] = wire[e] /\ r'[e] = r[e] /\ got'[e] = got[e]
    PROVE IInv'
  <1>1. ASSUME NEW e \in Dir
        PROVE DirOK(e)'
    <2>1. CASE e = d
      BY <2>1
    <2>2. CASE e # d
      BY <2>2, DirStays
    <2> QED
      BY <2>1, <2>2
  <1>2. Types'
    BY DEF Types
  <1>3. Early'
    <2>1. "up" \in Dir
      BY DEF Dir
    <2> QED
      BY <2>1 DEF Early, Runs
  <1> QED
    BY <1>1, <1>2, <1>3 DEF IInv

\* A reader of either direction takes a step.
LEMMA StepOfReaders ==
    ASSUME IInv, NEW d \in Dir,
           read_end(d) \/ read_len(d) \/ read_data(d) \/ skip_padding(d) \/ copy(d)
    PROVE IInv'
  <1>1. /\ Types /\ Early /\ (\A e \in Dir : DirOK(e)) /\ DirOK(d)
        /\ r \in [Dir -> Reader] /\ wire \in [Dir -> Seq(PieceT)] /\ got \in [Dir -> Seq(1..MaxChunks)]
    BY DEF IInv, Types
  <1>2. CASE read_end(d)
    <2>1. DirOK(d)'
      BY <1>1, <1>2, EndRead
    <2>2. /\ fmt' = fmt /\ load' = load /\ lost' = lost /\ phase' = phase /\ w' = w /\ sent' = sent
          /\ wire' = wire /\ got' = got /\ Runs(d) /\ r[d].st # "header"
          /\ r' = [r EXCEPT ![d].st = IF (Ss /\ @ = "len") \/ Raw THEN "ended" ELSE "short"]
      BY <1>2 DEF read_end, Reading
    <2>3. r' \in [Dir -> Reader] /\ \A e \in Dir : e # d => r'[e] = r[e]
      BY <1>1, <2>2 DEF Reader
    <2> QED
      BY <1>1, <2>1, <2>2, <2>3, OtherDir
  <1>3. CASE read_len(d)
    <2>1. DirOK(d)' /\ wire'[d] \in Seq(PieceT) /\ r'[d] \in Reader
      BY <1>1, <1>3, LenRead
    <2>2. /\ fmt' = fmt /\ load' = load /\ lost' = lost /\ phase' = phase /\ w' = w /\ sent' = sent
          /\ got' = got /\ Runs(d) /\ r[d].st # "header"
          /\ wire' = [wire EXCEPT ![d] = Tail(wire[d])]
      BY <1>3 DEF read_len
    <2>3. \E s, t : r' = [r EXCEPT ![d].shake = s, ![d].st = t]
      BY <1>3 DEF read_len
    <2>4. r' \in [Dir -> Reader] /\ \A e \in Dir : e # d => r'[e] = r[e]
      BY <1>1, <2>1, <2>3
    <2>5. wire' \in [Dir -> Seq(PieceT)] /\ \A e \in Dir : e # d => wire'[e] = wire[e]
      BY <1>1, <2>1, <2>2
    <2> QED
      BY <1>1, <2>1, <2>2, <2>4, <2>5, OtherDir
  <1>4. CASE read_data(d)
    <2>1. /\ DirOK(d)' /\ wire'[d] \in Seq(PieceT) /\ r'[d] \in Reader
          /\ got' \in [Dir -> Seq(1..MaxChunks)] /\ \A e \in Dir : e # d => got'[e] = got[e]
      BY <1>1, <1>4, DataRead
    <2>2. /\ fmt' = fmt /\ load' = load /\ lost' = lost /\ phase' = phase /\ w' = w /\ sent' = sent
          /\ Runs(d) /\ r[d].st # "header"
          /\ wire' = [wire EXCEPT ![d] = Tail(wire[d])]
      BY <1>4 DEF read_data
    <2>3. \E x : r' = [r EXCEPT ![d] = x]
      BY <1>4 DEF read_data
    <2>4. r' \in [Dir -> Reader] /\ \A e \in Dir : e # d => r'[e] = r[e]
      BY <1>1, <2>1, <2>3
    <2>5. wire' \in [Dir -> Seq(PieceT)] /\ \A e \in Dir : e # d => wire'[e] = wire[e]
      BY <1>1, <2>1, <2>2
    <2> QED
      BY <1>1, <2>1, <2>2, <2>4, <2>5, OtherDir
  <1>5. CASE skip_padding(d)
    <2>1. /\ DirOK(d)' /\ wire'[d] \in Seq(PieceT) /\ r'[d] \in Reader
          /\ got' \in [Dir -> Seq(1..MaxChunks)] /\ \A e \in Dir : e # d => got'[e] = got[e]
      BY <1>1, <1>5, PaddingSkipped
    <2>2. /\ fmt' = fmt /\ load' = load /\ lost' = lost /\ phase' = phase /\ w' = w /\ sent' = sent
          /\ Runs(d) /\ r[d].st # "header"
          /\ wire' = [wire EXCEPT ![d] = Tail(wire[d])]
      BY <1>5 DEF skip_padding
    <2>3. \E s, t : r' = [r EXCEPT ![d].st = s, ![d].plain = t]
      BY <1>5 DEF skip_padding
    <2>4. r' \in [Dir -> Reader] /\ \A e \in Dir : e # d => r'[e] = r[e]
      BY <1>1, <2>1, <2>3
    <2>5. wire' \in [Dir -> Seq(PieceT)] /\ \A e \in Dir : e # d => wire'[e] = wire[e]
      BY <1>1, <2>1, <2>2
    <2> QED
      BY <1>1, <2>1, <2>2, <2>4, <2>5, OtherDir
  <1>6. CASE copy(d)
    <2>1. /\ DirOK(d)' /\ wire'[d] \in Seq(PieceT)
          /\ got' \in [Dir -> Seq(1..MaxChunks)] /\ \A e \in Dir : e # d => got'[e] = got[e]
      BY <1>1, <1>6, Copied
    <2>2. /\ fmt' = fmt /\ load' = load /\ lost' = lost /\ phase' = phase /\ w' = w /\ sent' = sent
          /\ r' = r /\ Runs(d) /\ r[d].st # "header"
          /\ wire' = [wire EXCEPT ![d] = Tail(wire[d])]
      BY <1>6 DEF copy, Reading
    <2>3. wire' \in [Dir -> Seq(PieceT)] /\ \A e \in Dir : e # d => wire'[e] = wire[e]
      BY <1>1, <2>1, <2>2
    <2> QED
      BY <1>1, <2>1, <2>2, <2>3, OtherDir
  <1> QED
    BY <1>2, <1>3, <1>4, <1>5, <1>6

\* A step that changes nothing.
LEMMA Stutters == ASSUME IInv, UNCHANGED vars PROVE IInv'
  <1>1. /\ fmt' = fmt /\ load' = load /\ phase' = phase /\ lost' = lost /\ wire' = wire
        /\ w' = w /\ r' = r /\ sent' = sent /\ got' = got
    BY DEF vars
  <1>2. ASSUME NEW d \in Dir PROVE DirOK(d)'
    BY <1>1, DirStays DEF IInv
  <1>3. Types'
    BY <1>1 DEF IInv, Types
  <1>4. Early'
    BY <1>1 DEF IInv, Early
  <1> QED
    BY <1>2, <1>3, <1>4 DEF IInv

\* The inductive invariant holds from the first state on.
LEMMA InitOK == ASSUME Init PROVE IInv
  <1>1. PICK v \in {Good, Bad} : wire = [up |-> HeaderOf(fmt, v), down |-> <<>>]
    BY DEF Init
  <1>2. /\ fmt \in Formats /\ load \in Loads /\ phase = "header" /\ lost = FALSE
        /\ w = [up   |-> [count |-> AfterHeader(fmt), shake |-> 0, st |-> "open"],
                down |-> [count |-> 0, shake |-> 0, st |-> "open"]]
        /\ r = [d \in Dir |-> [count |-> 0, shake |-> 0, st |-> "header", plain |-> NoVal]]
        /\ sent = [d \in Dir |-> <<>>] /\ got = [d \in Dir |-> <<>>]
    BY DEF Init
  <1>3. 0 \in 0..(CountMod - 1) /\ AfterHeader(fmt) \in 0..(CountMod - 1) /\ v \in Value /\ NoVal \in Value
    <2>1. 0 \in 0..(CountMod - 1)
      BY ChunkAssumption
    <2> QED
      BY <1>1, <2>1, IncOK, ValuesOK DEF AfterHeader
  <1>4. /\ w["up"] = [count |-> AfterHeader(fmt), shake |-> 0, st |-> "open"]
        /\ w["down"] = [count |-> 0, shake |-> 0, st |-> "open"]
        /\ wire["up"] = HeaderOf(fmt, v) /\ wire["down"] = <<>>
        /\ \A d \in Dir : /\ r[d].st = "header" /\ r[d].shake = 0 /\ sent[d] = <<>> /\ got[d] = <<>>
                          /\ Len(sent[d]) = 0 /\ Len(got[d]) = 0
    BY <1>1, <1>2 DEF Dir
  <1> DEFINE h == HeaderOf(fmt, v)
  <1>5. h \in Seq(PieceT)
    <2>1. Unsealed \in 0..CountMod /\ NoWord \in Nat /\ 0 \in 0..CountMod /\ Inc(0) \in 0..CountMod
      BY ChunkAssumption, IncOK DEF Unsealed, NoWord
    <2>2. /\ Piece("len", 0, NoWord, NoWord, v) \in PieceT
          /\ Piece("data", Inc(0), NoWord, NoWord, v) \in PieceT
          /\ Piece("data", Unsealed, NoWord, NoWord, v) \in PieceT
      BY <1>3, <2>1, PieceOK
    <2> QED
      BY <2>2 DEF HeaderOf
  <1>6. Types
    <2>1. wire \in [Dir -> Seq(PieceT)]
      <3>1. wire = [d \in Dir |-> IF d = "up" THEN h ELSE <<>>]
        BY <1>1 DEF Dir
      <3> HIDE DEF h
      <3> QED
        BY <1>5, <3>1
    <2>2. w \in [Dir -> Writer]
      <3>1. w = [d \in Dir |-> IF d = "up" THEN w["up"] ELSE w["down"]]
        BY <1>2 DEF Dir
      <3>2. w["up"] \in Writer /\ w["down"] \in Writer
        BY <1>3, <1>4 DEF Writer
      <3> QED
        BY <3>1, <3>2
    <2>3. r \in [Dir -> Reader]
      BY <1>2, <1>3 DEF Reader
    <2>4. sent \in [Dir -> Seq(1..MaxChunks)] /\ got \in [Dir -> Seq(1..MaxChunks)]
      BY <1>2
    <2> QED
      BY <1>2, <2>1, <2>2, <2>3, <2>4 DEF Types
  <1>7. First \in Pos /\ Start \in Pos
    <2>1. First \in Pos
      BY <1>3 DEF First, Pos, NoVal
    <2> QED
      BY <1>6, <2>1, PositionsOK DEF Dir
  <1>8. PosOK(First, 0, "open") /\ First.st = "header"
    BY DEF First, PosOK
  <1>9. ASSUME NEW d \in Dir PROVE Way(d, <<>>, 0, "open", First, First)
    BY <1>7, <1>8, WayEmpty
  <1>10. Way("up", h, 0, "open", First, Start)
    <2>1. <<>> \o h = h /\ <<>> \in Seq(PieceT)
      BY <1>5
    <2>2. Way("up", <<>> \o h, 0, "open", First, Start)
      BY <1>3, <1>6, <1>9, <2>1, WayHeader DEF Dir
    <2> QED
      BY <2>1, <2>2
  <1>11. ASSUME NEW d \in Dir PROVE ReaderAt(First, r[d], Len(got[d]))
    BY <1>4, <1>8 DEF ReaderAt
  <1>12. OnTheWay("up")
    <2>1. WriterAt("up", Start, w["up"], Len(sent["up"]), phase)
      BY <1>4 DEF WriterAt, Start, Dir
    <2>2. Way("up", wire["up"], Len(sent["up"]), w["up"].st, First, Start)
      BY <1>4, <1>10 DEF Dir
    <2> QED
      BY <1>7, <1>11, <2>1, <2>2 DEF OnTheWay, Dir
  <1>13. OnTheWay("down")
    <2>1. WriterAt("down", First, w["down"], Len(sent["down"]), phase)
      BY <1>2, <1>4 DEF WriterAt, First, Dir
    <2>2. Way("down", wire["down"], Len(sent["down"]), w["down"].st, First, First)
      BY <1>4, <1>9 DEF Dir
    <2> QED
      BY <1>7, <1>11, <2>1, <2>2 DEF OnTheWay, Dir
  <1>14. ASSUME NEW d \in Dir PROVE Numbered(d) /\ StoppedOK(d)
    BY <1>4, ValuesOK DEF Numbered, StoppedOK
  <1>15. FinOK("up") /\ FinOK("down")
    <2>1. \A i \in 1..Len(h) : h[i] # Fin
      BY FinPiece DEF HeaderOf
    <2> QED
      BY <1>4, <2>1 DEF FinOK
  <1>16. Early
    BY <1>2, <1>4 DEF Early, Dir
  <1> QED
    BY <1>6, <1>12, <1>13, <1>14, <1>15, <1>16 DEF IInv, DirOK, Dir

\* Every step keeps the inductive invariant.
LEMMA StepOK == ASSUME IInv, [Next]_vars PROVE IInv'
  BY StepOfClientWrites, StepOfClientEof, StepOfClientCloses, StepOfConnectionCut, StepOfReadHeader,
     StepOfFailures, StepOfRespond, StepOfProcessEnds, StepOfReaders, StepOfUplinkFails,
     StepOfClientReadsHeader, StepOfDownWrites, StepOfDownEnds, Stutters DEF Next

\* The inductive invariant holds in every state.
LEMMA Inductive == Spec => []IInv
  BY InitOK, StepOK, PTL DEF Spec

\* Two sequences of numbered chunks: the shorter one is a prefix of the other.
LEMMA PrefixOfNumbered ==
    ASSUME NEW S, NEW s \in Seq(S), NEW t \in Seq(S), Len(s) <= Len(t),
           \A i \in 1..Len(s) : s[i] = i, \A i \in 1..Len(t) : t[i] = i
    PROVE IsPrefix(s, t) /\ (Len(s) = Len(t) => s = t)
  <1>1. SubSeq(s, 1, Len(s)) = SubSeq(t, 1, Len(s))
    <2>1. /\ SubSeq(s, 1, Len(s)) \in Seq(S) /\ Len(SubSeq(s, 1, Len(s))) = Len(s)
          /\ \A i \in 1..Len(s) : SubSeq(s, 1, Len(s))[i] = s[i]
      OBVIOUS
    <2>2. /\ SubSeq(t, 1, Len(s)) \in Seq(S) /\ Len(SubSeq(t, 1, Len(s))) = Len(s)
          /\ \A i \in 1..Len(s) : SubSeq(t, 1, Len(s))[i] = t[i]
      OBVIOUS
    <2>3. \A i \in 1..Len(s) : SubSeq(s, 1, Len(s))[i] = SubSeq(t, 1, Len(s))[i]
      BY <2>1, <2>2
    <2> QED
      BY <2>1, <2>2, <2>3, SeqEqual
  <1>2. Len(s) = Len(t) => s = t
    BY SeqEqual
  <1> QED
    BY <1>1, <1>2 DEF IsPrefix

\* The types of TypeOK hold: the counters of both ends of a direction stay below the
\* modulus whatever the number of chunks, and no piece carries a value out of range.
THEOREM TypeCorrect == Spec => []TypeOK
  <1>1. ASSUME IInv PROVE TypeOK
    <2>1. Types
      BY <1>1 DEF IInv
    <2>2. ASSUME NEW d \in Dir, NEW i \in 1..Len(wire[d])
          PROVE wire[d][i] \in PieceT
      <3>1. wire[d] \in Seq(PieceT)
        BY <2>1 DEF Types
      <3> QED
        BY <3>1
    <2> QED
      BY <2>1, <2>2 DEF Types, TypeOK, PieceT, Writer, Reader
  <1> QED
    BY <1>1, Inductive, PTL

\* InStep holds: for every format a client can ask for, wherever the counters wrap and
\* wherever the connection is cut, relay_up, AeadReader and the client's reader deliver
\* what was sent, in order, and never lose count of the nonces and the words of the masks.
THEOREM ChunksInStep == Spec => []InStep
  <1>1. ASSUME IInv PROVE InStep
    <2> SUFFICES ASSUME NEW d \in Dir
                 PROVE /\ IsPrefix(got[d], sent[d])
                       /\ r[d].st = "garbled" => Unreadable(d)
                       /\ r[d].st \in {"ended", "short"} => got[d] = sent[d] \/ lost
                       /\ r[d].st = "ended" /\ got[d] # sent[d] => Ss \/ Raw
      BY DEF InStep
    <2>1. Numbered(d) /\ StoppedOK(d) /\ sent[d] \in Seq(1..MaxChunks) /\ got[d] \in Seq(1..MaxChunks)
      BY <1>1 DEF IInv, DirOK, Types
    <2>2. /\ IsPrefix(got[d], sent[d])
          /\ Len(got[d]) = Len(sent[d]) => got[d] = sent[d]
      BY <2>1, PrefixOfNumbered DEF Numbered
    <2> QED
      BY <2>1, <2>2 DEF StoppedOK
  <1> QED
    BY <1>1, Inductive, PTL
=============================================================================
