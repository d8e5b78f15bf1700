--------------------------- MODULE FramingProofs ---------------------------
(***************************************************************************)
(* Proofs that the relay finds every message and loses none when cells     *)
(* arrive framed: for every script of whole messages, every block that     *)
(* holds a header, and every interleaving of the peers.                    *)
(*                                                                         *)
(* The argument: a buffer is only read into while nothing logged waits in  *)
(* it, so what it holds begins at a message's first cell; framed arrival   *)
(* then keeps a partial message from following a whole one, so the tests   *)
(* on the unsent size are tests on the message at hand.                    *)
(***************************************************************************)
EXTENDS RelayProofs, FiniteSetTheorems

-----------------------------------------------------------------------------
(* The inductive invariant, on one direction's values: its script s, the   *)
(* cells p sent on, t received, a sent by the peer, m logged, its buffer b.*)

Starts(s) == s.ends \cup {0}

NoEndIn(s, p, q) == \A e \in s.ends : e <= p \/ q < e

(* What a peer has put into its socket, as MayArrive restricts it.         *)
Arrives(d, s, p, a) ==
  /\ \/ NoEndIn(s, p, a)
     \/ a \in s.ends /\ \A e \in s.ends : e <= p \/ a <= e
     \/ a \in s.ends /\ a - p <= BLOCK_SZ
  /\ d = "server" /\ a \notin Starts(s) => a - p >= 2

(* What the buffer holds: whole messages, or the beginning of one.         *)
Holds(d, s, p, t) ==
  /\ NoEndIn(s, p, t) \/ t \in s.ends
  /\ d = "server" /\ t \notin Starts(s) => t - p >= 2

(* A size that was taken from a header is that of the next message.        *)
SizeRight(s, m, b) ==
  MessageSizeSet(b) => Unparsed(b) > 0 /\ NextMessage(s, m, m + b.nms)

Roomy(b) == BLOCK_SZ <= Len(b.mem) /\ Len(b.mem) <= SIZE_MAX

(* Outside the parser: everything is logged, or a message has begun and    *)
(* nothing logged waits in front of it.                                    *)
Waits(s, p, t, b) ==
  \/ Unparsed(b) = 0
  \/ /\ b.parsed = 0
     /\ NoEndIn(s, p, t)
     /\ MessageSizeSet(b) \/ Size(b) < INIT_HEADER

DirFramed(d) ==
  LET s == script[d]
      p == Len(out[d])
      b == buf[d]
  IN  /\ p \in Starts(s)
      /\ Marked(d) \in Starts(s)
      /\ Len(logged[d]) = Cardinality({e \in s.ends : e <= Marked(d)})
      /\ Arrives(d, s, p, avail[d])
      /\ Holds(d, s, p, taken[d])
      /\ SizeRight(s, Marked(d), b)
      /\ Roomy(b)

WaitsNow(d) == Waits(script[d], Len(out[d]), taken[d], buf[d])

Waiting ==
  /\ pc \in {"poll", "serve"} => \A d \in Dirs : WaitsNow(d)
  /\ pc = "parse" => WaitsNow(Other(side)) /\ off = buf[side].parsed

(* The setup is logged before anything that comes after it is sent.        *)
SetupFirst ==
  /\ status = "UNESTABLISHED" <=> Marked("server") = 0
  /\ avail["server"] > 0 => Len(out["client"]) >= script["client"].setup
  /\ \A d \in Dirs : avail[d] > script[d].setup
       => Len(out["server"]) >= script["server"].setup

(* Side d has not been served in this pass.                                *)
Unserved(d) ==
  \/ pc = "serve" /\ (side = "client" \/ d = "server")
  \/ pc = "parse" /\ side = "client" /\ d = "server"

FlagsTrue ==
  /\ \A d \in Dirs : Unserved(d) /\ "POLLIN" \in revents[d] =>
       ReadReady(buf[d]) /\ (taken[d] < avail[d] \/ closed[d])
  /\ \A d \in Dirs : Unserved(d) /\ "POLLERR" \in revents[d] => reset[d]

(* The only ends are a SIGPIPE, the error of a side that was reset, and    *)
(* the EOF of a side whose messages have all gone on.                      *)
GoodEnds ==
  /\ cause \in {"none", "eof", "reset", "sigpipe"}
  /\ \A d \in Dirs : reset[d] => closed[d]
  /\ pc # "end" => cause = "none"
  /\ cause = "reset" => \E d \in Dirs : reset[d]
  /\ cause = "eof" => \E d \in Dirs :
       closed[d] /\ NoEndIn(script[d], Len(out[d]), avail[d])

FInv ==
  /\ Chunks = "framed"
  /\ \A d \in Dirs : DirFramed(d)
  /\ Waiting
  /\ SetupFirst
  /\ FlagsTrue
  /\ GoodEnds

-----------------------------------------------------------------------------
(* The buffer: what the operations do to its storage and its size field.   *)

(* A recv() does not move the end of the storage.                          *)
LEMMA ReceivedMem ==
  ASSUME NEW b \in Buffer, NEW n \in 0 .. SIZE_MAX, Counted(b),
         NEW s, NEW p, NEW k
  PROVE  Len(Received(b, n, s, p, k).mem) = Len(Storage(b, n))
<1> DEFINE m == Storage(b, n)
           t == [i \in 1 .. Len(m) |->
                   IF b.read < i /\ i <= b.read + k
                   THEN s[p + i - b.read] ELSE m[i]]
<1>1. Received(b, n, s, p, k) = [b EXCEPT !.mem = t, !.read = @ + k]
  BY DEF Received
<1>2. Len(m) \in Nat
  BY StorageKeeps
<1> HIDE DEF m
<1>3. Len(t) = Len(m)
  BY <1>2
<1> HIDE DEF t
<1>4. [b EXCEPT !.mem = t, !.read = @ + k].mem = t
  BY DEF Buffer
<1> QED BY <1>1, <1>3, <1>4 DEF m

(* clear() keeps the storage and forgets the message's size.               *)
LEMMA WrittenMem ==
  ASSUME NEW b \in Buffer, Counted(b), Unparsed(b) = 0
  PROVE  Written(b).mem = b.mem /\ Written(b).nms = UNKNOWN_SZ
<1> DEFINE w == [b EXCEPT !.written = @ + b.parsed, !.parsed = 0]
<1>1. w.written = b.written + b.parsed /\ w.read = b.read /\ w.mem = b.mem
      /\ DOMAIN w = DOMAIN b
  BY DEF Buffer
<1>2. DOMAIN b = {"mem", "read", "parsed", "written", "nms"}
  BY DEF Buffer
<1>3. w.written = w.read
  BY <1>1, BufferFields DEF Unparsed, Size
<1>4. Written(b) = Cleared(w)
  BY <1>3 DEF Written
<1> HIDE DEF w
<1>5. Cleared(w).mem = w.mem /\ Cleared(w).nms = UNKNOWN_SZ
  BY <1>1, <1>2 DEF Cleared
<1> QED BY <1>1, <1>4, <1>5

(* What is asked for when nothing logged waits: at least one cell, for     *)
(* which a resize makes room; the storage never falls below a block.       *)
LEMMA ReadFits ==
  ASSUME NEW b \in Buffer, Counted(b), b.written = 0, Roomy(b),
         \/ ~MessageSizeSet(b) /\ Size(b) < Len(b.mem)
         \/ MessageSizeSet(b) /\ Size(b) < b.nms /\ b.nms + BLOCK_SZ <= SIZE_MAX
  PROVE  LET n == BytesToRead(b)
         IN  /\ n \in 1 .. SIZE_MAX
             /\ MessageSizeSet(b) => n = b.nms - Size(b)
             /\ ~MessageSizeSet(b) => n = Len(b.mem) - Size(b)
             /\ ReadAsserts(b, n)
             /\ InStorage(b, n)
             /\ BLOCK_SZ <= Len(Storage(b, n))
             /\ Len(Storage(b, n)) <= SIZE_MAX
<1> DEFINE n == BytesToRead(b)
<1>1. /\ b.read \in Nat /\ b.nms \in Nat /\ Len(b.mem) \in Nat
      /\ Size(b) = b.read /\ b.read <= Len(b.mem) /\ Len(b.mem) <= SIZE_MAX
      /\ BLOCK_SZ <= Len(b.mem) /\ SIZE_MAX \in Nat /\ BLOCK_SZ \in Nat \ {0}
  BY BufferFields, SizeMaxAssumption, BlockAssumption DEF Counted, Size, Roomy
<1>2. \A x \in 0 .. SIZE_MAX : SizeT(x) = x
  BY <1>1 DEF SizeT
<1>3. Capacity(b) = Len(b.mem) - b.read
  <2>1. Len(b.mem) - b.read \in 0 .. SIZE_MAX
    BY <1>1
  <2> QED BY <1>2, <2>1 DEF Capacity
<1>4. CASE ~MessageSizeSet(b)
  <2>1. n = Len(b.mem) - b.read /\ n = Capacity(b)
    BY <1>3, <1>4 DEF BytesToRead
  <2>2. n \in 1 .. SIZE_MAX
    BY <1>1, <1>4, <2>1
  <2>3. ~(n > Capacity(b))
    BY <1>1, <1>3, <2>1
  <2>4. Storage(b, n) = b.mem
    BY <2>3 DEF Storage
  <2> QED BY <1>1, <1>4, <2>1, <2>2, <2>3, <2>4 DEF ReadAsserts, InStorage
<1>5. CASE MessageSizeSet(b)
  <2>1. b.nms - b.read \in 1 .. SIZE_MAX
    BY <1>1, <1>5
  <2>2. n = b.nms - b.read
    BY <1>1, <1>2, <1>5, <2>1 DEF BytesToRead
  <2>3. CASE ~(n > Capacity(b))
    <3>1. Storage(b, n) = b.mem
      BY <2>3 DEF Storage
    <3>2. b.read + n <= Len(b.mem)
      BY <1>1, <1>3, <2>1, <2>2, <2>3
    <3> QED BY <1>1, <1>5, <2>1, <2>2, <2>3, <3>1, <3>2
            DEF ReadAsserts, InStorage
  <2>4. CASE n > Capacity(b)
    <3> DEFINE raw == SizeT(Len(b.mem) + SizeT(n - Capacity(b)))
               pad == (BLOCK_SZ - (raw % BLOCK_SZ)) % BLOCK_SZ
               big == GrownTo(b, n)
    <3>1. n - Capacity(b) = b.nms - Len(b.mem) /\ b.nms - Len(b.mem) \in 1 .. SIZE_MAX
      <4> HIDE DEF n
      <4>1. n - Capacity(b) = b.nms - Len(b.mem)
        BY ONLY <1>1, <1>3, <2>2
      <4>2. b.nms - Len(b.mem) > 0
        BY ONLY <1>1, <1>3, <2>2, <2>4
      <4>3. b.nms - Len(b.mem) <= SIZE_MAX
        BY ONLY <1>1, <2>1
      <4> QED BY ONLY <1>1, <4>1, <4>2, <4>3
    <3>2. Len(b.mem) + SizeT(n - Capacity(b)) = b.nms
      BY <1>1, <1>2, <3>1
    <3>3. raw = b.nms
      <4>1. b.nms \in 0 .. SIZE_MAX
        BY <1>1, <1>5
      <4> QED BY <1>2, <3>2, <4>1
    <3> HIDE DEF raw
    <3>4. raw % BLOCK_SZ \in 0 .. (BLOCK_SZ - 1)
      BY <1>1, <3>3
    <3>5. pad \in 0 .. (BLOCK_SZ - 1)
      BY <1>1, <3>4
    <3>6. big = raw + pad
      BY DEF GrownTo, raw
    <3> HIDE DEF pad, big
    <3>7. /\ big \in Nat /\ b.nms <= big /\ big <= SIZE_MAX
          /\ BLOCK_SZ <= big
      BY <1>1, <1>5, <3>1, <3>3, <3>5, <3>6
    <3>8. Len(Storage(b, n)) = big
      <4>1. Storage(b, n) =
              [i \in 1 .. big |-> IF i <= Len(b.mem) THEN b.mem[i] ELSE 0]
        BY <2>4 DEF Storage, big
      <4> QED BY <3>7, <4>1
    <3>9. SizeT(big - b.read) = big - b.read
      <4>1. big - b.read \in 0 .. SIZE_MAX
        BY <1>1, <2>1, <3>7
      <4> QED BY <1>2, <4>1
    <3>10. ReadAsserts(b, n)
      BY <1>1, <2>1, <2>2, <3>7, <3>9 DEF ReadAsserts, big
    <3>11. InStorage(b, n)
      BY <1>1, <2>1, <2>2, <3>7, <3>8 DEF InStorage
    <3> QED BY <1>1, <1>5, <2>1, <2>2, <3>7, <3>8, <3>10, <3>11
  <2> QED BY <2>3, <2>4
<1> QED BY <1>4, <1>5

-----------------------------------------------------------------------------
(* Headers.                                                                *)

(* The header test never asks for more than the size's computation reads.  *)
LEMMA HeaderSizes ==
  ASSUME NEW d \in Dirs, NEW st \in Statuses, NEW b, NEW o
  PROVE  /\ HeaderCells(d, st, b, o) \in 1 .. INIT_HEADER
         /\ DeclaredCells(d, st, b, o) \in 1 .. INIT_HEADER
         /\ HeaderCells(d, st, b, o) <= DeclaredCells(d, st, b, o)
         /\ d = "client" => DeclaredCells(d, st, b, o) >= REQUEST_HEADER
         /\ ~(d = "server" /\ st = "OPEN")
              => DeclaredCells(d, st, b, o) = HeaderCells(d, st, b, o)
         /\ DeclaredCells(d, st, b, o) <= 2 \/ d = "client"
  BY DEF HeaderCells, DeclaredCells, INIT_HEADER, RESPONSE_HEADER, BIG_HEADER,
         REQUEST_HEADER, SERVER_HEADER, Dirs, Statuses

(* The u cells of b's storage from o on are those of c's from m on.        *)
Agree(b, o, c, m, u) ==
  /\ o \in Nat /\ m \in Nat /\ u \in Nat
  /\ Len(b.mem) \in Nat /\ Len(c.mem) \in Nat
  /\ o + u <= Len(b.mem) /\ m + u <= Len(c.mem)
  /\ \A i \in 1 .. u : b.mem[o + i] = c.mem[m + i]

(* Two storages that agree on the header of one declare the same size.     *)
LEMMA HeaderAgrees ==
  ASSUME NEW d \in Dirs, NEW st \in Statuses, NEW b, NEW o, NEW c, NEW m,
         NEW u, Agree(b, o, c, m, u),
         DeclaredCells(d, st, b, o) <= u \/ DeclaredCells(d, st, c, m) <= u
  PROVE  /\ HeaderCells(d, st, b, o) = HeaderCells(d, st, c, m)
         /\ DeclaredCells(d, st, b, o) = DeclaredCells(d, st, c, m)
         /\ Declared(d, st, b, o) = Declared(d, st, c, m)
<1>0. /\ o \in Nat /\ m \in Nat /\ u \in Nat
      /\ Len(b.mem) \in Nat /\ Len(c.mem) \in Nat
      /\ o + u <= Len(b.mem) /\ m + u <= Len(c.mem)
      /\ \A i \in 1 .. u : b.mem[o + i] = c.mem[m + i]
  BY DEF Agree
<1>1. u >= 1
  BY <1>0, HeaderSizes DEF INIT_HEADER
<1>2. /\ b.mem[o + 1] = c.mem[m + 1]
      /\ u >= 2 => b.mem[o + 2] = c.mem[m + 2]
      /\ u >= 3 => b.mem[o + 3] = c.mem[m + 3]
  BY <1>0, <1>1
<1>3. CASE d = "client" /\ st = "UNESTABLISHED"
  <2>1. u >= 3
    BY <1>0, <1>3 DEF DeclaredCells, HeaderCells, INIT_HEADER
  <2>2. b.mem[o + 2] = c.mem[m + 2] /\ b.mem[o + 3] = c.mem[m + 3]
    BY <1>0, <1>2, <2>1
  <2>3. Declared(d, st, b, o) = Declared(d, st, c, m)
    BY <1>3, <2>2 DEF Declared
  <2> QED BY <1>3, <2>3 DEF DeclaredCells, HeaderCells
<1>4. CASE d = "server" /\ st = "UNESTABLISHED"
  <2>1. u >= 2
    BY <1>0, <1>4 DEF DeclaredCells, HeaderCells, RESPONSE_HEADER
  <2> QED BY <1>2, <1>4, <2>1 DEF DeclaredCells, HeaderCells, Declared
<1>5. CASE d = "server" /\ st = "OPEN"
  <2>1. o + 1 <= Len(b.mem) /\ m + 1 <= Len(c.mem)
    BY <1>0, <1>1
  <2>2. c.mem[m + 1] = REPLY_PREFIX => u >= 2
    BY <1>0, <1>2, <1>5, <2>1 DEF DeclaredCells
  <2> QED BY <1>2, <1>5, <2>1, <2>2 DEF DeclaredCells, HeaderCells, Declared
<1>6. CASE d = "client" /\ st = "OPEN"
  <2>1. u >= 2
    BY <1>0, <1>6, HeaderSizes DEF REQUEST_HEADER
  <2>2. o + 2 <= Len(b.mem) /\ m + 2 <= Len(c.mem)
    BY <1>0, <2>1
  <2>3. c.mem[m + 2] = 0 => u >= 3
    BY <1>0, <1>2, <1>6, <2>1, <2>2 DEF DeclaredCells, HeaderCells, BIG_HEADER
  <2> QED BY <1>2, <1>6, <2>1, <2>2, <2>3 DEF DeclaredCells, HeaderCells, Declared
<1> QED BY <1>3, <1>4, <1>5, <1>6 DEF Dirs, Statuses

-----------------------------------------------------------------------------
(* Scripts.                                                                *)

StatusAt(m) == IF m = 0 THEN "UNESTABLISHED" ELSE "OPEN"

Sent(s) == [mem |-> s.cells]

LEMMA FramedScript ==
  ASSUME Typed, Chunks = "framed", NEW d \in Dirs
  PROVE  WholeMessages(d, script[d]) /\ BLOCK_SZ >= INIT_HEADER
  BY FramedAssumption DEF Typed

(* Ends are cells of the script.                                           *)
LEMMA EndsAreCells ==
  ASSUME Typed, NEW d \in Dirs, NEW s, s = script[d]
  PROVE  /\ \A e \in s.ends : e \in Nat \ {0} /\ e <= Len(s.cells)
         /\ s.cells \in Seq(Cell) /\ Len(s.cells) \in Nat
         /\ \A e \in Starts(s) : e \in Nat /\ e <= Len(s.cells)
<1>1. /\ s.cells \in Seq(Cell)
      /\ s.ends \subseteq 1 .. Len(s.cells)
  BY ScriptsAssumption DEF Typed
<1> QED BY <1>1 DEF Starts

(* What the code takes from a whole header is what the protocol says.      *)
LEMMA SizeIsProtocols ==
  ASSUME NEW d \in Dirs, NEW s, s.cells \in Seq(Cell), NEW m \in Nat,
         NEW e \in Nat, e <= Len(s.cells), e - m >= ProtocolHeader(d, s, m)
  PROVE  /\ DeclaredCells(d, StatusAt(m), Sent(s), m) <= e - m
         /\ Declared(d, StatusAt(m), Sent(s), m) = ProtocolSize(d, s, m)
<1> DEFINE c == Sent(s)
           st == StatusAt(m)
<1>1. c.mem = s.cells /\ Len(s.cells) \in Nat
  BY DEF Sent
<1>2. CASE m = 0
  <2>1. st = "UNESTABLISHED"
    BY <1>2 DEF StatusAt
  <2>2. DeclaredCells(d, st, c, m) = IF d = "client" THEN 3 ELSE 2
    BY <2>1 DEF DeclaredCells, HeaderCells, Dirs, INIT_HEADER, RESPONSE_HEADER
  <2>3. DeclaredCells(d, st, c, m) <= e - m
    BY <1>2, <2>2 DEF ProtocolHeader, Dirs
  <2>4. Declared(d, st, c, m) = ProtocolSize(d, s, m)
    BY <1>1, <1>2, <2>1 DEF Declared, ProtocolSize, Dirs
  <2> QED BY <2>3, <2>4
<1>3. CASE m > 0
  <2>1. st = "OPEN"
    BY <1>3 DEF StatusAt
  <2>2. CASE d = "client"
    <3>1. m + 2 <= Len(s.cells)
      BY <1>1, <1>3, <2>2 DEF ProtocolHeader
    <3>2. DeclaredCells(d, st, c, m) = ProtocolHeader(d, s, m)
      BY <1>1, <1>3, <2>1, <2>2, <3>1
         DEF DeclaredCells, HeaderCells, ProtocolHeader, BIG_HEADER,
             REQUEST_HEADER
    <3>3. Declared(d, st, c, m) = ProtocolSize(d, s, m)
      BY <1>1, <1>3, <2>1, <2>2 DEF Declared, ProtocolSize
    <3> QED BY <3>2, <3>3
  <2>3. CASE d = "server"
    <3>1. DeclaredCells(d, st, c, m) \in {1, 2}
      BY <2>1, <2>3 DEF DeclaredCells, HeaderCells, SERVER_HEADER
    <3>2. e - m >= 2
      BY <2>3 DEF ProtocolHeader
    <3>3. Declared(d, st, c, m) = ProtocolSize(d, s, m)
      BY <1>1, <1>3, <2>1, <2>3 DEF Declared, ProtocolSize
    <3> QED BY <3>1, <3>2, <3>3
  <2> QED BY <2>2, <2>3 DEF Dirs
<1> QED BY <1>2, <1>3

(* Where the message after m ends, once it is known to begin.              *)
LEMMA NextExists ==
  ASSUME Typed, Chunks = "framed", NEW d \in Dirs, NEW s, s = script[d],
         NEW m \in Starts(s), m < Len(s.cells)
  PROVE  \E e \in s.ends :
           /\ NextMessage(s, m, e)
           /\ DeclaredCells(d, StatusAt(m), Sent(s), m) <= e - m
           /\ Declared(d, StatusAt(m), Sent(s), m) = e - m
           /\ e - m + BLOCK_SZ <= SIZE_MAX
<1>1. PICK e \in s.ends :
        /\ NextMessage(s, m, e) /\ e - m = ProtocolSize(d, s, m)
        /\ e - m >= ProtocolHeader(d, s, m) /\ e - m + BLOCK_SZ <= SIZE_MAX
  BY FramedScript DEF WholeMessages, Starts
<1>2. s.cells \in Seq(Cell) /\ m \in Nat /\ e \in Nat /\ e <= Len(s.cells)
  BY EndsAreCells
<1>3. /\ DeclaredCells(d, StatusAt(m), Sent(s), m) <= e - m
      /\ Declared(d, StatusAt(m), Sent(s), m) = ProtocolSize(d, s, m)
  BY <1>1, <1>2, SizeIsProtocols
<1> QED BY <1>1, <1>3

(* A message has only one end.                                             *)
LEMMA NextUnique ==
  ASSUME Typed, NEW d \in Dirs, NEW s, s = script[d], NEW m \in Starts(s),
         NEW e, NEW f, NextMessage(s, m, e), NextMessage(s, m, f)
  PROVE  e = f
<1>1. /\ e \in s.ends /\ m < e /\ f \in s.ends /\ m < f
      /\ f <= m \/ e <= f
      /\ e <= m \/ f <= e
  BY DEF NextMessage
<1>2. e \in Nat /\ f \in Nat /\ m \in Nat
  BY <1>1, EndsAreCells
<1> QED BY <1>1, <1>2

-----------------------------------------------------------------------------
(* One direction.                                                          *)

(* The counters of a direction, and the cells its buffer holds.            *)
LEMMA Counters ==
  ASSUME IInv, NEW d \in Dirs, NEW s, s = script[d], NEW b, b = buf[d]
  PROVE  /\ b \in Buffer /\ Counted(b) /\ b.written = 0
         /\ Len(out[d]) \in Nat /\ taken[d] \in Nat /\ avail[d] \in Nat
         /\ b.parsed \in Nat /\ b.read \in Nat /\ Len(b.mem) \in Nat
         /\ Marked(d) \in Nat /\ Marked(d) = Len(out[d]) + b.parsed
         /\ Size(b) = b.read /\ taken[d] = Len(out[d]) + b.read
         /\ Unparsed(b) = taken[d] - Marked(d) /\ Marked(d) <= taken[d]
         /\ taken[d] <= avail[d] /\ avail[d] <= Len(s.cells)
         /\ Len(s.cells) \in Nat /\ b.read <= Len(b.mem)
<1>1. /\ b \in Buffer /\ out[d] \in Seq(Cell) /\ Len(out[d]) \in Nat
      /\ taken[d] \in Nat /\ avail[d] \in Nat
  BY DEF IInv, Typed
<1>2. DirOK(d)
  BY DEF IInv
<1>3. /\ b.parsed \in Nat /\ b.read \in Nat /\ Len(b.mem) \in Nat
  BY <1>1, BufferFields
<1>4. /\ Counted(b) /\ b.written = 0 /\ Size(b) = b.read
      /\ b.parsed <= b.read /\ b.read <= Len(b.mem)
      /\ taken[d] = Len(out[d]) + b.read
      /\ taken[d] <= avail[d] /\ avail[d] <= Len(s.cells)
  BY <1>2, <1>3 DEF DirOK, Counted, Size
<1>5. Len(s.cells) \in Nat
  BY EndsAreCells DEF IInv
<1>6. Marked(d) = Len(out[d]) + b.parsed /\ Marked(d) \in Nat
  BY <1>1, <1>3 DEF Marked
<1>7. Unparsed(b) = taken[d] - Marked(d) /\ Marked(d) <= taken[d]
  <2>1. Unparsed(b) = b.read - b.parsed
    BY <1>4 DEF Unparsed
  <2> QED BY ONLY <1>1, <1>3, <1>4, <1>6, <2>1
<1> QED BY <1>1, <1>3, <1>4, <1>5, <1>6, <1>7

(* The cells after the mark are those the next message begins with.        *)
LEMMA CellsAfterMark ==
  ASSUME IInv, NEW d \in Dirs, NEW s, s = script[d], NEW b, b = buf[d],
         NEW m, m = Marked(d)
  PROVE  Agree(b, b.parsed, Sent(s), m, taken[d] - m)
<1> DEFINE u == taken[d] - m
<1>1. /\ b.parsed \in Nat /\ b.read \in Nat /\ Len(b.mem) \in Nat
      /\ Len(s.cells) \in Nat /\ Len(out[d]) \in Nat
      /\ taken[d] \in Nat /\ avail[d] \in Nat
      /\ m \in Nat /\ m = Len(out[d]) + b.parsed /\ m <= taken[d]
      /\ taken[d] = Len(out[d]) + b.read /\ taken[d] <= avail[d]
      /\ avail[d] <= Len(s.cells)
      /\ b.read <= Len(b.mem) /\ b.written = 0 /\ Size(b) = b.read
  BY Counters
<1>2. u \in Nat /\ u = b.read - b.parsed
  <2>1. /\ b.parsed \in Nat /\ b.read \in Nat /\ Len(out[d]) \in Nat
        /\ m = Len(out[d]) + b.parsed /\ taken[d] = Len(out[d]) + b.read
        /\ m <= taken[d]
    BY ONLY <1>1
  <2>2. u = b.read - b.parsed
    BY ONLY <2>1 DEF u
  <2>3. b.parsed <= b.read
    BY ONLY <2>1
  <2> HIDE DEF u
  <2> QED BY ONLY <2>1, <2>2, <2>3
<1>3. b.parsed + u <= Len(b.mem)
  <2>1. /\ b.parsed \in Nat /\ b.read \in Nat /\ Len(b.mem) \in Nat
        /\ b.read <= Len(b.mem)
    BY ONLY <1>1
  <2> HIDE DEF u
  <2> QED BY ONLY <1>2, <2>1
<1>4. m + u <= Len(s.cells)
  <2>1. m + u = taken[d]
    BY ONLY <1>1
  <2>2. taken[d] <= Len(s.cells)
    BY ONLY <1>1
  <2> QED BY ONLY <2>1, <2>2
<1>5. ASSUME NEW i \in 1 .. u
      PROVE  b.mem[b.parsed + i] = s.cells[m + i]
  <2> DEFINE j == b.parsed + i
  <2>1. i \in Nat /\ 1 <= i /\ i <= u
    BY ONLY <1>2, i \in 1 .. u
  <2> HIDE DEF u
  <2>2. j \in Nat
    BY ONLY <1>1, <2>1
  <2>3. b.written + j = j
    BY ONLY <1>1, <2>2
  <2>4. Len(out[d]) + j = m + i
    BY ONLY <1>1, <2>1
  <2>5. j \in 1 .. Size(b)
    <3>1. j <= b.read
      <4>1. b.parsed \in Nat /\ b.read \in Nat
        BY ONLY <1>1
      <4> QED BY ONLY <1>2, <2>1, <4>1
    <3>2. 1 <= j
      BY ONLY <1>1, <2>1
    <3> HIDE DEF j
    <3> QED BY ONLY <1>1, <2>2, <3>1, <3>2
  <2>6. \A x \in 1 .. Size(b) :
          b.mem[b.written + x] = s.cells[Len(out[d]) + x]
    BY DEF IInv, DirOK
  <2> HIDE DEF j
  <2>7. b.mem[j] = s.cells[m + i]
    BY ONLY <2>3, <2>4, <2>5, <2>6
  <2> QED BY <2>7 DEF j
<1> HIDE DEF u
<1> QED BY <1>1, <1>2, <1>3, <1>4, <1>5 DEF Agree, Sent, u

(* Once a message was taken whole its header reads as its sender meant it. *)
LEMMA WholeSeen ==
  ASSUME IInv, FInv, NEW d \in Dirs, NEW s, s = script[d], NEW b, b = buf[d],
         NEW m, m = Marked(d), NEW e, NextMessage(s, m, e), e <= taken[d]
  PROVE  LET st == StatusAt(m)
         IN  /\ DeclaredCells(d, st, b, b.parsed) <= e - m
             /\ Declared(d, st, b, b.parsed) = e - m
             /\ HeaderTest(d, st, b, b.parsed)
             /\ HeaderInStorage(d, st, b, b.parsed)
             /\ e \in Nat /\ e > m /\ m < taken[d]
<1> DEFINE st == StatusAt(m)
           u  == taken[d] - m
<1>1. m \in Starts(s) /\ e \in s.ends /\ m < e
  BY DEF FInv, DirFramed, NextMessage
<1>2. e \in Nat /\ m \in Nat /\ e <= Len(s.cells)
  BY <1>1, EndsAreCells DEF IInv
<1>3. m < Len(s.cells) /\ m < taken[d] /\ e - m <= u /\ u \in Nat
  BY <1>1, <1>2, Counters
<1>4. /\ DeclaredCells(d, st, Sent(s), m) <= e - m
      /\ Declared(d, st, Sent(s), m) = e - m
  <2>1. PICK f \in s.ends :
          /\ NextMessage(s, m, f)
          /\ DeclaredCells(d, st, Sent(s), m) <= f - m
          /\ Declared(d, st, Sent(s), m) = f - m
    BY <1>1, <1>3, NextExists DEF IInv, FInv
  <2>2. f = e
    BY <1>1, <2>1, NextUnique DEF IInv
  <2> QED BY <2>1, <2>2
<1>5. st \in Statuses
  BY DEF StatusAt, Statuses
<1>6. DeclaredCells(d, st, Sent(s), m) <= u
  BY <1>2, <1>3, <1>4, <1>5, HeaderSizes DEF INIT_HEADER
<1>7. Agree(b, b.parsed, Sent(s), m, u)
  BY CellsAfterMark
<1>8. b.parsed + u <= Len(b.mem) /\ b.parsed \in Nat /\ Len(b.mem) \in Nat
  BY <1>7 DEF Agree
<1> HIDE DEF st, u
<1>9. /\ DeclaredCells(d, st, b, b.parsed) = DeclaredCells(d, st, Sent(s), m)
      /\ Declared(d, st, b, b.parsed) = Declared(d, st, Sent(s), m)
  BY <1>5, <1>6, <1>7, HeaderAgrees
<1>10. HeaderTest(d, st, b, b.parsed)
  <2>1. /\ HeaderCells(d, st, b, b.parsed) \in Nat
        /\ DeclaredCells(d, st, b, b.parsed) \in Nat
        /\ HeaderCells(d, st, b, b.parsed) <= DeclaredCells(d, st, b, b.parsed)
    BY <1>5, HeaderSizes DEF INIT_HEADER
  <2>2. u <= Size(b) /\ Size(b) \in Nat
    <3>1. /\ Size(b) = b.read /\ b.read \in Nat /\ Len(out[d]) \in Nat
          /\ taken[d] = Len(out[d]) + b.read /\ m = Len(out[d]) + b.parsed
          /\ b.parsed \in Nat
      BY Counters
    <3> QED BY ONLY <3>1 DEF u
  <2> QED BY <1>3, <1>6, <1>9, <2>1, <2>2 DEF HeaderTest
<1>11. HeaderInStorage(d, st, b, b.parsed)
  <2>1. DeclaredCells(d, st, b, b.parsed) \in Nat
    BY <1>5, HeaderSizes DEF INIT_HEADER
  <2> QED BY <1>3, <1>6, <1>8, <1>9, <2>1 DEF HeaderInStorage
<1> QED BY <1>1, <1>2, <1>3, <1>4, <1>9, <1>10, <1>11 DEF st

(* A header that passes the test has been received as far as it is read.   *)
LEMMA HeaderSeen ==
  ASSUME IInv, FInv, NEW d \in Dirs, NEW s, s = script[d], NEW b, b = buf[d],
         NEW m, m = Marked(d), m < taken[d],
         HeaderTest(d, StatusAt(m), b, b.parsed)
  PROVE  /\ HeaderInStorage(d, StatusAt(m), b, b.parsed)
         /\ NextMessage(s, m, m + Declared(d, StatusAt(m), b, b.parsed))
<1> DEFINE st == StatusAt(m)
           u  == taken[d] - m
           t  == taken[d]
           p  == Len(out[d])
<1>0. /\ m \in Nat /\ t \in Nat /\ p \in Nat /\ m = p + b.parsed
      /\ avail[d] \in Nat /\ t <= avail[d] /\ avail[d] <= Len(s.cells)
      /\ Len(s.cells) \in Nat /\ b.parsed \in Nat /\ b.read \in Nat
      /\ Size(b) = b.read /\ t = p + b.read
  BY Counters
<1>1. m \in Starts(s) /\ m \in Nat /\ t \in Nat /\ t <= Len(s.cells)
      /\ p \in Nat /\ p <= m /\ u \in Nat /\ m < Len(s.cells)
  <2>1. m \in Starts(s)
    BY DEF FInv, DirFramed
  <2> QED BY ONLY <1>0, <2>1, m < taken[d]
<1>2. st \in Statuses
  BY DEF StatusAt, Statuses
<1>3. PICK e \in s.ends :
        /\ NextMessage(s, m, e)
        /\ DeclaredCells(d, st, Sent(s), m) <= e - m
        /\ Declared(d, st, Sent(s), m) = e - m
  BY <1>1, NextExists DEF IInv, FInv
<1>4. e \in Nat /\ m < e
  BY <1>3, EndsAreCells DEF NextMessage, IInv
<1>5. CASE e <= t
  <2>1. /\ HeaderInStorage(d, st, b, b.parsed)
        /\ Declared(d, st, b, b.parsed) = e - m
    BY <1>3, <1>5, WholeSeen
  <2> QED BY <1>1, <1>3, <1>4, <2>1
<1>6. CASE ~(e <= t)
  <2>1. NoEndIn(s, m, t)
    <3> SUFFICES ASSUME NEW x \in s.ends PROVE x <= m \/ t < x
      BY DEF NoEndIn
    <3>1. x \in Nat
      BY EndsAreCells DEF IInv
    <3>2. x <= m \/ e <= x
      BY <1>3 DEF NextMessage
    <3> QED BY <1>1, <1>4, <1>6, <3>1, <3>2
  <2>2. t \notin Starts(s)
    BY <1>1, <2>1 DEF NoEndIn, Starts
  <2>3. NoEndIn(s, p, t)
    BY <2>2 DEF FInv, DirFramed, Holds, Starts
  <2>4. m = p
    BY <1>1, <2>3 DEF NoEndIn, Starts, FInv, DirFramed
  <2>5. d = "server" => u >= 2
    BY <2>2, <2>4 DEF FInv, DirFramed, Holds
  <2>6. b.parsed = 0 /\ Size(b) = u
    <3>1. u = t - m
      OBVIOUS
    <3> HIDE DEF u, t, p
    <3> QED BY ONLY <1>0, <2>4, <3>1
  <2>7. DeclaredCells(d, st, b, b.parsed) <= u
    <3>1. HeaderCells(d, st, b, b.parsed) <= u
      BY <2>6 DEF HeaderTest
    <3>2. CASE d = "client"
      BY <1>2, <3>1, <3>2, HeaderSizes
    <3>3. CASE d = "server"
      <4>1. DeclaredCells(d, st, b, b.parsed) \in Nat
            /\ DeclaredCells(d, st, b, b.parsed) <= 2
        BY <1>2, <3>3, HeaderSizes DEF INIT_HEADER
      <4> QED BY <1>1, <2>5, <3>3, <4>1
    <3> QED BY <3>2, <3>3 DEF Dirs
  <2>8. Agree(b, b.parsed, Sent(s), m, u)
    BY CellsAfterMark
  <2>9. b.parsed + u <= Len(b.mem) /\ b.parsed \in Nat /\ Len(b.mem) \in Nat
    BY <2>8 DEF Agree
  <2> HIDE DEF st, u
  <2>10. Declared(d, st, b, b.parsed) = e - m
    BY <1>2, <1>3, <2>7, <2>8, HeaderAgrees
  <2>11. HeaderInStorage(d, st, b, b.parsed)
    <3>1. DeclaredCells(d, st, b, b.parsed) \in Nat
      BY <1>2, HeaderSizes DEF INIT_HEADER
    <3> QED BY <1>1, <2>7, <2>9, <3>1 DEF HeaderInStorage
  <2> QED BY <1>1, <1>3, <1>4, <2>10, <2>11 DEF st
<1> QED BY <1>5, <1>6

(* The status is what the message to be parsed next calls for.             *)
LEMMA StatusFits ==
  ASSUME IInv, FInv, NEW d \in Dirs, Marked(d) < taken[d]
  PROVE  status = StatusAt(Marked(d))
<1>1. /\ "client" \in Dirs /\ "server" \in Dirs
      /\ \A x \in Dirs : /\ Marked(x) \in Nat /\ taken[x] \in Nat
                         /\ avail[x] \in Nat /\ Len(out[x]) \in Nat
                         /\ Len(out[x]) <= Marked(x) /\ Marked(x) <= taken[x]
                         /\ taken[x] <= avail[x]
                         /\ Marked(x) \in Starts(script[x])
                         /\ script[x].setup \in Nat \ {0}
                         /\ (Marked(x) > 0 => script[x].setup <= Marked(x))
  <2>1. ASSUME NEW x \in Dirs
        PROVE  /\ script[x].setup \in Nat \ {0}
               /\ Marked(x) \in Starts(script[x])
               /\ (Marked(x) > 0 => script[x].setup <= Marked(x))
    <3>1. script[x].setup \in Nat \ {0}
      BY ScriptType DEF IInv
    <3>2. Marked(x) \in Starts(script[x])
      BY DEF FInv, DirFramed
    <3>3. \A e \in script[x].ends : script[x].setup <= e
      BY FramedScript DEF WholeMessages, IInv, FInv
    <3> QED BY <3>1, <3>2, <3>3 DEF Starts
  <2>2. ASSUME NEW x \in Dirs
        PROVE  /\ Marked(x) \in Nat /\ taken[x] \in Nat
               /\ avail[x] \in Nat /\ Len(out[x]) \in Nat
               /\ Len(out[x]) <= Marked(x) /\ Marked(x) <= taken[x]
               /\ taken[x] <= avail[x]
    BY Counters
  <2> QED BY <2>1, <2>2 DEF Dirs
<1>2. SetupFirst /\ status \in Statuses
  BY DEF FInv, IInv, Typed
<1>3. CASE d = "server"
  BY <1>2, <1>3 DEF SetupFirst, StatusAt, Statuses
<1>4. CASE d = "client" /\ Marked(d) = 0
  <2>1. SUFFICES ASSUME Marked("server") > 0 PROVE FALSE
    BY <1>1, <1>2, <1>4 DEF SetupFirst, StatusAt
  <2>2. avail["server"] > 0
    BY <1>1, <2>1
  <2>3. Len(out["client"]) > 0
    BY <1>1, <1>2, <2>2 DEF SetupFirst
  <2> QED BY <1>1, <1>4, <2>3
<1>5. CASE d = "client" /\ Marked(d) > 0
  <2>1. avail["client"] > script["client"].setup
    BY <1>1, <1>5
  <2>2. Len(out["server"]) >= script["server"].setup
    BY <1>1, <1>2, <2>1 DEF SetupFirst
  <2>3. Marked("server") # 0
    BY <1>1, <2>2
  <2> QED BY <1>2, <1>5, <2>3 DEF SetupFirst, StatusAt, Statuses
<1> QED BY <1>1, <1>3, <1>4, <1>5 DEF Dirs

-----------------------------------------------------------------------------
(* What serving a side does to its direction.                              *)

(* A message whose size is known fits the arithmetic on sizes.             *)
LEMMA NextFits ==
  ASSUME IInv, FInv, NEW d \in Dirs, NEW s, s = script[d],
         NEW m \in Starts(s), NEW e, NextMessage(s, m, e)
  PROVE  /\ e \in Nat /\ m \in Nat /\ m < e /\ e <= Len(s.cells)
         /\ e - m + BLOCK_SZ <= SIZE_MAX
<1>1. e \in s.ends /\ m < e
  BY DEF NextMessage
<1>2. e \in Nat /\ m \in Nat /\ e <= Len(s.cells) /\ Len(s.cells) \in Nat
  BY <1>1, EndsAreCells DEF IInv
<1>3. m < Len(s.cells)
  BY ONLY <1>1, <1>2
<1>4. PICK f \in s.ends : NextMessage(s, m, f) /\ f - m + BLOCK_SZ <= SIZE_MAX
  BY <1>3, NextExists DEF IInv, FInv
<1>5. f = e
  BY <1>4, NextUnique DEF IInv
<1> QED BY <1>1, <1>2, <1>4, <1>5

(* A buffer that wants to read holds nothing logged: the beginning of one  *)
(* message, or nothing.                                                    *)
LEMMA ReadsAtStart ==
  ASSUME IInv, FInv, NEW d \in Dirs, NEW s, s = script[d], NEW b, b = buf[d],
         NEW p, p = Len(out[d]), WaitsNow(d), ReadReady(b)
  PROVE  /\ b.parsed = 0
         /\ NoEndIn(s, p, taken[d])
         /\ \/ ~MessageSizeSet(b) /\ Size(b) < INIT_HEADER
            \/ /\ MessageSizeSet(b) /\ NextMessage(s, p, p + b.nms)
               /\ Size(b) < b.nms /\ b.nms + BLOCK_SZ <= SIZE_MAX
<1>1. /\ p \in Nat /\ taken[d] \in Nat /\ b.parsed \in Nat /\ b.read \in Nat
      /\ Size(b) = b.read /\ taken[d] = p + b.read
      /\ Marked(d) = p + b.parsed /\ Unparsed(b) = taken[d] - Marked(d)
      /\ b.parsed <= b.read /\ b.nms \in Nat /\ BLOCK_SZ \in Nat
  <2>1. /\ b \in Buffer /\ Counted(b) /\ b.written = 0
        /\ p \in Nat /\ taken[d] \in Nat /\ b.parsed \in Nat /\ b.read \in Nat
        /\ Size(b) = b.read /\ taken[d] = p + b.read
        /\ Marked(d) = p + b.parsed /\ Unparsed(b) = taken[d] - Marked(d)
    BY Counters
  <2>2. b.nms \in Nat
    BY <2>1, BufferFields
  <2>3. b.parsed <= b.read
    BY <2>1 DEF Counted
  <2> QED BY <2>1, <2>2, <2>3, BlockAssumption
<1>2. SizeRight(s, Marked(d), b) /\ Waits(s, p, taken[d], b)
  BY DEF FInv, DirFramed, WaitsNow
<1>3. CASE Unparsed(b) = 0
  <2>1. Empty(b)
    BY <1>3 DEF ReadReady, IncompleteMessage
  <2>2. b.read = 0
    BY <2>1 DEF Empty
  <2>3. b.parsed = 0 /\ taken[d] = p
    BY ONLY <1>1, <2>2
  <2>4. NoEndIn(s, p, taken[d])
    <3> SUFFICES ASSUME NEW e \in s.ends PROVE e <= p \/ p < e
      BY <2>3 DEF NoEndIn
    <3>1. e \in Nat
      BY EndsAreCells DEF IInv
    <3> QED BY ONLY <1>1, <3>1
  <2>5. ~MessageSizeSet(b)
    BY <1>2, <1>3 DEF SizeRight
  <2> QED BY <1>1, <2>2, <2>3, <2>4, <2>5 DEF INIT_HEADER
<1>4. CASE ~(Unparsed(b) = 0)
  <2>1. /\ b.parsed = 0 /\ NoEndIn(s, p, taken[d])
        /\ MessageSizeSet(b) \/ Size(b) < INIT_HEADER
    BY <1>2, <1>4 DEF Waits
  <2>2. Marked(d) = p
    BY ONLY <1>1, <2>1
  <2>3. ASSUME MessageSizeSet(b)
        PROVE  /\ NextMessage(s, p, p + b.nms)
               /\ Size(b) < b.nms /\ b.nms + BLOCK_SZ <= SIZE_MAX
    <3>1. NextMessage(s, p, p + b.nms)
      BY <1>2, <2>2, <2>3 DEF SizeRight
    <3>2. p \in Starts(s)
      BY DEF FInv, DirFramed
    <3>3. /\ p < p + b.nms /\ (p + b.nms) - p + BLOCK_SZ <= SIZE_MAX
      BY <3>1, <3>2, NextFits
    <3>4. p + b.nms <= p \/ taken[d] < p + b.nms
      BY <2>1, <3>1 DEF NoEndIn, NextMessage
    <3>5. Size(b) < b.nms
      BY ONLY <1>1, <3>3, <3>4
    <3>6. b.nms + BLOCK_SZ <= SIZE_MAX
      BY ONLY <1>1, <3>3, SizeMaxAssumption
    <3> QED BY <3>1, <3>5, <3>6
  <2> QED BY <2>1, <2>3
<1> QED BY <1>3, <1>4

(* What is asked for then stays within the message at hand, or within a    *)
(* storage of a block at least.                                            *)
LEMMA ReadHolds ==
  ASSUME IInv, FInv, NEW d \in Dirs, NEW s, s = script[d], NEW b, b = buf[d],
         NEW p, p = Len(out[d]), WaitsNow(d), ReadReady(b),
         NEW n, n = BytesToRead(b)
  PROVE  /\ n \in 1 .. SIZE_MAX /\ ReadAsserts(b, n) /\ InStorage(b, n)
         /\ BLOCK_SZ <= Len(Storage(b, n)) /\ Len(Storage(b, n)) <= SIZE_MAX
         /\ \A k \in Nat \ {0} : k = Min2(n, avail[d] - taken[d])
              => Holds(d, s, p, taken[d] + k)
<1> DEFINE t == taken[d]
           a == avail[d]
<1>1. /\ b \in Buffer /\ Counted(b) /\ b.written = 0
      /\ p \in Nat /\ t \in Nat /\ a \in Nat /\ t <= a /\ Size(b) = b.read
      /\ t = p + b.read /\ b.read \in Nat /\ Len(b.mem) \in Nat
  BY Counters
<1>2. /\ b.parsed = 0 /\ NoEndIn(s, p, t)
      /\ \/ ~MessageSizeSet(b) /\ Size(b) < INIT_HEADER
         \/ /\ MessageSizeSet(b) /\ NextMessage(s, p, p + b.nms)
            /\ Size(b) < b.nms /\ b.nms + BLOCK_SZ <= SIZE_MAX
  BY ReadsAtStart
<1>3. Roomy(b) /\ Arrives(d, s, p, a) /\ p \in Starts(s)
  BY DEF FInv, DirFramed
<1>4. BLOCK_SZ >= 3 /\ BLOCK_SZ \in Nat /\ SIZE_MAX \in Nat
  BY FramedScript, BlockAssumption, SizeMaxAssumption DEF INIT_HEADER, IInv, FInv
<1>5. \/ ~MessageSizeSet(b) /\ Size(b) < Len(b.mem)
      \/ MessageSizeSet(b) /\ Size(b) < b.nms /\ b.nms + BLOCK_SZ <= SIZE_MAX
  <2>1. Size(b) < INIT_HEADER => Size(b) < Len(b.mem)
    BY <1>1, <1>3, <1>4 DEF INIT_HEADER, Roomy
  <2> QED BY <1>2, <2>1
<1>6. /\ n \in 1 .. SIZE_MAX
      /\ MessageSizeSet(b) => n = b.nms - Size(b)
      /\ ~MessageSizeSet(b) => n = Len(b.mem) - Size(b)
      /\ ReadAsserts(b, n)
      /\ InStorage(b, n)
      /\ BLOCK_SZ <= Len(Storage(b, n))
      /\ Len(Storage(b, n)) <= SIZE_MAX
  BY <1>1, <1>3, <1>5, ReadFits
<1>7. ASSUME NEW k \in Nat \ {0}, k = Min2(n, a - t)
      PROVE  Holds(d, s, p, t + k)
  <2>1. n \in Nat /\ (k = a - t \/ (k = n /\ k < a - t))
    BY <1>1, <1>4, <1>6, <1>7 DEF Min2
  <2>2. CASE k = a - t
    <3>1. t + k = a
      BY ONLY <1>1, <2>2
    <3>2. Holds(d, s, p, a)
      BY <1>3 DEF Holds, Arrives
    <3> QED BY <3>1, <3>2
  <2>3. CASE k = n /\ k < a - t /\ MessageSizeSet(b)
    <3>1. NextMessage(s, p, p + b.nms) /\ n = b.nms - Size(b)
      BY <1>2, <1>6, <2>3
    <3>2. b.nms \in Nat
      BY <1>1, BufferFields
    <3>3. t + k = p + b.nms
      BY ONLY <1>1, <2>3, <3>1, <3>2
    <3>4. t + k \in s.ends
      BY <3>1, <3>3 DEF NextMessage
    <3> QED BY <3>4 DEF Holds, Starts
  <2>4. CASE k = n /\ k < a - t /\ ~MessageSizeSet(b)
    <3>1. n = Len(b.mem) - b.read /\ BLOCK_SZ <= Len(b.mem)
      BY <1>1, <1>3, <1>6, <2>4 DEF Roomy
    <3>2. t + k = p + Len(b.mem)
      <4> HIDE DEF t, a
      <4>1. /\ t = p + b.read /\ p \in Nat /\ b.read \in Nat
            /\ Len(b.mem) \in Nat
        BY ONLY <1>1
      <4>2. k = Len(b.mem) - b.read
        BY ONLY <2>4, <3>1
      <4>3. (p + b.read) + (Len(b.mem) - b.read) = p + Len(b.mem)
        BY ONLY <4>1
      <4> QED BY ONLY <4>1, <4>2, <4>3, Zenon
    <3>3. t + k < a
      BY ONLY <1>1, <2>1, <2>4
    <3>4. ~(a - p <= BLOCK_SZ)
      <4> HIDE DEF t, a
      <4>1. a > p + BLOCK_SZ
        <5>1. p + Len(b.mem) < a
          BY ONLY <3>2, <3>3, Zenon
        <5>2. /\ BLOCK_SZ <= Len(b.mem) /\ BLOCK_SZ \in Nat /\ p \in Nat
              /\ a \in Nat /\ Len(b.mem) \in Nat
          BY <1>1, <1>4, <3>1
        <5> QED BY ONLY <5>1, <5>2
      <4> QED BY ONLY <1>1, <1>4, <4>1
    <3>6. t + k \in Nat
      BY ONLY <1>1, <2>4, k \in Nat \ {0}
    <3>7. (t + k) - p >= 2
      <4>1. t + k >= p + 3
        BY ONLY <1>1, <1>4, <3>1, <3>2
      <4> QED BY ONLY <1>1, <3>6, <4>1
    <3>5. NoEndIn(s, p, t + k)
      <4> SUFFICES ASSUME NEW e \in s.ends PROVE e <= p \/ t + k < e
        BY DEF NoEndIn
      <4>1. e \in Nat
        BY EndsAreCells DEF IInv
      <4>2. e <= p \/ a <= e
        <5>1. NoEndIn(s, p, a) \/ \A x \in s.ends : x <= p \/ a <= x
          BY <1>3, <3>4 DEF Arrives
        <5>2. CASE NoEndIn(s, p, a)
          <6>1. e <= p \/ a < e
            BY <5>2 DEF NoEndIn
          <6> QED BY ONLY <1>1, <4>1, <6>1
        <5> QED BY <5>1, <5>2
      <4> QED BY ONLY <1>1, <3>3, <3>6, <4>1, <4>2
    <3> QED BY <3>5, <3>7 DEF Holds
  <2> QED BY <2>1, <2>2, <2>3, <2>4
<1> QED BY <1>6, <1>7

(* Sending what was logged moves the start to the end of a message.        *)
LEMMA WriteHolds ==
  ASSUME IInv, NEW d \in Dirs, NEW s, s = script[d],
         NEW p \in Nat, NEW m \in s.ends, NEW a \in Nat,
         p < m, m <= a, Arrives(d, s, p, a)
  PROVE  Arrives(d, s, m, a) /\ Holds(d, s, m, m)
<1>1. \A e \in s.ends : e \in Nat
  BY EndsAreCells DEF IInv
<1>2. a \in s.ends /\ ((\A e \in s.ends : e <= p \/ a <= e) \/ a - p <= BLOCK_SZ)
  <2>1. ~NoEndIn(s, p, a)
    BY <1>1 DEF NoEndIn
  <2> QED BY <2>1 DEF Arrives
<1>3. CASE \A e \in s.ends : e <= p \/ a <= e
  <2>1. m \in Nat /\ (m <= p \/ a <= m)
    BY <1>1, <1>3
  <2>2. m = a
    BY ONLY <2>1, p \in Nat, a \in Nat, p < m, m <= a
  <2>3. \A e \in s.ends : e <= m \/ a <= e
    BY <1>1, <2>2
  <2> QED BY <1>2, <2>3 DEF Arrives, Holds, Starts
<1>4. CASE a - p <= BLOCK_SZ
  <2>1. m \in Nat
    BY <1>1
  <2>2. a - m <= BLOCK_SZ
    BY ONLY <1>4, <2>1, p \in Nat, a \in Nat, p < m, BlockAssumption
  <2> QED BY <1>2, <2>2 DEF Arrives, Holds, Starts
<1> QED BY <1>2, <1>3, <1>4

(* Leaving the parser's loop: nothing is left, or nothing was logged.      *)
LEMMA LeavesWaiting ==
  ASSUME IInv, FInv, NEW d \in Dirs, d = side, pc = "parse", ParseLeave
  PROVE  WaitsNow(d)
<1> SUFFICES ASSUME NEW s, s = script[d], NEW b, b = buf[d],
                    NEW p, p = Len(out[d]), NEW m, m = Marked(d),
                    NEW t, t = taken[d], ~(Unparsed(b) = 0)
             PROVE  /\ b.parsed = 0 /\ NoEndIn(s, p, t)
                    /\ MessageSizeSet(b) \/ Size(b) < INIT_HEADER
  BY DEF WaitsNow, Waits
<1>1. /\ p \in Nat /\ t \in Nat /\ m \in Nat /\ b.parsed \in Nat
      /\ m = p + b.parsed /\ Unparsed(b) = t - m /\ m <= t
      /\ avail[d] \in Nat /\ t <= avail[d] /\ avail[d] <= Len(s.cells)
      /\ Len(s.cells) \in Nat
  BY Counters
<1>2. m < t
  BY ONLY <1>1, ~(Unparsed(b) = 0)
<1>3. m < Len(s.cells)
  BY ONLY <1>1, <1>2
<1>4. m \in Starts(s) /\ p \in Starts(s) /\ Holds(d, s, p, t)
      /\ SizeRight(s, m, b)
  BY DEF FInv, DirFramed
<1>5. PICK e \in s.ends : NextMessage(s, m, e)
  BY <1>3, <1>4, NextExists DEF IInv, FInv
<1>6. e \in Nat /\ m < e
  BY <1>4, <1>5, NextFits
<1>7. \A x \in s.ends : x \in Nat
  BY EndsAreCells DEF IInv
<1>8. status = StatusAt(m) /\ off = b.parsed
  BY <1>2, StatusFits DEF FInv, Waiting
<1>9. \/ /\ ~MessageSizeSet(b)
         /\ ~HeaderTest(d, status, b, off)
      \/ /\ MessageSizeSet(b)
         /\ Unparsed(b) < b.nms
  BY DEF ParseLeave, IncompleteMessage
<1>10. ~(e <= t)
  <2> SUFFICES ASSUME e <= t PROVE FALSE
    OBVIOUS
  <2>1. HeaderTest(d, status, b, off)
    BY <1>5, <1>8, WholeSeen
  <2>2. MessageSizeSet(b) /\ Unparsed(b) < b.nms
    BY <1>9, <2>1
  <2>3. NextMessage(s, m, m + b.nms)
    BY <1>4, <2>2 DEF SizeRight
  <2>4. m + b.nms = e
    BY <1>4, <1>5, <2>3, NextUnique DEF IInv
  <2>5. b.nms \in Nat
    BY BufferFields, Counters
  <2> QED BY ONLY <1>1, <1>6, <2>2, <2>4, <2>5, e <= t
<1>11. t \notin s.ends
  <2>1. t \in s.ends => t <= m \/ e <= t
    BY <1>5 DEF NextMessage
  <2> QED BY <1>1, <1>2, <1>10, <2>1
<1>12. NoEndIn(s, p, t)
  BY <1>4, <1>11 DEF Holds
<1>13. m = p
  <2>1. m \in s.ends => m <= p \/ t < m
    BY <1>12 DEF NoEndIn
  <2>2. m = 0 => p = 0
    BY ONLY <1>1
  <2>3. m \in s.ends \/ m = 0
    BY <1>4 DEF Starts
  <2> QED BY ONLY <1>1, <1>2, <2>1, <2>2, <2>3
<1>14. b.parsed = 0
  BY ONLY <1>1, <1>13
<1>15. ~MessageSizeSet(b) => Size(b) < INIT_HEADER
  <2> SUFFICES ASSUME ~MessageSizeSet(b) PROVE Size(b) < INIT_HEADER
    OBVIOUS
  <2>1. ~(Size(b) >= HeaderCells(d, status, b, off))
    BY <1>9 DEF HeaderTest
  <2>2. HeaderCells(d, status, b, off) \in 1 .. 3
    BY HeaderSizes DEF IInv, Typed, INIT_HEADER
  <2>3. Size(b) \in Nat
    BY Counters
  <2> QED BY ONLY <2>1, <2>2, <2>3 DEF INIT_HEADER
<1> QED BY <1>12, <1>14, <1>15

-----------------------------------------------------------------------------
(* Steps that leave a direction, or all of them, alone.                    *)

LEMMA FramedFrame ==
  ASSUME NEW d \in Dirs, DirFramed(d), script' = script, avail'[d] = avail[d],
         taken'[d] = taken[d], buf'[d] = buf[d], out'[d] = out[d],
         logged'[d] = logged[d]
  PROVE  DirFramed(d)'
  BY DEF DirFramed, Marked

LEMMA WaitsFrame ==
  ASSUME NEW d \in Dirs, script' = script, taken'[d] = taken[d],
         buf'[d] = buf[d], out'[d] = out[d]
  PROVE  WaitsNow(d)' <=> WaitsNow(d)
  BY DEF WaitsNow

(* A step that moves no cell.                                              *)
LEMMA QuietStep ==
  ASSUME FInv, script' = script, avail' = avail, UNCHANGED data
  PROVE  /\ (Chunks = "framed")'
         /\ \A d \in Dirs : DirFramed(d)'
         /\ SetupFirst'
         /\ \A d \in Dirs : WaitsNow(d)' <=> WaitsNow(d)
<1>1. \A d \in Dirs : DirFramed(d)'
  BY FramedFrame DEF FInv, data
<1>2. SetupFirst'
  BY DEF FInv, SetupFirst, Marked, data
<1>3. \A d \in Dirs : WaitsNow(d)' <=> WaitsNow(d)
  BY WaitsFrame DEF data
<1> QED BY <1>1, <1>2, <1>3 DEF FInv

(* As long as the relay runs, nothing has ended it.                        *)
LEMMA RunsOn ==
  ASSUME FInv, pc # "end", cause' = cause, closed' = closed, reset' = reset
  PROVE  GoodEnds'
  BY DEF FInv, GoodEnds

(* A SIGPIPE, a reset, or the EOF of a side that has nothing left.         *)
LEMMA EndsWell ==
  ASSUME FInv, NEW why \in {"eof", "reset", "sigpipe"}, End(why),
         UNCHANGED env,
         why = "reset" => \E d \in Dirs : reset[d],
         UNCHANGED <<taken, buf, out, logged, status, revents, side, off>>,
         why = "eof" => \E d \in Dirs :
           closed[d] /\ NoEndIn(script[d], Len(out[d]), avail[d])
  PROVE  FInv'
<1>1. /\ (Chunks = "framed")' /\ SetupFirst' /\ \A d \in Dirs : DirFramed(d)'
  BY QuietStep DEF env, data
<1>2. Waiting' /\ FlagsTrue'
  BY DEF End, Waiting, FlagsTrue, Unserved
<1>3. GoodEnds'
  BY DEF End, FInv, GoodEnds, env
<1> QED BY <1>1, <1>2, <1>3 DEF FInv

(* The pass goes on to the next side: nothing that waits has changed.      *)
LEMMA NextSideFlags ==
  ASSUME IInv, FInv, NextSide, pc \in {"serve", "parse"},
         closed' = closed, reset' = reset, avail' = avail,
         taken'["server"] = taken["server"],
         buf'["server"] = buf["server"] \/ ReadReady(buf'["server"])
  PROVE  FlagsTrue'
<1> SUFFICES ASSUME NEW d \in Dirs, Unserved(d)'
             PROVE  /\ "POLLIN" \in revents'[d] =>
                         /\ ReadReady(buf'[d])
                         /\ taken'[d] < avail'[d] \/ closed'[d]
                    /\ "POLLERR" \in revents'[d] => reset'[d]
  BY DEF FlagsTrue
<1>1. /\ pc' = "serve" /\ side = "client" /\ side' = "server" /\ d = "server"
      /\ revents'[d] = revents[d]
  BY NextSideKeeps DEF Unserved
<1>2. Unserved(d)
  BY <1>1 DEF Unserved
<1>3. /\ "POLLIN" \in revents[d] =>
           ReadReady(buf[d]) /\ (taken[d] < avail[d] \/ closed[d])
      /\ "POLLERR" \in revents[d] => reset[d]
  BY <1>1, <1>2 DEF FInv, FlagsTrue
<1> QED BY <1>1, <1>3

-----------------------------------------------------------------------------
(* The peers' steps.                                                       *)

LEMMA PeersFramed == IInv /\ FInv /\ Peers => FInv'
<1> SUFFICES ASSUME IInv, FInv, NEW d \in Dirs,
                    \/ PeerSend(d) \/ PeerClose(d)
                    \/ PeerReset(d) \/ PeerResumes(d)
             PROVE  FInv'
  BY DEF Peers
<1>1. CASE PeerClose(d) \/ PeerReset(d) \/ PeerResumes(d)
  <2>1. /\ script' = script /\ avail' = avail /\ UNCHANGED data
        /\ UNCHANGED ctl /\ \A e \in Dirs : closed[e] => closed'[e]
        /\ \A e \in Dirs : reset[e] => reset'[e]
        /\ (\A e \in Dirs : reset[e] => closed[e])
             => \A e \in Dirs : reset'[e] => closed'[e]
    BY <1>1 DEF PeerClose, PeerReset, PeerResumes, IInv, Typed
  <2>2. /\ (Chunks = "framed")' /\ SetupFirst' /\ \A e \in Dirs : DirFramed(e)'
        /\ \A e \in Dirs : WaitsNow(e)' <=> WaitsNow(e)
    BY <2>1, QuietStep
  <2>3. Waiting'
    BY <2>1, <2>2, OtherType DEF FInv, Waiting, data, ctl, IInv, Typed
  <2>4. FlagsTrue'
    BY <2>1 DEF FInv, FlagsTrue, Unserved, data, ctl
  <2>5. GoodEnds'
    BY <2>1 DEF FInv, GoodEnds, data, ctl
  <2> QED BY <2>2, <2>3, <2>4, <2>5 DEF FInv
<1>2. CASE PeerSend(d)
  <2>1. PICK k \in (avail[d] + 1) .. SendLimit(d) :
               MayArrive(d, k) /\ avail' = [avail EXCEPT ![d] = k]
    BY <1>2 DEF PeerSend
  <2>2. /\ ~closed[d] /\ UNCHANGED <<script, closed, reset, willing, data, ctl>>
    BY <1>2 DEF PeerSend
  <2>3. /\ avail'[d] = k /\ \A e \in Dirs : e # d => avail'[e] = avail[e]
        /\ avail \in [Dirs -> Nat]
    BY <2>1 DEF IInv, Typed
  <2>4. /\ k \in Nat /\ avail[d] \in Nat /\ k > avail[d] /\ SendLimit(d) \in Nat
        /\ k <= SendLimit(d)
    <3>1. SendLimit(d) \in Nat
      BY ScriptType DEF SendLimit, IInv
    <3> QED BY <2>1, <2>3, <3>1
  <2>5. Arrives(d, script[d], Len(out[d]), k)
    <3>1. NoPartialBehind(d, k) /\ HeaderWhole(d, k)
      BY <2>1 DEF MayArrive, FInv
    <3>2. \A e \in script[d].ends : e \in Nat
      BY EndsAreCells DEF IInv
    <3>3. Len(out[d]) \in Nat
      BY Counters
    <3> DEFINE inside == {e \in script[d].ends : Len(out[d]) < e /\ e <= k}
    <3>4. inside = {} => NoEndIn(script[d], Len(out[d]), k)
      BY <2>4, <3>2, <3>3 DEF NoEndIn
    <3>5. inside = {k} =>
            k \in script[d].ends
            /\ \A e \in script[d].ends : e <= Len(out[d]) \/ k <= e
      <4> SUFFICES ASSUME inside = {k}, NEW e \in script[d].ends
                   PROVE  k \in script[d].ends /\ (e <= Len(out[d]) \/ k <= e)
        OBVIOUS
      <4>1. k \in inside
        OBVIOUS
      <4>2. e \in inside => e = k
        OBVIOUS
      <4>3. e \notin inside => ~(Len(out[d]) < e /\ e <= k)
        OBVIOUS
      <4> QED BY <2>4, <3>2, <3>3, <4>1, <4>2, <4>3
    <3>6. k \in inside => k \in script[d].ends
      OBVIOUS
    <3>7. \/ inside = {} \/ inside = {k}
          \/ k \in inside /\ k - Len(out[d]) <= BLOCK_SZ
      BY <3>1 DEF NoPartialBehind
    <3>8. d = "server" /\ k \notin Starts(script[d]) => k - Len(out[d]) >= 2
      BY <3>1 DEF HeaderWhole, Starts
    <3> HIDE DEF inside
    <3> QED BY <3>4, <3>5, <3>6, <3>7, <3>8 DEF Arrives
  <2>6. \A e \in Dirs : DirFramed(e)'
    <3>1. DirFramed(d)'
      BY <2>2, <2>3, <2>5 DEF FInv, DirFramed, Marked, data
    <3>2. ASSUME NEW e \in Dirs, e # d PROVE DirFramed(e)'
      BY <2>2, <2>3, <3>2, FramedFrame DEF FInv, data
    <3> QED BY <3>1, <3>2
  <2>7. SetupFirst'
    <3>1. \A x \in Dirs : /\ script[x].setup \in Nat \ {0}
                          /\ Len(out[x]) \in Nat
                          /\ Len(out[x]) <= avail[x] /\ avail[x] \in Nat
      <4> SUFFICES ASSUME NEW x \in Dirs
                   PROVE  /\ script[x].setup \in Nat \ {0}
                          /\ Len(out[x]) \in Nat
                          /\ Len(out[x]) <= avail[x] /\ avail[x] \in Nat
        OBVIOUS
      <4>1. script[x].setup \in Nat \ {0}
        BY ScriptType DEF IInv
      <4>2. /\ Len(out[x]) \in Nat /\ avail[x] \in Nat /\ taken[x] \in Nat
            /\ taken[x] = Len(out[x]) + buf[x].read /\ buf[x].read \in Nat
            /\ taken[x] <= avail[x]
        BY Counters
      <4> QED BY <4>1, <4>2
    <3>2. SetupFirst /\ "client" \in Dirs /\ "server" \in Dirs
      BY DEF FInv, Dirs
    <3>3. avail'["server"] > 0 => Len(out["client"]) >= script["client"].setup
      <4>1. CASE d # "server"
        BY <2>3, <3>2, <4>1 DEF SetupFirst
      <4>2. CASE d = "server"
        <5>1. \/ Len(out["server"]) >= script["server"].setup
              \/ Len(out["client"]) >= script["client"].setup
          BY <2>4, <4>2 DEF SendLimit
        <5>2. Len(out["server"]) >= script["server"].setup => avail["server"] > 0
          BY <3>1, <3>2
        <5> QED BY <3>2, <5>1, <5>2 DEF SetupFirst
      <4> QED BY <4>1, <4>2
    <3>4. ASSUME NEW x \in Dirs, avail'[x] > script[x].setup
          PROVE  Len(out["server"]) >= script["server"].setup
      <4>1. CASE x # d
        BY <2>3, <3>2, <3>4, <4>1 DEF SetupFirst
      <4>2. CASE x = d
        <5>1. SendLimit(d) > script[d].setup
          BY <2>3, <2>4, <3>1, <3>4, <4>2
        <5>2. SendLimit(d) \in {script[d].setup, 0}
                \/ Len(out["server"]) >= script["server"].setup
          BY DEF SendLimit
        <5>3. script[d].setup \in Nat
          BY <3>1
        <5> QED BY <5>1, <5>2, <5>3
      <4> QED BY <4>1, <4>2
    <3> QED BY <2>2, <3>2, <3>3, <3>4 DEF SetupFirst, Marked, data
  <2>8. Waiting'
    <3>1. \A e \in Dirs : WaitsNow(e)' <=> WaitsNow(e)
      BY <2>2, WaitsFrame DEF data
    <3> QED BY <2>2, <3>1, OtherType DEF FInv, Waiting, data, ctl, IInv, Typed
  <2>9. FlagsTrue'
    <3>4. \A e \in Dirs : Unserved(e)' /\ "POLLERR" \in revents'[e] => reset'[e]
      BY <2>2 DEF FInv, FlagsTrue, Unserved, ctl
    <3> SUFFICES ASSUME NEW e \in Dirs, Unserved(e)', "POLLIN" \in revents'[e]
                 PROVE  ReadReady(buf'[e]) /\ (taken'[e] < avail'[e] \/ closed'[e])
      BY <3>4 DEF FlagsTrue
    <3>1. ReadReady(buf[e]) /\ (taken[e] < avail[e] \/ closed[e])
      BY <2>2 DEF FInv, FlagsTrue, Unserved, ctl
    <3>2. taken[e] \in Nat /\ avail[e] \in Nat
      BY DEF IInv, Typed
    <3>3. avail[e] <= avail'[e] /\ avail'[e] \in Nat
      BY <2>3, <2>4, <3>2
    <3> QED BY <2>2, <3>1, <3>2, <3>3 DEF data
  <2>10. GoodEnds'
    <3>1. ASSUME NEW e \in Dirs, closed[e]
          PROVE  avail'[e] = avail[e]
      BY <2>2, <2>3, <3>1
    <3> QED BY <2>2, <3>1 DEF FInv, GoodEnds, data, ctl
  <2> QED BY <2>6, <2>7, <2>8, <2>9, <2>10 DEF FInv
<1> QED BY <1>1, <1>2

-----------------------------------------------------------------------------
(* The proxy's steps.                                                      *)

LEMMA PollFramed == IInv /\ FInv /\ Poll => FInv'
<1> SUFFICES ASSUME IInv, FInv, Poll PROVE FInv'
  OBVIOUS
<1>1. \A d \in Dirs : ReadReady(buf[d]) \/ WriteReady(buf[d])
  BY PollAssertionsInv DEF Poll, PollAssertions
<1>2. /\ pc = "poll" /\ pc' = "serve"
      /\ revents' = [d \in Dirs |-> Returned(d)]
      /\ UNCHANGED <<data, side, off, cause>> /\ UNCHANGED env
  BY <1>1 DEF Poll
<1>3. /\ (Chunks = "framed")' /\ SetupFirst' /\ \A d \in Dirs : DirFramed(d)'
      /\ \A d \in Dirs : WaitsNow(d)' <=> WaitsNow(d)
  BY <1>2, QuietStep DEF env
<1>4. Waiting'
  BY <1>2, <1>3 DEF FInv, Waiting
<1>5. FlagsTrue'
  <2>4. \A d \in Dirs : "POLLERR" \in revents'[d] => reset'[d]
    BY <1>2 DEF Returned, Ready, Conditions, env
  <2> SUFFICES ASSUME NEW d \in Dirs, "POLLIN" \in revents'[d]
               PROVE  ReadReady(buf'[d]) /\ (taken'[d] < avail'[d] \/ closed'[d])
    BY <2>4 DEF FlagsTrue
  <2>1. "POLLIN" \in PollFlags(d) /\ "POLLIN" \in Ready(d)
    BY <1>2 DEF Returned, Conditions
  <2>2. ReadReady(buf[d])
    BY <2>1 DEF PollFlags
  <2>3. taken[d] < avail[d] \/ closed[d]
    BY <2>1 DEF Ready
  <2> QED BY <1>2, <2>2, <2>3 DEF data, env
<1>6. GoodEnds'
  BY <1>2, RunsOn DEF env
<1> QED BY <1>3, <1>4, <1>5, <1>6 DEF FInv

LEMMA ServeIdleFramed == IInv /\ FInv /\ ServeIdle => FInv'
<1> SUFFICES ASSUME IInv, FInv, ServeIdle PROVE FInv'
  OBVIOUS
<1>1. CASE PollError(side)
  <2>1. CloseConnection("reset") /\ pc = "serve" /\ UNCHANGED env
    BY <1>1 DEF ServeIdle
  <2>2. side \in Dirs /\ Unserved(side)
    BY <2>1 DEF IInv, Typed, Unserved, Dirs
  <2>3. reset[side]
    BY <1>1, <2>2 DEF FInv, FlagsTrue, PollError
  <2> QED BY <2>1, <2>2, <2>3, EndsWell DEF CloseConnection
<1>2. CASE ~PollError(side)
  <2>1. /\ pc = "serve" /\ NextSide
        /\ UNCHANGED <<data, off, cause>> /\ UNCHANGED env
    BY <1>2 DEF ServeIdle
  <2>2. /\ (Chunks = "framed")' /\ SetupFirst' /\ \A d \in Dirs : DirFramed(d)'
        /\ \A d \in Dirs : WaitsNow(d)' <=> WaitsNow(d)
    BY <2>1, QuietStep DEF env
  <2>3. Waiting'
    BY <2>1, <2>2, NextSideKeeps DEF FInv, Waiting
  <2>4. FlagsTrue'
    BY <2>1, NextSideFlags DEF env, data
  <2>5. GoodEnds'
    BY <2>1, RunsOn DEF env
  <2> QED BY <2>2, <2>3, <2>4, <2>5 DEF FInv
<1> QED BY <1>1, <1>2

LEMMA ParseLeaveFramed == IInv /\ FInv /\ ParseLeave => FInv'
<1> SUFFICES ASSUME IInv, FInv, ParseLeave PROVE FInv'
  OBVIOUS
<1>1. /\ pc = "parse" /\ NextSide /\ side \in Dirs
      /\ UNCHANGED <<data, cause>> /\ UNCHANGED env
  BY DEF ParseLeave, IInv, Typed
<1>2. /\ (Chunks = "framed")' /\ SetupFirst' /\ \A d \in Dirs : DirFramed(d)'
      /\ \A d \in Dirs : WaitsNow(d)' <=> WaitsNow(d)
  BY <1>1, QuietStep DEF env
<1>3. \A d \in Dirs : WaitsNow(d)
  <2>1. WaitsNow(side)
    BY <1>1, LeavesWaiting
  <2>2. WaitsNow(Other(side))
    BY <1>1 DEF FInv, Waiting
  <2>3. \A d \in Dirs : d = side \/ d = Other(side)
    BY <1>1 DEF Dirs, Other
  <2> QED BY <2>1, <2>2, <2>3
<1>4. Waiting'
  BY <1>1, <1>2, <1>3, NextSideKeeps DEF Waiting
<1>5. FlagsTrue'
  BY <1>1, NextSideFlags DEF env, data
<1>6. GoodEnds'
  BY <1>1, RunsOn DEF env
<1> QED BY <1>2, <1>4, <1>5, <1>6 DEF FInv

LEMMA ServeWriteFramed == IInv /\ FInv /\ ServeWrite => FInv'
<1> SUFFICES ASSUME IInv, FInv, ServeWrite, NEW d \in Dirs, d = Other(side),
                    NEW b, b = buf[d], NEW s, s = script[d],
                    NEW p, p = Len(out[d]), NEW m, m = Marked(d)
             PROVE  FInv'
  BY OtherType DEF IInv, Typed
<1>1. side \in Dirs /\ d # side /\ b \in Buffer
  BY OtherType DEF IInv, Typed
<1>2. CASE Die("sigpipe") /\ UNCHANGED willing
  BY <1>2, EndsWell DEF ServeWrite, Die, env
<1>4. CASE reset[side] /\ CloseConnection("reset") /\ UNCHANGED willing
  BY <1>1, <1>4, EndsWell DEF ServeWrite, CloseConnection, env
<1>3. CASE /\ buf' = [buf EXCEPT ![d] = Written(b)]
           /\ out' = [out EXCEPT ![d] = Continued(@, b.mem, b.written, b.parsed)]
           /\ \E room \in BOOLEAN : willing' = [willing EXCEPT ![side] = room]
           /\ NextSide
           /\ UNCHANGED <<taken, logged, status, off, cause>>
  <2> DEFINE r == Written(b)
             o == Continued(out[d], b.mem, b.written, b.parsed)
  <2>1. /\ pc = "serve" /\ "POLLOUT" \in revents[side] /\ WriteReady(b)
        /\ UNCHANGED <<script, avail, closed, reset>>
    BY DEF ServeWrite
  <2>2. Settled(d) /\ ~ReadReady(b)
    BY <1>1, <2>1 DEF IInv, SettledSides, FlagsFit, Dirs
  <2>3. Unparsed(b) = 0 /\ b.parsed > 0
    BY <2>1, <2>2 DEF Settled, ReadReady, WriteReady
  <2>4. /\ Counted(b) /\ b.written = 0 /\ p \in Nat /\ taken[d] \in Nat
        /\ b.parsed \in Nat /\ b.read \in Nat /\ Len(b.mem) \in Nat
        /\ m \in Nat /\ m = p + b.parsed /\ avail[d] \in Nat
        /\ Unparsed(b) = taken[d] - m /\ taken[d] <= avail[d]
    BY Counters
  <2>5. /\ m = taken[d] /\ p < m /\ m <= avail[d]
    <3>1. m = taken[d]
      BY ONLY <2>3, <2>4
    <3>2. p < m
      BY ONLY <2>3, <2>4
    <3> QED BY <2>4, <3>1, <3>2
  <2>6. /\ r \in Buffer /\ r.read = 0 /\ r.parsed = 0 /\ r.written = 0
        /\ r.mem = b.mem /\ r.nms = UNKNOWN_SZ
    BY <1>1, <2>3, <2>4, WrittenClears, WrittenMem
  <2>7. Len(o) = m
    <3>1. /\ b.mem \in Seq(Cell) /\ b.written \in Nat /\ b.parsed \in Nat
          /\ out[d] \in Seq(Cell)
      BY <1>1, <2>4, BufferFields DEF IInv, Typed
    <3>2. b.written + b.parsed <= Len(b.mem)
      BY <2>4 DEF Counted
    <3>3. Len(o) = Len(out[d]) + b.parsed
      BY ONLY <3>1, <3>2, ContinuedKeeps, SMTT(60)
    <3> QED BY <2>4, <3>3
  <2> HIDE DEF r, o
  <2>8. /\ buf'[d] = r /\ out'[d] = o
        /\ \A e \in Dirs : e # d => buf'[e] = buf[e] /\ out'[e] = out[e]
    BY <1>3 DEF IInv, Typed, r, o
  <2>9. Marked(d)' = m
    BY <2>4, <2>6, <2>7, <2>8 DEF Marked
  <2>10. DirFramed(d)'
    <3>1. /\ m \in Starts(s) /\ Arrives(d, s, p, avail[d]) /\ Roomy(b)
          /\ Len(logged[d]) = Cardinality({e \in s.ends : e <= m})
      BY DEF FInv, DirFramed
    <3>2. m \in s.ends
      BY <2>4, <2>5, <3>1 DEF Starts
    <3>3. Arrives(d, s, m, avail[d]) /\ Holds(d, s, m, m)
      BY <2>4, <2>5, <3>1, <3>2, WriteHolds
    <3>4. SizeRight(s, m, r) /\ Roomy(r)
      BY <2>6, <3>1 DEF SizeRight, MessageSizeSet, Roomy
    <3>5. /\ script'[d] = s /\ logged' = logged /\ avail' = avail
          /\ taken'[d] = m
      BY <1>3, <2>1, <2>5
    <3> QED BY <2>7, <2>8, <2>9, <3>1, <3>3, <3>4, <3>5 DEF DirFramed
  <2>11. \A e \in Dirs : DirFramed(e)'
    <3>1. ASSUME NEW e \in Dirs, e # d PROVE DirFramed(e)'
      BY <1>3, <2>1, <2>8, <3>1, FramedFrame DEF FInv
    <3> QED BY <2>10, <3>1
  <2>12. Waiting'
    <3>1. WaitsNow(d)'
      BY <2>6, <2>8 DEF WaitsNow, Waits, Unparsed, Size
    <3>2. ASSUME NEW e \in Dirs, e # d PROVE WaitsNow(e)'
      BY <1>3, <2>1, <2>8, <3>2, WaitsFrame DEF FInv, Waiting
    <3> QED BY <1>3, <3>1, <3>2, NextSideKeeps DEF Waiting
  <2>13. SetupFirst'
    <3>1. Marked("server")' = Marked("server")
      <4>1. CASE d = "server"
        BY <2>9, <4>1
      <4>2. CASE d # "server"
        BY <2>8, <4>2 DEF Marked, Dirs
      <4> QED BY <4>1, <4>2
    <3>2. \A e \in Dirs : Len(out[e]) \in Nat /\ Len(out'[e]) \in Nat
                          /\ Len(out[e]) <= Len(out'[e])
      <4>1. Len(out[d]) = p /\ Len(out'[d]) = m
        BY <2>7, <2>8
      <4>2. p \in Nat /\ m \in Nat /\ p <= m
        BY ONLY <2>4, <2>5
      <4>3. ASSUME NEW e \in Dirs, e # d
            PROVE  Len(out[e]) \in Nat /\ out'[e] = out[e]
        BY <2>8, <4>3, Counters
      <4> QED BY <4>1, <4>2, <4>3
    <3>3. \A e \in Dirs : script[e].setup \in Nat
      BY ScriptType DEF IInv
    <3>4. "client" \in Dirs /\ "server" \in Dirs /\ SetupFirst
      BY DEF Dirs, FInv
    <3>5. avail'["server"] > 0 => Len(out'["client"]) >= script'["client"].setup
      BY <2>1, <3>2, <3>3, <3>4 DEF SetupFirst
    <3>6. ASSUME NEW e \in Dirs, avail'[e] > script'[e].setup
          PROVE  Len(out'["server"]) >= script'["server"].setup
      BY <2>1, <3>2, <3>3, <3>4, <3>6 DEF SetupFirst
    <3> QED BY <1>3, <3>1, <3>4, <3>5, <3>6 DEF SetupFirst
  <2>14. FlagsTrue'
    <3>1. buf'["server"] = buf["server"] \/ ReadReady(buf'["server"])
      <4>1. ReadReady(r)
        BY <2>6 DEF ReadReady, Empty
      <4> QED BY <2>8, <4>1 DEF Dirs
    <3> QED BY <1>3, <2>1, <3>1, NextSideFlags
  <2>15. GoodEnds'
    BY <1>3, <2>1, RunsOn
  <2> QED BY <2>11, <2>12, <2>13, <2>14, <2>15 DEF FInv
<1> QED BY <1>2, <1>3, <1>4 DEF ServeWrite

LEMMA ServeReadFramed == IInv /\ FInv /\ ServeRead => FInv'
<1> SUFFICES ASSUME IInv, FInv, ServeRead, NEW d \in Dirs, d = side,
                    NEW b, b = buf[d], NEW s, s = script[d],
                    NEW p, p = Len(out[d])
             PROVE  FInv'
  BY DEF IInv, Typed
<1> DEFINE n == BytesToRead(b)
           k == Min2(n, avail[d] - taken[d])
           r == Received(b, n, s.cells, taken[d], k)
<1>1. /\ pc = "serve" /\ "POLLIN" \in revents[d] /\ UNCHANGED env
      /\ UNCHANGED <<out, logged, status, revents, side>>
  BY DEF ServeRead, Die, CloseConnection
<1>2. /\ b \in Buffer /\ Counted(b) /\ b.written = 0
      /\ b.parsed \in Nat /\ b.read \in Nat /\ Len(b.mem) \in Nat
      /\ p \in Nat /\ taken[d] \in Nat /\ avail[d] \in Nat /\ taken[d] <= avail[d]
      /\ avail[d] <= Len(s.cells) /\ Len(s.cells) \in Nat
      /\ Size(b) = b.read /\ Unparsed(b) = taken[d] - Marked(d)
      /\ Marked(d) \in Nat
  BY Counters
<1>3. /\ WaitsNow(d) /\ WaitsNow(Other(d)) /\ Other(d) \in Dirs
      /\ ReadReady(b) /\ (taken[d] < avail[d] \/ closed[d])
  BY <1>1, OtherType DEF FInv, Waiting, FlagsTrue, Unserved, Dirs
<1>4. /\ n \in 1 .. SIZE_MAX /\ ReadAsserts(b, n) /\ InStorage(b, n)
      /\ BLOCK_SZ <= Len(Storage(b, n)) /\ Len(Storage(b, n)) <= SIZE_MAX
      /\ \A x \in Nat \ {0} : x = Min2(n, avail[d] - taken[d])
           => Holds(d, s, p, taken[d] + x)
  BY <1>3, ReadHolds
<1>5. b.parsed = 0 /\ NoEndIn(s, p, taken[d])
  BY <1>3, ReadsAtStart
<1>6. /\ k \in Nat /\ k <= n /\ taken[d] + k <= avail[d]
      /\ k = 0 => taken[d] = avail[d]
  <2>1. n \in Nat \ {0}
    BY ONLY <1>4, SizeMaxAssumption
  <2>2. avail[d] - taken[d] \in Nat
    BY ONLY <1>2
  <2> HIDE DEF n
  <2> QED BY ONLY <1>2, <2>1, <2>2 DEF Min2
<1>7. CASE k = 0
  <2>1. \/ CloseConnection("eof")
        \/ CloseConnection("reset") /\ reset[d]
    BY <1>4, <1>7 DEF ServeRead
  <2>2. closed[d] /\ NoEndIn(s, p, avail[d])
    BY <1>2, <1>3, <1>5, <1>6, <1>7
  <2> QED BY <1>1, <2>1, <2>2, EndsWell DEF CloseConnection
<1>8. CASE k # 0
  <2>1. /\ buf' = [buf EXCEPT ![d] = r]
        /\ taken' = [taken EXCEPT ![d] = @ + k]
        /\ pc' = "parse" /\ off' = b.written /\ cause' = cause
    BY <1>4, <1>8 DEF ServeRead
  <2>2. s.cells \in Seq(Cell)
    BY EndsAreCells DEF IInv
  <2> HIDE DEF k, n
  <2>3. /\ r \in Buffer /\ Counted(r) /\ r.read = b.read + k
        /\ r.parsed = b.parsed /\ r.written = b.written /\ r.nms = b.nms
    <3>1. n \in 0 .. SIZE_MAX /\ taken[d] + k <= Len(s.cells)
      <4>1. n \in 0 .. SIZE_MAX
        BY ONLY <1>4, SizeMaxAssumption
      <4>2. taken[d] + k <= Len(s.cells)
        BY ONLY <1>2, <1>6
      <4> QED BY <4>1, <4>2
    <3> QED BY <1>2, <1>4, <1>6, <2>2, <3>1, ReceivedKeeps, SMTT(60)
  <2>4. Len(r.mem) = Len(Storage(b, n))
    <3>1. n \in 0 .. SIZE_MAX
      BY ONLY <1>4, SizeMaxAssumption
    <3> QED BY <1>2, <3>1, ReceivedMem
  <2> HIDE DEF r
  <2>5. /\ buf'[d] = r /\ taken'[d] = taken[d] + k
        /\ \A e \in Dirs : e # d => buf'[e] = buf[e] /\ taken'[e] = taken[e]
    BY <2>1 DEF IInv, Typed
  <2>6. Marked(d)' = Marked(d)
    BY <1>1, <2>3, <2>5 DEF Marked
  <2>7. DirFramed(d)'
    <3>1. DirFramed(d)
      BY DEF FInv
    <3>2. Holds(d, s, p, taken[d] + k)
      BY <1>4, <1>6, <1>8 DEF k
    <3>3. SizeRight(s, Marked(d), r)
      <4>1. SizeRight(s, Marked(d), b)
        BY <3>1 DEF DirFramed
      <4>2. Unparsed(b) = b.read - 0 - b.parsed
            /\ Unparsed(r) = (b.read + k) - 0 - b.parsed
        BY <1>2, <2>3 DEF Unparsed, Size
      <4>3. Unparsed(b) > 0 => Unparsed(r) > 0
        BY ONLY <1>2, <1>6, <4>2
      <4> QED BY <2>3, <4>1, <4>3 DEF SizeRight, MessageSizeSet
    <3>4. Roomy(r)
      BY <1>4, <2>4 DEF Roomy
    <3>5. script'[d] = s /\ avail' = avail /\ Len(out'[d]) = p
      BY <1>1 DEF env
    <3> QED BY <1>1, <2>5, <2>6, <3>1, <3>2, <3>3, <3>4, <3>5 DEF DirFramed
  <2>8. \A e \in Dirs : DirFramed(e)'
    <3>1. ASSUME NEW e \in Dirs, e # d PROVE DirFramed(e)'
      BY <1>1, <2>5, <3>1, FramedFrame DEF FInv, env
    <3> QED BY <2>7, <3>1
  <2>9. Waiting'
    <3>1. WaitsNow(Other(d))'
      BY <1>1, <1>3, <2>5, WaitsFrame, OtherType DEF env
    <3>2. off' = buf'[side'].parsed
      BY <1>1, <1>2, <1>5, <2>1, <2>3, <2>5
    <3> QED BY <1>1, <2>1, <3>1, <3>2 DEF Waiting
  <2>10. SetupFirst'
    <3>1. Marked("server")' = Marked("server")
      <4>1. CASE d = "server"
        BY <2>6, <4>1
      <4>2. CASE d # "server"
        BY <1>1, <2>5, <4>2 DEF Marked, Dirs
      <4> QED BY <4>1, <4>2
    <3> QED BY <1>1, <3>1 DEF FInv, SetupFirst, env
  <2>11. FlagsTrue'
    <3>5. \A e \in Dirs : Unserved(e)' /\ "POLLERR" \in revents'[e] => reset'[e]
      BY <1>1, <2>1 DEF FInv, FlagsTrue, Unserved, env
    <3> SUFFICES ASSUME NEW e \in Dirs, Unserved(e)', "POLLIN" \in revents'[e]
                 PROVE  ReadReady(buf'[e]) /\ (taken'[e] < avail'[e] \/ closed'[e])
      BY <3>5 DEF FlagsTrue
    <3>1. side = "client" /\ e = "server"
      BY <1>1, <2>1 DEF Unserved
    <3>2. Unserved(e) /\ e # d
      BY <1>1, <3>1 DEF Unserved
    <3> QED BY <1>1, <2>5, <3>2 DEF FInv, FlagsTrue, env
  <2>12. GoodEnds'
    BY <1>1, <2>1, RunsOn DEF env
  <2>13. (Chunks = "framed")'
    BY DEF FInv
  <2> QED BY <2>8, <2>9, <2>10, <2>11, <2>12, <2>13 DEF FInv
<1> QED BY <1>7, <1>8

LEMMA ParseHeaderFramed == IInv /\ FInv /\ ParseHeader => FInv'
<1> SUFFICES ASSUME IInv, FInv, ParseHeader, NEW d \in Dirs, d = side,
                    NEW b, b = buf[d], NEW s, s = script[d],
                    NEW m, m = Marked(d)
             PROVE  FInv'
  BY DEF IInv, Typed
<1> DEFINE z == Declared(d, status, b, off)
           r == [b EXCEPT !.nms = z]
<1>1. /\ pc = "parse" /\ Unparsed(b) > 0 /\ ~MessageSizeSet(b)
      /\ HeaderTest(d, status, b, off) /\ UNCHANGED env
      /\ UNCHANGED <<taken, out, logged, status, revents, side, off>>
  BY DEF ParseHeader, Die, ctl
<1>2. /\ b \in Buffer /\ Unparsed(b) = taken[d] - m /\ m \in Nat
      /\ taken[d] \in Nat /\ b.parsed \in Nat /\ Len(b.mem) \in Nat
  BY Counters
<1>3. m < taken[d]
  BY ONLY <1>1, <1>2
<1>4. off = b.parsed /\ status = StatusAt(m)
  BY <1>1, <1>3, StatusFits DEF FInv, Waiting
<1>5. /\ HeaderInStorage(d, status, b, off)
      /\ NextMessage(s, m, m + z)
  BY <1>1, <1>3, <1>4, HeaderSeen
<1>6. d = "client" /\ status = "UNESTABLISHED" => b.mem[off + 1] = ORDER
  <2> SUFFICES ASSUME d = "client", status = "UNESTABLISHED"
               PROVE  b.mem[off + 1] = ORDER
    OBVIOUS
  <2>1. m = 0
    BY <1>4 DEF StatusAt
  <2>2. s.cells[1] = ORDER
    BY FramedScript DEF WholeMessages, IInv, FInv
  <2>3. Agree(b, b.parsed, Sent(s), m, taken[d] - m)
    BY CellsAfterMark
  <2>4. 1 \in 1 .. (taken[d] - m)
    BY ONLY <1>2, <1>3
  <2>5. b.mem[b.parsed + 1] = s.cells[m + 1]
    BY <2>3, <2>4 DEF Agree, Sent
  <2>6. m + 1 = 1
    BY <2>1
  <2> QED BY <1>4, <2>2, <2>5, <2>6
<1>7. /\ buf' = [buf EXCEPT ![d].nms = z]
      /\ UNCHANGED ctl
  BY <1>1, <1>5, <1>6 DEF ParseHeader
<1>8. z \in 0 .. SIZE_MAX
  <2>1. z \in 0 .. (SIZE_MAX - 1)
    BY <1>2, <1>5, DeclaredType DEF IInv, Typed
  <2> QED BY <2>1, SizeMaxAssumption
<1> HIDE DEF z
<1>9. /\ r.mem = b.mem /\ r.read = b.read /\ r.nms = z
      /\ r.parsed = b.parsed /\ r.written = b.written
  BY <1>2 DEF Buffer
<1>10. buf' = [buf EXCEPT ![d] = r]
  BY <1>7
<1> HIDE DEF r
<1>11. buf'[d] = r /\ \A e \in Dirs : e # d => buf'[e] = buf[e]
  BY <1>10 DEF IInv, Typed
<1>12. Marked(d)' = m
  BY <1>1, <1>9, <1>11 DEF Marked
<1>13. DirFramed(d)'
  <2>1. DirFramed(d)
    BY DEF FInv
  <2>2. SizeRight(s, m, r)
    <3>1. Unparsed(r) = Unparsed(b)
      BY <1>9 DEF Unparsed, Size
    <3> QED BY <1>1, <1>5, <1>9, <3>1 DEF SizeRight
  <2>3. Roomy(r)
    BY <1>9, <2>1 DEF DirFramed, Roomy
  <2> QED BY <1>1, <1>11, <1>12, <2>1, <2>2, <2>3 DEF DirFramed, env
<1>14. \A e \in Dirs : DirFramed(e)'
  <2>1. ASSUME NEW e \in Dirs, e # d PROVE DirFramed(e)'
    BY <1>1, <1>11, <2>1, FramedFrame DEF FInv, env
  <2> QED BY <1>13, <2>1
<1>15. Waiting'
  <2>1. WaitsNow(Other(d))'
    BY <1>1, <1>11, WaitsFrame, OtherType DEF FInv, Waiting, env
  <2>2. off' = buf'[side'].parsed
    BY <1>1, <1>4, <1>9, <1>11
  <2> QED BY <1>1, <1>7, <2>1, <2>2 DEF Waiting, ctl
<1>16. SetupFirst'
  <2>1. Marked("server")' = Marked("server")
    <3>1. CASE d = "server"
      BY <1>12, <3>1
    <3>2. CASE d # "server"
      BY <1>1, <1>11, <3>2 DEF Marked, Dirs
    <3> QED BY <3>1, <3>2
  <2> QED BY <1>1, <2>1 DEF FInv, SetupFirst, env
<1>17. FlagsTrue'
  <2>5. \A e \in Dirs : Unserved(e)' /\ "POLLERR" \in revents'[e] => reset'[e]
    BY <1>1, <1>7 DEF FInv, FlagsTrue, Unserved, env, ctl
  <2> SUFFICES ASSUME NEW e \in Dirs, Unserved(e)', "POLLIN" \in revents'[e]
               PROVE  ReadReady(buf'[e]) /\ (taken'[e] < avail'[e] \/ closed'[e])
    BY <2>5 DEF FlagsTrue
  <2>1. Unserved(e) /\ e # d
    BY <1>1, <1>7 DEF Unserved, ctl
  <2> QED BY <1>1, <1>11, <2>1 DEF FInv, FlagsTrue, env
<1>18. GoodEnds'
  BY <1>1, <1>7, RunsOn DEF ctl, env
<1>19. (Chunks = "framed")'
  BY DEF FInv
<1> QED BY <1>14, <1>15, <1>16, <1>17, <1>18, <1>19 DEF FInv

EndsUpTo(s, k) == Cardinality({x \in s.ends : x <= k})

(* One more end lies at or before the end of the next message.             *)
LEMMA CountNext ==
  ASSUME IInv, NEW d \in Dirs, NEW s, s = script[d], NEW m \in Starts(s),
         NEW e, NextMessage(s, m, e)
  PROVE  EndsUpTo(s, e) = EndsUpTo(s, m) + 1
<1> DEFINE before == {x \in s.ends : x <= m}
           upto   == {x \in s.ends : x <= e}
<1>1. \A x \in s.ends : x \in Nat \ {0} /\ x <= Len(s.cells)
  BY EndsAreCells DEF IInv
<1>2. Len(s.cells) \in Nat /\ m \in Nat
  BY EndsAreCells DEF IInv
<1>3. e \in s.ends /\ m < e /\ \A x \in s.ends : x <= m \/ e <= x
  BY DEF NextMessage
<1>4. IsFiniteSet(before)
  <2>1. IsFiniteSet(1 .. Len(s.cells))
    BY <1>2, FS_Interval
  <2>2. before \subseteq 1 .. Len(s.cells)
    BY <1>1, <1>2
  <2> QED BY <2>1, <2>2, FS_Subset
<1>5. e \notin before
  BY <1>1, <1>2, <1>3
<1>6. upto = before \cup {e}
  <2>1. ASSUME NEW x \in s.ends
        PROVE  x <= e <=> x <= m \/ x = e
    <3>1. x \in Nat /\ e \in Nat /\ (x <= m \/ e <= x)
      BY <1>1, <1>3
    <3> QED BY ONLY <1>2, <1>3, <3>1
  <2> QED BY <1>3, <2>1
<1> HIDE DEF before, upto
<1>7. Cardinality(upto) = Cardinality(before) + 1
  BY <1>4, <1>5, <1>6, FS_AddElement
<1> QED BY <1>7 DEF before, upto, EndsUpTo

LEMMA ParseMessageFramed == IInv /\ FInv /\ ParseMessage => FInv'
<1> SUFFICES ASSUME IInv, FInv, ParseMessage, NEW d \in Dirs, d = side,
                    NEW b, b = buf[d], NEW s, s = script[d],
                    NEW m, m = Marked(d)
             PROVE  FInv'
  BY DEF IInv, Typed
<1> DEFINE r == MessageParsed(b)
           e == m + b.nms
<1>1. /\ pc = "parse" /\ Unparsed(b) > 0 /\ MessageSizeSet(b)
      /\ ~IncompleteMessage(b) /\ UNCHANGED env
  BY DEF ParseMessage
<1>2. /\ b \in Buffer /\ Counted(b) /\ Unparsed(b) = taken[d] - m /\ m \in Nat
      /\ taken[d] \in Nat /\ b.parsed \in Nat /\ Len(b.mem) \in Nat
      /\ Len(out[d]) \in Nat /\ m = Len(out[d]) + b.parsed
  BY Counters
<1>3. m < taken[d]
  BY ONLY <1>1, <1>2
<1>4. off = b.parsed /\ status = StatusAt(m) /\ m \in Starts(s)
  BY <1>1, <1>3, StatusFits DEF FInv, Waiting, DirFramed
<1>5. NextMessage(s, m, e)
  BY <1>1 DEF FInv, DirFramed, SizeRight
<1>6. b.nms \in Nat /\ e \in Nat /\ e <= taken[d] /\ b.nms > 0
  <2>1. b.nms \in Nat
    BY <1>2, BufferFields
  <2>2. ~(Unparsed(b) < b.nms)
    BY <1>1 DEF IncompleteMessage
  <2>3. m < e
    BY <1>5 DEF NextMessage
  <2>4. e <= taken[d]
    BY ONLY <1>2, <2>1, <2>2
  <2>5. b.nms > 0
    BY ONLY <1>2, <2>1, <2>3
  <2> QED BY <1>2, <2>1, <2>4, <2>5
<1>7. /\ DeclaredCells(d, status, b, off) <= e - m
      /\ Declared(d, status, b, off) = e - m
      /\ HeaderInStorage(d, status, b, off)
  BY <1>4, <1>5, <1>6, WholeSeen
<1>8. e - m = b.nms
  BY ONLY <1>2, <1>6
<1>9. WellFormed(d, status, b, off)
  <2>1. d = "client" => b.nms >= REQUEST_HEADER
    <3>1. DeclaredCells(d, status, b, off) \in 1 .. 3
      BY HeaderSizes DEF IInv, Typed, INIT_HEADER
    <3>2. d = "client" => DeclaredCells(d, status, b, off) >= REQUEST_HEADER
      BY HeaderSizes DEF IInv, Typed
    <3> QED BY <1>6, <1>7, <1>8, <3>1, <3>2 DEF REQUEST_HEADER
  <2> QED BY <1>7, <1>8, <2>1 DEF WellFormed
<1>10. d = "server" /\ status = "UNESTABLISHED" => b.mem[off + 1] = SUCCESS
  <2> SUFFICES ASSUME d = "server", status = "UNESTABLISHED"
               PROVE  b.mem[off + 1] = SUCCESS
    OBVIOUS
  <2>1. m = 0
    BY <1>4 DEF StatusAt
  <2>2. s.cells[1] = SUCCESS
    BY FramedScript DEF WholeMessages, IInv, FInv
  <2>3. Agree(b, b.parsed, Sent(s), m, taken[d] - m)
    BY CellsAfterMark
  <2>4. 1 \in 1 .. (taken[d] - m)
    BY ONLY <1>2, <1>3
  <2>5. b.mem[b.parsed + 1] = s.cells[m + 1]
    BY <2>3, <2>4 DEF Agree, Sent
  <2>6. m + 1 = 1
    BY <2>1
  <2> QED BY <1>4, <2>2, <2>5, <2>6
<1>11. /\ MarkAsserts(b)
       /\ status' = IF d = "server" /\ status = "UNESTABLISHED"
                    THEN "OPEN" ELSE status
       /\ buf' = [buf EXCEPT ![d] = r]
       /\ logged' = [logged EXCEPT ![d] = Append(@, b.nms)]
       /\ off' = off + b.nms
       /\ UNCHANGED <<taken, out, revents, side, pc, cause>>
  BY <1>9, <1>10 DEF ParseMessage
<1>12. /\ r.mem = b.mem /\ r.read = b.read /\ r.written = b.written
       /\ r.parsed = b.parsed + b.nms /\ r.nms = UNKNOWN_SZ
  BY <1>2, <1>11, MessageParsedKeeps
<1> HIDE DEF r
<1>13. /\ buf'[d] = r /\ logged'[d] = Append(logged[d], b.nms)
       /\ \A x \in Dirs : x # d => buf'[x] = buf[x] /\ logged'[x] = logged[x]
  BY <1>11 DEF IInv, Typed
<1>14. Marked(d)' = e
  <2>1. Marked(d)' = Len(out[d]) + (b.parsed + b.nms)
    BY <1>11, <1>12, <1>13 DEF Marked
  <2> QED BY ONLY <1>2, <1>6, <2>1
<1>15. DirFramed(d)'
  <2>1. DirFramed(d)
    BY DEF FInv
  <2>2. SizeRight(s, e, r) /\ Roomy(r)
    BY <1>12, <2>1 DEF SizeRight, MessageSizeSet, DirFramed, Roomy
  <2>3. e \in Starts(s)
    BY <1>5 DEF NextMessage, Starts
  <2>4. Len(logged'[d]) = Cardinality({x \in s.ends : x <= e})
    <3>1. logged[d] \in Seq(Nat)
      BY DEF IInv, Typed
    <3>2. Len(logged'[d]) = Len(logged[d]) + 1
      BY <1>6, <1>13, <3>1
    <3>3. Len(logged[d]) = Cardinality({x \in s.ends : x <= m})
      BY <2>1 DEF DirFramed
    <3>4. Cardinality({x \in s.ends : x <= e})
            = Cardinality({x \in s.ends : x <= m}) + 1
      <4> HIDE DEF e
      <4>1. EndsUpTo(s, e) = EndsUpTo(s, m) + 1
        BY <1>4, <1>5, CountNext
      <4> QED BY <4>1 DEF EndsUpTo
    <3> QED BY <3>2, <3>3, <3>4
  <2>5. script' = script /\ avail' = avail /\ out' = out /\ taken' = taken
    BY <1>1, <1>11 DEF env
  <2> HIDE DEF e
  <2> QED BY <1>13, <1>14, <2>1, <2>2, <2>3, <2>4, <2>5 DEF DirFramed
<1>16. \A x \in Dirs : DirFramed(x)'
  <2>1. ASSUME NEW x \in Dirs, x # d PROVE DirFramed(x)'
    BY <1>1, <1>11, <1>13, <2>1, FramedFrame DEF FInv, env
  <2> QED BY <1>15, <2>1
<1>17. Waiting'
  <2>1. WaitsNow(Other(d))'
    BY <1>1, <1>11, <1>13, WaitsFrame, OtherType DEF FInv, Waiting, env
  <2>2. off' = buf'[side'].parsed
    BY <1>4, <1>11, <1>12, <1>13
  <2> QED BY <1>1, <1>11, <2>1, <2>2 DEF Waiting
<1>18. SetupFirst'
  <2>1. status' = "UNESTABLISHED" <=> Marked("server")' = 0
    <3>1. SetupFirst /\ status \in Statuses
      BY DEF FInv, IInv, Typed
    <3>2. CASE d = "server"
      <4>1. status' = "OPEN"
        BY <1>11, <3>1, <3>2 DEF Statuses
      <4>2. e # 0
        BY ONLY <1>2, <1>6
      <4> QED BY <1>14, <3>2, <4>1, <4>2
    <3>3. CASE d # "server"
      <4>1. Marked("server")' = Marked("server") /\ status' = status
        BY <1>11, <1>13, <3>3 DEF Marked, Dirs
      <4> QED BY <3>1, <4>1 DEF SetupFirst
    <3> QED BY <3>2, <3>3
  <2> QED BY <1>1, <1>11, <2>1 DEF FInv, SetupFirst, env
<1>19. FlagsTrue'
  <2>5. \A x \in Dirs : Unserved(x)' /\ "POLLERR" \in revents'[x] => reset'[x]
    BY <1>1, <1>11 DEF FInv, FlagsTrue, Unserved, env
  <2> SUFFICES ASSUME NEW x \in Dirs, Unserved(x)', "POLLIN" \in revents'[x]
               PROVE  ReadReady(buf'[x]) /\ (taken'[x] < avail'[x] \/ closed'[x])
    BY <2>5 DEF FlagsTrue
  <2>1. Unserved(x) /\ x # d
    BY <1>1, <1>11 DEF Unserved
  <2> QED BY <1>1, <1>11, <1>13, <2>1 DEF FInv, FlagsTrue, env
<1>20. GoodEnds'
  BY <1>1, <1>11, RunsOn DEF env
<1>21. (Chunks = "framed")'
  BY DEF FInv
<1> QED BY <1>16, <1>17, <1>18, <1>19, <1>20, <1>21 DEF FInv

-----------------------------------------------------------------------------
(* The invariant holds of every framed behaviour.                          *)

LEMMA InitFInv == Chunks = "framed" /\ Init => FInv
<1> SUFFICES ASSUME Chunks = "framed", Init PROVE FInv
  OBVIOUS
<1>1. IInv
  BY InitIInv
<1>2. ASSUME NEW d \in Dirs
      PROVE  /\ taken[d] = 0 /\ avail[d] = 0 /\ buf[d] = Fresh
             /\ out[d] = <<>> /\ logged[d] = <<>> /\ closed[d] = FALSE
             /\ revents[d] = {}
  BY DEF Init, NoEvents
<1>3. /\ Fresh.read = 0 /\ Fresh.parsed = 0 /\ Fresh.written = 0
      /\ Fresh.nms = UNKNOWN_SZ /\ Len(Fresh.mem) = BLOCK_SZ
  BY BlockAssumption DEF Fresh
<1>4. ASSUME NEW d \in Dirs
      PROVE  Marked(d) = 0 /\ Len(out[d]) = 0 /\ Unparsed(buf[d]) = 0
  <2>1. buf[d] = Fresh /\ out[d] = <<>>
    BY <1>2
  <2>2. Len(out[d]) = 0
    BY <2>1
  <2>3. buf[d].read = 0 /\ buf[d].parsed = 0 /\ buf[d].written = 0
    BY <1>3, <2>1
  <2>4. Marked(d) = 0
    BY <2>2, <2>3 DEF Marked
  <2>5. Unparsed(buf[d]) = 0
    BY <2>3 DEF Unparsed, Size
  <2> QED BY <2>2, <2>4, <2>5
<1>5. ASSUME NEW d \in Dirs PROVE DirFramed(d)
  <2> DEFINE s == script[d]
  <2>1. \A e \in s.ends : e \in Nat \ {0}
    BY <1>1, EndsAreCells DEF IInv
  <2>2. 0 \in Starts(s) /\ NoEndIn(s, 0, 0)
    BY <2>1 DEF Starts, NoEndIn
  <2>3. {e \in s.ends : e <= 0} = {}
    BY <2>1
  <2>4. Cardinality({e \in s.ends : e <= Marked(d)}) = 0
    BY <1>4, <2>3, FS_EmptySet
  <2>5. Arrives(d, s, 0, 0) /\ Holds(d, s, 0, 0)
    BY <2>2 DEF Arrives, Holds
  <2>6. SizeRight(s, 0, Fresh)
    BY <1>3 DEF SizeRight, MessageSizeSet
  <2>7. Roomy(Fresh)
    <3>1. BLOCK_SZ <= BLOCK_SZ /\ BLOCK_SZ <= SIZE_MAX
      BY BlockAssumption, SizeMaxAssumption
    <3> QED BY <1>3, <3>1 DEF Roomy
  <2>8. Len(logged[d]) = 0
    <3>1. logged[d] = <<>>
      BY <1>2
    <3> QED BY <3>1
  <2> QED BY <1>2, <1>4, <2>2, <2>4, <2>5, <2>6, <2>7, <2>8 DEF DirFramed
<1>6. Waiting
  BY <1>4 DEF Init, Waiting, WaitsNow, Waits
<1>7. SetupFirst
  <2>1. \A d \in Dirs : script[d].setup \in Nat
    BY <1>1, EndsAreCells, ScriptsAssumption DEF IInv, Typed
  <2>2. "server" \in Dirs
    BY DEF Dirs
  <2>3. status = "UNESTABLISHED"
    BY DEF Init
  <2>4. Marked("server") = 0 /\ avail["server"] = 0
    BY <1>2, <1>4, <2>2
  <2>5. ~(avail["server"] > 0)
    BY <2>4
  <2>6. ASSUME NEW d \in Dirs PROVE ~(avail[d] > script[d].setup)
    <3>1. script[d].setup \in Nat /\ avail[d] = 0
      BY <1>2, <2>1
    <3> QED BY ONLY <3>1
  <2> QED BY <2>3, <2>4, <2>5, <2>6 DEF SetupFirst
<1>8. FlagsTrue
  BY <1>2 DEF FlagsTrue
<1>9. GoodEnds
  BY DEF Init, GoodEnds
<1> QED BY <1>5, <1>6, <1>7, <1>8, <1>9 DEF FInv

LEMMA NextFInv == IInv /\ FInv /\ [Next]_vars => FInv'
<1> SUFFICES ASSUME IInv, FInv, [Next]_vars PROVE FInv'
  OBVIOUS
<1>1. CASE Proxy
  BY <1>1, PollFramed, ServeReadFramed, ServeWriteFramed, ServeIdleFramed,
     ParseLeaveFramed, ParseHeaderFramed, ParseMessageFramed DEF Proxy
<1>2. CASE Peers
  BY <1>2, PeersFramed
<1>3. CASE UNCHANGED vars
  <2>1. /\ script' = script /\ avail' = avail /\ closed' = closed
        /\ reset' = reset /\ UNCHANGED data /\ UNCHANGED ctl
    BY <1>3 DEF vars, env
  <2>2. /\ (Chunks = "framed")' /\ SetupFirst' /\ \A d \in Dirs : DirFramed(d)'
        /\ \A d \in Dirs : WaitsNow(d)' <=> WaitsNow(d)
    BY <2>1, QuietStep
  <2>3. /\ pc' = pc /\ side' = side /\ off' = off /\ buf' = buf
        /\ revents' = revents /\ cause' = cause /\ out' = out
        /\ taken' = taken
    BY <2>1 DEF data, ctl
  <2>4. Waiting'
    <3>1. Waiting /\ Other(side) \in Dirs
      BY OtherType DEF FInv, IInv, Typed
    <3> QED BY <2>2, <2>3, <3>1 DEF Waiting
  <2>5. FlagsTrue'
    BY <2>1, <2>3 DEF FInv, FlagsTrue, Unserved
  <2>6. GoodEnds'
    BY <2>1, <2>3 DEF FInv, GoodEnds
  <2> QED BY <2>2, <2>4, <2>5, <2>6 DEF FInv
<1> QED BY <1>1, <1>2, <1>3 DEF Next

(* Outside the parser everything framed is logged or waits at the front of *)
(* its buffer, and the flags, the log and the status agree with it.        *)
THEOREM SpecFInv == Chunks = "framed" /\ Spec => [](IInv /\ FInv)
<1>1. Chunks = "framed" /\ Init => IInv /\ FInv
  BY InitIInv, InitFInv
<1>2. (IInv /\ FInv) /\ [Next]_vars => (IInv /\ FInv)'
  BY NextIInv, NextFInv
<1> QED BY <1>1, <1>2, PTL DEF Spec

-----------------------------------------------------------------------------
(* What follows from it.                                                   *)

(* No assertion of the buffer or of the parser fails, and the parser reads *)
(* no header that is not in the buffer: a connection ends by an EOF or a   *)
(* SIGPIPE only.                                                           *)
THEOREM NoFaults == Chunks = "framed" /\ Spec => []NoFault
<1>1. FInv => NoFault
  BY DEF FInv, GoodEnds, NoFault
<1> QED BY <1>1, SpecFInv, PTL

(* Every message is logged, as one message, before it is sent on.          *)
THEOREM LogIsTrue == Chunks = "framed" /\ Spec => []LogMatchesMessages
<1>1. FInv => LogMatchesMessages
  BY DEF FInv, DirFramed, Starts, LogMatchesMessages
<1> QED BY <1>1, SpecFInv, PTL

(* recv() never gets a length of zero, which would look like an EOF.       *)
THEOREM EofsAreReal == Chunks = "framed" /\ Spec => []EofIsReal
<1>1. FInv => EofIsReal
  BY DEF FInv, GoodEnds, EofIsReal
<1> QED BY <1>1, SpecFInv, PTL

(* Whatever a side had sent in full before it closed has gone on to the    *)
(* other side when the proxy closes the connection.                        *)
THEOREM NothingIsLost == Chunks = "framed" /\ Spec => []NothingLostOnClose
<1>1. IInv /\ FInv => NothingLostOnClose
  <2> SUFFICES ASSUME IInv, FInv, NEW d \in Dirs, cause \in {"eof", "reset"},
                      closed[d], ~reset[d], ~closed[Other(d)], NEW e \in script[d].ends,
                      e <= avail[d]
               PROVE  e <= Len(out[d])
    BY DEF NothingLostOnClose
  <2>5. ~reset[Other(d)] /\ \A x \in Dirs : x = d \/ x = Other(d)
    BY DEF FInv, GoodEnds, Dirs, Other
  <2>1. PICK x \in Dirs :
          closed[x] /\ NoEndIn(script[x], Len(out[x]), avail[x])
    BY <2>5 DEF FInv, GoodEnds
  <2>2. x = d
    BY <2>1 DEF Dirs, Other
  <2>3. e <= Len(out[d]) \/ avail[d] < e
    BY <2>1, <2>2 DEF NoEndIn
  <2>4. e \in Nat /\ avail[d] \in Nat
    BY EndsAreCells DEF IInv, Typed
  <2> QED BY ONLY <2>3, <2>4, e <= avail[d]
<1> QED BY <1>1, SpecFInv, PTL

(* A side is not read while a logged message of its own waits to be sent   *)
(* on.                                                                     *)
THEOREM ReadsWaitForWrites == Chunks = "framed" /\ Spec => Backpressure
<1> DEFINE Waited == \A d \in Dirs : taken'[d] # taken[d] => buf[d].parsed = 0
<1>1. IInv /\ FInv /\ [Next]_vars => [Waited]_vars
  <2> SUFFICES ASSUME IInv, FInv, Next, NEW d \in Dirs, taken'[d] # taken[d]
               PROVE  buf[d].parsed = 0
    OBVIOUS
  <2>1. ServeRead
    BY DEF Next, Proxy, Peers, Poll, ServeRead, ServeWrite, ServeIdle,
           ParseLeave, ParseHeader, ParseMessage, PeerSend, PeerClose,
           PeerReset, PeerResumes, Die, CloseConnection, data
  <2>2. /\ pc = "serve" /\ "POLLIN" \in revents[side] /\ side \in Dirs
    BY <2>1 DEF ServeRead, IInv, Typed
  <2>3. d = side
    BY <2>1 DEF ServeRead, Die, CloseConnection, IInv, Typed
  <2>4. Unserved(d)
    BY <2>2, <2>3 DEF Unserved, Dirs
  <2>5. ReadReady(buf[d]) /\ WaitsNow(d)
    BY <2>2, <2>3, <2>4 DEF FInv, FlagsTrue, Waiting
  <2> QED BY <2>5, ReadsAtStart
<1>2. Chunks = "framed" /\ Spec => [](IInv /\ FInv)
  BY SpecFInv
<1>3. Chunks = "framed" /\ Spec => [][Waited]_vars
  BY <1>1, <1>2, PTL DEF Spec
<1> QED BY <1>3 DEF Backpressure

=============================================================================
