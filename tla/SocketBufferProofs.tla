------------------------- MODULE SocketBufferProofs -------------------------
(***************************************************************************)
(* What each operation of SocketBuffer does to a buffer, for every block   *)
(* size and every storage: facts the proofs about the relay cite.          *)
(***************************************************************************)
EXTENDS SocketBuffer, TLAPS

(* A function on 1 .. n is a sequence of length n.                         *)
LEMMA FunctionIsSeq ==
  ASSUME NEW S, NEW n \in Nat, NEW f \in [1 .. n -> S]
  PROVE  f \in Seq(S) /\ Len(f) = n /\ DOMAIN f = 1 .. n
  OBVIOUS

(* Wrapped sizes are sizes.                                                *)
LEMMA SizeTType ==
  ASSUME NEW x \in Int
  PROVE  SizeT(x) \in 0 .. SIZE_MAX
  BY SizeMaxAssumption DEF SizeT

(* A new SocketBuffer is empty and counted.                                *)
LEMMA FreshType ==
  /\ Fresh \in Buffer
  /\ Counted(Fresh)
  /\ Fresh.read = 0 /\ Fresh.parsed = 0 /\ Fresh.written = 0
  BY FunctionIsSeq, BlockAssumption, SizeMaxAssumption, CellMaxAssumption
     DEF Fresh, Buffer, UNKNOWN_SZ, Cell, Counted

(* The fields of a buffer.                                                 *)
LEMMA BufferFields ==
  ASSUME NEW b \in Buffer
  PROVE  /\ b.mem \in Seq(Cell)
         /\ b.read \in Nat /\ b.parsed \in Nat /\ b.written \in Nat
         /\ b.nms \in 0 .. SIZE_MAX /\ b.nms \in Nat
         /\ Len(b.mem) \in Nat
         /\ Size(b) \in Int
  BY SizeMaxAssumption DEF Buffer, Size

(* What read( fd ) asks for and what there is room for are sizes.          *)
LEMMA SizesRequested ==
  ASSUME NEW b \in Buffer
  PROVE  BytesToRead(b) \in 0 .. SIZE_MAX /\ Capacity(b) \in 0 .. SIZE_MAX
<1>1. b.nms - Size(b) \in Int /\ Len(b.mem) - b.read \in Int
  BY BufferFields
<1>2. SizeT(b.nms - Size(b)) \in 0 .. SIZE_MAX
  BY <1>1, SizeTType
<1>3. SizeT(Len(b.mem) - b.read) \in 0 .. SIZE_MAX
  BY <1>1, SizeTType
<1> QED BY <1>2, <1>3 DEF BytesToRead, Capacity

(* A resize keeps what was read, as far as the new storage reaches.        *)
LEMMA StorageKeeps ==
  ASSUME NEW b \in Buffer, NEW n \in 0 .. SIZE_MAX, Counted(b)
  PROVE  /\ Storage(b, n) \in Seq(Cell)
         /\ \A i \in 1 .. b.read :
              i <= Len(Storage(b, n)) => Storage(b, n)[i] = b.mem[i]
<1>1. CASE n > Capacity(b)
  <2>1. GrownTo(b, n) \in Nat
    <3>1. Capacity(b) \in 0 .. SIZE_MAX
      BY SizesRequested
    <3> DEFINE raw == SizeT(Len(b.mem) + SizeT(n - Capacity(b)))
    <3>2. raw \in Nat
      <4>1. n - Capacity(b) \in Int
        BY <3>1, SizeMaxAssumption
      <4>2. SizeT(n - Capacity(b)) \in 0 .. SIZE_MAX
        BY <4>1, SizeTType
      <4>3. Len(b.mem) + SizeT(n - Capacity(b)) \in Int
        BY <4>2, BufferFields, SizeMaxAssumption
      <4>4. raw \in 0 .. SIZE_MAX
        BY <4>3, SizeTType
      <4> QED BY <4>4, SizeMaxAssumption
    <3>3. raw % BLOCK_SZ \in 0 .. (BLOCK_SZ - 1)
      BY <3>2, BlockAssumption
    <3>4. (BLOCK_SZ - (raw % BLOCK_SZ)) % BLOCK_SZ \in 0 .. (BLOCK_SZ - 1)
      BY <3>3, BlockAssumption
    <3> HIDE DEF raw
    <3>5. raw + ((BLOCK_SZ - (raw % BLOCK_SZ)) % BLOCK_SZ) \in Nat
      BY <3>2, <3>4, BlockAssumption
    <3> QED BY <3>5 DEF GrownTo, raw
  <2>2. 0 \in Cell
    BY CellMaxAssumption DEF Cell
  <2> DEFINE s == [i \in 1 .. GrownTo(b, n) |->
                     IF i <= Len(b.mem) THEN b.mem[i] ELSE 0]
  <2>3. s \in [1 .. GrownTo(b, n) -> Cell]
    BY <2>1, <2>2, BufferFields
  <2>4. s \in Seq(Cell) /\ Len(s) = GrownTo(b, n)
    BY <2>1, <2>3, FunctionIsSeq
  <2>5. \A i \in 1 .. b.read : i <= Len(s) => s[i] = b.mem[i]
    BY <2>1, <2>4, BufferFields DEF Counted
  <2>6. Storage(b, n) = s
    BY <1>1 DEF Storage
  <2> HIDE DEF s
  <2> QED BY <2>4, <2>5, <2>6
<1>2. CASE ~(n > Capacity(b))
  BY <1>2, BufferFields DEF Storage
<1> QED BY <1>1, <1>2

(* A recv() inside the storage leaves a counted buffer: the cells that     *)
(* were there, followed by the new ones.                                   *)
LEMMA ReceivedKeeps ==
  ASSUME NEW b \in Buffer, NEW n \in 0 .. SIZE_MAX, Counted(b),
         InStorage(b, n),
         NEW s \in Seq(Cell), NEW p \in Nat, NEW k \in Nat,
         k <= n, p + k <= Len(s)
  PROVE  LET r == Received(b, n, s, p, k)
         IN  /\ r \in Buffer
             /\ Counted(r)
             /\ r.read = b.read + k
             /\ r.parsed = b.parsed /\ r.written = b.written /\ r.nms = b.nms
             /\ \A i \in 1 .. b.read : r.mem[i] = b.mem[i]
             /\ \A i \in 1 .. k : r.mem[b.read + i] = s[p + i]
<1> DEFINE m == Storage(b, n)
           t == [i \in 1 .. Len(m) |->
                   IF b.read < i /\ i <= b.read + k
                   THEN s[p + i - b.read] ELSE m[i]]
           r == Received(b, n, s, p, k)
<1>1. /\ m \in Seq(Cell) /\ Len(m) \in Nat
      /\ \A i \in 1 .. b.read : i <= Len(m) => m[i] = b.mem[i]
  BY StorageKeeps
<1>2. b.read + k <= Len(m)
  BY BufferFields, <1>1, SizeMaxAssumption DEF InStorage
<1>3. r = [b EXCEPT !.mem = t, !.read = b.read + k]
  BY DEF Received
<1> HIDE DEF m, r
<1>4. t \in [1 .. Len(m) -> Cell]
  <2> SUFFICES ASSUME NEW i \in 1 .. Len(m)
               PROVE  (IF b.read < i /\ i <= b.read + k
                       THEN s[p + i - b.read] ELSE m[i]) \in Cell
    OBVIOUS
  <2>1. CASE b.read < i /\ i <= b.read + k
    <3>1. p + i - b.read \in 1 .. Len(s)
      BY <2>1, <1>1, BufferFields
    <3> QED BY <2>1, <3>1
  <2>2. CASE ~(b.read < i /\ i <= b.read + k)
    BY <2>2, <1>1
  <2> QED BY <2>1, <2>2
<1>5. t \in Seq(Cell) /\ Len(t) = Len(m)
  BY <1>1, <1>4, FunctionIsSeq
<1>6. \A i \in 1 .. b.read : t[i] = b.mem[i]
  BY <1>1, <1>2, BufferFields
<1>7. \A i \in 1 .. k : t[b.read + i] = s[p + i]
  <2> SUFFICES ASSUME NEW i \in 1 .. k
               PROVE  t[b.read + i] = s[p + i]
    OBVIOUS
  <2>1. b.read + i \in 1 .. Len(m)
    BY <1>1, <1>2, BufferFields
  <2>2. p + (b.read + i) - b.read = p + i
    BY BufferFields
  <2>3. b.read < b.read + i /\ b.read + i <= b.read + k
    BY BufferFields
  <2> QED BY <2>1, <2>2, <2>3
<1> HIDE DEF t
<1>8. r \in Buffer /\ r.mem = t /\ r.read = b.read + k
      /\ r.parsed = b.parsed /\ r.written = b.written /\ r.nms = b.nms
  <2> DEFINE c == [b EXCEPT !.mem = t]
  <2>1. c \in Buffer /\ c.mem = t /\ c.read = b.read
        /\ c.parsed = b.parsed /\ c.written = b.written /\ c.nms = b.nms
    BY <1>5 DEF Buffer
  <2>2. r = [c EXCEPT !.read = b.read + k]
    BY <1>3
  <2>3. b.read + k \in Nat
    BY BufferFields
  <2> HIDE DEF c
  <2> QED BY <2>1, <2>2, <2>3 DEF Buffer
<1>9. Counted(r)
  BY <1>1, <1>2, <1>5, <1>8, BufferFields DEF Counted
<1> QED BY <1>6, <1>7, <1>8, <1>9 DEF r

(* markMessageParsed under its assertions moves the mark, nothing else.    *)
LEMMA MessageParsedKeeps ==
  ASSUME NEW b \in Buffer, Counted(b), MarkAsserts(b)
  PROVE  LET r == MessageParsed(b)
         IN  /\ r \in Buffer
             /\ Counted(r)
             /\ r.mem = b.mem /\ r.read = b.read /\ r.written = b.written
             /\ r.parsed = b.parsed + b.nms /\ r.nms = UNKNOWN_SZ
<1> DEFINE c == [b EXCEPT !.parsed = b.parsed + b.nms]
           r == MessageParsed(b)
<1>1. b.parsed + b.nms \in Nat
  BY BufferFields
<1>2. c \in Buffer /\ c.mem = b.mem /\ c.read = b.read /\ c.nms = b.nms
      /\ c.written = b.written /\ c.parsed = b.parsed + b.nms
  BY <1>1 DEF Buffer
<1>3. r = [c EXCEPT !.nms = UNKNOWN_SZ]
  BY DEF MessageParsed
<1>4. UNKNOWN_SZ \in 0 .. SIZE_MAX
  BY SizeMaxAssumption DEF UNKNOWN_SZ
<1> HIDE DEF c, r
<1>5. r \in Buffer /\ r.mem = b.mem /\ r.read = b.read
      /\ r.written = b.written /\ r.parsed = b.parsed + b.nms
      /\ r.nms = UNKNOWN_SZ
  BY <1>2, <1>3, <1>4 DEF Buffer
<1>6. Counted(r)
  BY <1>5, BufferFields DEF Counted, MarkAsserts, Size
<1> QED BY <1>5, <1>6 DEF r

(* A write of a buffer in which everything is parsed leaves it empty.      *)
LEMMA WrittenClears ==
  ASSUME NEW b \in Buffer, Counted(b), Unparsed(b) = 0
  PROVE  LET r == Written(b)
         IN  /\ r \in Buffer
             /\ Counted(r)
             /\ r.read = 0 /\ r.parsed = 0 /\ r.written = 0
<1> DEFINE w1 == [b EXCEPT !.written = b.written + b.parsed]
           w  == [w1 EXCEPT !.parsed = 0]
<1>1. w1 \in Buffer /\ w1.mem = b.mem /\ w1.read = b.read
      /\ w1.written = b.written + b.parsed
  BY BufferFields DEF Buffer
<1> HIDE DEF w1
<1>2. w \in Buffer /\ w.mem = b.mem /\ w.read = b.read
      /\ w.written = b.written + b.parsed
  BY <1>1 DEF Buffer
<1> HIDE DEF w
<1>3. w.written = w.read
  BY <1>2, BufferFields DEF Unparsed, Size
<1>4. Written(b) = Cleared(w)
  BY <1>3 DEF Written, w, w1
<1> DEFINE c1 == [w EXCEPT !.read = 0]
           c2 == [c1 EXCEPT !.parsed = 0]
           c3 == [c2 EXCEPT !.written = 0]
           c4 == [c3 EXCEPT !.nms = UNKNOWN_SZ]
<1>5. UNKNOWN_SZ \in 0 .. SIZE_MAX
  BY SizeMaxAssumption DEF UNKNOWN_SZ
<1>6. Cleared(w) = c4
  BY DEF Cleared
<1>7. c1 \in Buffer /\ c1.read = 0
  BY <1>2 DEF Buffer
<1> HIDE DEF c1
<1>8. c2 \in Buffer /\ c2.read = 0 /\ c2.parsed = 0
  BY <1>7 DEF Buffer
<1> HIDE DEF c2
<1>9. c3 \in Buffer /\ c3.read = 0 /\ c3.parsed = 0 /\ c3.written = 0
  BY <1>8 DEF Buffer
<1> HIDE DEF c3
<1>10. c4 \in Buffer /\ c4.read = 0 /\ c4.parsed = 0 /\ c4.written = 0
  BY <1>5, <1>9 DEF Buffer
<1> HIDE DEF c4
<1>11. Counted(c4)
  BY <1>10, BufferFields DEF Counted
<1> QED BY <1>4, <1>6, <1>10, <1>11

(* Continuing a sequence keeps it and appends what it is continued with.   *)
LEMMA ContinuedIsSeq ==
  ASSUME NEW s \in Seq(Cell), NEW m \in Seq(Cell), NEW p \in Nat,
         NEW k \in Nat, p + k <= Len(m)
  PROVE  /\ Continued(s, m, p, k) \in Seq(Cell)
         /\ Len(Continued(s, m, p, k)) = Len(s) + k
<1> DEFINE c == Continued(s, m, p, k)
<1>1. c \in [1 .. (Len(s) + k) -> Cell]
  <2> SUFFICES ASSUME NEW i \in 1 .. (Len(s) + k)
               PROVE  (IF i <= Len(s) THEN s[i] ELSE m[p + i - Len(s)]) \in Cell
    BY DEF Continued
  <2>1. CASE i <= Len(s)
    BY <2>1
  <2>2. CASE ~(i <= Len(s))
    <3>1. p + i - Len(s) \in 1 .. Len(m)
      BY <2>2
    <3> QED BY <2>2, <3>1
  <2> QED BY <2>1, <2>2
<1>2. Len(s) + k \in Nat
  OBVIOUS
<1> HIDE DEF c
<1>3. c \in Seq(Cell) /\ Len(c) = Len(s) + k
  BY <1>1, <1>2, FunctionIsSeq
<1> QED BY <1>3 DEF c

LEMMA ContinuedKeeps ==
  ASSUME NEW s \in Seq(Cell), NEW m \in Seq(Cell), NEW p \in Nat,
         NEW k \in Nat, p + k <= Len(m)
  PROVE  /\ Len(Continued(s, m, p, k)) = Len(s) + k
         /\ \A i \in 1 .. Len(s) : Continued(s, m, p, k)[i] = s[i]
         /\ \A i \in 1 .. k : Continued(s, m, p, k)[Len(s) + i] = m[p + i]
<1>1. Len(Continued(s, m, p, k)) = Len(s) + k
  BY ContinuedIsSeq
<1>2. \A i \in 1 .. Len(s) : Continued(s, m, p, k)[i] = s[i]
  BY DEF Continued
<1>3. \A i \in 1 .. k : Continued(s, m, p, k)[Len(s) + i] = m[p + i]
  <2> SUFFICES ASSUME NEW i \in 1 .. k
               PROVE  Continued(s, m, p, k)[Len(s) + i] = m[p + i]
    OBVIOUS
  <2>1. Len(s) + i \in 1 .. (Len(s) + k) /\ ~(Len(s) + i <= Len(s))
    OBVIOUS
  <2>2. p + (Len(s) + i) - Len(s) = p + i
    OBVIOUS
  <2> QED BY <2>1, <2>2 DEF Continued
<1> QED BY <1>1, <1>2, <1>3

=============================================================================
