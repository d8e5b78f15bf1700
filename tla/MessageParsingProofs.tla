------------------------ MODULE MessageParsingProofs ------------------------
(***************************************************************************)
(* What MessageParsing's invariants say, proved for lists and strings of   *)
(* all lengths. A walk is sound up to a place when no assertion has failed *)
(* and nothing behind that place was read; every step of MessageWalk keeps *)
(* it sound if the message has room. What a peer sends has, by the sizes   *)
(* in the modules of encodings, exactly the room that the parse function   *)
(* of its kind walks through, or it misleads the walk, which then ends     *)
(* elsewhere or fails an assertion: it is Right. This is shown by shapes   *)
(* (a structure alone, a string, a list with a count, a list till the end, *)
(* two lists, ...), kind by kind, and by induction along the screens and   *)
(* depths of an Acceptance. With the assertions about the values that are  *)
(* formatted, the message is Judged: it is parsed if and only if it has no *)
(* defect. The inductive invariant says of the message in the buffer that  *)
(* it is judged, and of the walk that it is the message's.                 *)
(***************************************************************************)
EXTENDS MessageParsing, MessageWalk, FiniteSetTheorems,
        WellFoundedInduction, TLAPS

-----------------------------------------------------------------------------
(* Padding and units                                                       *)

(* Padding adds at most 3 bytes, up to a whole number of units.            *)
LEMMA PadFacts ==
  ASSUME NEW n \in Nat
  PROVE  Pad(n) \in Nat /\ n <= Pad(n) /\ Pad(n) <= n + 3 /\ Pad(n) % 4 = 0
  BY DEF Pad, ALIGN

(* What fills whole units is not padded.                                   *)
LEMMA PadOfAligned ==
  ASSUME NEW n \in Nat, n % 4 = 0
  PROVE  Pad(n) = n
  BY DEF Pad, ALIGN

(* Whole units in front of it do not change the padding.                   *)
LEMMA PadBehindAligned ==
  ASSUME NEW a \in Nat, a % 4 = 0, NEW n \in Nat
  PROVE  Pad(a + n) = a + Pad(n)
  BY DEF Pad, ALIGN

(* What is longer is not shorter when it is padded.                        *)
LEMMA PadMonotonic ==
  ASSUME NEW n \in Nat, NEW p \in Nat, n <= p
  PROVE  Pad(n) <= Pad(p)
  BY DEF Pad, ALIGN

(* The number of units, as a length field has it                           *)
LEMMA UnitsOfAligned ==
  ASSUME NEW n \in Nat, n % 4 = 0
  PROVE  Units(n) \in Nat /\ Units(n) = n \div 4 /\ 4 * Units(n) = n
<1>1. Pad(n) = n
  BY DEF Pad, ALIGN
<1>2. n \div 4 \in Nat /\ 4 * (n \div 4) = n
  OBVIOUS
<1> QED
  BY <1>1, <1>2 DEF Units, ALIGN

-----------------------------------------------------------------------------
Walks == [at : Int, ok : BOOLEAN, reach : Int, logged : Int]

(* What a list's count of 16 bits holds.                                   *)
Short(ct) == ct \in Nat /\ ct < 65536

Sound(w, a, l) ==
  w \in Walks /\ w.ok = TRUE /\ w.at = a /\ w.reach <= a /\ w.logged = l

(* A walk starts soundly when its structure lies within the message.       *)
LEMMA StartSound ==
  ASSUME NEW m, m.sz \in Nat, NEW e \in Nat, e <= m.sz
  PROVE  Sound(Start(e, m), e, 0)
<1>1. (m.sz >= e) = TRUE
  OBVIOUS
<1>2. Start(e, m) = [at |-> e, ok |-> TRUE, reach |-> e, logged |-> 0]
  BY <1>1, Zenon DEF Start
<1> QED
  BY <1>2 DEF Sound, Walks

(* An assertion changes nothing but ok.                                    *)
LEMMA AssertingType ==
  ASSUME NEW w \in Walks, NEW c \in BOOLEAN
  PROVE  /\ Asserting(w, c) \in Walks
         /\ Asserting(w, c).at = w.at
         /\ Asserting(w, c).reach = w.reach
         /\ Asserting(w, c).logged = w.logged
         /\ Asserting(w, c).ok <=> w.ok /\ c
<1> DEFINE b == (w.ok /\ c)
<1>1. b \in BOOLEAN
  BY Zenon DEF Walks
<1>2. Asserting(w, c) = [w EXCEPT !.ok = b]
  BY Zenon DEF Asserting
<1>3. [w EXCEPT !.ok = b].ok <=> w.ok /\ c
  BY Zenon DEF Walks
<1> HIDE DEF b
<1> QED
  BY <1>1, <1>2, <1>3, SMT DEF Walks

(* An assertion that holds leaves a walk sound.                            *)
LEMMA AssertingSound ==
  ASSUME NEW w, NEW a \in Nat, NEW l \in Nat, Sound(w, a, l),
         NEW c \in BOOLEAN, c
  PROVE  Sound(Asserting(w, c), a, l)
<1>1. Asserting(w, c).ok
  BY AssertingType, Zenon DEF Sound
<1> QED
  BY <1>1, AssertingType DEF Sound, Walks

(* Bytes that are skipped leave a walk sound.                              *)
LEMMA UnparsedSound ==
  ASSUME NEW w, NEW a \in Nat, NEW l \in Nat, Sound(w, a, l), NEW len \in Nat
  PROVE  Sound(Unparsed(w, len), a + len, l)
<1>1. w \in Walks /\ w.at = a /\ w.reach <= a /\ w.ok = TRUE /\ w.logged = l
  BY DEF Sound
<1> DEFINE r == Further(w, w.at + len)
<1>2. r \in Int /\ r <= a + len
  BY <1>1 DEF Walks, Further
<1> DEFINE moved == [w EXCEPT !.at = w.at + len]
<1>3. Unparsed(w, len) = [moved EXCEPT !.reach = r]
  BY DEF Unparsed
<1>4. /\ moved \in Walks /\ moved.at = a + len /\ moved.ok = TRUE
      /\ moved.logged = l
  BY <1>1 DEF Walks
<1> HIDE DEF r, moved
<1> QED
  BY <1>2, <1>3, <1>4 DEF Sound, Walks

(* So does a string, all characters of which are logged.                   *)
LEMMA String8Sound ==
  ASSUME NEW w, NEW a \in Nat, NEW l \in Nat, Sound(w, a, l), NEW len \in Nat
  PROVE  Sound(String8(w, len), a + Pad(len), l + len)
<1> DEFINE u == Unparsed(w, Pad(len))
<1>1. Sound(u, a + Pad(len), l)
  BY UnparsedSound, PadFacts
<1>2. String8(w, len) = [u EXCEPT !.logged = w.logged + len]
  BY DEF String8
<1> HIDE DEF u
<1> QED
  BY <1>1, <1>2, PadFacts DEF Sound, Walks

(* Where a list ends, whatever its count, and what its members have        *)
(* asserted                                                                *)
LEMMA ListType ==
  ASSUME NEW w \in Walks, NEW sz \in Int, NEW ct \in Int, NEW memb_sz \in Nat
  PROVE  /\ List(w, sz, ct, memb_sz) \in Walks
         /\ List(w, sz, ct, memb_sz).at = w.at + (ct % 65536) * memb_sz
         /\ List(w, sz, ct, memb_sz).ok =>
              w.ok /\ sz >= 0 /\ (ct % 65536) * memb_sz <= sz
<1> DEFINE c == ct % 65536
           bytes == c * memb_sz
           ok == w.ok /\ sz >= 0 /\ bytes <= sz
<1>1. c \in Nat
  OBVIOUS
<1>2. List(w, sz, ct, memb_sz) = 
       [at |-> w.at + bytes, ok |-> ok,
        reach |-> Further(w, w.at + bytes), logged |-> w.logged + c]
  BY DEF List
<1> HIDE DEF c
<1>3. bytes \in Nat
  BY <1>1
<1> HIDE DEF bytes
<1>4. ok \in BOOLEAN
  BY Zenon DEF Walks
<1>5. ok => w.ok /\ sz >= 0 /\ bytes <= sz
  BY Zenon
<1> HIDE DEF ok
<1>6. /\ List(w, sz, ct, memb_sz) \in Walks
      /\ List(w, sz, ct, memb_sz).at = w.at + bytes
      /\ List(w, sz, ct, memb_sz).ok = ok
  BY <1>1, <1>2, <1>3, <1>4 DEF Walks, Further
<1>7. List(w, sz, ct, memb_sz).ok => w.ok /\ sz >= 0 /\ bytes <= sz
  BY <1>5, <1>6, Zenon
<1> QED
  BY <1>6, <1>7, SMT DEF bytes, c

(* With a count of 16 bits and a size that has room for it, all of the     *)
(* members are logged.                                                     *)
LEMMA ListSound ==
  ASSUME NEW w, NEW a \in Nat, NEW l \in Nat, Sound(w, a, l),
         NEW sz \in Int, NEW ct \in Nat, Short(ct), NEW memb_sz \in Nat,
         ct * memb_sz <= sz
  PROVE  Sound(List(w, sz, ct, memb_sz), a + ct * memb_sz, l + ct)
<1> DEFINE bytes == ct * memb_sz
           ok == w.ok /\ sz >= 0 /\ bytes <= sz
<1>1. ct % 65536 = ct
  BY DEF Short
<1>2. bytes \in Nat
  OBVIOUS
<1>3. List(w, sz, ct, memb_sz) = 
       [at |-> w.at + bytes, ok |-> ok,
        reach |-> Further(w, w.at + bytes), logged |-> w.logged + ct]
  BY <1>1 DEF List
<1>4. sz >= 0 /\ bytes <= sz
  BY <1>2
<1>5. ok = TRUE
  BY <1>4, Zenon DEF Sound
<1> HIDE DEF bytes, ok
<1>6. Sound(List(w, sz, ct, memb_sz), a + bytes, l + ct)
  BY <1>2, <1>3, <1>5 DEF Sound, Walks, Further
<1> QED
  BY <1>6 DEF bytes

(* The same for a list with padding behind it                              *)
LEMMA PaddedListSound ==
  ASSUME NEW w, NEW a \in Nat, NEW l \in Nat, Sound(w, a, l),
         NEW sz \in Int, NEW ct \in Nat, Short(ct), NEW memb_sz \in Nat,
         ct * memb_sz <= sz
  PROVE  Sound(PaddedList(w, sz, ct, memb_sz), a + Pad(ct * memb_sz), l + ct)
<1> DEFINE list == List(w, sz, ct, memb_sz)
           bytes == ct * memb_sz
<1>1. Sound(list, a + bytes, l + ct)
  BY ListSound
<1>2. bytes \in Nat
  OBVIOUS
<1>3. PaddedList(w, sz, ct, memb_sz) = [list EXCEPT !.at = w.at + Pad(list.at - w.at)]
  BY DEF PaddedList
<1> HIDE DEF list, bytes
<1>4. list.at - w.at = bytes /\ w.at = a
  BY <1>1, <1>2 DEF Sound, Walks
<1>5. Sound(PaddedList(w, sz, ct, memb_sz), a + Pad(bytes), l + ct)
  BY <1>1, <1>2, <1>3, <1>4, PadFacts DEF Sound, Walks
<1> QED
  BY <1>5 DEF bytes

(* Where a padded list ends                                                *)
LEMMA PaddedListType ==
  ASSUME NEW w \in Walks, NEW sz \in Int, NEW ct \in Int, NEW memb_sz \in Nat
  PROVE  /\ PaddedList(w, sz, ct, memb_sz) \in Walks
         /\ PaddedList(w, sz, ct, memb_sz).at
              = w.at + Pad((ct % 65536) * memb_sz)
         /\ PaddedList(w, sz, ct, memb_sz).ok =>
              w.ok /\ sz >= 0 /\ (ct % 65536) * memb_sz <= sz
<1> DEFINE list == List(w, sz, ct, memb_sz)
           bytes == (ct % 65536) * memb_sz
<1>1. /\ list \in Walks /\ list.at = w.at + bytes
      /\ list.ok => w.ok /\ sz >= 0 /\ bytes <= sz
  BY ListType
<1>2. bytes \in Nat
  <2>1. ct % 65536 \in Nat
    OBVIOUS
  <2> QED
    BY <2>1
<1>3. PaddedList(w, sz, ct, memb_sz) = [list EXCEPT !.at = w.at + Pad(list.at - w.at)]
  BY DEF PaddedList
<1> HIDE DEF list, bytes
<1>4. list.at - w.at = bytes
  BY <1>1, <1>2 DEF Walks
<1>5. /\ PaddedList(w, sz, ct, memb_sz) \in Walks
      /\ PaddedList(w, sz, ct, memb_sz).at = w.at + Pad(bytes)
      /\ PaddedList(w, sz, ct, memb_sz).ok = list.ok
  BY <1>1, <1>2, <1>3, <1>4, PadFacts DEF Walks
<1>6. PaddedList(w, sz, ct, memb_sz).ok => w.ok /\ sz >= 0 /\ bytes <= sz
  BY <1>1, <1>5, Zenon
<1> QED
  BY <1>5, <1>6, SMT DEF bytes
-----------------------------------------------------------------------------
(* What the invariants say of a message and its walk.                      *)

Ends(m, w) == w.ok /\ w.at = m.sz

Right(m, w) ==
  /\ m.sz \in Nat /\ m.sz % 4 = 0
  /\ w \in Walks
  /\ Ends(m, w) <=> ~Misled(m)
  /\ Ends(m, w) =>
       /\ \/ w.logged = MembersOf(m)
          \/ LostItems(m) /\ w.logged < MembersOf(m)
       /\ w.reach <= m.sz + (IF m.kind \in ReqEnc!Texts THEN 1 ELSE 0)

Aligned(m) == m.sz \in Nat /\ m.sz % 4 = 0

Astray(m, w) == w \in Walks /\ ~Ends(m, w)

(* The same, with the assertions about the values that are formatted       *)
Judged(m, w) ==
  /\ m.sz \in Nat
  /\ w \in Walks
  /\ Ends(m, w) <=> ~Defect(m)
  /\ Ends(m, w) =>
       /\ \/ w.logged = MembersOf(m)
          \/ LostItems(m) /\ w.logged < MembersOf(m)
       /\ w.reach <= m.sz + (IF m.kind \in ReqEnc!Texts THEN 1 ELSE 0)

(* They stop the messages whose values are disordered, and change nothing  *)
(* for the others.                                                         *)
LEMMA RightIsJudged ==
  ASSUME NEW m, m.swap \in BOOLEAN, m.stray \in BOOLEAN,
         NEW w, Right(m, w), WalkOf(m) = Step!Formatted(m, w)
  PROVE  Judged(m, WalkOf(m))
<1> DEFINE c == ~(m.swap /\ m.stray)
           f == Asserting(w, c)
<1>1. WalkOf(m) = f
  BY Zenon DEF Step!Formatted, Step!Asserting, Asserting
<1>2. c \in BOOLEAN /\ (c <=> ~Disordered(m))
  BY Zenon DEF Disordered
<1>3. w \in Walks
  BY Zenon DEF Right
<1> HIDE DEF c
<1>4. /\ f \in Walks /\ f.at = w.at /\ (f.ok <=> w.ok /\ c)
      /\ f.reach = w.reach /\ f.logged = w.logged
  BY <1>2, <1>3, Zenon DEF Asserting, Walks
<1> HIDE DEF f
<1>5. Ends(m, f) <=> Ends(m, w) /\ ~Disordered(m)
  BY <1>2, <1>4, Zenon DEF Ends
<1>6. Ends(m, f) <=> ~Defect(m)
  BY <1>5, Zenon DEF Right, Defect
<1> QED
  BY <1>1, <1>4, <1>5, <1>6, Zenon DEF Right, Judged

(* A walk to the end that logs every member is what a message that does    *)
(* not mislead it needs.                                                   *)
LEMMA SoundIsRight ==
  ASSUME NEW m, Aligned(m), NEW w, NEW l \in Nat, Sound(w, m.sz, l),
         l = MembersOf(m), ~Misled(m)
  PROVE  Right(m, w)
<1>1. w \in Walks /\ w.ok = TRUE /\ w.at = m.sz /\ w.logged = MembersOf(m)
  BY DEF Sound
<1>2. Ends(m, w)
  BY <1>1, Zenon DEF Ends
<1>3. w.reach <= m.sz + (IF m.kind \in ReqEnc!Texts THEN 1 ELSE 0)
  BY DEF Sound, Walks, Aligned
<1> QED
  BY <1>1, <1>2, <1>3, Zenon DEF Right, Aligned

(* A message that misleads has to be walked otherwise than to its end.     *)
LEMMA AstrayIsRight ==
  ASSUME NEW m, Aligned(m), NEW w, Astray(m, w), Misled(m)
  PROVE  Right(m, w)
  BY Zenon DEF Right, Aligned, Astray

(* A failed assertion on the way, and a walk that ends elsewhere           *)
LEMMA AstrayElsewhere ==
  ASSUME NEW m, NEW w \in Walks, w.at # m.sz
  PROVE  Astray(m, w)
  BY Zenon DEF Astray, Ends

(* An assertion has failed.                                                *)
LEMMA AstrayStopped ==
  ASSUME NEW m, NEW w \in Walks, ~w.ok
  PROVE  Astray(m, w)
  BY Zenon DEF Astray, Ends

(* What is astray stays so, whatever is asserted.                          *)
LEMMA AstrayAsserting ==
  ASSUME NEW m, NEW w, Astray(m, w), NEW c \in BOOLEAN
  PROVE  Astray(m, Asserting(w, c))
<1>1. w \in Walks
  BY DEF Astray
<1>2. /\ Asserting(w, c) \in Walks
      /\ Asserting(w, c).at = w.at
      /\ Asserting(w, c).ok => w.ok
  BY <1>1, AssertingType, Zenon
<1> QED
  BY <1>2, Zenon DEF Astray, Ends

-----------------------------------------------------------------------------
(* Requests: the steps that their parse functions share                    *)

(* The steps of the requests' parse functions are those of MessageWalk.    *)
LEMMA RequestSteps ==
  /\ \A w, c : ReqParse!Asserting(w, c) = Asserting(w, c)
  /\ \A w, len : ReqParse!Unparsed(w, len) = Unparsed(w, len)
  /\ \A w, len : ReqParse!String8(w, len) = String8(w, len)
  /\ \A w, sz, ct, memb_sz :
       ReqParse!List(w, sz, ct, memb_sz) = List(w, sz, ct, memb_sz)
  /\ \A w, sz, ct, memb_sz :
       ReqParse!PaddedList(w, sz, ct, memb_sz) = PaddedList(w, sz, ct, memb_sz)
  /\ \A w, sz, memb_sz : ReqParse!ListTillEnd(w, sz, memb_sz)
       = PaddedList(w, sz, sz \div memb_sz, memb_sz)
  /\ \A m, size : ReqParse!Start(size, m) = Start(size, m)
  /\ \A n : ReqParse!Pad(n) = Pad(n) /\ ReqParse!Units(n) = Units(n)
<1>1. \A n : ReqParse!Pad(n) = Pad(n) /\ ReqParse!Units(n) = Units(n)
  BY Zenon DEF ReqParse!Pad, Pad, ReqParse!Units, Units, ReqParse!ALIGN, ALIGN
<1>2. \A w, end : ReqParse!Further(w, end) = Further(w, end)
  BY Zenon DEF ReqParse!Further, Further
<1>3. \A w, len : ReqParse!Unparsed(w, len) = Unparsed(w, len)
  BY <1>2, Zenon DEF ReqParse!Unparsed, Unparsed
<1>4. \A w, len : ReqParse!String8(w, len) = String8(w, len)
  BY <1>1, <1>3, Zenon DEF ReqParse!String8, String8
<1>5. \A w, sz, ct, memb_sz :
        ReqParse!List(w, sz, ct, memb_sz) = List(w, sz, ct, memb_sz)
  BY <1>2, SMT DEF ReqParse!List, List
<1>6. \A w, sz, ct, memb_sz :
       ReqParse!PaddedList(w, sz, ct, memb_sz) = PaddedList(w, sz, ct, memb_sz)
  BY <1>1, <1>5, Zenon DEF ReqParse!PaddedList, PaddedList
<1>7. \A w, sz, memb_sz : ReqParse!ListTillEnd(w, sz, memb_sz)
        = PaddedList(w, sz, sz \div memb_sz, memb_sz)
  BY <1>6, Zenon DEF ReqParse!ListTillEnd
<1>8. /\ \A w, c : ReqParse!Asserting(w, c) = Asserting(w, c)
      /\ \A m, size : ReqParse!Start(size, m) = Start(size, m)
  BY Zenon DEF ReqParse!Asserting, Asserting, ReqParse!Start, Start
<1> QED
  BY <1>1, <1>3, <1>4, <1>5, <1>6, <1>7, <1>8

Prefix(m) == IF m.big THEN 8 ELSE 4

(* A request that has s bytes after its length field                       *)
Sized(m, s) ==
  /\ m.big \in BOOLEAN /\ m.enabled \in BOOLEAN /\ (m.big => m.enabled)
  /\ m.swap \in BOOLEAN /\ m.stray \in BOOLEAN
  /\ s \in Nat /\ s % 4 = 0
  /\ m.sz = Prefix(m) + s

(* What the length field of a request has                                  *)
LEMMA RequestSize ==
  ASSUME NEW m, NEW s, Sized(m, s)
  PROVE  /\ Prefix(m) \in Nat /\ Prefix(m) % 4 = 0 /\ Prefix(m) >= 4 /\ Prefix(m) <= 8
         /\ s \in Nat /\ s % 4 = 0 /\ m.sz = Prefix(m) + s
         /\ Aligned(m)
         /\ 4 * ReqParse!TlUnits(m) = m.sz
         /\ ReqParse!TlUnits(m) = Units(m.sz)
<1>1. Prefix(m) \in Nat /\ Prefix(m) % 4 = 0 /\ Prefix(m) >= 4 /\ Prefix(m) <= 8
  BY DEF Prefix
<1>2. s \in Nat /\ s % 4 = 0 /\ m.sz = Prefix(m) + s
  BY DEF Sized
<1>3. Aligned(m)
  BY <1>1, <1>2 DEF Aligned
<1>4. /\ Units(m.sz) = m.sz \div 4 /\ 4 * Units(m.sz) = m.sz
      /\ ReqParse!TlUnits(m) = m.sz \div 4
  BY <1>3, UnitsOfAligned DEF ReqParse!TlUnits, ReqParse!ALIGN, Aligned
<1> QED
  BY <1>1, <1>2, <1>3, <1>4

(* What the length field leaves behind a fixed part of e bytes             *)
LEMMA RequestRest ==
  ASSUME NEW m, NEW s, Sized(m, s), NEW e \in Nat
  PROVE  /\ ReqParse!FixedSize(m, e) = Prefix(m) + e
         /\ ReqParse!Size(ReqParse!TlUnits(m)) = m.sz
         /\ ReqParse!Rest(m, e) = s - e
<1>1. ReqParse!FixedSize(m, e) = Prefix(m) + e
  BY DEF ReqParse!FixedSize, Prefix
<1>2. /\ Prefix(m) \in Nat /\ s \in Nat /\ m.sz = Prefix(m) + s
      /\ ReqParse!TlUnits(m) * 4 = m.sz
  <2>1. ReqParse!TlUnits(m) \in Nat
    BY RequestSize DEF ReqParse!TlUnits, ReqParse!ALIGN, Aligned
  <2> QED
    BY <2>1, RequestSize
<1>3. ReqParse!Size(ReqParse!TlUnits(m)) = m.sz
  BY <1>2 DEF ReqParse!Size, ReqParse!ALIGN
<1>4. ReqParse!Rest(m, e) = m.sz - (Prefix(m) + e)
  BY <1>1, <1>3, Zenon DEF ReqParse!Rest
<1> QED
  BY <1>1, <1>2, <1>3, <1>4

(* The fixed part is walked, unless BIG-REQUESTS is used without leave.    *)
LEMMA RequestStart ==
  ASSUME NEW m, NEW s, Sized(m, s), NEW e \in Nat, e <= s
  PROVE  Sound(ReqParse!FixedEncoding(m, e), Prefix(m) + e, 0)
<1>1. /\ Prefix(m) + e \in Nat /\ Prefix(m) + e <= m.sz /\ m.sz \in Nat
  <2>1. Prefix(m) \in Nat /\ s \in Nat /\ m.sz = Prefix(m) + s
    BY RequestSize
  <2> QED
    BY <2>1
<1>2. Sound(Start(Prefix(m) + e, m), Prefix(m) + e, 0)
  BY <1>1, StartSound
<1> DEFINE c == m.big => m.enabled
<1>3. c \in BOOLEAN /\ c
  BY Zenon DEF Sized
<1>4. ReqParse!FixedEncoding(m, e) = Asserting(Start(Prefix(m) + e, m), c)
  BY RequestSteps, RequestRest, Zenon DEF ReqParse!FixedEncoding
<1> HIDE DEF c
<1> QED
  BY <1>1, <1>2, <1>3, <1>4, AssertingSound

(* The assertions about the length field hold for what was walked to the   *)
(* end.                                                                    *)
LEMMA RequestEnds ==
  ASSUME NEW m, NEW s, Sized(m, s), NEW w, NEW l \in Nat, Sound(w, m.sz, l)
  PROVE  /\ Sound(ReqParse!Exact(m, w), m.sz, l)
         /\ Sound(ReqParse!Loose(m, w), m.sz, l)
<1> DEFINE c == ReqParse!TlUnits(m) = Units(w.at)
           d == m.big \/ c
<1>1. m.sz \in Nat /\ ReqParse!TlUnits(m) = Units(m.sz)
  <2>1. Aligned(m)
    BY RequestSize
  <2> QED
    BY <2>1, RequestSize DEF Aligned
<1>2. w.at = m.sz
  BY DEF Sound
<1>3. c \in BOOLEAN /\ c /\ d \in BOOLEAN /\ d
  BY <1>1, <1>2, Zenon
<1>4. /\ ReqParse!Exact(m, w) = Asserting(w, c)
      /\ ReqParse!Loose(m, w) = Asserting(w, d)
  BY RequestSteps, Zenon DEF ReqParse!Exact, ReqParse!Loose
<1> HIDE DEF c, d
<1> QED
  BY <1>1, <1>3, <1>4, AssertingSound

(* They do not bring back what is astray.                                  *)
LEMMA RequestAstray ==
  ASSUME NEW m, NEW s, Sized(m, s), NEW w, Astray(m, w)
  PROVE  /\ Astray(m, ReqParse!Exact(m, w))
         /\ Astray(m, ReqParse!Loose(m, w))
<1> DEFINE c == ReqParse!TlUnits(m) = Units(w.at)
           d == m.big \/ c
<1>1. c \in BOOLEAN /\ d \in BOOLEAN
  BY Zenon
<1>2. /\ ReqParse!Exact(m, w) = Asserting(w, c)
      /\ ReqParse!Loose(m, w) = Asserting(w, d)
  BY RequestSteps, Zenon DEF ReqParse!Exact, ReqParse!Loose
<1> HIDE DEF c, d
<1> QED
  BY <1>1, <1>2, AstrayAsserting

(* A request that is walked to its end as it should be                     *)
LEMMA RequestRight ==
  ASSUME NEW m, NEW s, Sized(m, s), NEW w, NEW l \in Nat, Sound(w, m.sz, l),
         l = MembersOf(m), ~Misled(m)
  PROVE  Right(m, ReqParse!Exact(m, w)) /\ Right(m, ReqParse!Loose(m, w))
  BY RequestSize, RequestEnds, SoundIsRight

(* A request that misleads and is not walked to its end                    *)
LEMMA RequestWrong ==
  ASSUME NEW m, NEW s, Sized(m, s), NEW w, Astray(m, w), Misled(m)
  PROVE  Right(m, ReqParse!Exact(m, w)) /\ Right(m, ReqParse!Loose(m, w))
  BY RequestSize, RequestAstray, AstrayIsRight

(* r bytes behind a fixed part of e bytes                                  *)
LEMMA RequestFixed ==
  ASSUME NEW m, NEW e \in Nat, NEW r \in Nat, Sized(m, e + r)
  PROVE  /\ Sound(ReqParse!FixedEncoding(m, e), Prefix(m) + e, 0)
         /\ ReqParse!FixedSize(m, e) = Prefix(m) + e
         /\ ReqParse!Rest(m, e) = r
         /\ Prefix(m) + e \in Nat
         /\ m.sz = (Prefix(m) + e) + r
         /\ m.sz \in Nat
<1> DEFINE s == e + r
<1>1. s \in Nat /\ e <= s /\ s - e = r
  OBVIOUS
<1>2. Sized(m, s)
  OBVIOUS
<1>3. Prefix(m) \in Nat /\ m.sz = Prefix(m) + s
  BY <1>2, RequestSize
<1>4. /\ Prefix(m) + e \in Nat /\ m.sz = (Prefix(m) + e) + r /\ m.sz \in Nat
  BY <1>3
<1> HIDE DEF s
<1>5. /\ Sound(ReqParse!FixedEncoding(m, e), Prefix(m) + e, 0)
      /\ ReqParse!FixedSize(m, e) = Prefix(m) + e
      /\ ReqParse!Rest(m, e) = r
  BY <1>1, <1>2, RequestStart, RequestRest
<1> QED
  BY <1>4, <1>5

-----------------------------------------------------------------------------
(* Requests: the shapes that their parse functions have                    *)

(* Nothing but the fixed part                                              *)
LEMMA FixedShape ==
  ASSUME NEW m, NEW e \in Nat, Sized(m, e), MembersOf(m) = 0, ~Misled(m)
  PROVE  Right(m, ReqParse!Loose(m, ReqParse!FixedEncoding(m, e)))
<1>1. Sound(ReqParse!FixedEncoding(m, e), Prefix(m) + e, 0)
  BY RequestStart
<1>2. m.sz = Prefix(m) + e
  BY DEF Sized
<1> QED
  BY <1>1, <1>2, RequestRight

(* A string behind the fixed part                                          *)
LEMMA StringShape ==
  ASSUME NEW m, NEW e \in Nat, NEW n \in Nat, Sized(m, e + Pad(n)),
         MembersOf(m) = n, ~Misled(m)
  PROVE  Right(m, ReqParse!Loose(m,
                    ReqParse!String8(ReqParse!FixedEncoding(m, e), n)))
<1> DEFINE fe == ReqParse!FixedEncoding(m, e)
           base == Prefix(m) + e
<1>1. Pad(n) \in Nat
  BY PadFacts
<1>2. Sound(fe, base, 0) /\ base \in Nat /\ m.sz = base + Pad(n)
  BY <1>1, RequestFixed
<1>3. ReqParse!String8(fe, n) = String8(fe, n)
  BY RequestSteps
<1> HIDE DEF fe, base
<1>4. Sound(String8(fe, n), base + Pad(n), 0 + n)
  BY <1>2, String8Sound
<1>5. Sound(String8(fe, n), m.sz, n)
  BY <1>2, <1>4
<1> QED
  BY <1>3, <1>5, RequestRight DEF fe

(* A list with a count, padded: sz is what its members have to lie within. *)
LEMMA CountedShape ==
  ASSUME NEW m, NEW e \in Nat, NEW n \in Nat, NEW u \in Nat, NEW sz \in Int,
         n * u <= sz, Sized(m, e + Pad(n * u)),
         Short(n), MembersOf(m) = n, ~Misled(m)
  PROVE  LET w == ReqParse!PaddedList(ReqParse!FixedEncoding(m, e), sz, n, u)
         IN  Right(m, ReqParse!Exact(m, w)) /\ Right(m, ReqParse!Loose(m, w))
<1> DEFINE fe == ReqParse!FixedEncoding(m, e)
           base == Prefix(m) + e
           r == Pad(n * u)
<1>1. r \in Nat
  <2>1. n * u \in Nat
    OBVIOUS
  <2> QED
    BY <2>1, PadFacts
<1>2. Sound(fe, base, 0) /\ base \in Nat /\ m.sz = base + r
  <2> HIDE DEF r
  <2> QED
    BY <1>1, RequestFixed DEF r
<1>3. ReqParse!PaddedList(fe, sz, n, u) = PaddedList(fe, sz, n, u)
  BY RequestSteps
<1> HIDE DEF fe, base
<1>4. Sound(PaddedList(fe, sz, n, u), base + r, 0 + n)
  BY <1>2, PaddedListSound
<1> HIDE DEF r
<1>5. Sound(PaddedList(fe, sz, n, u), m.sz, n)
  BY <1>2, <1>4
<1> QED
  BY <1>3, <1>5, RequestRight DEF fe

(* Values for the bits of a mask                                           *)
LEMMA ValuesShape ==
  ASSUME NEW m, NEW e \in Nat, m.n \in Nat, Sized(m, e + 4 * m.n),
         Short(m.n), MembersOf(m) = m.n, ~Misled(m)
  PROVE  Right(m, ReqParse!Loose(m,
                    ReqParse!Values(m, ReqParse!FixedEncoding(m, e))))
<1> DEFINE fe == ReqParse!FixedEncoding(m, e)
           base == Prefix(m) + e
           r == 4 * m.n
<1>1. r \in Nat /\ m.n * 4 = r
  OBVIOUS
<1>2. Sound(fe, base, 0) /\ base \in Nat /\ m.sz = base + r
  <2> HIDE DEF r
  <2> QED
    BY <1>1, RequestFixed DEF r
<1>3. ReqParse!Values(m, fe) = List(fe, m.sz - fe.at, m.n, 4)
  BY RequestSteps DEF ReqParse!Values, ReqParse!VALUE
<1> HIDE DEF fe, base, r
<1>4. m.sz - fe.at = r
  BY <1>1, <1>2 DEF Sound
<1>5. Sound(List(fe, r, m.n, 4), base + m.n * 4, 0 + m.n)
  <2>1. r \in Int /\ m.n * 4 <= r /\ 0 \in Nat /\ 4 \in Nat
    BY <1>1
  <2> QED
    BY <1>2, <2>1, ListSound
<1>6. Sound(List(fe, r, m.n, 4), m.sz, m.n)
  BY <1>1, <1>2, <1>5
<1>7. Sound(ReqParse!Values(m, fe), m.sz, m.n)
  BY <1>3, <1>4, <1>6
<1>8. Right(m, ReqParse!Loose(m, ReqParse!Values(m, fe)))
  BY <1>7, RequestRight
<1> QED
  BY <1>8 DEF fe

(* A list of members of u bytes that reaches to the end: a count of more   *)
(* than 16 bits is cut, and the walk then ends before the message does.    *)
LEMMA TillEndWalk ==
  ASSUME NEW m, NEW w, NEW base \in Nat, base % 4 = 0, Sound(w, base, 0),
         NEW n \in Nat, NEW u \in {4, 8, 12}, NEW sz \in Int,
         sz \div u = n, n * u <= sz, m.sz = base + n * u
  PROVE  /\ Short(n) => Sound(ReqParse!ListTillEnd(w, sz, u), m.sz, n)
         /\ ~Short(n) => Astray(m, ReqParse!ListTillEnd(w, sz, u))
<1>1. ReqParse!ListTillEnd(w, sz, u) = PaddedList(w, sz, n, u)
  BY RequestSteps
<1>2. u \in Nat
  OBVIOUS
<1>3. ASSUME NEW c \in Nat
      PROVE  c * u \in Nat /\ Pad(c * u) = c * u
  <2>1. c * u \in Nat /\ (c * u) % 4 = 0
    OBVIOUS
  <2> QED
    BY <2>1, PadOfAligned
<1>4. CASE Short(n)
  <2>1. Sound(PaddedList(w, sz, n, u), base + Pad(n * u), 0 + n)
    BY <1>2, <1>4, PaddedListSound
  <2>2. n * u \in Nat /\ Pad(n * u) = n * u
    BY <1>3
  <2> QED
    BY <1>1, <1>4, <2>1, <2>2
<1>5. CASE ~Short(n)
  <2> DEFINE c == n % 65536
  <2>1. c \in Nat /\ c < n
    BY <1>5 DEF Short
  <2>2. c * u \in Nat /\ c * u < n * u
    BY <2>1
  <2>3. /\ PaddedList(w, sz, n, u) \in Walks
        /\ PaddedList(w, sz, n, u).at = base + Pad(c * u)
    BY <1>2, PaddedListType DEF Sound
  <2> HIDE DEF c
  <2>4. Pad(c * u) = c * u
    BY <1>3, <2>1
  <2>5. base + c * u # m.sz
    BY <2>2
  <2> QED
    BY <1>1, <1>5, <2>3, <2>4, <2>5, AstrayElsewhere
<1> QED
  BY <1>4, <1>5

(* A list that takes the rest of the request                               *)
LEMMA TillEndShape ==
  ASSUME NEW m, NEW e \in Nat, e % 4 = 0, NEW n \in Nat, NEW u \in {4, 8, 12},
         Sized(m, e + n * u), MembersOf(m) = n, Misled(m) <=> ~Short(n)
  PROVE  LET w == ReqParse!ListTillEnd(ReqParse!FixedEncoding(m, e),
                                       ReqParse!Rest(m, e), u)
         IN  Right(m, ReqParse!Exact(m, w)) /\ Right(m, ReqParse!Loose(m, w))
<1> DEFINE fe == ReqParse!FixedEncoding(m, e)
           rest == ReqParse!Rest(m, e)
           base == Prefix(m) + e
           r == n * u
<1>1. r \in Nat /\ r \div u = n
  OBVIOUS
<1>2. /\ Sound(fe, base, 0) /\ base \in Nat /\ rest = r
      /\ m.sz = base + r
  <2> HIDE DEF r
  <2> QED
    BY <1>1, RequestFixed DEF r
<1>3. base % 4 = 0
  BY RequestSize
<1> HIDE DEF fe, rest, base
<1>4. /\ Short(n) => Sound(ReqParse!ListTillEnd(fe, rest, u), m.sz, n)
      /\ ~Short(n) => Astray(m, ReqParse!ListTillEnd(fe, rest, u))
  <2>1. /\ rest \in Int /\ rest \div u = n /\ n * u <= rest
        /\ m.sz = base + n * u
    BY <1>1, <1>2
  <2> QED
    BY <1>2, <1>3, <2>1, TillEndWalk
<1> DEFINE w == ReqParse!ListTillEnd(fe, rest, u)
<1>5. Right(m, ReqParse!Exact(m, w)) /\ Right(m, ReqParse!Loose(m, w))
  <2> HIDE DEF w, r
  <2>1. CASE Short(n)
    BY <1>4, <2>1, RequestRight DEF w
  <2>2. CASE ~Short(n)
    BY <1>4, <2>2, RequestWrong DEF w
  <2> QED
    BY <2>1, <2>2
<1> QED
  BY <1>5 DEF fe, rest

-----------------------------------------------------------------------------
(* Requests, kind by kind. m0 is the message before its size is entered.   *)
Sent(m, m0) ==
  /\ m.class = "request" /\ m.kind \in ReqEnc!RequestKinds
  /\ m.n \in Nat /\ m.k \in Nat /\ m.opt \in BOOLEAN
  /\ m.big \in BOOLEAN /\ m.enabled \in BOOLEAN /\ (m.big => m.enabled)
  /\ m.swap \in BOOLEAN /\ m.stray \in BOOLEAN
  /\ m0.kind = m.kind /\ m0.n = m.n /\ m0.k = m.k /\ m0.opt = m.opt
  /\ m.sz = Prefix(m) + ReqEnc!Suffix(m0)
  /\ ReqEnc!CountsFit(m)

(* The suffix of a request is what its length field accounts for.          *)
LEMMA SentSized ==
  ASSUME NEW m, NEW m0, Sent(m, m0), NEW s \in Nat, s % 4 = 0,
         ReqEnc!Suffix(m0) = s
  PROVE  Sized(m, s)
  BY Zenon DEF Sent, Sized

(* Its members are counted by RequestEncodings.                            *)
LEMMA SentMembers ==
  ASSUME NEW m, NEW m0, Sent(m, m0)
  PROVE  MembersOf(m) = ReqEnc!Members(m)
  BY DEF Sent, MembersOf

(* Encodings and parse functions have the same padding.                    *)
LEMMA EncodedPads == \A n : ReqEnc!Pad(n) = Pad(n) /\ RepEnc!Pad(n) = Pad(n)
  BY Zenon DEF ReqEnc!Pad, RepEnc!Pad, Pad, ReqEnc!ALIGN, RepEnc!ALIGN, ALIGN

(* The requests without a list or a string, by the size of their fields    *)
Fixed0a ==
  {"BigReqEnable", "GrabServer", "UngrabServer", "GetInputFocus",
   "QueryKeymap", "GetFontPath"}
Fixed0b ==
  {"ListExtensions", "GetKeyboardControl", "Bell", "GetPointerControl",
   "GetScreenSaver", "ListHosts"}
Fixed0c ==
  {"SetAccessControl", "SetCloseDownMode", "ForceScreenSaver",
   "GetPointerMapping", "GetModifierMapping"}
Fixed4a ==
  {"GetWindowAttributes", "DestroyWindow", "DestroySubwindows",
   "ChangeSaveSet", "MapWindow", "MapSubwindows", "UnmapWindow",
   "UnmapSubwindows"}
Fixed4b ==
  {"CirculateWindow", "GetGeometry", "QueryTree", "GetAtomName",
   "ListProperties", "GetSelectionOwner", "UngrabPointer", "UngrabKeyboard"}
Fixed4c ==
  {"AllowEvents", "QueryPointer", "CloseFont", "QueryFont", "FreePixmap",
   "FreeGC", "FreeColormap", "InstallColormap"}
Fixed4d ==
  {"UninstallColormap", "ListInstalledColormaps", "FreeCursor",
   "GetKeyboardMapping", "KillClient"}
Fixed8a ==
  {"DeleteProperty", "UngrabButton", "UngrabKey", "SetInputFocus",
   "CopyColormapAndFree"}
Fixed8b ==
  {"AllocColorCells", "QueryBestSize", "ChangePointerControl",
   "SetScreenSaver"}
Fixed12a ==
  {"ReparentWindow", "SetSelectionOwner", "ChangeActivePointerGrab",
   "GrabKeyboard", "GrabKey", "GetMotionEvents", "TranslateCoordinates"}
Fixed12b ==
  {"CreatePixmap", "CopyGC", "ClearArea", "CreateColormap", "AllocColor",
   "AllocColorPlanes"}
Fixed16 ==
  {"GetImage", "RecolorCursor"}
Fixed20 ==
  {"GetProperty", "ConvertSelection", "GrabPointer", "GrabButton",
   "WarpPointer"}
Fixed24 ==
  {"CopyArea"}
Fixed28 ==
  {"CopyPlane", "CreateCursor", "CreateGlyphCursor"}
FixedRequests ==
  Fixed0a \cup Fixed0b \cup Fixed0c \cup Fixed4a \cup Fixed4b \cup Fixed4c
    \cup Fixed4d \cup Fixed8a \cup Fixed8b \cup Fixed12a \cup Fixed12b \cup
    Fixed16 \cup Fixed20 \cup Fixed24 \cup Fixed28

(* Requests without a list have no members and mislead no walk.            *)
LEMMA FixedRequestsHold ==
  ASSUME NEW m, NEW m0, Sent(m, m0), m.kind \in FixedRequests
  PROVE  MembersOf(m) = 0 /\ ~Misled(m)
<1>1. m.n = 0
  BY DEF Sent, ReqEnc!CountsFit, FixedRequests, Fixed0a, Fixed0b, Fixed0c,
     Fixed4a, Fixed4b, Fixed4c, Fixed4d, Fixed8a, Fixed8b, Fixed12a, Fixed12b,
     Fixed16, Fixed20, Fixed24, Fixed28, ReqEnc!ValueLists,
     ReqEnc!CountsOf8Bits, ReqEnc!CountsOf16Bits, ReqEnc!CountsFromLength
<1>2. ReqEnc!Members(m) = 0
  BY <1>1 DEF ReqEnc!Members, FixedRequests, Fixed0a, Fixed0b, Fixed0c,
     Fixed4a, Fixed4b, Fixed4c, Fixed4d, Fixed8a, Fixed8b, Fixed12a, Fixed12b,
     Fixed16, Fixed20, Fixed24, Fixed28, ReqEnc!Texts
<1>3. ~Misled(m)
  BY <1>1 DEF Sent, FixedRequests, Fixed0a, Fixed0b, Fixed0c, Fixed4a,
     Fixed4b, Fixed4c, Fixed4d, Fixed8a, Fixed8b, Fixed12a, Fixed12b, Fixed16,
     Fixed20, Fixed24, Fixed28, Misled, NotOpened, CountCut, WrongLength,
     Unswapped, NotExpected, ReqEnc!Texts
<1> QED
  BY <1>2, <1>3, SentMembers

(* No bytes of fields                                                      *)
LEMMA Fixed0aRight ==
  ASSUME NEW m, NEW m0, Sent(m, m0), m.kind \in Fixed0a
  PROVE  Right(m, ReqParse!RequestWalk(m))
<1>1. /\ ReqEnc!BigReqEnable(m0) = 0
      /\ ReqEnc!GrabServer(m0) = 0
      /\ ReqEnc!UngrabServer(m0) = 0
      /\ ReqEnc!GetInputFocus(m0) = 0
      /\ ReqEnc!QueryKeymap(m0) = 0
      /\ ReqEnc!GetFontPath(m0) = 0
  BY DEF ReqEnc!BigReqEnable, ReqEnc!SimpleRequest, ReqEnc!GrabServer,
         ReqEnc!UngrabServer, ReqEnc!GetInputFocus, ReqEnc!QueryKeymap,
         ReqEnc!GetFontPath
<1>2. m0.kind \in Fixed0a
  BY DEF Sent
<1>3. ReqEnc!Suffix(m0) = 0
  BY <1>1, <1>2, ZenonT(40) DEF Fixed0a, ReqEnc!Suffix
<1>4. ReqParse!RequestWalk(m) = ReqParse!Loose(m, ReqParse!FixedEncoding(m, 0))
  BY ZenonT(40) DEF Fixed0a, ReqParse!RequestWalk,
     ReqParse!BigReqEnable, ReqParse!GrabServer, ReqParse!SimpleRequest,
     ReqParse!UngrabServer, ReqParse!GetInputFocus, ReqParse!QueryKeymap,
     ReqParse!GetFontPath
<1>5. Sized(m, 0)
  BY <1>3, SentSized
<1>6. MembersOf(m) = 0 /\ ~Misled(m)
  BY FixedRequestsHold, Zenon DEF FixedRequests
<1> QED
  BY <1>4, <1>5, <1>6, FixedShape

(* No bytes of fields, the second part                                     *)
LEMMA Fixed0bRight ==
  ASSUME NEW m, NEW m0, Sent(m, m0), m.kind \in Fixed0b
  PROVE  Right(m, ReqParse!RequestWalk(m))
<1>1. /\ ReqEnc!ListExtensions(m0) = 0
      /\ ReqEnc!GetKeyboardControl(m0) = 0
      /\ ReqEnc!Bell(m0) = 0
      /\ ReqEnc!GetPointerControl(m0) = 0
      /\ ReqEnc!GetScreenSaver(m0) = 0
      /\ ReqEnc!ListHosts(m0) = 0
  BY DEF ReqEnc!ListExtensions, ReqEnc!SimpleRequest,
         ReqEnc!GetKeyboardControl, ReqEnc!Bell, ReqEnc!GetPointerControl,
         ReqEnc!GetScreenSaver, ReqEnc!ListHosts
<1>2. m0.kind \in Fixed0b
  BY DEF Sent
<1>3. ReqEnc!Suffix(m0) = 0
  BY <1>1, <1>2, ZenonT(40) DEF Fixed0b, ReqEnc!Suffix
<1>4. ReqParse!RequestWalk(m) = ReqParse!Loose(m, ReqParse!FixedEncoding(m, 0))
  BY ZenonT(40) DEF Fixed0b, ReqParse!RequestWalk,
     ReqParse!ListExtensions, ReqParse!SimpleRequest,
     ReqParse!GetKeyboardControl, ReqParse!Bell, ReqParse!GetPointerControl,
     ReqParse!GetScreenSaver, ReqParse!ListHosts
<1>5. Sized(m, 0)
  BY <1>3, SentSized
<1>6. MembersOf(m) = 0 /\ ~Misled(m)
  BY FixedRequestsHold, Zenon DEF FixedRequests
<1> QED
  BY <1>4, <1>5, <1>6, FixedShape

(* No bytes of fields, the third                                           *)
LEMMA Fixed0cRight ==
  ASSUME NEW m, NEW m0, Sent(m, m0), m.kind \in Fixed0c
  PROVE  Right(m, ReqParse!RequestWalk(m))
<1>1. /\ ReqEnc!SetAccessControl(m0) = 0
      /\ ReqEnc!SetCloseDownMode(m0) = 0
      /\ ReqEnc!ForceScreenSaver(m0) = 0
      /\ ReqEnc!GetPointerMapping(m0) = 0
      /\ ReqEnc!GetModifierMapping(m0) = 0
  BY DEF ReqEnc!SetAccessControl, ReqEnc!SetCloseDownMode,
         ReqEnc!ForceScreenSaver, ReqEnc!GetPointerMapping,
         ReqEnc!SimpleRequest, ReqEnc!GetModifierMapping
<1>2. m0.kind \in Fixed0c
  BY DEF Sent
<1>3. ReqEnc!Suffix(m0) = 0
  BY <1>1, <1>2, ZenonT(40) DEF Fixed0c, ReqEnc!Suffix
<1>4. ReqParse!RequestWalk(m) = ReqParse!Loose(m, ReqParse!FixedEncoding(m, 0))
  BY ZenonT(40) DEF Fixed0c, ReqParse!RequestWalk,
     ReqParse!SetAccessControl, ReqParse!SetCloseDownMode,
     ReqParse!ForceScreenSaver, ReqParse!GetPointerMapping,
     ReqParse!SimpleRequest, ReqParse!GetModifierMapping
<1>5. Sized(m, 0)
  BY <1>3, SentSized
<1>6. MembersOf(m) = 0 /\ ~Misled(m)
  BY FixedRequestsHold, Zenon DEF FixedRequests
<1> QED
  BY <1>4, <1>5, <1>6, FixedShape

(* 4 bytes of fields                                                       *)
LEMMA Fixed4aRight ==
  ASSUME NEW m, NEW m0, Sent(m, m0), m.kind \in Fixed4a
  PROVE  Right(m, ReqParse!RequestWalk(m))
<1>1. /\ ReqEnc!GetWindowAttributes(m0) = 4
      /\ ReqEnc!DestroyWindow(m0) = 4
      /\ ReqEnc!DestroySubwindows(m0) = 4
      /\ ReqEnc!ChangeSaveSet(m0) = 4
      /\ ReqEnc!MapWindow(m0) = 4
      /\ ReqEnc!MapSubwindows(m0) = 4
      /\ ReqEnc!UnmapWindow(m0) = 4
      /\ ReqEnc!UnmapSubwindows(m0) = 4
  BY DEF ReqEnc!GetWindowAttributes, ReqEnc!SimpleWindowRequest,
         ReqEnc!DestroyWindow, ReqEnc!DestroySubwindows, ReqEnc!ChangeSaveSet,
         ReqEnc!MapWindow, ReqEnc!MapSubwindows, ReqEnc!UnmapWindow,
         ReqEnc!UnmapSubwindows, ReqEnc!WINDOW
<1>2. m0.kind \in Fixed4a
  BY DEF Sent
<1>3. ReqEnc!Suffix(m0) = 4
  BY <1>1, <1>2, ZenonT(40) DEF Fixed4a, ReqEnc!Suffix
<1>4. ReqParse!RequestWalk(m) = ReqParse!Loose(m, ReqParse!FixedEncoding(m, 4))
  BY ZenonT(40) DEF Fixed4a, ReqParse!RequestWalk,
     ReqParse!GetWindowAttributes, ReqParse!SimpleWindowRequest,
     ReqParse!DestroyWindow, ReqParse!DestroySubwindows,
     ReqParse!ChangeSaveSet, ReqParse!MapWindow, ReqParse!MapSubwindows,
     ReqParse!UnmapWindow, ReqParse!UnmapSubwindows
<1>5. Sized(m, 4)
  BY <1>3, SentSized
<1>6. MembersOf(m) = 0 /\ ~Misled(m)
  BY FixedRequestsHold, Zenon DEF FixedRequests
<1> QED
  BY <1>4, <1>5, <1>6, FixedShape

(* 4 bytes of fields, the second part                                      *)
LEMMA Fixed4bRight ==
  ASSUME NEW m, NEW m0, Sent(m, m0), m.kind \in Fixed4b
  PROVE  Right(m, ReqParse!RequestWalk(m))
<1>1. /\ ReqEnc!CirculateWindow(m0) = 4
      /\ ReqEnc!GetGeometry(m0) = 4
      /\ ReqEnc!QueryTree(m0) = 4
      /\ ReqEnc!GetAtomName(m0) = 4
      /\ ReqEnc!ListProperties(m0) = 4
      /\ ReqEnc!GetSelectionOwner(m0) = 4
      /\ ReqEnc!UngrabPointer(m0) = 4
      /\ ReqEnc!UngrabKeyboard(m0) = 4
  BY DEF ReqEnc!CirculateWindow, ReqEnc!GetGeometry, ReqEnc!QueryTree,
         ReqEnc!SimpleWindowRequest, ReqEnc!GetAtomName,
         ReqEnc!ListProperties, ReqEnc!GetSelectionOwner,
         ReqEnc!UngrabPointer, ReqEnc!UngrabKeyboard, ReqEnc!WINDOW,
         ReqEnc!DRAWABLE, ReqEnc!ATOM, ReqEnc!TIMESTAMP
<1>2. m0.kind \in Fixed4b
  BY DEF Sent
<1>3. ReqEnc!Suffix(m0) = 4
  BY <1>1, <1>2, ZenonT(40) DEF Fixed4b, ReqEnc!Suffix
<1>4. ReqParse!RequestWalk(m) = ReqParse!Loose(m, ReqParse!FixedEncoding(m, 4))
  BY ZenonT(40) DEF Fixed4b, ReqParse!RequestWalk,
     ReqParse!CirculateWindow, ReqParse!GetGeometry, ReqParse!QueryTree,
     ReqParse!SimpleWindowRequest, ReqParse!GetAtomName,
     ReqParse!ListProperties, ReqParse!GetSelectionOwner,
     ReqParse!UngrabPointer, ReqParse!UngrabKeyboard
<1>5. Sized(m, 4)
  BY <1>3, SentSized
<1>6. MembersOf(m) = 0 /\ ~Misled(m)
  BY FixedRequestsHold, Zenon DEF FixedRequests
<1> QED
  BY <1>4, <1>5, <1>6, FixedShape

(* 4 bytes of fields, the third                                            *)
LEMMA Fixed4cRight ==
  ASSUME NEW m, NEW m0, Sent(m, m0), m.kind \in Fixed4c
  PROVE  Right(m, ReqParse!RequestWalk(m))
<1>1. /\ ReqEnc!AllowEvents(m0) = 4
      /\ ReqEnc!QueryPointer(m0) = 4
      /\ ReqEnc!CloseFont(m0) = 4
      /\ ReqEnc!QueryFont(m0) = 4
      /\ ReqEnc!FreePixmap(m0) = 4
      /\ ReqEnc!FreeGC(m0) = 4
      /\ ReqEnc!FreeColormap(m0) = 4
      /\ ReqEnc!InstallColormap(m0) = 4
  BY DEF ReqEnc!AllowEvents, ReqEnc!QueryPointer, ReqEnc!SimpleWindowRequest,
         ReqEnc!CloseFont, ReqEnc!QueryFont, ReqEnc!FreePixmap, ReqEnc!FreeGC,
         ReqEnc!FreeColormap, ReqEnc!SimpleCmapRequest,
         ReqEnc!InstallColormap, ReqEnc!TIMESTAMP, ReqEnc!WINDOW, ReqEnc!FONT,
         ReqEnc!FONTABLE, ReqEnc!PIXMAP, ReqEnc!GCONTEXT, ReqEnc!COLORMAP
<1>2. m0.kind \in Fixed4c
  BY DEF Sent
<1>3. ReqEnc!Suffix(m0) = 4
  BY <1>1, <1>2, ZenonT(40) DEF Fixed4c, ReqEnc!Suffix
<1>4. ReqParse!RequestWalk(m) = ReqParse!Loose(m, ReqParse!FixedEncoding(m, 4))
  BY ZenonT(40) DEF Fixed4c, ReqParse!RequestWalk,
     ReqParse!AllowEvents, ReqParse!QueryPointer,
     ReqParse!SimpleWindowRequest, ReqParse!CloseFont, ReqParse!QueryFont,
     ReqParse!FreePixmap, ReqParse!FreeGC, ReqParse!FreeColormap,
     ReqParse!SimpleCmapRequest, ReqParse!InstallColormap
<1>5. Sized(m, 4)
  BY <1>3, SentSized
<1>6. MembersOf(m) = 0 /\ ~Misled(m)
  BY FixedRequestsHold, Zenon DEF FixedRequests
<1> QED
  BY <1>4, <1>5, <1>6, FixedShape

(* 4 bytes of fields, the fourth                                           *)
LEMMA Fixed4dRight ==
  ASSUME NEW m, NEW m0, Sent(m, m0), m.kind \in Fixed4d
  PROVE  Right(m, ReqParse!RequestWalk(m))
<1>1. /\ ReqEnc!UninstallColormap(m0) = 4
      /\ ReqEnc!ListInstalledColormaps(m0) = 4
      /\ ReqEnc!FreeCursor(m0) = 4
      /\ ReqEnc!GetKeyboardMapping(m0) = 4
      /\ ReqEnc!KillClient(m0) = 4
  BY DEF ReqEnc!UninstallColormap, ReqEnc!SimpleCmapRequest,
         ReqEnc!ListInstalledColormaps, ReqEnc!SimpleWindowRequest,
         ReqEnc!FreeCursor, ReqEnc!GetKeyboardMapping, ReqEnc!KillClient,
         ReqEnc!COLORMAP, ReqEnc!WINDOW, ReqEnc!CURSOR, ReqEnc!KEYCODE,
         ReqEnc!CARD8, ReqEnc!CARD32
<1>2. m0.kind \in Fixed4d
  BY DEF Sent
<1>3. ReqEnc!Suffix(m0) = 4
  BY <1>1, <1>2, ZenonT(40) DEF Fixed4d, ReqEnc!Suffix
<1>4. ReqParse!RequestWalk(m) = ReqParse!Loose(m, ReqParse!FixedEncoding(m, 4))
  BY ZenonT(40) DEF Fixed4d, ReqParse!RequestWalk,
     ReqParse!UninstallColormap, ReqParse!SimpleCmapRequest,
     ReqParse!ListInstalledColormaps, ReqParse!SimpleWindowRequest,
     ReqParse!FreeCursor, ReqParse!GetKeyboardMapping, ReqParse!KillClient
<1>5. Sized(m, 4)
  BY <1>3, SentSized
<1>6. MembersOf(m) = 0 /\ ~Misled(m)
  BY FixedRequestsHold, Zenon DEF FixedRequests
<1> QED
  BY <1>4, <1>5, <1>6, FixedShape

(* 8 bytes of fields                                                       *)
LEMMA Fixed8aRight ==
  ASSUME NEW m, NEW m0, Sent(m, m0), m.kind \in Fixed8a
  PROVE  Right(m, ReqParse!RequestWalk(m))
<1>1. /\ ReqEnc!DeleteProperty(m0) = 8
      /\ ReqEnc!UngrabButton(m0) = 8
      /\ ReqEnc!UngrabKey(m0) = 8
      /\ ReqEnc!SetInputFocus(m0) = 8
      /\ ReqEnc!CopyColormapAndFree(m0) = 8
  BY DEF ReqEnc!DeleteProperty, ReqEnc!UngrabButton, ReqEnc!UngrabKey,
         ReqEnc!SetInputFocus, ReqEnc!CopyColormapAndFree, ReqEnc!WINDOW,
         ReqEnc!ATOM, ReqEnc!SETofKEYMASK, ReqEnc!TIMESTAMP, ReqEnc!COLORMAP
<1>2. m0.kind \in Fixed8a
  BY DEF Sent
<1>3. ReqEnc!Suffix(m0) = 8
  BY <1>1, <1>2, ZenonT(40) DEF Fixed8a, ReqEnc!Suffix
<1>4. ReqParse!RequestWalk(m) = ReqParse!Loose(m, ReqParse!FixedEncoding(m, 8))
  BY ZenonT(40) DEF Fixed8a, ReqParse!RequestWalk,
     ReqParse!DeleteProperty, ReqParse!UngrabButton, ReqParse!UngrabKey,
     ReqParse!SetInputFocus, ReqParse!CopyColormapAndFree
<1>5. Sized(m, 8)
  BY <1>3, SentSized
<1>6. MembersOf(m) = 0 /\ ~Misled(m)
  BY FixedRequestsHold, Zenon DEF FixedRequests
<1> QED
  BY <1>4, <1>5, <1>6, FixedShape

(* 8 bytes of fields, the second part                                      *)
LEMMA Fixed8bRight ==
  ASSUME NEW m, NEW m0, Sent(m, m0), m.kind \in Fixed8b
  PROVE  Right(m, ReqParse!RequestWalk(m))
<1>1. /\ ReqEnc!AllocColorCells(m0) = 8
      /\ ReqEnc!QueryBestSize(m0) = 8
      /\ ReqEnc!ChangePointerControl(m0) = 8
      /\ ReqEnc!SetScreenSaver(m0) = 8
  BY DEF ReqEnc!AllocColorCells, ReqEnc!QueryBestSize,
         ReqEnc!ChangePointerControl, ReqEnc!SetScreenSaver, ReqEnc!COLORMAP,
         ReqEnc!CARD16, ReqEnc!DRAWABLE, ReqEnc!WINDOW, ReqEnc!INT16,
         ReqEnc!BOOL, ReqEnc!CARD8
<1>2. m0.kind \in Fixed8b
  BY DEF Sent
<1>3. ReqEnc!Suffix(m0) = 8
  BY <1>1, <1>2, ZenonT(40) DEF Fixed8b, ReqEnc!Suffix
<1>4. ReqParse!RequestWalk(m) = ReqParse!Loose(m, ReqParse!FixedEncoding(m, 8))
  BY ZenonT(40) DEF Fixed8b, ReqParse!RequestWalk,
     ReqParse!AllocColorCells, ReqParse!QueryBestSize,
     ReqParse!ChangePointerControl, ReqParse!SetScreenSaver
<1>5. Sized(m, 8)
  BY <1>3, SentSized
<1>6. MembersOf(m) = 0 /\ ~Misled(m)
  BY FixedRequestsHold, Zenon DEF FixedRequests
<1> QED
  BY <1>4, <1>5, <1>6, FixedShape

(* 12 bytes of fields                                                      *)
LEMMA Fixed12aRight ==
  ASSUME NEW m, NEW m0, Sent(m, m0), m.kind \in Fixed12a
  PROVE  Right(m, ReqParse!RequestWalk(m))
<1>1. /\ ReqEnc!ReparentWindow(m0) = 12
      /\ ReqEnc!SetSelectionOwner(m0) = 12
      /\ ReqEnc!ChangeActivePointerGrab(m0) = 12
      /\ ReqEnc!GrabKeyboard(m0) = 12
      /\ ReqEnc!GrabKey(m0) = 12
      /\ ReqEnc!GetMotionEvents(m0) = 12
      /\ ReqEnc!TranslateCoordinates(m0) = 12
  BY DEF ReqEnc!ReparentWindow, ReqEnc!SetSelectionOwner,
         ReqEnc!ChangeActivePointerGrab, ReqEnc!GrabKeyboard, ReqEnc!GrabKey,
         ReqEnc!GetMotionEvents, ReqEnc!TranslateCoordinates, ReqEnc!WINDOW,
         ReqEnc!INT16, ReqEnc!ATOM, ReqEnc!TIMESTAMP, ReqEnc!CURSOR,
         ReqEnc!SETofPOINTEREVENT, ReqEnc!CARD8, ReqEnc!SETofKEYMASK,
         ReqEnc!KEYCODE
<1>2. m0.kind \in Fixed12a
  BY DEF Sent
<1>3. ReqEnc!Suffix(m0) = 12
  BY <1>1, <1>2, ZenonT(40) DEF Fixed12a, ReqEnc!Suffix
<1>4. ReqParse!RequestWalk(m) = ReqParse!Loose(m, ReqParse!FixedEncoding(m, 12))
  BY ZenonT(40) DEF Fixed12a, ReqParse!RequestWalk,
     ReqParse!ReparentWindow, ReqParse!SetSelectionOwner,
     ReqParse!ChangeActivePointerGrab, ReqParse!GrabKeyboard,
     ReqParse!GrabKey, ReqParse!GetMotionEvents, ReqParse!TranslateCoordinates
<1>5. Sized(m, 12)
  BY <1>3, SentSized
<1>6. MembersOf(m) = 0 /\ ~Misled(m)
  BY FixedRequestsHold, Zenon DEF FixedRequests
<1> QED
  BY <1>4, <1>5, <1>6, FixedShape

(* 12 bytes of fields, the second part                                     *)
LEMMA Fixed12bRight ==
  ASSUME NEW m, NEW m0, Sent(m, m0), m.kind \in Fixed12b
  PROVE  Right(m, ReqParse!RequestWalk(m))
<1>1. /\ ReqEnc!CreatePixmap(m0) = 12
      /\ ReqEnc!CopyGC(m0) = 12
      /\ ReqEnc!ClearArea(m0) = 12
      /\ ReqEnc!CreateColormap(m0) = 12
      /\ ReqEnc!AllocColor(m0) = 12
      /\ ReqEnc!AllocColorPlanes(m0) = 12
  BY DEF ReqEnc!CreatePixmap, ReqEnc!CopyGC, ReqEnc!ClearArea,
         ReqEnc!CreateColormap, ReqEnc!AllocColor, ReqEnc!AllocColorPlanes,
         ReqEnc!PIXMAP, ReqEnc!DRAWABLE, ReqEnc!WINDOW, ReqEnc!CARD16,
         ReqEnc!GCONTEXT, ReqEnc!CARD32, ReqEnc!INT16, ReqEnc!COLORMAP,
         ReqEnc!VISUALID
<1>2. m0.kind \in Fixed12b
  BY DEF Sent
<1>3. ReqEnc!Suffix(m0) = 12
  BY <1>1, <1>2, ZenonT(40) DEF Fixed12b, ReqEnc!Suffix
<1>4. ReqParse!RequestWalk(m) = ReqParse!Loose(m, ReqParse!FixedEncoding(m, 12))
  BY ZenonT(40) DEF Fixed12b, ReqParse!RequestWalk,
     ReqParse!CreatePixmap, ReqParse!CopyGC, ReqParse!ClearArea,
     ReqParse!CreateColormap, ReqParse!AllocColor, ReqParse!AllocColorPlanes
<1>5. Sized(m, 12)
  BY <1>3, SentSized
<1>6. MembersOf(m) = 0 /\ ~Misled(m)
  BY FixedRequestsHold, Zenon DEF FixedRequests
<1> QED
  BY <1>4, <1>5, <1>6, FixedShape

(* 16 bytes of fields                                                      *)
LEMMA Fixed16Right ==
  ASSUME NEW m, NEW m0, Sent(m, m0), m.kind \in Fixed16
  PROVE  Right(m, ReqParse!RequestWalk(m))
<1>1. /\ ReqEnc!GetImage(m0) = 16
      /\ ReqEnc!RecolorCursor(m0) = 16
  BY DEF ReqEnc!GetImage, ReqEnc!RecolorCursor, ReqEnc!DRAWABLE,
         ReqEnc!WINDOW, ReqEnc!INT16, ReqEnc!CARD16, ReqEnc!CARD32,
         ReqEnc!CURSOR
<1>2. m0.kind \in Fixed16
  BY DEF Sent
<1>3. ReqEnc!Suffix(m0) = 16
  BY <1>1, <1>2, ZenonT(40) DEF Fixed16, ReqEnc!Suffix
<1>4. ReqParse!RequestWalk(m) = ReqParse!Loose(m, ReqParse!FixedEncoding(m, 16))
  BY ZenonT(40) DEF Fixed16, ReqParse!RequestWalk,
     ReqParse!GetImage, ReqParse!RecolorCursor
<1>5. Sized(m, 16)
  BY <1>3, SentSized
<1>6. MembersOf(m) = 0 /\ ~Misled(m)
  BY FixedRequestsHold, Zenon DEF FixedRequests
<1> QED
  BY <1>4, <1>5, <1>6, FixedShape

(* 20 bytes of fields                                                      *)
LEMMA Fixed20Right ==
  ASSUME NEW m, NEW m0, Sent(m, m0), m.kind \in Fixed20
  PROVE  Right(m, ReqParse!RequestWalk(m))
<1>1. /\ ReqEnc!GetProperty(m0) = 20
      /\ ReqEnc!ConvertSelection(m0) = 20
      /\ ReqEnc!GrabPointer(m0) = 20
      /\ ReqEnc!GrabButton(m0) = 20
      /\ ReqEnc!WarpPointer(m0) = 20
  BY DEF ReqEnc!GetProperty, ReqEnc!ConvertSelection, ReqEnc!GrabPointer,
         ReqEnc!GrabButton, ReqEnc!WarpPointer, ReqEnc!WINDOW, ReqEnc!ATOM,
         ReqEnc!CARD32, ReqEnc!TIMESTAMP, ReqEnc!SETofPOINTEREVENT,
         ReqEnc!CARD8, ReqEnc!CURSOR, ReqEnc!BUTTON, ReqEnc!SETofKEYMASK,
         ReqEnc!INT16, ReqEnc!CARD16
<1>2. m0.kind \in Fixed20
  BY DEF Sent
<1>3. ReqEnc!Suffix(m0) = 20
  BY <1>1, <1>2, ZenonT(40) DEF Fixed20, ReqEnc!Suffix
<1>4. ReqParse!RequestWalk(m) = ReqParse!Loose(m, ReqParse!FixedEncoding(m, 20))
  BY ZenonT(40) DEF Fixed20, ReqParse!RequestWalk,
     ReqParse!GetProperty, ReqParse!ConvertSelection, ReqParse!GrabPointer,
     ReqParse!GrabButton, ReqParse!WarpPointer
<1>5. Sized(m, 20)
  BY <1>3, SentSized
<1>6. MembersOf(m) = 0 /\ ~Misled(m)
  BY FixedRequestsHold, Zenon DEF FixedRequests
<1> QED
  BY <1>4, <1>5, <1>6, FixedShape

(* 24 bytes of fields                                                      *)
LEMMA Fixed24Right ==
  ASSUME NEW m, NEW m0, Sent(m, m0), m.kind \in Fixed24
  PROVE  Right(m, ReqParse!RequestWalk(m))
<1>1. /\ ReqEnc!CopyArea(m0) = 24
  BY DEF ReqEnc!CopyArea, ReqEnc!DRAWABLE, ReqEnc!WINDOW, ReqEnc!GCONTEXT,
         ReqEnc!INT16, ReqEnc!CARD16
<1>2. m0.kind \in Fixed24
  BY DEF Sent
<1>3. ReqEnc!Suffix(m0) = 24
  BY <1>1, <1>2, ZenonT(40) DEF Fixed24, ReqEnc!Suffix
<1>4. ReqParse!RequestWalk(m) = ReqParse!Loose(m, ReqParse!FixedEncoding(m, 24))
  BY ZenonT(40) DEF Fixed24, ReqParse!RequestWalk,
     ReqParse!CopyArea
<1>5. Sized(m, 24)
  BY <1>3, SentSized
<1>6. MembersOf(m) = 0 /\ ~Misled(m)
  BY FixedRequestsHold, Zenon DEF FixedRequests
<1> QED
  BY <1>4, <1>5, <1>6, FixedShape

(* 28 bytes of fields                                                      *)
LEMMA Fixed28Right ==
  ASSUME NEW m, NEW m0, Sent(m, m0), m.kind \in Fixed28
  PROVE  Right(m, ReqParse!RequestWalk(m))
<1>1. /\ ReqEnc!CopyPlane(m0) = 28
      /\ ReqEnc!CreateCursor(m0) = 28
      /\ ReqEnc!CreateGlyphCursor(m0) = 28
  BY DEF ReqEnc!CopyPlane, ReqEnc!CreateCursor, ReqEnc!CreateGlyphCursor,
         ReqEnc!DRAWABLE, ReqEnc!WINDOW, ReqEnc!GCONTEXT, ReqEnc!INT16,
         ReqEnc!CARD16, ReqEnc!CARD32, ReqEnc!CURSOR, ReqEnc!PIXMAP,
         ReqEnc!FONT
<1>2. m0.kind \in Fixed28
  BY DEF Sent
<1>3. ReqEnc!Suffix(m0) = 28
  BY <1>1, <1>2, ZenonT(40) DEF Fixed28, ReqEnc!Suffix
<1>4. ReqParse!RequestWalk(m) = ReqParse!Loose(m, ReqParse!FixedEncoding(m, 28))
  BY ZenonT(40) DEF Fixed28, ReqParse!RequestWalk,
     ReqParse!CopyPlane, ReqParse!CreateCursor, ReqParse!CreateGlyphCursor
<1>5. Sized(m, 28)
  BY <1>3, SentSized
<1>6. MembersOf(m) = 0 /\ ~Misled(m)
  BY FixedRequestsHold, Zenon DEF FixedRequests
<1> QED
  BY <1>4, <1>5, <1>6, FixedShape

(* All requests without a list or a string                                 *)
LEMMA FixedRequestsRight ==
  ASSUME NEW m, NEW m0, Sent(m, m0), m.kind \in FixedRequests
  PROVE  Right(m, ReqParse!RequestWalk(m))
  BY Fixed0aRight, Fixed0bRight, Fixed0cRight, Fixed4aRight, Fixed4bRight,
     Fixed4cRight, Fixed4dRight, Fixed8aRight, Fixed8bRight, Fixed12aRight,
     Fixed12bRight, Fixed16Right, Fixed20Right, Fixed24Right, Fixed28Right,
     Zenon DEF FixedRequests
Strings4 == {"InternAtom", "ListFonts", "ListFontsWithInfo", "QueryExtension"}
Strings8 == {"OpenFont", "AllocNamedColor", "LookupColor"}
Strings12 == {"ImageText8", "StoreNamedColor"}
Values4 == {"ChangeKeyboardControl"}
Values8 == {"ChangeWindowAttributes", "ConfigureWindow", "ChangeGC"}
Values12 == {"CreateGC"}
Values28 == {"CreateWindow"}
Counted == {"SetDashes", "ChangeHosts", "RotateProperties",
            "SetPointerMapping", "SetFontPath", "ImageText16"}
CountedRequests ==
  Strings4 \cup Strings8 \cup Strings12 \cup Values4 \cup Values8 \cup
    Values12 \cup Values28 \cup Counted
TillEndRequests ==
  {"PolyPoint", "PolyLine", "FreeColors", "PolySegment", "PolyRectangle",
   "SetClipRectangles", "FillPoly", "StoreColors", "QueryColors"}

(* Requests whose lists have a count of their own: no cut                  *)
LEMMA CountedRequestsHold ==
  ASSUME NEW m, NEW m0, Sent(m, m0), m.kind \in CountedRequests
  PROVE  MembersOf(m) = m.n /\ ~Misled(m) /\ Short(m.n)
<1>1. m.n < 65536
  BY DEF Sent, ReqEnc!CountsFit, CountedRequests, Strings4, Strings8,
     Strings12, Values4, Values8, Values12, Values28, Counted,
     ReqEnc!ValueLists, ReqEnc!CountsOf8Bits, ReqEnc!CountsOf16Bits
<1>2. ReqEnc!Members(m) = m.n
  BY DEF ReqEnc!Members, CountedRequests, Strings4, Strings8, Strings12,
     Values4, Values8, Values12, Values28, Counted, ReqEnc!Texts
<1>3. ~Misled(m)
  BY <1>1 DEF Sent, CountedRequests, Strings4, Strings8, Strings12, Values4,
     Values8, Values12, Values28, Counted, ReqEnc!CountsFit, Misled,
     NotOpened, CountCut, WrongLength, Unswapped, NotExpected, ReqEnc!Texts,
     ReqEnc!CountsFromLength
<1> QED
  BY <1>1, <1>2, <1>3, SentMembers DEF Short, Sent

(* Requests without a count: misled when the computed one is cut           *)
LEMMA TillEndRequestsHold ==
  ASSUME NEW m, NEW m0, Sent(m, m0), m.kind \in TillEndRequests
  PROVE  MembersOf(m) = m.n /\ (Misled(m) <=> ~Short(m.n))
<1>1. ReqEnc!Members(m) = m.n
  BY DEF ReqEnc!Members, TillEndRequests, ReqEnc!Texts
<1>2. Misled(m) <=> m.n >= 65536
  BY DEF Sent, TillEndRequests, ReqEnc!CountsFit, Misled, NotOpened, CountCut,
     WrongLength, Unswapped, NotExpected, ReqEnc!Texts,
     ReqEnc!CountsFromLength
<1>3. ~Short(m.n) <=> m.n >= 65536
  BY DEF Short, Sent
<1> QED
  BY <1>1, <1>2, <1>3, SentMembers

(* A string behind 4 bytes of fields                                       *)
LEMMA Strings4Right ==
  ASSUME NEW m, NEW m0, Sent(m, m0), m.kind \in Strings4
  PROVE  Right(m, ReqParse!RequestWalk(m))
<1>1. /\ ReqEnc!InternAtom(m0) = 4 + Pad(m.n)
      /\ ReqEnc!ListFonts(m0) = 4 + Pad(m.n)
      /\ ReqEnc!ListFontsWithInfo(m0) = 4 + Pad(m.n)
      /\ ReqEnc!QueryExtension(m0) = 4 + Pad(m.n)
  BY EncodedPads DEF Sent, ReqEnc!InternAtom, ReqEnc!ListFonts,
     ReqEnc!ListFontsRequest, ReqEnc!ListFontsWithInfo, ReqEnc!QueryExtension,
     ReqEnc!CARD16
<1>2. ReqEnc!Suffix(m0) = 4 + Pad(m.n)
  <2>1. m0.kind \in Strings4
    BY DEF Sent
  <2> QED
    BY <1>1, <2>1, Zenon DEF Strings4, ReqEnc!Suffix
<1>3. ReqParse!RequestWalk(m) =
        ReqParse!Loose(m,
          ReqParse!String8(ReqParse!FixedEncoding(m, 4), m.n))
  BY Zenon DEF Strings4, ReqParse!RequestWalk, ReqParse!InternAtom,
     ReqParse!ListFonts, ReqParse!ListFontsRequest,
     ReqParse!ListFontsWithInfo, ReqParse!QueryExtension
<1>4. Sized(m, 4 + Pad(m.n))
  <2>1. m.n \in Nat
    BY DEF Sent
  <2>2. 4 + Pad(m.n) \in Nat /\ (4 + Pad(m.n)) % 4 = 0
    BY <2>1, PadFacts
  <2> QED
    BY <1>2, <2>2, SentSized
<1>5. MembersOf(m) = m.n /\ ~Misled(m) /\ m.n \in Nat
  BY CountedRequestsHold, Zenon DEF CountedRequests, Sent
<1> QED
  BY <1>3, <1>4, <1>5, StringShape

(* A string behind 8 bytes                                                 *)
LEMMA Strings8Right ==
  ASSUME NEW m, NEW m0, Sent(m, m0), m.kind \in Strings8
  PROVE  Right(m, ReqParse!RequestWalk(m))
<1>1. /\ ReqEnc!OpenFont(m0) = 8 + Pad(m.n)
      /\ ReqEnc!AllocNamedColor(m0) = 8 + Pad(m.n)
      /\ ReqEnc!LookupColor(m0) = 8 + Pad(m.n)
  BY EncodedPads DEF Sent, ReqEnc!OpenFont, ReqEnc!AllocNamedColor,
     ReqEnc!LookupColor, ReqEnc!FONT, ReqEnc!CARD16, ReqEnc!COLORMAP
<1>2. ReqEnc!Suffix(m0) = 8 + Pad(m.n)
  <2>1. m0.kind \in Strings8
    BY DEF Sent
  <2> QED
    BY <1>1, <2>1, Zenon DEF Strings8, ReqEnc!Suffix
<1>3. ReqParse!RequestWalk(m) =
        ReqParse!Loose(m,
          ReqParse!String8(ReqParse!FixedEncoding(m, 8), m.n))
  BY Zenon DEF Strings8, ReqParse!RequestWalk, ReqParse!OpenFont,
     ReqParse!AllocNamedColor, ReqParse!LookupColor
<1>4. Sized(m, 8 + Pad(m.n))
  <2>1. m.n \in Nat
    BY DEF Sent
  <2>2. 8 + Pad(m.n) \in Nat /\ (8 + Pad(m.n)) % 4 = 0
    BY <2>1, PadFacts
  <2> QED
    BY <1>2, <2>2, SentSized
<1>5. MembersOf(m) = m.n /\ ~Misled(m) /\ m.n \in Nat
  BY CountedRequestsHold, Zenon DEF CountedRequests, Sent
<1> QED
  BY <1>3, <1>4, <1>5, StringShape

(* A string behind 12 bytes                                                *)
LEMMA Strings12Right ==
  ASSUME NEW m, NEW m0, Sent(m, m0), m.kind \in Strings12
  PROVE  Right(m, ReqParse!RequestWalk(m))
<1>1. /\ ReqEnc!ImageText8(m0) = 12 + Pad(m.n)
      /\ ReqEnc!StoreNamedColor(m0) = 12 + Pad(m.n)
  BY EncodedPads DEF Sent, ReqEnc!ImageText8, ReqEnc!StoreNamedColor,
     ReqEnc!DRAWABLE, ReqEnc!WINDOW, ReqEnc!GCONTEXT, ReqEnc!INT16,
     ReqEnc!COLORMAP, ReqEnc!CARD32, ReqEnc!CARD16
<1>2. ReqEnc!Suffix(m0) = 12 + Pad(m.n)
  <2>1. m0.kind \in Strings12
    BY DEF Sent
  <2> QED
    BY <1>1, <2>1, Zenon DEF Strings12, ReqEnc!Suffix
<1>3. ReqParse!RequestWalk(m) =
        ReqParse!Loose(m,
          ReqParse!String8(ReqParse!FixedEncoding(m, 12), m.n))
  BY Zenon DEF Strings12, ReqParse!RequestWalk, ReqParse!ImageText8,
     ReqParse!StoreNamedColor
<1>4. Sized(m, 12 + Pad(m.n))
  <2>1. m.n \in Nat
    BY DEF Sent
  <2>2. 12 + Pad(m.n) \in Nat /\ (12 + Pad(m.n)) % 4 = 0
    BY <2>1, PadFacts
  <2> QED
    BY <1>2, <2>2, SentSized
<1>5. MembersOf(m) = m.n /\ ~Misled(m) /\ m.n \in Nat
  BY CountedRequestsHold, Zenon DEF CountedRequests, Sent
<1> QED
  BY <1>3, <1>4, <1>5, StringShape

(* Values for the bits of a mask, behind 4 bytes of fields                 *)
LEMMA Values4Right ==
  ASSUME NEW m, NEW m0, Sent(m, m0), m.kind = "ChangeKeyboardControl"
  PROVE  Right(m, ReqParse!RequestWalk(m))
<1>1. ReqEnc!ChangeKeyboardControl(m0) = 4 + 4 * m.n
  BY EncodedPads DEF Sent, ReqEnc!ChangeKeyboardControl, ReqEnc!CARD32,
     ReqEnc!VALUE
<1>2. ReqEnc!Suffix(m0) = 4 + 4 * m.n
  <2>1. m0.kind = "ChangeKeyboardControl"
    BY DEF Sent
  <2> QED
    BY <1>1, <2>1, Zenon DEF ReqEnc!Suffix
<1>3. ReqParse!RequestWalk(m) =
        ReqParse!Loose(m,
          ReqParse!Values(m, ReqParse!FixedEncoding(m, 4)))
  BY Zenon DEF ReqParse!RequestWalk, ReqParse!ChangeKeyboardControl
<1>4. Sized(m, 4 + 4 * m.n)
  <2>1. m.n \in Nat
    BY DEF Sent
  <2>2. 4 + 4 * m.n \in Nat /\ (4 + 4 * m.n) % 4 = 0
    BY <2>1
  <2> QED
    BY <1>2, <2>2, SentSized
<1>5. /\ MembersOf(m) = m.n /\ ~Misled(m) /\ Short(m.n) /\ m.n \in Nat
  BY CountedRequestsHold, Zenon DEF CountedRequests, Values4, Sent
<1> QED
  BY <1>3, <1>4, <1>5, ValuesShape

(* Values behind 8 bytes                                                   *)
LEMMA Values8Right ==
  ASSUME NEW m, NEW m0, Sent(m, m0), m.kind \in Values8
  PROVE  Right(m, ReqParse!RequestWalk(m))
<1>1. /\ ReqEnc!ChangeWindowAttributes(m0) = 8 + 4 * m.n
      /\ ReqEnc!ConfigureWindow(m0) = 8 + 4 * m.n
      /\ ReqEnc!ChangeGC(m0) = 8 + 4 * m.n
  BY EncodedPads DEF Sent, ReqEnc!ChangeWindowAttributes,
     ReqEnc!ConfigureWindow, ReqEnc!ChangeGC, ReqEnc!WINDOW, ReqEnc!CARD32,
     ReqEnc!VALUE, ReqEnc!CARD16, ReqEnc!GCONTEXT
<1>2. ReqEnc!Suffix(m0) = 8 + 4 * m.n
  <2>1. m0.kind \in Values8
    BY DEF Sent
  <2> QED
    BY <1>1, <2>1, Zenon DEF Values8, ReqEnc!Suffix
<1>3. ReqParse!RequestWalk(m) =
        ReqParse!Loose(m,
          ReqParse!Values(m, ReqParse!FixedEncoding(m, 8)))
  BY Zenon DEF Values8, ReqParse!RequestWalk, ReqParse!ChangeWindowAttributes,
     ReqParse!ConfigureWindow, ReqParse!ChangeGC
<1>4. Sized(m, 8 + 4 * m.n)
  <2>1. m.n \in Nat
    BY DEF Sent
  <2>2. 8 + 4 * m.n \in Nat /\ (8 + 4 * m.n) % 4 = 0
    BY <2>1
  <2> QED
    BY <1>2, <2>2, SentSized
<1>5. /\ MembersOf(m) = m.n /\ ~Misled(m) /\ Short(m.n) /\ m.n \in Nat
  BY CountedRequestsHold, Zenon DEF CountedRequests, Values8, Sent
<1> QED
  BY <1>3, <1>4, <1>5, ValuesShape

(* Values behind 12 bytes                                                  *)
LEMMA Values12Right ==
  ASSUME NEW m, NEW m0, Sent(m, m0), m.kind = "CreateGC"
  PROVE  Right(m, ReqParse!RequestWalk(m))
<1>1. ReqEnc!CreateGC(m0) = 12 + 4 * m.n
  BY EncodedPads DEF Sent, ReqEnc!CreateGC, ReqEnc!GCONTEXT, ReqEnc!DRAWABLE,
     ReqEnc!WINDOW, ReqEnc!CARD32, ReqEnc!VALUE
<1>2. ReqEnc!Suffix(m0) = 12 + 4 * m.n
  <2>1. m0.kind = "CreateGC"
    BY DEF Sent
  <2> QED
    BY <1>1, <2>1, Zenon DEF ReqEnc!Suffix
<1>3. ReqParse!RequestWalk(m) =
        ReqParse!Loose(m,
          ReqParse!Values(m, ReqParse!FixedEncoding(m, 12)))
  BY Zenon DEF ReqParse!RequestWalk, ReqParse!CreateGC
<1>4. Sized(m, 12 + 4 * m.n)
  <2>1. m.n \in Nat
    BY DEF Sent
  <2>2. 12 + 4 * m.n \in Nat /\ (12 + 4 * m.n) % 4 = 0
    BY <2>1
  <2> QED
    BY <1>2, <2>2, SentSized
<1>5. /\ MembersOf(m) = m.n /\ ~Misled(m) /\ Short(m.n) /\ m.n \in Nat
  BY CountedRequestsHold, Zenon DEF CountedRequests, Values12, Sent
<1> QED
  BY <1>3, <1>4, <1>5, ValuesShape

(* Values behind 28 bytes                                                  *)
LEMMA Values28Right ==
  ASSUME NEW m, NEW m0, Sent(m, m0), m.kind = "CreateWindow"
  PROVE  Right(m, ReqParse!RequestWalk(m))
<1>1. ReqEnc!CreateWindow(m0) = 28 + 4 * m.n
  BY EncodedPads DEF Sent, ReqEnc!CreateWindow, ReqEnc!WINDOW, ReqEnc!INT16,
     ReqEnc!CARD16, ReqEnc!VISUALID, ReqEnc!CARD32, ReqEnc!VALUE
<1>2. ReqEnc!Suffix(m0) = 28 + 4 * m.n
  <2>1. m0.kind = "CreateWindow"
    BY DEF Sent
  <2> QED
    BY <1>1, <2>1, Zenon DEF ReqEnc!Suffix
<1>3. ReqParse!RequestWalk(m) =
        ReqParse!Loose(m,
          ReqParse!Values(m, ReqParse!FixedEncoding(m, 28)))
  BY Zenon DEF ReqParse!RequestWalk, ReqParse!CreateWindow
<1>4. Sized(m, 28 + 4 * m.n)
  <2>1. m.n \in Nat
    BY DEF Sent
  <2>2. 28 + 4 * m.n \in Nat /\ (28 + 4 * m.n) % 4 = 0
    BY <2>1
  <2> QED
    BY <1>2, <2>2, SentSized
<1>5. /\ MembersOf(m) = m.n /\ ~Misled(m) /\ Short(m.n) /\ m.n \in Nat
  BY CountedRequestsHold, Zenon DEF CountedRequests, Values28, Sent
<1> QED
  BY <1>3, <1>4, <1>5, ValuesShape

TillEnd8Of4 == {"PolyPoint", "PolyLine", "FreeColors"}

(* Members of 4 bytes till the end                                         *)
LEMMA TillEnd8Of4Right ==
  ASSUME NEW m, NEW m0, Sent(m, m0), m.kind \in TillEnd8Of4
  PROVE  Right(m, ReqParse!RequestWalk(m))
<1>1. /\ ReqEnc!PolyPoint(m0) = 8 + m.n * 4
      /\ ReqEnc!PolyLine(m0) = 8 + m.n * 4
      /\ ReqEnc!FreeColors(m0) = 8 + m.n * 4
  BY EncodedPads DEF Sent, ReqEnc!PolyPoint, ReqEnc!PolyPointRequest,
     ReqEnc!PolyLine, ReqEnc!FreeColors, ReqEnc!DRAWABLE, ReqEnc!WINDOW,
     ReqEnc!GCONTEXT, ReqEnc!POINT, ReqEnc!INT16, ReqEnc!COLORMAP,
     ReqEnc!CARD32
<1>2. ReqEnc!Suffix(m0) = 8 + m.n * 4
  <2>1. m0.kind \in TillEnd8Of4
    BY DEF Sent
  <2> QED
    BY <1>1, <2>1, Zenon DEF TillEnd8Of4, ReqEnc!Suffix
<1>3. ReqParse!RequestWalk(m) =
        ReqParse!Exact(m, ReqParse!ListTillEnd(ReqParse!FixedEncoding(m, 8),
                                             ReqParse!Rest(m, 8), 4))
  BY Zenon DEF TillEnd8Of4, ReqParse!RequestWalk, ReqParse!PolyPoint,
     ReqParse!PolyPointRequest, ReqParse!PolyLine, ReqParse!FreeColors
<1>4. Sized(m, 8 + m.n * 4)
  <2>1. m.n \in Nat
    BY DEF Sent
  <2>2. 8 + m.n * 4 \in Nat /\ (8 + m.n * 4) % 4 = 0
    BY <2>1
  <2> QED
    BY <1>2, <2>2, SentSized
<1>5. /\ MembersOf(m) = m.n /\ (Misled(m) <=> ~Short(m.n)) /\ m.n \in Nat
  BY TillEndRequestsHold, Zenon DEF TillEndRequests, TillEnd8Of4, Sent
<1>6. 8 \in Nat /\ 8 % 4 = 0 /\ 4 \in {4, 8, 12}
  OBVIOUS
<1> QED
  BY <1>3, <1>4, <1>5, <1>6, TillEndShape

TillEnd8Of8 == {"PolySegment", "PolyRectangle"}

(* Members of 8 bytes till the end                                         *)
LEMMA TillEnd8Of8Right ==
  ASSUME NEW m, NEW m0, Sent(m, m0), m.kind \in TillEnd8Of8
  PROVE  Right(m, ReqParse!RequestWalk(m))
<1>1. /\ ReqEnc!PolySegment(m0) = 8 + m.n * 8
      /\ ReqEnc!PolyRectangle(m0) = 8 + m.n * 8
  BY EncodedPads DEF Sent, ReqEnc!PolySegment, ReqEnc!PolyRectangle,
     ReqEnc!DRAWABLE, ReqEnc!WINDOW, ReqEnc!GCONTEXT, ReqEnc!SEGMENT,
     ReqEnc!INT16, ReqEnc!RECTANGLE, ReqEnc!CARD16
<1>2. ReqEnc!Suffix(m0) = 8 + m.n * 8
  <2>1. m0.kind \in TillEnd8Of8
    BY DEF Sent
  <2> QED
    BY <1>1, <2>1, Zenon DEF TillEnd8Of8, ReqEnc!Suffix
<1>3. ReqParse!RequestWalk(m) =
        ReqParse!Exact(m, ReqParse!ListTillEnd(ReqParse!FixedEncoding(m, 8),
                                             ReqParse!Rest(m, 8), 8))
  BY Zenon DEF TillEnd8Of8, ReqParse!RequestWalk, ReqParse!PolySegment,
     ReqParse!PolyRectangle
<1>4. Sized(m, 8 + m.n * 8)
  <2>1. m.n \in Nat
    BY DEF Sent
  <2>2. 8 + m.n * 8 \in Nat /\ (8 + m.n * 8) % 4 = 0
    BY <2>1
  <2> QED
    BY <1>2, <2>2, SentSized
<1>5. /\ MembersOf(m) = m.n /\ (Misled(m) <=> ~Short(m.n)) /\ m.n \in Nat
  BY TillEndRequestsHold, Zenon DEF TillEndRequests, TillEnd8Of8, Sent
<1>6. 8 \in Nat /\ 8 % 4 = 0 /\ 8 \in {4, 8, 12}
  OBVIOUS
<1> QED
  BY <1>3, <1>4, <1>5, <1>6, TillEndShape

(* Rectangles till the end                                                 *)
LEMMA SetClipRectanglesRight ==
  ASSUME NEW m, NEW m0, Sent(m, m0), m.kind = "SetClipRectangles"
  PROVE  Right(m, ReqParse!RequestWalk(m))
<1>1. ReqEnc!SetClipRectangles(m0) = 8 + m.n * 8
  BY EncodedPads DEF Sent, ReqEnc!SetClipRectangles, ReqEnc!GCONTEXT,
     ReqEnc!INT16, ReqEnc!RECTANGLE, ReqEnc!CARD16
<1>2. ReqEnc!Suffix(m0) = 8 + m.n * 8
  <2>1. m0.kind = "SetClipRectangles"
    BY DEF Sent
  <2> QED
    BY <1>1, <2>1, Zenon DEF ReqEnc!Suffix
<1>3. ReqParse!RequestWalk(m) =
        ReqParse!Loose(m, ReqParse!ListTillEnd(ReqParse!FixedEncoding(m, 8),
                                             ReqParse!Rest(m, 8), 8))
  BY Zenon DEF ReqParse!RequestWalk, ReqParse!SetClipRectangles
<1>4. Sized(m, 8 + m.n * 8)
  <2>1. m.n \in Nat
    BY DEF Sent
  <2>2. 8 + m.n * 8 \in Nat /\ (8 + m.n * 8) % 4 = 0
    BY <2>1
  <2> QED
    BY <1>2, <2>2, SentSized
<1>5. /\ MembersOf(m) = m.n /\ (Misled(m) <=> ~Short(m.n)) /\ m.n \in Nat
  BY TillEndRequestsHold, Zenon DEF TillEndRequests, Sent
<1>6. 8 \in Nat /\ 8 % 4 = 0 /\ 8 \in {4, 8, 12}
  OBVIOUS
<1> QED
  BY <1>3, <1>4, <1>5, <1>6, TillEndShape

(* Points till the end                                                     *)
LEMMA FillPolyRight ==
  ASSUME NEW m, NEW m0, Sent(m, m0), m.kind = "FillPoly"
  PROVE  Right(m, ReqParse!RequestWalk(m))
<1>1. ReqEnc!FillPoly(m0) = 12 + m.n * 4
  BY EncodedPads DEF Sent, ReqEnc!FillPoly, ReqEnc!DRAWABLE, ReqEnc!WINDOW,
     ReqEnc!GCONTEXT, ReqEnc!CARD8, ReqEnc!POINT, ReqEnc!INT16
<1>2. ReqEnc!Suffix(m0) = 12 + m.n * 4
  <2>1. m0.kind = "FillPoly"
    BY DEF Sent
  <2> QED
    BY <1>1, <2>1, Zenon DEF ReqEnc!Suffix
<1>3. ReqParse!RequestWalk(m) =
        ReqParse!Exact(m, ReqParse!ListTillEnd(ReqParse!FixedEncoding(m, 12),
                                             ReqParse!Rest(m, 12), 4))
  BY Zenon DEF ReqParse!RequestWalk, ReqParse!FillPoly
<1>4. Sized(m, 12 + m.n * 4)
  <2>1. m.n \in Nat
    BY DEF Sent
  <2>2. 12 + m.n * 4 \in Nat /\ (12 + m.n * 4) % 4 = 0
    BY <2>1
  <2> QED
    BY <1>2, <2>2, SentSized
<1>5. /\ MembersOf(m) = m.n /\ (Misled(m) <=> ~Short(m.n)) /\ m.n \in Nat
  BY TillEndRequestsHold, Zenon DEF TillEndRequests, Sent
<1>6. 12 \in Nat /\ 12 % 4 = 0 /\ 4 \in {4, 8, 12}
  OBVIOUS
<1> QED
  BY <1>3, <1>4, <1>5, <1>6, TillEndShape

(* Color items of 12 bytes till the end                                    *)
LEMMA StoreColorsRight ==
  ASSUME NEW m, NEW m0, Sent(m, m0), m.kind = "StoreColors"
  PROVE  Right(m, ReqParse!RequestWalk(m))
<1>1. ReqEnc!StoreColors(m0) = 4 + m.n * 12
  BY EncodedPads DEF Sent, ReqEnc!StoreColors, ReqEnc!COLORMAP,
     ReqEnc!COLORITEM, ReqEnc!CARD32, ReqEnc!CARD16, ReqEnc!CARD8
<1>2. ReqEnc!Suffix(m0) = 4 + m.n * 12
  <2>1. m0.kind = "StoreColors"
    BY DEF Sent
  <2> QED
    BY <1>1, <2>1, Zenon DEF ReqEnc!Suffix
<1>3. ReqParse!RequestWalk(m) =
        ReqParse!Exact(m, ReqParse!ListTillEnd(ReqParse!FixedEncoding(m, 4),
                                             ReqParse!Rest(m, 4), 12))
  BY Zenon DEF ReqParse!RequestWalk, ReqParse!StoreColors
<1>4. Sized(m, 4 + m.n * 12)
  <2>1. m.n \in Nat
    BY DEF Sent
  <2>2. 4 + m.n * 12 \in Nat /\ (4 + m.n * 12) % 4 = 0
    BY <2>1
  <2> QED
    BY <1>2, <2>2, SentSized
<1>5. /\ MembersOf(m) = m.n /\ (Misled(m) <=> ~Short(m.n)) /\ m.n \in Nat
  BY TillEndRequestsHold, Zenon DEF TillEndRequests, Sent
<1>6. 4 \in Nat /\ 4 % 4 = 0 /\ 12 \in {4, 8, 12}
  OBVIOUS
<1> QED
  BY <1>3, <1>4, <1>5, <1>6, TillEndShape

(* Pixels till the end                                                     *)
LEMMA QueryColorsRight ==
  ASSUME NEW m, NEW m0, Sent(m, m0), m.kind = "QueryColors"
  PROVE  Right(m, ReqParse!RequestWalk(m))
<1>1. ReqEnc!QueryColors(m0) = 4 + m.n * 4
  BY EncodedPads DEF Sent, ReqEnc!QueryColors, ReqEnc!COLORMAP, ReqEnc!CARD32
<1>2. ReqEnc!Suffix(m0) = 4 + m.n * 4
  <2>1. m0.kind = "QueryColors"
    BY DEF Sent
  <2> QED
    BY <1>1, <2>1, Zenon DEF ReqEnc!Suffix
<1>3. ReqParse!RequestWalk(m) =
        ReqParse!Exact(m, ReqParse!ListTillEnd(ReqParse!FixedEncoding(m, 4),
                                             ReqParse!Rest(m, 4), 4))
  BY Zenon DEF ReqParse!RequestWalk, ReqParse!QueryColors
<1>4. Sized(m, 4 + m.n * 4)
  <2>1. m.n \in Nat
    BY DEF Sent
  <2>2. 4 + m.n * 4 \in Nat /\ (4 + m.n * 4) % 4 = 0
    BY <2>1
  <2> QED
    BY <1>2, <2>2, SentSized
<1>5. /\ MembersOf(m) = m.n /\ (Misled(m) <=> ~Short(m.n)) /\ m.n \in Nat
  BY TillEndRequestsHold, Zenon DEF TillEndRequests, Sent
<1>6. 4 \in Nat /\ 4 % 4 = 0 /\ 4 \in {4, 8, 12}
  OBVIOUS
<1> QED
  BY <1>3, <1>4, <1>5, <1>6, TillEndShape

(* What is left behind the fixed part for a list of n members, padded      *)
LEMMA PaddedRest ==
  ASSUME NEW m, NEW e \in Nat, e % 4 = 0, NEW n \in Nat, NEW u \in Nat, NEW m0,
         Sent(m, m0), ReqEnc!Suffix(m0) = e + Pad(n * u)
  PROVE  /\ Sized(m, e + Pad(n * u))
         /\ ReqParse!Rest(m, e) = Pad(n * u)
         /\ m.sz - ReqParse!FixedSize(m, e) = Pad(n * u)
         /\ Pad(n * u) \in Int /\ n * u <= Pad(n * u)
<1> DEFINE r == Pad(n * u)
<1>1. n * u \in Nat
  OBVIOUS
<1>2. r \in Nat /\ r % 4 = 0 /\ n * u <= r
  BY <1>1, PadFacts
<1> HIDE DEF r
<1>3. Sized(m, e + r)
  <2>1. e + r \in Nat /\ (e + r) % 4 = 0
    BY <1>2
  <2> QED
    BY <2>1, SentSized DEF r
<1>4. /\ ReqParse!Rest(m, e) = r /\ ReqParse!FixedSize(m, e) = Prefix(m) + e
      /\ Prefix(m) + e \in Nat /\ m.sz = (Prefix(m) + e) + r
  BY <1>2, <1>3, RequestFixed
<1> QED
  BY <1>2, <1>3, <1>4 DEF r

(* A list of dashes                                                        *)
LEMMA SetDashesRight ==
  ASSUME NEW m, NEW m0, Sent(m, m0), m.kind = "SetDashes"
  PROVE  Right(m, ReqParse!RequestWalk(m))
<1>1. ReqEnc!SetDashes(m0) = 8 + Pad(m.n * 1)
  BY EncodedPads DEF Sent, ReqEnc!SetDashes, ReqEnc!GCONTEXT, ReqEnc!CARD16,
     ReqEnc!CARD8
<1>2. ReqEnc!Suffix(m0) = 8 + Pad(m.n * 1)
  <2>1. m0.kind = "SetDashes"
    BY DEF Sent
  <2> QED
    BY <1>1, <2>1, Zenon DEF ReqEnc!Suffix
<1>3. ReqParse!RequestWalk(m) =
        ReqParse!Loose(m,
          ReqParse!PaddedList(ReqParse!FixedEncoding(m, 8),
                              m.sz - ReqParse!FixedSize(m, 8), m.n, 1))
  BY Zenon DEF ReqParse!RequestWalk, ReqParse!SetDashes
<1>4. /\ 1 \in Nat /\ 8 \in Nat /\ 8 % 4 = 0
      /\ m.n \in Nat /\ m.k \in Nat
  BY DEF Sent
<1>5. /\ Sized(m, 8 + Pad(m.n * 1))
      /\ ReqParse!Rest(m, 8) = Pad(m.n * 1)
      /\ m.sz - ReqParse!FixedSize(m, 8) = Pad(m.n * 1)
      /\ Pad(m.n * 1) \in Int /\ m.n * 1 <= Pad(m.n * 1)
  BY <1>2, <1>4, PaddedRest
<1>6. MembersOf(m) = m.n /\ ~Misled(m) /\ Short(m.n)
  BY CountedRequestsHold, Zenon DEF CountedRequests, Counted
<1>7. m.sz - ReqParse!FixedSize(m, 8) \in Int /\ m.n * 1 <= m.sz - ReqParse!FixedSize(m, 8)
  BY <1>4, <1>5
<1> QED
  BY <1>3, <1>4, <1>5, <1>6, <1>7, CountedShape

(* The bytes of an address                                                 *)
LEMMA ChangeHostsRight ==
  ASSUME NEW m, NEW m0, Sent(m, m0), m.kind = "ChangeHosts"
  PROVE  Right(m, ReqParse!RequestWalk(m))
<1>1. ReqEnc!ChangeHosts(m0) = 4 + Pad(m.n * 1)
  BY EncodedPads DEF Sent, ReqEnc!ChangeHosts, ReqEnc!CARD8, ReqEnc!CARD16,
     ReqEnc!BYTE
<1>2. ReqEnc!Suffix(m0) = 4 + Pad(m.n * 1)
  <2>1. m0.kind = "ChangeHosts"
    BY DEF Sent
  <2> QED
    BY <1>1, <2>1, Zenon DEF ReqEnc!Suffix
<1>3. ReqParse!RequestWalk(m) =
        ReqParse!Exact(m,
          ReqParse!PaddedList(ReqParse!FixedEncoding(m, 4),
                              ReqParse!Rest(m, 4), m.n, 1))
  BY Zenon DEF ReqParse!RequestWalk, ReqParse!ChangeHosts
<1>4. /\ 1 \in Nat /\ 4 \in Nat /\ 4 % 4 = 0
      /\ m.n \in Nat /\ m.k \in Nat
  BY DEF Sent
<1>5. /\ Sized(m, 4 + Pad(m.n * 1))
      /\ ReqParse!Rest(m, 4) = Pad(m.n * 1)
      /\ m.sz - ReqParse!FixedSize(m, 4) = Pad(m.n * 1)
      /\ Pad(m.n * 1) \in Int /\ m.n * 1 <= Pad(m.n * 1)
  BY <1>2, <1>4, PaddedRest
<1>6. MembersOf(m) = m.n /\ ~Misled(m) /\ Short(m.n)
  BY CountedRequestsHold, Zenon DEF CountedRequests, Counted
<1>7. ReqParse!Rest(m, 4) \in Int /\ m.n * 1 <= ReqParse!Rest(m, 4)
  BY <1>4, <1>5
<1> QED
  BY <1>3, <1>4, <1>5, <1>6, <1>7, CountedShape

(* Atoms with a count                                                      *)
LEMMA RotatePropertiesRight ==
  ASSUME NEW m, NEW m0, Sent(m, m0), m.kind = "RotateProperties"
  PROVE  Right(m, ReqParse!RequestWalk(m))
<1>1. ReqEnc!RotateProperties(m0) = 8 + Pad(m.n * 4)
  <2>1. m0.n = m.n /\ m.n \in Nat
    BY DEF Sent
  <2>2. m.n * 4 \in Nat /\ (m.n * 4) % 4 = 0
    BY <2>1
  <2>3. Pad(m.n * 4) = m.n * 4
    BY <2>2, PadOfAligned
  <2> QED
    BY <2>1, <2>3 DEF ReqEnc!RotateProperties, ReqEnc!WINDOW, ReqEnc!CARD16,
       ReqEnc!INT16, ReqEnc!ATOM
<1>2. ReqEnc!Suffix(m0) = 8 + Pad(m.n * 4)
  <2>1. m0.kind = "RotateProperties"
    BY DEF Sent
  <2> QED
    BY <1>1, <2>1, Zenon DEF ReqEnc!Suffix
<1>3. ReqParse!RequestWalk(m) =
        ReqParse!Exact(m,
          ReqParse!PaddedList(ReqParse!FixedEncoding(m, 8),
                              ReqParse!Rest(m, 8), m.n, 4))
  BY Zenon DEF ReqParse!RequestWalk, ReqParse!RotateProperties
<1>4. /\ 4 \in Nat /\ 8 \in Nat /\ 8 % 4 = 0
      /\ m.n \in Nat /\ m.k \in Nat
  BY DEF Sent
<1>5. /\ Sized(m, 8 + Pad(m.n * 4))
      /\ ReqParse!Rest(m, 8) = Pad(m.n * 4)
      /\ m.sz - ReqParse!FixedSize(m, 8) = Pad(m.n * 4)
      /\ Pad(m.n * 4) \in Int /\ m.n * 4 <= Pad(m.n * 4)
  BY <1>2, <1>4, PaddedRest
<1>6. MembersOf(m) = m.n /\ ~Misled(m) /\ Short(m.n)
  BY CountedRequestsHold, Zenon DEF CountedRequests, Counted
<1>7. ReqParse!Rest(m, 8) \in Int /\ m.n * 4 <= ReqParse!Rest(m, 8)
  BY <1>4, <1>5
<1> QED
  BY <1>3, <1>4, <1>5, <1>6, <1>7, CountedShape

(* A list of bytes                                                         *)
LEMMA SetPointerMappingRight ==
  ASSUME NEW m, NEW m0, Sent(m, m0), m.kind = "SetPointerMapping"
  PROVE  Right(m, ReqParse!RequestWalk(m))
<1>1. ReqEnc!SetPointerMapping(m0) = 0 + Pad(m.n * 1)
  <2>1. m0.n = m.n /\ m.n \in Nat /\ Pad(m.n) \in Nat
    BY PadFacts DEF Sent
  <2>2. ReqEnc!CARD8 * m0.n = m.n /\ m.n * 1 = m.n
    BY <2>1 DEF ReqEnc!CARD8
  <2> QED
    BY <2>1, <2>2, EncodedPads DEF ReqEnc!SetPointerMapping
<1>2. ReqEnc!Suffix(m0) = 0 + Pad(m.n * 1)
  <2>1. m0.kind = "SetPointerMapping"
    BY DEF Sent
  <2> QED
    BY <1>1, <2>1, Zenon DEF ReqEnc!Suffix
<1>3. ReqParse!RequestWalk(m) =
        ReqParse!Exact(m,
          ReqParse!PaddedList(ReqParse!FixedEncoding(m, 0),
                              ReqParse!Rest(m, 0), m.n, 1))
  BY Zenon DEF ReqParse!RequestWalk, ReqParse!SetPointerMapping
<1>4. /\ 1 \in Nat /\ 0 \in Nat /\ 0 % 4 = 0
      /\ m.n \in Nat /\ m.k \in Nat
  BY DEF Sent
<1>5. /\ Sized(m, 0 + Pad(m.n * 1))
      /\ ReqParse!Rest(m, 0) = Pad(m.n * 1)
      /\ m.sz - ReqParse!FixedSize(m, 0) = Pad(m.n * 1)
      /\ Pad(m.n * 1) \in Int /\ m.n * 1 <= Pad(m.n * 1)
  BY <1>2, <1>4, PaddedRest
<1>6. MembersOf(m) = m.n /\ ~Misled(m) /\ Short(m.n)
  BY CountedRequestsHold, Zenon DEF CountedRequests, Counted
<1>7. ReqParse!Rest(m, 0) \in Int /\ m.n * 1 <= ReqParse!Rest(m, 0)
  BY <1>4, <1>5
<1> QED
  BY <1>3, <1>4, <1>5, <1>6, <1>7, CountedShape

(* A list of strings with their lengths                                    *)
LEMMA SetFontPathRight ==
  ASSUME NEW m, NEW m0, Sent(m, m0), m.kind = "SetFontPath"
  PROVE  Right(m, ReqParse!RequestWalk(m))
<1>1. ReqEnc!SetFontPath(m0) = 4 + Pad(m.n * (1 + m.k))
  BY EncodedPads DEF Sent, ReqEnc!SetFontPath, ReqEnc!CARD16, ReqEnc!STR,
     ReqEnc!CARD8
<1>2. ReqEnc!Suffix(m0) = 4 + Pad(m.n * (1 + m.k))
  <2>1. m0.kind = "SetFontPath"
    BY DEF Sent
  <2> QED
    BY <1>1, <2>1, Zenon DEF ReqEnc!Suffix
<1>3. ReqParse!RequestWalk(m) =
        ReqParse!Loose(m,
          ReqParse!PaddedList(ReqParse!FixedEncoding(m, 4),
                              m.sz - ReqParse!FixedSize(m, 4), m.n, ReqParse!StrMember(m.k)))
  BY Zenon DEF ReqParse!RequestWalk, ReqParse!SetFontPath
<1>4. /\ 1 + m.k \in Nat /\ 4 \in Nat /\ 4 % 4 = 0
      /\ m.n \in Nat /\ m.k \in Nat
  BY DEF Sent
<1>5. /\ Sized(m, 4 + Pad(m.n * (1 + m.k)))
      /\ ReqParse!Rest(m, 4) = Pad(m.n * (1 + m.k))
      /\ m.sz - ReqParse!FixedSize(m, 4) = Pad(m.n * (1 + m.k))
      /\ Pad(m.n * (1 + m.k)) \in Int /\ m.n * (1 + m.k) <= Pad(m.n * (1 + m.k))
  BY <1>2, <1>4, PaddedRest
<1>6. MembersOf(m) = m.n /\ ~Misled(m) /\ Short(m.n)
  BY CountedRequestsHold, Zenon DEF CountedRequests, Counted
<1>7. ReqParse!StrMember(m.k) = 1 + m.k
  BY <1>4, <1>5 DEF ReqParse!StrMember
<1> QED
  BY <1>3, <1>4, <1>5, <1>6, <1>7, CountedShape

(* Characters of two bytes                                                 *)
LEMMA ImageText16Right ==
  ASSUME NEW m, NEW m0, Sent(m, m0), m.kind = "ImageText16"
  PROVE  Right(m, ReqParse!RequestWalk(m))
<1>1. ReqEnc!ImageText16(m0) = 12 + Pad(m.n * 2)
  BY EncodedPads DEF Sent, ReqEnc!ImageText16, ReqEnc!DRAWABLE, ReqEnc!WINDOW,
     ReqEnc!GCONTEXT, ReqEnc!INT16, ReqEnc!CHAR2B, ReqEnc!CARD8
<1>2. ReqEnc!Suffix(m0) = 12 + Pad(m.n * 2)
  <2>1. m0.kind = "ImageText16"
    BY DEF Sent
  <2> QED
    BY <1>1, <2>1, Zenon DEF ReqEnc!Suffix
<1>3. ReqParse!RequestWalk(m) =
        ReqParse!Loose(m,
          ReqParse!PaddedList(ReqParse!FixedEncoding(m, 12),
                              ReqParse!CHAR2B * m.n, m.n, 2))
  BY Zenon DEF ReqParse!RequestWalk, ReqParse!ImageText16
<1>4. /\ 2 \in Nat /\ 12 \in Nat /\ 12 % 4 = 0
      /\ m.n \in Nat /\ m.k \in Nat
  BY DEF Sent
<1>5. /\ Sized(m, 12 + Pad(m.n * 2))
      /\ ReqParse!Rest(m, 12) = Pad(m.n * 2)
      /\ m.sz - ReqParse!FixedSize(m, 12) = Pad(m.n * 2)
      /\ Pad(m.n * 2) \in Int /\ m.n * 2 <= Pad(m.n * 2)
  BY <1>2, <1>4, PaddedRest
<1>6. MembersOf(m) = m.n /\ ~Misled(m) /\ Short(m.n)
  BY CountedRequestsHold, Zenon DEF CountedRequests, Counted
<1>7. ReqParse!CHAR2B * m.n \in Int /\ m.n * 2 <= ReqParse!CHAR2B * m.n
  BY <1>4, <1>5 DEF ReqParse!CHAR2B, ReqParse!CARD8
<1> QED
  BY <1>3, <1>4, <1>5, <1>6, <1>7, CountedShape

-----------------------------------------------------------------------------
(* Requests whose parse functions have a shape of their own                *)

(* Bytes that are skipped                                                  *)
LEMMA RawShape ==
  ASSUME NEW m, NEW e \in Nat, NEW r \in Nat, Sized(m, e + r)
  PROVE  Sound(ReqParse!Unparsed(ReqParse!FixedEncoding(m, e), r), m.sz, 0)
<1> DEFINE fe == ReqParse!FixedEncoding(m, e)
           base == Prefix(m) + e
<1>1. Sound(fe, base, 0) /\ base \in Nat /\ m.sz = base + r
  BY RequestFixed
<1>2. ReqParse!Unparsed(fe, r) = Unparsed(fe, r)
  BY RequestSteps
<1> HIDE DEF fe, base
<1>3. Sound(Unparsed(fe, r), base + r, 0)
  BY <1>1, UnparsedSound
<1> QED
  BY <1>1, <1>2, <1>3 DEF fe

(* Requests that are skipped as raw bytes: no members to mislead           *)
LEMMA RawRequestsHold ==
  ASSUME NEW m, NEW m0, Sent(m, m0),
         m.kind \in {"PutImage", "UnknownRequest", "NoOperation"}
  PROVE  MembersOf(m) = 0 /\ ~Misled(m)
<1>1. ReqEnc!Members(m) = 0
  BY DEF ReqEnc!Members, ReqEnc!Texts
<1>2. ~Misled(m)
  BY DEF Sent, Misled, NotOpened, CountCut, WrongLength, Unswapped,
     NotExpected, ReqEnc!CountsFit, ReqEnc!Texts, ReqEnc!CountsFromLength
<1> QED
  BY <1>1, <1>2, SentMembers

(* PutImage skips what the length field leaves.                            *)
LEMMA PutImageRight ==
  ASSUME NEW m, NEW m0, Sent(m, m0), m.kind = "PutImage"
  PROVE  Right(m, ReqParse!RequestWalk(m))
<1>1. ReqEnc!PutImage(m0) = 20 + Pad(m.n)
  BY EncodedPads DEF Sent, ReqEnc!PutImage, ReqEnc!DRAWABLE, ReqEnc!WINDOW,
     ReqEnc!GCONTEXT, ReqEnc!CARD16, ReqEnc!INT16, ReqEnc!CARD8
<1>2. ReqEnc!Suffix(m0) = 20 + Pad(m.n)
  <2>1. m0.kind = "PutImage"
    BY DEF Sent
  <2> QED
    BY <1>1, <2>1, Zenon DEF ReqEnc!Suffix
<1>3. ReqParse!RequestWalk(m) =
        ReqParse!Exact(m,
          ReqParse!Unparsed(ReqParse!FixedEncoding(m, 20),
                            ReqParse!Pad(ReqParse!Rest(m, 20))))
  BY Zenon DEF ReqParse!RequestWalk, ReqParse!PutImage
<1> DEFINE r == Pad(m.n)
<1>4. r \in Nat /\ r % 4 = 0 /\ 20 \in Nat
  BY PadFacts DEF Sent
<1>5. Sized(m, 20 + r) /\ ReqParse!Pad(ReqParse!Rest(m, 20)) = r
  <2> HIDE DEF r
  <2>1. 20 + r \in Nat /\ (20 + r) % 4 = 0
    BY <1>4
  <2>2. Sized(m, 20 + r)
    BY <1>2, <2>1, SentSized DEF r
  <2>3. ReqParse!Rest(m, 20) = r
    BY <1>4, <2>2, RequestFixed
  <2> QED
    BY <1>4, <2>2, <2>3, PadOfAligned, RequestSteps
<1>6. MembersOf(m) = 0 /\ ~Misled(m)
  BY RawRequestsHold
<1> HIDE DEF r
<1>7. Sound(ReqParse!Unparsed(ReqParse!FixedEncoding(m, 20), r), m.sz, 0)
  BY <1>4, <1>5, RawShape
<1> QED
  BY <1>3, <1>5, <1>6, <1>7, RequestRight

(* The request of an unknown extension is skipped.                         *)
LEMMA UnknownRequestRight ==
  ASSUME NEW m, NEW m0, Sent(m, m0), m.kind = "UnknownRequest"
  PROVE  Right(m, ReqParse!RequestWalk(m))
<1>1. ReqEnc!UnknownRequest(m0) = 0 + Pad(m.n)
  BY EncodedPads, PadFacts DEF Sent, ReqEnc!UnknownRequest,
     ReqEnc!SimpleRequest
<1>2. ReqEnc!Suffix(m0) = 0 + Pad(m.n)
  <2>1. m0.kind = "UnknownRequest"
    BY DEF Sent
  <2> QED
    BY <1>1, <2>1, Zenon DEF ReqEnc!Suffix
<1>3. ReqParse!RequestWalk(m) =
        ReqParse!Exact(m,
          ReqParse!Unparsed(ReqParse!FixedEncoding(m, 0),
                            ReqParse!Pad(ReqParse!Rest(m, 0))))
  BY Zenon DEF ReqParse!RequestWalk, ReqParse!UnknownRequest
<1> DEFINE r == Pad(m.n)
<1>4. r \in Nat /\ r % 4 = 0 /\ 0 \in Nat
  BY PadFacts DEF Sent
<1>5. Sized(m, 0 + r) /\ ReqParse!Pad(ReqParse!Rest(m, 0)) = r
  <2> HIDE DEF r
  <2>1. 0 + r \in Nat /\ (0 + r) % 4 = 0
    BY <1>4
  <2>2. Sized(m, 0 + r)
    BY <1>2, <2>1, SentSized DEF r
  <2>3. ReqParse!Rest(m, 0) = r
    BY <1>4, <2>2, RequestFixed
  <2> QED
    BY <1>4, <2>2, <2>3, PadOfAligned, RequestSteps
<1>6. MembersOf(m) = 0 /\ ~Misled(m)
  BY RawRequestsHold
<1> HIDE DEF r
<1>7. Sound(ReqParse!Unparsed(ReqParse!FixedEncoding(m, 0), r), m.sz, 0)
  BY <1>4, <1>5, RawShape
<1> QED
  BY <1>3, <1>5, <1>6, <1>7, RequestRight

(* So is what follows a NoOperation.                                       *)
LEMMA NoOperationRight ==
  ASSUME NEW m, NEW m0, Sent(m, m0), m.kind = "NoOperation"
  PROVE  Right(m, ReqParse!RequestWalk(m))
<1>1. ReqEnc!NoOperation(m0) = 0 + Pad(m.n)
  BY EncodedPads, PadFacts DEF Sent, ReqEnc!NoOperation, ReqEnc!SimpleRequest
<1>2. ReqEnc!Suffix(m0) = 0 + Pad(m.n)
  <2>1. m0.kind = "NoOperation"
    BY DEF Sent
  <2> QED
    BY <1>1, <2>1, Zenon DEF ReqEnc!Suffix
<1>3. ReqParse!RequestWalk(m) =
        ReqParse!Exact(m,
          ReqParse!Unparsed(ReqParse!FixedEncoding(m, 0),
                            ReqParse!Rest(m, 0)))
  BY Zenon DEF ReqParse!RequestWalk, ReqParse!NoOperation
<1> DEFINE r == Pad(m.n)
<1>4. r \in Nat /\ r % 4 = 0 /\ 0 \in Nat
  BY PadFacts DEF Sent
<1>5. Sized(m, 0 + r) /\ ReqParse!Rest(m, 0) = r
  <2> HIDE DEF r
  <2>1. 0 + r \in Nat /\ (0 + r) % 4 = 0
    BY <1>4
  <2>2. Sized(m, 0 + r)
    BY <1>2, <2>1, SentSized DEF r
  <2>3. ReqParse!Rest(m, 0) = r
    BY <1>4, <2>2, RequestFixed
  <2> QED
    BY <1>4, <2>2, <2>3, PadOfAligned, RequestSteps
<1>6. MembersOf(m) = 0 /\ ~Misled(m)
  BY RawRequestsHold
<1> HIDE DEF r
<1>7. Sound(ReqParse!Unparsed(ReqParse!FixedEncoding(m, 0), r), m.sz, 0)
  BY <1>4, <1>5, RawShape
<1> QED
  BY <1>3, <1>5, <1>6, <1>7, RequestRight

(* An event of an extension that nobody has registered is not found.       *)
LEMMA SendEventRight ==
  ASSUME NEW m, NEW m0, Sent(m, m0), m.kind = "SendEvent"
  PROVE  Right(m, ReqParse!RequestWalk(m))
<1>1. ReqEnc!SendEvent(m0) = 40
  BY EncodedPads DEF Sent, ReqEnc!SendEvent, ReqEnc!WINDOW, ReqEnc!SETofEVENT,
     ReqEnc!ENCODING_SZ
<1>2. ReqEnc!Suffix(m0) = 40
  <2>1. m0.kind = "SendEvent"
    BY DEF Sent
  <2> QED
    BY <1>1, <2>1, Zenon DEF ReqEnc!Suffix
<1>3. ReqParse!RequestWalk(m) =
        ReqParse!Loose(m, ReqParse!Asserting(
          ReqParse!Unparsed(ReqParse!FixedEncoding(m, 8), 32), ~m.opt))
  BY Zenon DEF ReqParse!RequestWalk, ReqParse!SendEvent,
     ReqParse!ENCODING_SZ
<1> DEFINE w == ReqParse!Unparsed(ReqParse!FixedEncoding(m, 8), 32)
           c == ~m.opt
<1>4. Sized(m, 8 + 32)
  BY <1>2, SentSized
<1>5. Sound(w, m.sz, 0)
  BY <1>4, RawShape
<1>6. m.n = 0
  BY DEF Sent, ReqEnc!CountsFit, ReqEnc!ValueLists, ReqEnc!CountsOf8Bits,
     ReqEnc!CountsOf16Bits, ReqEnc!CountsFromLength
<1>7. MembersOf(m) = 0
  BY <1>6, SentMembers DEF ReqEnc!Members, ReqEnc!Texts
<1>8. Misled(m) <=> m.opt
  BY <1>6 DEF Sent, Misled, NotOpened, CountCut, WrongLength, Unswapped,
     NotExpected, ReqEnc!CountsFit, ReqEnc!Texts
<1>9. m.sz \in Nat /\ c \in BOOLEAN
  BY <1>4, RequestFixed DEF Sent
<1>10. ReqParse!Asserting(w, c) = Asserting(w, c)
  BY RequestSteps
<1>11. Right(m, ReqParse!Loose(m, ReqParse!Asserting(w, c)))
  <2> HIDE DEF w
  <2>1. CASE m.opt
    <3>1. w \in Walks
      BY <1>5 DEF Sound
    <3> HIDE DEF c
    <3>2. Asserting(w, c) \in Walks /\ (Asserting(w, c).ok => c)
      BY <1>9, <3>1, AssertingType, Zenon
    <3>3. Astray(m, Asserting(w, c))
      BY <2>1, <3>2, AstrayStopped DEF c
    <3> QED
      BY <1>4, <1>8, <1>10, <2>1, <3>3, RequestWrong
  <2>2. CASE ~m.opt
    <3>1. Sound(Asserting(w, c), m.sz, 0)
      BY <1>5, <1>9, <2>2, AssertingSound
    <3> HIDE DEF c
    <3> QED
      BY <1>4, <1>7, <1>8, <1>10, <2>2, <3>1, RequestRight
  <2> QED
    BY <2>1, <2>2
<1> QED
  BY <1>3, <1>11

(* A property is a string, or a list of bytes whose count may be cut.      *)
LEMMA ChangePropertyRight ==
  ASSUME NEW m, NEW m0, Sent(m, m0), m.kind = "ChangeProperty"
  PROVE  Right(m, ReqParse!RequestWalk(m))
<1>1. ReqEnc!ChangeProperty(m0) = 20 + Pad(m.n * m.k)
  <2>1. m0.n = m.n /\ m0.k = m.k /\ m.k * m.n = m.n * m.k
    BY DEF Sent
  <2>2. Pad(m.n * m.k) \in Nat
    BY PadFacts DEF Sent
  <2> QED
    BY <2>1, <2>2, EncodedPads DEF ReqEnc!ChangeProperty, ReqEnc!WINDOW,
       ReqEnc!ATOM, ReqEnc!CARD8, ReqEnc!CARD32
<1>2. ReqEnc!Suffix(m0) = 20 + Pad(m.n * m.k)
  <2>1. m0.kind = "ChangeProperty"
    BY DEF Sent
  <2> QED
    BY <1>1, <2>1, Zenon DEF ReqEnc!Suffix
<1>3. ReqParse!RequestWalk(m) =
        ReqParse!Loose(m,
          IF m.opt THEN ReqParse!String8(ReqParse!FixedEncoding(m, 20), m.n * m.k)
          ELSE ReqParse!PaddedList(ReqParse!FixedEncoding(m, 20),
                                   m.n * m.k, m.n * m.k, 1))
  BY Zenon DEF ReqParse!RequestWalk, ReqParse!ChangeProperty
<1> DEFINE fe == ReqParse!FixedEncoding(m, 20)
           d == m.n * m.k
           base == Prefix(m) + 20
<1>4. d \in Nat
  BY DEF Sent
<1>5. /\ MembersOf(m) = d
      /\ Misled(m) <=> ~m.opt /\ ~Short(d)
  <2>1. MembersOf(m) = d
    BY SentMembers DEF ReqEnc!Members, ReqEnc!Texts
  <2> HIDE DEF d
  <2>2. Misled(m) <=> ~m.opt /\ d >= 65536
    BY DEF Sent, Misled, NotOpened, CountCut, WrongLength, Unswapped,
       NotExpected, ReqEnc!CountsFit, ReqEnc!Texts, ReqEnc!CountsFromLength, d
  <2>3. ~Short(d) <=> d >= 65536
    BY <1>4 DEF Short
  <2> QED
    BY <2>1, <2>2, <2>3
<1>6. /\ Sized(m, 20 + Pad(d)) /\ Sound(fe, base, 0) /\ base \in Nat
      /\ m.sz = base + Pad(d)
  <2> HIDE DEF d
  <2>1. Pad(d) \in Nat /\ Pad(d) % 4 = 0
    BY <1>4, PadFacts
  <2>2. 20 + Pad(d) \in Nat /\ (20 + Pad(d)) % 4 = 0
    BY <2>1
  <2>3. Sized(m, 20 + Pad(d))
    BY <1>2, <2>2, SentSized DEF d
  <2> QED
    BY <2>1, <2>3, RequestFixed
<1> HIDE DEF d, base, fe
<1>7. CASE m.opt
  <2>1. Sound(String8(fe, d), base + Pad(d), 0 + d)
    BY <1>4, <1>6, String8Sound
  <2>2. Sound(ReqParse!String8(fe, d), m.sz, d)
    BY <1>4, <1>6, <2>1, RequestSteps
  <2>3. Right(m, ReqParse!Loose(m, ReqParse!String8(fe, d)))
    BY <1>4, <1>5, <1>6, <1>7, <2>2, RequestRight
  <2>4. ReqParse!RequestWalk(m) = ReqParse!Loose(m, ReqParse!String8(fe, d))
    BY <1>3, <1>7 DEF fe, d
  <2> QED
    BY <2>3, <2>4
<1>8. CASE ~m.opt
  <2> DEFINE w == PaddedList(fe, d, d, 1)
  <2>1. d \in Int /\ d * 1 <= d /\ d * 1 = d /\ 1 \in Nat /\ 0 \in Nat
    BY <1>4
  <2>2. Short(d) => Sound(w, m.sz, d)
    <3>1. HAVE Short(d)
    <3>2. Sound(w, base + Pad(d * 1), 0 + d)
      BY <1>4, <1>6, <2>1, <3>1, PaddedListSound
    <3> QED
      BY <1>4, <1>6, <2>1, <3>2
  <2>3. ~Short(d) => Astray(m, w)
    <3>1. HAVE ~Short(d)
    <3> DEFINE c == d % 65536
    <3>2. c \in Nat /\ c + 3 < d /\ c * 1 = c
      BY <1>4, <3>1 DEF Short
    <3>3. w \in Walks /\ w.at = base + Pad(c * 1)
      BY <1>4, <1>6, <2>1, PaddedListType DEF Sound
    <3> HIDE DEF c, w
    <3>4. Pad(c) < Pad(d) /\ Pad(c) \in Nat /\ Pad(d) \in Nat
      BY <1>4, <3>2, PadFacts
    <3> QED
      BY <1>6, <3>2, <3>3, <3>4, AstrayElsewhere
  <2> HIDE DEF w
  <2>4. Right(m, ReqParse!Loose(m, w))
    BY <1>4, <1>5, <1>6, <1>8, <2>2, <2>3, RequestRight, RequestWrong
  <2>5. ReqParse!RequestWalk(m) = ReqParse!Loose(m, ReqParse!PaddedList(fe, d, d, 1))
    BY <1>3, <1>8 DEF fe, d
  <2> QED
    BY <2>4, <2>5, RequestSteps DEF w
<1> QED
  BY <1>7, <1>8

(* A list takes its count from the low 16 bits alone.                      *)
LEMMA ListCut ==
  ASSUME NEW w, NEW sz, NEW ct \in Int, NEW memb_sz
  PROVE  List(w, sz, ct, memb_sz) = List(w, sz, ct % 65536, memb_sz)
<1>1. (ct % 65536) % 65536 = ct % 65536
  OBVIOUS
<1> QED
  BY <1>1, SMT DEF List

(* The length that odd_length and the padded size of a string of two-byte  *)
(* characters give is the string's.                                        *)
LEMMA PadOfTwice ==
  ASSUME NEW n \in Nat
  PROVE  /\ Pad(2 * n) \in Nat /\ Pad(2 * n) % 4 = 0 /\ 2 * n <= Pad(2 * n)
         /\ Pad(2 * n) \div 2 - (IF n % 2 = 1 THEN 1 ELSE 0) = n
<1> DEFINE q == n \div 2
           r == Pad(2 * n)
<1>1. q \in Nat
  OBVIOUS
<1>2. CASE n = 2 * q + 1
  <2> HIDE DEF q
  <2>1. r = 4 * q + 4
    BY <1>1, <1>2 DEF Pad, ALIGN
  <2>2. n % 2 = 1
    BY <1>1, <1>2
  <2> HIDE DEF r
  <2>3. r \in Nat /\ r % 4 = 0 /\ 2 * n <= r /\ r \div 2 - 1 = n
    BY <1>1, <1>2, <2>1
  <2> QED
    BY <2>2, <2>3 DEF r
<1>3. CASE n = 2 * q
  <2> HIDE DEF q
  <2>1. r = 4 * q
    BY <1>1, <1>3 DEF Pad, ALIGN
  <2>2. n % 2 = 0
    BY <1>1, <1>3
  <2> HIDE DEF r
  <2>3. r \in Nat /\ r % 4 = 0 /\ 2 * n <= r /\ r \div 2 - 0 = n
    BY <1>1, <1>3, <2>1
  <2> QED
    BY <2>2, <2>3 DEF r
<1>4. n = 2 * q + 1 \/ n = 2 * q
  OBVIOUS
<1> QED
  BY <1>2, <1>3, <1>4

(* The string of a QueryTextExtents may be cut, but not the request.       *)
LEMMA QueryTextExtentsRight ==
  ASSUME NEW m, NEW m0, Sent(m, m0), m.kind = "QueryTextExtents"
  PROVE  Right(m, ReqParse!RequestWalk(m))
<1>1. ReqEnc!QueryTextExtents(m0) = 4 + Pad(2 * m.n)
  BY EncodedPads DEF Sent, ReqEnc!QueryTextExtents, ReqEnc!FONTABLE,
     ReqEnc!FONT, ReqEnc!CHAR2B, ReqEnc!CARD8
<1>2. ReqEnc!Suffix(m0) = 4 + Pad(2 * m.n)
  <2>1. m0.kind = "QueryTextExtents"
    BY DEF Sent
  <2> QED
    BY <1>1, <2>1, Zenon DEF ReqEnc!Suffix
<1>3. ReqParse!RequestWalk(m) =
        LET rest == ReqParse!Rest(m, 4)
            odd == IF m.n % 2 = 1 THEN 1 ELSE 0
            string == ReqParse!List(ReqParse!FixedEncoding(m, 4), rest,
                                    rest \div 2 - odd, 2)
        IN  ReqParse!Exact(m,
              [string EXCEPT !.at = ReqParse!FixedSize(m, 4) + rest])
  BY DEF ReqParse!RequestWalk, ReqParse!QueryTextExtents
<1> DEFINE r == Pad(2 * m.n)
           c == m.n % 65536
           fe == ReqParse!FixedEncoding(m, 4)
           base == Prefix(m) + 4
<1>4. /\ m.n \in Nat /\ r \in Nat /\ r % 4 = 0 /\ 2 * m.n <= r
      /\ r \div 2 - (IF m.n % 2 = 1 THEN 1 ELSE 0) = m.n
  <2>1. m.n \in Nat
    BY DEF Sent
  <2> QED
    BY <2>1, PadOfTwice
<1>5. c \in Nat /\ Short(c) /\ c <= m.n /\ (Short(m.n) => c = m.n)
  BY <1>4 DEF Short
<1>6. MembersOf(m) = m.n /\ ~Misled(m)
  <2>1. ReqEnc!Members(m) = m.n
    BY DEF ReqEnc!Members, ReqEnc!Texts
  <2>2. ~Misled(m)
    BY DEF Sent, Misled, NotOpened, CountCut, WrongLength, Unswapped,
       NotExpected, ReqEnc!CountsFit, ReqEnc!Texts
  <2> QED
    BY <2>1, <2>2, SentMembers
<1>7. ~Short(m.n) => LostItems(m) /\ c < m.n
  <2>1. ~Short(m.n) => m.n >= 65536 /\ c < m.n
    BY <1>4 DEF Short
  <2>2. m.n >= 65536 => LostItems(m)
    BY DEF Sent, LostItems
  <2> QED
    BY <2>1, <2>2
<1> HIDE DEF r, c
<1>8. /\ Sized(m, 4 + r) /\ Sound(fe, base, 0) /\ base \in Nat
      /\ m.sz = base + r /\ m.sz \in Nat
      /\ ReqParse!Rest(m, 4) = r /\ ReqParse!FixedSize(m, 4) = base
  <2>1. 4 + r \in Nat /\ (4 + r) % 4 = 0
    BY <1>4
  <2>2. Sized(m, 4 + r)
    BY <1>2, <2>1, SentSized DEF r
  <2> QED
    BY <1>4, <2>2, RequestFixed
<1> HIDE DEF fe, base
<1> DEFINE string == List(fe, r, c, 2)
           w == [string EXCEPT !.at = base + r]
<1>9. ReqParse!RequestWalk(m) = ReqParse!Exact(m, w)
  <2>1. List(fe, r, m.n, 2) = string
    BY <1>4, ListCut DEF c
  <2> HIDE DEF string
  <2>2. ReqParse!List(fe, r, m.n, 2) = string
    BY <2>1, RequestSteps
  <2> QED
    BY <1>3, <1>4, <1>8, <2>2, Zenon DEF fe
<1>10. Sound(w, m.sz, c)
  <2>1. c * 2 <= r /\ r \in Int /\ 0 \in Nat /\ 2 \in Nat
    BY <1>4, <1>5
  <2>2. Sound(string, base + c * 2, 0 + c)
    BY <1>5, <1>8, <2>1, ListSound
  <2> HIDE DEF string
  <2>3. /\ string \in Walks /\ string.ok = TRUE /\ string.logged = c
        /\ string.reach <= base + r /\ base + r \in Int
    BY <1>4, <1>5, <1>8, <2>1, <2>2 DEF Sound, Walks
  <2> QED
    BY <1>8, <2>3 DEF Sound, Walks
<1> HIDE DEF w
<1> DEFINE v == ReqParse!Exact(m, w)
<1>11. Sound(v, m.sz, c)
  BY <1>5, <1>8, <1>10, RequestEnds
<1> HIDE DEF v
<1>12. Right(m, v)
  <2>1. v \in Walks /\ v.ok = TRUE /\ v.at = m.sz /\ v.logged = c
    BY <1>11 DEF Sound
  <2>2. Ends(m, v)
    BY <2>1, Zenon DEF Ends
  <2>3. v.reach <= m.sz + (IF m.kind \in ReqEnc!Texts THEN 1 ELSE 0)
    BY <1>8, <1>11 DEF Sound, Walks
  <2>4. \/ v.logged = MembersOf(m)
        \/ LostItems(m) /\ v.logged < MembersOf(m)
    <3>1. CASE Short(m.n)
      BY <1>5, <1>6, <2>1, <3>1, Zenon
    <3>2. CASE ~Short(m.n)
      BY <1>6, <1>7, <2>1, <3>2, Zenon
    <3> QED
      BY <3>1, <3>2
  <2>5. Aligned(m)
    BY <1>8, RequestSize
  <2> QED
    BY <1>6, <2>1, <2>2, <2>3, <2>4, <2>5, Zenon DEF Right, Aligned
<1> QED
  BY <1>9, <1>12 DEF v

(* The size of the arcs is taken in units instead of bytes.                *)
LEMMA PolyArcRight ==
  ASSUME NEW m, NEW m0, Sent(m, m0), m.kind = "PolyArc"
  PROVE  Right(m, ReqParse!RequestWalk(m))
<1>1. ReqEnc!PolyArc(m0) = 8 + m.n * 12
  BY EncodedPads DEF Sent, ReqEnc!PolyArc, ReqEnc!DRAWABLE, ReqEnc!WINDOW,
     ReqEnc!GCONTEXT, ReqEnc!ARC, ReqEnc!INT16, ReqEnc!CARD16
<1>2. ReqEnc!Suffix(m0) = 8 + m.n * 12
  <2>1. m0.kind = "PolyArc"
    BY DEF Sent
  <2> QED
    BY <1>1, <2>1, Zenon DEF ReqEnc!Suffix
<1>3. ReqParse!RequestWalk(m) =
        ReqParse!Exact(m, ReqParse!ListTillEnd(ReqParse!FixedEncoding(m, 8),
                                             ReqParse!TlUnits(m) - ReqParse!FixedSize(m, 8), 12))
  BY Zenon DEF ReqParse!RequestWalk, ReqParse!PolyArc
<1> DEFINE fe == ReqParse!FixedEncoding(m, 8)
           base == Prefix(m) + 8
           sz == ReqParse!TlUnits(m) - ReqParse!FixedSize(m, 8)
<1>4. m.n \in Nat
  BY DEF Sent
<1>5. /\ Sized(m, 8 + m.n * 12) /\ Sound(fe, base, 0) /\ base \in Nat
      /\ m.sz = base + m.n * 12 /\ ReqParse!FixedSize(m, 8) = base
  <2> DEFINE r == m.n * 12
  <2>1. r \in Nat /\ 8 + r \in Nat /\ (8 + r) % 4 = 0
    BY <1>4
  <2> HIDE DEF r
  <2>2. Sized(m, 8 + r)
    BY <1>2, <2>1, SentSized DEF r
  <2>3. /\ Sound(fe, base, 0) /\ base \in Nat /\ m.sz = base + r
        /\ ReqParse!FixedSize(m, 8) = base
    <3> HIDE DEF sz, fe, base
    <3>1. 8 \in Nat /\ r \in Nat
      BY <2>1
    <3> QED
      BY <2>2, <3>1, RequestFixed DEF fe, base
  <2> QED
    BY <2>2, <2>3 DEF r
<1>6. MembersOf(m) = m.n
  BY SentMembers DEF ReqEnc!Members, ReqEnc!Texts
<1>7. Prefix(m) = IF m.big THEN 8 ELSE 4
  BY DEF Prefix
<1>8. Misled(m)
  BY DEF Sent, Misled, NotOpened, CountCut, WrongLength, Unswapped,
     NotExpected, ReqEnc!CountsFit, ReqEnc!Texts, ReqEnc!CountsFromLength
<1>9. sz \in Int /\ 4 * sz = 12 * m.n - 3 * base
  <2>1. 4 * ReqParse!TlUnits(m) = m.sz /\ ReqParse!TlUnits(m) \in Nat
    <3>1. Aligned(m) /\ 4 * ReqParse!TlUnits(m) = m.sz
      BY <1>5, RequestSize
    <3> QED
      BY <3>1 DEF Aligned, ReqParse!TlUnits, ReqParse!ALIGN
  <2> QED
    BY <1>4, <1>5, <2>1
<1> DEFINE ct == sz \div 12
           c == ct % 65536
           w == ReqParse!ListTillEnd(fe, sz, 12)
<1>10. w = PaddedList(fe, sz, ct, 12)
  BY RequestSteps
<1> HIDE DEF fe, base, sz
<1>11. ct \in Int /\ 12 \in Nat
  BY <1>9
<1>12. c \in Nat /\ (sz >= 0 => c <= ct /\ c * 12 < m.n * 12)
  <2>1. c \in Nat /\ (ct \in Nat => c <= ct)
    BY <1>11
  <2>2. sz >= 0 => ct \in Nat /\ ct * 12 <= sz /\ sz < m.n * 12
    BY <1>4, <1>5, <1>7, <1>9 DEF base
  <2> HIDE DEF c, ct
  <2> QED
    BY <1>4, <1>9, <1>11, <2>1, <2>2
<1>13. /\ w \in Walks /\ w.at = base + Pad(c * 12)
       /\ w.ok => sz >= 0
  BY <1>5, <1>9, <1>10, <1>11, PaddedListType DEF Sound
<1> HIDE DEF ct, c, w
<1>14. Pad(c * 12) = c * 12
  <2>1. c * 12 \in Nat /\ (c * 12) % 4 = 0
    BY <1>12
  <2> QED
    BY <2>1, PadOfAligned
<1>15. Astray(m, w)
  <2>1. CASE sz >= 0
    <3>1. w.at # m.sz
      BY <1>4, <1>5, <1>12, <1>13, <1>14, <2>1
    <3> QED
      BY <1>13, <3>1, AstrayElsewhere
  <2>2. CASE ~(sz >= 0)
    BY <1>13, <2>2, AstrayStopped, Zenon
  <2> QED
    BY <2>1, <2>2
<1>16. Right(m, ReqParse!Exact(m, w))
  BY <1>5, <1>8, <1>15, RequestWrong
<1> QED
  BY <1>3, <1>16 DEF w, fe, sz

(* The length field is counted among the arcs, but does not make one more. *)
LEMMA PolyFillArcRight ==
  ASSUME NEW m, NEW m0, Sent(m, m0), m.kind = "PolyFillArc"
  PROVE  Right(m, ReqParse!RequestWalk(m))
<1>1. ReqEnc!PolyFillArc(m0) = 8 + m.n * 12
  BY EncodedPads DEF Sent, ReqEnc!PolyFillArc, ReqEnc!DRAWABLE, ReqEnc!WINDOW,
     ReqEnc!GCONTEXT, ReqEnc!ARC, ReqEnc!INT16, ReqEnc!CARD16
<1>2. ReqEnc!Suffix(m0) = 8 + m.n * 12
  <2>1. m0.kind = "PolyFillArc"
    BY DEF Sent
  <2> QED
    BY <1>1, <2>1, Zenon DEF ReqEnc!Suffix
<1>3. ReqParse!RequestWalk(m) =
        ReqParse!Exact(m, ReqParse!ListTillEnd(ReqParse!FixedEncoding(m, 8),
                                             ReqParse!Size(ReqParse!TlUnits(m)) - 8, 12))
  BY Zenon DEF ReqParse!RequestWalk, ReqParse!PolyFillArc
<1> DEFINE fe == ReqParse!FixedEncoding(m, 8)
           base == Prefix(m) + 8
           sz == ReqParse!Size(ReqParse!TlUnits(m)) - 8
<1>4. m.n \in Nat
  BY DEF Sent
<1>5. /\ Sized(m, 8 + m.n * 12) /\ Sound(fe, base, 0) /\ base \in Nat
      /\ m.sz = base + m.n * 12 /\ ReqParse!FixedSize(m, 8) = base
  <2> DEFINE r == m.n * 12
  <2>1. r \in Nat /\ 8 + r \in Nat /\ (8 + r) % 4 = 0
    BY <1>4
  <2> HIDE DEF r
  <2>2. Sized(m, 8 + r)
    BY <1>2, <2>1, SentSized DEF r
  <2>3. /\ Sound(fe, base, 0) /\ base \in Nat /\ m.sz = base + r
        /\ ReqParse!FixedSize(m, 8) = base
    <3> HIDE DEF sz, fe, base
    <3>1. 8 \in Nat /\ r \in Nat
      BY <2>1
    <3> QED
      BY <2>2, <3>1, RequestFixed DEF fe, base
  <2> QED
    BY <2>2, <2>3 DEF r
<1>6. MembersOf(m) = m.n
  BY SentMembers DEF ReqEnc!Members, ReqEnc!Texts
<1>7. Prefix(m) = IF m.big THEN 8 ELSE 4
  BY DEF Prefix
<1>8. Misled(m) <=> ~Short(m.n)
  <2>1. Misled(m) <=> m.n >= 65536
    BY DEF Sent, Misled, NotOpened, CountCut, WrongLength, Unswapped,
       NotExpected, ReqEnc!CountsFit, ReqEnc!Texts, ReqEnc!CountsFromLength
  <2> QED
    BY <1>4, <2>1 DEF Short
<1>9. sz \in Int /\ sz = Prefix(m) + m.n * 12
  <2>1. sz = m.sz - 8 /\ Prefix(m) \in Nat
    BY <1>5, RequestRest, RequestSize
  <2> QED
    BY <1>4, <1>5, <2>1
<1>10. base % 4 = 0
  BY <1>5, RequestSize
<1> DEFINE w == ReqParse!ListTillEnd(fe, sz, 12)
<1> HIDE DEF fe, base, sz
<1>11. sz \div 12 = m.n /\ m.n * 12 <= sz /\ 12 \in {4, 8, 12}
  <2>1. sz = 8 + 12 * m.n \/ sz = 4 + 12 * m.n
    BY <1>4, <1>7, <1>9
  <2> QED
    BY <1>4, <2>1
<1>12. /\ Short(m.n) => Sound(w, m.sz, m.n)
       /\ ~Short(m.n) => Astray(m, w)
  BY <1>4, <1>5, <1>9, <1>10, <1>11, TillEndWalk
<1> HIDE DEF w
<1>13. Right(m, ReqParse!Exact(m, w))
  BY <1>4, <1>5, <1>6, <1>8, <1>12, RequestRight, RequestWrong
<1> QED
  BY <1>3, <1>13 DEF w, fe, sz

(* With the length field of a big request there is room for one more.      *)
LEMMA PolyFillRectangleRight ==
  ASSUME NEW m, NEW m0, Sent(m, m0), m.kind = "PolyFillRectangle"
  PROVE  Right(m, ReqParse!RequestWalk(m))
<1>1. ReqEnc!PolyFillRectangle(m0) = 8 + m.n * 8
  BY EncodedPads DEF Sent, ReqEnc!PolyFillRectangle, ReqEnc!DRAWABLE,
     ReqEnc!WINDOW, ReqEnc!GCONTEXT, ReqEnc!RECTANGLE, ReqEnc!INT16,
     ReqEnc!CARD16
<1>2. ReqEnc!Suffix(m0) = 8 + m.n * 8
  <2>1. m0.kind = "PolyFillRectangle"
    BY DEF Sent
  <2> QED
    BY <1>1, <2>1, Zenon DEF ReqEnc!Suffix
<1>3. ReqParse!RequestWalk(m) =
        ReqParse!Exact(m, ReqParse!ListTillEnd(ReqParse!FixedEncoding(m, 8),
                                             ReqParse!Size(ReqParse!TlUnits(m)) - 8, 8))
  BY Zenon DEF ReqParse!RequestWalk, ReqParse!PolyFillRectangle
<1> DEFINE fe == ReqParse!FixedEncoding(m, 8)
           base == Prefix(m) + 8
           sz == ReqParse!Size(ReqParse!TlUnits(m)) - 8
<1>4. m.n \in Nat
  BY DEF Sent
<1>5. /\ Sized(m, 8 + m.n * 8) /\ Sound(fe, base, 0) /\ base \in Nat
      /\ m.sz = base + m.n * 8 /\ ReqParse!FixedSize(m, 8) = base
  <2> DEFINE r == m.n * 8
  <2>1. r \in Nat /\ 8 + r \in Nat /\ (8 + r) % 4 = 0
    BY <1>4
  <2> HIDE DEF r
  <2>2. Sized(m, 8 + r)
    BY <1>2, <2>1, SentSized DEF r
  <2>3. /\ Sound(fe, base, 0) /\ base \in Nat /\ m.sz = base + r
        /\ ReqParse!FixedSize(m, 8) = base
    <3> HIDE DEF sz, fe, base
    <3>1. 8 \in Nat /\ r \in Nat
      BY <2>1
    <3> QED
      BY <2>2, <3>1, RequestFixed DEF fe, base
  <2> QED
    BY <2>2, <2>3 DEF r
<1>6. MembersOf(m) = m.n
  BY SentMembers DEF ReqEnc!Members, ReqEnc!Texts
<1>7. Prefix(m) = IF m.big THEN 8 ELSE 4
  BY DEF Prefix
<1>8. Misled(m) <=> m.big \/ ~Short(m.n)
  <2>1. Misled(m) <=> m.big \/ m.n >= 65536
    BY DEF Sent, Misled, NotOpened, CountCut, WrongLength, Unswapped,
       NotExpected, ReqEnc!CountsFit, ReqEnc!Texts, ReqEnc!CountsFromLength
  <2> QED
    BY <1>4, <2>1 DEF Short
<1>9. sz \in Int /\ sz = Prefix(m) + m.n * 8
  <2>1. sz = m.sz - 8 /\ Prefix(m) \in Nat
    BY <1>5, RequestRest, RequestSize
  <2> QED
    BY <1>4, <1>5, <2>1
<1>10. base % 4 = 0
  BY <1>5, RequestSize
<1> DEFINE w == ReqParse!ListTillEnd(fe, sz, 8)
<1> HIDE DEF fe, base, sz
<1>11. ~m.big => /\ Short(m.n) => Sound(w, m.sz, m.n)
                 /\ ~Short(m.n) => Astray(m, w)
  <2> HAVE ~m.big
  <2>1. sz \div 8 = m.n /\ m.n * 8 <= sz /\ 8 \in {4, 8, 12}
    BY <1>4, <1>7, <1>9
  <2> QED
    BY <1>4, <1>5, <1>9, <1>10, <2>1, TillEndWalk
<1>12. m.big => Astray(m, w)
  <2> HAVE m.big
  <2> DEFINE ct == sz \div 8
             c == ct % 65536
  <2>1. w = PaddedList(fe, sz, ct, 8)
    BY RequestSteps
  <2>2. ct = m.n + 1
    BY <1>4, <1>7, <1>9
  <2>3. c \in Nat /\ c # m.n /\ ct \in Int /\ 8 \in Nat
    BY <1>4, <2>2
  <2>4. w \in Walks /\ w.at = base + Pad(c * 8)
    BY <1>5, <1>9, <2>1, <2>3, PaddedListType DEF Sound
  <2> HIDE DEF ct, c, w
  <2>5. c * 8 \in Nat /\ (c * 8) % 4 = 0 /\ c * 8 # m.n * 8
    BY <1>4, <2>3
  <2>6. w.at # m.sz
    BY <1>4, <1>5, <2>4, <2>5, PadOfAligned
  <2> QED
    BY <2>4, <2>6, AstrayElsewhere
<1> HIDE DEF w
<1>13. Right(m, ReqParse!Exact(m, w))
  BY <1>4, <1>5, <1>6, <1>8, <1>11, <1>12, RequestRight, RequestWrong
<1> QED
  BY <1>3, <1>13 DEF w, fe, sz

(* The symbols of n keycodes, and their count checked by its 16 bits       *)
LEMMA ChangeKeyboardMappingRight ==
  ASSUME NEW m, NEW m0, Sent(m, m0), m.kind = "ChangeKeyboardMapping"
  PROVE  Right(m, ReqParse!RequestWalk(m))
<1>1. ReqEnc!ChangeKeyboardMapping(m0) = 4 + m.n * m.k * 4
  BY EncodedPads DEF Sent, ReqEnc!ChangeKeyboardMapping, ReqEnc!KEYCODE,
     ReqEnc!CARD8, ReqEnc!KEYSYM
<1>2. ReqEnc!Suffix(m0) = 4 + m.n * m.k * 4
  <2>1. m0.kind = "ChangeKeyboardMapping"
    BY DEF Sent
  <2> QED
    BY <1>1, <2>1, Zenon DEF ReqEnc!Suffix
<1>3. ReqParse!RequestWalk(m) =
        ReqParse!Exact(m, ReqParse!Asserting(
          ReqParse!ListTillEnd(ReqParse!FixedEncoding(m, 4), ReqParse!Rest(m, 4), 4),
          (ReqParse!Rest(m, 4) \div 4) % 65536 = (m.n * m.k) % 65536))
  BY DEF ReqParse!RequestWalk, ReqParse!ChangeKeyboardMapping
<1> DEFINE fe == ReqParse!FixedEncoding(m, 4)
           base == Prefix(m) + 4
           n == m.n * m.k
           r == n * 4
           a == (ReqParse!Rest(m, 4) \div 4) % 65536 = (m.n * m.k) % 65536
<1>4. n \in Nat /\ Short(n)
  <2>1. m.n \in Nat /\ m.k \in Nat /\ m.n <= 255 /\ m.k <= 254
    BY DEF Sent, ReqEnc!CountsFit, ReqEnc!CountsOf8Bits
  <2>2. m.n * m.k <= 255 * m.k
    BY <2>1
  <2> QED
    BY <2>1, <2>2 DEF Short
<1>5. MembersOf(m) = n /\ ~Misled(m)
  <2>1. ReqEnc!Members(m) = n
    BY DEF ReqEnc!Members, ReqEnc!Texts
  <2>2. ~Misled(m)
    BY DEF Sent, Misled, NotOpened, CountCut, WrongLength, Unswapped,
       NotExpected, ReqEnc!CountsFit, ReqEnc!Texts, ReqEnc!CountsFromLength
  <2> QED
    BY <2>1, <2>2, SentMembers
<1>6. r \in Nat /\ 4 + r \in Nat /\ (4 + r) % 4 = 0 /\ r \div 4 = n
  BY <1>4
<1>7. ReqEnc!Suffix(m0) = 4 + r
  BY <1>2
<1> HIDE DEF r
<1>8. /\ Sized(m, 4 + r) /\ Sound(fe, base, 0) /\ base \in Nat
      /\ m.sz = base + r /\ ReqParse!Rest(m, 4) = r
  <2>1. Sized(m, 4 + r)
    BY <1>6, <1>7, SentSized
  <2> QED
    BY <1>6, <2>1, RequestFixed
<1>9. a \in BOOLEAN /\ a
  BY <1>4, <1>6, <1>8 DEF r, Short
<1>10. Pad(r) = r
  <2>1. r % 4 = 0
    BY <1>6
  <2> QED
    BY <1>6, <2>1, PadOfAligned
<1> HIDE DEF fe, base, a, n
<1> DEFINE w == ReqParse!ListTillEnd(fe, ReqParse!Rest(m, 4), 4)
<1>11. w = PaddedList(fe, r, n, 4)
  BY <1>6, <1>8, RequestSteps
<1>12. Sound(w, m.sz, n)
  <2>1. r \in Int /\ n * 4 <= r /\ 4 \in Nat /\ 0 \in Nat /\ Short(n)
    BY <1>4, <1>6 DEF r
  <2>2. Sound(PaddedList(fe, r, n, 4), base + Pad(n * 4), 0 + n)
    BY <1>4, <1>8, <2>1, PaddedListSound
  <2> QED
    BY <1>4, <1>8, <1>10, <1>11, <2>2 DEF r
<1> HIDE DEF w
<1>13. m.sz \in Nat
  BY <1>6, <1>8
<1>14. Sound(Asserting(w, a), m.sz, n)
  BY <1>4, <1>9, <1>12, <1>13, AssertingSound
<1>15. Right(m, ReqParse!Exact(m, Asserting(w, a)))
  BY <1>4, <1>5, <1>8, <1>14, RequestRight
<1> QED
  BY <1>3, <1>15, RequestSteps DEF w, fe, a

(* Eight modifiers with n keycodes each                                    *)
LEMMA SetModifierMappingRight ==
  ASSUME NEW m, NEW m0, Sent(m, m0), m.kind = "SetModifierMapping"
  PROVE  Right(m, ReqParse!RequestWalk(m))
<1>1. ReqEnc!SetModifierMapping(m0) = 0 + 8 * m.n * 1
  BY EncodedPads DEF Sent, ReqEnc!SetModifierMapping, ReqEnc!KEYCODE
<1>2. ReqEnc!Suffix(m0) = 0 + 8 * m.n * 1
  <2>1. m0.kind = "SetModifierMapping"
    BY DEF Sent
  <2> QED
    BY <1>1, <2>1, Zenon DEF ReqEnc!Suffix
<1>3. ReqParse!RequestWalk(m) =
        ReqParse!Exact(m, ReqParse!Asserting(
          ReqParse!ListTillEnd(ReqParse!FixedEncoding(m, 0), ReqParse!Rest(m, 0), 1),
          ReqParse!Rest(m, 0) % 65536 = 8 * m.n))
  BY DEF ReqParse!RequestWalk, ReqParse!SetModifierMapping
<1> DEFINE fe == ReqParse!FixedEncoding(m, 0)
           base == Prefix(m) + 0
           n == 8 * m.n
           r == n * 1
           a == ReqParse!Rest(m, 0) % 65536 = 8 * m.n
<1>4. n \in Nat /\ Short(n)
  BY DEF Sent, ReqEnc!CountsFit, ReqEnc!CountsOf8Bits, Short
<1>5. MembersOf(m) = n /\ ~Misled(m)
  <2>1. ReqEnc!Members(m) = n
    BY DEF ReqEnc!Members, ReqEnc!Texts
  <2>2. ~Misled(m)
    BY DEF Sent, Misled, NotOpened, CountCut, WrongLength, Unswapped,
       NotExpected, ReqEnc!CountsFit, ReqEnc!Texts, ReqEnc!CountsFromLength
  <2> QED
    BY <2>1, <2>2, SentMembers
<1>6. r \in Nat /\ 0 + r \in Nat /\ (0 + r) % 4 = 0 /\ r \div 1 = n
  BY <1>4 DEF Sent
<1>7. ReqEnc!Suffix(m0) = 0 + r
  BY <1>2
<1> HIDE DEF r
<1>8. /\ Sized(m, 0 + r) /\ Sound(fe, base, 0) /\ base \in Nat
      /\ m.sz = base + r /\ ReqParse!Rest(m, 0) = r
  <2>1. Sized(m, 0 + r)
    BY <1>6, <1>7, SentSized
  <2> QED
    BY <1>6, <2>1, RequestFixed
<1>9. a \in BOOLEAN /\ a
  <2> HIDE DEF n
  <2>1. r = n /\ n % 65536 = n
    BY <1>4 DEF r, Short
  <2>2. ReqParse!Rest(m, 0) % 65536 = n
    BY <1>8, <2>1
  <2> QED
    BY <2>2 DEF n
<1>10. Pad(r) = r
  <2>1. r % 4 = 0
    BY <1>6
  <2> QED
    BY <1>6, <2>1, PadOfAligned
<1> HIDE DEF fe, base, a, n
<1> DEFINE w == ReqParse!ListTillEnd(fe, ReqParse!Rest(m, 0), 1)
<1>11. w = PaddedList(fe, r, n, 1)
  BY <1>6, <1>8, RequestSteps
<1>12. Sound(w, m.sz, n)
  <2>1. r \in Int /\ n * 1 <= r /\ 1 \in Nat /\ 0 \in Nat /\ Short(n)
    BY <1>4, <1>6 DEF r
  <2>2. Sound(PaddedList(fe, r, n, 1), base + Pad(n * 1), 0 + n)
    BY <1>4, <1>8, <2>1, PaddedListSound
  <2> QED
    BY <1>4, <1>8, <1>10, <1>11, <2>2 DEF r
<1> HIDE DEF w
<1>13. m.sz \in Nat
  BY <1>6, <1>8
<1>14. Sound(Asserting(w, a), m.sz, n)
  BY <1>4, <1>9, <1>12, <1>13, AssertingSound
<1>15. Right(m, ReqParse!Exact(m, Asserting(w, a)))
  BY <1>4, <1>5, <1>8, <1>14, RequestRight
<1> QED
  BY <1>3, <1>15, RequestSteps DEF w, fe, a

-----------------------------------------------------------------------------
(* Texts                                                                   *)

(* A set of natural numbers that is not empty has a least member.          *)
LEMMA LeastMember ==
  ASSUME NEW S \in SUBSET Nat, S # {}
  PROVE  \E x \in S : \A y \in S : x <= y
<1>1. \E x \in S : \A y \in S : ~(<<y, x>> \in OpToRel(<, Nat))
  BY NatLessThanWellFounded, WFMin
<1>2. PICK x \in S : \A y \in S : ~(<<y, x>> \in OpToRel(<, Nat))
  BY <1>1
<1>3. ASSUME NEW y \in S, y < x
      PROVE  FALSE
  <2>1. <<y, x>> \in Nat \X Nat
    OBVIOUS
  <2>2. <<y, x>>[1] < <<y, x>>[2]
    BY <1>3
  <2>3. <<y, x>> \in OpToRel(<, Nat)
    BY <2>1, <2>2, Zenon DEF OpToRel
  <2> QED
    BY <1>2, <2>3
<1>4. \A y \in S : x <= y
  <2> TAKE y \in S
  <2>1. x \in Int /\ y \in Int /\ ~(y < x)
    BY <1>3
  <2> QED
    BY <2>1
<1> QED
  BY <1>4

(* The instance of FiniteSets in the parse functions is this module's.     *)
LEMMA ParserCardinality == \A S : ReqParse!Cardinality(S) = Cardinality(S)
  BY Zenon DEF ReqParse!Cardinality, Cardinality

(* More members have no fewer bytes.                                       *)
LEMMA TimesMonotonic ==
  ASSUME NEW i \in Nat, NEW j \in Nat, i <= j, NEW u \in Nat
  PROVE  i * u \in Nat /\ j * u \in Nat /\ i * u <= j * u
<1>1. j - i \in Nat /\ (j - i) * u \in Nat
  OBVIOUS
<1>2. j * u = i * u + (j - i) * u
  OBVIOUS
<1>3. i * u \in Nat /\ j * u \in Nat
  OBVIOUS
<1> QED
  BY <1>1, <1>2, <1>3

(* The items that are read: those that begin before the end, r bytes on.   *)
Visited(f, u, n, r) == {i \in 0 .. (n - 1) : Pad(f + i * u) < r}

(* c items are.                                                            *)
Visits(f, u, n, r, c) ==
  /\ c <= n
  /\ Visited(f, u, n, r) = 0 .. (c - 1)
  /\ Pad(f + c * u) = r
  /\ c > 0 => f + (c - 1) * u + 4 <= r
  /\ u >= 4 => c = n

(* The items of u bytes that are visited are the first ones. They end at   *)
(* the last unit, and only items of less than 4 bytes can be left in it.   *)
LEMMA TextVisited ==
  ASSUME NEW f \in Nat, NEW u \in Nat, NEW n \in Nat
  PROVE  \E c \in Nat : Visits(f, u, n, Pad(f + n * u), c)
<1>. PICK r : r = Pad(f + n * u)
  OBVIOUS
<1> DEFINE P(i) == Pad(f + i * u)
           S == {i \in Nat : i >= n \/ P(i) >= r}
<1>1. ASSUME NEW i \in Nat
      PROVE  /\ f + i * u \in Nat /\ P(i) \in Nat /\ P(i) % 4 = 0
             /\ f + i * u <= P(i) /\ P(i) <= f + i * u + 3
  <2>1. f + i * u \in Nat
    OBVIOUS
  <2> QED
    BY <2>1, PadFacts
<1>2. ASSUME NEW i \in Nat, NEW j \in Nat, i <= j
      PROVE  P(i) <= P(j)
  <2>1. f + i * u <= f + j * u /\ f + i * u \in Nat /\ f + j * u \in Nat
    BY <1>2, TimesMonotonic
  <2> QED
    BY <2>1, PadMonotonic
<1>3. r \in Nat /\ r = P(n)
  BY <1>1
<1>4. PICK c \in S : \A i \in S : c <= i
  <2>1. S \in SUBSET Nat /\ n \in S
    OBVIOUS
  <2> QED
    BY <2>1, LeastMember
<1>5. c \in Nat /\ c <= n
  BY <1>4
<1>6. ASSUME NEW i \in Nat, i < c
      PROVE  i < n /\ P(i) < r
  <2>1. ~(i >= c) /\ i \notin S
    BY <1>4, <1>5, <1>6
  <2> QED
    BY <1>1, <1>3, <2>1
<1>7. P(c) = r
  <2>1. P(c) >= r
    BY <1>1, <1>3, <1>4
  <2>2. P(c) <= P(n) /\ P(c) \in Nat
    BY <1>1, <1>2, <1>5
  <2> QED
    BY <1>3, <2>1, <2>2
<1>8. ASSUME NEW i \in 0 .. (n - 1)
      PROVE  P(i) < r <=> i \in 0 .. (c - 1)
  <2>1. i \in Nat
    OBVIOUS
  <2>2. CASE i < c
    BY <1>5, <1>6, <2>1, <2>2
  <2>3. CASE ~(i < c)
    <3>1. c <= i
      BY <1>5, <2>1, <2>3
    <3>2. P(c) <= P(i) /\ P(i) \in Nat
      BY <1>1, <1>2, <1>5, <2>1, <3>1
    <3> QED
      BY <1>3, <1>5, <1>7, <2>1, <2>3, <3>2
  <2> QED
    BY <2>2, <2>3
<1>9. 0 .. (c - 1) \subseteq 0 .. (n - 1)
  BY <1>5
<1>10. c > 0 => f + (c - 1) * u + 4 <= r
  <2> HAVE c > 0
  <2>1. c - 1 \in Nat /\ P(c - 1) < r /\ P(c - 1) % 4 = 0 /\ P(c - 1) \in Nat
    <3>1. c - 1 \in Nat /\ c - 1 < c
      BY <1>5
    <3> HIDE DEF P
    <3> QED
      BY <1>1, <1>6, <3>1
  <2>2. r % 4 = 0
    BY <1>1, <1>3
  <2>3. P(c - 1) + 4 <= r
    <3> HIDE DEF P
    <3> QED
      BY <1>3, <2>1, <2>2
  <2>4. f + (c - 1) * u <= P(c - 1) /\ f + (c - 1) * u \in Nat
    BY <1>1, <2>1
  <2> HIDE DEF P
  <2> QED
    BY <1>3, <2>1, <2>3, <2>4
<1>11. u >= 4 => c = n
  <2> SUFFICES ASSUME u >= 4, c < n PROVE FALSE
    BY <1>5
  <2> DEFINE a == f + c * u
             b == f + n * u
  <2>1. c + 1 \in Nat /\ c + 1 <= n
    BY <1>5
  <2>2. (c + 1) * u <= n * u
    BY <2>1, TimesMonotonic
  <2>3. (c + 1) * u = c * u + u /\ c * u \in Nat /\ n * u \in Nat
    BY <1>5
  <2>4. a + 4 <= b /\ a \in Nat /\ b \in Nat
    BY <2>2, <2>3
  <2> HIDE DEF a, b
  <2>5. Pad(a) < Pad(b)
    BY <2>4, PadFacts
  <2> QED
    BY <1>3, <1>5, <1>7, <2>5 DEF a, b
<1> DEFINE V == {i \in 0 .. (n - 1) : P(i) < r}
<1>12. V = 0 .. (c - 1)
  BY <1>8, <1>9
<1> QED
  BY <1>5, <1>7, <1>10, <1>11, <1>12 DEF Visited, Visits

(* The fixed part of a text's request, and what it leaves                  *)
LEMMA TextFixed ==
  ASSUME NEW m, NEW r \in Nat, Sized(m, 12 + r)
  PROVE  /\ Sound(ReqParse!FixedEncoding(m, 12), Prefix(m) + 12, 0)
         /\ ReqParse!Rest(m, 12) = r
         /\ Prefix(m) + 12 \in Nat
         /\ m.sz = (Prefix(m) + 12) + r
         /\ m.sz \in Nat
<1>1. 12 \in Nat
  OBVIOUS
<1> QED
  BY <1>1, RequestFixed

(* The walk through the items of a text reaches the end of the request;    *)
(* items of its last unit may be missing in the log. c items are visited.  *)
LEMMA TextWalk ==
  ASSUME NEW m, NEW m0, Sent(m, m0), m.kind \in ReqEnc!Texts,
         NEW u \in Nat, u >= 2, u < 4 => m.k <= 1,
         NEW n \in Nat, n = m.n,
         NEW f \in Nat, f = IF m.opt THEN 5 ELSE 0,
         NEW o \in Nat, o = IF m.opt THEN 1 ELSE 0,
         NEW r \in Nat, r % 4 = 0, ReqEnc!Suffix(m0) = 12 + r,
         NEW c \in Nat, c <= n,
         Visited(f, u, n, r) = 0 .. (c - 1),
         Pad(f + c * u) = r,
         c > 0 => f + (c - 1) * u + 4 <= r,
         u >= 4 => c = n
  PROVE  Right(m, ReqParse!Exact(m,
                    ReqParse!TextItems(m, ReqParse!FixedEncoding(m, 12), u)))
<1> DEFINE fe == ReqParse!FixedEncoding(m, 12)
           base == Prefix(m) + 12
<1>3. MembersOf(m) = n + o /\ ~Misled(m)
  <2>1. ReqEnc!Members(m) = n + o
    BY DEF ReqEnc!Members, ReqEnc!Texts
  <2>2. ~Misled(m)
    BY DEF Sent, Misled, NotOpened, CountCut, WrongLength, Unswapped,
       NotExpected, ReqEnc!CountsFit, ReqEnc!Texts
  <2> QED
    BY <2>1, <2>2, SentMembers
<1>4. m.k <= 1 => LostItems(m)
  BY DEF Sent, LostItems
<1>7. /\ Sized(m, 12 + r) /\ Sound(fe, base, 0) /\ base \in Nat
      /\ m.sz = base + r /\ m.sz \in Nat /\ ReqParse!Rest(m, 12) = r
  <2>1. 12 + r \in Nat /\ (12 + r) % 4 = 0
    OBVIOUS
  <2>2. Sized(m, 12 + r)
    BY <2>1, SentSized
  <2> QED
    BY <2>2, TextFixed
<1> DEFINE visited == Visited(f, u, n, r)
           last == f + (c - 1) * u
           end == IF visited = {} THEN 0 ELSE fe.at + last + 5
           w == [at |-> fe.at + r, ok |-> fe.ok, reach |-> Further(fe, end),
                 logged |-> fe.logged + c + o]
<1>8. visited = 0 .. (c - 1) /\ Cardinality(visited) = c
  <2>1. visited = 0 .. (c - 1)
    OBVIOUS
  <2> HIDE DEF visited
  <2>2. 0 \in Int /\ c - 1 \in Int /\ (IF 0 > c - 1 THEN 0 ELSE (c - 1) - 0 + 1) = c
    OBVIOUS
  <2>3. Cardinality(0 .. (c - 1)) = IF 0 > c - 1 THEN 0 ELSE (c - 1) - 0 + 1
    BY <2>2, FS_Interval, Zenon
  <2> QED
    BY <2>1, <2>2, <2>3
<1>9. ReqParse!TextItems(m, fe, u) = w
  <2>1. \A i : ReqParse!Pad(i) = Pad(i)
    BY RequestSteps
  <2>2. visited = {i \in 0 .. (n - 1) : ReqParse!Pad(f + i * u) < ReqParse!Rest(m, 12)}
    BY <1>7, <2>1 DEF Visited
  <2>3. Pad(f + Cardinality(visited) * u) = r
    BY <1>8
  <2> DEFINE ct == Cardinality(visited)
             all == {i \in 0 .. (m.n - 1) :
                       ReqParse!Pad(f + i * u) < ReqParse!Rest(m, 12)}
  <2>4. ReqParse!TextItems(m, fe, u) =
          [at |-> fe.at + ReqParse!Pad(f + Cardinality(all) * u),
           ok |-> fe.ok,
           reach |-> ReqParse!Further(fe, IF all = {} THEN 0
                       ELSE fe.at + (f + (Cardinality(all) - 1) * u) + 5),
           logged |-> fe.logged + Cardinality(all) + o]
    BY ParserCardinality, Zenon DEF ReqParse!TextItems
  <2>5. all = visited
    BY <2>2
  <2>6. \A e : ReqParse!Further(fe, e) = Further(fe, e)
    BY Zenon DEF ReqParse!Further, Further
  <2> HIDE DEF visited, all, fe
  <2>7. Cardinality(all) = c /\ ReqParse!Pad(f + c * u) = r
    BY <1>8, <2>1, <2>3, <2>5
  <2> QED
    BY <2>4, <2>5, <2>6, <2>7
<1> HIDE DEF fe, base
<1>10. /\ w \in Walks /\ w.at = m.sz /\ w.ok = TRUE /\ w.logged = c + o
       /\ w.reach <= m.sz + 1
  <2>1. /\ fe.at = base /\ fe.ok = TRUE /\ fe.logged = 0 /\ fe.reach \in Int
        /\ fe.reach <= base
    BY <1>7 DEF Sound, Walks
  <2>2. end \in Int /\ end <= base + r + 1
    <3>1. CASE visited = {}
      BY <1>7, <3>1
    <3>2. CASE visited # {}
      <4>1. c > 0
        BY <1>8, <3>2
      <4>2. last \in Int /\ last + 4 <= r
        <5>1. c - 1 \in Nat /\ (c - 1) * u \in Nat
          BY <4>1
        <5> QED
          BY <4>1, <5>1
      <4> HIDE DEF last, visited
      <4> QED
        BY <1>7, <2>1, <3>2, <4>2
    <3> QED
      BY <3>1, <3>2
  <2> HIDE DEF end
  <2>3. Further(fe, end) \in Int /\ Further(fe, end) <= base + r + 1
    BY <1>7, <2>1, <2>2 DEF Further
  <2> DEFINE g == Further(fe, end)
  <2> HIDE DEF g
  <2>4. w = [at |-> base + r, ok |-> TRUE, reach |-> g, logged |-> c + o]
    <3>1. fe.logged + c + o = c + o
      BY <2>1
    <3> QED
      BY <2>1, <3>1 DEF g
  <2> HIDE DEF w
  <2> QED
    BY <1>7, <2>3, <2>4 DEF Walks, g
<1> HIDE DEF w
<1> DEFINE v == ReqParse!Exact(m, w)
<1>11. /\ v \in Walks /\ v.at = m.sz /\ v.ok = TRUE /\ v.logged = c + o
       /\ v.reach <= m.sz + 1
  <2> DEFINE a == ReqParse!TlUnits(m) = Units(w.at)
  <2>1. a \in BOOLEAN /\ a
    BY <1>7, <1>10, RequestSize
  <2>2. v = Asserting(w, a)
    BY RequestSteps, Zenon DEF ReqParse!Exact
  <2> HIDE DEF a, v
  <2>3. /\ v \in Walks /\ v.at = w.at /\ v.reach = w.reach
        /\ v.logged = w.logged /\ v.ok
    BY <1>10, <2>1, <2>2, AssertingType, Zenon
  <2> QED
    BY <1>10, <2>3 DEF Walks
<1> HIDE DEF v
<1>12. Right(m, v)
  <2>1. Ends(m, v)
    BY <1>11, Zenon DEF Ends
  <2>2. v.reach <= m.sz + (IF m.kind \in ReqEnc!Texts THEN 1 ELSE 0)
    BY <1>11
  <2>3. \/ v.logged = MembersOf(m)
        \/ LostItems(m) /\ v.logged < MembersOf(m)
    <3>1. CASE c = n
      BY <1>3, <1>11, <3>1
    <3>2. CASE c # n
      <4>1. c < n /\ u < 4
        BY <3>2
      <4>2. c + o < n + o
        BY <4>1
      <4> QED
        BY <1>3, <1>4, <1>11, <4>1, <4>2
    <3> QED
      BY <3>1, <3>2
  <2>4. Aligned(m)
    BY <1>7, RequestSize
  <2> QED
    BY <1>3, <1>11, <2>1, <2>2, <2>3, <2>4, Zenon DEF Right, Aligned
<1> QED
  BY <1>9, <1>12 DEF v, fe

(* A text request is right, whatever its items.                            *)
LEMMA TextShape ==
  ASSUME NEW m, NEW m0, Sent(m, m0), m.kind \in ReqEnc!Texts,
         NEW u \in Nat, u >= 2, u < 4 => m.k <= 1,
         ReqEnc!Suffix(m0) = 12 + Pad((IF m.opt THEN 5 ELSE 0) + m.n * u)
  PROVE  Right(m, ReqParse!Exact(m,
                    ReqParse!TextItems(m, ReqParse!FixedEncoding(m, 12), u)))
<1>1. PICK n \in Nat : n = m.n
  BY DEF Sent
<1>2. PICK f \in Nat : f = IF m.opt THEN 5 ELSE 0
  OBVIOUS
<1>3. PICK o \in Nat : o = IF m.opt THEN 1 ELSE 0
  OBVIOUS
<1>4. PICK r \in Nat : r = Pad(f + n * u) /\ r % 4 = 0
  <2>1. f + n * u \in Nat
    OBVIOUS
  <2> QED
    BY <2>1, PadFacts
<1>5. PICK c \in Nat : Visits(f, u, n, r, c)
  BY <1>4, TextVisited
<1>6. ReqEnc!Suffix(m0) = 12 + r
  BY <1>1, <1>2, <1>4
<1> QED
  BY <1>1, <1>2, <1>3, <1>4, <1>5, <1>6, TextWalk DEF Visits

(* Items of characters of one byte                                         *)
LEMMA PolyText8Right ==
  ASSUME NEW m, NEW m0, Sent(m, m0), m.kind = "PolyText8"
  PROVE  Right(m, ReqParse!RequestWalk(m))
<1>1. ReqEnc!PolyText8(m0) = 12 + Pad((IF m.opt THEN 5 ELSE 0) + m.n * (2 + m.k))
  <2>1. /\ m0.n = m.n /\ m0.k = m.k /\ m0.opt = m.opt
        /\ m.n \in Nat /\ m.k \in Nat
    BY DEF Sent
  <2> DEFINE f == IF m.opt THEN 5 ELSE 0
  <2>2. ReqEnc!FontItem(m0) = f /\ f \in Nat
    BY <2>1 DEF ReqEnc!FontItem, ReqEnc!CARD8, ReqEnc!FONT
  <2>3. ReqEnc!PolyTextRequest(m0) = 12
    BY DEF ReqEnc!PolyTextRequest, ReqEnc!DRAWABLE, ReqEnc!GCONTEXT,
       ReqEnc!INT16, ReqEnc!WINDOW
  <2>4. ReqEnc!PolyText8(m0) = 12 + ReqEnc!Pad(f + (2 + m.k) * m.n)
    BY <2>1, <2>2, <2>3 DEF ReqEnc!PolyText8, ReqEnc!CARD8, ReqEnc!INT8,
       ReqEnc!CHAR2B
  <2>5. (2 + m.k) * m.n = m.n * (2 + m.k)
    BY <2>1
  <2> QED
    BY <2>4, <2>5, EncodedPads
<1>2. ReqEnc!Suffix(m0) = 12 + Pad((IF m.opt THEN 5 ELSE 0) + m.n * (2 + m.k))
  <2>1. m0.kind = "PolyText8"
    BY DEF Sent
  <2> QED
    BY <1>1, <2>1, Zenon DEF ReqEnc!Suffix
<1>3. ReqParse!RequestWalk(m) =
        ReqParse!Exact(m, ReqParse!TextItems(m, ReqParse!FixedEncoding(m, 12),
                                             ReqParse!TextItem8(m)))
  BY Zenon DEF ReqParse!RequestWalk, ReqParse!PolyText8
<1> DEFINE u == 2 + m.k
<1>4. u \in Nat /\ u >= 2 /\ (u < 4 => m.k <= 1)
  BY DEF Sent
<1>5. ReqParse!TextItem8(m) = u
  BY DEF ReqParse!TextItem8
<1>6. m.kind \in ReqEnc!Texts
  BY DEF ReqEnc!Texts
<1> HIDE DEF u
<1>7. ReqEnc!Suffix(m0) = 12 + Pad((IF m.opt THEN 5 ELSE 0) + m.n * u)
  BY <1>2 DEF u
<1> QED
  BY <1>3, <1>4, <1>5, <1>6, <1>7, TextShape

(* Items of characters of two bytes                                        *)
LEMMA PolyText16Right ==
  ASSUME NEW m, NEW m0, Sent(m, m0), m.kind = "PolyText16"
  PROVE  Right(m, ReqParse!RequestWalk(m))
<1>1. ReqEnc!PolyText16(m0) = 12 + Pad((IF m.opt THEN 5 ELSE 0) + m.n * (2 + 2 * m.k))
  <2>1. /\ m0.n = m.n /\ m0.k = m.k /\ m0.opt = m.opt
        /\ m.n \in Nat /\ m.k \in Nat
    BY DEF Sent
  <2> DEFINE f == IF m.opt THEN 5 ELSE 0
  <2>2. ReqEnc!FontItem(m0) = f /\ f \in Nat
    BY <2>1 DEF ReqEnc!FontItem, ReqEnc!CARD8, ReqEnc!FONT
  <2>3. ReqEnc!PolyTextRequest(m0) = 12
    BY DEF ReqEnc!PolyTextRequest, ReqEnc!DRAWABLE, ReqEnc!GCONTEXT,
       ReqEnc!INT16, ReqEnc!WINDOW
  <2>4. ReqEnc!PolyText16(m0) = 12 + ReqEnc!Pad(f + (2 + 2 * m.k) * m.n)
    BY <2>1, <2>2, <2>3 DEF ReqEnc!PolyText16, ReqEnc!CARD8, ReqEnc!INT8,
       ReqEnc!CHAR2B
  <2>5. (2 + 2 * m.k) * m.n = m.n * (2 + 2 * m.k)
    BY <2>1
  <2> QED
    BY <2>4, <2>5, EncodedPads
<1>2. ReqEnc!Suffix(m0) = 12 + Pad((IF m.opt THEN 5 ELSE 0) + m.n * (2 + 2 * m.k))
  <2>1. m0.kind = "PolyText16"
    BY DEF Sent
  <2> QED
    BY <1>1, <2>1, Zenon DEF ReqEnc!Suffix
<1>3. ReqParse!RequestWalk(m) =
        ReqParse!Exact(m, ReqParse!TextItems(m, ReqParse!FixedEncoding(m, 12),
                                             ReqParse!TextItem16(m)))
  BY Zenon DEF ReqParse!RequestWalk, ReqParse!PolyText16
<1> DEFINE u == 2 + 2 * m.k
<1>4. u \in Nat /\ u >= 2 /\ (u < 4 => m.k <= 1)
  BY DEF Sent
<1>5. ReqParse!TextItem16(m) = u
  BY DEF ReqParse!TextItem16
<1>6. m.kind \in ReqEnc!Texts
  BY DEF ReqEnc!Texts
<1> HIDE DEF u
<1>7. ReqEnc!Suffix(m0) = 12 + Pad((IF m.opt THEN 5 ELSE 0) + m.n * u)
  BY <1>2 DEF u
<1> QED
  BY <1>3, <1>4, <1>5, <1>6, <1>7, TextShape

-----------------------------------------------------------------------------
(* Every request that a client may send, of all kinds and with lists and   *)
(* strings of all lengths that its fields can tell, leads its parse        *)
(* function to its end, or misleads it.                                    *)
LEMMA RequestsLed ==
  ASSUME NEW m, NEW m0, Sent(m, m0)
  PROVE  Right(m, ReqParse!RequestWalk(m))
<1>1. \/ m.kind \in FixedRequests
      \/ m.kind \in CountedRequests
      \/ m.kind \in TillEndRequests
      \/ m.kind \in {"PutImage", "UnknownRequest", "NoOperation", "SendEvent",
           "ChangeProperty", "QueryTextExtents", "PolyArc", "PolyFillArc",
           "PolyFillRectangle", "ChangeKeyboardMapping", "SetModifierMapping",
           "PolyText8", "PolyText16"}
  BY DEF Sent, ReqEnc!RequestKinds, FixedRequests, CountedRequests,
     TillEndRequests, Fixed0a, Fixed0b, Fixed0c, Fixed4a, Fixed4b, Fixed4c,
     Fixed4d, Fixed8a, Fixed8b, Fixed12a, Fixed12b, Fixed16, Fixed20, Fixed24,
     Fixed28, Strings4, Strings8, Strings12, Values4, Values8, Values12,
     Values28, Counted
<1>2. CASE m.kind \in FixedRequests
  BY <1>2, FixedRequestsRight
<1>3. CASE m.kind \in CountedRequests
  BY <1>3, Strings4Right, Strings8Right, Strings12Right, Values4Right,
     Values8Right, Values12Right, Values28Right, SetDashesRight,
     ChangeHostsRight, RotatePropertiesRight, SetPointerMappingRight,
     SetFontPathRight, ImageText16Right, Zenon DEF CountedRequests, Counted,
     Values4, Values12, Values28
<1>4. CASE m.kind \in TillEndRequests
  BY <1>4, TillEnd8Of4Right, TillEnd8Of8Right, SetClipRectanglesRight,
     FillPolyRight, StoreColorsRight, QueryColorsRight,
     Zenon
     DEF TillEndRequests, TillEnd8Of4, TillEnd8Of8
<1>5. CASE m.kind \in {"PutImage", "UnknownRequest", "NoOperation", "SendEvent",
           "ChangeProperty", "QueryTextExtents", "PolyArc", "PolyFillArc",
           "PolyFillRectangle", "ChangeKeyboardMapping", "SetModifierMapping",
           "PolyText8", "PolyText16"}
  BY <1>5, PutImageRight, UnknownRequestRight, NoOperationRight,
     SendEventRight, ChangePropertyRight, QueryTextExtentsRight, PolyArcRight,
     PolyFillArcRight, PolyFillRectangleRight, ChangeKeyboardMappingRight,
     SetModifierMappingRight, PolyText8Right, PolyText16Right, Zenon
<1> QED
  BY <1>1, <1>2, <1>3, <1>4, <1>5

(* Every such request is walked by its parse function exactly to its end,  *)
(* with every assertion holding, those about formatted values included,    *)
(* all of its members logged and nothing read behind it; but for the       *)
(* requests with a defect, none of which is.                               *)
THEOREM RequestsRight ==
  ASSUME NEW m, NEW m0, Sent(m, m0)
  PROVE  Judged(m, WalkOf(m))
<1>1. WalkOf(m) = Step!Formatted(m, ReqParse!RequestWalk(m))
  BY DEF Sent, WalkOf, ParseWalk
<1>2. m.swap \in BOOLEAN /\ m.stray \in BOOLEAN
  BY Zenon DEF Sent
<1> QED
  BY <1>1, <1>2, RequestsLed, RightIsJudged

-----------------------------------------------------------------------------
(* Replies: the steps that their parse functions share                     *)

(* The steps of the replies' parse functions are those of MessageWalk.     *)
LEMMA ReplySteps ==
  /\ \A w, c : RepParse!Asserting(w, c) = Asserting(w, c)
  /\ \A w, len : RepParse!Unparsed(w, len) = Unparsed(w, len)
  /\ \A w, len : RepParse!String8(w, len) = String8(w, len)
  /\ \A w, sz, ct, memb_sz :
       RepParse!List(w, sz, ct, memb_sz) = List(w, sz, ct, memb_sz)
  /\ \A w, sz, ct, memb_sz :
       RepParse!PaddedList(w, sz, ct, memb_sz) = PaddedList(w, sz, ct, memb_sz)
  /\ \A m, size : RepParse!Encoded(m, size) = Start(size, m)
  /\ \A n : RepParse!Pad(n) = Pad(n) /\ RepParse!Units(n) = Units(n)
<1>1. \A n : RepParse!Pad(n) = Pad(n) /\ RepParse!Units(n) = Units(n)
  BY Zenon DEF RepParse!Pad, Pad, RepParse!Units, Units, RepParse!ALIGN, ALIGN
<1>2. \A w, end : RepParse!Further(w, end) = Further(w, end)
  BY Zenon DEF RepParse!Further, Further
<1>3. \A w, len : RepParse!Unparsed(w, len) = Unparsed(w, len)
  BY <1>2, Zenon DEF RepParse!Unparsed, Unparsed
<1>4. \A w, len : RepParse!String8(w, len) = String8(w, len)
  BY <1>1, <1>3, Zenon DEF RepParse!String8, String8
<1>5. \A w, sz, ct, memb_sz :
        RepParse!List(w, sz, ct, memb_sz) = List(w, sz, ct, memb_sz)
  BY <1>2, SMT DEF RepParse!List, List
<1>6. \A w, sz, ct, memb_sz :
       RepParse!PaddedList(w, sz, ct, memb_sz) = PaddedList(w, sz, ct, memb_sz)
  BY <1>1, <1>5, Zenon DEF RepParse!PaddedList, PaddedList
<1>7. /\ \A w, c : RepParse!Asserting(w, c) = Asserting(w, c)
      /\ \A m, size : RepParse!Encoded(m, size) = Start(size, m)
  BY Zenon DEF RepParse!Asserting, Asserting, RepParse!Encoded,
     RepParse!Start, Start
<1> QED
  BY <1>1, <1>3, <1>4, <1>5, <1>6, <1>7

(* A reply that has r bytes behind a structure of e bytes                  *)
Replied(m, e, r) ==
  /\ e \in Nat /\ e % 4 = 0 /\ e >= 32
  /\ r \in Nat /\ r % 4 = 0
  /\ m.sz = e + r

(* The structure is walked, and the extra length accounts for the rest.    *)
LEMMA ReplyEncoded ==
  ASSUME NEW m, NEW e, NEW r, Replied(m, e, r)
  PROVE  /\ Sound(RepParse!Encoded(m, e), e, 0)
         /\ e \in Nat /\ r \in Nat /\ m.sz = e + r
         /\ Aligned(m)
         /\ RepParse!Size(RepParse!ExtraUnits(m)) = m.sz - 32
         /\ RepParse!ExtraUnits(m) = Units(m.sz - 32)
<1>1. /\ e \in Nat /\ r \in Nat /\ m.sz = e + r /\ m.sz \in Nat /\ e <= m.sz
      /\ m.sz % 4 = 0 /\ m.sz - 32 \in Nat /\ (m.sz - 32) % 4 = 0
  BY DEF Replied
<1>2. Sound(RepParse!Encoded(m, e), e, 0)
  BY <1>1, StartSound, ReplySteps
<1>3. RepParse!ExtraUnits(m) = (m.sz - 32) \div 4
  BY DEF RepParse!ExtraUnits, RepParse!ENCODING_SZ, RepParse!ALIGN
<1>4. /\ Units(m.sz - 32) = (m.sz - 32) \div 4
      /\ Units(m.sz - 32) \in Nat
      /\ 4 * Units(m.sz - 32) = m.sz - 32
  BY <1>1, UnitsOfAligned
<1>5. RepParse!Size(RepParse!ExtraUnits(m)) = m.sz - 32
  BY <1>3, <1>4 DEF RepParse!Size, RepParse!ALIGN
<1> QED
  BY <1>1, <1>2, <1>3, <1>4, <1>5 DEF Aligned

(* The assertion about the extra length holds for what was walked to the   *)
(* end.                                                                    *)
LEMMA ReplyEnds ==
  ASSUME NEW m, NEW e, NEW r, Replied(m, e, r),
         NEW w, NEW l \in Nat, Sound(w, m.sz, l)
  PROVE  Sound(RepParse!FollowedBy(m, w), m.sz, l)
<1> DEFINE c == RepParse!ExtraUnits(m) = RepParse!Units(w.at - RepParse!ENCODING_SZ)
<1>1. RepParse!FollowedBy(m, w) = Asserting(w, c)
  BY ReplySteps, Zenon DEF RepParse!FollowedBy
<1>2. w.at = m.sz
  BY DEF Sound
<1>3. c \in BOOLEAN /\ c
  BY <1>2, ReplySteps, ReplyEncoded, Zenon DEF RepParse!ENCODING_SZ
<1>4. m.sz \in Nat
  BY ReplyEncoded DEF Aligned
<1> HIDE DEF c
<1>5. Sound(Asserting(w, c), m.sz, l)
  BY <1>3, <1>4, AssertingSound
<1> QED
  BY <1>1, <1>5

(* A reply that is walked to its end as it should be                       *)
LEMMA ReplyRight ==
  ASSUME NEW m, NEW e, NEW r, Replied(m, e, r),
         NEW w, NEW l \in Nat, Sound(w, m.sz, l), l = MembersOf(m), ~Misled(m)
  PROVE  Right(m, RepParse!FollowedBy(m, w))
  BY ReplyEnds, ReplyEncoded, SoundIsRight

(* A reply that misleads and is not walked to its end                      *)
LEMMA ReplyWrong ==
  ASSUME NEW m, NEW e, NEW r, Replied(m, e, r), NEW w, Astray(m, w), Misled(m)
  PROVE  Right(m, RepParse!FollowedBy(m, w))
<1> DEFINE c == RepParse!ExtraUnits(m) = RepParse!Units(w.at - RepParse!ENCODING_SZ)
<1>1. RepParse!FollowedBy(m, w) = Asserting(w, c)
  BY ReplySteps, Zenon DEF RepParse!FollowedBy
<1>2. c \in BOOLEAN
  BY Zenon
<1> HIDE DEF c
<1> QED
  BY <1>1, <1>2, AstrayAsserting, ReplyEncoded, AstrayIsRight

(* Nothing but the structure                                               *)
LEMMA ReplyFixedShape ==
  ASSUME NEW m, NEW e, Replied(m, e, 0), MembersOf(m) = 0, ~Misled(m)
  PROVE  Right(m, RepParse!FollowedBy(m, RepParse!Encoded(m, e)))
<1>1. Sound(RepParse!Encoded(m, e), m.sz, 0)
  <2>1. m.sz = e
    BY DEF Replied
  <2> QED
    BY <2>1, ReplyEncoded
<1> QED
  BY <1>1, ReplyRight

(* A string behind the structure                                           *)
LEMMA ReplyStringShape ==
  ASSUME NEW m, NEW e, NEW n \in Nat, Replied(m, e, Pad(n)),
         MembersOf(m) = n, ~Misled(m)
  PROVE  Right(m, RepParse!FollowedBy(m, RepParse!String8(RepParse!Encoded(m, e), n)))
<1> DEFINE en == RepParse!Encoded(m, e)
<1>1. Sound(en, e, 0) /\ e \in Nat /\ m.sz = e + Pad(n)
  BY ReplyEncoded
<1> HIDE DEF en
<1>2. Sound(RepParse!String8(en, n), e + Pad(n), 0 + n)
  BY <1>1, ReplySteps, String8Sound
<1>3. Sound(RepParse!String8(en, n), m.sz, n)
  BY <1>1, <1>2
<1> QED
  BY <1>3, ReplyRight DEF en

(* A list whose members fill whole units                                   *)
LEMMA ReplyListShape ==
  ASSUME NEW m, NEW e, NEW n \in Nat, NEW u \in Nat, Replied(m, e, n * u),
         Short(n), MembersOf(m) = n, ~Misled(m)
  PROVE  Right(m, RepParse!FollowedBy(m,
                    RepParse!List(RepParse!Encoded(m, e), m.sz - e, n, u)))
<1> DEFINE en == RepParse!Encoded(m, e)
           r == n * u
<1>1. r \in Nat
  OBVIOUS
<1> HIDE DEF r
<1>2. Sound(en, e, 0) /\ e \in Nat /\ m.sz = e + r
  BY ReplyEncoded DEF r
<1>3. m.sz - e = r /\ r \in Int
  BY <1>1, <1>2
<1> HIDE DEF en
<1>4. Sound(RepParse!List(en, r, n, u), e + n * u, 0 + n)
  <2>1. n * u <= r /\ 0 \in Nat
    BY <1>1 DEF r
  <2> QED
    BY <1>2, <1>3, <2>1, ReplySteps, ListSound
<1>5. Sound(RepParse!List(en, r, n, u), m.sz, n)
  BY <1>2, <1>4 DEF r
<1> QED
  BY <1>3, <1>5, ReplyRight DEF en

(* A list with padding behind it                                           *)
LEMMA ReplyPaddedShape ==
  ASSUME NEW m, NEW e, NEW n \in Nat, NEW u \in Nat, Replied(m, e, Pad(n * u)),
         Short(n), MembersOf(m) = n, ~Misled(m)
  PROVE  Right(m, RepParse!FollowedBy(m,
                    RepParse!PaddedList(RepParse!Encoded(m, e), m.sz - e, n, u)))
<1> DEFINE en == RepParse!Encoded(m, e)
           r == Pad(n * u)
<1>1. r \in Nat /\ n * u <= r
  <2>1. n * u \in Nat
    OBVIOUS
  <2> QED
    BY <2>1, PadFacts
<1> HIDE DEF r
<1>2. Sound(en, e, 0) /\ e \in Nat /\ m.sz = e + r
  BY ReplyEncoded DEF r
<1>3. m.sz - e = r /\ r \in Int
  BY <1>1, <1>2
<1> HIDE DEF en
<1>4. Sound(RepParse!PaddedList(en, r, n, u), e + Pad(n * u), 0 + n)
  <2>1. n * u <= r /\ 0 \in Nat
    BY <1>1
  <2> QED
    BY <1>2, <1>3, <2>1, ReplySteps, PaddedListSound
<1>5. Sound(RepParse!PaddedList(en, r, n, u), m.sz, n)
  BY <1>2, <1>4 DEF r
<1> QED
  BY <1>3, <1>5, ReplyRight DEF en

(* Two lists, one behind the other: the second one's count may be cut.     *)
LEMMA ReplyListsShape ==
  ASSUME NEW m, NEW e, NEW n \in Nat, NEW u \in Nat, NEW k \in Nat,
         NEW v \in Nat, v > 0, NEW r \in Nat, r = n * u + k * v, Replied(m, e, r),
         Short(n), MembersOf(m) = n + k, Misled(m) <=> ~Short(k)
  PROVE  LET list == RepParse!List(RepParse!Encoded(m, e), m.sz - e, n, u)
         IN  Right(m, RepParse!FollowedBy(m,
                        RepParse!List(list, m.sz - list.at, k, v)))
<1> DEFINE en == RepParse!Encoded(m, e)
           list == RepParse!List(en, m.sz - e, n, u)
           w == RepParse!List(list, m.sz - list.at, k, v)
<1>1. PICK p \in Nat : p = n * u
  OBVIOUS
<1>2. PICK q \in Nat : q = k * v
  OBVIOUS
<1>3. r = p + q
  BY <1>1, <1>2
<1>4. Sound(en, e, 0) /\ e \in Nat /\ m.sz = e + r
  BY ReplyEncoded
<1>5. m.sz - e \in Int /\ n * u <= m.sz - e /\ 0 \in Nat
  BY <1>1, <1>3, <1>4
<1>6. Sound(list, e + n * u, 0 + n)
  <2> HIDE DEF en
  <2>1. Sound(List(en, m.sz - e, n, u), e + n * u, 0 + n)
    BY <1>4, <1>5, ListSound
  <2> QED
    BY <2>1, ReplySteps
<1>7. Sound(list, e + p, n) /\ e + p \in Nat
  BY <1>1, <1>4, <1>6
<1> HIDE DEF list, en
<1>8. m.sz - list.at = q
  <2>1. list.at = e + p
    BY <1>7 DEF Sound
  <2> QED
    BY <1>3, <1>4, <2>1
<1>9. w = List(list, q, k, v) /\ q \in Int
  BY <1>8, ReplySteps
<1> HIDE DEF w
<1>10. CASE Short(k)
  <2>1. k * v <= q
    BY <1>2
  <2>2. Sound(w, (e + p) + k * v, n + k)
    BY <1>7, <1>9, <1>10, <2>1, ListSound
  <2>3. Sound(w, m.sz, n + k) /\ n + k \in Nat
    BY <1>2, <1>3, <1>4, <2>2
  <2> QED
    BY <1>10, <2>3, ReplyRight DEF w, list, en
<1>11. CASE ~Short(k)
  <2> DEFINE c == k % 65536
  <2>1. c \in Nat /\ c < k
    BY <1>11 DEF Short
  <2>2. w \in Walks /\ w.at = list.at + c * v
    BY <1>7, <1>9, ListType DEF Sound
  <2> HIDE DEF c
  <2>3. c * v \in Nat /\ c * v < q
    BY <1>2, <2>1
  <2>4. list.at = e + p
    BY <1>7 DEF Sound
  <2>5. w.at # m.sz
    <3>1. w.at = (e + p) + c * v
      BY <2>2, <2>4
    <3>2. \A x \in Nat : x < q => (e + p) + x # m.sz
      BY <1>3, <1>4
    <3> QED
      BY <2>3, <3>1, <3>2
  <2>6. Astray(m, w)
    BY <2>2, <2>5, AstrayElsewhere
  <2> QED
    BY <1>11, <2>6, ReplyWrong DEF w, list, en
<1> QED
  BY <1>10, <1>11

(* A list with another count than the reply has members                    *)
LEMMA ReplyOtherCount ==
  ASSUME NEW m, NEW n \in Nat, NEW u \in Nat, u > 0, Replied(m, 32, n * u),
         NEW ct \in Nat, ct % 65536 # n
  PROVE  /\ Astray(m, RepParse!List(RepParse!Encoded(m, 32), m.sz - 32, ct, u))
         /\ u = 4 => Astray(m, RepParse!PaddedList(RepParse!Encoded(m, 32),
                                                   m.sz - 32, ct, u))
<1> DEFINE en == RepParse!Encoded(m, 32)
           list == RepParse!List(en, m.sz - 32, ct, u)
           padded == RepParse!PaddedList(en, m.sz - 32, ct, u)
           c == ct % 65536
<1>1. PICK r \in Nat : r = n * u
  OBVIOUS
<1>2. Sound(en, 32, 0) /\ m.sz = 32 + r
  BY <1>1, ReplyEncoded
<1>3. c \in Nat /\ c # n
  OBVIOUS
<1>4. en \in Walks /\ en.at = 32 /\ m.sz - 32 \in Int
  BY <1>2 DEF Sound
<1> HIDE DEF en
<1>5. /\ list \in Walks /\ list.at = 32 + c * u
      /\ padded \in Walks /\ padded.at = 32 + Pad(c * u)
  BY <1>4, ListType, PaddedListType, ReplySteps
<1> HIDE DEF c, list, padded
<1>6. PICK p \in Nat : p = c * u
  BY <1>3
<1>7. p # r
  BY <1>1, <1>3, <1>6
<1>8. Astray(m, list)
  <2>1. list.at # m.sz
    BY <1>2, <1>5, <1>6, <1>7
  <2> QED
    BY <1>5, <2>1, AstrayElsewhere
<1>9. u = 4 => Astray(m, padded)
  <2> SUFFICES ASSUME u = 4 PROVE Astray(m, padded)
    OBVIOUS
  <2>1. Pad(p) = p
    <3>1. p % 4 = 0
      BY <1>3, <1>6
    <3> QED
      BY <3>1, PadOfAligned
  <2>2. padded.at # m.sz
    BY <1>2, <1>5, <1>6, <1>7, <2>1
  <2> QED
    BY <1>5, <2>2, AstrayElsewhere
<1> QED
  BY <1>8, <1>9 DEF list, padded, en

(* A list of bytes with a count of more than 16 bits                       *)
LEMMA ReplyBytesCut ==
  ASSUME NEW m, NEW n \in Nat, Replied(m, 32, Pad(n)), ~Short(n)
  PROVE  Astray(m, RepParse!PaddedList(RepParse!Encoded(m, 32), m.sz - 32, n, 1))
<1> DEFINE en == RepParse!Encoded(m, 32)
           padded == RepParse!PaddedList(en, m.sz - 32, n, 1)
           c == n % 65536
<1>1. PICK r \in Nat : r = Pad(n) /\ n <= r
  BY PadFacts
<1>2. Sound(en, 32, 0) /\ m.sz = 32 + r
  BY <1>1, ReplyEncoded
<1>3. c \in Nat /\ c + 4 <= n
  BY DEF Short
<1>4. en \in Walks /\ en.at = 32 /\ m.sz - 32 \in Int /\ 1 \in Nat
  BY <1>2 DEF Sound
<1> HIDE DEF en
<1>5. padded \in Walks /\ padded.at = 32 + Pad(c * 1)
  BY <1>4, PaddedListType, ReplySteps
<1> HIDE DEF c, padded
<1>6. c * 1 = c /\ Pad(c) \in Nat /\ Pad(c) <= c + 3
  BY <1>3, PadFacts
<1>7. padded.at # m.sz
  BY <1>1, <1>2, <1>3, <1>5, <1>6
<1>8. Astray(m, padded)
  BY <1>5, <1>7, AstrayElsewhere
<1> QED
  BY <1>8 DEF padded, en

-----------------------------------------------------------------------------
(* Replies, kind by kind. m0 is the message before its size is entered.    *)
Answered(m, m0) ==
  /\ m.class = "reply" /\ m.kind \in RepEnc!ReplyKinds
  /\ m.n \in Nat /\ m.k \in Nat /\ m.opt \in BOOLEAN
  /\ m.enabled \in BOOLEAN /\ m.swap \in BOOLEAN /\ m.stray \in BOOLEAN
  /\ m0.kind = m.kind /\ m0.n = m.n /\ m0.k = m.k /\ m0.opt = m.opt
  /\ m.sz = RepEnc!ReplySize(m0)
  /\ RepEnc!ReplyCountsFit(m)

(* The members of a reply are counted by ReplyEncodings.                   *)
LEMMA AnsweredMembers ==
  ASSUME NEW m, NEW m0, Answered(m, m0)
  PROVE  MembersOf(m) = RepEnc!ReplyMembers(m)
  BY DEF Answered, MembersOf

(* Its size is that of the structure and of what follows.                  *)
LEMMA AnsweredSized ==
  ASSUME NEW m, NEW m0, Answered(m, m0), NEW e \in Nat, e % 4 = 0, e >= 32,
         NEW r \in Nat, r % 4 = 0, RepEnc!ReplySize(m0) = e + r
  PROVE  Replied(m, e, r)
  BY Zenon DEF Answered, Replied

(* Lists of aligned members are aligned.                                   *)
LEMMA TimesOfAligned ==
  ASSUME NEW n \in Nat, NEW u \in Nat, u % 4 = 0
  PROVE  (n * u) % 4 = 0
<1>1. PICK v \in Nat : u = 4 * v
  BY u \div 4 \in Nat
<1>2. PICK p \in Nat : p = n * v
  OBVIOUS
<1>3. n * (4 * v) = 4 * (n * v)
  OBVIOUS
<1>4. n * u = 4 * p
  BY <1>1, <1>2, <1>3
<1> QED
  BY <1>4

(* The replies without a list or a string, by the size of their fields     *)
Plain32a ==
  {"GetGeometry", "InternAtom", "GetSelectionOwner", "GrabPointer",
   "GrabKeyboard", "QueryPointer"}
Plain32b ==
  {"TranslateCoordinates", "GetInputFocus", "QueryTextExtents", "AllocColor",
   "AllocNamedColor", "LookupColor"}
Plain32c ==
  {"QueryBestSize", "QueryExtension", "GetPointerControl", "GetScreenSaver",
   "SetPointerMapping", "SetModifierMapping"}
Plain44 ==
  {"GetWindowAttributes"}
Plain40 ==
  {"QueryKeymap"}
Plain52 ==
  {"GetKeyboardControl"}
PlainReplies ==
  Plain32a \cup Plain32b \cup Plain32c \cup Plain44 \cup Plain40 \cup Plain52

(* Replies without a list: no members to mislead                           *)
LEMMA PlainRepliesHold ==
  ASSUME NEW m, NEW m0, Answered(m, m0), m.kind \in PlainReplies
  PROVE  MembersOf(m) = 0 /\ ~Misled(m)
<1>1. m.n = 0
  BY DEF Answered, RepEnc!ReplyCountsFit, PlainReplies,
     Plain32a, Plain32b, Plain32c, Plain44, Plain40, Plain52,
     RepEnc!ReplyCountsOf8Bits, RepEnc!ReplyCountsOf16Bits,
     RepEnc!ReplyCountsOf32Bits
<1>2. RepEnc!ReplyMembers(m) = 0
  BY <1>1 DEF RepEnc!ReplyMembers, PlainReplies,
     Plain32a, Plain32b, Plain32c, Plain44, Plain40, Plain52
<1>3. ~Misled(m)
  BY <1>1 DEF Answered, PlainReplies,
     Plain32a, Plain32b, Plain32c, Plain44, Plain40, Plain52,
     Misled, NotOpened, CountCut, WrongLength, Unswapped, NotExpected
<1> QED
  BY <1>2, <1>3, AnsweredMembers

(* A structure of 32 bytes                                                 *)
LEMMA Plain32aRight ==
  ASSUME NEW m, NEW m0, Answered(m, m0), m.kind \in Plain32a
  PROVE  Right(m, RepParse!ReplyWalk(m))
<1>1. /\ RepEnc!GetGeometry(m0) = 32
      /\ RepEnc!InternAtom(m0) = 32
      /\ RepEnc!GetSelectionOwner(m0) = 32
      /\ RepEnc!GrabPointer(m0) = 32
      /\ RepEnc!GrabKeyboard(m0) = 32
      /\ RepEnc!QueryPointer(m0) = 32
  BY DEF RepEnc!GetGeometry, RepEnc!InternAtom, RepEnc!GetSelectionOwner,
         RepEnc!GrabPointer, RepEnc!GrabKeyboard, RepEnc!QueryPointer,
         RepEnc!HEADER, RepEnc!CARD8, RepEnc!CARD16, RepEnc!CARD32,
         RepEnc!WINDOW, RepEnc!INT16, RepEnc!ATOM, RepEnc!SETofKEYBUTMASK
<1>2. m0.kind \in Plain32a
  BY DEF Answered
<1>3. RepEnc!ReplySize(m0) = 32
  BY <1>1, <1>2, ZenonT(40) DEF Plain32a, RepEnc!ReplySize
<1>4. RepParse!ReplyWalk(m) = RepParse!FollowedBy(m, RepParse!Encoded(m, 32))
  BY ZenonT(40) DEF Plain32a, RepParse!ReplyWalk,
     RepParse!GetGeometry, RepParse!InternAtom, RepParse!GetSelectionOwner,
     RepParse!GrabPointer, RepParse!GrabKeyboard, RepParse!QueryPointer
<1>5. Replied(m, 32, 0)
  BY <1>3, AnsweredSized
<1>6. MembersOf(m) = 0 /\ ~Misled(m)
  BY PlainRepliesHold, Zenon DEF PlainReplies
<1> QED
  BY <1>4, <1>5, <1>6, ReplyFixedShape

(* A structure of 32 bytes, the second part                                *)
LEMMA Plain32bRight ==
  ASSUME NEW m, NEW m0, Answered(m, m0), m.kind \in Plain32b
  PROVE  Right(m, RepParse!ReplyWalk(m))
<1>1. /\ RepEnc!TranslateCoordinates(m0) = 32
      /\ RepEnc!GetInputFocus(m0) = 32
      /\ RepEnc!QueryTextExtents(m0) = 32
      /\ RepEnc!AllocColor(m0) = 32
      /\ RepEnc!AllocNamedColor(m0) = 32
      /\ RepEnc!LookupColor(m0) = 32
  BY DEF RepEnc!TranslateCoordinates, RepEnc!GetInputFocus,
         RepEnc!QueryTextExtents, RepEnc!AllocColor, RepEnc!AllocNamedColor,
         RepEnc!LookupColor, RepEnc!HEADER, RepEnc!CARD8, RepEnc!CARD16,
         RepEnc!CARD32, RepEnc!WINDOW, RepEnc!INT16, RepEnc!INT32
<1>2. m0.kind \in Plain32b
  BY DEF Answered
<1>3. RepEnc!ReplySize(m0) = 32
  BY <1>1, <1>2, ZenonT(40) DEF Plain32b, RepEnc!ReplySize
<1>4. RepParse!ReplyWalk(m) = RepParse!FollowedBy(m, RepParse!Encoded(m, 32))
  BY ZenonT(40) DEF Plain32b, RepParse!ReplyWalk,
     RepParse!TranslateCoordinates, RepParse!GetInputFocus,
     RepParse!QueryTextExtents, RepParse!AllocColor, RepParse!AllocNamedColor,
     RepParse!LookupColor
<1>5. Replied(m, 32, 0)
  BY <1>3, AnsweredSized
<1>6. MembersOf(m) = 0 /\ ~Misled(m)
  BY PlainRepliesHold, Zenon DEF PlainReplies
<1> QED
  BY <1>4, <1>5, <1>6, ReplyFixedShape

(* A structure of 32 bytes, the third                                      *)
LEMMA Plain32cRight ==
  ASSUME NEW m, NEW m0, Answered(m, m0), m.kind \in Plain32c
  PROVE  Right(m, RepParse!ReplyWalk(m))
<1>1. /\ RepEnc!QueryBestSize(m0) = 32
      /\ RepEnc!QueryExtension(m0) = 32
      /\ RepEnc!GetPointerControl(m0) = 32
      /\ RepEnc!GetScreenSaver(m0) = 32
      /\ RepEnc!SetPointerMapping(m0) = 32
      /\ RepEnc!SetModifierMapping(m0) = 32
  BY DEF RepEnc!QueryBestSize, RepEnc!QueryExtension,
         RepEnc!GetPointerControl, RepEnc!GetScreenSaver,
         RepEnc!SetPointerMapping, RepEnc!SetModifierMapping, RepEnc!HEADER,
         RepEnc!CARD8, RepEnc!CARD16, RepEnc!CARD32, RepEnc!BOOL
<1>2. m0.kind \in Plain32c
  BY DEF Answered
<1>3. RepEnc!ReplySize(m0) = 32
  BY <1>1, <1>2, ZenonT(40) DEF Plain32c, RepEnc!ReplySize
<1>4. RepParse!ReplyWalk(m) = RepParse!FollowedBy(m, RepParse!Encoded(m, 32))
  BY ZenonT(40) DEF Plain32c, RepParse!ReplyWalk,
     RepParse!QueryBestSize, RepParse!QueryExtension,
     RepParse!GetPointerControl, RepParse!GetScreenSaver,
     RepParse!SetPointerMapping, RepParse!SetModifierMapping
<1>5. Replied(m, 32, 0)
  BY <1>3, AnsweredSized
<1>6. MembersOf(m) = 0 /\ ~Misled(m)
  BY PlainRepliesHold, Zenon DEF PlainReplies
<1> QED
  BY <1>4, <1>5, <1>6, ReplyFixedShape

(* A structure of 44 bytes                                                 *)
LEMMA Plain44Right ==
  ASSUME NEW m, NEW m0, Answered(m, m0), m.kind \in Plain44
  PROVE  Right(m, RepParse!ReplyWalk(m))
<1>1. /\ RepEnc!GetWindowAttributes(m0) = 44
  BY DEF RepEnc!GetWindowAttributes, RepEnc!HEADER, RepEnc!CARD8,
         RepEnc!CARD16, RepEnc!CARD32, RepEnc!VISUALID, RepEnc!BITGRAVITY,
         RepEnc!WINGRAVITY, RepEnc!BOOL, RepEnc!COLORMAP, RepEnc!SETofEVENT,
         RepEnc!SETofDEVICEEVENT
<1>2. m0.kind \in Plain44
  BY DEF Answered
<1>3. RepEnc!ReplySize(m0) = 44
  BY <1>1, <1>2, ZenonT(40) DEF Plain44, RepEnc!ReplySize
<1>4. RepParse!ReplyWalk(m) = RepParse!FollowedBy(m, RepParse!Encoded(m, 44))
  BY ZenonT(40) DEF Plain44, RepParse!ReplyWalk,
     RepParse!GetWindowAttributes
<1>5. Replied(m, 44, 0)
  BY <1>3, AnsweredSized
<1>6. MembersOf(m) = 0 /\ ~Misled(m)
  BY PlainRepliesHold, Zenon DEF PlainReplies
<1> QED
  BY <1>4, <1>5, <1>6, ReplyFixedShape

(* A structure of 40 bytes                                                 *)
LEMMA Plain40Right ==
  ASSUME NEW m, NEW m0, Answered(m, m0), m.kind \in Plain40
  PROVE  Right(m, RepParse!ReplyWalk(m))
<1>1. /\ RepEnc!QueryKeymap(m0) = 40
  BY DEF RepEnc!QueryKeymap, RepEnc!HEADER, RepEnc!CARD8, RepEnc!CARD16,
         RepEnc!CARD32
<1>2. m0.kind \in Plain40
  BY DEF Answered
<1>3. RepEnc!ReplySize(m0) = 40
  BY <1>1, <1>2, ZenonT(40) DEF Plain40, RepEnc!ReplySize
<1>4. RepParse!ReplyWalk(m) = RepParse!FollowedBy(m, RepParse!Encoded(m, 40))
  BY ZenonT(40) DEF Plain40, RepParse!ReplyWalk,
     RepParse!QueryKeymap
<1>5. Replied(m, 40, 0)
  BY <1>3, AnsweredSized
<1>6. MembersOf(m) = 0 /\ ~Misled(m)
  BY PlainRepliesHold, Zenon DEF PlainReplies
<1> QED
  BY <1>4, <1>5, <1>6, ReplyFixedShape

(* A structure of 52 bytes                                                 *)
LEMMA Plain52Right ==
  ASSUME NEW m, NEW m0, Answered(m, m0), m.kind \in Plain52
  PROVE  Right(m, RepParse!ReplyWalk(m))
<1>1. /\ RepEnc!GetKeyboardControl(m0) = 52
  BY DEF RepEnc!GetKeyboardControl, RepEnc!HEADER, RepEnc!CARD8,
         RepEnc!CARD16, RepEnc!CARD32
<1>2. m0.kind \in Plain52
  BY DEF Answered
<1>3. RepEnc!ReplySize(m0) = 52
  BY <1>1, <1>2, ZenonT(40) DEF Plain52, RepEnc!ReplySize
<1>4. RepParse!ReplyWalk(m) = RepParse!FollowedBy(m, RepParse!Encoded(m, 52))
  BY ZenonT(40) DEF Plain52, RepParse!ReplyWalk,
     RepParse!GetKeyboardControl
<1>5. Replied(m, 52, 0)
  BY <1>3, AnsweredSized
<1>6. MembersOf(m) = 0 /\ ~Misled(m)
  BY PlainRepliesHold, Zenon DEF PlainReplies
<1> QED
  BY <1>4, <1>5, <1>6, ReplyFixedShape

(* All replies without a list or a string                                  *)
LEMMA PlainRepliesRight ==
  ASSUME NEW m, NEW m0, Answered(m, m0), m.kind \in PlainReplies
  PROVE  Right(m, RepParse!ReplyWalk(m))
  BY Plain32aRight, Plain32bRight, Plain32cRight, Plain44Right, Plain40Right,
     Plain52Right, Zenon
     DEF PlainReplies

(* The replies that carry one list or string with its count in 16 bits     *)
ListedReplies ==
  {"GetAtomName", "QueryTree", "ListInstalledColormaps", "AllocColorPlanes",
   "QueryColors", "ListHosts", "ListFonts", "GetFontPath", "ListExtensions"}

(* Replies with one list, of a count of its own: no cut                    *)
LEMMA ListedRepliesHold ==
  ASSUME NEW m, NEW m0, Answered(m, m0), m.kind \in ListedReplies
  PROVE  MembersOf(m) = m.n /\ ~Misled(m) /\ Short(m.n) /\ m.n \in Nat
<1>1. m.n < 65536
  BY DEF Answered, RepEnc!ReplyCountsFit, ListedReplies,
     RepEnc!ReplyCountsOf8Bits, RepEnc!ReplyCountsOf16Bits
<1>2. RepEnc!ReplyMembers(m) = m.n
  BY DEF RepEnc!ReplyMembers, ListedReplies
<1>3. ~Misled(m)
  BY <1>1 DEF Answered, ListedReplies,
     Misled, NotOpened, CountCut, WrongLength, Unswapped, NotExpected
<1> QED
  BY <1>1, <1>2, <1>3, AnsweredMembers DEF Short, Answered

(* A list of windows                                                       *)
LEMMA QueryTreeReply ==
  ASSUME NEW m, NEW m0, Answered(m, m0), m.kind = "QueryTree"
  PROVE  Right(m, RepParse!ReplyWalk(m))
<1>1. PICK u \in Nat : u = 4
  <2>1. m.k \in Nat
    BY DEF Answered
  <2> QED
    BY <2>1, PadFacts
<1>2. /\ m0.kind = "QueryTree" /\ m0.n = m.n /\ m0.k = m.k
      /\ m.n \in Nat /\ m.k \in Nat
  BY DEF Answered
<1>3. RepEnc!QueryTree(m0) = 32 + m.n * u
  <2>1. RepEnc!WINDOW * m0.n = m.n * u
    BY <1>1, <1>2, EncodedPads DEF RepEnc!WINDOW
  <2>2. m.n * u \in Nat
    BY <1>2
  <2>3. RepEnc!QueryTree(m0) = 32 + RepEnc!WINDOW * m0.n
    BY DEF RepEnc!QueryTree, RepEnc!HEADER, RepEnc!CARD8, RepEnc!CARD16,
           RepEnc!CARD32, RepEnc!WINDOW
  <2> QED
    BY <2>1, <2>2, <2>3, EncodedPads
<1>4. RepEnc!ReplySize(m0) = 32 + m.n * u
  BY <1>2, <1>3, Zenon DEF RepEnc!ReplySize
<1>5. RepParse!ReplyWalk(m) =
        RepParse!FollowedBy(m, RepParse!List(RepParse!Encoded(m, 32), m.sz - 32, m.n,
                                             4))
  BY Zenon DEF RepParse!ReplyWalk, RepParse!QueryTree
<1>6. 4 = u
  BY <1>1
<1>7. Replied(m, 32, m.n * u)
  <2>1. m.n * u \in Nat
    BY <1>2
  <2>2. (m.n * u) % 4 = 0
    BY <1>1, <1>2
  <2> QED
    BY <1>4, <2>1, <2>2, AnsweredSized
<1>8. MembersOf(m) = m.n /\ ~Misled(m) /\ Short(m.n)
  BY ListedRepliesHold, Zenon DEF ListedReplies
<1> QED
  BY <1>2, <1>5, <1>6, <1>7, <1>8, ReplyListShape

(* A list of colormaps                                                     *)
LEMMA ListInstalledColormapsReply ==
  ASSUME NEW m, NEW m0, Answered(m, m0), m.kind = "ListInstalledColormaps"
  PROVE  Right(m, RepParse!ReplyWalk(m))
<1>1. PICK u \in Nat : u = 4
  <2>1. m.k \in Nat
    BY DEF Answered
  <2> QED
    BY <2>1, PadFacts
<1>2. /\ m0.kind = "ListInstalledColormaps" /\ m0.n = m.n /\ m0.k = m.k
      /\ m.n \in Nat /\ m.k \in Nat
  BY DEF Answered
<1>3. RepEnc!ListInstalledColormaps(m0) = 32 + m.n * u
  <2>1. RepEnc!COLORMAP * m0.n = m.n * u
    BY <1>1, <1>2, EncodedPads DEF RepEnc!COLORMAP
  <2>2. m.n * u \in Nat
    BY <1>2
  <2>3. RepEnc!ListInstalledColormaps(m0) = 32 + RepEnc!COLORMAP * m0.n
    BY DEF RepEnc!ListInstalledColormaps, RepEnc!HEADER, RepEnc!CARD8,
           RepEnc!CARD16, RepEnc!CARD32, RepEnc!COLORMAP
  <2> QED
    BY <2>1, <2>2, <2>3, EncodedPads
<1>4. RepEnc!ReplySize(m0) = 32 + m.n * u
  BY <1>2, <1>3, Zenon DEF RepEnc!ReplySize
<1>5. RepParse!ReplyWalk(m) =
        RepParse!FollowedBy(m, RepParse!List(RepParse!Encoded(m, 32), m.sz - 32, m.n,
                                             4))
  BY Zenon DEF RepParse!ReplyWalk, RepParse!ListInstalledColormaps
<1>6. 4 = u
  BY <1>1
<1>7. Replied(m, 32, m.n * u)
  <2>1. m.n * u \in Nat
    BY <1>2
  <2>2. (m.n * u) % 4 = 0
    BY <1>1, <1>2
  <2> QED
    BY <1>4, <2>1, <2>2, AnsweredSized
<1>8. MembersOf(m) = m.n /\ ~Misled(m) /\ Short(m.n)
  BY ListedRepliesHold, Zenon DEF ListedReplies
<1> QED
  BY <1>2, <1>5, <1>6, <1>7, <1>8, ReplyListShape

(* A list of pixels                                                        *)
LEMMA AllocColorPlanesReply ==
  ASSUME NEW m, NEW m0, Answered(m, m0), m.kind = "AllocColorPlanes"
  PROVE  Right(m, RepParse!ReplyWalk(m))
<1>1. PICK u \in Nat : u = 4
  <2>1. m.k \in Nat
    BY DEF Answered
  <2> QED
    BY <2>1, PadFacts
<1>2. /\ m0.kind = "AllocColorPlanes" /\ m0.n = m.n /\ m0.k = m.k
      /\ m.n \in Nat /\ m.k \in Nat
  BY DEF Answered
<1>3. RepEnc!AllocColorPlanes(m0) = 32 + m.n * u
  <2>1. RepEnc!CARD32 * m0.n = m.n * u
    BY <1>1, <1>2, EncodedPads DEF RepEnc!CARD32
  <2>2. m.n * u \in Nat
    BY <1>2
  <2>3. RepEnc!AllocColorPlanes(m0) = 32 + RepEnc!CARD32 * m0.n
    BY DEF RepEnc!AllocColorPlanes, RepEnc!HEADER, RepEnc!CARD8,
           RepEnc!CARD16, RepEnc!CARD32
  <2> QED
    BY <2>1, <2>2, <2>3, EncodedPads
<1>4. RepEnc!ReplySize(m0) = 32 + m.n * u
  BY <1>2, <1>3, Zenon DEF RepEnc!ReplySize
<1>5. RepParse!ReplyWalk(m) =
        RepParse!FollowedBy(m, RepParse!List(RepParse!Encoded(m, 32), m.sz - 32, m.n,
                                             4))
  BY Zenon DEF RepParse!ReplyWalk, RepParse!AllocColorPlanes
<1>6. 4 = u
  BY <1>1
<1>7. Replied(m, 32, m.n * u)
  <2>1. m.n * u \in Nat
    BY <1>2
  <2>2. (m.n * u) % 4 = 0
    BY <1>1, <1>2
  <2> QED
    BY <1>4, <2>1, <2>2, AnsweredSized
<1>8. MembersOf(m) = m.n /\ ~Misled(m) /\ Short(m.n)
  BY ListedRepliesHold, Zenon DEF ListedReplies
<1> QED
  BY <1>2, <1>5, <1>6, <1>7, <1>8, ReplyListShape

(* A list of colors                                                        *)
LEMMA QueryColorsReply ==
  ASSUME NEW m, NEW m0, Answered(m, m0), m.kind = "QueryColors"
  PROVE  Right(m, RepParse!ReplyWalk(m))
<1>1. PICK u \in Nat : u = 8
  <2>1. m.k \in Nat
    BY DEF Answered
  <2> QED
    BY <2>1, PadFacts
<1>2. /\ m0.kind = "QueryColors" /\ m0.n = m.n /\ m0.k = m.k
      /\ m.n \in Nat /\ m.k \in Nat
  BY DEF Answered
<1>3. RepEnc!QueryColors(m0) = 32 + m.n * u
  <2>1. RepEnc!RGB * m0.n = m.n * u
    BY <1>1, <1>2, EncodedPads DEF RepEnc!RGB, RepEnc!CARD16
  <2>2. m.n * u \in Nat
    BY <1>2
  <2>3. RepEnc!QueryColors(m0) = 32 + RepEnc!RGB * m0.n
    BY DEF RepEnc!QueryColors, RepEnc!HEADER, RepEnc!CARD8, RepEnc!CARD16,
           RepEnc!CARD32, RepEnc!RGB
  <2> QED
    BY <2>1, <2>2, <2>3, EncodedPads
<1>4. RepEnc!ReplySize(m0) = 32 + m.n * u
  BY <1>2, <1>3, Zenon DEF RepEnc!ReplySize
<1>5. RepParse!ReplyWalk(m) =
        RepParse!FollowedBy(m, RepParse!List(RepParse!Encoded(m, 32), m.sz - 32, m.n,
                                             8))
  BY Zenon DEF RepParse!ReplyWalk, RepParse!QueryColors
<1>6. 8 = u
  BY <1>1
<1>7. Replied(m, 32, m.n * u)
  <2>1. m.n * u \in Nat
    BY <1>2
  <2>2. (m.n * u) % 4 = 0
    BY <1>1, <1>2
  <2> QED
    BY <1>4, <2>1, <2>2, AnsweredSized
<1>8. MembersOf(m) = m.n /\ ~Misled(m) /\ Short(m.n)
  BY ListedRepliesHold, Zenon DEF ListedReplies
<1> QED
  BY <1>2, <1>5, <1>6, <1>7, <1>8, ReplyListShape

(* A list of hosts with their addresses                                    *)
LEMMA ListHostsReply ==
  ASSUME NEW m, NEW m0, Answered(m, m0), m.kind = "ListHosts"
  PROVE  Right(m, RepParse!ReplyWalk(m))
<1>1. PICK u \in Nat : u = 4 + Pad(m.k)
  <2>1. m.k \in Nat
    BY DEF Answered
  <2> QED
    BY <2>1, PadFacts
<1>2. /\ m0.kind = "ListHosts" /\ m0.n = m.n /\ m0.k = m.k
      /\ m.n \in Nat /\ m.k \in Nat
  BY DEF Answered
<1>3. RepEnc!ListHosts(m0) = 32 + m.n * u
  <2>1. RepEnc!HOST(m0.k) * m0.n = m.n * u
    BY <1>1, <1>2, EncodedPads DEF RepEnc!HOST, RepEnc!CARD8, RepEnc!CARD16
  <2>2. m.n * u \in Nat
    BY <1>2
  <2>3. RepEnc!ListHosts(m0) = 32 + RepEnc!HOST(m0.k) * m0.n
    BY DEF RepEnc!ListHosts, RepEnc!HEADER, RepEnc!CARD8, RepEnc!CARD16,
           RepEnc!CARD32
  <2> QED
    BY <2>1, <2>2, <2>3, EncodedPads
<1>4. RepEnc!ReplySize(m0) = 32 + m.n * u
  BY <1>2, <1>3, Zenon DEF RepEnc!ReplySize
<1>5. RepParse!ReplyWalk(m) =
        RepParse!FollowedBy(m, RepParse!List(RepParse!Encoded(m, 32), m.sz - 32, m.n,
                                             RepParse!HostMember(m.k)))
  BY Zenon DEF RepParse!ReplyWalk, RepParse!ListHosts
<1>6. RepParse!HostMember(m.k) = u
  BY <1>1, <1>2, ReplySteps DEF RepParse!HostMember
<1>7. Replied(m, 32, m.n * u)
  <2>1. m.n * u \in Nat
    BY <1>2
  <2>3. u % 4 = 0
    BY <1>1, <1>2, PadFacts
  <2>2. (m.n * u) % 4 = 0
    BY <1>2, <2>3, TimesOfAligned
  <2> QED
    BY <1>4, <2>1, <2>2, AnsweredSized
<1>8. MembersOf(m) = m.n /\ ~Misled(m) /\ Short(m.n)
  BY ListedRepliesHold, Zenon DEF ListedReplies
<1> QED
  BY <1>2, <1>5, <1>6, <1>7, <1>8, ReplyListShape

(* A list of names with their lengths                                      *)
LEMMA ListFontsReply ==
  ASSUME NEW m, NEW m0, Answered(m, m0), m.kind = "ListFonts"
  PROVE  Right(m, RepParse!ReplyWalk(m))
<1>1. PICK u \in Nat : u = 1 + m.k
  <2>1. m.k \in Nat
    BY DEF Answered
  <2> QED
    BY <2>1, PadFacts
<1>2. /\ m0.kind = "ListFonts" /\ m0.n = m.n /\ m0.k = m.k
      /\ m.n \in Nat /\ m.k \in Nat
  BY DEF Answered
<1>3. RepEnc!ListFonts(m0) = 32 + Pad(m.n * u)
  <2>1. RepEnc!STR(m0.k) * m0.n = m.n * u
    BY <1>1, <1>2, EncodedPads DEF RepEnc!STR, RepEnc!CARD8
  <2>2. m.n * u \in Nat
    BY <1>2
  <2>3. RepEnc!ListFonts(m0) = 32 + RepEnc!Pad(RepEnc!STR(m0.k) * m0.n)
    BY DEF RepEnc!ListFonts, RepEnc!HEADER, RepEnc!CARD8, RepEnc!CARD16,
           RepEnc!CARD32
  <2> QED
    BY <2>1, <2>2, <2>3, EncodedPads
<1>4. RepEnc!ReplySize(m0) = 32 + Pad(m.n * u)
  BY <1>2, <1>3, Zenon DEF RepEnc!ReplySize
<1>5. RepParse!ReplyWalk(m) =
        RepParse!FollowedBy(m, RepParse!PaddedList(RepParse!Encoded(m, 32), m.sz - 32, m.n,
                                             RepParse!StrMember(m.k)))
  BY Zenon DEF RepParse!ReplyWalk, RepParse!ListFonts
<1>6. RepParse!StrMember(m.k) = u
  BY <1>1, <1>2, ReplySteps DEF RepParse!StrMember
<1>7. Replied(m, 32, Pad(m.n * u))
  <2>1. m.n * u \in Nat
    BY <1>2
  <2>2. Pad(m.n * u) \in Nat /\ Pad(m.n * u) % 4 = 0
    BY <2>1, PadFacts
  <2> QED
    BY <1>4, <2>2, AnsweredSized
<1>8. MembersOf(m) = m.n /\ ~Misled(m) /\ Short(m.n)
  BY ListedRepliesHold, Zenon DEF ListedReplies
<1> QED
  BY <1>2, <1>5, <1>6, <1>7, <1>8, ReplyPaddedShape

(* A list of directories with their lengths                                *)
LEMMA GetFontPathReply ==
  ASSUME NEW m, NEW m0, Answered(m, m0), m.kind = "GetFontPath"
  PROVE  Right(m, RepParse!ReplyWalk(m))
<1>1. PICK u \in Nat : u = 1 + m.k
  <2>1. m.k \in Nat
    BY DEF Answered
  <2> QED
    BY <2>1, PadFacts
<1>2. /\ m0.kind = "GetFontPath" /\ m0.n = m.n /\ m0.k = m.k
      /\ m.n \in Nat /\ m.k \in Nat
  BY DEF Answered
<1>3. RepEnc!GetFontPath(m0) = 32 + Pad(m.n * u)
  <2>1. RepEnc!STR(m0.k) * m0.n = m.n * u
    BY <1>1, <1>2, EncodedPads DEF RepEnc!STR, RepEnc!CARD8
  <2>2. m.n * u \in Nat
    BY <1>2
  <2>3. RepEnc!GetFontPath(m0) = 32 + RepEnc!Pad(RepEnc!STR(m0.k) * m0.n)
    BY DEF RepEnc!GetFontPath, RepEnc!HEADER, RepEnc!CARD8, RepEnc!CARD16,
           RepEnc!CARD32
  <2> QED
    BY <2>1, <2>2, <2>3, EncodedPads
<1>4. RepEnc!ReplySize(m0) = 32 + Pad(m.n * u)
  BY <1>2, <1>3, Zenon DEF RepEnc!ReplySize
<1>5. RepParse!ReplyWalk(m) =
        RepParse!FollowedBy(m, RepParse!PaddedList(RepParse!Encoded(m, 32), m.sz - 32, m.n,
                                             RepParse!StrMember(m.k)))
  BY Zenon DEF RepParse!ReplyWalk, RepParse!GetFontPath
<1>6. RepParse!StrMember(m.k) = u
  BY <1>1, <1>2, ReplySteps DEF RepParse!StrMember
<1>7. Replied(m, 32, Pad(m.n * u))
  <2>1. m.n * u \in Nat
    BY <1>2
  <2>2. Pad(m.n * u) \in Nat /\ Pad(m.n * u) % 4 = 0
    BY <2>1, PadFacts
  <2> QED
    BY <1>4, <2>2, AnsweredSized
<1>8. MembersOf(m) = m.n /\ ~Misled(m) /\ Short(m.n)
  BY ListedRepliesHold, Zenon DEF ListedReplies
<1> QED
  BY <1>2, <1>5, <1>6, <1>7, <1>8, ReplyPaddedShape

(* A list of extensions' names with their lengths                          *)
LEMMA ListExtensionsReply ==
  ASSUME NEW m, NEW m0, Answered(m, m0), m.kind = "ListExtensions"
  PROVE  Right(m, RepParse!ReplyWalk(m))
<1>1. PICK u \in Nat : u = 1 + m.k
  <2>1. m.k \in Nat
    BY DEF Answered
  <2> QED
    BY <2>1, PadFacts
<1>2. /\ m0.kind = "ListExtensions" /\ m0.n = m.n /\ m0.k = m.k
      /\ m.n \in Nat /\ m.k \in Nat
  BY DEF Answered
<1>3. RepEnc!ListExtensions(m0) = 32 + Pad(m.n * u)
  <2>1. RepEnc!STR(m0.k) * m0.n = m.n * u
    BY <1>1, <1>2, EncodedPads DEF RepEnc!STR, RepEnc!CARD8
  <2>2. m.n * u \in Nat
    BY <1>2
  <2>3. RepEnc!ListExtensions(m0) = 32 + RepEnc!Pad(RepEnc!STR(m0.k) * m0.n)
    BY DEF RepEnc!ListExtensions, RepEnc!HEADER, RepEnc!CARD8, RepEnc!CARD16,
           RepEnc!CARD32
  <2> QED
    BY <2>1, <2>2, <2>3, EncodedPads
<1>4. RepEnc!ReplySize(m0) = 32 + Pad(m.n * u)
  BY <1>2, <1>3, Zenon DEF RepEnc!ReplySize
<1>5. RepParse!ReplyWalk(m) =
        RepParse!FollowedBy(m, RepParse!PaddedList(RepParse!Encoded(m, 32), m.sz - 32, m.n,
                                             RepParse!StrMember(m.k)))
  BY Zenon DEF RepParse!ReplyWalk, RepParse!ListExtensions
<1>6. RepParse!StrMember(m.k) = u
  BY <1>1, <1>2, ReplySteps DEF RepParse!StrMember
<1>7. Replied(m, 32, Pad(m.n * u))
  <2>1. m.n * u \in Nat
    BY <1>2
  <2>2. Pad(m.n * u) \in Nat /\ Pad(m.n * u) % 4 = 0
    BY <2>1, PadFacts
  <2> QED
    BY <1>4, <2>2, AnsweredSized
<1>8. MembersOf(m) = m.n /\ ~Misled(m) /\ Short(m.n)
  BY ListedRepliesHold, Zenon DEF ListedReplies
<1> QED
  BY <1>2, <1>5, <1>6, <1>7, <1>8, ReplyPaddedShape

(* A string                                                                *)
LEMMA GetAtomNameReply ==
  ASSUME NEW m, NEW m0, Answered(m, m0), m.kind = "GetAtomName"
  PROVE  Right(m, RepParse!ReplyWalk(m))
<1>1. RepEnc!GetAtomName(m0) = 32 + Pad(m.n)
  BY EncodedPads DEF Answered, RepEnc!GetAtomName, RepEnc!HEADER,
     RepEnc!CARD8, RepEnc!CARD16, RepEnc!CARD32
<1>2. RepEnc!ReplySize(m0) = 32 + Pad(m.n)
  <2>1. m0.kind = "GetAtomName"
    BY DEF Answered
  <2> QED
    BY <1>1, <2>1, Zenon DEF RepEnc!ReplySize
<1>3. RepParse!ReplyWalk(m) =
        RepParse!FollowedBy(m, RepParse!String8(RepParse!Encoded(m, 32), m.n))
  BY Zenon DEF RepParse!ReplyWalk, RepParse!GetAtomName
<1>4. Replied(m, 32, Pad(m.n))
  <2>1. Pad(m.n) \in Nat /\ Pad(m.n) % 4 = 0
    BY PadFacts DEF Answered
  <2> QED
    BY <1>2, <2>1, AnsweredSized
<1>5. MembersOf(m) = m.n /\ ~Misled(m) /\ m.n \in Nat
  BY ListedRepliesHold, Zenon DEF ListedReplies
<1> QED
  BY <1>3, <1>4, <1>5, ReplyStringShape

(* All replies with one list or string of a count of its own               *)
LEMMA ListedRepliesRight ==
  ASSUME NEW m, NEW m0, Answered(m, m0), m.kind \in ListedReplies
  PROVE  Right(m, RepParse!ReplyWalk(m))
  BY GetAtomNameReply, QueryTreeReply, ListInstalledColormapsReply,
     AllocColorPlanesReply, QueryColorsReply, ListHostsReply, ListFontsReply,
     GetFontPathReply, ListExtensionsReply, Zenon
     DEF ListedReplies

(* 8 keycodes for each that a modifier may have                            *)
LEMMA GetModifierMappingReply ==
  ASSUME NEW m, NEW m0, Answered(m, m0), m.kind = "GetModifierMapping"
  PROVE  Right(m, RepParse!ReplyWalk(m))
<1>1. RepEnc!GetModifierMapping(m0) = 32 + (8 * m.n) * 1
  BY EncodedPads DEF Answered, RepEnc!GetModifierMapping, RepEnc!HEADER,
     RepEnc!CARD8, RepEnc!CARD16, RepEnc!CARD32, RepEnc!KEYCODE
<1>2. RepEnc!ReplySize(m0) = 32 + (8 * m.n) * 1
  <2>1. m0.kind = "GetModifierMapping"
    BY DEF Answered
  <2> QED
    BY <1>1, <2>1, Zenon DEF RepEnc!ReplySize
<1>3. RepParse!ReplyWalk(m) =
        RepParse!FollowedBy(m, RepParse!List(RepParse!Encoded(m, 32), m.sz - 32,
                                             8 * m.n, 1))
  BY Zenon DEF RepParse!ReplyWalk, RepParse!GetModifierMapping
<1>4. m.n \in Nat /\ m.n < 256
  BY DEF Answered, RepEnc!ReplyCountsFit, RepEnc!ReplyCountsOf8Bits
<1>5. MembersOf(m) = 8 * m.n /\ ~Misled(m)
  <2>1. RepEnc!ReplyMembers(m) = 8 * m.n
    BY DEF RepEnc!ReplyMembers
  <2>2. ~Misled(m)
    BY DEF Answered, Misled, NotOpened, CountCut, WrongLength, Unswapped,
       NotExpected
  <2> QED
    BY <2>1, <2>2, AnsweredMembers
<1>6. PICK n \in Nat : n = 8 * m.n /\ Short(n) /\ n % 4 = 0
  BY <1>4 DEF Short
<1>7. Replied(m, 32, n * 1)
  BY <1>2, <1>6, AnsweredSized
<1> QED
  BY <1>3, <1>5, <1>6, <1>7, ReplyListShape

(* Keysyms, as many as the extra length has units                          *)
LEMMA GetKeyboardMappingReply ==
  ASSUME NEW m, NEW m0, Answered(m, m0), m.kind = "GetKeyboardMapping"
  PROVE  Right(m, RepParse!ReplyWalk(m))
<1>1. RepEnc!GetKeyboardMapping(m0) = 32 + m.n * 4
  BY EncodedPads DEF Answered, RepEnc!GetKeyboardMapping, RepEnc!HEADER,
     RepEnc!CARD8, RepEnc!CARD16, RepEnc!CARD32, RepEnc!KEYSYM
<1>2. RepEnc!ReplySize(m0) = 32 + m.n * 4
  <2>1. m0.kind = "GetKeyboardMapping"
    BY DEF Answered
  <2> QED
    BY <1>1, <2>1, Zenon DEF RepEnc!ReplySize
<1>3. RepParse!ReplyWalk(m) =
        RepParse!FollowedBy(m, RepParse!List(RepParse!Encoded(m, 32), m.sz - 32,
          RepParse!Size(RepParse!ExtraUnits(m)) \div 4, 4))
  BY Zenon DEF RepParse!ReplyWalk, RepParse!GetKeyboardMapping
<1>4. m.n \in Nat /\ Short(m.n)
  BY DEF Answered, RepEnc!ReplyCountsFit, Short
<1>5. MembersOf(m) = m.n /\ ~Misled(m)
  <2>1. RepEnc!ReplyMembers(m) = m.n
    BY DEF RepEnc!ReplyMembers
  <2>2. ~Misled(m)
    BY DEF Answered, Misled, NotOpened, CountCut, WrongLength, Unswapped,
       NotExpected
  <2> QED
    BY <2>1, <2>2, AnsweredMembers
<1>6. Replied(m, 32, m.n * 4)
  BY <1>2, <1>4, AnsweredSized
<1>7. RepParse!Size(RepParse!ExtraUnits(m)) \div 4 = m.n
  <2>1. RepParse!Size(RepParse!ExtraUnits(m)) = m.sz - 32 /\ m.sz = 32 + m.n * 4
    BY <1>6, ReplyEncoded
  <2>2. RepParse!Size(RepParse!ExtraUnits(m)) = 4 * m.n
    BY <1>4, <2>1
  <2> QED
    BY <1>4, <2>2
<1> QED
  BY <1>3, <1>4, <1>5, <1>6, <1>7, ReplyListShape

(* The reply of an unknown extension is skipped.                           *)
LEMMA UnknownRequestReply ==
  ASSUME NEW m, NEW m0, Answered(m, m0), m.kind = "UnknownRequest"
  PROVE  Right(m, RepParse!ReplyWalk(m))
<1>1. RepEnc!UnknownRequest(m0) = 32 + Pad(m.n)
  BY EncodedPads DEF Answered, RepEnc!UnknownRequest, RepEnc!ENCODING_SZ
<1>2. RepEnc!ReplySize(m0) = 32 + Pad(m.n)
  <2>1. m0.kind = "UnknownRequest"
    BY DEF Answered
  <2> QED
    BY <1>1, <2>1, Zenon DEF RepEnc!ReplySize
<1>3. RepParse!ReplyWalk(m) =
        RepParse!FollowedBy(m, RepParse!Unparsed(RepParse!Encoded(m, 32),
          RepParse!Size(RepParse!ExtraUnits(m))))
  BY Zenon DEF RepParse!ReplyWalk, RepParse!UnknownRequest
<1>4. MembersOf(m) = 0 /\ ~Misled(m)
  <2>1. RepEnc!ReplyMembers(m) = 0
    BY DEF RepEnc!ReplyMembers
  <2>2. ~Misled(m)
    BY DEF Answered, Misled, NotOpened, CountCut, WrongLength, Unswapped,
       NotExpected
  <2> QED
    BY <2>1, <2>2, AnsweredMembers
<1>5. PICK r \in Nat : r = Pad(m.n) /\ r % 4 = 0
  BY PadFacts DEF Answered
<1>6. Replied(m, 32, r)
  BY <1>2, <1>5, AnsweredSized
<1> DEFINE en == RepParse!Encoded(m, 32)
<1>7. Sound(en, 32, 0) /\ m.sz = 32 + r
  BY <1>6, ReplyEncoded
<1>8. RepParse!Size(RepParse!ExtraUnits(m)) = r
  <2>1. RepParse!Size(RepParse!ExtraUnits(m)) = m.sz - 32
    BY <1>6, ReplyEncoded
  <2> QED
    BY <1>7, <2>1
<1> HIDE DEF en
<1>9. Sound(RepParse!Unparsed(en, r), m.sz, 0)
  <2>1. 32 \in Nat /\ 0 \in Nat
    OBVIOUS
  <2> QED
    BY <1>7, <2>1, UnparsedSound, ReplySteps
<1> QED
  BY <1>3, <1>4, <1>6, <1>8, <1>9, ReplyRight DEF en

(* BIG-REQUESTS must not have been enabled before.                         *)
LEMMA BigReqEnableReply ==
  ASSUME NEW m, NEW m0, Answered(m, m0), m.kind = "BigReqEnable"
  PROVE  Right(m, RepParse!ReplyWalk(m))
<1>1. RepEnc!BigReqEnable(m0) = 32
  BY EncodedPads DEF Answered, RepEnc!BigReqEnable, RepEnc!HEADER,
     RepEnc!CARD8, RepEnc!CARD16, RepEnc!CARD32
<1>2. RepEnc!ReplySize(m0) = 32
  <2>1. m0.kind = "BigReqEnable"
    BY DEF Answered
  <2> QED
    BY <1>1, <2>1, Zenon DEF RepEnc!ReplySize
<1>3. RepParse!ReplyWalk(m) =
        RepParse!FollowedBy(m, RepParse!Asserting(RepParse!Encoded(m, 32), ~m.enabled))
  BY Zenon DEF RepParse!ReplyWalk, RepParse!BigReqEnable
<1>4. MembersOf(m) = 0
  <2>1. m.n = 0
    BY DEF Answered, RepEnc!ReplyCountsFit, RepEnc!ReplyCountsOf8Bits,
       RepEnc!ReplyCountsOf16Bits, RepEnc!ReplyCountsOf32Bits
  <2> QED
    BY <2>1, AnsweredMembers DEF RepEnc!ReplyMembers
<1>5. Misled(m) <=> m.enabled
  BY DEF Answered, Misled, NotOpened, CountCut, WrongLength, Unswapped,
     NotExpected
<1>6. Replied(m, 32, 0)
  BY <1>2, AnsweredSized
<1> DEFINE en == RepParse!Encoded(m, 32)
           a == ~m.enabled
           w == RepParse!Asserting(en, a)
<1>7. Sound(en, m.sz, 0) /\ m.sz \in Nat
  <2>1. Sound(en, 32, 0) /\ m.sz = 32 + 0
    BY <1>6, ReplyEncoded
  <2> QED
    BY <2>1
<1>8. a \in BOOLEAN /\ w = Asserting(en, a)
  BY ReplySteps, Zenon DEF Answered
<1>9. Misled(m) <=> ~a
  BY <1>5, Zenon DEF Answered
<1> HIDE DEF en, a, w
<1>10. CASE a
  <2>1. Sound(w, m.sz, 0)
    BY <1>7, <1>8, <1>10, AssertingSound
  <2> QED
    BY <1>3, <1>4, <1>6, <1>9, <1>10, <2>1, ReplyRight DEF w, en, a
<1>11. CASE ~a
  <2>1. w \in Walks /\ ~w.ok
    BY <1>7, <1>8, <1>11, AssertingType, Zenon DEF Sound
  <2>2. Astray(m, w)
    BY <2>1, AstrayStopped
  <2> QED
    BY <1>3, <1>6, <1>9, <1>11, <2>2, ReplyWrong DEF w, en, a
<1> QED
  BY <1>10, <1>11

(* Properties and characters: the number of characters is cut to 16 bits.  *)
LEMMA QueryFontReply ==
  ASSUME NEW m, NEW m0, Answered(m, m0), m.kind = "QueryFont"
  PROVE  Right(m, RepParse!ReplyWalk(m))
<1>1. RepEnc!QueryFont(m0) = 60 + (m.n * 8 + m.k * 12)
  BY EncodedPads DEF Answered, RepEnc!QueryFont, RepEnc!HEADER, RepEnc!CARD8,
     RepEnc!CARD16, RepEnc!CARD32, RepEnc!CHARINFO, RepEnc!INT16, RepEnc!BOOL,
     RepEnc!FONTPROP, RepEnc!ATOM
<1>2. RepEnc!ReplySize(m0) = 60 + (m.n * 8 + m.k * 12)
  <2>1. m0.kind = "QueryFont"
    BY DEF Answered
  <2> QED
    BY <1>1, <2>1, Zenon DEF RepEnc!ReplySize
<1>3. RepParse!ReplyWalk(m) =
        LET properties == RepParse!List(RepParse!Encoded(m, 60), m.sz - 60, m.n, 8)
        IN  RepParse!FollowedBy(m,
              RepParse!List(properties, m.sz - properties.at, m.k, 12))
  BY Zenon DEF RepParse!ReplyWalk, RepParse!QueryFont
<1>4. m.n \in Nat /\ m.k \in Nat /\ Short(m.n)
  BY DEF Answered, RepEnc!ReplyCountsFit, RepEnc!ReplyCountsOf16Bits, Short
<1>5. MembersOf(m) = m.n + m.k /\ (Misled(m) <=> ~Short(m.k))
  <2>1. RepEnc!ReplyMembers(m) = m.n + m.k
    BY DEF RepEnc!ReplyMembers
  <2>2. Misled(m) <=> m.k >= 65536
    BY DEF Answered, Misled, NotOpened, CountCut, WrongLength, Unswapped,
       NotExpected
  <2>3. ~Short(m.k) <=> m.k >= 65536
    BY <1>4 DEF Short
  <2> QED
    BY <2>1, <2>2, <2>3, AnsweredMembers
<1>6. PICK r \in Nat : r = m.n * 8 + m.k * 12 /\ r % 4 = 0
  BY <1>4
<1>7. Replied(m, 60, r)
  BY <1>2, <1>6, AnsweredSized
<1>8. 8 \in Nat /\ 12 \in Nat /\ 12 > 0
  OBVIOUS
<1> QED
  BY <1>3, <1>4, <1>5, <1>6, <1>7, <1>8, ReplyListsShape

(* Pixels and masks, one list behind the other                             *)
LEMMA AllocColorCellsReply ==
  ASSUME NEW m, NEW m0, Answered(m, m0), m.kind = "AllocColorCells"
  PROVE  Right(m, RepParse!ReplyWalk(m))
<1>1. RepEnc!AllocColorCells(m0) = 32 + (m.n * 4 + m.k * 4)
  BY EncodedPads DEF Answered, RepEnc!AllocColorCells, RepEnc!HEADER,
     RepEnc!CARD8, RepEnc!CARD16, RepEnc!CARD32
<1>2. RepEnc!ReplySize(m0) = 32 + (m.n * 4 + m.k * 4)
  <2>1. m0.kind = "AllocColorCells"
    BY DEF Answered
  <2> QED
    BY <1>1, <2>1, Zenon DEF RepEnc!ReplySize
<1>3. RepParse!ReplyWalk(m) =
        LET pixels == RepParse!List(RepParse!Encoded(m, 32), m.sz - 32, m.n, 4)
        IN  RepParse!FollowedBy(m,
              RepParse!List(pixels, m.sz - pixels.at, m.k, 4))
  BY Zenon DEF RepParse!ReplyWalk, RepParse!AllocColorCells
<1>4. m.n \in Nat /\ m.k \in Nat /\ Short(m.n) /\ Short(m.k)
  BY DEF Answered, RepEnc!ReplyCountsFit, RepEnc!ReplyCountsOf16Bits, Short
<1>5. MembersOf(m) = m.n + m.k /\ ~Misled(m)
  <2>1. RepEnc!ReplyMembers(m) = m.n + m.k
    BY DEF RepEnc!ReplyMembers
  <2>2. ~Misled(m)
    BY DEF Answered, Misled, NotOpened, CountCut, WrongLength, Unswapped,
       NotExpected
  <2> QED
    BY <2>1, <2>2, AnsweredMembers
<1>6. PICK r \in Nat : r = m.n * 4 + m.k * 4 /\ r % 4 = 0
  BY <1>4
<1>7. Replied(m, 32, r)
  BY <1>2, <1>6, AnsweredSized
<1>8. 4 \in Nat /\ 4 > 0
  OBVIOUS
<1> QED
  BY <1>3, <1>4, <1>5, <1>6, <1>7, <1>8, ReplyListsShape

(* What is used in the other byte order                                    *)
LEMMA SwappedCounts ==
  /\ \A n : RepParse!Swap16(n) = RepEnc!Swap16(n)
  /\ \A n \in Nat : RepParse!Swap16(n) \in Nat /\ Short(RepParse!Swap16(n))
  /\ \A n \in Nat : RepParse!Swap32Low(n) \in Nat /\ Short(RepParse!Swap32Low(n))
  /\ \A n \in Nat : Short(n) => RepParse!Swap32Low(n) = 0
<1>1. \A n : RepParse!Swap16(n) = RepEnc!Swap16(n)
  BY Zenon DEF RepParse!Swap16, RepEnc!Swap16
<1>2. \A n \in Nat : RepParse!Swap16(n) \in Nat /\ Short(RepParse!Swap16(n))
  BY DEF RepParse!Swap16, Short
<1>3. \A n \in Nat : RepParse!Swap32Low(n) \in Nat /\ Short(RepParse!Swap32Low(n))
  <2> TAKE n \in Nat
  <2>1. (n \div 65536) % 65536 \in Nat
    OBVIOUS
  <2> QED
    BY <1>2, <2>1 DEF RepParse!Swap32Low
<1>4. \A n \in Nat : Short(n) => RepParse!Swap32Low(n) = 0
  <2> TAKE n \in Nat
  <2> SUFFICES ASSUME Short(n) PROVE RepParse!Swap32Low(n) = 0
    OBVIOUS
  <2>1. (n \div 65536) % 65536 = 0
    BY DEF Short
  <2>2. RepParse!Swap16(0) = 0
    BY DEF RepParse!Swap16
  <2> QED
    BY <2>1, <2>2 DEF RepParse!Swap32Low
<1> QED
  BY <1>1, <1>2, <1>3, <1>4

(* A count of 16 bits is the one that is kept.                             *)
LEMMA ShortModulus ==
  ASSUME NEW n \in Nat
  PROVE  /\ Short(n) => n % 65536 = n
         /\ ~Short(n) => n % 65536 # n
  BY DEF Short

(* A list whose count of 16 bits is used in the client's byte order        *)
LEMMA ListPropertiesReply ==
  ASSUME NEW m, NEW m0, Answered(m, m0), m.kind = "ListProperties"
  PROVE  Right(m, RepParse!ReplyWalk(m))
<1>1. RepEnc!ListProperties(m0) = 32 + m.n * 4
  BY EncodedPads DEF Answered, RepEnc!ListProperties, RepEnc!HEADER,
     RepEnc!CARD8, RepEnc!CARD16, RepEnc!CARD32, RepEnc!ATOM
<1>2. RepEnc!ReplySize(m0) = 32 + m.n * 4
  <2>1. m0.kind = "ListProperties"
    BY DEF Answered
  <2> QED
    BY <1>1, <2>1, Zenon DEF RepEnc!ReplySize
<1>3. RepParse!ReplyWalk(m) =
        RepParse!FollowedBy(m, RepParse!PaddedList(RepParse!Encoded(m, 32), m.sz - 32,
                                             RepParse!Raw16(m, m.n), 4))
  BY Zenon DEF RepParse!ReplyWalk, RepParse!ListProperties
<1>4. m.n \in Nat /\ Short(m.n)
  BY DEF Answered, RepEnc!ReplyCountsFit, RepEnc!ReplyCountsOf16Bits, Short
<1>5. MembersOf(m) = m.n
  <2>1. RepEnc!ReplyMembers(m) = m.n
    BY DEF RepEnc!ReplyMembers
  <2> QED
    BY <2>1, AnsweredMembers
<1>6. Misled(m) <=> m.swap /\ RepEnc!Swap16(m.n) # m.n
  <2>1. ~NotOpened(m) /\ ~CountCut(m) /\ ~WrongLength(m) /\ ~NotExpected(m)
    BY DEF Answered, NotOpened, CountCut, WrongLength, NotExpected
  <2>2. Unswapped(m) <=> m.swap /\ RepEnc!Swap16(m.n) # m.n
    BY Zenon DEF Answered, Unswapped
  <2> QED
    BY <2>1, <2>2, Zenon DEF Misled
<1> DEFINE ct == RepParse!Raw16(m, m.n)
<1>7. Misled(m) <=> ct # m.n
  BY <1>6, SwappedCounts, Zenon DEF Answered, RepParse!Raw16
<1>8. ct \in Nat /\ Short(ct)
  BY <1>4, SwappedCounts DEF RepParse!Raw16
<1> HIDE DEF ct
<1>9. Replied(m, 32, m.n * 4) /\ Pad(m.n * 4) = m.n * 4
  <2>1. m.n * 4 \in Nat /\ (m.n * 4) % 4 = 0
    BY <1>4
  <2> QED
    BY <1>2, <2>1, AnsweredSized, PadOfAligned
<1>10. CASE ct = m.n
  <2>1. Right(m, RepParse!FollowedBy(m,
                   RepParse!PaddedList(RepParse!Encoded(m, 32), m.sz - 32, ct, 4)))
    BY <1>4, <1>5, <1>7, <1>9, <1>10, ReplyPaddedShape
  <2> QED
    BY <1>3, <2>1 DEF ct
<1>11. CASE ct # m.n
  <2>1. ct % 65536 # m.n
    BY <1>8, <1>11, ShortModulus
  <2>2. Astray(m, RepParse!PaddedList(RepParse!Encoded(m, 32), m.sz - 32, ct, 4))
    BY <1>4, <1>8, <1>9, <2>1, ReplyOtherCount
  <2> QED
    BY <1>3, <1>7, <1>9, <1>11, <2>2, ReplyWrong DEF ct
<1> QED
  BY <1>10, <1>11

(* A list whose count of 32 bits is used in the client's byte order and    *)
(* cut                                                                     *)
LEMMA GetMotionEventsReply ==
  ASSUME NEW m, NEW m0, Answered(m, m0), m.kind = "GetMotionEvents"
  PROVE  Right(m, RepParse!ReplyWalk(m))
<1>1. RepEnc!GetMotionEvents(m0) = 32 + m.n * 8
  BY EncodedPads DEF Answered, RepEnc!GetMotionEvents, RepEnc!HEADER,
     RepEnc!CARD8, RepEnc!CARD16, RepEnc!CARD32, RepEnc!TIMECOORD,
     RepEnc!TIMESTAMP, RepEnc!INT16
<1>2. RepEnc!ReplySize(m0) = 32 + m.n * 8
  <2>1. m0.kind = "GetMotionEvents"
    BY DEF Answered
  <2> QED
    BY <1>1, <2>1, Zenon DEF RepEnc!ReplySize
<1>3. RepParse!ReplyWalk(m) =
        RepParse!FollowedBy(m, RepParse!List(RepParse!Encoded(m, 32), m.sz - 32,
                                             RepParse!Raw32(m, m.n), 8))
  BY Zenon DEF RepParse!ReplyWalk, RepParse!GetMotionEvents
<1>4. m.n \in Nat
  BY DEF Answered
<1>5. MembersOf(m) = m.n
  <2>1. RepEnc!ReplyMembers(m) = m.n
    BY DEF RepEnc!ReplyMembers
  <2> QED
    BY <2>1, AnsweredMembers
<1>6. Misled(m) <=> m.n >= 65536 \/ (m.swap /\ m.n > 0)
  BY DEF Answered, Misled, NotOpened, CountCut, WrongLength, Unswapped,
     NotExpected
<1> DEFINE ct == RepParse!Raw32(m, m.n)
<1>7. ct \in Nat /\ (Misled(m) <=> ct % 65536 # m.n)
  <2>1. CASE m.swap
    <3>1. ct = RepParse!Swap32Low(m.n)
      BY <2>1 DEF RepParse!Raw32
    <3>2. ct \in Nat /\ ct % 65536 = ct /\ ct < 65536
      BY <1>4, <3>1, SwappedCounts, ShortModulus DEF Short
    <3>3. m.n < 65536 => ct = 0
      BY <1>4, <3>1, SwappedCounts DEF Short
    <3> HIDE DEF ct
    <3> QED
      BY <1>4, <1>6, <2>1, <3>2, <3>3
  <2>2. CASE ~m.swap
    <3>1. ct = m.n
      BY <2>2 DEF RepParse!Raw32
    <3> HIDE DEF ct
    <3> QED
      BY <1>4, <1>6, <2>2, <3>1
  <2> QED
    BY <2>1, <2>2
<1> HIDE DEF ct
<1>8. Replied(m, 32, m.n * 8)
  BY <1>2, <1>4, AnsweredSized
<1>9. CASE ct % 65536 = m.n
  <2>1. Short(m.n)
    BY <1>4, <1>7, <1>9 DEF Short
  <2>2. RepParse!List(RepParse!Encoded(m, 32), m.sz - 32, ct, 8)
          = RepParse!List(RepParse!Encoded(m, 32), m.sz - 32, m.n, 8)
    <3>1. m.n % 65536 = m.n
      BY <1>4, <2>1, ShortModulus
    <3> QED
      BY <1>9, <3>1, SMT DEF RepParse!List
  <2>3. Right(m, RepParse!FollowedBy(m,
                   RepParse!List(RepParse!Encoded(m, 32), m.sz - 32, m.n, 8)))
    BY <1>4, <1>5, <1>7, <1>8, <1>9, <2>1, ReplyListShape
  <2> QED
    BY <1>3, <2>2, <2>3 DEF ct
<1>10. CASE ct % 65536 # m.n
  <2>1. Astray(m, RepParse!List(RepParse!Encoded(m, 32), m.sz - 32, ct, 8))
    <3>1. 8 \in Nat /\ 8 > 0
      OBVIOUS
    <3> QED
      BY <1>4, <1>7, <1>8, <1>10, <3>1, ReplyOtherCount
  <2> QED
    BY <1>3, <1>7, <1>8, <1>10, <2>1, ReplyWrong DEF ct
<1> QED
  BY <1>9, <1>10

(* The bytes of an image, whose number is cut                              *)
LEMMA GetImageReply ==
  ASSUME NEW m, NEW m0, Answered(m, m0), m.kind = "GetImage"
  PROVE  Right(m, RepParse!ReplyWalk(m))
<1>1. RepEnc!GetImage(m0) = 32 + Pad(m.n)
  BY EncodedPads DEF Answered, RepEnc!GetImage, RepEnc!HEADER, RepEnc!CARD8,
     RepEnc!CARD16, RepEnc!CARD32, RepEnc!VISUALID
<1>2. RepEnc!ReplySize(m0) = 32 + Pad(m.n)
  <2>1. m0.kind = "GetImage"
    BY DEF Answered
  <2> QED
    BY <1>1, <2>1, Zenon DEF RepEnc!ReplySize
<1>3. RepParse!ReplyWalk(m) =
        RepParse!FollowedBy(m, RepParse!PaddedList(RepParse!Encoded(m, 32), m.sz - 32,
          RepParse!Size(RepParse!ExtraUnits(m)), 1))
  BY Zenon DEF RepParse!ReplyWalk, RepParse!GetImage
<1>4. PICK n \in Nat : n = Pad(m.n) /\ n % 4 = 0
  BY PadFacts DEF Answered
<1>5. MembersOf(m) = n /\ (Misled(m) <=> ~Short(n))
  <2>1. RepEnc!ReplyMembers(m) = n
    BY <1>4, EncodedPads DEF RepEnc!ReplyMembers
  <2>2. Misled(m) <=> RepEnc!Pad(m.n) >= 65536
    BY DEF Answered, Misled, NotOpened, CountCut, WrongLength, Unswapped,
       NotExpected
  <2>3. Misled(m) <=> n >= 65536
    BY <1>4, <2>2, EncodedPads
  <2>4. ~Short(n) <=> n >= 65536
    BY DEF Short
  <2> QED
    BY <2>1, <2>3, <2>4, AnsweredMembers
<1>6. Pad(n) = n /\ n * 1 = n
  BY <1>4, PadOfAligned
<1>7. Replied(m, 32, n)
  BY <1>2, <1>4, AnsweredSized
<1>8. RepParse!Size(RepParse!ExtraUnits(m)) = n
  <2>1. RepParse!Size(RepParse!ExtraUnits(m)) = m.sz - 32 /\ m.sz = 32 + n
    BY <1>7, ReplyEncoded
  <2> QED
    BY <2>1
<1>9. CASE Short(n)
  <2>1. Replied(m, 32, Pad(n * 1)) /\ 1 \in Nat
    BY <1>6, <1>7
  <2> QED
    BY <1>3, <1>5, <1>8, <1>9, <2>1, ReplyPaddedShape
<1>10. CASE ~Short(n)
  <2>1. Astray(m, RepParse!PaddedList(RepParse!Encoded(m, 32), m.sz - 32, n, 1))
    BY <1>6, <1>7, <1>10, ReplyBytesCut
  <2> QED
    BY <1>3, <1>5, <1>7, <1>8, <1>10, <2>1, ReplyWrong
<1> QED
  BY <1>9, <1>10

(* A list of properties and a name, or the last reply of the series        *)
LEMMA ListFontsWithInfoReply ==
  ASSUME NEW m, NEW m0, Answered(m, m0), m.kind = "ListFontsWithInfo"
  PROVE  Right(m, RepParse!ReplyWalk(m))
<1>1. /\ m0.kind = "ListFontsWithInfo" /\ m0.n = m.n /\ m0.k = m.k /\ m0.opt = m.opt
      /\ m.n \in Nat /\ m.k \in Nat /\ m.opt \in BOOLEAN
  BY DEF Answered
<1>2. Short(m.n)
  BY <1>1 DEF Answered, RepEnc!ReplyCountsFit, RepEnc!ReplyCountsOf16Bits,
     Short
<1>3. ~Misled(m)
  BY DEF Answered, Misled, NotOpened, CountCut, WrongLength, Unswapped,
     NotExpected
<1>4. RepEnc!ReplySize(m0) = RepEnc!ListFontsWithInfo(m0)
  BY <1>1, Zenon DEF RepEnc!ReplySize
<1>5. RepParse!ReplyWalk(m) = RepParse!ListFontsWithInfo(m)
  BY Zenon DEF RepParse!ReplyWalk
<1>6. CASE m.opt
  <2>1. RepEnc!ListFontsWithInfo(m0) = 60
    BY <1>1, <1>6 DEF RepEnc!ListFontsWithInfo, RepEnc!HEADER, RepEnc!CARD8,
       RepEnc!CARD16, RepEnc!CARD32, RepEnc!CHARINFO, RepEnc!INT16,
       RepEnc!BOOL, RepEnc!FONTPROP, RepEnc!ATOM
  <2>2. Replied(m, 60, 0)
    BY <1>4, <2>1, AnsweredSized
  <2>3. MembersOf(m) = 0
    BY <1>6, AnsweredMembers DEF RepEnc!ReplyMembers
  <2> DEFINE en == RepParse!Encoded(m, 60)
             a == RepParse!ExtraUnits(m) = 7
  <2>4. Sound(en, m.sz, 0) /\ m.sz \in Nat /\ m.sz = 60 /\ Aligned(m)
    <3>1. Sound(en, 60, 0) /\ m.sz = 60 + 0 /\ Aligned(m)
      BY <2>2, ReplyEncoded
    <3> QED
      BY <3>1
  <2>5. a \in BOOLEAN /\ a
    BY <2>4 DEF RepParse!ExtraUnits, RepParse!ENCODING_SZ, RepParse!ALIGN
  <2>6. RepParse!ReplyWalk(m) = Asserting(en, a)
    BY <1>5, <1>6, ReplySteps, Zenon DEF RepParse!ListFontsWithInfo
  <2> HIDE DEF en, a
  <2>7. Sound(Asserting(en, a), m.sz, 0)
    BY <2>4, <2>5, AssertingSound
  <2> QED
    BY <1>3, <2>3, <2>4, <2>6, <2>7, SoundIsRight
<1>7. CASE ~m.opt
  <2>1. RepEnc!ListFontsWithInfo(m0) = 60 + (m.n * 8 + Pad(m.k))
    <3>1. Pad(m.k) \in Nat
      BY <1>1, PadFacts
    <3> QED
      BY <1>1, <1>7, <3>1, EncodedPads DEF RepEnc!ListFontsWithInfo,
         RepEnc!HEADER, RepEnc!CARD8, RepEnc!CARD16, RepEnc!CARD32,
         RepEnc!CHARINFO, RepEnc!INT16, RepEnc!BOOL, RepEnc!FONTPROP,
         RepEnc!ATOM
  <2>2. PICK p \in Nat : p = m.n * 8 /\ p % 4 = 0
    BY <1>1
  <2>3. PICK q \in Nat : q = Pad(m.k) /\ q % 4 = 0
    BY <1>1, PadFacts
  <2>4. Replied(m, 60, p + q)
    <3>1. p + q \in Nat /\ (p + q) % 4 = 0 /\ 60 \in Nat /\ 60 % 4 = 0 /\ 60 >= 32
      BY <2>2, <2>3
    <3>2. RepEnc!ReplySize(m0) = 60 + (p + q)
      BY <1>4, <2>1, <2>2, <2>3
    <3> QED
      BY <3>1, <3>2, AnsweredSized
  <2>5. MembersOf(m) = m.n + m.k
    BY <1>7, AnsweredMembers DEF RepEnc!ReplyMembers
  <2> DEFINE en == RepParse!Encoded(m, 60)
             list == RepParse!List(en, m.sz - 60, m.n, 8)
             w == RepParse!String8(list, m.k)
  <2>6. RepParse!ReplyWalk(m) = RepParse!FollowedBy(m, w)
    BY <1>5, <1>7, Zenon DEF RepParse!ListFontsWithInfo
  <2>7. Sound(en, 60, 0) /\ m.sz = 60 + (p + q)
    BY <2>4, ReplyEncoded
  <2> HIDE DEF en
  <2>8. Sound(list, 60 + p, m.n) /\ 60 + p \in Nat
    <3>1. /\ 60 \in Nat /\ 0 \in Nat /\ 8 \in Nat /\ m.sz - 60 \in Int
          /\ m.n * 8 <= m.sz - 60 /\ 0 + m.n = m.n
      BY <1>1, <2>2, <2>7
    <3>2. Sound(List(en, m.sz - 60, m.n, 8), 60 + m.n * 8, 0 + m.n)
      BY <1>1, <1>2, <2>7, <3>1, ListSound
    <3> QED
      BY <2>2, <3>1, <3>2, ReplySteps
  <2> HIDE DEF list
  <2>9. Sound(w, (60 + p) + q, m.n + m.k)
    BY <1>1, <2>3, <2>8, String8Sound, ReplySteps
  <2>10. Sound(w, m.sz, m.n + m.k) /\ m.n + m.k \in Nat
    BY <1>1, <2>7, <2>9
  <2> HIDE DEF w
  <2> QED
    BY <1>3, <2>4, <2>5, <2>6, <2>10, ReplyRight
<1> QED
  BY <1>1, <1>6, <1>7

(* A string, or a value of which the bytes are counted, and the count cut  *)
LEMMA GetPropertyReply ==
  ASSUME NEW m, NEW m0, Answered(m, m0), m.kind = "GetProperty"
  PROVE  Right(m, RepParse!ReplyWalk(m))
<1>1. /\ m0.kind = "GetProperty" /\ m0.n = m.n /\ m0.k = m.k
      /\ m.n \in Nat /\ m.k \in Nat /\ m.opt \in BOOLEAN
  BY DEF Answered
<1>2. PICK v \in Nat : v = m.n * m.k /\ v = m.k * m.n
  BY <1>1
<1>3. RepEnc!GetProperty(m0) = 32 + Pad(v)
  <2>1. Pad(v) \in Nat
    BY PadFacts
  <2> QED
    BY <1>1, <1>2, <2>1, EncodedPads DEF RepEnc!GetProperty, RepEnc!HEADER,
       RepEnc!CARD8, RepEnc!CARD16, RepEnc!CARD32, RepEnc!ATOM
<1>4. RepEnc!ReplySize(m0) = 32 + Pad(v)
  BY <1>1, <1>3, Zenon DEF RepEnc!ReplySize
<1>5. Replied(m, 32, Pad(v))
  <2>1. Pad(v) \in Nat /\ Pad(v) % 4 = 0
    BY PadFacts
  <2> QED
    BY <1>4, <2>1, AnsweredSized
<1>6. MembersOf(m) = v
  BY <1>2, AnsweredMembers DEF RepEnc!ReplyMembers
<1>7. Misled(m) <=> ~m.opt /\ ~Short(v)
  <2>1. Misled(m) <=> ~m.opt /\ m.n * m.k >= 65536
    BY DEF Answered, Misled, NotOpened, CountCut, WrongLength, Unswapped,
       NotExpected
  <2>2. ~Short(v) <=> m.n * m.k >= 65536
    BY <1>2 DEF Short
  <2> QED
    BY <1>1, <2>1, <2>2
<1>8. RepParse!ReplyWalk(m) = RepParse!GetProperty(m)
  BY Zenon DEF RepParse!ReplyWalk
<1>9. CASE m.opt
  <2>1. RepParse!GetProperty(m) =
          RepParse!FollowedBy(m, RepParse!String8(RepParse!Encoded(m, 32), v))
    BY <1>2, <1>9, Zenon DEF RepParse!GetProperty
  <2> QED
    BY <1>5, <1>6, <1>7, <1>8, <1>9, <2>1, ReplyStringShape
<1>10. CASE ~m.opt
  <2>1. RepParse!GetProperty(m) = RepParse!FollowedBy(m,
          RepParse!PaddedList(RepParse!Encoded(m, 32), m.sz - 32, v, 1))
    BY <1>2, <1>10, Zenon DEF RepParse!GetProperty
  <2>2. CASE Short(v)
    <3>1. Replied(m, 32, Pad(v * 1)) /\ 1 \in Nat
      BY <1>5
    <3>2. ~Misled(m)
      BY <1>7, <2>2
    <3> QED
      BY <1>6, <1>8, <2>1, <2>2, <3>1, <3>2, ReplyPaddedShape
  <2>3. CASE ~Short(v)
    <3>1. Misled(m)
      BY <1>7, <1>10, <2>3
    <3> QED
      BY <1>5, <1>8, <2>1, <2>3, <3>1, ReplyBytesCut, ReplyWrong
  <2> QED
    BY <2>2, <2>3
<1> QED
  BY <1>1, <1>9, <1>10

(* A list of bytes, and a length that is compared unswapped                *)
LEMMA GetPointerMappingReply ==
  ASSUME NEW m, NEW m0, Answered(m, m0), m.kind = "GetPointerMapping"
  PROVE  Right(m, RepParse!ReplyWalk(m))
<1>1. RepEnc!GetPointerMapping(m0) = 32 + Pad(m.n)
  BY EncodedPads DEF Answered, RepEnc!GetPointerMapping, RepEnc!HEADER,
     RepEnc!CARD8, RepEnc!CARD16, RepEnc!CARD32
<1>2. RepEnc!ReplySize(m0) = 32 + Pad(m.n)
  <2>1. m0.kind = "GetPointerMapping"
    BY DEF Answered
  <2> QED
    BY <1>1, <2>1, Zenon DEF RepEnc!ReplySize
<1>3. RepParse!ReplyWalk(m) =
        LET map == RepParse!PaddedList(RepParse!Encoded(m, 32), m.sz - 32, m.n, 1)
        IN  RepParse!Asserting(RepParse!FollowedBy(m, map),
                               m.swap => RepParse!ExtraUnits(m) = 0)
  BY Zenon DEF RepParse!ReplyWalk, RepParse!GetPointerMapping
<1>4. m.n \in Nat /\ Short(m.n) /\ m.swap \in BOOLEAN
  BY DEF Answered, RepEnc!ReplyCountsFit, RepEnc!ReplyCountsOf8Bits, Short
<1>5. MembersOf(m) = m.n
  <2>1. RepEnc!ReplyMembers(m) = m.n
    BY DEF RepEnc!ReplyMembers
  <2> QED
    BY <2>1, AnsweredMembers
<1>6. Misled(m) <=> m.swap /\ m.n > 0
  BY DEF Answered, Misled, NotOpened, CountCut, WrongLength, Unswapped,
     NotExpected
<1>7. PICK r \in Nat : r = Pad(m.n) /\ r % 4 = 0 /\ m.n <= r
  BY <1>4, PadFacts
<1>8. Replied(m, 32, r)
  BY <1>2, <1>7, AnsweredSized
<1> DEFINE en == RepParse!Encoded(m, 32)
           map == RepParse!PaddedList(en, m.sz - 32, m.n, 1)
           w == RepParse!FollowedBy(m, map)
           a == m.swap => RepParse!ExtraUnits(m) = 0
<1>9. /\ Sound(en, 32, 0) /\ m.sz = 32 + r /\ Aligned(m) /\ m.sz \in Nat
      /\ RepParse!ExtraUnits(m) = Units(m.sz - 32)
  BY <1>8, ReplyEncoded DEF Aligned
<1>10. RepParse!ReplyWalk(m) = Asserting(w, a)
  BY <1>3, ReplySteps, Zenon
<1>11. a \in BOOLEAN /\ (a <=> ~(m.swap /\ m.n > 0))
  <2>1. m.sz - 32 = r
    BY <1>9
  <2>2. Units(r) = 0 <=> m.n = 0
    <3>1. Units(r) \in Nat /\ 4 * Units(r) = r
      BY <1>7, UnitsOfAligned
    <3>2. m.n = 0 => r = 0
      BY <1>7, PadOfAligned
    <3> QED
      BY <1>4, <1>7, <3>1, <3>2
  <2>3. RepParse!ExtraUnits(m) = 0 <=> m.n = 0
    BY <1>9, <2>1, <2>2, Zenon
  <2>4. m.n = 0 <=> ~(m.n > 0)
    BY <1>4
  <2> QED
    BY <1>4, <2>3, <2>4, Zenon
<1> HIDE DEF en
<1>12. Sound(map, m.sz, m.n)
  <2>1. /\ 32 \in Nat /\ 0 \in Nat /\ 1 \in Nat /\ m.sz - 32 \in Int
        /\ m.n * 1 = m.n /\ m.n * 1 <= m.sz - 32 /\ 0 + m.n = m.n
    BY <1>4, <1>7, <1>9
  <2>2. Sound(PaddedList(en, m.sz - 32, m.n, 1), 32 + Pad(m.n * 1), 0 + m.n)
    BY <1>4, <1>9, <2>1, PaddedListSound
  <2> QED
    BY <1>7, <1>9, <2>1, <2>2, ReplySteps
<1> HIDE DEF map
<1>13. Sound(w, m.sz, m.n)
  BY <1>4, <1>8, <1>12, ReplyEnds
<1> HIDE DEF w, a
<1>14. CASE a
  <2>1. Sound(Asserting(w, a), m.sz, m.n) /\ ~Misled(m)
    BY <1>4, <1>6, <1>9, <1>11, <1>13, <1>14, AssertingSound
  <2> QED
    BY <1>4, <1>5, <1>9, <1>10, <2>1, SoundIsRight
<1>15. CASE ~a
  <2>1. Asserting(w, a) \in Walks /\ ~Asserting(w, a).ok
    BY <1>11, <1>13, <1>15, AssertingType, Zenon DEF Sound
  <2>2. Astray(m, Asserting(w, a)) /\ Misled(m)
    BY <1>6, <1>11, <1>15, <2>1, AstrayStopped, Zenon
  <2> QED
    BY <1>9, <1>10, <2>2, AstrayIsRight
<1> QED
  BY <1>14, <1>15

-----------------------------------------------------------------------------
(* Every reply that a server may send leads its parse function to its end, *)
(* but for counts that are cut to 16 bits or taken in the wrong byte order.*)
LEMMA RepliesLed ==
  ASSUME NEW m, NEW m0, Answered(m, m0)
  PROVE  Right(m, RepParse!ReplyWalk(m))
<1>1. \/ m.kind \in PlainReplies
      \/ m.kind \in ListedReplies
      \/ m.kind \in {"UnknownRequest", "BigReqEnable", "GetProperty",
           "ListProperties", "GetMotionEvents", "QueryFont",
           "ListFontsWithInfo", "GetImage", "AllocColorCells",
           "GetKeyboardMapping", "GetPointerMapping", "GetModifierMapping"}
  BY DEF Answered, RepEnc!ReplyKinds, PlainReplies, Plain32a, Plain32b,
     Plain32c, Plain44, Plain40, Plain52, ListedReplies
<1>2. CASE m.kind \in PlainReplies
  BY <1>2, PlainRepliesRight
<1>3. CASE m.kind \in ListedReplies
  BY <1>3, ListedRepliesRight
<1>4. CASE m.kind \in {"UnknownRequest", "BigReqEnable", "GetProperty",
           "ListProperties", "GetMotionEvents", "QueryFont",
           "ListFontsWithInfo", "GetImage", "AllocColorCells",
           "GetKeyboardMapping", "GetPointerMapping", "GetModifierMapping"}
  BY <1>4, UnknownRequestReply, BigReqEnableReply, GetPropertyReply,
     ListPropertiesReply, GetMotionEventsReply, QueryFontReply,
     ListFontsWithInfoReply, GetImageReply, AllocColorCellsReply,
     GetKeyboardMappingReply, GetPointerMappingReply,
     GetModifierMappingReply, Zenon
<1> QED
  BY <1>1, <1>2, <1>3, <1>4

(* The same for every reply that a server may send: these counts, and the  *)
(* ids, atoms and masks for clients of the other byte order that the       *)
(* format refuses, are the only things that keep one from being parsed.    *)
THEOREM RepliesRight ==
  ASSUME NEW m, NEW m0, Answered(m, m0)
  PROVE  Judged(m, WalkOf(m))
<1>1. WalkOf(m) = Step!Formatted(m, RepParse!ReplyWalk(m))
  BY DEF Answered, WalkOf, ParseWalk
<1>2. m.swap \in BOOLEAN /\ m.stray \in BOOLEAN
  BY Zenon DEF Answered
<1> QED
  BY <1>1, <1>2, RepliesLed, RightIsJudged

-----------------------------------------------------------------------------
(* Functions that are defined along a sequence                             *)

(* Induction up to n, for a set of indices                                 *)
LEMMA UpTo ==
  ASSUME NEW n \in Nat, NEW T, 0 \in T,
         \A i \in Nat : i < n /\ i \in T => i + 1 \in T
  PROVE  \A i \in Nat : i <= n => i \in T
<1> DEFINE S == {i \in Nat : i <= n /\ i \notin T}
<1>1. S = {}
  <2> SUFFICES ASSUME S # {} PROVE FALSE
    OBVIOUS
  <2>1. PICK x \in S : \A y \in S : x <= y
    BY LeastMember
  <2>2. x # 0 /\ x \in Nat /\ x <= n /\ x \notin T
    OBVIOUS
  <2>3. x - 1 \in Nat /\ x - 1 < n /\ x - 1 < x /\ (x - 1) + 1 = x
    BY <2>2
  <2>4. x - 1 \notin S
    BY <2>1, <2>3
  <2>5. x - 1 \in T
    BY <2>3, <2>4
  <2> QED
    BY <2>2, <2>3, <2>5
<1> QED
  BY <1>1

(* A function that starts with a and goes on with g exists.                *)
Iterates(f, a, g, n) == f[0] = a /\ \A i \in 1 .. n : f[i] = g[i][f[i - 1]]

(* Such a function exists whenever the steps stay in a set.                *)
LEMMA Iterated ==
  ASSUME NEW S, NEW a \in S, NEW n \in Nat, NEW g \in [1 .. n -> [S -> S]]
  PROVE  \E f \in [0 .. n -> S] : Iterates(f, a, g, n)
<1> DEFINE T == {k \in Nat : \E f \in [0 .. k -> S] : Iterates(f, a, g, k)}
<1>1. 0 \in T
  <2> DEFINE f == [i \in 0 .. 0 |-> a]
  <2>1. f \in [0 .. 0 -> S] /\ f[0] = a
    OBVIOUS
  <2>2. 1 .. 0 = {}
    OBVIOUS
  <2> QED
    BY <2>1, <2>2 DEF Iterates
<1>2. ASSUME NEW k \in Nat, k < n, k \in T
      PROVE  k + 1 \in T
  <2>1. PICK f \in [0 .. k -> S] : Iterates(f, a, g, k)
    BY <1>2
  <2>2. g[k + 1] \in [S -> S] /\ f[k] \in S
    BY <1>2
  <2> DEFINE h == [i \in 0 .. (k + 1) |-> IF i = k + 1 THEN g[k + 1][f[k]]
                                             ELSE f[i]]
  <2>3. h \in [0 .. (k + 1) -> S]
    BY <2>2
  <2>4. h[0] = a
    BY <2>1 DEF Iterates
  <2>5. ASSUME NEW i \in 1 .. (k + 1)
        PROVE  h[i] = g[i][h[i - 1]]
    <3>1. CASE i = k + 1
      BY <3>1
    <3>2. CASE i # k + 1
      <4>1. i \in 1 .. k /\ h[i] = f[i] /\ h[i - 1] = f[i - 1]
        BY <3>2
      <4> QED
        BY <2>1, <4>1 DEF Iterates
    <3> QED
      BY <3>1, <3>2
  <2> HIDE DEF h
  <2>6. Iterates(h, a, g, k + 1)
    BY <2>4, <2>5 DEF Iterates
  <2>7. k + 1 \in Nat
    OBVIOUS
  <2> QED
    BY <2>3, <2>6, <2>7
<1>3. T \subseteq Nat
  OBVIOUS
<1>4. n \in T => \E f \in [0 .. n -> S] : Iterates(f, a, g, n)
  OBVIOUS
<1> HIDE DEF T
<1>5. \A i \in Nat : i < n /\ i \in T => i + 1 \in T
  BY <1>2
<1>6. \A i \in Nat : i <= n => i \in T
  BY <1>1, <1>5, UpTo
<1> QED
  BY <1>4, <1>6

(* The sums of the members of a sequence                                   *)
LEMMA Summed ==
  ASSUME NEW b \in Nat, NEW n \in Nat, NEW s \in [1 .. n -> Nat]
  PROVE  \E f \in [0 .. n -> Nat] :
           f[0] = b /\ \A i \in 1 .. n : f[i] = f[i - 1] + s[i]
<1> DEFINE g == [i \in 1 .. n |-> [x \in Nat |-> x + s[i]]]
<1>1. g \in [1 .. n -> [Nat -> Nat]]
  OBVIOUS
<1>2. PICK f \in [0 .. n -> Nat] : Iterates(f, b, g, n)
  <2> HIDE DEF g
  <2> QED
    BY <1>1, Iterated
<1>3. ASSUME NEW i \in 1 .. n
      PROVE  f[i] = f[i - 1] + s[i]
  <2>1. f[i - 1] \in Nat
    OBVIOUS
  <2> QED
    BY <1>2, <2>1 DEF Iterates
<1> QED
  BY <1>2, <1>3 DEF Iterates

Sums(f, b, s, n) ==
  /\ f \in [0 .. n -> Nat] /\ f[0] = b
  /\ \A i \in 1 .. n : s[i] \in Nat /\ f[i] = f[i - 1] + s[i]

(* Sums of natural numbers grow.                                           *)
LEMMA SumsGrow ==
  ASSUME NEW b, NEW n \in Nat, NEW s, NEW f, Sums(f, b, s, n)
  PROVE  \A i \in 0 .. n : f[i] <= f[n]
<1> DEFINE T == {i \in Nat : f[n - i] <= f[n]}
<1>1. 0 \in T
  BY DEF Sums
<1>2. ASSUME NEW i \in Nat, i < n, i \in T
      PROVE  i + 1 \in T
  <2>1. n - i \in 1 .. n /\ n - (i + 1) = (n - i) - 1 /\ n - (i + 1) \in 0 .. n
        /\ n - i \in 0 .. n /\ n \in 0 .. n
    BY <1>2
  <2>2. /\ f[n - i] = f[n - (i + 1)] + s[n - i] /\ s[n - i] \in Nat
        /\ f[n - i] \in Nat /\ f[n - (i + 1)] \in Nat /\ f[n] \in Nat
    BY <2>1 DEF Sums
  <2> QED
    BY <1>2, <2>2
<1> HIDE DEF T
<1>3. \A i \in Nat : i <= n => i \in T
  BY <1>1, <1>2, UpTo
<1>4. ASSUME NEW i \in 0 .. n
      PROVE  f[i] <= f[n]
  <2>1. n - i \in Nat /\ n - i <= n /\ n - (n - i) = i
    OBVIOUS
  <2> QED
    BY <1>3, <2>1 DEF T
<1> QED
  BY <1>4

-----------------------------------------------------------------------------
(* The messages that open a connection                                     *)

(* The steps of the setup's parse functions are those of MessageWalk.      *)
LEMMA SetupSteps ==
  /\ \A w, c : Setup!Asserting(w, c) = Asserting(w, c)
  /\ \A w, len : Setup!Unparsed(w, len) = Unparsed(w, len)
  /\ \A w, len : Setup!String8(w, len) = String8(w, len)
  /\ \A w, sz, ct, memb_sz :
       Setup!List(w, sz, ct, memb_sz) = List(w, sz, ct, memb_sz)
  /\ \A w, sz, ct, memb_sz :
       Setup!PaddedList(w, sz, ct, memb_sz) = PaddedList(w, sz, ct, memb_sz)
  /\ \A m, size : Setup!Start(size, m) = Start(size, m)
  /\ \A n : Setup!Pad(n) = Pad(n) /\ Setup!Units(n) = Units(n)
  /\ \A n : Setup!Size(n) = n * 4
<1>1. \A n : Setup!Pad(n) = Pad(n) /\ Setup!Units(n) = Units(n)
  BY Zenon DEF Setup!Pad, Pad, Setup!Units, Units, Setup!ALIGN, ALIGN
<1>2. \A w, end : Setup!Further(w, end) = Further(w, end)
  BY Zenon DEF Setup!Further, Further
<1>3. \A w, len : Setup!Unparsed(w, len) = Unparsed(w, len)
  BY <1>2, Zenon DEF Setup!Unparsed, Unparsed
<1>4. \A w, len : Setup!String8(w, len) = String8(w, len)
  BY <1>1, <1>3, Zenon DEF Setup!String8, String8
<1>5. \A w, sz, ct, memb_sz :
        Setup!List(w, sz, ct, memb_sz) = List(w, sz, ct, memb_sz)
  BY <1>2, SMT DEF Setup!List, List
<1>6. \A w, sz, ct, memb_sz :
       Setup!PaddedList(w, sz, ct, memb_sz) = PaddedList(w, sz, ct, memb_sz)
  BY <1>1, <1>5, Zenon DEF Setup!PaddedList, PaddedList
<1>7. /\ \A w, c : Setup!Asserting(w, c) = Asserting(w, c)
      /\ \A m, size : Setup!Start(size, m) = Start(size, m)
      /\ \A n : Setup!Size(n) = n * 4
  BY Zenon DEF Setup!Asserting, Asserting, Setup!Start, Start, Setup!Size,
     Setup!ALIGN
<1> QED
  BY <1>1, <1>3, <1>4, <1>5, <1>6, <1>7

(* What the depths of a screen add up to                                   *)
LEMMA ScreenSummed ==
  ASSUME NEW d \in Seq(Nat)
  PROVE  \E z : /\ Sums(z, 40, [i \in 1 .. Len(d) |-> 8 + 24 * d[i]], Len(d))
                /\ Setup!SCREEN(d) = z[Len(d)]
<1> DEFINE n == Len(d)
           s == [i \in 1 .. n |-> 8 + 24 * d[i]]
           F(f) == f = [i \in 0 .. n |-> IF i = 0 THEN Setup!SCREEN_HEADER
                                            ELSE f[i - 1] + Setup!DEPTH(d[i])]
<1>1. n \in Nat
  OBVIOUS
<1>2. ASSUME NEW i \in 1 .. n
      PROVE  s[i] \in Nat /\ s[i] = Setup!DEPTH(d[i])
  <2>1. d[i] \in Nat
    OBVIOUS
  <2> QED
    BY <2>1 DEF Setup!DEPTH, Setup!DEPTH_HEADER, Setup!VISUALTYPE,
       Setup!CARD8, Setup!CARD16, Setup!CARD32, Setup!VISUALID
<1>3. Setup!SCREEN_HEADER = 40 /\ 40 \in Nat
  BY DEF Setup!SCREEN_HEADER, Setup!WINDOW, Setup!COLORMAP, Setup!CARD32,
     Setup!SETofEVENT, Setup!CARD16, Setup!VISUALID, Setup!CARD8, Setup!BOOL
<1>4. s \in [1 .. n -> Nat]
  BY <1>2
<1> HIDE DEF s
<1>5. PICK f \in [0 .. n -> Nat] :
        f[0] = 40 /\ \A i \in 1 .. n : f[i] = f[i - 1] + s[i]
  BY <1>1, <1>3, <1>4, Summed
<1>6. F(f)
  <2>1. ASSUME NEW i \in 0 .. n
        PROVE  f[i] = IF i = 0 THEN Setup!SCREEN_HEADER
                         ELSE f[i - 1] + Setup!DEPTH(d[i])
    <3>1. CASE i = 0
      BY <1>3, <1>5, <3>1
    <3>2. CASE i # 0
      <4>1. i \in 1 .. n
        BY <3>2
      <4> QED
        BY <1>2, <1>5, <3>2, <4>1
    <3> QED
      BY <3>1, <3>2
  <2> QED
    BY <2>1
<1> DEFINE z == CHOOSE f_1 : F(f_1)
<1>7. F(z)
  <2> HIDE DEF F
  <2> QED
    BY <1>6
<1>8. Setup!SCREEN(d) = z[n]
  BY Zenon DEF Setup!SCREEN
<1> HIDE DEF z
<1>9. z[0] = 40 /\ \A i \in 1 .. n : z[i] = z[i - 1] + s[i]
  <2>1. z[0] = 40
    BY <1>1, <1>3, <1>7
  <2>2. ASSUME NEW i \in 1 .. n
        PROVE  z[i] = z[i - 1] + s[i]
    <3>1. i \in 0 .. n /\ i # 0
      BY <1>1
    <3>2. z[i] = z[i - 1] + Setup!DEPTH(d[i])
      BY <1>7, <3>1, Zenon
    <3>3. Setup!DEPTH(d[i]) = s[i]
      BY <1>2, Zenon
    <3> QED
      BY <3>2, <3>3, Zenon
  <2> QED
    BY <2>1, <2>2
<1>10. z \in [0 .. n -> Nat]
  <2> DEFINE T == {i \in Nat : i <= n => z[i] \in Nat}
  <2>1. 0 \in T
    BY <1>3, <1>9
  <2>2. \A i \in Nat : i < n /\ i \in T => i + 1 \in T
    <3> SUFFICES ASSUME NEW i \in Nat, i < n, i \in T PROVE i + 1 \in T
      OBVIOUS
    <3>1. i + 1 \in 1 .. n /\ (i + 1) - 1 = i /\ z[i] \in Nat
      OBVIOUS
    <3>2. z[i + 1] = z[i] + s[i + 1] /\ s[i + 1] \in Nat
      BY <1>2, <1>9, <3>1
    <3> QED
      BY <3>1, <3>2
  <2> HIDE DEF T
  <2>3. \A i \in Nat : i <= n => i \in T
    BY <1>1, <2>1, <2>2, UpTo
  <2>4. \A i \in 0 .. n : z[i] \in Nat
    BY <2>3 DEF T
  <2>5. z = [i \in 0 .. n |-> z[i]]
    BY <1>7
  <2> QED
    BY <2>4, <2>5
<1>11. Sums(z, 40, s, n)
  BY <1>2, <1>9, <1>10 DEF Sums
<1> QED
  BY <1>8, <1>11 DEF s

(* The visuals of a screen                                                 *)
LEMMA VisualsSummed ==
  ASSUME NEW d \in Seq(Nat)
  PROVE  \E z : /\ Sums(z, 0, [i \in 1 .. Len(d) |-> d[i]], Len(d))
                /\ Setup!Visuals(d) = z[Len(d)]
<1> DEFINE n == Len(d)
           s == [i \in 1 .. n |-> d[i]]
           F(f) == f = [i \in 0 .. n |-> IF i = 0 THEN 0 ELSE f[i - 1] + d[i]]
<1>1. n \in Nat
  OBVIOUS
<1>2. ASSUME NEW i \in 1 .. n
      PROVE  s[i] \in Nat /\ s[i] = d[i]
  OBVIOUS
<1>3. 0 = 0 /\ 0 \in Nat
  OBVIOUS
<1>4. s \in [1 .. n -> Nat]
  BY <1>2
<1> HIDE DEF s
<1>5. PICK f \in [0 .. n -> Nat] :
        f[0] = 0 /\ \A i \in 1 .. n : f[i] = f[i - 1] + s[i]
  BY <1>1, <1>3, <1>4, Summed
<1>6. F(f)
  <2>1. ASSUME NEW i \in 0 .. n
        PROVE  f[i] = IF i = 0 THEN 0 ELSE f[i - 1] + d[i]
    <3>1. CASE i = 0
      BY <1>3, <1>5, <3>1
    <3>2. CASE i # 0
      <4>1. i \in 1 .. n
        BY <3>2
      <4> QED
        BY <1>2, <1>5, <3>2, <4>1
    <3> QED
      BY <3>1, <3>2
  <2> QED
    BY <2>1
<1> DEFINE z == CHOOSE f_1 : F(f_1)
<1>7. F(z)
  <2> HIDE DEF F
  <2> QED
    BY <1>6
<1>8. Setup!Visuals(d) = z[n]
  BY Zenon DEF Setup!Visuals
<1> HIDE DEF z
<1>9. z[0] = 0 /\ \A i \in 1 .. n : z[i] = z[i - 1] + s[i]
  <2>1. z[0] = 0
    BY <1>1, <1>3, <1>7
  <2>2. ASSUME NEW i \in 1 .. n
        PROVE  z[i] = z[i - 1] + s[i]
    <3>1. i \in 0 .. n /\ i # 0
      BY <1>1
    <3>2. z[i] = z[i - 1] + d[i]
      BY <1>7, <3>1, Zenon
    <3>3. d[i] = s[i]
      BY <1>2, Zenon
    <3> QED
      BY <3>2, <3>3, Zenon
  <2> QED
    BY <2>1, <2>2
<1>10. z \in [0 .. n -> Nat]
  <2> DEFINE T == {i \in Nat : i <= n => z[i] \in Nat}
  <2>1. 0 \in T
    BY <1>3, <1>9
  <2>2. \A i \in Nat : i < n /\ i \in T => i + 1 \in T
    <3> SUFFICES ASSUME NEW i \in Nat, i < n, i \in T PROVE i + 1 \in T
      OBVIOUS
    <3>1. i + 1 \in 1 .. n /\ (i + 1) - 1 = i /\ z[i] \in Nat
      OBVIOUS
    <3>2. z[i + 1] = z[i] + s[i + 1] /\ s[i + 1] \in Nat
      BY <1>2, <1>9, <3>1
    <3> QED
      BY <3>1, <3>2
  <2> HIDE DEF T
  <2>3. \A i \in Nat : i <= n => i \in T
    BY <1>1, <2>1, <2>2, UpTo
  <2>4. \A i \in 0 .. n : z[i] \in Nat
    BY <2>3 DEF T
  <2>5. z = [i \in 0 .. n |-> z[i]]
    BY <1>7
  <2> QED
    BY <2>4, <2>5
<1>11. Sums(z, 0, s, n)
  BY <1>2, <1>9, <1>10 DEF Sums
<1> QED
  BY <1>8, <1>11 DEF s

(* Sums of multiples of 4                                                  *)
LEMMA SumsAligned ==
  ASSUME NEW b \in Nat, NEW n \in Nat, NEW s, NEW f, Sums(f, b, s, n),
         b % 4 = 0, \A i \in 1 .. n : s[i] % 4 = 0
  PROVE  f[n] \in Nat /\ f[n] % 4 = 0
<1> DEFINE T == {i \in Nat : i <= n => f[i] % 4 = 0}
<1>1. 0 \in T
  BY DEF Sums
<1>2. ASSUME NEW i \in Nat, i < n, i \in T
      PROVE  i + 1 \in T
  <2>1. i + 1 \in 1 .. n /\ (i + 1) - 1 = i /\ i \in 0 .. n /\ f[i] % 4 = 0
    BY <1>2
  <2>2. /\ f[i + 1] = f[i] + s[i + 1] /\ s[i + 1] \in Nat /\ s[i + 1] % 4 = 0
        /\ f[i] \in Nat
    BY <2>1 DEF Sums
  <2>3. f[i + 1] % 4 = 0
    BY <2>1, <2>2
  <2> QED
    BY <1>2, <2>3
<1> HIDE DEF T
<1>3. \A i \in Nat : i <= n => i \in T
  BY <1>1, <1>2, UpTo
<1>4. n \in T /\ f[n] \in Nat
  BY <1>3 DEF Sums
<1> QED
  BY <1>4 DEF T

(* A screen takes a whole number of units.                                 *)
LEMMA ScreenSize ==
  ASSUME NEW d \in Seq(Nat)
  PROVE  /\ Setup!SCREEN(d) \in Nat /\ Setup!SCREEN(d) >= 40
         /\ Setup!SCREEN(d) % 4 = 0
<1> DEFINE n == Len(d)
           s == [i \in 1 .. n |-> 8 + 24 * d[i]]
<1>1. PICK z : Sums(z, 40, s, n) /\ Setup!SCREEN(d) = z[n]
  BY ScreenSummed
<1>2. n \in Nat /\ 40 \in Nat /\ 40 % 4 = 0
  OBVIOUS
<1>3. ASSUME NEW i \in 1 .. n
      PROVE  s[i] % 4 = 0
  <2>1. d[i] \in Nat /\ s[i] = 8 + 24 * d[i]
    OBVIOUS
  <2> QED
    BY <2>1
<1> HIDE DEF n, s
<1>4. z[n] \in Nat /\ z[n] % 4 = 0
  BY <1>1, <1>2, <1>3, SumsAligned
<1>5. \A i \in 0 .. n : z[i] <= z[n]
  BY <1>1, <1>2, SumsGrow
<1>6. z[0] <= z[n] /\ z[0] = 40
  BY <1>1, <1>2, <1>5 DEF Sums
<1> QED
  BY <1>1, <1>4, <1>6

(* What the screens add up to                                              *)
LEMMA RootsSummed ==
  ASSUME NEW c \in Seq(Seq(Nat))
  PROVE  \E z : /\ Sums(z, 0,
                        [i \in 1 .. Len(c) |-> Setup!SCREEN(c[i])],
                        Len(c))
                /\ Setup!ROOTS(c) = z[Len(c)]
<1> DEFINE n == Len(c)
           s == [i \in 1 .. n |-> Setup!SCREEN(c[i])]
           F(f) == f = [i \in 0 .. n |-> IF i = 0 THEN 0
                                            ELSE f[i - 1] + Setup!SCREEN(c[i])]
<1>1. n \in Nat
  OBVIOUS
<1>2. ASSUME NEW i \in 1 .. n
      PROVE  s[i] \in Nat /\ s[i] = Setup!SCREEN(c[i])
  <2>1. c[i] \in Seq(Nat)
    OBVIOUS
  <2>2. Setup!SCREEN(c[i]) \in Nat
    BY <2>1, ScreenSize
  <2> QED
    BY <2>2
<1>3. 0 = 0 /\ 0 \in Nat
  OBVIOUS
<1>4. s \in [1 .. n -> Nat]
  BY <1>2
<1> HIDE DEF s
<1>5. PICK f \in [0 .. n -> Nat] :
        f[0] = 0 /\ \A i \in 1 .. n : f[i] = f[i - 1] + s[i]
  BY <1>1, <1>3, <1>4, Summed
<1>6. F(f)
  <2>1. ASSUME NEW i \in 0 .. n
        PROVE  f[i] = IF i = 0 THEN 0 ELSE f[i - 1] + Setup!SCREEN(c[i])
    <3>1. CASE i = 0
      BY <1>3, <1>5, <3>1
    <3>2. CASE i # 0
      <4>1. i \in 1 .. n
        BY <3>2
      <4> QED
        BY <1>2, <1>5, <3>2, <4>1
    <3> QED
      BY <3>1, <3>2
  <2> QED
    BY <2>1
<1> DEFINE z == CHOOSE f_1 : F(f_1)
<1>7. F(z)
  <2> HIDE DEF F
  <2> QED
    BY <1>6
<1>8. Setup!ROOTS(c) = z[n]
  BY Zenon DEF Setup!ROOTS
<1> HIDE DEF z
<1>9. z[0] = 0 /\ \A i \in 1 .. n : z[i] = z[i - 1] + s[i]
  <2>1. z[0] = 0
    BY <1>1, <1>3, <1>7
  <2>2. ASSUME NEW i \in 1 .. n
        PROVE  z[i] = z[i - 1] + s[i]
    <3>1. i \in 0 .. n /\ i # 0
      BY <1>1
    <3>2. z[i] = z[i - 1] + Setup!SCREEN(c[i])
      BY <1>7, <3>1, Zenon
    <3>3. Setup!SCREEN(c[i]) = s[i]
      BY <1>2, Zenon
    <3> QED
      BY <3>2, <3>3, Zenon
  <2> QED
    BY <2>1, <2>2
<1>10. z \in [0 .. n -> Nat]
  <2> DEFINE T == {i \in Nat : i <= n => z[i] \in Nat}
  <2>1. 0 \in T
    BY <1>3, <1>9
  <2>2. \A i \in Nat : i < n /\ i \in T => i + 1 \in T
    <3> SUFFICES ASSUME NEW i \in Nat, i < n, i \in T PROVE i + 1 \in T
      OBVIOUS
    <3>1. i + 1 \in 1 .. n /\ (i + 1) - 1 = i /\ z[i] \in Nat
      OBVIOUS
    <3>2. z[i + 1] = z[i] + s[i + 1] /\ s[i + 1] \in Nat
      BY <1>2, <1>9, <3>1
    <3> QED
      BY <3>1, <3>2
  <2> HIDE DEF T
  <2>3. \A i \in Nat : i <= n => i \in T
    BY <1>1, <2>1, <2>2, UpTo
  <2>4. \A i \in 0 .. n : z[i] \in Nat
    BY <2>3 DEF T
  <2>5. z = [i \in 0 .. n |-> z[i]]
    BY <1>7
  <2> QED
    BY <2>4, <2>5
<1>11. Sums(z, 0, s, n)
  BY <1>2, <1>9, <1>10 DEF Sums
<1> QED
  BY <1>8, <1>11 DEF s

(* All screens together take a whole number of units.                      *)
LEMMA RootsSize ==
  ASSUME NEW c \in Seq(Seq(Nat))
  PROVE  Setup!ROOTS(c) \in Nat /\ Setup!ROOTS(c) % 4 = 0
<1> DEFINE n == Len(c)
           s == [i \in 1 .. n |-> Setup!SCREEN(c[i])]
<1>1. PICK z : Sums(z, 0, s, n) /\ Setup!ROOTS(c) = z[n]
  BY RootsSummed
<1>2. n \in Nat /\ 0 \in Nat /\ 0 % 4 = 0
  OBVIOUS
<1>3. ASSUME NEW i \in 1 .. n
      PROVE  s[i] % 4 = 0
  <2>1. c[i] \in Seq(Nat) /\ s[i] = Setup!SCREEN(c[i])
    OBVIOUS
  <2> QED
    BY <2>1, ScreenSize
<1> HIDE DEF n, s
<1>4. z[n] \in Nat /\ z[n] % 4 = 0
  BY <1>1, <1>2, <1>3, SumsAligned
<1> QED
  BY <1>1, <1>4

(* A screen has some number of visuals.                                    *)
LEMMA VisualsNat ==
  ASSUME NEW d \in Seq(Nat)
  PROVE  Setup!Visuals(d) \in Nat
<1>1. PICK z : /\ Sums(z, 0, [i \in 1 .. Len(d) |-> d[i]], Len(d))
               /\ Setup!Visuals(d) = z[Len(d)]
  BY VisualsSummed
<1>2. Len(d) \in 0 .. Len(d)
  OBVIOUS
<1> QED
  BY <1>1, <1>2 DEF Sums

(* What a complete log of a setup message has                              *)
LEMMA MembersSummed ==
  ASSUME NEW m, m.n \in Nat, m.k \in Nat, m.screens \in Seq(Seq(Nat)),
         m.kind # "RequireFurtherAuthentication"
  PROVE  \E z : /\ Sums(z, m.n + m.k,
                        [i \in 1 .. Len(m.screens) |-> Setup!Visuals(m.screens[i])],
                        Len(m.screens))
                /\ Setup!SetupMembers(m) = z[Len(m.screens)]
<1> DEFINE n == Len(m.screens)
           s == [i \in 1 .. n |-> Setup!Visuals(m.screens[i])]
           F(f) == f = [i \in 0 .. n |-> IF i = 0 THEN m.n + m.k
                                            ELSE f[i - 1] + Setup!Visuals(m.screens[i])]
<1>1. n \in Nat
  OBVIOUS
<1>2. ASSUME NEW i \in 1 .. n
      PROVE  s[i] \in Nat /\ s[i] = Setup!Visuals(m.screens[i])
  <2>1. m.screens[i] \in Seq(Nat)
    OBVIOUS
  <2>2. Setup!Visuals(m.screens[i]) \in Nat
    BY <2>1, VisualsNat
  <2> QED
    BY <2>2
<1>3. m.n + m.k = m.n + m.k /\ m.n + m.k \in Nat
  OBVIOUS
<1>4. s \in [1 .. n -> Nat]
  BY <1>2
<1> HIDE DEF s
<1>5. PICK f \in [0 .. n -> Nat] :
        f[0] = m.n + m.k /\ \A i \in 1 .. n : f[i] = f[i - 1] + s[i]
  BY <1>1, <1>3, <1>4, Summed
<1>6. F(f)
  <2>1. ASSUME NEW i \in 0 .. n
        PROVE  f[i] = IF i = 0 THEN m.n + m.k
                         ELSE f[i - 1] + Setup!Visuals(m.screens[i])
    <3>1. CASE i = 0
      BY <1>3, <1>5, <3>1
    <3>2. CASE i # 0
      <4>1. i \in 1 .. n
        BY <3>2
      <4> QED
        BY <1>2, <1>5, <3>2, <4>1
    <3> QED
      BY <3>1, <3>2
  <2> QED
    BY <2>1
<1> DEFINE z == CHOOSE f_1 : F(f_1)
<1>7. F(z)
  <2> HIDE DEF F
  <2> QED
    BY <1>6
<1>8. Setup!SetupMembers(m) = z[n]
  BY Zenon DEF Setup!SetupMembers
<1> HIDE DEF z
<1>9. z[0] = m.n + m.k /\ \A i \in 1 .. n : z[i] = z[i - 1] + s[i]
  <2>1. z[0] = m.n + m.k
    BY <1>1, <1>3, <1>7
  <2>2. ASSUME NEW i \in 1 .. n
        PROVE  z[i] = z[i - 1] + s[i]
    <3>1. i \in 0 .. n /\ i # 0
      BY <1>1
    <3>2. z[i] = z[i - 1] + Setup!Visuals(m.screens[i])
      BY <1>7, <3>1, Zenon
    <3>3. Setup!Visuals(m.screens[i]) = s[i]
      BY <1>2, Zenon
    <3> QED
      BY <3>2, <3>3, Zenon
  <2> QED
    BY <2>1, <2>2
<1>10. z \in [0 .. n -> Nat]
  <2> DEFINE T == {i \in Nat : i <= n => z[i] \in Nat}
  <2>1. 0 \in T
    BY <1>3, <1>9
  <2>2. \A i \in Nat : i < n /\ i \in T => i + 1 \in T
    <3> SUFFICES ASSUME NEW i \in Nat, i < n, i \in T PROVE i + 1 \in T
      OBVIOUS
    <3>1. i + 1 \in 1 .. n /\ (i + 1) - 1 = i /\ z[i] \in Nat
      OBVIOUS
    <3>2. z[i + 1] = z[i] + s[i + 1] /\ s[i + 1] \in Nat
      BY <1>2, <1>9, <3>1
    <3> QED
      BY <3>1, <3>2
  <2> HIDE DEF T
  <2>3. \A i \in Nat : i <= n => i \in T
    BY <1>1, <2>1, <2>2, UpTo
  <2>4. \A i \in 0 .. n : z[i] \in Nat
    BY <2>3 DEF T
  <2>5. z = [i \in 0 .. n |-> z[i]]
    BY <1>7
  <2> QED
    BY <2>4, <2>5
<1>11. Sums(z, m.n + m.k, s, n)
  BY <1>2, <1>9, <1>10 DEF Sums
<1> QED
  BY <1>8, <1>11 DEF s

-----------------------------------------------------------------------------
(* The walks along the screens and the depths of an acceptance             *)

(* The header of a screen or of a depth leads to a walk.                   *)
LEMMA HeaderType ==
  ASSUME NEW m, m.sz \in Nat, NEW w \in Walks, NEW size \in Nat
  PROVE  Setup!MemberHeader(m, w, size) \in Walks
<1> DEFINE c == w.at + size <= m.sz
           u == Unparsed(w, size)
<1>1. c \in BOOLEAN
  <2>1. w.at + size \in Int
    BY DEF Walks
  <2> QED
    BY <2>1
<1>2. u \in Walks
  <2> DEFINE r == Further(w, w.at + size)
  <2>1. r \in Int /\ w.at + size \in Int
    BY DEF Walks, Further
  <2>2. u = [[w EXCEPT !.at = w.at + size] EXCEPT !.reach = r]
    BY DEF Unparsed
  <2> HIDE DEF r, u
  <2> QED
    BY <2>1, <2>2 DEF Walks
<1>3. Setup!MemberHeader(m, w, size) = Asserting(u, c)
  BY SetupSteps, Zenon DEF Setup!MemberHeader
<1> HIDE DEF c, u
<1> QED
  BY <1>1, <1>2, <1>3, AssertingType

(* It leaves a walk sound when it lies within the message.                 *)
LEMMA HeaderSound ==
  ASSUME NEW m, m.sz \in Nat, NEW w, NEW a \in Nat, NEW l \in Nat, Sound(w, a,
         l),
         NEW size \in Nat, a + size <= m.sz
  PROVE  Sound(Setup!MemberHeader(m, w, size), a + size, l)
<1> DEFINE c == w.at + size <= m.sz
           u == Unparsed(w, size)
<1>1. w.at = a
  BY DEF Sound
<1>2. c \in BOOLEAN /\ c
  BY <1>1
<1>3. Sound(u, a + size, l) /\ a + size \in Nat
  BY UnparsedSound
<1>4. Setup!MemberHeader(m, w, size) = Asserting(u, c)
  BY SetupSteps, Zenon DEF Setup!MemberHeader
<1> HIDE DEF c, u
<1> QED
  BY <1>2, <1>3, <1>4, AssertingSound

(* So does a depth lead to a walk.                                         *)
LEMMA DepthType ==
  ASSUME NEW m, m.sz \in Nat, NEW w \in Walks, NEW v \in Nat
  PROVE  Setup!Depth(m, w, v) \in Walks
<1> DEFINE h == Setup!MemberHeader(m, w, 8)
<1>1. h \in Walks
  BY HeaderType
<1>2. Setup!Depth(m, w, v) = List(h, m.sz - h.at, v, 24)
  BY SetupSteps, Zenon DEF Setup!Depth
<1> HIDE DEF h
<1>3. m.sz - h.at \in Int /\ v \in Int /\ 24 \in Nat
  BY <1>1 DEF Walks
<1> QED
  BY <1>1, <1>2, <1>3, ListType

(* An answer takes 8 bytes and at most as many units as 16 bits can count. *)
Answer(m) == m.sz \in Nat /\ m.sz <= 8 + 4 * 65535

(* A depth within the message is walked to its end.                        *)
LEMMA DepthSound ==
  ASSUME NEW m, Answer(m), NEW w, NEW a \in Nat, NEW l \in Nat, Sound(w, a, l),
         NEW v \in Nat, a + (8 + 24 * v) <= m.sz
  PROVE  Sound(Setup!Depth(m, w, v), a + (8 + 24 * v), l + v)
<1> DEFINE h == Setup!MemberHeader(m, w, 8)
<1>1. m.sz \in Nat /\ a + 8 \in Nat /\ a + 8 <= m.sz /\ 8 \in Nat
  BY DEF Answer
<1>2. Sound(h, a + 8, l)
  BY <1>1, HeaderSound
<1>3. Setup!Depth(m, w, v) = List(h, m.sz - h.at, v, 24)
  BY SetupSteps, Zenon DEF Setup!Depth
<1> HIDE DEF h
<1>4. h.at = a + 8
  BY <1>2 DEF Sound
<1>5. PICK r \in Int : r = m.sz - (a + 8)
  BY <1>1
<1>6. v * 24 <= r /\ 24 \in Nat
  BY <1>1, <1>5
<1>7. Short(v)
  BY DEF Answer, Short
<1>8. Sound(List(h, r, v, 24), (a + 8) + v * 24, l + v)
  BY <1>1, <1>2, <1>5, <1>6, <1>7, ListSound
<1>9. (a + 8) + v * 24 = a + (8 + 24 * v)
  OBVIOUS
<1> QED
  BY <1>3, <1>4, <1>5, <1>8, <1>9

(* From depth to depth                                                     *)
AlongDepths(z, m, w, d) ==
  /\ z[0] = Setup!MemberHeader(m, w, 40)
  /\ \A i \in 1 .. Len(d) : z[i] = Setup!Depth(m, z[i - 1], d[i])

(* The walk through a screen follows its depths, and is a walk.            *)
LEMMA ScreenWalked ==
  ASSUME NEW m, m.sz \in Nat, NEW w \in Walks, NEW d \in Seq(Nat)
  PROVE  /\ Setup!Screen(m, w, d) \in Walks
         /\ \E z : AlongDepths(z, m, w, d) /\ Setup!Screen(m, w, d) = z[Len(d)]
<1> DEFINE n == Len(d)
           g == [i \in 1 .. n |-> [x \in Walks |-> Setup!Depth(m, x, d[i])]]
           F(f) == f = [i \in 0 .. n |-> IF i = 0 THEN Setup!MemberHeader(m, w, 40)
                                            ELSE Setup!Depth(m, f[i - 1], d[i])]
<1>1. n \in Nat
  OBVIOUS
<1>2. ASSUME NEW i \in 1 .. n, NEW x \in Walks
      PROVE  Setup!Depth(m, x, d[i]) \in Walks
  <2>1. d[i] \in Nat
    OBVIOUS
  <2> QED
    BY <2>1, DepthType
<1>3. Setup!MemberHeader(m, w, 40) \in Walks
  BY HeaderType
<1>4. g \in [1 .. n -> [Walks -> Walks]]
  BY <1>2
<1>5. ASSUME NEW i \in 1 .. n, NEW x \in Walks
      PROVE  g[i][x] = Setup!Depth(m, x, d[i])
  OBVIOUS
<1> HIDE DEF g
<1>6. PICK f \in [0 .. n -> Walks] : Iterates(f, Setup!MemberHeader(m, w, 40), g, n)
  BY <1>1, <1>3, <1>4, Iterated
<1>7. F(f)
  <2>1. ASSUME NEW i \in 0 .. n
        PROVE  f[i] = IF i = 0 THEN Setup!MemberHeader(m, w, 40)
                         ELSE Setup!Depth(m, f[i - 1], d[i])
    <3>1. CASE i = 0
      BY <1>6, <3>1 DEF Iterates
    <3>2. CASE i # 0
      <4>1. i \in 1 .. n /\ i - 1 \in 0 .. n
        BY <3>2
      <4>2. f[i - 1] \in Walks
        BY <4>1
      <4>3. f[i] = g[i][f[i - 1]]
        BY <1>6, <4>1 DEF Iterates
      <4>4. f[i] = Setup!Depth(m, f[i - 1], d[i])
        BY <1>5, <4>1, <4>2, <4>3
      <4> QED
        BY <3>2, <4>4, Zenon
    <3> QED
      BY <3>1, <3>2
  <2> QED
    BY <2>1
<1> DEFINE z == CHOOSE f_1 : F(f_1)
<1>8. F(z)
  <2> HIDE DEF F
  <2> QED
    BY <1>7
<1>9. Setup!Screen(m, w, d) = z[n]
  BY Zenon DEF Setup!Screen
<1> HIDE DEF z
<1>10. z[0] = Setup!MemberHeader(m, w, 40)
  <2>1. 0 \in 0 .. n
    BY <1>1
  <2> QED
    BY <1>8, <2>1, Zenon
<1>11. ASSUME NEW i \in 1 .. n
       PROVE  z[i] = Setup!Depth(m, z[i - 1], d[i])
  <2>1. i \in 0 .. n /\ i # 0
    BY <1>1
  <2> QED
    BY <1>8, <2>1, Zenon
<1>12. z[n] \in Walks
  <2> DEFINE T == {i \in Nat : i <= n => z[i] \in Walks}
  <2>1. 0 \in T
    BY <1>3, <1>10
  <2>2. \A i \in Nat : i < n /\ i \in T => i + 1 \in T
    <3> SUFFICES ASSUME NEW i \in Nat, i < n, i \in T PROVE i + 1 \in T
      OBVIOUS
    <3>1. i + 1 \in 1 .. n /\ (i + 1) - 1 = i /\ z[i] \in Walks
      OBVIOUS
    <3>2. z[i + 1] \in Walks
      BY <1>2, <1>11, <3>1
    <3> QED
      BY <3>2
  <2> HIDE DEF T
  <2>3. \A i \in Nat : i <= n => i \in T
    BY <1>1, <2>1, <2>2, UpTo
  <2>4. n \in T /\ n <= n
    BY <1>1, <2>3
  <2> QED
    BY <2>4 DEF T
<1>13. AlongDepths(z, m, w, d)
  BY <1>10, <1>11, Zenon DEF AlongDepths
<1> QED
  BY <1>9, <1>12, <1>13, Zenon

(* From screen to screen                                                   *)
AlongScreens(z, m, w) ==
  /\ z[0] = w
  /\ \A i \in 1 .. Len(m.screens) : z[i] = Setup!Screen(m, z[i - 1], m.screens[i])

(* The walk through the roots follows the screens.                         *)
LEMMA RootsWalked ==
  ASSUME NEW m, m.sz \in Nat, m.screens \in Seq(Seq(Nat)), NEW w \in Walks
  PROVE  /\ Setup!Roots(m, w) \in Walks
         /\ \E z : AlongScreens(z, m, w) /\ Setup!Roots(m, w) = z[Len(m.screens)]
<1> DEFINE n == Len(m.screens)
           g == [i \in 1 .. n |-> [x \in Walks |-> Setup!Screen(m, x, m.screens[i])]]
           F(f) == f = [i \in 0 .. n |-> IF i = 0 THEN w
                                            ELSE Setup!Screen(m, f[i - 1], m.screens[i])]
<1>1. n \in Nat
  OBVIOUS
<1>2. ASSUME NEW i \in 1 .. n, NEW x \in Walks
      PROVE  Setup!Screen(m, x, m.screens[i]) \in Walks
  <2>1. m.screens[i] \in Seq(Nat)
    OBVIOUS
  <2> QED
    BY <2>1, ScreenWalked
<1>3. w \in Walks
  BY Zenon
<1>4. g \in [1 .. n -> [Walks -> Walks]]
  BY <1>2
<1>5. ASSUME NEW i \in 1 .. n, NEW x \in Walks
      PROVE  g[i][x] = Setup!Screen(m, x, m.screens[i])
  OBVIOUS
<1> HIDE DEF g
<1>6. PICK f \in [0 .. n -> Walks] : Iterates(f, w, g, n)
  BY <1>1, <1>3, <1>4, Iterated
<1>7. F(f)
  <2>1. ASSUME NEW i \in 0 .. n
        PROVE  f[i] = IF i = 0 THEN w
                         ELSE Setup!Screen(m, f[i - 1], m.screens[i])
    <3>1. CASE i = 0
      BY <1>6, <3>1 DEF Iterates
    <3>2. CASE i # 0
      <4>1. i \in 1 .. n /\ i - 1 \in 0 .. n
        BY <3>2
      <4>2. f[i - 1] \in Walks
        BY <4>1
      <4>3. f[i] = g[i][f[i - 1]]
        BY <1>6, <4>1 DEF Iterates
      <4>4. f[i] = Setup!Screen(m, f[i - 1], m.screens[i])
        BY <1>5, <4>1, <4>2, <4>3
      <4> QED
        BY <3>2, <4>4, Zenon
    <3> QED
      BY <3>1, <3>2
  <2> QED
    BY <2>1
<1> DEFINE z == CHOOSE f_1 : F(f_1)
<1>8. F(z)
  <2> HIDE DEF F
  <2> QED
    BY <1>7
<1>9. Setup!Roots(m, w) = z[n]
  BY Zenon DEF Setup!Roots
<1> HIDE DEF z
<1>10. z[0] = w
  <2>1. 0 \in 0 .. n
    BY <1>1
  <2> QED
    BY <1>8, <2>1, Zenon
<1>11. ASSUME NEW i \in 1 .. n
       PROVE  z[i] = Setup!Screen(m, z[i - 1], m.screens[i])
  <2>1. i \in 0 .. n /\ i # 0
    BY <1>1
  <2> QED
    BY <1>8, <2>1, Zenon
<1>12. z[n] \in Walks
  <2> DEFINE T == {i \in Nat : i <= n => z[i] \in Walks}
  <2>1. 0 \in T
    BY <1>3, <1>10
  <2>2. \A i \in Nat : i < n /\ i \in T => i + 1 \in T
    <3> SUFFICES ASSUME NEW i \in Nat, i < n, i \in T PROVE i + 1 \in T
      OBVIOUS
    <3>1. i + 1 \in 1 .. n /\ (i + 1) - 1 = i /\ z[i] \in Walks
      OBVIOUS
    <3>2. z[i + 1] \in Walks
      BY <1>2, <1>11, <3>1
    <3> QED
      BY <3>2
  <2> HIDE DEF T
  <2>3. \A i \in Nat : i <= n => i \in T
    BY <1>1, <2>1, <2>2, UpTo
  <2>4. n \in T /\ n <= n
    BY <1>1, <2>3
  <2> QED
    BY <2>4 DEF T
<1>13. AlongScreens(z, m, w)
  BY <1>10, <1>11, Zenon DEF AlongScreens
<1> QED
  BY <1>9, <1>12, <1>13, Zenon

(* A screen within the message is walked to its end.                       *)
LEMMA ScreenSound ==
  ASSUME NEW m, Answer(m), NEW w, NEW a \in Nat, NEW l \in Nat, Sound(w, a, l),
         NEW d \in Seq(Nat), a + Setup!SCREEN(d) <= m.sz
  PROVE  Sound(Setup!Screen(m, w, d), a + Setup!SCREEN(d), l + Setup!Visuals(d))
<1> DEFINE n == Len(d)
           s == [i \in 1 .. n |-> 8 + 24 * d[i]]
           t == [i \in 1 .. n |-> d[i]]
<1>1. n \in Nat /\ m.sz \in Nat /\ w \in Walks
  BY DEF Answer, Sound
<1>2. PICK y : Sums(y, 40, s, n) /\ Setup!SCREEN(d) = y[n]
  BY ScreenSummed
<1>3. PICK v : Sums(v, 0, t, n) /\ Setup!Visuals(d) = v[n]
  BY VisualsSummed
<1>4. PICK z : AlongDepths(z, m, w, d) /\ Setup!Screen(m, w, d) = z[n]
  BY <1>1, ScreenWalked
<1>5. \A i \in 1 .. n : d[i] \in Nat /\ s[i] = 8 + 24 * d[i] /\ t[i] = d[i]
  OBVIOUS
<1>6. n = Len(d)
  OBVIOUS
<1> HIDE DEF n, s, t
<1>7. /\ y[0] = 40 /\ v[0] = 0
      /\ \A i \in 0 .. n : y[i] \in Nat /\ v[i] \in Nat
      /\ \A i \in 1 .. n : y[i] = y[i - 1] + s[i] /\ v[i] = v[i - 1] + t[i]
  BY <1>2, <1>3 DEF Sums
<1>8. \A i \in 0 .. n : y[i] <= y[n]
  BY <1>1, <1>2, SumsGrow
<1>9. /\ z[0] = Setup!MemberHeader(m, w, 40)
      /\ \A i \in 1 .. n : z[i] = Setup!Depth(m, z[i - 1], d[i])
  BY <1>4, <1>6, Zenon DEF AlongDepths
<1> DEFINE T == {i \in Nat : i <= n => Sound(z[i], a + y[i], l + v[i])}
<1>10. 0 \in T
  <2>1. y[0] <= y[n] /\ y[n] \in Nat
    BY <1>1, <1>7, <1>8
  <2>2. a + 40 <= m.sz /\ 40 \in Nat
    BY <1>1, <1>2, <1>7, <2>1
  <2>3. Sound(z[0], a + 40, l)
    BY <1>1, <1>9, <2>2, HeaderSound
  <2>4. a + y[0] = a + 40 /\ l + v[0] = l
    BY <1>7
  <2> QED
    BY <2>3, <2>4
<1>11. \A i \in Nat : i < n /\ i \in T => i + 1 \in T
  <2> SUFFICES ASSUME NEW i \in Nat, i < n, i \in T PROVE i + 1 \in T
    OBVIOUS
  <2>1. i + 1 \in 1 .. n /\ i + 1 \in 0 .. n /\ i \in 0 .. n /\ (i + 1) - 1 = i
    BY <1>1
  <2>2. Sound(z[i], a + y[i], l + v[i])
    BY <1>1, <2>1
  <2> HIDE DEF T
  <2>3. PICK b \in Nat : b = a + y[i]
    BY <1>7, <2>1
  <2>4. PICK c \in Nat : c = l + v[i]
    BY <1>7, <2>1
  <2>5. PICK x \in Nat : x = d[i + 1]
    BY <1>5, <2>1
  <2>6. /\ y[i + 1] = y[i] + (8 + 24 * x) /\ v[i + 1] = v[i] + x
        /\ z[i + 1] = Setup!Depth(m, z[i], x)
    BY <1>5, <1>7, <1>9, <2>1, <2>5
  <2>7. y[i + 1] <= y[n] /\ y[n] \in Nat /\ y[i] \in Nat /\ v[i] \in Nat
    BY <1>1, <1>7, <1>8, <2>1
  <2>8. b + (8 + 24 * x) <= m.sz
    <3>1. PICK p \in Nat : p = y[i + 1]
      BY <1>7, <2>1
    <3>2. PICK q \in Nat : q = y[n]
      BY <2>7
    <3>3. a + q <= m.sz
      BY <1>2, <3>2
    <3>4. PICK r \in Nat : r = y[i]
      BY <2>7
    <3>5. p <= q
      BY <2>7, <3>1, <3>2
    <3>6. p = r + (8 + 24 * x) /\ b = a + r
      BY <2>3, <2>6, <3>1, <3>4, Zenon
    <3> QED
      BY <1>1, <3>3, <3>5, <3>6
  <2>9. Sound(z[i], b, c)
    BY <2>2, <2>3, <2>4
  <2>10. Sound(Setup!Depth(m, z[i], x), b + (8 + 24 * x), c + x)
    <3>1. PICK u : u = z[i]
      OBVIOUS
    <3>2. Sound(u, b, c)
      BY <2>9, <3>1
    <3>3. Sound(Setup!Depth(m, u, x), b + (8 + 24 * x), c + x)
      BY <2>8, <3>2, DepthSound
    <3> QED
      BY <3>1, <3>3
  <2>11. b + (8 + 24 * x) = a + y[i + 1] /\ c + x = l + v[i + 1]
    <3>1. PICK r \in Nat : r = y[i]
      BY <2>7
    <3>2. PICK o \in Nat : o = v[i]
      BY <2>7
    <3>3. /\ y[i + 1] = r + (8 + 24 * x) /\ b = a + r
          /\ v[i + 1] = o + x /\ c = l + o
      BY <2>3, <2>4, <2>6, <3>1, <3>2, Zenon
    <3> QED
      BY <3>3
  <2>12. i + 1 \in Nat
    BY <2>1
  <2> QED
    BY <2>6, <2>10, <2>11, <2>12 DEF T
<1>12. n <= n
  BY <1>1
<1> HIDE DEF T
<1>13. n \in T
  BY <1>1, <1>10, <1>11, <1>12, UpTo
<1>14. Sound(z[n], a + y[n], l + v[n])
  BY <1>12, <1>13 DEF T
<1> QED
  BY <1>2, <1>3, <1>4, <1>14, Zenon

(* So are all screens.                                                     *)
LEMMA RootsSound ==
  ASSUME NEW m, Answer(m), m.n \in Nat, m.k \in Nat,
         m.screens \in Seq(Seq(Nat)), m.kind # "RequireFurtherAuthentication",
         NEW w, NEW a \in Nat, Sound(w, a, m.n + m.k),
         a + Setup!ROOTS(m.screens) = m.sz
  PROVE  /\ Sound(Setup!Roots(m, w), m.sz, Setup!SetupMembers(m))
         /\ Setup!SetupMembers(m) \in Nat
<1> DEFINE n == Len(m.screens)
           s == [i \in 1 .. n |-> Setup!SCREEN(m.screens[i])]
           t == [i \in 1 .. n |-> Setup!Visuals(m.screens[i])]
<1>1. n \in Nat /\ m.sz \in Nat /\ w \in Walks
  BY DEF Answer, Sound
<1>2. PICK y : Sums(y, 0, s, n) /\ Setup!ROOTS(m.screens) = y[n]
  BY RootsSummed
<1>3. PICK v : Sums(v, m.n + m.k, t, n) /\ Setup!SetupMembers(m) = v[n]
  BY MembersSummed
<1>4. PICK z : AlongScreens(z, m, w) /\ Setup!Roots(m, w) = z[n]
  BY <1>1, RootsWalked
<1>5. \A i \in 1 .. n : /\ m.screens[i] \in Seq(Nat)
                        /\ s[i] = Setup!SCREEN(m.screens[i])
                        /\ t[i] = Setup!Visuals(m.screens[i])
  OBVIOUS
<1>6. n = Len(m.screens)
  OBVIOUS
<1> HIDE DEF n, s, t
<1>7. /\ y[0] = 0 /\ v[0] = m.n + m.k
      /\ \A i \in 0 .. n : y[i] \in Nat /\ v[i] \in Nat
      /\ \A i \in 1 .. n : y[i] = y[i - 1] + s[i] /\ v[i] = v[i - 1] + t[i]
  BY <1>2, <1>3 DEF Sums
<1>8. \A i \in 0 .. n : y[i] <= y[n]
  BY <1>1, <1>2, SumsGrow
<1>9. /\ z[0] = w
      /\ \A i \in 1 .. n : z[i] = Setup!Screen(m, z[i - 1], m.screens[i])
  BY <1>4, <1>6, Zenon DEF AlongScreens
<1> DEFINE T == {i \in Nat : i <= n => Sound(z[i], a + y[i], v[i])}
<1>10. 0 \in T
  <2>1. a + y[0] = a
    BY <1>7
  <2> QED
    BY <1>7, <1>9, <2>1
<1>11. \A i \in Nat : i < n /\ i \in T => i + 1 \in T
  <2> SUFFICES ASSUME NEW i \in Nat, i < n, i \in T PROVE i + 1 \in T
    OBVIOUS
  <2>1. i + 1 \in 1 .. n /\ i + 1 \in 0 .. n /\ i \in 0 .. n /\ (i + 1) - 1 = i
    BY <1>1
  <2>2. Sound(z[i], a + y[i], v[i])
    BY <1>1, <2>1
  <2> HIDE DEF T
  <2>3. PICK b \in Nat : b = a + y[i]
    <3>1. y[i] \in Nat
      BY <1>7, <2>1, Zenon
    <3> QED
      BY <3>1
  <2>4. PICK c \in Nat : c = v[i]
    BY <1>7, <2>1
  <2>5. PICK x \in Seq(Nat) : x = m.screens[i + 1]
    BY <1>5, <2>1
  <2>6. /\ y[i + 1] = y[i] + Setup!SCREEN(x) /\ v[i + 1] = v[i] + Setup!Visuals(x)
        /\ z[i + 1] = Setup!Screen(m, z[i], x)
    BY <1>5, <1>7, <1>9, <2>1, <2>5
  <2>7. y[i + 1] <= y[n] /\ y[n] \in Nat /\ y[i] \in Nat /\ Setup!SCREEN(x) \in Nat
    BY <1>1, <1>7, <1>8, <2>1, ScreenSize
  <2>8. b + Setup!SCREEN(x) <= m.sz
    <3>1. PICK p \in Nat : p = y[i + 1]
      BY <1>7, <2>1
    <3>2. PICK q \in Nat : q = y[n]
      BY <2>7
    <3>3. a + q = m.sz
      BY <1>2, <3>2
    <3>4. PICK r \in Nat : r = y[i]
      BY <2>7
    <3>5. p <= q
      BY <2>7, <3>1, <3>2
    <3>6. PICK k \in Nat : k = Setup!SCREEN(x)
      BY <2>7
    <3>7. p = r + k /\ b = a + r
      BY <2>3, <2>6, <3>1, <3>4, <3>6, Zenon
    <3>8. b + k <= m.sz
      BY <1>1, <3>3, <3>5, <3>7
    <3> QED
      BY <3>6, <3>8, Zenon
  <2>9. Sound(z[i], b, c)
    BY <2>2, <2>3, <2>4
  <2>10. Sound(Setup!Screen(m, z[i], x), b + Setup!SCREEN(x), c + Setup!Visuals(x))
    BY <2>8, <2>9, ScreenSound
  <2>11. b + Setup!SCREEN(x) = a + y[i + 1] /\ c + Setup!Visuals(x) = v[i + 1]
    <3>1. PICK r \in Nat : r = y[i]
      BY <2>7
    <3>2. PICK k \in Nat : k = Setup!SCREEN(x)
      BY <2>7
    <3>3. y[i + 1] = r + k /\ b = a + r
      BY <2>3, <2>6, <3>1, <3>2, Zenon
    <3>4. b + k = a + y[i + 1]
      BY <3>3
    <3>5. c + Setup!Visuals(x) = v[i + 1]
      BY <2>4, <2>6, Zenon
    <3> QED
      BY <3>2, <3>4, <3>5, Zenon
  <2>12. i + 1 \in Nat
    BY <2>1
  <2> QED
    BY <2>6, <2>10, <2>11, <2>12 DEF T
<1>12. n <= n /\ n \in 0 .. n
  BY <1>1
<1> HIDE DEF T
<1>13. n \in T
  BY <1>1, <1>10, <1>11, <1>12, UpTo
<1>14. Sound(z[n], a + y[n], v[n]) /\ v[n] \in Nat
  BY <1>7, <1>12, <1>13 DEF T
<1> QED
  BY <1>2, <1>3, <1>4, <1>14, Zenon

-----------------------------------------------------------------------------
(* The messages that open a connection: m is one of them, m0 what it is    *)
(* before it has a size.                                                   *)

Opening(m, m0) ==
  /\ m.class = "setup" /\ m.kind \in Setup!SetupKinds
  /\ m.n \in Nat /\ m.k \in Nat /\ m.screens \in Seq(Seq(Nat))
  /\ m.swap \in BOOLEAN /\ m.stray \in BOOLEAN
  /\ m0.kind = m.kind /\ m0.n = m.n /\ m0.k = m.k /\ m0.screens = m.screens
  /\ m.sz = Setup!SetupSize(m0)
  /\ Setup!SetupFits(m0)

(* The members of such a message are counted by SetupMessages.             *)
LEMMA OpeningMembers ==
  ASSUME NEW m, NEW m0, Opening(m, m0)
  PROVE  MembersOf(m) = Setup!SetupMembers(m)
  BY DEF Opening, MembersOf

(* Of these messages only the answers that do not open the connection      *)
(* mislead the walk.                                                       *)
LEMMA OpeningMisled ==
  ASSUME NEW m, NEW m0, Opening(m, m0)
  PROVE  Misled(m) <=> m.kind \in {"Refusal", "RequireFurtherAuthentication"}
<1>1. m.class = "setup"
  BY DEF Opening
<1>2. \/ m.kind = "Initiation" \/ m.kind = "Refusal"
      \/ m.kind = "RequireFurtherAuthentication" \/ m.kind = "Acceptance"
  BY DEF Opening, Setup!SetupKinds
<1>3. NotOpened(m) <=> m.kind \in {"Refusal", "RequireFurtherAuthentication"}
  BY <1>1, <1>2 DEF NotOpened
<1>4. ~CountCut(m)
  BY <1>1, <1>2 DEF CountCut
<1>5. ~WrongLength(m) /\ ~Unswapped(m) /\ ~NotExpected(m)
  BY <1>1 DEF WrongLength, Unswapped, NotExpected
<1> QED
  BY <1>3, <1>4, <1>5, Zenon DEF Misled

(* The assertion about the length field leads to a walk.                   *)
LEMMA AfterHeaderType ==
  ASSUME NEW m, NEW w \in Walks
  PROVE  Setup!AfterHeader(m, w) \in Walks
<1> DEFINE c == Setup!Units(m.sz - 8) = Setup!Units(w.at - 8)
<1>1. c \in BOOLEAN
  BY Zenon
<1>2. Setup!AfterHeader(m, w) = Asserting(w, c)
  BY SetupSteps, Zenon DEF Setup!AfterHeader
<1> HIDE DEF c
<1> QED
  BY <1>1, <1>2, AssertingType

(* It holds for what was walked to the end.                                *)
LEMMA AfterHeaderSound ==
  ASSUME NEW m, m.sz \in Nat, NEW w, NEW l \in Nat, Sound(w, m.sz, l)
  PROVE  Sound(Setup!AfterHeader(m, w), m.sz, l)
<1> DEFINE c == Setup!Units(m.sz - 8) = Setup!Units(w.at - 8)
<1>1. w.at = m.sz
  BY DEF Sound
<1>2. c \in BOOLEAN /\ c
  BY <1>1, Zenon
<1>3. Setup!AfterHeader(m, w) = Asserting(w, c)
  BY SetupSteps, Zenon DEF Setup!AfterHeader
<1> HIDE DEF c
<1> QED
  BY <1>2, <1>3, AssertingSound

(* The assertion that the connection was opened fails.                     *)
LEMMA NotOpenedRight ==
  ASSUME NEW m, Aligned(m), Misled(m), NEW w \in Walks
  PROVE  Right(m, Setup!Asserting(w, FALSE))
<1>1. FALSE \in BOOLEAN
  OBVIOUS
<1>2. Asserting(w, FALSE) \in Walks /\ ~Asserting(w, FALSE).ok
  BY <1>1, AssertingType, Zenon
<1>3. Astray(m, Asserting(w, FALSE))
  BY <1>2, AstrayStopped
<1> QED
  BY <1>3, AstrayIsRight, SetupSteps

(* The client's first message: two strings, whose lengths have 16 bits     *)
LEMMA InitiationRight ==
  ASSUME NEW m, NEW m0, Opening(m, m0), m.kind = "Initiation"
  PROVE  Right(m, Setup!SetupWalk(m))
<1> DEFINE name == Setup!String8(Setup!Start(12, m), m.n)
           list == Setup!PaddedList(name, m.k, m.k, 1)
           c == list.at = m.sz
<1>1. PICK n \in Nat : n = m.n
  BY DEF Opening
<1>2. PICK k \in Nat : k = m.k
  BY DEF Opening
<1>3. m.sz = (12 + Pad(n)) + Pad(k)
  <2>1. m0.kind = "Initiation" /\ m.sz = Setup!SetupSize(m0) /\ m0.n = n /\ m0.k = k
    BY <1>1, <1>2, Zenon DEF Opening
  <2>2. Setup!SetupSize(m0) = Setup!INITIATION_HEADER + Setup!Pad(n) + Setup!Pad(k)
    BY <2>1 DEF Setup!SetupSize
  <2>3. Setup!INITIATION_HEADER = 12
    BY DEF Setup!INITIATION_HEADER, Setup!CARD8, Setup!CARD16
  <2> QED
    BY <2>1, <2>2, <2>3, SetupSteps
<1>4. Short(k)
  <2>1. m0.kind = "Initiation" /\ m0.k = k /\ Setup!SetupFits(m0)
    BY <1>2, Zenon DEF Opening
  <2> QED
    BY <2>1 DEF Setup!SetupFits, Short
<1>5. PICK p \in Nat : p = Pad(n) /\ p % 4 = 0
  BY PadFacts
<1>6. PICK q \in Nat : q = Pad(k) /\ q % 4 = 0
  BY PadFacts
<1>7. m.sz \in Nat /\ m.sz % 4 = 0 /\ 12 <= m.sz /\ m.sz = (12 + p) + q
  BY <1>3, <1>5, <1>6
<1>8. 12 \in Nat /\ 0 \in Nat /\ 12 + p \in Nat /\ n + k \in Nat /\ 0 + n = n
  OBVIOUS
<1>9. Sound(Start(12, m), 12, 0)
  BY <1>7, <1>8, StartSound
<1>10. Sound(String8(Start(12, m), n), 12 + Pad(n), 0 + n)
  BY <1>8, <1>9, String8Sound
<1>11. Sound(name, 12 + p, n)
  BY <1>1, <1>5, <1>8, <1>10, SetupSteps, Zenon
<1> HIDE DEF name
<1>12. k * 1 = k /\ k <= k /\ k \in Int /\ 1 \in Nat
  OBVIOUS
<1>13. Sound(PaddedList(name, k, k, 1), (12 + p) + Pad(k * 1), n + k)
  BY <1>4, <1>8, <1>11, <1>12, PaddedListSound
<1>14. Sound(list, m.sz, n + k)
  BY <1>2, <1>6, <1>7, <1>12, <1>13, SetupSteps, Zenon
<1> HIDE DEF list
<1>15. c \in BOOLEAN /\ c
  BY <1>14, Zenon DEF Sound
<1>16. Setup!SetupWalk(m) = Asserting(list, c)
  BY SetupSteps, Zenon DEF Setup!SetupWalk, Setup!Initiation, list, name
<1> HIDE DEF c
<1>17. Sound(Asserting(list, c), m.sz, n + k)
  <2>1. PICK l \in Nat : l = n + k
    OBVIOUS
  <2>2. PICK a \in Nat : a = m.sz
    BY <1>7
  <2>3. PICK w : w = list
    OBVIOUS
  <2>4. Sound(w, a, l)
    BY <1>14, <2>1, <2>2, <2>3, Zenon
  <2>5. Sound(Asserting(w, c), a, l)
    BY <1>15, <2>4, AssertingSound
  <2> QED
    BY <2>1, <2>2, <2>3, <2>5, Zenon
<1>18. MembersOf(m) = n + k
  <2>1. m.screens = << >>
    <3>1. /\ m0.kind = "Initiation" /\ m0.screens = m.screens
          /\ Setup!SetupFits(m0)
      BY Zenon DEF Opening
    <3>2. m0.screens # << >> => m0.kind = "Acceptance"
      BY <3>1, SMTT(20) DEF Setup!SetupFits
    <3> QED
      BY <3>1, <3>2
  <2>2. m.n \in Nat /\ m.k \in Nat /\ m.screens \in Seq(Seq(Nat))
    BY DEF Opening
  <2>3. PICK z : /\ Sums(z, m.n + m.k,
                         [i \in 1 .. Len(m.screens) |-> Setup!Visuals(m.screens[i])],
                         Len(m.screens))
                 /\ Setup!SetupMembers(m) = z[Len(m.screens)]
    BY <2>2, MembersSummed
  <2>4. Len(m.screens) = 0
    BY <2>1
  <2>5. Setup!SetupMembers(m) = m.n + m.k
    BY <2>3, <2>4 DEF Sums
  <2> QED
    BY <1>1, <1>2, <2>5, OpeningMembers
<1>19. ~Misled(m)
  BY OpeningMisled
<1> QED
  BY <1>7, <1>8, <1>16, <1>17, <1>18, <1>19, SoundIsRight DEF Aligned

(* The answers that do not open the connection                             *)
LEMMA RefusalRight ==
  ASSUME NEW m, NEW m0, Opening(m, m0),
         m.kind \in {"Refusal", "RequireFurtherAuthentication"}
  PROVE  Right(m, Setup!SetupWalk(m))
<1>1. PICK n \in Nat : n = m.n
  BY DEF Opening
<1>2. PICK p \in Nat : p = Pad(n) /\ p % 4 = 0
  BY PadFacts
<1>3. m.sz = 8 + p
  <2>1. m0.kind \in {"Refusal", "RequireFurtherAuthentication"}
        /\ m.sz = Setup!SetupSize(m0) /\ m0.n = n
    BY <1>1, Zenon DEF Opening
  <2>2. Setup!SetupSize(m0) = Setup!RESPONSE_HEADER + Setup!Pad(n)
    BY <2>1 DEF Setup!SetupSize
  <2>3. Setup!RESPONSE_HEADER = 8
    BY DEF Setup!RESPONSE_HEADER, Setup!CARD8, Setup!CARD16
  <2> QED
    BY <1>2, <2>1, <2>2, <2>3, SetupSteps
<1>4. /\ m.sz \in Nat /\ m.sz % 4 = 0 /\ 8 <= m.sz /\ m.sz - 8 = p
      /\ 8 \in Nat /\ 0 \in Nat
  BY <1>2, <1>3
<1>5. Sound(Start(8, m), 8, 0)
  BY <1>4, StartSound
<1>6. ASSUME NEW len \in Nat
      PROVE  Setup!String8(Setup!Start(8, m), len) \in Walks
  <2>1. Sound(String8(Start(8, m), len), 8 + Pad(len), 0 + len)
    BY <1>4, <1>5, String8Sound
  <2> QED
    BY <2>1, SetupSteps DEF Sound
<1>7. Aligned(m) /\ Misled(m)
  BY <1>4, OpeningMisled DEF Aligned
<1>8. CASE m.kind = "Refusal"
  <2>1. Setup!Refusal(m) \in Walks
    BY <1>1, <1>6, AfterHeaderType DEF Setup!Refusal
  <2>2. Setup!SetupWalk(m) = Setup!Asserting(Setup!Refusal(m), FALSE)
    BY <1>8 DEF Setup!SetupWalk, Setup!InitResponse
  <2> QED
    BY <1>7, <2>1, <2>2, NotOpenedRight
<1>9. CASE m.kind = "RequireFurtherAuthentication"
  <2>1. Setup!Size(Setup!Units(m.sz - 8)) \in Nat
    <3>1. Units(p) \in Nat
      BY <1>2, UnitsOfAligned
    <3>2. Units(p) * 4 \in Nat
      BY <3>1
    <3> QED
      BY <1>4, <3>2, SetupSteps
  <2>2. Setup!RequireFurtherAuthentication(m) \in Walks
    BY <1>6, <2>1, AfterHeaderType DEF Setup!RequireFurtherAuthentication
  <2>3. Setup!SetupWalk(m)
          = Setup!Asserting(Setup!RequireFurtherAuthentication(m), FALSE)
    BY <1>9 DEF Setup!SetupWalk, Setup!InitResponse
  <2> QED
    BY <1>7, <2>2, <2>3, NotOpenedRight
<1> QED
  BY <1>8, <1>9

(* The answer that does: vendor, formats and screens                       *)
LEMMA AcceptanceRight ==
  ASSUME NEW m, NEW m0, Opening(m, m0), m.kind = "Acceptance"
  PROVE  Right(m, Setup!SetupWalk(m))
<1> DEFINE vendor == Setup!String8(Setup!Start(40, m), m.n)
           formats == Setup!List(vendor, m.sz - vendor.at, m.k, 8)
<1>1. PICK n \in Nat : n = m.n
  BY DEF Opening
<1>2. PICK k \in Nat : k = m.k
  BY DEF Opening
<1>3. PICK p \in Nat : p = Pad(n) /\ p % 4 = 0
  BY PadFacts
<1>4. PICK r \in Nat : r = Setup!ROOTS(m.screens) /\ r % 4 = 0
  BY RootsSize DEF Opening
<1>5. m.sz = 40 + p + 8 * k + r
  <2>1. /\ m0.kind = "Acceptance" /\ m.sz = Setup!SetupSize(m0)
        /\ m0.n = n /\ m0.k = k /\ m0.screens = m.screens
    BY <1>1, <1>2, Zenon DEF Opening
  <2>2. Setup!SetupSize(m0) = Setup!RESPONSE_HEADER + Setup!ACCEPTANCE
          + Setup!Pad(n) + Setup!FORMAT * k + Setup!ROOTS(m.screens)
    BY <2>1 DEF Setup!SetupSize
  <2>3. Setup!RESPONSE_HEADER = 8 /\ Setup!ACCEPTANCE = 32 /\ Setup!FORMAT = 8
    BY DEF Setup!RESPONSE_HEADER, Setup!ACCEPTANCE, Setup!FORMAT, Setup!CARD8,
       Setup!CARD16, Setup!CARD32, Setup!KEYCODE
  <2>4. Setup!Pad(n) = p
    BY <1>3, SetupSteps
  <2> QED
    BY <1>4, <2>1, <2>2, <2>3, <2>4
<1>6. /\ m.sz \in Nat /\ m.sz % 4 = 0 /\ 40 <= m.sz
      /\ m.sz = ((40 + p) + k * 8) + r
  BY <1>3, <1>4, <1>5
<1>7. Answer(m)
  <2>1. m.sz - 8 \in Nat /\ (m.sz - 8) % 4 = 0
    BY <1>6
  <2>2. 4 * Units(m.sz - 8) = m.sz - 8 /\ Units(m.sz - 8) \in Nat
    BY <2>1, UnitsOfAligned
  <2>3. Units(m.sz - 8) <= 65535
    <3>1. m0.kind = "Acceptance" /\ Setup!SetupSize(m0) = m.sz /\ Setup!SetupFits(m0)
      BY Zenon DEF Opening
    <3>2. Setup!RESPONSE_HEADER = 8
      BY DEF Setup!RESPONSE_HEADER, Setup!CARD8, Setup!CARD16
    <3>3. Setup!Units(m.sz - 8) <= 65535
      BY <3>1, <3>2 DEF Setup!SetupFits
    <3> QED
      BY <3>3, SetupSteps
  <2> QED
    BY <1>6, <2>2, <2>3 DEF Answer
<1>8. Short(k)
  <2>1. m0.kind = "Acceptance" /\ m0.k = k /\ Setup!SetupFits(m0)
    BY <1>2, Zenon DEF Opening
  <2> QED
    BY <2>1 DEF Setup!SetupFits, Short
<1>9. 40 \in Nat /\ 0 \in Nat /\ 40 + p \in Nat /\ n + k \in Nat /\ 0 + n = n
      /\ 8 \in Nat
  OBVIOUS
<1>10. Sound(Start(40, m), 40, 0)
  BY <1>6, <1>9, StartSound
<1>11. Sound(String8(Start(40, m), n), 40 + Pad(n), 0 + n)
  BY <1>9, <1>10, String8Sound
<1>12. Sound(vendor, 40 + p, n)
  BY <1>1, <1>3, <1>9, <1>11, SetupSteps, Zenon
<1> HIDE DEF vendor
<1>13. PICK x \in Int : x = m.sz - vendor.at /\ k * 8 <= x
  <2>1. vendor.at = 40 + p
    BY <1>12 DEF Sound
  <2> QED
    BY <1>6, <2>1
<1>14. Sound(List(vendor, x, k, 8), (40 + p) + k * 8, n + k)
  BY <1>8, <1>9, <1>12, <1>13, ListSound
<1>15. PICK a \in Nat : a = (40 + p) + k * 8 /\ a + r = m.sz
  BY <1>6
<1>16. Sound(formats, a, m.n + m.k)
  BY <1>1, <1>2, <1>13, <1>14, <1>15, SetupSteps, Zenon
<1> HIDE DEF formats
<1>17. /\ Sound(Setup!Roots(m, formats), m.sz, Setup!SetupMembers(m))
       /\ Setup!SetupMembers(m) \in Nat
  <2>1. m.n \in Nat /\ m.k \in Nat /\ m.screens \in Seq(Seq(Nat))
    BY DEF Opening
  <2>2. a + Setup!ROOTS(m.screens) = m.sz
    BY <1>4, <1>15
  <2>3. m.kind # "RequireFurtherAuthentication"
    OBVIOUS
  <2> QED
    BY <1>7, <1>16, <2>1, <2>2, <2>3, RootsSound
<1>18. Setup!SetupWalk(m) = Setup!AfterHeader(m, Setup!Roots(m, formats))
  BY DEF Setup!SetupWalk, Setup!InitResponse, Setup!Acceptance, formats,
     vendor
<1>19. Sound(Setup!SetupWalk(m), m.sz, Setup!SetupMembers(m))
  BY <1>6, <1>17, <1>18, AfterHeaderSound
<1>20. ~Misled(m) /\ MembersOf(m) = Setup!SetupMembers(m)
  BY OpeningMisled, OpeningMembers
<1> QED
  BY <1>6, <1>17, <1>19, <1>20, SoundIsRight DEF Aligned

(* Of the messages that open a connection, an Acceptance is walked along   *)
(* all its screens, depths and visuals to its end, and the answers that do *)
(* not open the connection fail the assertion that they do.                *)
LEMMA SetupLed ==
  ASSUME NEW m, NEW m0, Opening(m, m0)
  PROVE  Right(m, Setup!SetupWalk(m))
<1>1. \/ m.kind = "Initiation" \/ m.kind = "Acceptance"
      \/ m.kind \in {"Refusal", "RequireFurtherAuthentication"}
  BY DEF Opening, Setup!SetupKinds
<1> QED
  BY <1>1, InitiationRight, AcceptanceRight, RefusalRight

(* The same for the messages that open a connection: an Acceptance is      *)
(* parsed along all its screens, depths and visuals, but not if its client *)
(* has the other byte order and the format refuses one of their ids.       *)
THEOREM SetupRight ==
  ASSUME NEW m, NEW m0, Opening(m, m0)
  PROVE  Judged(m, WalkOf(m))
<1>1. WalkOf(m) = Step!Formatted(m, Setup!SetupWalk(m))
  BY DEF Opening, WalkOf, ParseWalk
<1>2. m.swap \in BOOLEAN /\ m.stray \in BOOLEAN
  BY Zenon DEF Opening
<1> QED
  BY <1>1, <1>2, SetupLed, RightIsJudged

-----------------------------------------------------------------------------
(* Events and errors                                                       *)

(* Every event has 32 bytes.                                               *)
LEMMA EventSizes ==
  ASSUME NEW kind \in DOMAIN EvEnc!Events
  PROVE  /\ EvEnc!Events[kind] = 32
         /\ kind \notin {"ChangeProperty", "GetProperty", "UnknownEvent",
                       "UnknownError"}
<1>1. /\ EvEnc!KeyPress = 32 /\ EvEnc!KeyRelease = 32
      /\ EvEnc!ButtonPress = 32 /\ EvEnc!ButtonRelease = 32
      /\ EvEnc!MotionNotify = 32 /\ EvEnc!EnterNotify = 32
      /\ EvEnc!LeaveNotify = 32 /\ EvEnc!FocusIn = 32
      /\ EvEnc!FocusOut = 32 /\ EvEnc!KeymapNotify = 32
      /\ EvEnc!Expose = 32 /\ EvEnc!GraphicsExposure = 32
      /\ EvEnc!NoExposure = 32 /\ EvEnc!VisibilityNotify = 32
      /\ EvEnc!CreateNotify = 32 /\ EvEnc!DestroyNotify = 32
      /\ EvEnc!UnmapNotify = 32 /\ EvEnc!MapNotify = 32
      /\ EvEnc!MapRequest = 32 /\ EvEnc!ReparentNotify = 32
      /\ EvEnc!ConfigureNotify = 32 /\ EvEnc!ConfigureRequest = 32
      /\ EvEnc!GravityNotify = 32 /\ EvEnc!ResizeRequest = 32
      /\ EvEnc!CirculateNotify = 32 /\ EvEnc!CirculateRequest = 32
      /\ EvEnc!PropertyNotify = 32 /\ EvEnc!SelectionClear = 32
      /\ EvEnc!SelectionRequest = 32 /\ EvEnc!SelectionNotify = 32
      /\ EvEnc!ColormapNotify = 32 /\ EvEnc!ClientMessage = 32
      /\ EvEnc!MappingNotify = 32
  BY SMTT(30) DEF EvEnc!KeyPress, EvEnc!KeyRelease, EvEnc!ButtonPress,
     EvEnc!ButtonRelease, EvEnc!MotionNotify, EvEnc!EnterNotify,
     EvEnc!LeaveNotify, EvEnc!FocusIn, EvEnc!FocusOut, EvEnc!KeymapNotify,
     EvEnc!Expose, EvEnc!GraphicsExposure, EvEnc!NoExposure,
     EvEnc!VisibilityNotify, EvEnc!CreateNotify, EvEnc!DestroyNotify,
     EvEnc!UnmapNotify, EvEnc!MapNotify, EvEnc!MapRequest,
     EvEnc!ReparentNotify, EvEnc!ConfigureNotify, EvEnc!ConfigureRequest,
     EvEnc!GravityNotify, EvEnc!ResizeRequest, EvEnc!CirculateNotify,
     EvEnc!CirculateRequest, EvEnc!PropertyNotify, EvEnc!SelectionClear,
     EvEnc!SelectionRequest, EvEnc!SelectionNotify, EvEnc!ColormapNotify,
     EvEnc!ClientMessage, EvEnc!MappingNotify, EvEnc!EVENT_HEADER,
     EvEnc!InputEvent, EvEnc!BoundaryEvent, EvEnc!FocusEvent, EvEnc!CARD8,
     EvEnc!CARD16, EvEnc!CARD32, EvEnc!INT16, EvEnc!WINDOW, EvEnc!DRAWABLE,
     EvEnc!COLORMAP, EvEnc!ATOM, EvEnc!TIMESTAMP, EvEnc!BOOL,
     EvEnc!KEYCODE, EvEnc!SETofKEYBUTMASK
<1>2. EvEnc!Events =
       [KeyPress |-> 32, KeyRelease |-> 32, ButtonPress |-> 32,
        ButtonRelease |-> 32, MotionNotify |-> 32, EnterNotify |-> 32,
        LeaveNotify |-> 32, FocusIn |-> 32, FocusOut |-> 32,
        KeymapNotify |-> 32, Expose |-> 32, GraphicsExposure |-> 32,
        NoExposure |-> 32, VisibilityNotify |-> 32, CreateNotify |-> 32,
        DestroyNotify |-> 32, UnmapNotify |-> 32, MapNotify |-> 32,
        MapRequest |-> 32, ReparentNotify |-> 32, ConfigureNotify |-> 32,
        ConfigureRequest |-> 32, GravityNotify |-> 32,
        ResizeRequest |-> 32, CirculateNotify |-> 32,
        CirculateRequest |-> 32, PropertyNotify |-> 32,
        SelectionClear |-> 32, SelectionRequest |-> 32,
        SelectionNotify |-> 32, ColormapNotify |-> 32,
        ClientMessage |-> 32, MappingNotify |-> 32]
  BY <1>1, Zenon DEF EvEnc!Events
<1>3. DOMAIN EvEnc!Events =
       {"KeyPress", "KeyRelease", "ButtonPress", "ButtonRelease",
        "MotionNotify", "EnterNotify", "LeaveNotify", "FocusIn",
        "FocusOut", "KeymapNotify", "Expose", "GraphicsExposure",
        "NoExposure", "VisibilityNotify", "CreateNotify", "DestroyNotify",
        "UnmapNotify", "MapNotify", "MapRequest", "ReparentNotify",
        "ConfigureNotify", "ConfigureRequest", "GravityNotify",
        "ResizeRequest", "CirculateNotify", "CirculateRequest",
        "PropertyNotify", "SelectionClear", "SelectionRequest",
        "SelectionNotify", "ColormapNotify", "ClientMessage",
        "MappingNotify"}
  BY <1>2, SMTT(30)
<1>4. EvEnc!Events[kind] = 32
  BY <1>2, <1>3, SMTT(30)
<1>5. kind \notin {"ChangeProperty", "GetProperty", "UnknownEvent",
                       "UnknownError"}
  BY <1>3, SMTT(30)
<1> QED
  BY <1>4, <1>5

(* So has every error.                                                     *)
LEMMA ErrorSizes ==
  ASSUME NEW kind \in DOMAIN EvEnc!Errors
  PROVE  /\ EvEnc!Errors[kind] = 32
         /\ kind \notin {"ChangeProperty", "GetProperty", "UnknownEvent",
                       "UnknownError"}
<1>1. /\ EvEnc!RequestError = 32 /\ EvEnc!ValueError = 32
      /\ EvEnc!WindowError = 32 /\ EvEnc!PixmapError = 32
      /\ EvEnc!AtomError = 32 /\ EvEnc!CursorError = 32
      /\ EvEnc!FontError = 32 /\ EvEnc!MatchError = 32
      /\ EvEnc!DrawableError = 32 /\ EvEnc!AccessError = 32
      /\ EvEnc!AllocError = 32 /\ EvEnc!ColormapError = 32
      /\ EvEnc!GContextError = 32 /\ EvEnc!IDChoiceError = 32
      /\ EvEnc!NameError = 32 /\ EvEnc!LengthError = 32
      /\ EvEnc!ImplementationError = 32
  BY SMTT(30) DEF EvEnc!RequestError, EvEnc!ValueError, EvEnc!WindowError,
     EvEnc!PixmapError, EvEnc!AtomError, EvEnc!CursorError,
     EvEnc!FontError, EvEnc!MatchError, EvEnc!DrawableError,
     EvEnc!AccessError, EvEnc!AllocError, EvEnc!ColormapError,
     EvEnc!GContextError, EvEnc!IDChoiceError, EvEnc!NameError,
     EvEnc!LengthError, EvEnc!ImplementationError, EvEnc!EVENT_HEADER,
     EvEnc!SimpleError, EvEnc!ResourceIdError, EvEnc!CARD8, EvEnc!CARD16,
     EvEnc!CARD32, EvEnc!INT16, EvEnc!WINDOW, EvEnc!DRAWABLE,
     EvEnc!COLORMAP, EvEnc!ATOM, EvEnc!TIMESTAMP, EvEnc!BOOL,
     EvEnc!KEYCODE, EvEnc!SETofKEYBUTMASK
<1>2. EvEnc!Errors =
       [RequestError |-> 32, ValueError |-> 32, WindowError |-> 32,
        PixmapError |-> 32, AtomError |-> 32, CursorError |-> 32,
        FontError |-> 32, MatchError |-> 32, DrawableError |-> 32,
        AccessError |-> 32, AllocError |-> 32, ColormapError |-> 32,
        GContextError |-> 32, IDChoiceError |-> 32, NameError |-> 32,
        LengthError |-> 32, ImplementationError |-> 32]
  BY <1>1, Zenon DEF EvEnc!Errors
<1>3. DOMAIN EvEnc!Errors =
       {"RequestError", "ValueError", "WindowError", "PixmapError",
        "AtomError", "CursorError", "FontError", "MatchError",
        "DrawableError", "AccessError", "AllocError", "ColormapError",
        "GContextError", "IDChoiceError", "NameError", "LengthError",
        "ImplementationError"}
  BY <1>2, SMTT(30)
<1>4. EvEnc!Errors[kind] = 32
  BY <1>2, <1>3, SMTT(30)
<1>5. kind \notin {"ChangeProperty", "GetProperty", "UnknownEvent",
                       "UnknownError"}
  BY <1>3, SMTT(30)
<1> QED
  BY <1>4, <1>5

(* What walks through 32 bytes at once is right for either.                *)
LEMMA FixedMessage ==
  ASSUME NEW m, m.class \in {"event", "error"}, m.sz = 32,
         m.kind \notin {"ChangeProperty", "GetProperty", "UnknownEvent",
                        "UnknownError"}
  PROVE  Right(m, Unparsed(Start(0, m), 32))
<1> DEFINE w == Unparsed(Start(0, m), 32)
<1>1. /\ m.class # "setup" /\ m.class # "request" /\ m.class # "reply"
  OBVIOUS
<1>2. Sound(w, 32, 0)
  <2>1. m.sz \in Nat /\ 0 \in Nat /\ 0 <= m.sz /\ 32 \in Nat /\ 0 + 32 = 32
    OBVIOUS
  <2>2. Sound(Start(0, m), 0, 0)
    BY <2>1, StartSound
  <2>3. Sound(Unparsed(Start(0, m), 32), 0 + 32, 0)
    BY <2>1, <2>2, UnparsedSound
  <2> QED
    BY <2>1, <2>3, Zenon
<1> HIDE DEF w
<1>3. ~Misled(m)
  <2>1. ~NotOpened(m)
    BY <1>1, Zenon DEF NotOpened
  <2>2. ~CountCut(m)
    BY <1>1 DEF CountCut
  <2>3. ~WrongLength(m) /\ ~Unswapped(m) /\ ~NotExpected(m)
    BY <1>1, Zenon DEF WrongLength, Unswapped, NotExpected
  <2> QED
    BY <2>1, <2>2, <2>3, Zenon DEF Misled
<1>4. MembersOf(m) = 0
  BY <1>1 DEF MembersOf
<1>5. Aligned(m) /\ 0 \in Nat
  BY DEF Aligned
<1> QED
  BY <1>2, <1>3, <1>4, <1>5, SoundIsRight DEF w

(* A code that nobody registered stops the walk.                           *)
LEMMA UnknownMessage ==
  ASSUME NEW m, m.sz = 32, NotExpected(m)
  PROVE  Right(m, Asserting(Start(0, m), FALSE))
<1>1. Start(0, m) \in Walks
  <2>1. m.sz \in Nat /\ 0 \in Nat /\ 0 <= m.sz
    OBVIOUS
  <2> QED
    BY <2>1, StartSound DEF Sound
<1>2. /\ Asserting(Start(0, m), FALSE) \in Walks
      /\ ~Asserting(Start(0, m), FALSE).ok
  BY <1>1, AssertingType, Zenon
<1>3. Aligned(m) /\ Misled(m)
  BY DEF Aligned, Misled
<1> QED
  BY <1>2, <1>3, AstrayStopped, AstrayIsRight

(* The steps through events and errors are those of MessageWalk.           *)
LEMMA EventSteps ==
  /\ \A w, c : EvEnc!Asserting(w, c) = Asserting(w, c)
  /\ \A w, len : EvEnc!Unparsed(w, len) = Unparsed(w, len)
  /\ \A m, size : EvEnc!Start(size, m) = Start(size, m)
  BY Zenon DEF EvEnc!Asserting, Asserting, EvEnc!Unparsed, Unparsed,
     EvEnc!Further, Further, EvEnc!Start, Start

(* Every event that may arrive is judged.                                  *)
LEMMA EventsRight ==
  ASSUME byteswap \in BOOLEAN,
         NEW m \in EventMessage("event", DOMAIN EvEnc!Events \cup {"UnknownEvent"})
  PROVE  Judged(m, WalkOf(m))
<1>1. /\ m.class = "event" /\ m.sz = 32
      /\ m.swap \in BOOLEAN /\ m.stray \in BOOLEAN
      /\ m.kind \in DOMAIN EvEnc!Events \cup {"UnknownEvent"}
  BY Zenon DEF EventMessage
<1> DEFINE w == EvEnc!EventWalk(m, EvEnc!Events)
<1>2. WalkOf(m) = Step!Formatted(m, w)
  BY <1>1 DEF WalkOf, ParseWalk
<1>3. Right(m, w)
  <2>1. CASE m.kind \in DOMAIN EvEnc!Events
    <3>1. EvEnc!Events[m.kind] = 32
          /\ m.kind \notin {"ChangeProperty", "GetProperty", "UnknownEvent",
                            "UnknownError"}
      BY <2>1, EventSizes
    <3>2. w = Unparsed(Start(0, m), 32)
      BY <2>1, <3>1, EventSteps, Zenon DEF EvEnc!EventWalk
    <3> QED
      BY <1>1, <3>1, <3>2, FixedMessage
  <2>2. CASE m.kind \notin DOMAIN EvEnc!Events
    <3>1. w = Asserting(Start(0, m), FALSE)
      BY <2>2, EventSteps, Zenon DEF EvEnc!EventWalk
    <3>2. NotExpected(m)
      BY <1>1, <2>2, Zenon DEF NotExpected
    <3> QED
      BY <1>1, <3>1, <3>2, UnknownMessage
  <2> QED
    BY <2>1, <2>2
<1> QED
  BY <1>1, <1>2, <1>3, RightIsJudged

(* So is every error.                                                      *)
LEMMA ErrorsRight ==
  ASSUME byteswap \in BOOLEAN,
         NEW m \in EventMessage("error", DOMAIN EvEnc!Errors \cup {"UnknownError"})
  PROVE  Judged(m, WalkOf(m))
<1>1. /\ m.class = "error" /\ m.sz = 32
      /\ m.swap \in BOOLEAN /\ m.stray \in BOOLEAN
      /\ m.kind \in DOMAIN EvEnc!Errors \cup {"UnknownError"}
  BY Zenon DEF EventMessage
<1> DEFINE w == EvEnc!EventWalk(m, EvEnc!Errors)
<1>2. WalkOf(m) = Step!Formatted(m, w)
  BY <1>1 DEF WalkOf, ParseWalk
<1>3. Right(m, w)
  <2>1. CASE m.kind \in DOMAIN EvEnc!Errors
    <3>1. EvEnc!Errors[m.kind] = 32
          /\ m.kind \notin {"ChangeProperty", "GetProperty", "UnknownEvent",
                            "UnknownError"}
      BY <2>1, ErrorSizes
    <3>2. w = Unparsed(Start(0, m), 32)
      BY <2>1, <3>1, EventSteps, Zenon DEF EvEnc!EventWalk
    <3> QED
      BY <1>1, <3>1, <3>2, FixedMessage
  <2>2. CASE m.kind \notin DOMAIN EvEnc!Errors
    <3>1. w = Asserting(Start(0, m), FALSE)
      BY <2>2, EventSteps, Zenon DEF EvEnc!EventWalk
    <3>2. NotExpected(m)
      BY <1>1, <2>2, Zenon DEF NotExpected
    <3> QED
      BY <1>1, <3>1, <3>2, UnknownMessage
  <2> QED
    BY <2>1, <2>2
<1> QED
  BY <1>1, <1>2, <1>3, RightIsJudged

-----------------------------------------------------------------------------
(* What arrives is what the lemmas are about.                              *)

RequestFields(e, s) ==
  [class : {"request"}, kind : Requests, n : Counts, k : Widths,
   opt : BOOLEAN, big : BOOLEAN, enabled : {e}, swap : {s}, stray : BOOLEAN,
   sz : {0}]

(* The requests of RequestArrives are those that RequestsRight is about.   *)
LEMMA RequestsSent ==
  ASSUME NEW e \in BOOLEAN, NEW s \in BOOLEAN, NEW m0 \in RequestFields(e, s),
         ReqEnc!CountsFit(m0), ReqEnc!LengthFits(m0)
  PROVE  Sent([m0 EXCEPT !.sz = ReqEnc!RequestSize(m0)], m0)
<1> DEFINE m == [m0 EXCEPT !.sz = ReqEnc!RequestSize(m0)]
<1>1. /\ m.class = "request" /\ m.kind = m0.kind /\ m.n = m0.n /\ m.k = m0.k
      /\ m.opt = m0.opt /\ m.big = m0.big /\ m.enabled = m0.enabled
      /\ m.swap = m0.swap /\ m.stray = m0.stray
      /\ m.sz = ReqEnc!RequestSize(m0)
  BY Zenon DEF RequestFields
<1>2. /\ m0.kind \in Requests /\ m0.n \in Counts /\ m0.k \in Widths
      /\ m0.opt \in BOOLEAN /\ m0.big \in BOOLEAN /\ m0.enabled \in BOOLEAN
      /\ m0.swap \in BOOLEAN /\ m0.stray \in BOOLEAN
  BY Zenon DEF RequestFields
<1> HIDE DEF m
<1>3. m.kind \in ReqEnc!RequestKinds /\ m.n \in Nat /\ m.k \in Nat
  BY <1>1, <1>2, CountsAssumption, KindsAssumption, Zenon
<1>4. m.big => m.enabled
  <2>1. m0.big => m0.enabled
    BY SMT DEF ReqEnc!LengthFits
  <2> QED
    BY <1>1, <2>1, Zenon
<1>5. m.sz = Prefix(m) + ReqEnc!Suffix(m0)
  <2>1. 2 * ReqEnc!CARD8 + ReqEnc!LengthSize(m0) = Prefix(m)
    <3>1. CASE m0.big
      BY <1>1, <3>1 DEF ReqEnc!CARD8, ReqEnc!CARD16, ReqEnc!CARD32,
         ReqEnc!LengthSize, Prefix
    <3>2. CASE ~m0.big
      BY <1>1, <3>2 DEF ReqEnc!CARD8, ReqEnc!CARD16, ReqEnc!CARD32,
         ReqEnc!LengthSize, Prefix
    <3> QED
      BY <3>1, <3>2
  <2> QED
    BY <1>1, <2>1, Zenon DEF ReqEnc!RequestSize
<1>6. ReqEnc!CountsFit(m)
  BY <1>1, SMTT(30) DEF ReqEnc!CountsFit
<1>7. Sent(m, m0)
  BY <1>1, <1>2, <1>3, <1>4, <1>5, <1>6, Zenon DEF Sent
<1> QED
  BY <1>7 DEF m

ReplyFields(e, s) ==
  [class : {"reply"}, kind : Replies, n : Counts, k : Widths \cup Counts,
   opt : BOOLEAN, enabled : {e}, swap : {s}, stray : BOOLEAN, sz : {0}]

(* The replies of ReplyArrives are those that RepliesRight is about.       *)
LEMMA RepliesAnswered ==
  ASSUME NEW e \in BOOLEAN, NEW s \in BOOLEAN, NEW m0 \in ReplyFields(e, s),
         RepEnc!ReplyCountsFit(m0)
  PROVE  Answered([m0 EXCEPT !.sz = RepEnc!ReplySize(m0)], m0)
<1> DEFINE m == [m0 EXCEPT !.sz = RepEnc!ReplySize(m0)]
<1>1. /\ m.class = "reply" /\ m.kind = m0.kind /\ m.n = m0.n /\ m.k = m0.k
      /\ m.opt = m0.opt /\ m.enabled = m0.enabled /\ m.swap = m0.swap
      /\ m.stray = m0.stray
      /\ m.sz = RepEnc!ReplySize(m0)
  BY Zenon DEF ReplyFields
<1>2. /\ m0.kind \in Replies /\ m0.n \in Counts /\ m0.k \in Widths \cup Counts
      /\ m0.opt \in BOOLEAN /\ m0.enabled \in BOOLEAN /\ m0.swap \in BOOLEAN
      /\ m0.stray \in BOOLEAN
  BY Zenon DEF ReplyFields
<1> HIDE DEF m
<1>3. m.kind \in RepEnc!ReplyKinds /\ m.n \in Nat /\ m.k \in Nat
  BY <1>1, <1>2, CountsAssumption, KindsAssumption, Zenon
<1>4. RepEnc!ReplyCountsFit(m)
  BY <1>1, SMTT(30) DEF RepEnc!ReplyCountsFit
<1>5. Answered(m, m0)
  BY <1>1, <1>2, <1>3, <1>4, Zenon DEF Answered
<1> QED
  BY <1>5 DEF m

SetupFields(kinds, s) ==
  [class : {"setup"}, kind : kinds, n : Counts, k : Counts,
   screens : Screens, swap : {s}, stray : BOOLEAN, sz : {0}]

(* The messages that open a connection are those that SetupRight is about. *)
LEMMA SetupOpening ==
  ASSUME NEW kinds \in SUBSET Setup!SetupKinds, NEW s \in BOOLEAN,
         NEW m0 \in SetupFields(kinds, s), Setup!SetupFits(m0)
  PROVE  Opening([m0 EXCEPT !.sz = Setup!SetupSize(m0)], m0)
<1> DEFINE m == [m0 EXCEPT !.sz = Setup!SetupSize(m0)]
<1>1. /\ m.class = "setup" /\ m.kind = m0.kind /\ m.n = m0.n /\ m.k = m0.k
      /\ m.screens = m0.screens /\ m.sz = Setup!SetupSize(m0)
      /\ m.swap = m0.swap /\ m.stray = m0.stray
  BY Zenon DEF SetupFields
<1>2. /\ m0.kind \in kinds /\ m0.n \in Counts /\ m0.k \in Counts
      /\ m0.screens \in Screens /\ m0.swap \in BOOLEAN /\ m0.stray \in BOOLEAN
  BY Zenon DEF SetupFields
<1> HIDE DEF m
<1>3. /\ m.kind \in Setup!SetupKinds /\ m.n \in Nat /\ m.k \in Nat
      /\ m.screens \in Seq(Seq(Nat))
  BY <1>1, <1>2, CountsAssumption, KindsAssumption, Zenon
<1>4. Opening(m, m0)
  BY <1>1, <1>2, <1>3, Zenon DEF Opening
<1> QED
  BY <1>4 DEF m

(* Every message that arrives is judged.                                   *)
Arriving ==
  \/ InitiationArrives \/ InitResponseArrives
  \/ RequestArrives \/ ReplyArrives \/ EventArrives \/ ErrorArrives

(* Every message that opens a connection, or does not, is judged.          *)
LEMMA SetupMessageRight ==
  ASSUME NEW kinds \in SUBSET Setup!SetupKinds, NEW s \in BOOLEAN,
         NEW m \in SetupMessage(kinds, s)
  PROVE  Judged(m, WalkOf(m))
<1>1. PICK m0 \in SetupFields(kinds, s) :
        m = [m0 EXCEPT !.sz = Setup!SetupSize(m0)] /\ Setup!SetupFits(m0)
  BY Zenon DEF SetupMessage, SetupFields
<1>2. Opening(m, m0)
  BY <1>1, SetupOpening
<1> QED
  BY <1>2, SetupRight

(* Such a message is of a kind that comes then.                            *)
LEMMA SetupMessageKind ==
  ASSUME NEW kinds, NEW s, NEW m \in SetupMessage(kinds, s)
  PROVE  m.class = "setup" /\ m.kind \in kinds
<1>1. PICK m0 \in SetupFields(kinds, s) :
        m = [m0 EXCEPT !.sz = Setup!SetupSize(m0)]
  BY Zenon DEF SetupMessage, SetupFields
<1> QED
  BY <1>1, Zenon DEF SetupFields

(* The messages that open a connection come in turn, and the others when   *)
(* it is open.                                                             *)
InTurn ==
  /\ status = "OPEN" => initiated
  /\ phase # "idle" /\ status = "UNESTABLISHED" => msg.class = "setup"
  /\ phase = "complete" /\ msg.kind = "Acceptance" => initiated
  /\ phase = "parsed" /\ status = "UNESTABLISHED" => msg.kind = "Initiation"

(* What arrives keeps to this.                                             *)
LEMMA ArrivingInTurn ==
  ASSUME status = "OPEN" => initiated, Arriving
  PROVE  InTurn'
<1>1. CASE InitiationArrives
  <2>1. PICK order \in BOOLEAN :
          \E m \in SetupMessage({"Initiation"}, order) :
            byteswap' = order /\ Completes(m)
    BY <1>1, Zenon DEF InitiationArrives
  <2>2. PICK m \in SetupMessage({"Initiation"}, order) :
          byteswap' = order /\ Completes(m)
    BY <2>1, Zenon
  <2>3. m.class = "setup" /\ m.kind \in {"Initiation"}
    BY SetupMessageKind
  <2>4. m.kind # "Acceptance"
    BY <2>3
  <2> QED
    BY <1>1, <2>2, <2>3, <2>4, Zenon DEF InitiationArrives, Completes, InTurn
<1>2. CASE InitResponseArrives
  <2>1. PICK m \in SetupMessage(Setup!SetupKinds \ {"Initiation"}, byteswap) :
          Completes(m)
    BY <1>2, Zenon DEF InitResponseArrives
  <2>2. m.class = "setup"
    BY SetupMessageKind
  <2> QED
    BY <1>2, <2>1, <2>2, Zenon DEF InitResponseArrives, Completes, InTurn
<1>3. CASE RequestArrives \/ ReplyArrives \/ EventArrives \/ ErrorArrives
  <2>1. status = "OPEN" /\ \E m : Completes(m)
    BY <1>3, Zenon DEF RequestArrives, ReplyArrives, EventArrives, ErrorArrives
  <2>2. status' = "OPEN" /\ initiated' /\ phase' = "complete"
    <3>1. PICK m : Completes(m)
      BY <2>1, Zenon
    <3>2. status' = status /\ initiated' = initiated /\ phase' = "complete"
      BY <3>1 DEF Completes
    <3> QED
      BY <2>1, <3>2
  <2>3. status' # "UNESTABLISHED" /\ phase' # "parsed"
    BY <2>2
  <2> QED
    BY <2>2, <2>3, Zenon DEF InTurn
<1> QED
  BY <1>1, <1>2, <1>3 DEF Arriving

(* Whatever a peer sends is judged, and waits to be parsed.                *)
LEMMA ArrivingRight ==
  ASSUME enabled \in BOOLEAN, byteswap \in BOOLEAN, Arriving
  PROVE  /\ Judged(msg', WalkOf(msg'))
         /\ phase = "idle" /\ phase' = "complete"
         /\ byteswap' \in BOOLEAN
         /\ UNCHANGED <<status, enabled, initiated, walk>>
<1>1. CASE InitiationArrives
  <2>1. {"Initiation"} \in SUBSET Setup!SetupKinds
    BY DEF Setup!SetupKinds
  <2>2. PICK order \in BOOLEAN :
          \E m \in SetupMessage({"Initiation"}, order) :
            byteswap' = order /\ Completes(m)
    BY <1>1, Zenon DEF InitiationArrives
  <2>3. PICK m \in SetupMessage({"Initiation"}, order) :
          byteswap' = order /\ Completes(m)
    BY <2>2, Zenon
  <2>4. Judged(m, WalkOf(m))
    BY <2>1, SetupMessageRight
  <2> QED
    BY <1>1, <2>3, <2>4, Zenon DEF InitiationArrives, Completes
<1>2. CASE InitResponseArrives
  <2>1. Setup!SetupKinds \ {"Initiation"} \in SUBSET Setup!SetupKinds
    OBVIOUS
  <2>2. PICK m \in SetupMessage(Setup!SetupKinds \ {"Initiation"}, byteswap) :
          Completes(m)
    BY <1>2, Zenon DEF InitResponseArrives
  <2>3. Judged(m, WalkOf(m))
    BY <2>1, SetupMessageRight
  <2> QED
    BY <1>2, <2>2, <2>3, Zenon DEF InitResponseArrives, Completes
<1>3. CASE RequestArrives
  <2>1. PICK m \in RequestMessage : Completes(m)
    BY <1>3, Zenon DEF RequestArrives
  <2>2. PICK m0 \in RequestFields(enabled, byteswap) :
          /\ m = [m0 EXCEPT !.sz = ReqEnc!RequestSize(m0)]
          /\ ReqEnc!CountsFit(m0) /\ ReqEnc!LengthFits(m0)
    BY Zenon DEF RequestMessage, RequestFields
  <2>3. Sent(m, m0)
    BY <2>2, RequestsSent
  <2>5. Judged(m, WalkOf(m))
    BY <2>3, RequestsRight
  <2> QED
    BY <1>3, <2>1, <2>5, Zenon DEF RequestArrives, Completes
<1>4. CASE ReplyArrives
  <2>1. PICK m \in ReplyMessage : Completes(m)
    BY <1>4, Zenon DEF ReplyArrives
  <2>2. PICK m0 \in ReplyFields(enabled, byteswap) :
          /\ m = [m0 EXCEPT !.sz = RepEnc!ReplySize(m0)]
          /\ RepEnc!ReplyCountsFit(m0)
    BY Zenon DEF ReplyMessage, ReplyFields
  <2>3. Answered(m, m0)
    BY <2>2, RepliesAnswered
  <2>5. Judged(m, WalkOf(m))
    BY <2>3, RepliesRight
  <2> QED
    BY <1>4, <2>1, <2>5, Zenon DEF ReplyArrives, Completes
<1>5. CASE EventArrives
  <2>1. PICK m \in EventMessage("event", DOMAIN EvEnc!Events \cup {"UnknownEvent"}) :
          Completes(m)
    BY <1>5, Zenon DEF EventArrives
  <2>2. Judged(m, WalkOf(m))
    BY EventsRight
  <2> QED
    BY <1>5, <2>1, <2>2, Zenon DEF EventArrives, Completes
<1>6. CASE ErrorArrives
  <2>1. PICK m \in EventMessage("error", DOMAIN EvEnc!Errors \cup {"UnknownError"}) :
          Completes(m)
    BY <1>6, Zenon DEF ErrorArrives
  <2>2. Judged(m, WalkOf(m))
    BY ErrorsRight
  <2> QED
    BY <1>6, <2>1, <2>2, Zenon DEF ErrorArrives, Completes
<1> QED
  BY <1>1, <1>2, <1>3, <1>4, <1>5, <1>6 DEF Arriving

-----------------------------------------------------------------------------
(* The inductive invariant: what is in the buffer is judged, and the walk  *)
(* is the one of its parse function.                                       *)
IInv ==
  /\ phase \in Phases /\ status \in Statuses
  /\ byteswap \in BOOLEAN /\ enabled \in BOOLEAN /\ initiated \in BOOLEAN
  /\ phase \in {"idle", "complete"} => walk = NoWalk
  /\ phase # "idle" => Judged(msg, WalkOf(msg))
  /\ phase \in {"parsed", "aborted"} =>
       walk = WalkOf(msg) /\ (phase = "parsed" <=> Ends(msg, walk))
  /\ InTurn

(* The invariant holds before anything has arrived.                        *)
LEMMA InitInvariant == Init => IInv
  BY Zenon DEF Init, IInv, InTurn, Phases, Statuses

(* Every step of a peer or of the parser preserves it.                     *)
LEMMA NextInvariant == IInv /\ [Next]_vars => IInv'
<1> SUFFICES ASSUME IInv, [Next]_vars PROVE IInv'
  OBVIOUS
<1>1. CASE Arriving
  <2>1. enabled \in BOOLEAN /\ byteswap \in BOOLEAN
    BY Zenon DEF IInv
  <2>2. /\ Judged(msg', WalkOf(msg'))
        /\ phase = "idle" /\ phase' = "complete"
        /\ byteswap' \in BOOLEAN
        /\ status' = status /\ enabled' = enabled /\ initiated' = initiated
        /\ walk' = walk
    BY <1>1, <2>1, ArrivingRight
  <2>3. InTurn'
    BY <1>1, ArrivingInTurn, Zenon DEF IInv, InTurn
  <2> QED
    BY <2>2, <2>3, Zenon DEF IInv, Phases
<1>2. CASE LogMessage
  <2>1. /\ phase = "complete" /\ walk' = WalkOf(msg) /\ msg' = msg
        /\ byteswap' = byteswap
    BY <1>2, Zenon DEF LogMessage
  <2>2. Judged(msg, WalkOf(msg))
    BY <2>1, Zenon DEF IInv
  <2>3. CASE walk'.ok /\ walk'.at = msg.sz
    <3>1. phase' = "parsed" /\ Effects(msg)
      BY <1>2, <2>3, Zenon DEF LogMessage
    <3>2. initiated' \in BOOLEAN /\ enabled' \in BOOLEAN /\ status' \in Statuses
      BY <3>1, Zenon DEF Effects, IInv, Statuses
    <3>3. Ends(msg', walk')
      BY <2>1, <2>3, Zenon DEF Ends
    <3>4. InTurn'
      <4>1. /\ initiated' = (initiated \/ msg.kind = "Initiation")
            /\ status' = IF msg.kind = "Acceptance" THEN "OPEN" ELSE status
        BY <3>1, Zenon DEF Effects
      <4>2. CASE msg.kind = "Acceptance"
        BY <2>1, <3>1, <4>1, <4>2, Zenon DEF IInv, InTurn
      <4>3. CASE msg.kind # "Acceptance"
        <5>1. status' = status
          BY <4>1, <4>3, Zenon
        <5>2. ~NotOpened(msg)
          BY <2>1, <2>2, <3>3, Zenon DEF Judged, Defect, Misled
        <5>3. status = "UNESTABLISHED" =>
                msg.class = "setup" /\ msg.kind = "Initiation"
          BY <2>1, <4>3, <5>2, Zenon DEF NotOpened, IInv, InTurn
        <5>4. status' = "OPEN" => initiated'
          BY <4>1, <5>1, Zenon DEF IInv, InTurn
        <5> QED
          BY <2>1, <3>1, <5>1, <5>3, <5>4, Zenon DEF InTurn
      <4> QED
        BY <4>2, <4>3
    <3> QED
      BY <2>1, <2>2, <3>1, <3>2, <3>3, <3>4, Zenon DEF IInv, Phases
  <2>4. CASE ~(walk'.ok /\ walk'.at = msg.sz)
    <3>1. /\ phase' = "aborted" /\ status' = status /\ enabled' = enabled
          /\ initiated' = initiated
      BY <1>2, <2>4, Zenon DEF LogMessage
    <3>2. ~Ends(msg', walk')
      BY <2>1, <2>4, Zenon DEF Ends
    <3>3. InTurn'
      BY <2>1, <3>1, Zenon DEF IInv, InTurn
    <3> QED
      BY <2>1, <2>2, <3>1, <3>2, <3>3, Zenon DEF IInv, Phases
  <2> QED
    BY <2>3, <2>4
<1>3. CASE MarkMessageParsed
  BY <1>3, Zenon DEF MarkMessageParsed, IInv, InTurn, Phases
<1>4. CASE UNCHANGED vars
  BY <1>4, Zenon DEF vars, IInv, InTurn
<1> QED
  BY <1>1, <1>2, <1>3, <1>4 DEF Next, Arriving

(* Whatever has been parsed and marked, the message in the buffer is one   *)
(* that its parse function walks through to the end, unless it has one of  *)
(* the defects, and the walk recorded is that function's.                  *)
THEOREM ParsingInvariant == Spec => []IInv
<1>1. Init => IInv
  BY InitInvariant
<1>2. IInv /\ [Next]_vars => IInv'
  BY NextInvariant
<1> QED
  BY <1>1, <1>2, PTL DEF Spec

(* The parser's variables keep their types, only open connections have     *)
(* requests and their answers parsed, and only an Acceptance opens one.    *)
THEOREM ParsingTypes == Spec => []TypeOK
<1>1. IInv => TypeOK
  <2> SUFFICES ASSUME IInv PROVE TypeOK
    OBVIOUS
  <2>1. walk \in Walks
    <3>1. NoWalk \in Walks
      BY DEF NoWalk, Walks
    <3> QED
      BY <3>1, Zenon DEF IInv, Judged, Phases
  <2>2. phase \in {"complete", "parsed"} => msg.sz \in Nat
    BY Zenon DEF IInv, Judged
  <2>3. /\ status = "OPEN" => initiated
        /\ phase \in {"complete", "parsed"} /\ status = "UNESTABLISHED" =>
             msg.class = "setup" /\ (phase = "parsed" => msg.kind = "Initiation")
    BY Zenon DEF IInv, InTurn
  <2> QED
    BY <2>1, <2>2, <2>3, Zenon DEF IInv, TypeOK, Walks
<1> QED
  BY <1>1, ParsingInvariant, PTL

(* The assertions of the parse functions and the one about the size fail   *)
(* for the messages with a defect, a disordered id, atom or mask among     *)
(* them, and for no other, whatever the lengths                            *)
(* of their lists and strings.                                             *)
THEOREM StopsForDefects == Spec => []StopsOnlyForDefects
<1>1. IInv => StopsOnlyForDefects
  <2> SUFFICES ASSUME IInv, phase \in {"parsed", "aborted"}
      PROVE  phase = "aborted" <=> Defect(msg)
    BY Zenon DEF StopsOnlyForDefects
  <2>1. /\ walk = WalkOf(msg) /\ (phase = "parsed" <=> Ends(msg, walk))
        /\ Judged(msg, WalkOf(msg))
    BY Zenon DEF IInv
  <2>2. Ends(msg, walk) <=> ~Defect(msg)
    BY <2>1, Zenon DEF Judged
  <2> QED
    BY <2>1, <2>2, Zenon
<1> QED
  BY <1>1, ParsingInvariant, PTL

(* Every list and string of a parsed message is logged to its last member, *)
(* but for the two kinds of requests that lose some.                       *)
THEOREM LoggedToTheEnd == Spec => []LoggedWhole
<1>1. IInv => LoggedWhole
  <2> SUFFICES ASSUME IInv, phase = "parsed" PROVE LoggedWhole
    BY Zenon DEF LoggedWhole
  <2>1. Ends(msg, walk) /\ walk = WalkOf(msg) /\ Judged(msg, WalkOf(msg))
    BY Zenon DEF IInv
  <2> QED
    BY <2>1, Zenon DEF Judged, LoggedWhole
<1> QED
  BY <1>1, ParsingInvariant, PTL

(* No parse function reads behind the message it parses, but for the byte  *)
(* that an item of a text may take.                                        *)
THEOREM ReadsWithin == Spec => []ReadsWithinMessage
<1>1. IInv => ReadsWithinMessage
  <2> SUFFICES ASSUME IInv, phase = "parsed" PROVE ReadsWithinMessage
    BY Zenon DEF ReadsWithinMessage
  <2>1. Ends(msg, walk) /\ walk = WalkOf(msg) /\ Judged(msg, WalkOf(msg))
    BY Zenon DEF IInv
  <2> QED
    BY <2>1, Zenon DEF Judged, ReadsWithinMessage
<1> QED
  BY <1>1, ParsingInvariant, PTL
=============================================================================
