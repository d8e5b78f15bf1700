-------------------------- MODULE RelayRefinement --------------------------
(***************************************************************************)
(* Each direction of a relayed connection implements Pipe: the proof that  *)
(* every step of the relay is a step of both pipes, or leaves them alone.  *)
(***************************************************************************)
EXTENDS RelayProofs, SequenceTheorems

-----------------------------------------------------------------------------
(* Prefixes.                                                               *)

(* A sequence that agrees with s on its whole length is a prefix of s.     *)
LEMMA PrefixUnique ==
  ASSUME NEW s \in Seq(Cell), NEW t \in Seq(Cell), Len(t) <= Len(s),
         \A i \in 1 .. Len(t) : t[i] = s[i]
  PROVE  t = SubSeq(s, 1, Len(t))
<1> DEFINE u == SubSeq(s, 1, Len(t))
<1>1. /\ u \in Seq(Cell) /\ Len(u) = Len(t)
      /\ \A i \in 1 .. Len(t) : u[i] = s[i]
  OBVIOUS
<1> HIDE DEF u
<1>2. t = u
  BY <1>1
<1> QED BY <1>2 DEF u

(* A prefix of a prefix is a prefix.                                       *)
LEMMA PrefixOfPrefix ==
  ASSUME NEW s \in Seq(Cell), NEW n \in Nat, NEW m \in Nat,
         n <= m, m <= Len(s)
  PROVE  /\ SubSeq(s, 1, n) \in Seq(Cell) /\ Len(SubSeq(s, 1, n)) = n
         /\ SubSeq(SubSeq(s, 1, m), 1, n) = SubSeq(s, 1, n)
<1> DEFINE u == SubSeq(s, 1, m)
           v == SubSeq(s, 1, n)
<1>1. /\ u \in Seq(Cell) /\ Len(u) = m /\ \A i \in 1 .. m : u[i] = s[i]
  OBVIOUS
<1>2. /\ v \in Seq(Cell) /\ Len(v) = n /\ \A i \in 1 .. n : v[i] = s[i]
  OBVIOUS
<1> HIDE DEF u, v
<1>3. v = SubSeq(u, 1, Len(v))
  BY <1>1, <1>2, PrefixUnique
<1> QED BY <1>2, <1>3 DEF u, v

-----------------------------------------------------------------------------
(* The steps of one direction, as Pipe states them.                        *)

TakenFrom(d) == SubSeq(script[d].cells, 1, taken[d])

PipeStep(d) ==
  \/ /\ Len(TakenFrom(d)) <= Len(TakenFrom(d)')
     /\ SubSeq(TakenFrom(d)', 1, Len(TakenFrom(d))) = TakenFrom(d)
     /\ UNCHANGED <<Marked(d), out[d]>>
  \/ /\ Marked(d)' \in (Marked(d) + 1) .. Len(TakenFrom(d))
     /\ UNCHANGED <<TakenFrom(d), out[d]>>
  \/ /\ out'[d] = SubSeq(TakenFrom(d), 1, Marked(d))
     /\ UNCHANGED <<TakenFrom(d), Marked(d)>>
  \/ UNCHANGED <<TakenFrom(d), Marked(d), out[d]>>

(* What the invariant says of the pipe of one direction.                   *)
LEMMA PipeFacts ==
  ASSUME IInv, NEW d \in Dirs
  PROVE  /\ script[d].cells \in Seq(Cell) /\ taken[d] \in Nat
         /\ taken[d] <= Len(script[d].cells)
         /\ out[d] \in Seq(Cell) /\ Len(out[d]) \in Nat
         /\ \A i \in 1 .. Len(out[d]) : out[d][i] = script[d].cells[i]
         /\ buf[d].parsed \in Nat
         /\ Len(out[d]) + buf[d].parsed <= taken[d]
         /\ Len(TakenFrom(d)) = taken[d]
<1>1. script[d].cells \in Seq(Cell) /\ taken[d] \in Nat /\ avail[d] \in Nat
      /\ Len(script[d].cells) \in Nat
      /\ out[d] \in Seq(Cell) /\ Len(out[d]) \in Nat /\ buf[d] \in Buffer
  <2>1. Typed
    BY DEF IInv
  <2>2. script[d].cells \in Seq(Cell) /\ Len(script[d].cells) \in Nat
    BY <2>1, ScriptType
  <2>3. taken[d] \in Nat /\ avail[d] \in Nat /\ out[d] \in Seq(Cell)
        /\ buf[d] \in Buffer
    BY <2>1 DEF Typed
  <2> QED BY <2>2, <2>3
<1>2. DirOK(d)
  BY DEF IInv
<1>3. taken[d] <= Len(script[d].cells)
  BY <1>1, <1>2 DEF DirOK
<1>4. buf[d].parsed \in Nat /\ buf[d].read \in Nat /\ buf[d].written \in Nat
  BY <1>1, BufferFields
<1>5. Len(out[d]) + buf[d].parsed <= taken[d]
  BY <1>1, <1>2, <1>4 DEF DirOK, Counted, Size
<1>6. \A i \in 1 .. Len(out[d]) : out[d][i] = script[d].cells[i]
  BY <1>2 DEF DirOK
<1>7. Len(TakenFrom(d)) = taken[d]
  BY <1>1, <1>3, PrefixOfPrefix DEF TakenFrom
<1> QED BY <1>1, <1>3, <1>4, <1>5, <1>6, <1>7

(* Taking more cells from the sender is Receive, or nothing.               *)
LEMMA ReceiveStep ==
  ASSUME IInv, IInv', NEW d \in Dirs, script' = script,
         taken[d] <= taken'[d], out'[d] = out[d],
         buf'[d].parsed = buf[d].parsed
  PROVE  PipeStep(d)
<1> DEFINE s == script[d].cells
           n == taken[d]
           m == taken'[d]
<1>1. s \in Seq(Cell) /\ n \in Nat /\ n <= m
  BY PipeFacts
<1>2. m \in Nat /\ m <= Len(s)
  <2>1. taken'[d] \in Nat
    BY DEF IInv, Typed
  <2>2. /\ taken'[d] <= avail'[d] /\ avail'[d] <= Len(script'[d].cells)
        /\ avail'[d] \in Nat
    BY DEF IInv, Typed, DirOK
  <2> QED BY <1>1, <2>1, <2>2
<1> HIDE DEF s, n, m
<1>3. /\ Len(SubSeq(s, 1, n)) = n /\ Len(SubSeq(s, 1, m)) = m
      /\ SubSeq(SubSeq(s, 1, m), 1, n) = SubSeq(s, 1, n)
  BY <1>1, <1>2, PrefixOfPrefix
<1>4. TakenFrom(d) = SubSeq(s, 1, n) /\ TakenFrom(d)' = SubSeq(s, 1, m)
  BY DEF TakenFrom, s, n, m
<1>5. Marked(d)' = Marked(d)
  BY DEF Marked
<1>6. /\ Len(TakenFrom(d)) <= Len(TakenFrom(d)')
      /\ SubSeq(TakenFrom(d)', 1, Len(TakenFrom(d))) = TakenFrom(d)
  BY <1>1, <1>3, <1>4
<1> QED BY <1>5, <1>6 DEF PipeStep

(* Marking a message as parsed is Log, or nothing when its size is 0.      *)
LEMMA LogStep ==
  ASSUME IInv, IInv', NEW d \in Dirs, NEW z \in Nat, script' = script,
         taken'[d] = taken[d], out'[d] = out[d],
         buf'[d].parsed = buf[d].parsed + z
  PROVE  PipeStep(d)
<1>1. /\ buf[d].parsed \in Nat /\ Len(out[d]) \in Nat /\ taken[d] \in Nat
      /\ Len(TakenFrom(d)) = taken[d]
  BY PipeFacts
<1>2. Len(out'[d]) + buf'[d].parsed <= taken'[d]
  <2>1. /\ buf'[d] \in Buffer
        /\ taken'[d] = Len(out'[d]) + Size(buf'[d])
        /\ Counted(buf'[d])
    BY DEF IInv, Typed, DirOK
  <2>2. /\ buf'[d].parsed \in Nat /\ buf'[d].read \in Nat
        /\ buf'[d].written \in Nat
    BY <2>1, BufferFields
  <2>3. Len(out'[d]) \in Nat
    BY <1>1
  <2> QED BY <2>1, <2>2, <2>3 DEF Counted, Size
<1>3. TakenFrom(d)' = TakenFrom(d)
  BY DEF TakenFrom
<1>4. Marked(d)' = Marked(d) + z /\ Marked(d) \in Nat
  BY <1>1 DEF Marked
<1>5. Marked(d)' <= Len(TakenFrom(d))
  BY <1>1, <1>2 DEF Marked
<1>6. CASE z = 0
  BY <1>3, <1>4, <1>6 DEF PipeStep
<1>7. CASE z > 0
  BY <1>1, <1>3, <1>4, <1>5, <1>7 DEF PipeStep
<1> QED BY <1>6, <1>7

(* Sending what is marked is Deliver.                                      *)
LEMMA DeliverStep ==
  ASSUME IInv, IInv', NEW d \in Dirs, script' = script,
         taken'[d] = taken[d], Len(out'[d]) = Marked(d),
         buf'[d].parsed = 0
  PROVE  PipeStep(d)
<1> DEFINE s == script[d].cells
           n == taken[d]
           o == out'[d]
<1>1. s \in Seq(Cell) /\ n \in Nat /\ n <= Len(s) /\ Marked(d) \in Nat
      /\ Marked(d) <= n
  BY PipeFacts DEF Marked
<1>2. o \in Seq(Cell) /\ \A i \in 1 .. Len(o) : o[i] = s[i]
  <2>1. o \in Seq(Cell)
    BY DEF IInv, Typed
  <2>2. \A i \in 1 .. Len(out'[d]) : out'[d][i] = script'[d].cells[i]
    BY DEF IInv, DirOK
  <2> QED BY <2>1, <2>2
<1>3. Len(o) = Marked(d)
  OBVIOUS
<1> HIDE DEF s, n, o
<1>4. o = SubSeq(s, 1, Marked(d))
  BY <1>1, <1>2, <1>3, PrefixUnique
<1>5. SubSeq(SubSeq(s, 1, n), 1, Marked(d)) = SubSeq(s, 1, Marked(d))
  BY <1>1, PrefixOfPrefix
<1>6. out'[d] = SubSeq(TakenFrom(d), 1, Marked(d))
  BY <1>4, <1>5 DEF TakenFrom, s, n, o
<1>7. TakenFrom(d)' = TakenFrom(d)
  BY DEF TakenFrom
<1>8. Marked(d)' = Marked(d)
  BY <1>1, <1>3 DEF Marked, o
<1> QED BY <1>6, <1>7, <1>8 DEF PipeStep

-----------------------------------------------------------------------------
(* Every step of the relay is a step of the pipe of either direction.      *)

LEMMA ProxyPipeStep ==
  ASSUME IInv, IInv', NEW d \in Dirs, Proxy
  PROVE  PipeStep(d)
<1>1. /\ taken[d] \in Nat /\ taken[d] <= taken[d]
      /\ side \in Dirs /\ Other(side) \in Dirs
      /\ d = side \/ d = Other(side)
  BY OtherType, SMTT(60) DEF IInv, Typed, Dirs, Other
<1>2. CASE script' = script /\ UNCHANGED <<taken, buf, out>>
  BY <1>1, <1>2, ReceiveStep
<1>3. CASE Poll \/ ServeIdle \/ ParseLeave
  BY <1>2, <1>3 DEF Poll, Die, ServeIdle, CloseConnection, ParseLeave, data,
                    env
<1>4. CASE ServeRead
  <2>1. CASE UNCHANGED <<script, taken, buf, out>>
    BY <1>2, <2>1
  <2>2. CASE ~UNCHANGED <<script, taken, buf, out>>
    <3> DEFINE n == BytesToRead(buf[side])
               k == Min2(n, avail[side] - taken[side])
               r == Received(buf[side], n, script[side].cells, taken[side], k)
    <3>1. /\ buf' = [buf EXCEPT ![side] = r]
          /\ taken' = [taken EXCEPT ![side] = @ + k]
          /\ UNCHANGED <<script, out>>
      BY <1>4, <2>2 DEF ServeRead, Die, CloseConnection, env
    <3>2. k \in Nat
      <4>1. /\ taken[side] \in Nat /\ avail[side] \in Nat
            /\ taken[side] <= avail[side] /\ buf[side] \in Buffer
        BY <1>1 DEF IInv, Typed, DirOK
      <4>2. n \in 0 .. SIZE_MAX
        BY <4>1, SizesRequested
      <4> HIDE DEF n
      <4> QED BY <4>1, <4>2, SizeMaxAssumption DEF Min2
    <3>3. r.parsed = buf[side].parsed
      <4>1. buf[side] \in Buffer
        BY <1>1 DEF IInv, Typed
      <4> HIDE DEF n, k
      <4> QED BY <4>1 DEF Received, Buffer
    <3> HIDE DEF n, k, r
    <3>4. buf \in [Dirs -> Buffer] /\ taken \in [Dirs -> Nat]
      BY DEF IInv, Typed
    <3>5. taken[d] <= taken'[d]
      BY <1>1, <3>1, <3>2, <3>4
    <3>6. buf'[d].parsed = buf[d].parsed
      BY <1>1, <3>1, <3>3, <3>4
    <3> QED BY <3>1, <3>5, <3>6, ReceiveStep
  <2> QED BY <2>1, <2>2
<1>5. CASE ServeWrite
  <2>1. CASE UNCHANGED <<script, taken, buf, out>>
    BY <1>2, <2>1
  <2>2. CASE ~UNCHANGED <<script, taken, buf, out>>
    <3> SUFFICES ASSUME NEW e \in Dirs, e = Other(side), NEW b, b = buf[e]
                 PROVE  PipeStep(d)
      BY <1>1
    <3>1. /\ buf' = [buf EXCEPT ![e] = Written(b)]
          /\ out' = [out EXCEPT ![e] = Continued(@, b.mem, b.written, b.parsed)]
          /\ UNCHANGED <<script, taken>>
          /\ pc = "serve" /\ "POLLOUT" \in revents[side]
      BY <1>5, <2>2 DEF ServeWrite, Die, CloseConnection
    <3>2. buf \in [Dirs -> Buffer] /\ out \in [Dirs -> Seq(Cell)]
      BY DEF IInv, Typed
    <3>3. CASE d # e
      <4>1. buf'[d] = buf[d] /\ out'[d] = out[d] /\ taken'[d] = taken[d]
        BY <3>1, <3>2, <3>3
      <4> QED BY <1>1, <3>1, <4>1, ReceiveStep
    <3>4. CASE d = e
      <4>1. b \in Buffer /\ Counted(b) /\ Settled(e) /\ ~ReadReady(b)
        <5>1. pc = "serve" /\ "POLLOUT" \in revents[side] /\ e = Other(side)
              /\ side \in Dirs /\ e \in Dirs /\ Other(e) = side
          BY <1>1, <3>1, OtherType
        <5>2. Settled(e)
          BY <5>1 DEF IInv, SettledSides
        <5>3. ~ReadReady(buf[e])
          BY <5>1 DEF IInv, FlagsFit, Dirs
        <5>4. Counted(buf[e])
          BY <5>1 DEF IInv, DirOK
        <5> QED BY <3>2, <5>2, <5>3, <5>4
      <4>2. Unparsed(b) = 0
        BY <4>1 DEF Settled, ReadReady
      <4>3. Written(b).parsed = 0
        BY <4>1, <4>2, WrittenClears
      <4>4. /\ b.mem \in Seq(Cell) /\ b.written \in Nat /\ b.parsed \in Nat
            /\ b.written + b.parsed <= Len(b.mem)
        <5>1. b.mem \in Seq(Cell) /\ b.written \in Nat /\ b.parsed \in Nat
              /\ b.read \in Nat /\ Len(b.mem) \in Nat
          BY <4>1, BufferFields
        <5> QED BY <4>1, <5>1 DEF Counted
      <4>5. out[e] \in Seq(Cell)
        BY <3>2
      <4>6. Len(Continued(out[e], b.mem, b.written, b.parsed)) = Len(out[e]) + b.parsed
        BY ONLY <4>4, <4>5, ContinuedKeeps, SMTT(60)
      <4>7. buf'[e] = Written(b)
            /\ out'[e] = Continued(out[e], b.mem, b.written, b.parsed)
        BY <3>1, <3>2
      <4>8. Len(out'[d]) = Marked(d) /\ buf'[d].parsed = 0 /\ taken'[d] = taken[d]
        BY <3>1, <3>4, <4>3, <4>6, <4>7 DEF Marked
      <4> QED BY <3>1, <4>8, DeliverStep
    <3> QED BY <3>3, <3>4
  <2> QED BY <2>1, <2>2
<1>6. CASE ParseHeader
  <2>1. CASE UNCHANGED <<script, taken, buf, out>>
    BY <1>2, <2>1
  <2>2. CASE ~UNCHANGED <<script, taken, buf, out>>
    <3> DEFINE z == Declared(side, status, buf[side], off)
    <3>1. /\ buf' = [buf EXCEPT ![side].nms = z]
          /\ UNCHANGED <<script, taken, out>>
      BY <1>6, <2>2 DEF ParseHeader, Die, env
    <3>2. buf \in [Dirs -> Buffer]
      BY DEF IInv, Typed
    <3> HIDE DEF z
    <3>3. buf'[d].parsed = buf[d].parsed
      BY <1>1, <3>1, <3>2 DEF Buffer
    <3> QED BY <1>1, <3>1, <3>3, ReceiveStep
  <2> QED BY <2>1, <2>2
<1>7. CASE ParseMessage
  <2>1. CASE UNCHANGED <<script, taken, buf, out>>
    BY <1>2, <2>1
  <2>2. CASE ~UNCHANGED <<script, taken, buf, out>>
    <3> SUFFICES ASSUME NEW b, b = buf[side] PROVE PipeStep(d)
      OBVIOUS
    <3>1. /\ buf' = [buf EXCEPT ![side] = MessageParsed(b)]
          /\ MarkAsserts(b)
          /\ UNCHANGED <<script, taken, out>>
      BY <1>7, <2>2 DEF ParseMessage, Die, env
    <3>2. buf \in [Dirs -> Buffer] /\ b \in Buffer /\ Counted(b)
      BY <1>1 DEF IInv, Typed, DirOK
    <3>3. MessageParsed(b).parsed = b.parsed + b.nms /\ b.nms \in Nat
      BY <3>1, <3>2, MessageParsedKeeps, BufferFields
    <3>4. CASE d = side
      <4>1. buf'[d].parsed = buf[d].parsed + b.nms
        BY <3>1, <3>2, <3>3, <3>4
      <4> QED BY <3>1, <3>3, <4>1, LogStep
    <3>5. CASE d # side
      <4>1. buf'[d] = buf[d] /\ taken'[d] = taken[d] /\ out'[d] = out[d]
        BY <3>1, <3>2, <3>5
      <4> QED BY <1>1, <3>1, <4>1, ReceiveStep
    <3> QED BY <3>4, <3>5
  <2> QED BY <2>1, <2>2
<1> QED BY <1>3, <1>4, <1>5, <1>6, <1>7 DEF Proxy

LEMMA NextPipeStep ==
  ASSUME IInv, IInv', [Next]_vars, NEW d \in Dirs
  PROVE  PipeStep(d)
<1>1. CASE Proxy
  BY <1>1, ProxyPipeStep
<1>2. CASE Peers \/ UNCHANGED vars
  <2>1. script' = script /\ UNCHANGED <<taken, buf, out>>
    BY <1>2 DEF Peers, PeerSend, PeerClose, PeerReset, PeerResumes,
                   vars, data, env
  <2>2. taken[d] <= taken'[d]
    BY <2>1 DEF IInv, Typed
  <2> QED BY <2>1, <2>2, ReceiveStep
<1> QED BY <1>1, <1>2 DEF Next

-----------------------------------------------------------------------------
(* The relay implements one pipe for the requests, one for what comes back.*)

THEOREM RelayImplementsPipes == Spec => RelaysLikePipes
<1>1. Init => Requests!PipeInit /\ Responses!PipeInit
  <2> SUFFICES ASSUME Init PROVE Requests!PipeInit /\ Responses!PipeInit
    OBVIOUS
  <2>1. IInv
    BY InitIInv
  <2>2. ASSUME NEW d \in Dirs
        PROVE  TakenFrom(d) = <<>> /\ Marked(d) = 0 /\ out[d] = <<>>
    <3>1. taken[d] = 0 /\ out[d] = <<>> /\ buf[d].parsed = 0
      BY FreshType DEF Init
    <3>2. Len(TakenFrom(d)) = 0 /\ TakenFrom(d) \in Seq(Cell)
      BY <2>1, <3>1, PipeFacts, PrefixOfPrefix DEF TakenFrom
    <3> QED BY <3>1, <3>2 DEF Marked
  <2> QED BY <2>2 DEF Requests!PipeInit, Responses!PipeInit, TakenFrom, Dirs
<1>2. IInv /\ IInv' /\ [Next]_vars => [Requests!PipeNext]_(Requests!pipe)
  <2> SUFFICES ASSUME IInv, IInv', [Next]_vars
               PROVE  [Requests!PipeNext]_(Requests!pipe)
    OBVIOUS
  <2>1. PipeStep("client")
    BY NextPipeStep DEF Dirs
  <2> QED BY <2>1 DEF PipeStep, TakenFrom, Requests!PipeNext, Requests!pipe,
             Requests!Receive, Requests!Log, Requests!Deliver,
             Requests!Continues
<1>3. IInv /\ IInv' /\ [Next]_vars => [Responses!PipeNext]_(Responses!pipe)
  <2> SUFFICES ASSUME IInv, IInv', [Next]_vars
               PROVE  [Responses!PipeNext]_(Responses!pipe)
    OBVIOUS
  <2>1. PipeStep("server")
    BY NextPipeStep DEF Dirs
  <2> QED BY <2>1 DEF PipeStep, TakenFrom, Responses!PipeNext, Responses!pipe,
             Responses!Receive, Responses!Log, Responses!Deliver,
             Responses!Continues
<1> QED BY <1>1, <1>2, <1>3, SpecIInv, PTL
        DEF Spec, RelaysLikePipes, Requests!PipeSpec, Responses!PipeSpec

=============================================================================
