---------------------------- MODULE RelayProofs ----------------------------
(***************************************************************************)
(* Proofs about the relay, for every block size, every script of the peers *)
(* and every way the cells arrive.                                         *)
(***************************************************************************)
EXTENDS Relay, SocketBufferProofs

-----------------------------------------------------------------------------
(* The inductive invariant.                                                *)

(* What holds of one direction: its cells are where they should be.        *)
DirOK(d) ==
  /\ taken[d] <= avail[d]
  /\ avail[d] <= Len(script[d].cells)
  /\ Counted(buf[d])
  /\ buf[d].written = 0
  /\ taken[d] = Len(out[d]) + Size(buf[d])
  /\ \A i \in 1 .. Len(out[d]) : out[d][i] = script[d].cells[i]
  /\ \A i \in 1 .. Size(buf[d]) :
       buf[d].mem[buf[d].written + i] = script[d].cells[Len(out[d]) + i]

(* Outside the parser a buffer holds logged messages only, or waits for    *)
(* the rest of one.                                                        *)
Settled(d) == Unparsed(buf[d]) = 0 \/ IncompleteMessage(buf[d])

SettledSides ==
  /\ pc \in {"poll", "serve"} => \A d \in Dirs : Settled(d)
  /\ pc = "parse" => Settled(Other(side))

(* What poll() returned still fits the buffers when a side is served: a    *)
(* side is written to only when the other's buffer has stopped reading.    *)
FlagsFit ==
  /\ pc = "serve" => \A d \in Dirs :
       (side = "client" \/ d = "server") /\ "POLLOUT" \in revents[d]
         => ~ReadReady(buf[Other(d)])
  /\ pc = "serve" /\ side = "client" /\ "POLLIN" \in revents["client"]
       => "POLLOUT" \notin revents["server"]
  /\ pc = "parse" /\ side = "client" => "POLLOUT" \notin revents["server"]

IInv == Typed /\ (\A d \in Dirs : DirOK(d)) /\ SettledSides /\ FlagsFit

-----------------------------------------------------------------------------
(* Facts about the types.                                                  *)

LEMMA OtherType ==
  /\ Other("client") = "server" /\ Other("server") = "client"
  /\ \A d \in Dirs : Other(d) \in Dirs /\ Other(d) # d /\ Other(Other(d)) = d
  BY DEF Other, Dirs

LEMMA ScriptType ==
  ASSUME Typed, NEW d \in Dirs
  PROVE  /\ script[d].cells \in Seq(Cell)
         /\ Len(script[d].cells) \in Nat
         /\ script[d].setup \in 1 .. Len(script[d].cells)
<1>1. script[d] \in Scripts[d]
  BY DEF Typed
<1>2. /\ script[d].cells \in Seq(Cell)
      /\ script[d].ends \subseteq 1 .. Len(script[d].cells)
      /\ script[d].setup \in script[d].ends
  BY <1>1, ScriptsAssumption
<1> QED BY <1>2

(* A direction is untouched by a step that leaves its data alone.          *)
LEMMA DirFrame ==
  ASSUME NEW d \in Dirs, DirOK(d), script' = script, avail'[d] = avail[d],
         taken'[d] = taken[d], buf'[d] = buf[d], out'[d] = out[d]
  PROVE  DirOK(d)'
  BY DEF DirOK

(* The connection's or the process's end changes no data.                  *)
LEMMA EndStep ==
  ASSUME IInv, NEW why \in Causes, End(why),
         UNCHANGED <<taken, buf, out, logged, status, revents, side, off>>,
         UNCHANGED env
  PROVE  IInv'
<1>1. Typed'
  BY DEF IInv, Typed, End, env
<1>2. \A d \in Dirs : DirOK(d)'
  BY DEF IInv, DirOK, env
<1>3. SettledSides' /\ FlagsFit'
  BY DEF SettledSides, FlagsFit, End
<1> QED BY <1>1, <1>2, <1>3 DEF IInv

THEOREM InitIInv == Init => IInv
<1> SUFFICES ASSUME Init PROVE IInv
  OBVIOUS
<1>1. Typed
  BY FreshType DEF Init, Typed, NoEvents, Statuses, Causes, Dirs
<1>2. ASSUME NEW d \in Dirs PROVE DirOK(d)
  <2>1. /\ taken[d] = 0 /\ avail[d] = 0 /\ buf[d] = Fresh /\ out[d] = <<>>
    BY <1>2 DEF Init
  <2>2. Len(script[d].cells) \in Nat
    BY <1>1, <1>2, ScriptType
  <2> QED BY <2>1, <2>2, FreshType DEF DirOK, Size
<1>3. ASSUME NEW d \in Dirs PROVE Settled(d)
  BY <1>3, FreshType DEF Init, Settled, Unparsed, Size
<1>4. SettledSides /\ FlagsFit
  BY <1>3 DEF Init, SettledSides, FlagsFit
<1> QED BY <1>1, <1>2, <1>4 DEF IInv

-----------------------------------------------------------------------------
(* The peers' steps.                                                       *)

(* A peer's steps change what it may send, within its script, and the      *)
(* state of its socket.                                                    *)
LEMMA PeerStep ==
  ASSUME IInv, UNCHANGED <<script, data, ctl>>,
         avail' \in [Dirs -> Nat], closed' \in [Dirs -> BOOLEAN],
         reset' \in [Dirs -> BOOLEAN], willing' \in [Dirs -> BOOLEAN],
         \A d \in Dirs : taken[d] <= avail'[d]
                          /\ avail'[d] <= Len(script[d].cells)
  PROVE  IInv'
<1>1. Typed'
  BY DEF IInv, Typed, data, ctl
<1>2. \A d \in Dirs : DirOK(d)'
  BY DEF IInv, DirOK, data
<1>3. SettledSides' /\ FlagsFit'
  BY DEF IInv, SettledSides, FlagsFit, Settled, data, ctl
<1> QED BY <1>1, <1>2, <1>3 DEF IInv

LEMMA PeersStep == IInv /\ Peers => IInv'
<1> SUFFICES ASSUME IInv, NEW d \in Dirs,
                    \/ PeerSend(d) \/ PeerClose(d)
                    \/ PeerReset(d) \/ PeerResumes(d)
             PROVE  IInv'
  BY DEF Peers
<1> USE DEF IInv
<1>1. \A e \in Dirs : taken[e] \in Nat /\ avail[e] \in Nat
                      /\ taken[e] <= avail[e]
                      /\ avail[e] <= Len(script[e].cells)
  BY DEF Typed, DirOK
<1>2. CASE PeerSend(d)
  <2>1. PICK k \in (avail[d] + 1) .. SendLimit(d) :
               avail' = [avail EXCEPT ![d] = k]
    BY <1>2 DEF PeerSend
  <2>2. /\ SendLimit(d) \in Nat
        /\ SendLimit(d) <= Len(script[d].cells)
    BY ScriptType DEF SendLimit
  <2>3. k \in Nat /\ taken[d] <= k /\ k <= Len(script[d].cells)
    BY <1>1, <2>1, <2>2, ScriptType
  <2>4. /\ avail' \in [Dirs -> Nat]
        /\ \A e \in Dirs : taken[e] <= avail'[e]
                           /\ avail'[e] <= Len(script[e].cells)
    BY <1>1, <2>1, <2>3 DEF Typed
  <2>5. /\ UNCHANGED <<script, data, ctl>>
        /\ closed' \in [Dirs -> BOOLEAN] /\ willing' \in [Dirs -> BOOLEAN]
        /\ reset' \in [Dirs -> BOOLEAN]
    BY <1>2 DEF PeerSend, Typed
  <2> QED BY <2>4, <2>5, PeerStep
<1>3. CASE PeerClose(d)
  BY <1>1, <1>3, PeerStep DEF PeerClose, Typed
<1>4. CASE PeerResumes(d)
  BY <1>1, <1>4, PeerStep DEF PeerResumes, Typed
<1>5. CASE PeerReset(d)
  BY <1>1, <1>5, PeerStep DEF PeerReset, Typed
<1> QED BY <1>2, <1>3, <1>4, <1>5

-----------------------------------------------------------------------------
(* The proxy's steps.                                                      *)

LEMMA PollStep == IInv /\ Poll => IInv'
<1> SUFFICES ASSUME IInv, Poll PROVE IInv'
  OBVIOUS
<1>1. CASE ~(\A d \in Dirs : ReadReady(buf[d]) \/ WriteReady(buf[d]))
  <2>1. Die("poll") /\ UNCHANGED env
    BY <1>1 DEF Poll
  <2> QED BY <2>1, EndStep DEF Die, Causes
<1>2. CASE \A d \in Dirs : ReadReady(buf[d]) \/ WriteReady(buf[d])
  <2>1. /\ pc = "poll" /\ pc' = "serve"
        /\ revents' = [d \in Dirs |-> Returned(d)]
        /\ UNCHANGED <<data, side, off, cause>> /\ UNCHANGED env
    BY <1>2 DEF Poll
  <2>2. \A d \in Dirs : Returned(d) \in SUBSET Events
    BY DEF Returned, PollFlags, Conditions, Events
  <2>3. Typed'
    BY <2>1, <2>2 DEF IInv, Typed, data, env
  <2>4. \A d \in Dirs : DirOK(d)'
    BY <2>1 DEF IInv, DirOK, data, env
  <2>5. SettledSides'
    BY <2>1 DEF IInv, SettledSides, Settled, data
  <2>6. FlagsFit'
    <3>1. \A d \in Dirs : "POLLOUT" \in revents'[d] => ~ReadReady(buf[Other(d)])
      BY <2>1 DEF Returned, PollFlags, Conditions
    <3>2. "POLLIN" \in revents'["client"] => "POLLOUT" \notin revents'["server"]
      <4>1. /\ "POLLIN" \in revents'["client"] => ReadReady(buf["client"])
            /\ "POLLOUT" \in revents'["server"] => ~ReadReady(buf["client"])
        BY <2>1, OtherType DEF Returned, PollFlags, Conditions, Dirs
      <4> QED BY <4>1
    <3> QED BY <2>1, <3>1, <3>2 DEF FlagsFit, data
  <2> QED BY <2>3, <2>4, <2>5, <2>6 DEF IInv
<1> QED BY <1>1, <1>2

(* What the pass keeps when it goes on to the next side.                   *)
LEMMA NextSideKeeps ==
  ASSUME IInv, NextSide
  PROVE  /\ revents' \in [Dirs -> SUBSET Events]
         /\ side' \in Dirs
         /\ pc' \in {"poll", "serve"}
         /\ pc' = "serve" => /\ side = "client" /\ side' = "server"
                             /\ revents'["server"] = revents["server"]
  BY DEF IInv, Typed, NextSide, Dirs

LEMMA ServeIdleStep == IInv /\ ServeIdle => IInv'
<1> SUFFICES ASSUME IInv, ServeIdle PROVE IInv'
  OBVIOUS
<1>1. CASE PollError(side)
  <2>1. CloseConnection("reset") /\ UNCHANGED env
    BY <1>1 DEF ServeIdle
  <2> QED BY <2>1, EndStep DEF CloseConnection, Causes
<1>2. CASE ~PollError(side)
  <2>1. /\ pc = "serve" /\ NextSide
        /\ UNCHANGED <<data, off, cause>> /\ UNCHANGED env
    BY <1>2 DEF ServeIdle
  <2>2. Typed'
    BY <2>1, NextSideKeeps DEF IInv, Typed, data, env
  <2>3. \A d \in Dirs : DirOK(d)'
    BY <2>1 DEF IInv, DirOK, data, env
  <2>4. SettledSides'
    BY <2>1, NextSideKeeps DEF IInv, SettledSides, Settled, data
  <2>5. FlagsFit'
    BY <2>1, NextSideKeeps DEF IInv, FlagsFit, Dirs, data
  <2> QED BY <2>2, <2>3, <2>4, <2>5 DEF IInv
<1> QED BY <1>1, <1>2

LEMMA ParseLeaveStep == IInv /\ ParseLeave => IInv'
<1> SUFFICES ASSUME IInv, ParseLeave PROVE IInv'
  OBVIOUS
<1>1. /\ pc = "parse" /\ NextSide /\ off' = 0
      /\ UNCHANGED <<data, cause>> /\ UNCHANGED env
  BY DEF ParseLeave
<1>2. Settled(side)
  BY DEF ParseLeave, Settled, IncompleteMessage
<1>3. \A d \in Dirs : d = side \/ d = Other(side)
  BY DEF IInv, Typed, Dirs, Other
<1>4. Typed'
  BY <1>1, NextSideKeeps DEF IInv, Typed, data, env
<1>5. \A d \in Dirs : DirOK(d)'
  BY <1>1 DEF IInv, DirOK, data, env
<1>6. SettledSides'
  BY <1>1, <1>2, <1>3, NextSideKeeps DEF IInv, SettledSides, Settled, data
<1>7. FlagsFit'
  BY <1>1, NextSideKeeps DEF IInv, FlagsFit, Dirs, data
<1> QED BY <1>4, <1>5, <1>6, <1>7 DEF IInv

LEMMA ServeWriteStep == IInv /\ ServeWrite => IInv'
<1> SUFFICES ASSUME IInv, ServeWrite, NEW d \in Dirs, d = Other(side),
                    NEW b, b = buf[d]
             PROVE  IInv'
  BY OtherType DEF IInv, Typed
<1>1. side \in Dirs /\ d \in Dirs /\ d # side /\ b \in Buffer
  BY OtherType DEF IInv, Typed
<1>2. CASE Die("sigpipe") /\ UNCHANGED willing
  <2>1. UNCHANGED env
    BY <1>2 DEF ServeWrite, env
  <2> QED BY <1>2, <2>1, EndStep DEF Die, Causes
<1>4. CASE CloseConnection("reset") /\ UNCHANGED willing
  <2>1. UNCHANGED env
    BY <1>4 DEF ServeWrite, env
  <2> QED BY <1>4, <2>1, EndStep DEF CloseConnection, Causes
<1>3. CASE /\ buf' = [buf EXCEPT ![d] = Written(b)]
           /\ out' = [out EXCEPT ![d] = Continued(@, b.mem, b.written, b.parsed)]
           /\ \E room \in BOOLEAN : willing' = [willing EXCEPT ![side] = room]
           /\ NextSide
           /\ UNCHANGED <<taken, logged, status, off, cause>>
  <2>1. /\ pc = "serve" /\ "POLLOUT" \in revents[side]
        /\ UNCHANGED <<script, avail, closed, reset>>
    BY DEF ServeWrite
  <2>2. DirOK(d) /\ Settled(d) /\ ~ReadReady(b)
    BY <1>1, <2>1 DEF IInv, SettledSides, FlagsFit, Dirs
  <2>3. Unparsed(b) = 0
    BY <2>2 DEF Settled, ReadReady
  <2>4. /\ b.written = 0 /\ b.parsed = Size(b) /\ b.parsed \in Nat
        /\ b.parsed <= Len(b.mem) /\ Counted(b) /\ b.mem \in Seq(Cell)
    <3>1. b.written = 0 /\ Counted(b)
      BY <2>2 DEF DirOK
    <3>2. /\ b.mem \in Seq(Cell) /\ b.read \in Nat /\ b.parsed \in Nat
          /\ Len(b.mem) \in Nat
      BY <1>1, BufferFields
    <3> QED BY <2>3, <3>1, <3>2 DEF Counted, Unparsed, Size
  <2> DEFINE r == Written(b)
             o == Continued(out[d], b.mem, b.written, b.parsed)
  <2>5. r \in Buffer /\ Counted(r) /\ r.read = 0 /\ r.parsed = 0 /\ r.written = 0
    BY <1>1, <2>3, <2>4, WrittenClears
  <2>6. out[d] \in Seq(Cell) /\ Len(out[d]) \in Nat
    BY <1>1 DEF IInv, Typed
  <2>7. /\ o \in Seq(Cell) /\ Len(o) = Len(out[d]) + b.parsed
        /\ \A i \in 1 .. Len(out[d]) : o[i] = out[d][i]
        /\ \A i \in 1 .. b.parsed : o[Len(out[d]) + i] = b.mem[b.written + i]
    <3>1. /\ b.mem \in Seq(Cell) /\ b.written \in Nat /\ b.parsed \in Nat
          /\ b.written + b.parsed <= Len(b.mem)
      BY <2>4
    <3>2. o \in Seq(Cell)
      BY ONLY <2>6, <3>1, ContinuedIsSeq
    <3>3. Len(o) = Len(out[d]) + b.parsed
      BY ONLY <2>6, <3>1, ContinuedKeeps, SMTT(60)
    <3>4. \A i \in 1 .. Len(out[d]) : o[i] = out[d][i]
      BY ONLY <2>6, <3>1, ContinuedKeeps, SMTT(60)
    <3>5. \A i \in 1 .. b.parsed : o[Len(out[d]) + i] = b.mem[b.written + i]
      BY ONLY <2>6, <3>1, ContinuedKeeps, ZenonT(60)
    <3> QED BY <3>2, <3>3, <3>4, <3>5
  <2> HIDE DEF r, o
  <2>8. /\ buf'[d] = r /\ out'[d] = o
        /\ \A e \in Dirs : e # d => buf'[e] = buf[e] /\ out'[e] = out[e]
        /\ buf' \in [Dirs -> Buffer] /\ out' \in [Dirs -> Seq(Cell)]
        /\ willing' \in [Dirs -> BOOLEAN]
    BY <1>1, <1>3, <2>5, <2>7 DEF IInv, Typed, r, o
  <2>9. Typed'
    BY <1>3, <2>1, <2>8, NextSideKeeps DEF IInv, Typed
  <2>10. DirOK(d)'
    <3>1. /\ taken'[d] <= avail'[d] /\ avail'[d] <= Len(script'[d].cells)
          /\ Counted(buf'[d]) /\ buf'[d].written = 0 /\ Size(buf'[d]) = 0
      BY <1>3, <2>1, <2>2, <2>5, <2>8 DEF DirOK, Size
    <3>2. taken'[d] = Len(out'[d]) + Size(buf'[d])
      BY <1>3, <2>2, <2>4, <2>6, <2>7, <2>8, <3>1 DEF DirOK
    <3>3. \A i \in 1 .. Len(out'[d]) : out'[d][i] = script'[d].cells[i]
      <4> SUFFICES ASSUME NEW i \in 1 .. Len(o) PROVE o[i] = script[d].cells[i]
        BY <2>1, <2>8
      <4>1. CASE i <= Len(out[d])
        BY <2>2, <2>6, <2>7, <4>1 DEF DirOK
      <4>2. CASE ~(i <= Len(out[d]))
        <5> DEFINE j == i - Len(out[d])
        <5>1. j \in 1 .. b.parsed /\ i = Len(out[d]) + j
          BY <2>4, <2>6, <2>7, <4>2
        <5> HIDE DEF j
        <5>2. o[i] = b.mem[b.written + j]
          BY <2>7, <5>1
        <5>3. b.mem[b.written + j] = script[d].cells[Len(out[d]) + j]
          BY <2>2, <2>4, <5>1 DEF DirOK
        <5> QED BY <5>1, <5>2, <5>3
      <4> QED BY <4>1, <4>2
    <3> QED BY <3>1, <3>2, <3>3 DEF DirOK
  <2>11. \A e \in Dirs : DirOK(e)'
    <3> SUFFICES ASSUME NEW e \in Dirs, e # d PROVE DirOK(e)'
      BY <2>10
    <3>1. DirOK(e)
      BY DEF IInv
    <3>2. /\ script' = script /\ avail'[e] = avail[e] /\ taken'[e] = taken[e]
          /\ buf'[e] = buf[e] /\ out'[e] = out[e]
      BY <1>3, <2>1, <2>8
    <3> QED BY <3>1, <3>2, DirFrame
  <2>12. SettledSides'
    <3>1. Settled(d)'
      BY <2>5, <2>8 DEF Settled, Unparsed, Size
    <3>2. \A e \in Dirs : e # d => Settled(e)'
      BY <2>1, <2>8 DEF IInv, SettledSides, Settled
    <3> QED BY <1>3, <3>1, <3>2, NextSideKeeps DEF SettledSides
  <2>13. FlagsFit'
    <3> SUFFICES ASSUME pc' = "serve", "POLLOUT" \in revents'["server"]
                 PROVE  ~ReadReady(buf'["client"])
      BY <1>3, NextSideKeeps, OtherType DEF FlagsFit
    <3>1. side = "client" /\ revents'["server"] = revents["server"]
      BY <1>3, NextSideKeeps
    <3>2. buf'["client"] = buf["client"]
      BY <2>8, <3>1, OtherType DEF Dirs
    <3>3. ~ReadReady(buf["client"])
      BY <2>1, <3>1, OtherType DEF IInv, FlagsFit, Dirs
    <3> QED BY <3>2, <3>3
  <2> QED BY <2>9, <2>11, <2>12, <2>13 DEF IInv
<1> QED BY <1>2, <1>3, <1>4 DEF ServeWrite

LEMMA ServeReadStep == IInv /\ ServeRead => IInv'
<1> SUFFICES ASSUME IInv, ServeRead, NEW d \in Dirs, d = side,
                    NEW b, b = buf[d]
             PROVE  IInv'
  BY DEF IInv, Typed
<1> DEFINE n == BytesToRead(b)
           k == Min2(n, avail[d] - taken[d])
           cells == script[d].cells
<1>1. b \in Buffer /\ n \in 0 .. SIZE_MAX /\ DirOK(d)
  BY SizesRequested DEF IInv, Typed
<1>2. CASE \E why \in Causes : Die(why) \/ CloseConnection(why)
  <2>1. UNCHANGED env
    BY DEF ServeRead
  <2> QED BY <1>2, <2>1, EndStep DEF Die, CloseConnection
<1>3. CASE ~(\E why \in Causes : Die(why) \/ CloseConnection(why))
  <2>1. /\ pc = "serve" /\ "POLLIN" \in revents[d] /\ InStorage(b, n) /\ k # 0
        /\ buf' = [buf EXCEPT ![d] = Received(b, n, cells, taken[d], k)]
        /\ taken' = [taken EXCEPT ![d] = @ + k]
        /\ pc' = "parse" /\ off' = b.written
        /\ UNCHANGED <<out, logged, status, revents, side, cause>>
        /\ UNCHANGED env
    BY <1>3 DEF ServeRead, Causes
  <2>2. /\ cells \in Seq(Cell) /\ taken[d] \in Nat /\ avail[d] \in Nat
        /\ taken[d] <= avail[d] /\ avail[d] <= Len(cells) /\ Counted(b)
        /\ Len(cells) \in Nat
    BY <1>1, ScriptType DEF IInv, Typed, DirOK
  <2>3. k \in Nat /\ k <= n /\ taken[d] + k <= avail[d]
        /\ taken[d] + k <= Len(cells)
    BY <1>1, <2>2, SizeMaxAssumption DEF Min2
  <2> DEFINE r == Received(b, n, cells, taken[d], k)
  <2> HIDE DEF k, n, cells
  <2>4. /\ r \in Buffer /\ Counted(r) /\ r.read = b.read + k
        /\ r.parsed = b.parsed /\ r.written = b.written /\ r.nms = b.nms
        /\ \A i \in 1 .. b.read : r.mem[i] = b.mem[i]
        /\ \A i \in 1 .. k : r.mem[b.read + i] = cells[taken[d] + i]
    BY <1>1, <2>1, <2>2, <2>3, ReceivedKeeps, SMTT(60)
  <2> HIDE DEF r
  <2>5. /\ buf'[d] = r /\ taken'[d] = taken[d] + k
        /\ buf' \in [Dirs -> Buffer] /\ taken' \in [Dirs -> Nat]
        /\ \A e \in Dirs : e # d => buf'[e] = buf[e] /\ taken'[e] = taken[e]
    <3>1. buf' = [buf EXCEPT ![d] = r] /\ taken' = [taken EXCEPT ![d] = taken[d] + k]
      BY <2>1 DEF r
    <3>2. buf \in [Dirs -> Buffer] /\ taken \in [Dirs -> Nat]
      BY DEF IInv, Typed
    <3>3. taken[d] + k \in Nat
      BY <2>2, <2>3
    <3> QED BY <2>4, <3>1, <3>2, <3>3
  <2>6. Typed'
    <3>1. b.written \in Nat
      BY <1>1, BufferFields
    <3> QED BY <2>1, <2>5, <3>1 DEF IInv, Typed, env
  <2>7. DirOK(d)'
    <3>1. /\ taken'[d] <= avail'[d] /\ avail'[d] <= Len(script'[d].cells)
          /\ Counted(buf'[d]) /\ buf'[d].written = 0
      BY <1>1, <2>1, <2>3, <2>4, <2>5 DEF DirOK, env
    <3>2. Size(b) = b.read /\ Size(r) = b.read + k /\ b.read \in Nat
          /\ b.written = 0
      BY <1>1, <2>3, <2>4, BufferFields, SMTT(60) DEF DirOK, Size
    <3>3. taken[d] = Len(out[d]) + b.read /\ Len(out[d]) \in Nat
      BY <1>1, <3>2 DEF DirOK, IInv, Typed
    <3>4. taken'[d] = Len(out'[d]) + Size(buf'[d])
      BY <2>1, <2>3, <2>5, <3>2, <3>3
    <3>5. \A i \in 1 .. Len(out'[d]) : out'[d][i] = script'[d].cells[i]
      BY <1>1, <2>1 DEF DirOK, env
    <3>6. ASSUME NEW i \in 1 .. Size(r)
          PROVE  r.mem[r.written + i] = cells[Len(out[d]) + i]
      <4>1. CASE i <= b.read
        <5>1. i \in Int /\ i \in 1 .. b.read
          BY <3>2, <4>1
        <5>2. b.mem[b.written + i] = cells[Len(out[d]) + i]
          <6>1. i \in 1 .. Size(b)
            BY <3>2, <5>1
          <6>2. \A e \in 1 .. Size(b) :
                   b.mem[b.written + e] = cells[Len(out[d]) + e]
            BY <1>1 DEF DirOK, cells
          <6> QED BY <6>1, <6>2
        <5>3. r.mem[i] = b.mem[i]
          BY <2>4, <5>1
        <5>4. r.written + i = i /\ b.written + i = i
          BY <2>4, <3>2, <5>1
        <5> QED BY <5>2, <5>3, <5>4
      <4>2. CASE ~(i <= b.read)
        <5> DEFINE j == i - b.read
        <5>1. j \in 1 .. k /\ i = b.read + j
          BY <2>3, <3>2, <4>2
        <5> HIDE DEF j
        <5>2. r.mem[b.read + j] = cells[taken[d] + j]
          BY <2>4, <5>1
        <5>3. j \in Int /\ i \in Int
          BY <2>3, <3>2, <5>1
        <5>4. taken[d] + j = Len(out[d]) + i
          BY <3>2, <3>3, <5>1, <5>3
        <5>5. r.written + i = b.read + j
          BY <2>4, <3>2, <5>1, <5>3
        <5> QED BY <5>2, <5>4, <5>5
      <4> QED BY <4>1, <4>2
    <3>7. \A i \in 1 .. Size(buf'[d]) :
            buf'[d].mem[buf'[d].written + i] = script'[d].cells[Len(out'[d]) + i]
      BY <2>1, <2>5, <3>6 DEF env, cells
    <3> QED BY <3>1, <3>4, <3>5, <3>7 DEF DirOK
  <2>8. \A e \in Dirs : DirOK(e)'
    <3> SUFFICES ASSUME NEW e \in Dirs, e # d PROVE DirOK(e)'
      BY <2>7
    <3>1. DirOK(e)
      BY DEF IInv
    <3>2. /\ script' = script /\ avail'[e] = avail[e] /\ taken'[e] = taken[e]
          /\ buf'[e] = buf[e] /\ out'[e] = out[e]
      BY <2>1, <2>5 DEF env
    <3> QED BY <3>1, <3>2, DirFrame
  <2>9. SettledSides'
    <3> SUFFICES ASSUME NEW e \in Dirs, e = Other(side) PROVE Settled(e)'
      BY <2>1, OtherType DEF SettledSides, IInv, Typed
    <3>1. Settled(e) /\ buf'[e] = buf[e]
      BY <2>1, <2>5, OtherType DEF IInv, SettledSides
    <3> QED BY <3>1 DEF Settled
  <2>10. FlagsFit'
    BY <2>1 DEF IInv, FlagsFit
  <2> QED BY <2>6, <2>8, <2>9, <2>10 DEF IInv
<1> QED BY <1>2, <1>3

(* The size in a header that lies in the storage is a size, and never the  *)
(* one that means "unknown".                                               *)
LEMMA DeclaredType ==
  ASSUME NEW d \in Dirs, NEW st \in Statuses, NEW b \in Buffer,
         NEW o \in Nat, HeaderInStorage(d, st, b, o)
  PROVE  Declared(d, st, b, o) \in 0 .. (SIZE_MAX - 1)
<1> DEFINE cell(i) == b.mem[o + i]
<1>1. \A i \in Nat \ {0} : o + i <= Len(b.mem) => cell(i) \in Cell
  BY BufferFields
<1>2. o + DeclaredCells(d, st, b, o) <= Len(b.mem) /\ Len(b.mem) \in Nat
  BY BufferFields DEF HeaderInStorage
<1>3. CASE d = "client" /\ st = "UNESTABLISHED"
  <2>1. DeclaredCells(d, st, b, o) = 3
    BY <1>3 DEF DeclaredCells, HeaderCells, INIT_HEADER
  <2>2. cell(2) \in Cell /\ cell(3) \in Cell
    BY <1>1, <1>2, <2>1
  <2>3. Declared(d, st, b, o) = 3 + cell(2) + cell(3)
    BY <1>3 DEF Declared, INIT_HEADER
  <2> QED BY <2>2, <2>3, CellMaxAssumption, SizeMaxAssumption DEF Cell
<1>4. CASE d = "server" /\ st = "UNESTABLISHED"
  <2>1. DeclaredCells(d, st, b, o) = 2
    BY <1>4 DEF DeclaredCells, HeaderCells, RESPONSE_HEADER
  <2>2. cell(2) \in Cell
    BY <1>1, <1>2, <2>1
  <2>3. Declared(d, st, b, o) = 2 + cell(2)
    BY <1>4 DEF Declared, RESPONSE_HEADER
  <2> QED BY <2>2, <2>3, CellMaxAssumption, SizeMaxAssumption DEF Cell
<1>5. CASE d = "server" /\ st = "OPEN"
  <2>1. Declared(d, st, b, o) =
          3 + (IF cell(1) = REPLY_PREFIX THEN cell(2) ELSE 0)
    BY <1>5 DEF Declared, ENCODING_SZ
  <2>2. cell(1) = REPLY_PREFIX => cell(2) \in Cell
    <3>1. DeclaredCells(d, st, b, o) >= 1
      BY <1>5 DEF DeclaredCells, HeaderCells, SERVER_HEADER
    <3>2. DeclaredCells(d, st, b, o) \in {1, 2}
      BY <1>5 DEF DeclaredCells, HeaderCells, SERVER_HEADER
    <3>3. o + 1 <= Len(b.mem)
      BY <1>2, <3>2
    <3>4. cell(1) = REPLY_PREFIX => DeclaredCells(d, st, b, o) = 2
      BY <1>5, <3>3 DEF DeclaredCells
    <3> QED BY <1>1, <1>2, <3>4
  <2> HIDE DEF cell
  <2>3. CASE cell(1) = REPLY_PREFIX
    BY <2>1, <2>2, <2>3, CellMaxAssumption, SizeMaxAssumption DEF Cell
  <2>4. CASE cell(1) # REPLY_PREFIX
    BY <2>1, <2>4, CellMaxAssumption, SizeMaxAssumption
  <2> QED BY <2>3, <2>4
<1>6. CASE d = "client" /\ st = "OPEN"
  <2>1. DeclaredCells(d, st, b, o) =
          IF o + 2 <= Len(b.mem) /\ cell(2) = 0 THEN 3 ELSE 2
    BY <1>6 DEF DeclaredCells, HeaderCells, BIG_HEADER, REQUEST_HEADER
  <2>2. DeclaredCells(d, st, b, o) \in {2, 3}
    BY <2>1
  <2>3. o + 2 <= Len(b.mem)
    BY <1>2, <2>2
  <2>4. cell(2) \in Cell
    BY <1>1, <2>3
  <2>5. cell(2) = 0 => cell(3) \in Cell
    BY <1>1, <1>2, <2>1, <2>3
  <2>6. Declared(d, st, b, o) = IF cell(2) = 0 THEN cell(3) ELSE cell(2)
    BY <1>6 DEF Declared
  <2> HIDE DEF cell
  <2>7. Declared(d, st, b, o) \in Cell
    BY <2>4, <2>5, <2>6
  <2> QED BY <2>7, CellMaxAssumption, SizeMaxAssumption DEF Cell
<1> QED BY <1>3, <1>4, <1>5, <1>6 DEF Dirs, Statuses

LEMMA ParseHeaderStep == IInv /\ ParseHeader => IInv'
<1> SUFFICES ASSUME IInv, ParseHeader, NEW d \in Dirs, d = side,
                    NEW b, b = buf[d]
             PROVE  IInv'
  BY DEF IInv, Typed
<1> DEFINE z == Declared(d, status, b, off)
           r == [b EXCEPT !.nms = z]
<1>1. b \in Buffer /\ status \in Statuses /\ off \in Nat
  BY DEF IInv, Typed
<1>2. CASE Die("undefined") \/ Die("parse")
  <2>1. UNCHANGED env
    BY DEF ParseHeader
  <2> QED BY <1>2, <2>1, EndStep DEF Die, Causes
<1>3. CASE ~(Die("undefined") \/ Die("parse"))
  <2>1. /\ pc = "parse" /\ HeaderInStorage(d, status, b, off)
        /\ buf' = [buf EXCEPT ![d].nms = z]
        /\ UNCHANGED <<taken, out, logged, status, ctl>> /\ UNCHANGED env
    BY <1>3 DEF ParseHeader
  <2>2. z \in 0 .. SIZE_MAX
    <3>1. z \in 0 .. (SIZE_MAX - 1)
      BY <1>1, <2>1, DeclaredType
    <3> QED BY <3>1, SizeMaxAssumption
  <2> HIDE DEF z
  <2>3. /\ r \in Buffer /\ r.mem = b.mem /\ r.read = b.read
        /\ r.parsed = b.parsed /\ r.written = b.written
    BY <1>1, <2>2 DEF Buffer
  <2>4. buf' = [buf EXCEPT ![d] = r] /\ buf \in [Dirs -> Buffer]
    BY <2>1 DEF IInv, Typed
  <2> HIDE DEF r
  <2>5. /\ buf'[d] = r /\ buf' \in [Dirs -> Buffer]
        /\ \A e \in Dirs : e # d => buf'[e] = buf[e]
    BY <2>3, <2>4
  <2>6. Typed'
    BY <2>1, <2>5 DEF IInv, Typed, env, ctl
  <2>7. DirOK(d)'
    <3>1. DirOK(d)
      BY DEF IInv
    <3>2. Size(buf'[d]) = Size(b) /\ (Counted(b) => Counted(buf'[d]))
      BY <2>3, <2>5 DEF Size, Counted
    <3> QED BY <2>1, <2>3, <2>5, <3>1, <3>2 DEF DirOK, env
  <2>8. \A e \in Dirs : DirOK(e)'
    <3> SUFFICES ASSUME NEW e \in Dirs, e # d PROVE DirOK(e)'
      BY <2>7
    <3>1. DirOK(e)
      BY DEF IInv
    <3> QED BY <2>1, <2>5, <3>1, DirFrame DEF env
  <2>9. SettledSides'
    <3> SUFFICES ASSUME NEW e \in Dirs, e = Other(side) PROVE Settled(e)'
      BY <2>1, OtherType DEF SettledSides, IInv, Typed, ctl
    <3>1. Settled(e) /\ buf'[e] = buf[e]
      BY <2>1, <2>5, OtherType DEF IInv, SettledSides
    <3> QED BY <3>1 DEF Settled
  <2>10. FlagsFit'
    BY <2>1 DEF IInv, FlagsFit, ctl
  <2> QED BY <2>6, <2>8, <2>9, <2>10 DEF IInv
<1> QED BY <1>2, <1>3

LEMMA ParseMessageStep == IInv /\ ParseMessage => IInv'
<1> SUFFICES ASSUME IInv, ParseMessage, NEW d \in Dirs, d = side,
                    NEW b, b = buf[d]
             PROVE  IInv'
  BY DEF IInv, Typed
<1> DEFINE r == MessageParsed(b)
<1>1. b \in Buffer /\ status \in Statuses /\ off \in Nat /\ b.nms \in Nat
  BY BufferFields DEF IInv, Typed
<1>2. CASE Die("parse") \/ Die("setup")
  <2>1. UNCHANGED env
    BY DEF ParseMessage
  <2> QED BY <1>2, <2>1, EndStep DEF Die, Causes
<1>3. CASE ~(Die("parse") \/ Die("setup"))
  <2>1. /\ pc = "parse" /\ MarkAsserts(b)
        /\ status' \in Statuses
        /\ buf' = [buf EXCEPT ![d] = r]
        /\ logged' = [logged EXCEPT ![d] = Append(@, b.nms)]
        /\ off' = off + b.nms
        /\ UNCHANGED <<taken, out, revents, side, pc, cause>>
        /\ UNCHANGED env
    BY <1>1, <1>3 DEF ParseMessage, Statuses
  <2>2. DirOK(d) /\ Counted(b)
    BY DEF IInv, DirOK
  <2>3. /\ r \in Buffer /\ Counted(r)
        /\ r.mem = b.mem /\ r.read = b.read /\ r.written = b.written
    BY <1>1, <2>1, <2>2, MessageParsedKeeps
  <2> HIDE DEF r
  <2>4. /\ buf'[d] = r /\ buf' \in [Dirs -> Buffer]
        /\ \A e \in Dirs : e # d => buf'[e] = buf[e]
    BY <2>1, <2>3 DEF IInv, Typed
  <2>5. Typed'
    <3>1. logged' \in [Dirs -> Seq(Nat)]
      BY <1>1, <2>1 DEF IInv, Typed
    <3>2. off' \in Nat
      BY <1>1, <2>1
    <3> QED BY <2>1, <2>4, <3>1, <3>2 DEF IInv, Typed, env
  <2>6. DirOK(d)'
    <3>1. Size(buf'[d]) = Size(b)
      BY <2>3, <2>4 DEF Size
    <3>2. script' = script /\ avail' = avail /\ taken' = taken /\ out' = out
      BY <2>1 DEF env
    <3> QED BY <2>2, <2>3, <2>4, <3>1, <3>2 DEF DirOK
  <2>7. \A e \in Dirs : DirOK(e)'
    <3> SUFFICES ASSUME NEW e \in Dirs, e # d PROVE DirOK(e)'
      BY <2>6
    <3>1. DirOK(e)
      BY DEF IInv
    <3> QED BY <2>1, <2>4, <3>1, DirFrame DEF env
  <2>8. SettledSides'
    <3> SUFFICES ASSUME NEW e \in Dirs, e = Other(side) PROVE Settled(e)'
      BY <2>1, OtherType DEF SettledSides, IInv, Typed
    <3>1. Settled(e) /\ buf'[e] = buf[e]
      BY <2>1, <2>4, OtherType DEF IInv, SettledSides
    <3> QED BY <3>1 DEF Settled
  <2>9. FlagsFit'
    BY <2>1 DEF IInv, FlagsFit
  <2> QED BY <2>5, <2>7, <2>8, <2>9 DEF IInv
<1> QED BY <1>2, <1>3

-----------------------------------------------------------------------------
(* The invariant holds of every behaviour.                                 *)

LEMMA NextIInv == IInv /\ [Next]_vars => IInv'
<1> SUFFICES ASSUME IInv, [Next]_vars PROVE IInv'
  OBVIOUS
<1>1. CASE Proxy
  BY <1>1, PollStep, ServeReadStep, ServeWriteStep, ServeIdleStep,
     ParseLeaveStep, ParseHeaderStep, ParseMessageStep DEF Proxy
<1>2. CASE Peers
  BY <1>2, PeersStep
<1>3. CASE UNCHANGED vars
  <2>1. /\ UNCHANGED <<script, data, ctl>> /\ avail' = avail
        /\ closed' = closed /\ reset' = reset /\ willing' = willing
    BY <1>3 DEF vars, env
  <2>2. \A d \in Dirs : taken[d] <= avail[d] /\ avail[d] <= Len(script[d].cells)
    BY DEF IInv, DirOK
  <2>3. avail \in [Dirs -> Nat] /\ closed \in [Dirs -> BOOLEAN]
        /\ reset \in [Dirs -> BOOLEAN] /\ willing \in [Dirs -> BOOLEAN]
    BY DEF IInv, Typed
  <2> QED BY <2>1, <2>2, <2>3, PeerStep
<1> QED BY <1>1, <1>2, <1>3 DEF Next

THEOREM SpecIInv == Spec => []IInv
<1>1. Init => IInv
  BY InitIInv
<1>2. IInv /\ [Next]_vars => IInv'
  BY NextIInv
<1> QED BY <1>1, <1>2, PTL DEF Spec

(* Every variable keeps its type, and no difference of a buffer's counters *)
(* ever goes below zero.                                                   *)
THEOREM TypeCorrect == Spec => []TypeOK
<1>1. IInv => TypeOK
  BY DEF IInv, DirOK, TypeOK
<1> QED BY <1>1, SpecIInv, PTL

(* Each direction forwards a prefix of what its sender sent, and holds the *)
(* rest of what was received, in order and unaltered.                      *)
THEOREM RelayIsFaithful == Spec => []SentAsReceived
<1>1. IInv => SentAsReceived
  BY DEF IInv, DirOK, SentAsReceived
<1> QED BY <1>1, SpecIInv, PTL

(* Every write() reaches clear().                                          *)
THEOREM WritesAlwaysDrain == Spec => []WritesDrain
<1>1. IInv => WritesDrain
  BY DEF IInv, DirOK, WritesDrain
<1> QED BY <1>1, SpecIInv, PTL

(* A settled buffer that does not want to read holds something logged.     *)
LEMMA PollAssertionsInv == IInv => PollAssertions
<1> SUFFICES ASSUME IInv, pc = "poll", NEW d \in Dirs, NEW b, b = buf[d],
                    ~ReadReady(b)
             PROVE  WriteReady(b)
  BY DEF PollAssertions
<1>1. b \in Buffer /\ DirOK(d) /\ Settled(d)
  BY DEF IInv, Typed, SettledSides
<1>2. Unparsed(b) = 0 /\ ~Empty(b) /\ b.written = 0
  BY <1>1 DEF Settled, ReadReady, DirOK
<1>3. b.parsed > 0
  BY <1>1, <1>2, BufferFields DEF Unparsed, Size, Empty
<1> QED BY <1>2, <1>3 DEF WriteReady

(* The assertions of _updatePollFlags never fail.                          *)
THEOREM PollAssertionsHold == Spec => []PollAssertions
  BY PollAssertionsInv, SpecIInv, PTL

=============================================================================
