------------------------------- MODULE Relay -------------------------------
(***************************************************************************)
(* One connection of the proxy: the two sockets, the two buffers, and the  *)
(* passes of ProxyX11Server::_processClientQueue over them.  A pass sets   *)
(* the poll flags, polls, and serves the client's side and then the        *)
(* server's; serving a side reads from it and logs what is complete, or    *)
(* writes to it what was logged from the other side.                       *)
(*                                                                         *)
(* The peers are the environment: each has a script of cells to send, puts *)
(* some of them into its socket at a time, may leave its receiving side    *)
(* full for a while, and may close or reset its end.                       *)
(***************************************************************************)
EXTENDS Framing, FiniteSets

CONSTANTS
  Scripts,      \* Scripts[d]: what side d may send: all its cells, the ends
                \* of the messages they form, and the end of the first one
  Chunks,       \* how the cells arrive: "framed", "leading" or "free"
  PeersClose    \* TRUE: peers may close their sockets

ASSUME ScriptsAssumption ==
  \A d \in Dirs : \A s \in Scripts[d] :
    /\ s.cells \in Seq(Cell)
    /\ s.ends \subseteq 1 .. Len(s.cells)
    /\ s.setup \in s.ends

(* The message that begins after the m-th cell of script s ends at e.      *)
NextMessage(s, m, e) ==
  e \in s.ends /\ m < e /\ \A x \in s.ends : x <= m \/ e <= x

(* The size that the X11 protocol gives the message of side d that begins  *)
(* after the m-th cell of s, and how far its header reaches to say so.     *)
ProtocolSize(d, s, m) ==
  LET cell(i) == s.cells[m + i]
  IN  CASE d = "client" /\ m = 0 -> INIT_HEADER + cell(2) + cell(3)
        [] d = "client" /\ m > 0 -> IF cell(2) = 0 THEN cell(3) ELSE cell(2)
        [] d = "server" /\ m = 0 -> RESPONSE_HEADER + cell(2)
        [] d = "server" /\ m > 0 ->
             ENCODING_SZ + (IF cell(1) = REPLY_PREFIX THEN cell(2) ELSE 0)

ProtocolHeader(d, s, m) ==
  IF d = "client" /\ (m = 0 \/ s.cells[m + 2] = 0) THEN 3 ELSE 2

(* Everything side d sends is a run of messages whose headers say where    *)
(* they end, a valid Initiation or an accepting InitResponse first.        *)
WholeMessages(d, s) ==
  /\ \A e \in s.ends : s.setup <= e
  /\ s.cells[1] = IF d = "client" THEN ORDER ELSE SUCCESS
  /\ \A m \in s.ends \cup {0} : m < Len(s.cells) =>
       \E e \in s.ends :
         /\ NextMessage(s, m, e)
         /\ e - m = ProtocolSize(d, s, m)
         /\ e - m >= ProtocolHeader(d, s, m)
         /\ e - m + BLOCK_SZ <= SIZE_MAX

(* Framed arrival is about peers that keep to the protocol, and about a    *)
(* block that holds any header.                                            *)
ASSUME FramedAssumption ==
  Chunks = "framed" =>
    /\ BLOCK_SZ >= INIT_HEADER
    /\ \A d \in Dirs : \A s \in Scripts[d] : WholeMessages(d, s)

ASSUME ChunksAssumption     == Chunks \in {"framed", "leading", "free"}
ASSUME PeersCloseAssumption == PeersClose \in BOOLEAN

VARIABLES
  script,       \* script[d]: the script side d follows
  avail,        \* avail[d]: cells side d has put into its socket
  taken,        \* taken[d]: cells the proxy has received from side d
  closed,       \* closed[d]: side d has closed its socket
  reset,        \* reset[d]: what is sent to it is refused, and its end
                \* shows as an error once its data are read
  willing,      \* willing[d]: side d's socket accepts data
  buf,          \* buf[d]: the buffer of data from side d
  status,       \* Connection::status
  out,          \* out[d]: the cells of side d sent on to the other side
  logged,       \* logged[d]: the sizes of the messages logged from side d
  revents,      \* revents[d]: what poll() returned for side d's socket
  side,         \* the side the pass is serving
  pc,           \* "poll", "serve", "parse", "end"
  off,          \* the parser's `data' pointer, an offset into the storage
  cause         \* why pc = "end"

env   == <<script, avail, closed, reset, willing>>
data  == <<taken, buf, out, logged, status>>
ctl   == <<revents, side, pc, off, cause>>
vars  == <<env, data, ctl>>

Other(d) == IF d = "client" THEN "server" ELSE "client"

(* What ended it: one side's EOF, an error on its socket, the assertion on *)
(* the poll flags, on a buffer's capacity, on the setup's outcome, one of  *)
(* the parser, an access outside the storage, or SIGPIPE.                  *)
Causes == {"none", "eof", "reset", "poll", "capacity", "setup", "parse",
           "undefined", "sigpipe"}

-----------------------------------------------------------------------------
(* The peers.                                                              *)

(* A client sends its Initiation and waits, a server answers it; requests  *)
(* and what they bring about follow once the client has the answer.        *)
SendLimit(d) ==
  IF Len(out["server"]) >= script["server"].setup THEN Len(script[d].cells)
  ELSE IF d = "client" \/ Len(out["client"]) >= script["client"].setup
       THEN script[d].setup ELSE 0

(* Cells past those sent on, up to the k-th, are a run of whole messages   *)
(* that fits a block, or the beginning of a single message.                *)
NoPartialBehind(d, k) ==
  LET start  == Len(out[d])
      inside == {e \in script[d].ends : start < e /\ e <= k}
  IN  inside = {} \/ inside = {k} \/ (k \in inside /\ k - start <= BLOCK_SZ)

(* The beginning of a server message shows at least its first 8 bytes.     *)
HeaderWhole(d, k) ==
  d = "server" /\ k \notin script[d].ends => k - Len(out[d]) >= 2

(* With "leading" a partial message is never received behind another, with *)
(* "framed" its header is not split either, with "free" anything goes.     *)
MayArrive(d, k) ==
  /\ Chunks # "free" => NoPartialBehind(d, k)
  /\ Chunks = "framed" => HeaderWhole(d, k)

PeerSend(d) ==
  /\ ~closed[d]
  /\ \E k \in (avail[d] + 1) .. SendLimit(d) :
       /\ MayArrive(d, k)
       /\ avail' = [avail EXCEPT ![d] = k]
  /\ UNCHANGED <<script, closed, reset, willing, data, ctl>>

PeerClose(d) ==
  /\ PeersClose
  /\ ~closed[d]
  /\ closed' = [closed EXCEPT ![d] = TRUE]
  /\ UNCHANGED <<script, avail, reset, willing, data, ctl>>

(* The peer closes with data unread, its host refuses what is sent to a    *)
(* closed socket, or goes down.                                            *)
PeerReset(d) ==
  /\ PeersClose
  /\ ~reset[d]
  /\ closed' = [closed EXCEPT ![d] = TRUE]
  /\ reset' = [reset EXCEPT ![d] = TRUE]
  /\ UNCHANGED <<script, avail, willing, data, ctl>>

(* The peer has made room for more data.                                   *)
PeerResumes(d) ==
  /\ ~willing[d]
  /\ willing' = [willing EXCEPT ![d] = TRUE]
  /\ UNCHANGED <<script, avail, closed, reset, data, ctl>>

-----------------------------------------------------------------------------
(* Ends of the connection or of the process.                               *)

End(why) == pc' = "end" /\ cause' = why

(* _closeConnections: both sockets are closed and what the buffers hold is *)
(* discarded.                                                              *)
CloseConnection(why) ==
  /\ End(why)
  /\ UNCHANGED <<taken, buf, out, logged, status, revents, side, off>>

(* The process stops: a failed assertion, undefined behaviour, a signal.   *)
Die(why) ==
  /\ End(why)
  /\ UNCHANGED <<taken, buf, out, logged, status, revents, side, off>>

Events == {"POLLIN", "POLLOUT", "POLLHUP", "POLLERR"}

NoEvents == [d \in Dirs |-> {}]

(* After one side, the other; after the server's, the next pass.  What     *)
(* poll() returned for a side is not looked at again.                      *)
NextSide ==
  /\ revents' = [revents EXCEPT ![side] = {}]
  /\ \/ side = "client" /\ pc' = "serve" /\ side' = "server"
     \/ side = "server" /\ pc' = "poll"  /\ side' = "client"

-----------------------------------------------------------------------------
(* _updatePollFlags and poll().                                            *)

(* Variants: a side is read whatever waits to go on; a buffer's data are   *)
(* offered to the side they came from.                                     *)
PollFlags_AlwaysIn(d) ==
  {"POLLIN"} \cup (IF ReadReady(buf[Other(d)]) THEN {} ELSE {"POLLOUT"})

PollFlags_SameSide(d) ==
  IF ReadReady(buf[d]) THEN {"POLLIN"} ELSE {"POLLOUT"}

PollFlags(d) ==
  (IF ReadReady(buf[d]) THEN {"POLLIN"} ELSE {}) \cup
  (IF ReadReady(buf[Other(d)]) THEN {} ELSE {"POLLOUT"})

Ready(d) ==
  (IF taken[d] < avail[d] \/ closed[d] THEN {"POLLIN"} ELSE {}) \cup
  (IF willing[d] \/ closed[d] THEN {"POLLOUT"} ELSE {})

(* What poll() reports whether it was asked to or not.                     *)
Conditions(d) ==
  (IF closed[d] THEN {"POLLHUP"} ELSE {}) \cup
  (IF reset[d] THEN {"POLLERR"} ELSE {})

Returned(d) == (PollFlags(d) \cap Ready(d)) \cup Conditions(d)

(* Variant: _socketPollError with its line for POLLHUP.                    *)
PollError_HangUp(d) == revents[d] \cap {"POLLERR", "POLLHUP"} # {}

PollError(d) == "POLLERR" \in revents[d]

Poll ==
  /\ pc = "poll"
  /\ IF \A d \in Dirs : ReadReady(buf[d]) \/ WriteReady(buf[d])
     THEN /\ \E d \in Dirs : Returned(d) # {}
          /\ revents' = [d \in Dirs |-> Returned(d)]
          /\ pc' = "serve"
          /\ UNCHANGED <<data, side, off, cause>>
     ELSE Die("poll")
  /\ UNCHANGED env

-----------------------------------------------------------------------------
(* Serving a side: the first half of its branch in _processPolledSockets.  *)

Min2(a, b) == IF a <= b THEN a ELSE b

(* What a peer had sent is received before its end or its error is.        *)
ServeRead ==
  /\ pc = "serve"
  /\ "POLLIN" \in revents[side]
  /\ LET b == buf[side]
         n == BytesToRead(b)
         k == Min2(n, avail[side] - taken[side])
     IN  IF ~ReadAsserts(b, n) THEN Die("capacity")
         ELSE IF ~InStorage(b, n) THEN Die("undefined")
         ELSE IF k = 0
         THEN CloseConnection(IF n > 0 /\ reset[side] THEN "reset" ELSE "eof")
         ELSE /\ buf' = [buf EXCEPT ![side] =
                           Received(b, n, script[side].cells, taken[side], k)]
              /\ taken' = [taken EXCEPT ![side] = @ + k]
              /\ pc' = "parse"
              /\ off' = b.written
              /\ UNCHANGED <<out, logged, status, revents, side, cause>>
  /\ UNCHANGED env

(* The send may fill the peer's socket.  A send to a peer that has closed  *)
(* is taken by the kernel (and lost), fails with the error of a reset, or  *)
(* raises SIGPIPE, which nothing in the program handles.                   *)
ServeWrite ==
  /\ pc = "serve"
  /\ "POLLIN" \notin revents[side]
  /\ "POLLOUT" \in revents[side]
  /\ WriteReady(buf[Other(side)])
  /\ LET d == Other(side)
         b == buf[d]
     IN  \/ /\ buf' = [buf EXCEPT ![d] = Written(b)]
            /\ out' = [out EXCEPT ![d] =
                         Continued(@, b.mem, b.written, b.parsed)]
            /\ \E room \in BOOLEAN : willing' = [willing EXCEPT ![side] = room]
            /\ NextSide
            /\ UNCHANGED <<taken, logged, status, off, cause>>
         \/ closed[side] /\ Die("sigpipe") /\ UNCHANGED willing
         \/ reset[side] /\ CloseConnection("reset") /\ UNCHANGED willing
  /\ UNCHANGED <<script, avail, closed, reset>>

(* Neither read nor written, a side is looked at for an error, which       *)
(* closes the connection whatever the buffers hold.                        *)
ServeIdle ==
  /\ pc = "serve"
  /\ "POLLIN" \notin revents[side]
  /\ "POLLOUT" \notin revents[side] \/ ~WriteReady(buf[Other(side)])
  /\ IF PollError(side)
     THEN CloseConnection("reset")
     ELSE NextSide /\ UNCHANGED <<data, off, cause>>
  /\ UNCHANGED env

-----------------------------------------------------------------------------
(* The loop of logClientMessages and logServerMessages, one iteration per  *)
(* step.                                                                   *)

(* The loop is left: everything is parsed, or a message is incomplete.     *)
ParseLeave ==
  /\ pc = "parse"
  /\ \/ Unparsed(buf[side]) = 0
     \/ /\ Unparsed(buf[side]) > 0
        /\ ~MessageSizeSet(buf[side])
        /\ ~HeaderTest(side, status, buf[side], off)
     \/ /\ MessageSizeSet(buf[side])
        /\ IncompleteMessage(buf[side])
  /\ NextSide
  /\ off' = 0
  /\ UNCHANGED <<data, cause, env>>

(* The next message's size is taken from its header.                       *)
ParseHeader ==
  /\ pc = "parse"
  /\ LET b == buf[side]
     IN  /\ Unparsed(b) > 0
         /\ ~MessageSizeSet(b)
         /\ HeaderTest(side, status, b, off)
         /\ IF ~HeaderInStorage(side, status, b, off) THEN Die("undefined")
            ELSE IF /\ side = "client" /\ status = "UNESTABLISHED"
                    /\ b.mem[off + 1] # ORDER
            THEN Die("parse")
            ELSE /\ buf' = [buf EXCEPT ![side].nms =
                              Declared(side, status, b, off)]
                 /\ UNCHANGED <<taken, out, logged, status, ctl>>
  /\ UNCHANGED env

(* A complete message is logged and marked.  The server's answer to the    *)
(* Initiation decides the status, and any but OPEN fails an assertion.     *)
ParseMessage ==
  /\ pc = "parse"
  /\ LET b       == buf[side]
         setup   == side = "server" /\ status = "UNESTABLISHED"
         success == b.mem[off + 1]
     IN  /\ Unparsed(b) > 0
         /\ MessageSizeSet(b)
         /\ ~IncompleteMessage(b)
         /\ \/ /\ MarkAsserts(b)
               /\ side = "client" => b.nms >= REQUEST_HEADER
               /\ setup => success = SUCCESS
               /\ status' = IF setup THEN "OPEN" ELSE status
               /\ buf' = [buf EXCEPT ![side] = MessageParsed(b)]
               /\ logged' = [logged EXCEPT ![side] = Append(@, b.nms)]
               /\ off' = off + b.nms
               /\ UNCHANGED <<taken, out, revents, side, pc, cause>>
            \/ ~WellFormed(side, status, b, off) /\ Die("parse")
            \/ setup /\ success # SUCCESS /\ Die("setup")
  /\ UNCHANGED env

-----------------------------------------------------------------------------

Init ==
  /\ script  \in [Dirs -> UNION {Scripts[d] : d \in Dirs}]
  /\ \A d \in Dirs : script[d] \in Scripts[d]
  /\ avail   = [d \in Dirs |-> 0]
  /\ taken   = [d \in Dirs |-> 0]
  /\ closed  = [d \in Dirs |-> FALSE]
  /\ reset   = [d \in Dirs |-> FALSE]
  /\ willing = [d \in Dirs |-> TRUE]
  /\ buf     = [d \in Dirs |-> Fresh]
  /\ status  = "UNESTABLISHED"
  /\ out     = [d \in Dirs |-> <<>>]
  /\ logged  = [d \in Dirs |-> <<>>]
  /\ revents = NoEvents
  /\ side    = "client"
  /\ pc      = "poll"
  /\ off     = 0
  /\ cause   = "none"

Proxy == \/ Poll \/ ServeRead \/ ServeWrite \/ ServeIdle
         \/ ParseLeave \/ ParseHeader \/ ParseMessage

Peers == \E d \in Dirs :
  PeerSend(d) \/ PeerClose(d) \/ PeerReset(d) \/ PeerResumes(d)

Next == Proxy \/ Peers

Spec == Init /\ [][Next]_vars

(* The proxy keeps running its loop, and a peer that stopped taking data   *)
(* starts again.  Nothing makes a peer send.                               *)
Fairness == WF_vars(Proxy) /\ \A d \in Dirs : WF_vars(PeerResumes(d))

FairSpec == Spec /\ Fairness

-----------------------------------------------------------------------------
(* Properties.                                                             *)

Typed ==
  /\ script  \in [Dirs -> UNION {Scripts[d] : d \in Dirs}]
  /\ \A d \in Dirs : script[d] \in Scripts[d]
  /\ avail   \in [Dirs -> Nat]
  /\ taken   \in [Dirs -> Nat]
  /\ closed  \in [Dirs -> BOOLEAN]
  /\ reset   \in [Dirs -> BOOLEAN]
  /\ willing \in [Dirs -> BOOLEAN]
  /\ buf     \in [Dirs -> Buffer]
  /\ status  \in Statuses
  /\ out     \in [Dirs -> Seq(Cell)]
  /\ logged  \in [Dirs -> Seq(Nat)]
  /\ revents \in [Dirs -> SUBSET Events]
  /\ side    \in Dirs
  /\ pc      \in {"poll", "serve", "parse", "end"}
  /\ off     \in Nat
  /\ cause   \in Causes

(* Every variable keeps its type, and the counters of a buffer their       *)
(* order: the differences that size() and messageSize() compute in size_t  *)
(* never wrap, and nothing is counted that is not in the storage.          *)
TypeOK == Typed /\ \A d \in Dirs : Counted(buf[d])

(* Cells of side d that belong to logged messages.                         *)
Marked(d) == Len(out[d]) + buf[d].parsed

(* What was sent on and what is buffered are, in order, exactly the cells  *)
(* received: buffering, growing, logging and clearing never lose, repeat   *)
(* or alter one.                                                           *)
SentAsReceived ==
  \A d \in Dirs :
    /\ taken[d] = Len(out[d]) + Size(buf[d])
    /\ \A i \in 1 .. Len(out[d]) : out[d][i] = script[d].cells[i]
    /\ \A i \in 1 .. Size(buf[d]) :
         buf[d].mem[buf[d].written + i] = script[d].cells[Len(out[d]) + i]

(* The assertions of _updatePollFlags: a buffer that does not want to read *)
(* has something to write, or the connection would never be polled again.  *)
PollAssertions ==
  pc = "poll" => \A d \in Dirs : ReadReady(buf[d]) \/ WriteReady(buf[d])

(* A write always empties its buffer, so the parser always starts at the   *)
(* front of the storage: `clear' is reached by every write.                *)
WritesDrain == \A d \in Dirs : buf[d].written = 0

(* No assertion fails, nothing throws, and no access leaves the storage.   *)
NoFault == cause \in {"none", "eof", "reset", "sigpipe"}

(* The assertion of `SocketBuffer::read': after a resize the buffer can    *)
(* take what is to be read.                                                *)
CapacitySuffices == cause # "capacity"

(* A connection is closed only for a side that has closed, "got EOF", or   *)
(* that was reset.                                                         *)
EofIsReal ==
  /\ cause = "eof"   => \E d \in Dirs : closed[d]
  /\ cause = "reset" => \E d \in Dirs : reset[d]

(* The log's messages are the messages that were sent: each logged one     *)
(* ends where the sender's does, and none is skipped.                      *)
LogMatchesMessages ==
  \A d \in Dirs :
    LET ends == script[d].ends
    IN  /\ Marked(d) \in ends \cup {0}
        /\ Len(logged[d]) = Cardinality({e \in ends : e <= Marked(d)})

(* When the proxy closes the connection of a side that closed, every       *)
(* message that side had sent has gone on to the other, unless it was a    *)
(* reset: poll() then reports an error of a side whose buffer waits to be  *)
(* written, and the branch for it discards the logged messages there.      *)
NothingLostOnClose ==
  \A d \in Dirs :
    /\ cause \in {"eof", "reset"}
    /\ closed[d] /\ ~reset[d] /\ ~closed[Other(d)]
    => \A e \in script[d].ends : e <= avail[d] => e <= Len(out[d])

(* Nothing is read from a side while logged messages of it wait to go on:  *)
(* the buffer is bounded by one block or one message.                      *)
Backpressure ==
  [][\A d \in Dirs : taken'[d] # taken[d] => buf[d].parsed = 0]_vars

(* Each direction is a pipe: what goes on is what came in, once logged.    *)
Requests == INSTANCE Pipe WITH
  received <- SubSeq(script["client"].cells, 1, taken["client"]),
  marked   <- Marked("client"),
  sent     <- out["client"]

Responses == INSTANCE Pipe WITH
  received <- SubSeq(script["server"].cells, 1, taken["server"]),
  marked   <- Marked("server"),
  sent     <- out["server"]

RelaysLikePipes == Requests!PipeSpec /\ Responses!PipeSpec

(* A message put into a socket in full is in the end sent on to the other  *)
(* side, whatever that side is sending meanwhile, unless the connection    *)
(* ends.                                                                   *)
Delivered ==
  \A d \in Dirs : \A e \in UNION {s.ends : s \in Scripts[d]} :
    (e \in script[d].ends /\ avail[d] >= e)
      ~> (Len(out[d]) >= e \/ pc = "end")

=============================================================================
