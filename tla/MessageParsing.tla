--------------------------- MODULE MessageParsing ---------------------------
(***************************************************************************)
(* The parser of one connection over its messages: a complete message lies *)
(* in one of the buffers, logClientMessages or logServerMessages hands it  *)
(* to its parse function, compares the bytes that were walked with the     *)
(* size from the message's header and marks it as parsed. Messages are     *)
(* what clients and servers may send: every kind, with lists and strings   *)
(* of the lengths in Counts, encoded as the protocol's structures are.     *)
(***************************************************************************)
EXTENDS Integers, Sequences

CONSTANTS Counts,        \* lengths of lists and strings
          Widths,        \* lengths of strings in lists, and second factors
          Requests,      \* the kinds of requests that clients send
          Replies,       \* the kinds of replies
          Screens        \* what an acceptance may have as screens

ASSUME CountsAssumption == Counts \subseteq Nat /\ Widths \subseteq Nat

ReqEnc == INSTANCE RequestEncodings
ReqParse == INSTANCE RequestParsers
RepEnc == INSTANCE ReplyEncodings
RepParse == INSTANCE ReplyParsers
EvEnc == INSTANCE EventEncodings
Step == INSTANCE MessageWalk
Setup == INSTANCE SetupMessages

\* A screen is the sequence of the numbers of visuals that its depths have.
ASSUME KindsAssumption ==
  /\ Requests \subseteq ReqEnc!RequestKinds
  /\ Replies \subseteq RepEnc!ReplyKinds
  /\ Screens \subseteq Seq(Seq(Nat))

VARIABLES phase,    \* what the parser is about: see Phases
          status,   \* Connection::status
          byteswap, \* the client's byte order is not the parser's
          enabled,  \* the connection has enabled BIG-REQUESTS
          initiated,\* the client's Initiation has been parsed
          msg,      \* the message in the buffer, if any
          walk      \* how its parse function has walked through it

vars == <<phase, status, byteswap, enabled, initiated, msg, walk>>

NoMessage == [class |-> "none"]
NoWalk == [at |-> 0, ok |-> TRUE, reach |-> 0, logged |-> 0]

(***************************************************************************)
(* idle      no complete message in the buffers                            *)
(* complete  a message is complete and not parsed                          *)
(* parsed    its parse function has returned                               *)
(* aborted   an assertion has failed, or std::out_of_range was not caught  *)
(***************************************************************************)
Phases == {"idle", "complete", "parsed", "aborted"}
Statuses == {"UNESTABLISHED", "OPEN"}

Init ==
  /\ phase = "idle"
  /\ status = "UNESTABLISHED"
  /\ byteswap = FALSE
  /\ enabled = FALSE
  /\ initiated = FALSE
  /\ msg = NoMessage
  /\ walk = NoWalk

Completes(m) ==
  /\ phase' = "complete"
  /\ msg' = m
  /\ UNCHANGED <<status, enabled, initiated, walk>>

-----------------------------------------------------------------------------
(* The messages that peers send                                            *)

SetupMessage(kinds, order) ==
  {[m EXCEPT !.sz = Setup!SetupSize(m)] : m \in
     {m \in [class : {"setup"}, kind : kinds, n : Counts, k : Counts,
             screens : Screens, swap : {order}, stray : BOOLEAN, sz : {0}] :
        Setup!SetupFits(m) /\ Setup!SetupIdsFit(m)}}

\* The byte order is the client's choice.
InitiationArrives ==
  /\ phase = "idle" /\ status = "UNESTABLISHED" /\ ~initiated
  /\ \E order \in BOOLEAN : \E m \in SetupMessage({"Initiation"}, order) :
       byteswap' = order /\ Completes(m)

InitResponseArrives ==
  /\ phase = "idle" /\ status = "UNESTABLISHED" /\ initiated
  /\ \E m \in SetupMessage(Setup!SetupKinds \ {"Initiation"}, byteswap) :
       Completes(m)
  /\ UNCHANGED byteswap

RequestMessage ==
  {[m EXCEPT !.sz = ReqEnc!RequestSize(m)] : m \in
     {m \in [class : {"request"}, kind : Requests, n : Counts, k : Widths,
             opt : BOOLEAN, big : BOOLEAN, enabled : {enabled},
             swap : {byteswap}, stray : BOOLEAN, sz : {0}] :
        ReqEnc!CountsFit(m) /\ ReqEnc!LengthFits(m) /\ ReqEnc!IdsFit(m)}}

RequestArrives ==
  /\ phase = "idle" /\ status = "OPEN"
  /\ \E m \in RequestMessage : Completes(m)
  /\ UNCHANGED byteswap

ReplyMessage ==
  {[m EXCEPT !.sz = RepEnc!ReplySize(m)] : m \in
     {m \in [class : {"reply"}, kind : Replies, n : Counts,
             k : Widths \cup Counts, opt : BOOLEAN, enabled : {enabled},
             swap : {byteswap}, stray : BOOLEAN, sz : {0}] :
        RepEnc!ReplyCountsFit(m) /\ RepEnc!ReplyIdsFit(m)}}

ReplyArrives ==
  /\ phase = "idle" /\ status = "OPEN"
  /\ \E m \in ReplyMessage : Completes(m)
  /\ UNCHANGED byteswap

EventMessage(of, kinds) ==
  {m \in [class : {of}, kind : kinds, swap : {byteswap}, stray : BOOLEAN,
          sz : {32}] : EvEnc!EventIdsFit(m)}

EventArrives ==
  /\ phase = "idle" /\ status = "OPEN"
  /\ \E m \in EventMessage("event", DOMAIN EvEnc!Events \cup {"UnknownEvent"}) :
       Completes(m)
  /\ UNCHANGED byteswap

ErrorArrives ==
  /\ phase = "idle" /\ status = "OPEN"
  /\ \E m \in EventMessage("error", DOMAIN EvEnc!Errors \cup {"UnknownError"}) :
       Completes(m)
  /\ UNCHANGED byteswap

-----------------------------------------------------------------------------
(* The parser                                                              *)

ParseWalk(m) ==
  CASE m.class = "setup" -> Setup!SetupWalk(m)
    [] m.class = "request" -> ReqParse!RequestWalk(m)
    [] m.class = "reply" -> RepParse!ReplyWalk(m)
    [] m.class = "event" -> EvEnc!EventWalk(m, EvEnc!Events)
    [] m.class = "error" -> EvEnc!EventWalk(m, EvEnc!Errors)

WalkOf(m) == Step!Formatted(m, ParseWalk(m))

\* What parsing a message changes for those that follow
Effects(m) ==
  /\ initiated' = (initiated \/ m.kind = "Initiation")
  /\ status' = IF m.kind = "Acceptance" THEN "OPEN" ELSE status
  /\ enabled' = (enabled \/ (m.class = "reply" /\ m.kind = "BigReqEnable"))

\* assert( bytes_parsed == buffer.messageSize() )
LogMessage ==
  /\ phase = "complete"
  /\ walk' = WalkOf(msg)
  /\ \/ /\ walk'.ok /\ walk'.at = msg.sz
        /\ phase' = "parsed"
        /\ Effects(msg)
     \/ /\ ~(walk'.ok /\ walk'.at = msg.sz)
        /\ phase' = "aborted"
        /\ UNCHANGED <<status, enabled, initiated>>
  /\ UNCHANGED <<byteswap, msg>>

MarkMessageParsed ==
  /\ phase = "parsed"
  /\ phase' = "idle"
  /\ msg' = NoMessage
  /\ walk' = NoWalk
  /\ UNCHANGED <<status, byteswap, enabled, initiated>>

Next ==
  \/ InitiationArrives \/ InitResponseArrives
  \/ RequestArrives \/ ReplyArrives \/ EventArrives \/ ErrorArrives
  \/ LogMessage \/ MarkMessageParsed

Spec == Init /\ [][Next]_vars

-----------------------------------------------------------------------------
(* Which messages stop the proxy, and nothing else does                    *)

\* An answer that does not open the connection
NotOpened(m) == m.class = "setup" /\ m.kind \notin {"Initiation", "Acceptance"}

\* _parseLISTof gets a count of which 16 bits are left, and the size of the
\* message shows it.
CountCut(m) ==
  \/ /\ m.class = "request"
     /\ m.kind \in ReqEnc!CountsFromLength \ (ReqEnc!Texts \cup
          {"UnknownRequest", "NoOperation", "PutImage", "ChangeProperty",
           "QueryTextExtents"})
     /\ m.n >= 65536
  \/ /\ m.kind \in {"ChangeProperty", "GetProperty"}
     /\ ~m.opt /\ m.n * m.k >= 65536
  \/ /\ m.class = "reply"
     /\ \/ m.kind = "GetImage" /\ RepEnc!Pad(m.n) >= 65536
        \/ m.kind = "GetMotionEvents" /\ m.n >= 65536
        \/ m.kind = "QueryFont" /\ m.k >= 65536

\* A size computed in units, and one without the fixed part of 8 more bytes
WrongLength(m) ==
  m.class = "request" /\ \/ m.kind = "PolyArc"
                         \/ m.kind = "PolyFillRectangle" /\ m.big

\* A count or a length used in the client's byte order
Unswapped(m) ==
  /\ m.class = "reply" /\ m.swap
  /\ \/ m.kind = "ListProperties" /\ RepEnc!Swap16(m.n) # m.n
     \/ m.kind \in {"GetMotionEvents", "GetPointerMapping"} /\ m.n > 0

\* _event_codes.at() and _error_codes.at() for codes of an extension, which
\* nobody has registered, and the assertion that it was not enabled before
NotExpected(m) ==
  \/ m.class = "event" /\ m.kind = "UnknownEvent"
  \/ m.class = "error" /\ m.kind = "UnknownError"
  \/ m.class = "request" /\ m.kind = "SendEvent" /\ m.opt
  \/ m.class = "reply" /\ m.kind = "BigReqEnable" /\ m.enabled

\* What makes the walk itself end elsewhere or stop
Misled(m) ==
  NotOpened(m) \/ CountCut(m) \/ WrongLength(m) \/ Unswapped(m) \/ NotExpected(m)

\* An id, an atom or a mask of a client with the other byte order that is
\* formatted as it was received, and whose last byte has the bits that the
\* format has as zeros in the first
Disordered(m) == m.swap /\ m.stray

Defect(m) == Misled(m) \/ Disordered(m)

-----------------------------------------------------------------------------
(***************************************************************************)
(* The variables have their types; requests, replies, events and errors    *)
(* are parsed on open connections only, and no other answer to the client's*)
(* Initiation than an Acceptance has the parser go on.                     *)
(***************************************************************************)
TypeOK ==
  /\ phase \in Phases
  /\ status \in Statuses
  /\ byteswap \in BOOLEAN /\ enabled \in BOOLEAN /\ initiated \in BOOLEAN
  /\ walk \in [at : Int, ok : BOOLEAN, reach : Int, logged : Int]
  /\ phase \in {"complete", "parsed"} => msg.sz \in Nat
  /\ status = "OPEN" => initiated
  /\ phase \in {"complete", "parsed"} /\ status = "UNESTABLISHED" =>
       msg.class = "setup" /\ (phase = "parsed" => msg.kind = "Initiation")

(***************************************************************************)
(* Whatever peers send in accordance with the protocol, the parse function *)
(* walks exactly to the end of the message without a failed assertion; the *)
(* messages for which it does not are the ones of Defect, all of them:     *)
(* those that mislead the walk, and those of clients with the other byte   *)
(* order with a value that _formatVariable takes for another.              *)
(***************************************************************************)
StopsOnlyForDefects ==
  phase \in {"parsed", "aborted"} => (phase = "aborted" <=> Defect(msg))

(***************************************************************************)
(* The log has every member of the lists and every character of the        *)
(* strings that a parsed message carries. Two cases lose some: a           *)
(* QueryTextExtents whose count is cut, and the items of a text that begin *)
(* in its last 4 bytes.                                                    *)
(***************************************************************************)
MembersOf(m) ==
  CASE m.class = "setup" -> Setup!SetupMembers(m)
    [] m.class = "request" -> ReqEnc!Members(m)
    [] m.class = "reply" -> RepEnc!ReplyMembers(m)
    [] OTHER -> 0

LostItems(m) ==
  /\ m.class = "request"
  /\ \/ m.kind \in ReqEnc!Texts /\ m.k <= 1
     \/ m.kind = "QueryTextExtents" /\ m.n >= 65536

LoggedWhole ==
  phase = "parsed" =>
    \/ walk.logged = MembersOf(msg)
    \/ LostItems(msg) /\ walk.logged < MembersOf(msg)

(***************************************************************************)
(* A parsed message was read within its own bytes, up to one: an item of a *)
(* text is copied as the union with a font, which may be longer.           *)
(***************************************************************************)
ReadsWithinMessage ==
  phase = "parsed" =>
    walk.reach <= msg.sz + (IF msg.kind \in ReqEnc!Texts THEN 1 ELSE 0)

=============================================================================
