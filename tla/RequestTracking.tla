-------------------------- MODULE RequestTracking --------------------------
(***************************************************************************)
(* What the parser remembers from a request until its answer comes, and    *)
(* what it learns from answers. A connection counts its requests with 16   *)
(* bits and registers under each number the opcode that the answer will be *)
(* parsed for. The name in an InternAtom or QueryExtension is stashed, as  *)
(* a view into the buffer for client messages, until the reply tells       *)
(* whether an atom or an extension comes with it; both tables are shared   *)
(* by all connections. Requests have one size, so that each takes one slot *)
(* of the buffer, and all names are equally long.                          *)
(***************************************************************************)
EXTENDS Integers, Sequences, FiniteSets

CONSTANTS
  Conns,        \* the connections
  SeqMod,       \* how many sequence numbers there are: 2^16
  Slots,        \* how many requests a buffer holds
  Names,        \* names of atoms and of extensions
  ServerExts,   \* the extensions that the server has
  Allowed,      \* the extensions that the settings do not deny
  BigRequests,  \* the name of the only extension that the parser knows
  Nobody,       \* no connection
  Unset,        \* no entry in a table
  Bytes,        \* the bytes of something that is no name
  Sent,         \* the kinds of requests that each client sends
  MaxRequests   \* bound on the requests of each connection

ASSUME TrackingAssumption ==
  /\ SeqMod \in Nat \ {0} /\ Slots \in Nat \ {0}
  /\ ServerExts \subseteq Names /\ BigRequests \in Names
  /\ Allowed \subseteq {BigRequests}
  /\ Nobody \notin Conns
  /\ IsFiniteSet(Names)
  /\ Unset # Bytes /\ {Unset, Bytes, "BigReqEnable"} \cap Names = {}
  /\ MaxRequests \in [Conns -> Nat]

VARIABLES
  fault,     \* the assertion that has failed, or "none"
  sequence,  \* Connection::sequence
  registry,  \* Connection::_request_opcodes_by_seq_num
  stash,     \* X11ProtocolParser::_stashed_strings: where the view points
  interned,  \* X11ProtocolParser::_interned_atoms
  majors,    \* X11ProtocolParser::_major_opcodes: the name an opcode is for
  enabled,   \* Connection::_extensions for BIG-REQUESTS
  storage,   \* the names in the slots of each buffer for client messages
  origin,    \* the requests about names whose bytes are still there
  held,      \* how many requests wait in it to be sent on
  logging,   \* the connection whose requests are being logged
  requests,  \* how many requests a client has sent
  todo,      \* those that the server has not answered, in order
  atoms,     \* the server's atoms: an atom is a place in this sequence
  told       \* the extensions that a client has been told are present

parser == <<sequence, registry, stash, interned, majors, enabled>>
peers == <<requests, todo, atoms, told>>
buffers == <<storage, origin, held, logging>>
vars == <<fault, parser, buffers, peers>>

Content == Names \cup {Bytes}
SeqNums == 0 .. SeqMod - 1
Atoms == 1 .. Cardinality(Names)

\* A slot, no stashed view, and a view into storage that was released
Nowhere == 0
Dangling == Slots + 1

\* No request about a name whose bytes are where they were received:
\* requests are counted from 1.
Gone == 0

(***************************************************************************)
(* Requests by what becomes of them. BigDraw is a Draw with the length     *)
(* field of BIG-REQUESTS, LongDraw one for which the buffer has to grow.   *)
(***************************************************************************)
Naming == {"InternAtom", "QueryExtension"}
Silent == {"Draw", "BigDraw", "LongDraw"}
Kinds ==
  Naming \cup Silent
    \cup {"GetInputFocus", "ListFontsWithInfo", "BigReqEnable"}
Free == "free"

Faults == {"none", "stashed", "unstashed", "unregistered", "no_reply_parser",
           "misread", "enabled_before", "not_enabled"}

ASSUME SentAssumption == Sent \in [Conns -> SUBSET Kinds]

Init ==
  /\ fault = "none"
  /\ sequence = [c \in Conns |-> 0]
  /\ registry = [c \in Conns |-> [s \in SeqNums |-> Free]]
  /\ stash = [c \in Conns |-> [s \in SeqNums |-> Nowhere]]
  /\ interned = [a \in Atoms |-> Unset]
  /\ majors = [e \in ServerExts |-> Unset]
  /\ enabled = [c \in Conns |-> FALSE]
  /\ storage = [c \in Conns |-> [i \in 1 .. Slots |-> Bytes]]
  /\ origin = [c \in Conns |-> [i \in 1 .. Slots |-> Gone]]
  /\ held = [c \in Conns |-> 0]
  /\ logging = Nobody
  /\ requests = [c \in Conns |-> 0]
  /\ todo = [c \in Conns |-> << >>]
  /\ atoms = << >>
  /\ told = [c \in Conns |-> {}]

Fail(assertion) == fault' = assertion

-----------------------------------------------------------------------------
(* Requests                                                                *)

\* What a client may send: a request of an extension it has been told of
MaySend(c, kind) ==
  /\ requests[c] < MaxRequests[c]
  /\ kind = "BigReqEnable" => BigRequests \in told[c]
  /\ kind = "BigDraw" => "BigReqEnable" \in told[c]

\* registerRequest: emplace() leaves an entry that exists already.
NextNumber(c) == (sequence[c] + 1) % SeqMod

(* Variant: the number is incremented after it was used.                   *)
RegisterRequest_Before(c, kind) ==
  /\ sequence' = [sequence EXCEPT ![c] = NextNumber(c)]
  /\ registry' = [registry EXCEPT ![c][sequence[c]] = IF @ = Free THEN kind ELSE @]

RegisterRequest(c, kind) ==
  /\ sequence' = [sequence EXCEPT ![c] = NextNumber(c)]
  /\ registry' = [registry EXCEPT ![c][NextNumber(c)] =
                    IF @ = Free THEN kind ELSE @]

(* Variant: every request is put at the beginning.                         *)
Received_AtBeginning(c, name) ==
  /\ held[c] < Slots
  /\ held[c] > 0 => logging = c
  /\ held' = [held EXCEPT ![c] = @ + 1]
  /\ storage' = [storage EXCEPT ![c][1] = name]

(***************************************************************************)
(* recv() puts a batch of requests at the beginning of the buffer, that    *)
(* was cleared when the last batch had been sent. If its storage has to be *)
(* resized, the views that point there dangle.                             *)
(***************************************************************************)
Received(c, name) ==
  /\ held[c] < Slots
  /\ held[c] > 0 => logging = c
  /\ held' = [held EXCEPT ![c] = @ + 1]
  /\ storage' = [storage EXCEPT ![c][held[c] + 1] = name]

\* Whose bytes are where now: those of a request are put in a slot, and if
\* the storage is resized for it the others are elsewhere.
Moved(c, kind) ==
  [i \in 1 .. Slots |->
     CASE kind = "LongDraw" -> Gone
       [] i = held[c] + 1   -> IF kind \in Naming THEN requests[c] + 1 ELSE Gone
       [] OTHER             -> origin[c][i]]

(* Variant: stashed under the number of the request before.                *)
Views_NumberBefore(c, kind) ==
  CASE kind \in Naming -> [stash[c] EXCEPT ![sequence[c]] = held[c] + 1]
    [] kind = "LongDraw" ->
         [s \in SeqNums |-> IF stash[c][s] = Nowhere THEN Nowhere ELSE Dangling]
    [] OTHER -> stash[c]

Views(c, kind) ==
  CASE kind \in Naming -> [stash[c] EXCEPT ![NextNumber(c)] = held[c] + 1]
    [] kind = "LongDraw" ->
         [s \in SeqNums |-> IF stash[c][s] = Nowhere THEN Nowhere ELSE Dangling]
    [] OTHER -> stash[c]

\* _logRequest, with the assertions of the requests' parse functions
LogRequest(c, kind, name) ==
  /\ fault = "none"
  /\ logging \in {c, Nobody} /\ logging' = c
  /\ MaySend(c, kind)
  /\ (kind \in Naming) <=> (name # Bytes)
  /\ Received(c, name)
  /\ RegisterRequest(c, kind)
  /\ requests' = [requests EXCEPT ![c] = @ + 1]
  /\ todo' = [todo EXCEPT ![c] =
                Append(@, [kind |-> kind, name |-> name, nr |-> requests'[c]])]
  /\ stash' = [stash EXCEPT ![c] = Views(c, kind)]
  /\ origin' = [origin EXCEPT ![c] = Moved(c, kind)]
  /\ CASE kind = "BigDraw" /\ ~enabled[c] -> Fail("not_enabled")
       [] kind \in Naming /\ stash[c][NextNumber(c)] # Nowhere -> Fail("stashed")
       [] OTHER -> UNCHANGED fault
  /\ UNCHANGED <<interned, majors, enabled, atoms, told>>

\* There is no other complete request in the buffer.
EndOfMessages(c) ==
  /\ logging = c /\ fault = "none"
  /\ logging' = Nobody
  /\ UNCHANGED <<fault, parser, storage, origin, held, peers>>

\* SocketBuffer::write sends all of them and clears the buffer.
SendRequests(c) ==
  /\ logging = Nobody /\ fault = "none"
  /\ held[c] > 0
  /\ held' = [held EXCEPT ![c] = 0]
  /\ UNCHANGED <<fault, parser, storage, origin, logging, peers>>

-----------------------------------------------------------------------------
(* Answers. The server takes the requests of a client in order.            *)

Asked(c) == Head(todo[c])
Number(c) == Asked(c).nr % SeqMod

Answers(c) ==
  /\ logging = Nobody /\ fault = "none"
  /\ Len(todo[c]) > held[c]

Answered(c) == todo' = [todo EXCEPT ![c] = Tail(@)]

UnregisterRequest(c) ==
  registry' = [registry EXCEPT ![c][Number(c)] = Free]

\* A request without reply is carried out.
CarryOut(c) ==
  /\ Answers(c) /\ Asked(c).kind \in Silent
  /\ Answered(c)
  /\ UNCHANGED <<fault, parser, buffers, requests, atoms, told>>

\* _logError: what was stashed for the request remains.
LogError(c) ==
  /\ Answers(c)
  /\ UnregisterRequest(c)
  /\ Answered(c)
  /\ UNCHANGED <<fault, sequence, stash, interned, majors, enabled, buffers,
                 requests, atoms, told>>

(***************************************************************************)
(* _logReply looks up what the reply is for, and calls its parse function, *)
(* which silent requests do not have.                                      *)
(***************************************************************************)
Replies(c) == Answers(c) /\ Asked(c).kind \notin Silent

Expected(c) == registry[c][Number(c)]

LookupFails(c) ==
  /\ Replies(c) /\ Expected(c) # Asked(c).kind
  /\ CASE Expected(c) = Free -> Fail("unregistered")
       [] Expected(c) \in Silent -> Fail("no_reply_parser")
       [] OTHER -> Fail("misread")
  /\ UNCHANGED <<parser, buffers, peers>>

ReplyTo(c, kind) ==
  /\ Replies(c) /\ Asked(c).kind = kind /\ Expected(c) = kind

LogGetInputFocusReply(c) ==
  /\ ReplyTo(c, "GetInputFocus")
  /\ UnregisterRequest(c) /\ Answered(c)
  /\ UNCHANGED <<fault, sequence, stash, interned, majors, enabled, buffers,
                 requests, atoms, told>>

\* A series of replies, of which only the last one closes the request
LogListFontsWithInfoReply(c) ==
  /\ ReplyTo(c, "ListFontsWithInfo")
  /\ \/ UnregisterRequest(c) /\ Answered(c)
     \/ UNCHANGED <<registry, todo>>
  /\ UNCHANGED <<fault, sequence, stash, interned, majors, enabled, buffers,
                 requests, atoms, told>>

-----------------------------------------------------------------------------
(* Replies that need the name of the request                               *)

View(c) == stash[c][Number(c)]

\* What a view shows: whatever is in its slot now, or anything
Shows(c, name) ==
  CASE View(c) = Nowhere -> name = Bytes
    [] View(c) = Dangling -> name \in Content
    [] OTHER -> name = storage[c][View(c)]

UnstashString(c) ==
  /\ IF View(c) = Nowhere THEN Fail("unstashed") ELSE UNCHANGED fault
  /\ stash' = [stash EXCEPT ![c][Number(c)] = Nowhere]

\* NONE, for a name that the server is not to intern
LogNoAtom(c) ==
  /\ ReplyTo(c, "InternAtom")
  /\ \A a \in DOMAIN atoms : atoms[a] # Asked(c).name
  /\ UnregisterRequest(c) /\ Answered(c)
  /\ UNCHANGED <<fault, sequence, stash, interned, majors, enabled, buffers,
                 requests, atoms, told>>

LogAtom(c) ==
  /\ ReplyTo(c, "InternAtom")
  /\ LET known == {a \in DOMAIN atoms : atoms[a] = Asked(c).name}
     IN IF known = {} THEN atoms' = Append(atoms, Asked(c).name)
                      ELSE UNCHANGED atoms
  /\ \E a \in DOMAIN atoms', name \in Content :
       /\ atoms'[a] = Asked(c).name
       /\ Shows(c, name)
       /\ interned' = [interned EXCEPT ![a] = name]
  /\ UnstashString(c)
  /\ UnregisterRequest(c) /\ Answered(c)
  /\ UNCHANGED <<sequence, majors, enabled, buffers, requests, told>>

(* Variant: the settings are not asked.                                    *)
LogQueryExtensionReply_Unchecked(c) ==
  /\ ReplyTo(c, "QueryExtension")
  /\ \E name \in Content :
       /\ Shows(c, name)
       /\ IF Asked(c).name \in ServerExts
          THEN /\ told' = [told EXCEPT ![c] = @ \cup {Asked(c).name}]
               /\ majors' = [majors EXCEPT ![Asked(c).name] =
                               IF @ = Unset THEN name ELSE @]
          ELSE UNCHANGED <<told, majors>>
  /\ UnstashString(c)
  /\ UnregisterRequest(c) /\ Answered(c)
  /\ UNCHANGED <<sequence, interned, enabled, buffers, requests, atoms>>

(* Variant: the flag is overwritten in a copy of the reply.                *)
LogQueryExtensionReply_Copied(c) ==
  /\ ReplyTo(c, "QueryExtension")
  /\ \E name \in Content :
       /\ Shows(c, name)
       /\ told' = [told EXCEPT ![c] = @ \cup ({Asked(c).name} \cap ServerExts)]
       /\ majors' = IF Asked(c).name \in ServerExts /\ name \in Allowed
                    THEN [majors EXCEPT ![Asked(c).name] = name] ELSE majors
  /\ UnstashString(c)
  /\ UnregisterRequest(c) /\ Answered(c)
  /\ UNCHANGED <<sequence, interned, enabled, buffers, requests, atoms>>

(* Variant: the extension's opcode is not enabled.                         *)
LogQueryExtensionReply_NotEnabling(c) ==
  /\ ReplyTo(c, "QueryExtension")
  /\ \E name \in Content :
       /\ Shows(c, name)
       /\ IF Asked(c).name \in ServerExts /\ name \in Allowed
          THEN told' = [told EXCEPT ![c] = @ \cup {Asked(c).name}]
          ELSE UNCHANGED told
  /\ UnstashString(c)
  /\ UnregisterRequest(c) /\ Answered(c)
  /\ UNCHANGED <<sequence, interned, majors, enabled, buffers, requests, atoms>>

(***************************************************************************)
(* The reply tells of an extension if the server has it and if the name,   *)
(* as the view shows it, is allowed: the flag in the reply is overwritten  *)
(* otherwise. The first time, its opcode is enabled for all connections.   *)
(***************************************************************************)
LogQueryExtensionReply(c) ==
  /\ ReplyTo(c, "QueryExtension")
  /\ \E name \in Content :
       /\ Shows(c, name)
       /\ IF Asked(c).name \in ServerExts /\ name \in Allowed
          THEN /\ told' = [told EXCEPT ![c] = @ \cup {Asked(c).name}]
               /\ majors' = [majors EXCEPT ![Asked(c).name] =
                               IF @ = Unset THEN name ELSE @]
          ELSE UNCHANGED <<told, majors>>
  /\ UnstashString(c)
  /\ UnregisterRequest(c) /\ Answered(c)
  /\ UNCHANGED <<sequence, interned, enabled, buffers, requests, atoms>>

\* Only a reply to an enabled opcode is parsed as BigReqEnable's.
LogBigReqEnableReply(c) ==
  /\ ReplyTo(c, "BigReqEnable")
  /\ IF majors[BigRequests] = BigRequests
     THEN /\ enabled' = [enabled EXCEPT ![c] = TRUE]
          /\ IF enabled[c] THEN Fail("enabled_before") ELSE UNCHANGED fault
     ELSE UNCHANGED <<fault, enabled>>
  /\ told' = [told EXCEPT ![c] = @ \cup {"BigReqEnable"}]
  /\ UnregisterRequest(c) /\ Answered(c)
  /\ UNCHANGED <<sequence, stash, interned, majors, buffers, requests, atoms>>

ServerAnswers(c) ==
  \/ CarryOut(c) \/ LogError(c) \/ LookupFails(c)
  \/ LogGetInputFocusReply(c) \/ LogListFontsWithInfoReply(c)
  \/ LogNoAtom(c) \/ LogAtom(c)
  \/ LogQueryExtensionReply(c) \/ LogBigReqEnableReply(c)

Next ==
  \E c \in Conns :
    \/ \E kind \in Sent[c], name \in Content : LogRequest(c, kind, name)
    \/ EndOfMessages(c) \/ SendRequests(c)
    \/ ServerAnswers(c)

Spec == Init /\ [][Next]_vars

-----------------------------------------------------------------------------
TypeOK ==
  /\ fault \in Faults
  /\ sequence \in [Conns -> SeqNums]
  /\ registry \in [Conns -> [SeqNums -> Kinds \cup {Free}]]
  /\ stash \in [Conns -> [SeqNums -> Nowhere .. Dangling]]
  /\ interned \in [Atoms -> Content \cup {Unset}]
  /\ majors \in [ServerExts -> Allowed \cup {Unset}]
  /\ enabled \in [Conns -> BOOLEAN]
  /\ storage \in [Conns -> [1 .. Slots -> Content]]
  /\ origin \in [Conns -> [1 .. Slots -> Nat]]
  /\ held \in [Conns -> 0 .. Slots]
  /\ logging \in Conns \cup {Nobody}
  /\ requests \in [Conns -> Nat] /\ \A c \in Conns : requests[c] <= MaxRequests[c]
  /\ todo \in [Conns -> Seq([kind : Kinds, name : Content,
                             nr : Nat])]
  /\ atoms \in Seq(Names)
  /\ told \in [Conns -> SUBSET (ServerExts \cup {"BigReqEnable"})]

-----------------------------------------------------------------------------
Wrapped == \E c \in Conns : requests[c] > SeqMod

(***************************************************************************)
(* Until the sequence numbers of a connection are used again, what waits   *)
(* for an answer is registered as what it is: registerRequest and the      *)
(* server count alike, whatever is answered late, with an error or with a  *)
(* series of replies.                                                      *)
(***************************************************************************)
AnswersFindRequests ==
  \A c \in Conns : requests[c] <= SeqMod =>
    \A i \in DOMAIN todo[c] :
      registry[c][todo[c][i].nr % SeqMod] = todo[c][i].kind

(***************************************************************************)
(* The assertions and lookups of _logRequest and _logReply fail only after *)
(* a wrap: of requests without replies, of errors and of NONE something    *)
(* stays behind that a later request with the same number runs into.       *)
(***************************************************************************)
FaultsAfterWrap ==
  fault \in {"stashed", "unstashed", "unregistered", "no_reply_parser",
             "misread"} => Wrapped

(***************************************************************************)
(* A client that has learnt that it may send big requests is understood:   *)
(* its connection has the extension enabled, by a chain of replies that    *)
(* were all recognised.                                                    *)
(***************************************************************************)
BigRequestsUnderstood ==
  /\ fault # "not_enabled"
  /\ \A c \in Conns : "BigReqEnable" \in told[c] => enabled[c]

(***************************************************************************)
(* The oldest request of a client is answered, and if it is about a name   *)
(* then while its bytes are still where the parser saw them.               *)
(***************************************************************************)
AnsweredInTime(c) ==
  /\ Len(todo'[c]) < Len(todo[c])
  /\ Asked(c).kind \in Naming =>
       \E i \in 1 .. Slots : origin[c][i] = Asked(c).nr

(***************************************************************************)
(* The reply to a QueryExtension does not tell the client of an extension  *)
(* that the settings deny (the comment at _parseReply< QueryExtension >:   *)
(* "control use of extensions by spoofing"), whatever the client and       *)
(* others have asked and been told meanwhile, unless the bytes of the      *)
(* request have been overwritten by a later batch or moved by a resize:    *)
(* the view then shows something else. It says nothing of ListExtensions,  *)
(* whose reply is passed on with all names.                                *)
(***************************************************************************)
TellsAllowed ==
  \A c \in Conns : AnsweredInTime(c) =>
    told'[c] \subseteq told[c] \cup Allowed \cup {"BigReqEnable"}

DeniedHidden == [][TellsAllowed]_vars

(***************************************************************************)
(* The parser's atoms mirror the server's (X11ProtocolParser.hpp on        *)
(* _interned_atoms): what the reply to an InternAtom changes in them is    *)
(* what the server has, whichever of several names that wait it is for,    *)
(* with the same exception.                                                *)
(***************************************************************************)
LearnsAtoms ==
  \A c \in Conns : AnsweredInTime(c) =>
    \A a \in Atoms : interned'[a] # interned[a] =>
      a \in DOMAIN atoms' /\ interned'[a] = atoms'[a]

AtomsMirrored == [][LearnsAtoms]_vars
=============================================================================
