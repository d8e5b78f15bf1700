----------------------- MODULE RequestTrackingProofs -----------------------
(* Proofs about RequestTracking, for any number of connections, of         *)
(* sequence numbers and of slots.                                          *)
EXTENDS RequestTracking, TLAPS

Request == [kind : Kinds, name : Content, nr : Nat]

-----------------------------------------------------------------------------
(* Arithmetic and sequences                                                *)

(* A multiple of the modulus adds nothing to a remainder.                  *)
LEMMA MultipleDropped ==
  ASSUME NEW M \in Nat \ {0}, NEW q \in Nat, NEW r \in 0 .. M - 1
  PROVE  (q * M + r) % M = r
BY SMTT(30)

LEMMA Divided ==
  ASSUME NEW M \in Nat \ {0}, NEW n \in Nat
  PROVE  /\ n \div M \in Nat
         /\ n = (n \div M) * M + (n % M)
<1>1. n \div M \in Nat
  BY SMTT(30)
<1>2. n = (n \div M) * M + (n % M)
  BY SMTT(30)
<1> QED BY <1>1, <1>2

(* Counting with a remainder is counting and then taking the remainder.    *)
LEMMA NextRemainder ==
  ASSUME NEW M \in Nat \ {0}, NEW n \in Nat
  PROVE  ((n % M) + 1) % M = (n + 1) % M
<1> DEFINE r == n % M  q == n \div M
<1>1. r \in 0 .. M - 1
  BY SMT
<1>2. q \in Nat /\ n = q * M + r
  BY Divided
<1> HIDE DEF r, q
<1>3. CASE r + 1 < M
  <2>1. r + 1 \in 0 .. M - 1
    BY <1>1, <1>3
  <2>2. (q * M + (r + 1)) % M = r + 1
    BY <1>2, <2>1, MultipleDropped
  <2>3. (0 * M + (r + 1)) % M = r + 1
    BY <2>1, MultipleDropped
  <2>4. n + 1 = q * M + (r + 1)
    BY <1>1, <1>2
  <2>5. r + 1 = 0 * M + (r + 1)
    BY <1>1
  <2> QED BY <2>2, <2>3, <2>4, <2>5 DEF r
<1>4. CASE r + 1 = M
  <2>1. n + 1 = (q + 1) * M + 0
    BY <1>1, <1>2, <1>4, SMTT(30)
  <2>2. ((q + 1) * M + 0) % M = 0
    BY <1>2, MultipleDropped
  <2>3. (1 * M + 0) % M = 0
    BY MultipleDropped
  <2>4. r + 1 = 1 * M + 0
    BY <1>4
  <2> QED BY <2>1, <2>2, <2>3, <2>4 DEF r
<1> QED BY <1>1, <1>3, <1>4

LEMMA SeqNumber ==
  ASSUME NEW n \in Nat
  PROVE  n % SeqMod \in SeqNums
BY TrackingAssumption DEF SeqNums

(* The first SeqMod requests have different sequence numbers.              *)
LEMMA DifferentNumbers ==
  ASSUME NEW m \in 1 .. SeqMod, NEW n \in 1 .. SeqMod, m # n
  PROVE  m % SeqMod # n % SeqMod
<1>1. m % SeqMod = IF m = SeqMod THEN 0 ELSE m
  BY TrackingAssumption
<1>2. n % SeqMod = IF n = SeqMod THEN 0 ELSE n
  BY TrackingAssumption
<1> QED BY <1>1, <1>2, TrackingAssumption

LEMMA TailOf ==
  ASSUME NEW T, NEW s \in Seq(T), Len(s) > 0
  PROVE  /\ Head(s) = s[1] /\ s[1] \in T
         /\ Tail(s) \in Seq(T) /\ Len(Tail(s)) = Len(s) - 1
         /\ \A i \in 1 .. Len(s) - 1 : Tail(s)[i] = s[i + 1]
BY SMT

LEMMA AppendTo ==
  ASSUME NEW T, NEW s \in Seq(T), NEW e \in T
  PROVE  /\ Append(s, e) \in Seq(T) /\ Len(Append(s, e)) = Len(s) + 1
         /\ \A i \in 1 .. Len(s) : Append(s, e)[i] = s[i]
         /\ Append(s, e)[Len(s) + 1] = e
BY SMT

-----------------------------------------------------------------------------
(* The type invariant                                                      *)

(* A request that asks about a name has one.                               *)
NamesSent ==
  \A c \in Conns : \A i \in 1 .. Len(todo[c]) :
    todo[c][i].kind \in Naming => todo[c][i].name \in Names

Typed == TypeOK /\ NamesSent

LEMMA FirstTyped ==
  ASSUME Init
  PROVE  Typed
<1>1. \A c \in Conns : requests[c] = 0 /\ MaxRequests[c] \in Nat
  BY TrackingAssumption DEF Init
<1>2. \A c \in Conns : todo[c] = << >>
  BY DEF Init
<1>3. 0 \in SeqNums /\ Nowhere \in Nowhere .. Dangling /\ 0 \in 0 .. Slots
  BY TrackingAssumption DEF SeqNums, Nowhere, Dangling
<1>4. NamesSent
  BY <1>2 DEF NamesSent
<1>5. /\ fault \in Faults
      /\ sequence \in [Conns -> SeqNums]
      /\ registry \in [Conns -> [SeqNums -> Kinds \cup {Free}]]
      /\ stash \in [Conns -> [SeqNums -> Nowhere .. Dangling]]
      /\ held \in [Conns -> 0 .. Slots]
  BY <1>3 DEF Init, Faults
<1>6. /\ interned \in [Atoms -> Content \cup {Unset}]
      /\ majors \in [ServerExts -> Allowed \cup {Unset}]
      /\ enabled \in [Conns -> BOOLEAN]
      /\ storage \in [Conns -> [1 .. Slots -> Content]]
      /\ origin \in [Conns -> [1 .. Slots -> Nat]]
      /\ logging \in Conns \cup {Nobody}
  BY DEF Init, Content, Gone
<1>7. /\ requests \in [Conns -> Nat]
      /\ \A c \in Conns : requests[c] <= MaxRequests[c]
  BY <1>1 DEF Init
<1>8. /\ todo \in [Conns -> Seq(Request)]
      /\ atoms \in Seq(Names)
      /\ told \in [Conns -> SUBSET (ServerExts \cup {"BigReqEnable"})]
  BY DEF Init
<1> QED BY <1>4, <1>5, <1>6, <1>7, <1>8 DEF Typed, TypeOK, Request

(* What the server can answer, with the number and the rest of the queue   *)
LEMMA Answerable ==
  ASSUME Typed, NEW c \in Conns, Answers(c)
  PROVE  /\ Len(todo[c]) \in Nat \ {0}
         /\ Asked(c) = todo[c][1] /\ Asked(c) \in Request
         /\ Number(c) \in SeqNums
         /\ Asked(c).kind \in Naming => Asked(c).name \in Names
         /\ Tail(todo[c]) \in Seq(Request)
         /\ Len(Tail(todo[c])) = Len(todo[c]) - 1
         /\ \A i \in 1 .. Len(todo[c]) - 1 : Tail(todo[c])[i] = todo[c][i + 1]
<1>1. todo[c] \in Seq(Request) /\ held[c] \in 0 .. Slots
  BY DEF Typed, TypeOK, Request
<1>2. Len(todo[c]) \in Nat /\ Len(todo[c]) > 0
  BY <1>1, TrackingAssumption DEF Answers
<1>3. /\ Asked(c) = todo[c][1] /\ Asked(c) \in Request
      /\ Tail(todo[c]) \in Seq(Request)
      /\ Len(Tail(todo[c])) = Len(todo[c]) - 1
      /\ \A i \in 1 .. Len(todo[c]) - 1 : Tail(todo[c])[i] = todo[c][i + 1]
  BY <1>1, <1>2, TailOf DEF Asked
<1>4. Number(c) \in SeqNums
  BY <1>3, SeqNumber DEF Number, Request
<1>5. Asked(c).kind \in Naming => Asked(c).name \in Names
  BY <1>2, <1>3 DEF Typed, NamesSent
<1> QED BY <1>2, <1>3, <1>4, <1>5

LEMMA Waiting ==
  ASSUME Typed
  PROVE  /\ requests \in [Conns -> Nat] /\ todo \in [Conns -> Seq(Request)]
         /\ \A c \in Conns : requests[c] \in Nat /\ Len(todo[c]) \in Nat
<1>1. /\ requests \in [Conns -> Nat] /\ todo \in [Conns -> Seq(Request)]
  BY DEF Typed, TypeOK, Request
<1>2. ASSUME NEW c \in Conns
      PROVE  requests[c] \in Nat /\ Len(todo[c]) \in Nat
  <2>1. todo[c] \in Seq(Request)
    BY <1>1
  <2> QED BY <1>1, <2>1
<1> QED BY <1>1, <1>2

(***************************************************************************)
(* Every answer is one of these to the queue, the registry and the stash:  *)
(* the request remains, or it leaves, with or without having been          *)
(* unregistered; its view is removed only if it asked about a name.        *)
(***************************************************************************)
Closed(c) ==
  /\ Answered(c)
  /\ UnregisterRequest(c) \/ (Asked(c).kind \in Silent /\ registry' = registry)

LEMMA Answering ==
  ASSUME NEW c \in Conns, ServerAnswers(c)
  PROVE  /\ Answers(c)
         /\ UNCHANGED <<sequence, buffers, requests>>
         /\ Closed(c) \/ UNCHANGED <<registry, todo>>
         /\ \/ stash' = stash
            \/ /\ Asked(c).kind \in Naming /\ Answered(c)
               /\ stash' = [stash EXCEPT ![c][Number(c)] = Nowhere]
<1> USE DEF buffers, parser, peers, Closed
<1>1. CASE CarryOut(c)
  BY <1>1 DEF CarryOut
<1>2. CASE LogError(c)
  BY <1>2 DEF LogError
<1>3. CASE LookupFails(c)
  BY <1>3 DEF LookupFails, Replies
<1>4. CASE LogGetInputFocusReply(c)
  BY <1>4 DEF LogGetInputFocusReply, ReplyTo, Replies
<1>5. CASE LogListFontsWithInfoReply(c)
  BY <1>5 DEF LogListFontsWithInfoReply, ReplyTo, Replies
<1>6. CASE LogNoAtom(c)
  BY <1>6 DEF LogNoAtom, ReplyTo, Replies
<1>7. CASE LogAtom(c)
  BY <1>7 DEF LogAtom, ReplyTo, Replies, UnstashString, Naming
<1>8. CASE LogQueryExtensionReply(c)
  BY <1>8 DEF LogQueryExtensionReply, ReplyTo, Replies, UnstashString, Naming
<1>9. CASE LogBigReqEnableReply(c)
  BY <1>9 DEF LogBigReqEnableReply, ReplyTo, Replies
<1> QED
  BY <1>1, <1>2, <1>3, <1>4, <1>5, <1>6, <1>7, <1>8, <1>9 DEF ServerAnswers

(* The queue, the registry and the stash keep their types.                 *)
LEMMA AnsweringTyped ==
  ASSUME Typed, NEW c \in Conns, ServerAnswers(c)
  PROVE  /\ todo' \in [Conns -> Seq(Request)]
         /\ NamesSent'
         /\ registry' \in [Conns -> [SeqNums -> Kinds \cup {Free}]]
         /\ stash' \in [Conns -> [SeqNums -> Nowhere .. Dangling]]
<1>1. Answers(c)
  BY Answering
<1>2. \/ todo' = todo
      \/ todo' = [todo EXCEPT ![c] = Tail(@)]
  BY Answering DEF Closed, Answered
<1>3. todo \in [Conns -> Seq(Request)]
  BY DEF Typed, TypeOK, Request
<1>4. todo' \in [Conns -> Seq(Request)]
  BY <1>1, <1>2, <1>3, Answerable
<1>5. NamesSent'
  <2>1. CASE todo' = todo
    BY <2>1 DEF Typed, NamesSent
  <2>2. CASE todo' = [todo EXCEPT ![c] = Tail(@)]
    <3> SUFFICES ASSUME NEW b \in Conns, NEW i \in 1 .. Len(todo'[b]),
                        todo'[b][i].kind \in Naming
                 PROVE  todo'[b][i].name \in Names
      BY DEF NamesSent
    <3>1. CASE b # c
      BY <1>3, <2>2, <3>1 DEF Typed, NamesSent
    <3>2. CASE b = c
      <4>1. todo'[c] = Tail(todo[c])
        BY <1>3, <2>2
      <4>2. /\ i + 1 \in 1 .. Len(todo[c])
            /\ todo'[c][i] = todo[c][i + 1]
        BY <1>1, <3>2, <4>1, Answerable
      <4> QED BY <3>2, <4>2 DEF Typed, NamesSent
    <3> QED BY <3>1, <3>2
  <2> QED BY <1>2, <2>1, <2>2
<1>6. registry' \in [Conns -> [SeqNums -> Kinds \cup {Free}]]
  <2>1. registry \in [Conns -> [SeqNums -> Kinds \cup {Free}]]
    BY DEF Typed, TypeOK
  <2>2. \/ registry' = registry
        \/ registry' = [registry EXCEPT ![c][Number(c)] = Free]
    BY Answering DEF Closed, UnregisterRequest
  <2> QED BY <2>1, <2>2
<1>7. stash' \in [Conns -> [SeqNums -> Nowhere .. Dangling]]
  <2>1. stash \in [Conns -> [SeqNums -> Nowhere .. Dangling]]
    BY DEF Typed, TypeOK
  <2>2. Nowhere \in Nowhere .. Dangling
    BY TrackingAssumption DEF Nowhere, Dangling
  <2>3. \/ stash' = stash
        \/ stash' = [stash EXCEPT ![c][Number(c)] = Nowhere]
    BY Answering
  <2> QED BY <2>1, <2>2, <2>3
<1> QED BY <1>4, <1>5, <1>6, <1>7

LEMMA AnswerTyped ==
  ASSUME Typed, NEW c \in Conns, ServerAnswers(c)
  PROVE  Typed'
<1>1. /\ Answers(c) /\ fault = "none"
      /\ UNCHANGED <<sequence, storage, origin, held, logging, requests>>
  BY Answering DEF Answers, buffers
<1>2. /\ Asked(c) \in Request
      /\ Asked(c).kind \in Naming => Asked(c).name \in Names
  BY <1>1, Answerable
<1>3. /\ fault' \in Faults
      /\ interned' \in [Atoms -> Content \cup {Unset}]
      /\ majors' \in [ServerExts -> Allowed \cup {Unset}]
      /\ enabled' \in [Conns -> BOOLEAN]
      /\ atoms' \in Seq(Names)
      /\ told' \in [Conns -> SUBSET (ServerExts \cup {"BigReqEnable"})]
  <2> USE DEF Typed, TypeOK, Faults, Fail, parser, peers
  <2>1. CASE CarryOut(c)
    BY <2>1 DEF CarryOut
  <2>2. CASE LogError(c)
    BY <1>1, <2>2 DEF LogError
  <2>3. CASE LookupFails(c)
    BY <2>3 DEF LookupFails
  <2>4. CASE LogGetInputFocusReply(c)
    BY <2>4 DEF LogGetInputFocusReply
  <2>5. CASE LogListFontsWithInfoReply(c)
    BY <2>5 DEF LogListFontsWithInfoReply
  <2>6. CASE LogNoAtom(c)
    BY <2>6 DEF LogNoAtom
  <2>7. CASE LogAtom(c)
    <3>1. Asked(c).name \in Names
      BY <1>2, <2>7 DEF LogAtom, ReplyTo, Naming
    <3>2. atoms' = Append(atoms, Asked(c).name) \/ atoms' = atoms
      BY <2>7 DEF LogAtom
    <3>3. atoms' \in Seq(Names)
      <4>1. atoms \in Seq(Names)
        BY DEF Typed, TypeOK
      <4>2. Append(atoms, Asked(c).name) \in Seq(Names)
        BY <3>1, <4>1, AppendTo
      <4> QED BY <3>2, <4>1, <4>2
    <3>4. interned' \in [Atoms -> Content \cup {Unset}]
      <4>1. interned \in [Atoms -> Content \cup {Unset}]
        BY DEF Typed, TypeOK
      <4>2. PICK a \in DOMAIN atoms', name \in Content :
              interned' = [interned EXCEPT ![a] = name]
        BY <2>7 DEF LogAtom
      <4> QED BY <4>1, <4>2
    <3>5. fault' \in Faults /\ UNCHANGED <<majors, enabled, told>>
      BY <2>7 DEF LogAtom, UnstashString
    <3> QED BY <3>3, <3>4, <3>5
  <2>8. CASE LogQueryExtensionReply(c)
    <3>1. fault' \in Faults
      BY <2>8 DEF LogQueryExtensionReply, UnstashString
    <3>2. PICK name \in Content :
            IF Asked(c).name \in ServerExts /\ name \in Allowed
            THEN /\ told' = [told EXCEPT ![c] = @ \cup {Asked(c).name}]
                 /\ majors' = [majors EXCEPT ![Asked(c).name] =
                                 IF @ = Unset THEN name ELSE @]
            ELSE UNCHANGED <<told, majors>>
      BY <2>8 DEF LogQueryExtensionReply
    <3>3. majors' \in [ServerExts -> Allowed \cup {Unset}]
      BY <3>2
    <3>4. told' \in [Conns -> SUBSET (ServerExts \cup {"BigReqEnable"})]
      <4>1. told \in [Conns -> SUBSET (ServerExts \cup {"BigReqEnable"})]
        BY DEF Typed, TypeOK
      <4>2. CASE told' = told
        BY <4>1, <4>2
      <4>3. CASE /\ told' = [told EXCEPT ![c] = @ \cup {Asked(c).name}]
                 /\ Asked(c).name \in ServerExts
        <5>1. told[c] \cup {Asked(c).name}
                \in SUBSET (ServerExts \cup {"BigReqEnable"})
          BY <4>1, <4>3
        <5> QED BY <4>1, <4>3, <5>1
      <4> QED BY <3>2, <4>2, <4>3
    <3> QED BY <2>8, <3>1, <3>3, <3>4 DEF LogQueryExtensionReply
  <2>9. CASE LogBigReqEnableReply(c)
    <3>1. fault' \in Faults /\ enabled' \in [Conns -> BOOLEAN]
      BY <2>9 DEF LogBigReqEnableReply
    <3>2. told' \in [Conns -> SUBSET (ServerExts \cup {"BigReqEnable"})]
      BY <2>9 DEF LogBigReqEnableReply
    <3> QED BY <2>9, <3>1, <3>2 DEF LogBigReqEnableReply
  <2> QED
    BY <2>1, <2>2, <2>3, <2>4, <2>5, <2>6, <2>7, <2>8, <2>9 DEF ServerAnswers
<1> QED
  BY <1>1, <1>3, AnsweringTyped DEF Typed, TypeOK, Request

(* What a request changes, whatever it is                                  *)
LEMMA Requested ==
  ASSUME Typed, NEW c \in Conns, NEW kind \in Sent[c], NEW name \in Content,
         LogRequest(c, kind, name)
  PROVE  LET sent == [kind |-> kind, name |-> name, nr |-> requests[c] + 1]
         IN /\ kind \in Kinds /\ held[c] + 1 \in 1 .. Slots
            /\ requests' = [requests EXCEPT ![c] = @ + 1]
            /\ requests'[c] = requests[c] + 1
            /\ sent \in Request
            /\ todo' = [todo EXCEPT ![c] = Append(todo[c], sent)]
            /\ todo'[c] \in Seq(Request)
            /\ Len(todo'[c]) = Len(todo[c]) + 1
            /\ \A i \in 1 .. Len(todo[c]) : todo'[c][i] = todo[c][i]
            /\ todo'[c][Len(todo[c]) + 1] = sent
<1> DEFINE sent == [kind |-> kind, name |-> name, nr |-> requests[c] + 1]
<1>1. kind \in Kinds
  BY SentAssumption
<1>2. /\ requests \in [Conns -> Nat] /\ todo \in [Conns -> Seq(Request)]
      /\ held[c] \in 0 .. Slots
  BY DEF Typed, TypeOK, Request
<1>3. held[c] + 1 \in 1 .. Slots
  BY <1>2, TrackingAssumption DEF LogRequest, Received
<1>4. /\ requests' = [requests EXCEPT ![c] = @ + 1]
      /\ requests'[c] = requests[c] + 1
  BY <1>2 DEF LogRequest
<1>5. sent \in Request
  BY <1>1, <1>2 DEF Request
<1>6. todo' = [todo EXCEPT ![c] = Append(todo[c], sent)]
  BY <1>4 DEF LogRequest
<1>7. todo'[c] = Append(todo[c], sent) /\ todo[c] \in Seq(Request)
  BY <1>2, <1>6
<1> HIDE DEF sent
<1>8. /\ todo'[c] \in Seq(Request) /\ Len(todo'[c]) = Len(todo[c]) + 1
      /\ \A i \in 1 .. Len(todo[c]) : todo'[c][i] = todo[c][i]
      /\ todo'[c][Len(todo[c]) + 1] = sent
  BY <1>5, <1>7, AppendTo
<1> QED BY <1>1, <1>3, <1>4, <1>5, <1>6, <1>8 DEF sent

LEMMA RequestTyped ==
  ASSUME Typed, NEW c \in Conns, NEW kind \in Sent[c], NEW name \in Content,
         LogRequest(c, kind, name)
  PROVE  Typed'
<1> DEFINE sent == [kind |-> kind, name |-> name, nr |-> requests[c] + 1]
<1>1. /\ kind \in Kinds /\ held[c] + 1 \in 1 .. Slots
      /\ requests' = [requests EXCEPT ![c] = @ + 1]
      /\ todo' = [todo EXCEPT ![c] = Append(todo[c], sent)]
      /\ todo'[c] \in Seq(Request)
      /\ Len(todo'[c]) = Len(todo[c]) + 1
      /\ \A i \in 1 .. Len(todo[c]) : todo'[c][i] = todo[c][i]
      /\ todo'[c][Len(todo[c]) + 1] = sent
  BY Requested
<1>2. sequence \in [Conns -> SeqNums] /\ NextNumber(c) \in SeqNums
  <2>1. sequence \in [Conns -> SeqNums]
    BY DEF Typed, TypeOK
  <2>2. sequence[c] + 1 \in Nat
    BY <2>1, TrackingAssumption DEF SeqNums
  <2> QED BY <2>1, <2>2, SeqNumber DEF NextNumber
<1>3. sequence' \in [Conns -> SeqNums]
  BY <1>2 DEF LogRequest, RegisterRequest
<1>4. registry' \in [Conns -> [SeqNums -> Kinds \cup {Free}]]
  BY <1>1, <1>2 DEF LogRequest, RegisterRequest, Typed, TypeOK
<1>5. stash' \in [Conns -> [SeqNums -> Nowhere .. Dangling]]
  <2>1. stash \in [Conns -> [SeqNums -> Nowhere .. Dangling]]
    BY DEF Typed, TypeOK
  <2>2. held[c] + 1 \in Nowhere .. Dangling /\ Nowhere \in Nowhere .. Dangling
          /\ Dangling \in Nowhere .. Dangling
    BY <1>1, TrackingAssumption DEF Nowhere, Dangling
  <2>3. Views(c, kind) \in [SeqNums -> Nowhere .. Dangling]
    BY <1>2, <2>1, <2>2 DEF Views
  <2>4. stash' = [stash EXCEPT ![c] = Views(c, kind)]
    BY DEF LogRequest
  <2> QED BY <2>1, <2>3, <2>4
<1>6. /\ held' \in [Conns -> 0 .. Slots]
      /\ storage' \in [Conns -> [1 .. Slots -> Content]]
  BY <1>1 DEF LogRequest, Received, Typed, TypeOK
<1>12. origin' \in [Conns -> [1 .. Slots -> Nat]]
  <2>1. origin \in [Conns -> [1 .. Slots -> Nat]]
    BY DEF Typed, TypeOK
  <2>3. requests[c] \in Nat
    BY Waiting
  <2>4. requests[c] + 1 \in Nat /\ Gone \in Nat
    BY <2>3 DEF Gone
  <2>2. Moved(c, kind) \in [1 .. Slots -> Nat]
    BY <2>1, <2>4 DEF Moved
  <2> QED BY <2>1, <2>2 DEF LogRequest
<1>7. /\ requests' \in [Conns -> Nat]
      /\ \A b \in Conns : requests'[b] <= MaxRequests[b]
  <2>1. /\ requests \in [Conns -> Nat] /\ MaxRequests \in [Conns -> Nat]
        /\ \A b \in Conns : requests[b] <= MaxRequests[b]
        /\ requests[c] < MaxRequests[c]
    BY TrackingAssumption DEF LogRequest, MaySend, Typed, TypeOK
  <2>2. requests' = [requests EXCEPT ![c] = @ + 1]
    BY <1>1
  <2> QED BY <2>1, <2>2
<1>8. todo' \in [Conns -> Seq(Request)]
  BY <1>1 DEF Typed, TypeOK, Request
<1>9. NamesSent'
  <2> SUFFICES ASSUME NEW b \in Conns, NEW i \in 1 .. Len(todo'[b]),
                      todo'[b][i].kind \in Naming
               PROVE  todo'[b][i].name \in Names
    BY DEF NamesSent
  <2>1. CASE b # c
    BY <1>1, <2>1 DEF Typed, TypeOK, NamesSent
  <2>2. CASE b = c /\ i <= Len(todo[c])
    BY <1>1, <2>2 DEF Typed, TypeOK, NamesSent
  <2>3. CASE b = c /\ i > Len(todo[c])
    <3>1. todo[c] \in Seq(Request)
      BY DEF Typed, TypeOK, Request
    <3>2. i = Len(todo[c]) + 1
      BY <1>1, <2>3, <3>1
    <3>3. todo'[c][i].kind = kind /\ todo'[c][i].name = name
      BY <1>1, <3>2
    <3>4. kind \in Naming => name # Bytes
      BY DEF LogRequest
    <3> QED BY <2>3, <3>3, <3>4 DEF Content
  <2>4. todo[c] \in Seq(Request) /\ i \in Nat
    BY <1>1, <2>1 DEF Typed, TypeOK, Request
  <2> QED BY <2>1, <2>2, <2>3, <2>4
<1>10. fault' \in Faults
  BY DEF LogRequest, Fail, Faults
<1>11. /\ interned' = interned /\ majors' = majors /\ enabled' = enabled
       /\ atoms' = atoms /\ told' = told /\ logging' \in Conns
  BY DEF LogRequest
<1> QED
  BY <1>3, <1>4, <1>5, <1>6, <1>7, <1>8, <1>9, <1>10, <1>11, <1>12
    DEF Typed, TypeOK, Request

(* The steps that change only how much the buffer holds                    *)
LEMMA BufferSteps ==
  ASSUME NEW c \in Conns, EndOfMessages(c) \/ SendRequests(c)
  PROVE  UNCHANGED <<fault, parser, storage, origin, peers>>
BY DEF EndOfMessages, SendRequests

LEMMA NextTyped ==
  ASSUME Typed, [Next]_vars
  PROVE  Typed'
<1>1. CASE UNCHANGED vars
  BY <1>1 DEF vars, parser, buffers, peers, Typed, TypeOK, NamesSent
<1>2. ASSUME NEW c \in Conns, EndOfMessages(c) \/ SendRequests(c)
      PROVE  Typed'
  <2>1. UNCHANGED <<fault, sequence, registry, stash, interned, majors, enabled,
                    storage, origin, requests, todo, atoms, told>>
    BY <1>2, BufferSteps DEF parser, peers
  <2>2. held' \in [Conns -> 0 .. Slots] /\ logging' \in Conns \cup {Nobody}
    <3>1. 0 \in 0 .. Slots
      BY TrackingAssumption
    <3> QED BY <1>2, <3>1 DEF EndOfMessages, SendRequests, Typed, TypeOK
  <2> QED BY <2>1, <2>2 DEF Typed, TypeOK, NamesSent
<1> QED
  BY <1>1, <1>2, RequestTyped, AnswerTyped DEF Next

(* Every variable has its type.                                            *)
THEOREM TypesHold == Spec => []TypeOK
<1>1. Init => Typed
  BY FirstTyped
<1>2. Typed /\ [Next]_vars => Typed'
  BY NextTyped
<1>3. Typed => TypeOK
  BY DEF Typed
<1> QED BY <1>1, <1>2, <1>3, PTL DEF Spec

LEMMA AlwaysTyped == Spec => []Typed
<1>1. Init => Typed
  BY FirstTyped
<1>2. Typed /\ [Next]_vars => Typed'
  BY NextTyped
<1> QED BY <1>1, <1>2, PTL DEF Spec

-----------------------------------------------------------------------------
(* Counting: the parser's and the server's numbers agree                   *)

Numbered ==
  \A c \in Conns :
    /\ sequence[c] = requests[c] % SeqMod
    /\ Len(todo[c]) <= requests[c]
    /\ \A i \in 1 .. Len(todo[c]) :
         todo[c][i].nr = requests[c] - Len(todo[c]) + i

LEMMA FirstNumbered ==
  ASSUME Init
  PROVE  Numbered
<1>1. 0 % SeqMod = 0
  BY TrackingAssumption
<1>2. \A c \in Conns : sequence[c] = 0 /\ requests[c] = 0 /\ todo[c] = << >>
  BY DEF Init
<1> QED BY <1>1, <1>2 DEF Numbered

LEMMA RequestNumbered ==
  ASSUME Typed, Numbered, NEW c \in Conns, NEW kind \in Sent[c],
         NEW name \in Content, LogRequest(c, kind, name)
  PROVE  /\ Numbered'
         /\ NextNumber(c) = requests'[c] % SeqMod
         /\ sequence'[c] = NextNumber(c)
<1> DEFINE sent == [kind |-> kind, name |-> name, nr |-> requests[c] + 1]
<1>1. /\ requests' = [requests EXCEPT ![c] = @ + 1]
      /\ requests'[c] = requests[c] + 1
      /\ todo' = [todo EXCEPT ![c] = Append(todo[c], sent)]
      /\ Len(todo'[c]) = Len(todo[c]) + 1
      /\ \A i \in 1 .. Len(todo[c]) : todo'[c][i] = todo[c][i]
      /\ todo'[c][Len(todo[c]) + 1] = sent
  BY Requested
<1>2. /\ requests[c] \in Nat /\ Len(todo[c]) \in Nat
      /\ requests \in [Conns -> Nat] /\ sequence \in [Conns -> SeqNums]
      /\ todo \in [Conns -> Seq(Request)]
  BY Waiting DEF Typed, TypeOK
<1>3. NextNumber(c) = requests'[c] % SeqMod
  BY <1>1, <1>2, NextRemainder, TrackingAssumption DEF Numbered, NextNumber
<1>4. sequence' = [sequence EXCEPT ![c] = NextNumber(c)]
  BY DEF LogRequest, RegisterRequest
<1>5. sequence'[c] = NextNumber(c)
  BY <1>2, <1>4
<1>6. ASSUME NEW i \in 1 .. Len(todo'[c])
      PROVE  todo'[c][i].nr = requests'[c] - Len(todo'[c]) + i
  <2>1. CASE i \in 1 .. Len(todo[c])
    BY <1>1, <1>2, <2>1 DEF Numbered
  <2>2. CASE i = Len(todo[c]) + 1
    <3>1. todo'[c][i].nr = requests[c] + 1
      BY <1>1, <2>2
    <3> QED BY <1>1, <1>2, <2>2, <3>1
  <2> QED BY <1>1, <1>2, <2>1, <2>2
<1>7. ASSUME NEW b \in Conns, b # c
      PROVE  /\ sequence'[b] = sequence[b] /\ requests'[b] = requests[b]
             /\ todo'[b] = todo[b]
  BY <1>1, <1>2, <1>4, <1>7
<1>8. Len(todo'[c]) <= requests'[c]
  BY <1>1, <1>2 DEF Numbered
<1> QED BY <1>3, <1>5, <1>6, <1>7, <1>8 DEF Numbered

(* The request that is answered, and those that remain                     *)
LEMMA Remaining ==
  ASSUME Typed, NEW c \in Conns, Answers(c), Answered(c)
  PROVE  /\ \A b \in Conns : b # c => todo'[b] = todo[b]
         /\ Len(todo'[c]) = Len(todo[c]) - 1
         /\ \A i \in 1 .. Len(todo'[c]) :
              i + 1 \in 2 .. Len(todo[c]) /\ todo'[c][i] = todo[c][i + 1]
<1>1. todo \in [Conns -> Seq(Request)]
  BY DEF Typed, TypeOK, Request
<1>2. todo'[c] = Tail(todo[c]) /\ \A b \in Conns : b # c => todo'[b] = todo[b]
  BY <1>1 DEF Answered
<1> QED BY <1>2, Answerable

LEMMA AnswerNumbered ==
  ASSUME Typed, Numbered, NEW c \in Conns, ServerAnswers(c)
  PROVE  Numbered'
<1>1. /\ Answers(c) /\ sequence' = sequence /\ requests' = requests
      /\ Answered(c) \/ todo' = todo
  BY Answering DEF Closed
<1>2. CASE todo' = todo
  BY <1>1, <1>2 DEF Numbered
<1>3. CASE Answered(c)
  <2>1. requests[c] \in Nat /\ Len(todo[c]) \in Nat
    BY Waiting
  <2>2. /\ \A b \in Conns : b # c => todo'[b] = todo[b]
        /\ Len(todo'[c]) = Len(todo[c]) - 1
        /\ \A i \in 1 .. Len(todo'[c]) :
             i + 1 \in 2 .. Len(todo[c]) /\ todo'[c][i] = todo[c][i + 1]
    BY <1>1, <1>3, Remaining
  <2>3. ASSUME NEW i \in 1 .. Len(todo'[c])
        PROVE  todo'[c][i].nr = requests[c] - Len(todo'[c]) + i
    <3>1. todo'[c][i] = todo[c][i + 1] /\ i + 1 \in 1 .. Len(todo[c])
      BY <2>2
    <3>2. todo[c][i + 1].nr = requests[c] - Len(todo[c]) + (i + 1)
      BY <3>1 DEF Numbered
    <3>3. todo'[c][i].nr = requests[c] - Len(todo[c]) + (i + 1)
      BY <3>1, <3>2
    <3>4. /\ requests[c] \in Int /\ Len(todo[c]) \in Int /\ i \in Int
          /\ Len(todo'[c]) = Len(todo[c]) - 1
      BY <2>1, <2>2
    <3>5. requests[c] - Len(todo[c]) + (i + 1) = requests[c] - Len(todo'[c]) + i
      BY <3>4
    <3> QED BY <3>3, <3>5
  <2>4. Len(todo'[c]) <= requests[c]
    BY <2>1, <2>2 DEF Numbered
  <2>5. ASSUME NEW b \in Conns, b # c
        PROVE  todo'[b] = todo[b]
    BY <2>2, <2>5
  <2>6. ASSUME NEW b \in Conns
        PROVE  /\ sequence[b] = requests[b] % SeqMod
               /\ Len(todo'[b]) <= requests[b]
               /\ \A i \in 1 .. Len(todo'[b]) :
                    todo'[b][i].nr = requests[b] - Len(todo'[b]) + i
    <3>1. CASE b = c
      BY <2>3, <2>4, <3>1 DEF Numbered
    <3>2. CASE b # c
      BY <2>5, <3>2 DEF Numbered
    <3> QED BY <3>1, <3>2
  <2> QED BY <1>1, <2>6 DEF Numbered
<1> QED BY <1>1, <1>2, <1>3

LEMMA NextNumbered ==
  ASSUME Typed, Numbered, [Next]_vars
  PROVE  Numbered'
<1>1. CASE UNCHANGED vars
  BY <1>1 DEF vars, parser, peers, Numbered
<1>2. ASSUME NEW c \in Conns, EndOfMessages(c) \/ SendRequests(c)
      PROVE  Numbered'
  BY <1>2, BufferSteps DEF parser, peers, Numbered
<1> QED BY <1>1, <1>2, RequestNumbered, AnswerNumbered DEF Next

(* The number of the oldest request, as the server has it                  *)
LEMMA AskedNumber ==
  ASSUME Typed, Numbered, NEW c \in Conns, Answers(c)
  PROVE  /\ Number(c) = todo[c][1].nr % SeqMod
         /\ todo[c][1].nr \in 1 .. requests[c]
         /\ Len(todo[c]) = 1 => Number(c) = sequence[c]
<1>1. /\ Len(todo[c]) \in Nat \ {0} /\ Asked(c) = todo[c][1]
      /\ requests[c] \in Nat
  BY Answerable DEF Typed, TypeOK
<1>2. /\ sequence[c] = requests[c] % SeqMod
      /\ todo[c][1].nr = requests[c] - Len(todo[c]) + 1
      /\ Len(todo[c]) <= requests[c]
  BY <1>1 DEF Numbered
<1>3. Len(todo[c]) = 1 => todo[c][1].nr = requests[c]
  BY <1>1, <1>2
<1> QED BY <1>1, <1>2, <1>3 DEF Number

-----------------------------------------------------------------------------
(* The registry and the stash before the numbers are used again            *)

(***************************************************************************)
(* What waits is registered, and its name stashed; the numbers of requests *)
(* that are still to come are free, and nothing is stashed for them.       *)
(***************************************************************************)
RegisteredOf(c) ==
  requests[c] <= SeqMod =>
    /\ \A i \in 1 .. Len(todo[c]) :
         LET number == todo[c][i].nr % SeqMod
         IN /\ registry[c][number] = todo[c][i].kind
            /\ todo[c][i].kind \in Naming => stash[c][number] # Nowhere
    /\ \A k \in requests[c] + 1 .. SeqMod :
         /\ registry[c][k % SeqMod] = Free
         /\ stash[c][k % SeqMod] = Nowhere

Registered == \A c \in Conns : RegisteredOf(c)

LEMMA FirstRegistered ==
  ASSUME Init
  PROVE  Registered
<1> SUFFICES ASSUME NEW c \in Conns
             PROVE  RegisteredOf(c)
  BY DEF Registered
<1>1. requests[c] = 0 /\ todo[c] = << >>
  BY DEF Init
<1>2. ASSUME NEW k \in 1 .. SeqMod
      PROVE  registry[c][k % SeqMod] = Free /\ stash[c][k % SeqMod] = Nowhere
  <2>1. k % SeqMod \in SeqNums
    BY SeqNumber, TrackingAssumption
  <2> QED BY <2>1 DEF Init
<1> QED BY <1>1, <1>2 DEF RegisteredOf

LEMMA RequestRegistered ==
  ASSUME Typed, Numbered, Registered, NEW c \in Conns, NEW kind \in Sent[c],
         NEW name \in Content, LogRequest(c, kind, name)
  PROVE  Registered'
<1> DEFINE sent == [kind |-> kind, name |-> name, nr |-> requests[c] + 1]
           new == requests[c] + 1
<1>1. /\ requests' = [requests EXCEPT ![c] = @ + 1]
      /\ requests'[c] = new
      /\ todo' = [todo EXCEPT ![c] = Append(todo[c], sent)]
      /\ Len(todo'[c]) = Len(todo[c]) + 1
      /\ \A i \in 1 .. Len(todo[c]) : todo'[c][i] = todo[c][i]
      /\ todo'[c][Len(todo[c]) + 1] = sent
      /\ held[c] + 1 \in 1 .. Slots
  BY Requested
<1>2. /\ requests \in [Conns -> Nat] /\ Len(todo[c]) \in Nat
      /\ todo \in [Conns -> Seq(Request)]
      /\ registry \in [Conns -> [SeqNums -> Kinds \cup {Free}]]
      /\ stash \in [Conns -> [SeqNums -> Nowhere .. Dangling]]
  BY Waiting DEF Typed, TypeOK
<1>3. NextNumber(c) = new % SeqMod /\ new \in Nat \ {0}
  BY <1>1, <1>2, RequestNumbered
<1>4. /\ registry' = [registry EXCEPT ![c][NextNumber(c)] =
                        IF @ = Free THEN kind ELSE @]
      /\ stash' = [stash EXCEPT ![c] = Views(c, kind)]
  BY DEF LogRequest, RegisterRequest
<1>5. ASSUME NEW b \in Conns, b # c
      PROVE  RegisteredOf(b)'
  <2>1. /\ requests'[b] = requests[b] /\ todo'[b] = todo[b]
        /\ registry'[b] = registry[b] /\ stash'[b] = stash[b]
    BY <1>1, <1>2, <1>4, <1>5
  <2> QED BY <2>1 DEF Registered, RegisteredOf
<1>6. ASSUME new <= SeqMod
      PROVE  /\ \A i \in 1 .. Len(todo'[c]) :
                  LET number == todo'[c][i].nr % SeqMod
                  IN /\ registry'[c][number] = todo'[c][i].kind
                     /\ todo'[c][i].kind \in Naming => stash'[c][number] # Nowhere
             /\ \A k \in new + 1 .. SeqMod :
                  /\ registry'[c][k % SeqMod] = Free
                  /\ stash'[c][k % SeqMod] = Nowhere
  <2>1. new \in 1 .. SeqMod /\ new % SeqMod \in SeqNums
    BY <1>3, <1>6, SeqNumber, TrackingAssumption
  <2>2. registry[c][new % SeqMod] = Free
    <3>1. new \in requests[c] + 1 .. SeqMod /\ requests[c] <= SeqMod
      BY <1>2, <1>6, TrackingAssumption
    <3> QED BY <3>1 DEF Registered, RegisteredOf
  <2>3. registry'[c][new % SeqMod] = kind
    BY <1>2, <1>3, <1>4, <2>1, <2>2
  <2>4. kind \in Naming => stash'[c][new % SeqMod] # Nowhere
    <3>1. ASSUME kind \in Naming
          PROVE  Views(c, kind)[new % SeqMod] = held[c] + 1
      <4>1. Views(c, kind) = [stash[c] EXCEPT ![NextNumber(c)] = held[c] + 1]
        BY <3>1 DEF Views, Naming
      <4>2. stash[c] \in [SeqNums -> Nowhere .. Dangling]
        BY <1>2
      <4> QED BY <1>3, <2>1, <4>1, <4>2
    <3> QED BY <1>1, <1>2, <1>4, <3>1 DEF Nowhere
  <2>5. ASSUME NEW k \in 1 .. SeqMod, k # new
        PROVE  /\ k % SeqMod \in SeqNums
               /\ registry'[c][k % SeqMod] = registry[c][k % SeqMod]
               /\ stash'[c][k % SeqMod] = Nowhere <=> stash[c][k % SeqMod] = Nowhere
    <3>1. k % SeqMod # new % SeqMod /\ k % SeqMod \in SeqNums
      BY <2>1, <2>5, DifferentNumbers, SeqNumber
    <3>2. registry'[c][k % SeqMod] = registry[c][k % SeqMod]
      BY <1>2, <1>3, <1>4, <3>1
    <3>3. Dangling # Nowhere
      BY TrackingAssumption DEF Dangling, Nowhere
    <3>4. stash'[c] = Views(c, kind)
      BY <1>2, <1>4
    <3>5. Views(c, kind)[k % SeqMod] = Nowhere <=> stash[c][k % SeqMod] = Nowhere
      BY <1>2, <1>3, <3>1, <3>3 DEF Views
    <3> QED BY <3>1, <3>2, <3>4, <3>5
  <2>6. ASSUME NEW i \in 1 .. Len(todo'[c])
        PROVE  /\ registry'[c][todo'[c][i].nr % SeqMod] = todo'[c][i].kind
               /\ todo'[c][i].kind \in Naming =>
                    stash'[c][todo'[c][i].nr % SeqMod] # Nowhere
    <3>1. CASE i = Len(todo[c]) + 1
      BY <1>1, <2>3, <2>4, <3>1
    <3>2. CASE i \in 1 .. Len(todo[c])
      <4>1. todo'[c][i] = todo[c][i]
        BY <1>1, <3>2
      <4>2. /\ todo[c][i].nr = requests[c] - Len(todo[c]) + i
            /\ Len(todo[c]) <= requests[c]
        BY <3>2 DEF Numbered
      <4>3. todo[c][i].nr \in 1 .. SeqMod /\ todo[c][i].nr # new
        BY <1>2, <1>6, <3>2, <4>2, TrackingAssumption
      <4>4. /\ registry[c][todo[c][i].nr % SeqMod] = todo[c][i].kind
            /\ todo[c][i].kind \in Naming =>
                 stash[c][todo[c][i].nr % SeqMod] # Nowhere
        BY <1>2, <1>6, <3>2, TrackingAssumption DEF Registered, RegisteredOf
      <4> QED BY <2>5, <4>1, <4>3, <4>4
    <3> QED BY <1>1, <1>2, <3>1, <3>2
  <2>7. ASSUME NEW k \in new + 1 .. SeqMod
        PROVE  registry'[c][k % SeqMod] = Free /\ stash'[c][k % SeqMod] = Nowhere
    <3>1. k \in requests[c] + 1 .. SeqMod /\ k \in 1 .. SeqMod /\ k # new
      BY <1>2, <1>3, TrackingAssumption
    <3>2. requests[c] <= SeqMod
      BY <1>2, <1>6, TrackingAssumption
    <3>3. registry[c][k % SeqMod] = Free /\ stash[c][k % SeqMod] = Nowhere
      BY <3>1, <3>2 DEF Registered, RegisteredOf
    <3> QED BY <2>5, <3>1, <3>3
  <2> QED BY <2>6, <2>7
<1>7. RegisteredOf(c)'
  BY <1>1, <1>6 DEF RegisteredOf
<1> QED BY <1>5, <1>7 DEF Registered

LEMMA AnswerRegistered ==
  ASSUME Typed, Numbered, Registered, NEW c \in Conns, ServerAnswers(c)
  PROVE  Registered'
<1>1. /\ Answers(c) /\ requests' = requests
      /\ Closed(c) \/ UNCHANGED <<registry, todo>>
      /\ \/ stash' = stash
         \/ Answered(c) /\ stash' = [stash EXCEPT ![c][Number(c)] = Nowhere]
  BY Answering
<1>2. /\ registry \in [Conns -> [SeqNums -> Kinds \cup {Free}]]
      /\ stash \in [Conns -> [SeqNums -> Nowhere .. Dangling]]
      /\ requests[c] \in Nat /\ Len(todo[c]) \in Nat \ {0}
      /\ Number(c) \in SeqNums
      /\ todo \in [Conns -> Seq(Request)]
  BY <1>1, Answerable DEF Typed, TypeOK, Request
<1>3. \/ registry' = registry
      \/ registry' = [registry EXCEPT ![c][Number(c)] = Free]
  BY <1>1 DEF Closed, UnregisterRequest
<1>4. ASSUME NEW b \in Conns, b # c
      PROVE  RegisteredOf(b)'
  <2>1. registry'[b] = registry[b] /\ stash'[b] = stash[b]
    BY <1>1, <1>2, <1>3, <1>4
  <2>2. todo'[b] = todo[b]
    BY <1>1, <1>4, Remaining DEF Closed
  <2> QED BY <1>1, <2>1, <2>2 DEF Registered, RegisteredOf
<1>5. CASE ~ Answered(c)
  BY <1>1, <1>4, <1>5 DEF Closed, Registered, RegisteredOf
<1>6. CASE Answered(c) /\ requests[c] <= SeqMod
  <2>1. /\ Number(c) = todo[c][1].nr % SeqMod
        /\ todo[c][1].nr \in 1 .. requests[c]
    BY <1>1, AskedNumber
  <2>2. ASSUME NEW k \in 1 .. SeqMod, k # todo[c][1].nr
        PROVE  /\ registry'[c][k % SeqMod] = registry[c][k % SeqMod]
               /\ stash'[c][k % SeqMod] = stash[c][k % SeqMod]
    <3>1. todo[c][1].nr \in 1 .. SeqMod
      BY <1>2, <1>6, <2>1, TrackingAssumption
    <3>2. k % SeqMod # Number(c) /\ k % SeqMod \in SeqNums
      BY <2>1, <2>2, <3>1, DifferentNumbers, SeqNumber
    <3> QED BY <1>1, <1>2, <1>3, <3>2
  <2>3. ASSUME NEW i \in 1 .. Len(todo'[c])
        PROVE  /\ registry'[c][todo'[c][i].nr % SeqMod] = todo'[c][i].kind
               /\ todo'[c][i].kind \in Naming =>
                    stash'[c][todo'[c][i].nr % SeqMod] # Nowhere
    <3>1. i + 1 \in 2 .. Len(todo[c]) /\ todo'[c][i] = todo[c][i + 1]
      BY <1>1, <1>6, Remaining
    <3>2. /\ todo[c][1].nr = requests[c] - Len(todo[c]) + 1
          /\ todo[c][i + 1].nr = requests[c] - Len(todo[c]) + (i + 1)
          /\ Len(todo[c]) <= requests[c]
      BY <1>2, <3>1 DEF Numbered
    <3>3. todo[c][i + 1].nr \in 1 .. SeqMod /\ todo[c][i + 1].nr # todo[c][1].nr
      BY <1>2, <1>6, <3>1, <3>2, TrackingAssumption
    <3>4. /\ registry[c][todo[c][i + 1].nr % SeqMod] = todo[c][i + 1].kind
          /\ todo[c][i + 1].kind \in Naming =>
               stash[c][todo[c][i + 1].nr % SeqMod] # Nowhere
      BY <1>2, <1>6, <3>1 DEF Registered, RegisteredOf
    <3> QED BY <2>2, <3>1, <3>3, <3>4
  <2>4. ASSUME NEW k \in requests[c] + 1 .. SeqMod
        PROVE  registry'[c][k % SeqMod] = Free /\ stash'[c][k % SeqMod] = Nowhere
    <3>1. k \in 1 .. SeqMod /\ k # todo[c][1].nr
      BY <1>2, <2>1, TrackingAssumption
    <3>2. registry[c][k % SeqMod] = Free /\ stash[c][k % SeqMod] = Nowhere
      BY <1>6 DEF Registered, RegisteredOf
    <3> QED BY <2>2, <3>1, <3>2
  <2>5. RegisteredOf(c)'
    BY <1>1, <2>3, <2>4 DEF RegisteredOf
  <2> QED BY <1>4, <2>5 DEF Registered
<1>7. CASE ~ (requests[c] <= SeqMod)
  BY <1>1, <1>4, <1>7 DEF Registered, RegisteredOf
<1> QED BY <1>5, <1>6, <1>7

LEMMA NextRegistered ==
  ASSUME Typed, Numbered, Registered, [Next]_vars
  PROVE  Registered'
<1>1. CASE UNCHANGED vars
  BY <1>1 DEF vars, parser, peers, Registered, RegisteredOf
<1>2. ASSUME NEW c \in Conns, EndOfMessages(c) \/ SendRequests(c)
      PROVE  Registered'
  BY <1>2, BufferSteps DEF parser, peers, Registered, RegisteredOf
<1> QED BY <1>1, <1>2, RequestRegistered, AnswerRegistered DEF Next

LEMMA AlwaysRegistered == Spec => [](Typed /\ Numbered /\ Registered)
<1>1. Init => Typed /\ Numbered /\ Registered
  BY FirstTyped, FirstNumbered, FirstRegistered
<1>2. Typed /\ Numbered /\ Registered /\ [Next]_vars
        => (Typed /\ Numbered /\ Registered)'
  BY NextTyped, NextNumbered, NextRegistered
<1> QED BY <1>1, <1>2, PTL DEF Spec

(* Until the numbers are used again, what waits is registered as what it   *)
(* is, however many connections and numbers there are.                     *)
THEOREM AnswersFindTheirRequests == Spec => []AnswersFindRequests
<1>1. Typed /\ Registered => AnswersFindRequests
  <2> SUFFICES ASSUME Typed, Registered, NEW c \in Conns, requests[c] <= SeqMod,
                      NEW i \in DOMAIN todo[c]
               PROVE  registry[c][todo[c][i].nr % SeqMod] = todo[c][i].kind
    BY DEF AnswersFindRequests
  <2>1. i \in 1 .. Len(todo[c])
    BY DEF Typed, TypeOK
  <2> QED BY <2>1 DEF Registered, RegisteredOf
<1> QED BY <1>1, AlwaysRegistered, PTL

-----------------------------------------------------------------------------
(* Failed assertions and lookups                                           *)

Misled == {"stashed", "unstashed", "unregistered", "no_reply_parser", "misread"}

(* Before the wrap the oldest request is found, and its name is stashed.   *)
LEMMA AskedFound ==
  ASSUME Typed, Numbered, Registered, NEW c \in Conns, Answers(c),
         requests[c] <= SeqMod
  PROVE  /\ Expected(c) = Asked(c).kind
         /\ Asked(c).kind \in Naming => View(c) # Nowhere
<1>1. /\ Number(c) = todo[c][1].nr % SeqMod
      /\ Asked(c) = todo[c][1] /\ 1 \in 1 .. Len(todo[c])
  BY AskedNumber, Answerable
<1> QED BY <1>1 DEF Registered, RegisteredOf, Expected, View

LEMMA RequestMisled ==
  ASSUME Typed, Numbered, Registered, NEW c \in Conns, NEW kind \in Sent[c],
         NEW name \in Content, LogRequest(c, kind, name), fault' \in Misled
  PROVE  Wrapped'
<1>1. stash[c][NextNumber(c)] # Nowhere
  BY DEF LogRequest, Fail, Misled
<1>2. /\ NextNumber(c) = requests'[c] % SeqMod
      /\ requests'[c] = requests[c] + 1 /\ requests[c] \in Nat
  BY RequestNumbered, Requested, Waiting
<1>3. SUFFICES ASSUME requests'[c] <= SeqMod
               PROVE  FALSE
  BY <1>2, TrackingAssumption DEF Wrapped
<1>4. requests'[c] \in requests[c] + 1 .. SeqMod /\ requests[c] <= SeqMod
  BY <1>2, <1>3, TrackingAssumption
<1>5. stash[c][requests'[c] % SeqMod] = Nowhere
  BY <1>4 DEF Registered, RegisteredOf
<1> QED BY <1>1, <1>2, <1>5

LEMMA AnswerMisled ==
  ASSUME Typed, Numbered, Registered, NEW c \in Conns, ServerAnswers(c),
         fault' \in Misled
  PROVE  Wrapped'
<1>1. Answers(c) /\ fault = "none" /\ requests' = requests
  BY Answering DEF Answers
<1>2. \/ Expected(c) # Asked(c).kind
      \/ Asked(c).kind \in Naming /\ View(c) = Nowhere
  <2> USE <1>1 DEF Misled
  <2>1. CASE CarryOut(c)
    BY <2>1 DEF CarryOut
  <2>2. CASE LogError(c)
    BY <2>2 DEF LogError
  <2>3. CASE LookupFails(c)
    BY <2>3 DEF LookupFails
  <2>4. CASE LogGetInputFocusReply(c)
    BY <2>4 DEF LogGetInputFocusReply
  <2>5. CASE LogListFontsWithInfoReply(c)
    BY <2>5 DEF LogListFontsWithInfoReply
  <2>6. CASE LogNoAtom(c)
    BY <2>6 DEF LogNoAtom
  <2>7. CASE LogAtom(c)
    BY <2>7 DEF LogAtom, UnstashString, ReplyTo, Naming
  <2>8. CASE LogQueryExtensionReply(c)
    BY <2>8 DEF LogQueryExtensionReply, UnstashString, ReplyTo, Naming
  <2>9. CASE LogBigReqEnableReply(c)
    BY <2>9 DEF LogBigReqEnableReply, Fail
  <2> QED
    BY <2>1, <2>2, <2>3, <2>4, <2>5, <2>6, <2>7, <2>8, <2>9 DEF ServerAnswers
<1>3. ~ (requests[c] <= SeqMod)
  BY <1>1, <1>2, AskedFound
<1> QED BY <1>1, <1>3, Waiting, TrackingAssumption DEF Wrapped

LEMMA NextMisled ==
  ASSUME Typed, Numbered, Registered, FaultsAfterWrap, [Next]_vars
  PROVE  FaultsAfterWrap'
<1>1. CASE UNCHANGED vars
  BY <1>1 DEF vars, peers, FaultsAfterWrap, Wrapped
<1>2. ASSUME NEW c \in Conns, EndOfMessages(c) \/ SendRequests(c)
      PROVE  FaultsAfterWrap'
  BY <1>2, BufferSteps DEF peers, FaultsAfterWrap, Wrapped
<1> QED
  BY <1>1, <1>2, RequestMisled, AnswerMisled DEF Next, FaultsAfterWrap, Misled

(* The lookups and assertions fail only after a wrap.                      *)
THEOREM FaultsNeedAWrap == Spec => []FaultsAfterWrap
<1>1. Init => FaultsAfterWrap
  BY DEF Init, FaultsAfterWrap
<1>2. Typed /\ Numbered /\ Registered /\ FaultsAfterWrap /\ [Next]_vars
        => FaultsAfterWrap'
  BY NextMisled
<1> QED BY <1>1, <1>2, AlwaysRegistered, PTL DEF Spec

-----------------------------------------------------------------------------
(* Big requests                                                            *)

(***************************************************************************)
(* The links of the chain: whoever is told of the extension finds its      *)
(* opcode enabled, BigReqEnable is sent only by those who are told of it,  *)
(* and its reply is recognised.                                            *)
(***************************************************************************)
Chained ==
  /\ fault # "not_enabled"
  /\ \A c \in Conns :
       /\ BigRequests \in told[c] =>
            BigRequests \in ServerExts /\ majors[BigRequests] = BigRequests
       /\ \A i \in 1 .. Len(todo[c]) :
            todo[c][i].kind = "BigReqEnable" => BigRequests \in told[c]
       /\ "BigReqEnable" \in told[c] => enabled[c]

LEMMA RequestChained ==
  ASSUME Typed, Chained, NEW c \in Conns, NEW kind \in Sent[c],
         NEW name \in Content, LogRequest(c, kind, name)
  PROVE  Chained'
<1> DEFINE sent == [kind |-> kind, name |-> name, nr |-> requests[c] + 1]
<1>1. UNCHANGED <<majors, enabled, told>>
  BY DEF LogRequest
<1>2. fault' # "not_enabled"
  BY DEF LogRequest, MaySend, Chained, Fail
<1>3. ASSUME NEW b \in Conns, NEW i \in 1 .. Len(todo'[b]),
             todo'[b][i].kind = "BigReqEnable"
      PROVE  BigRequests \in told[b]
  <2>1. /\ todo' = [todo EXCEPT ![c] = Append(todo[c], sent)]
        /\ Len(todo'[c]) = Len(todo[c]) + 1
        /\ \A j \in 1 .. Len(todo[c]) : todo'[c][j] = todo[c][j]
        /\ todo'[c][Len(todo[c]) + 1] = sent
    BY Requested
  <2>2. todo \in [Conns -> Seq(Request)] /\ Len(todo[c]) \in Nat
    BY Waiting
  <2>3. CASE b # c
    BY <1>3, <2>1, <2>2, <2>3 DEF Chained
  <2>4. CASE b = c /\ i \in 1 .. Len(todo[c])
    BY <1>3, <2>1, <2>4 DEF Chained
  <2>5. CASE b = c /\ i = Len(todo[c]) + 1
    BY <1>3, <2>1, <2>5 DEF LogRequest, MaySend
  <2> QED BY <2>1, <2>2, <2>3, <2>4, <2>5
<1> QED BY <1>1, <1>2, <1>3 DEF Chained

(* After an answer the queue holds only what it held before.               *)
LEMMA StillWaiting ==
  ASSUME Typed, NEW c \in Conns, ServerAnswers(c),
         NEW b \in Conns, NEW i \in 1 .. Len(todo'[b])
  PROVE  \E j \in 1 .. Len(todo[b]) : todo'[b][i] = todo[b][j]
<1>1. Answers(c) /\ (Answered(c) \/ todo' = todo)
  BY Answering DEF Closed
<1>2. CASE todo' = todo
  BY <1>2
<1>3. CASE Answered(c) /\ b # c
  BY <1>1, <1>3, Remaining
<1>4. CASE Answered(c) /\ b = c
  <2>1. i + 1 \in 2 .. Len(todo[c]) /\ todo'[c][i] = todo[c][i + 1]
    BY <1>1, <1>4, Remaining
  <2>2. i + 1 \in 1 .. Len(todo[c])
    BY <2>1, Waiting
  <2> QED BY <1>4, <2>1, <2>2
<1> QED BY <1>1, <1>2, <1>3, <1>4

LEMMA AnswerChained ==
  ASSUME Typed, Chained, NEW c \in Conns, ServerAnswers(c)
  PROVE  Chained'
<1>1. Answers(c) /\ fault = "none"
  BY Answering DEF Answers
<1>2. /\ majors \in [ServerExts -> Allowed \cup {Unset}]
      /\ enabled \in [Conns -> BOOLEAN]
      /\ told \in [Conns -> SUBSET (ServerExts \cup {"BigReqEnable"})]
  BY DEF Typed, TypeOK
<1>3. BigRequests \in Names /\ BigRequests # "BigReqEnable"
  BY TrackingAssumption
<1>4. ASSUME ~ LogQueryExtensionReply(c), ~ LogBigReqEnableReply(c)
      PROVE  fault' # "not_enabled" /\ UNCHANGED <<majors, enabled, told>>
  <2> USE <1>1 DEF parser, peers, Fail
  <2>1. CASE CarryOut(c)
    BY <2>1 DEF CarryOut
  <2>2. CASE LogError(c)
    BY <2>2 DEF LogError
  <2>3. CASE LookupFails(c)
    BY <2>3 DEF LookupFails
  <2>4. CASE LogGetInputFocusReply(c)
    BY <2>4 DEF LogGetInputFocusReply
  <2>5. CASE LogListFontsWithInfoReply(c)
    BY <2>5 DEF LogListFontsWithInfoReply
  <2>6. CASE LogNoAtom(c)
    BY <2>6 DEF LogNoAtom
  <2>7. CASE LogAtom(c)
    BY <2>7 DEF LogAtom, UnstashString
  <2> QED BY <1>4, <2>1, <2>2, <2>3, <2>4, <2>5, <2>6, <2>7 DEF ServerAnswers
<1>5. fault' # "not_enabled"
  <2>1. CASE LogQueryExtensionReply(c)
    BY <1>1, <2>1 DEF LogQueryExtensionReply, UnstashString, Fail
  <2>2. CASE LogBigReqEnableReply(c)
    BY <1>1, <2>2 DEF LogBigReqEnableReply, Fail
  <2> QED BY <1>4, <2>1, <2>2
<1>6. \A b \in Conns : told[b] \subseteq told'[b]
  <2>1. CASE LogQueryExtensionReply(c)
    BY <1>2, <2>1 DEF LogQueryExtensionReply
  <2>2. CASE LogBigReqEnableReply(c)
    BY <1>2, <2>2 DEF LogBigReqEnableReply
  <2> QED BY <1>4, <2>1, <2>2
<1>7. ASSUME NEW b \in Conns, NEW i \in 1 .. Len(todo'[b]),
             todo'[b][i].kind = "BigReqEnable"
      PROVE  BigRequests \in told'[b]
  BY <1>6, <1>7, StillWaiting DEF Chained
<1>8. ASSUME NEW b \in Conns
      PROVE  /\ BigRequests \in told'[b] =>
                  BigRequests \in ServerExts /\ majors'[BigRequests] = BigRequests
             /\ "BigReqEnable" \in told'[b] => enabled'[b]
  <2>1. CASE ~ LogQueryExtensionReply(c) /\ ~ LogBigReqEnableReply(c)
    BY <1>4, <2>1 DEF Chained
  <2>2. CASE LogQueryExtensionReply(c)
    <3>1. enabled' = enabled
      BY <2>2 DEF LogQueryExtensionReply
    <3>2. Asked(c).name \in Names
      BY <1>1, <2>2, Answerable DEF LogQueryExtensionReply, ReplyTo, Naming
    <3>3. PICK name \in Content :
            IF Asked(c).name \in ServerExts /\ name \in Allowed
            THEN /\ told' = [told EXCEPT ![c] = @ \cup {Asked(c).name}]
                 /\ majors' = [majors EXCEPT ![Asked(c).name] =
                                 IF @ = Unset THEN name ELSE @]
            ELSE UNCHANGED <<told, majors>>
      BY <2>2 DEF LogQueryExtensionReply
    <3>4. CASE UNCHANGED <<told, majors>>
      BY <3>1, <3>4 DEF Chained
    <3>5. CASE /\ Asked(c).name \in ServerExts /\ name \in Allowed
               /\ told' = [told EXCEPT ![c] = @ \cup {Asked(c).name}]
               /\ majors' = [majors EXCEPT ![Asked(c).name] =
                               IF @ = Unset THEN name ELSE @]
      <4>1. name = BigRequests
        BY <3>5, TrackingAssumption
      <4>2. "BigReqEnable" \in told'[b] => "BigReqEnable" \in told[b]
        <5>1. "BigReqEnable" # Asked(c).name
          BY <3>2, TrackingAssumption
        <5> QED BY <1>2, <3>5, <5>1
      <4>3. majors[BigRequests] = BigRequests => majors'[BigRequests] = BigRequests
        <5>1. BigRequests # Unset
          BY TrackingAssumption
        <5> QED BY <1>2, <3>5, <4>1, <5>1
      <4>4. ASSUME Asked(c).name = BigRequests
            PROVE  BigRequests \in ServerExts /\ majors'[BigRequests] = BigRequests
        <5>1. majors[BigRequests] \in {BigRequests, Unset}
          BY <1>2, <3>5, <4>4, TrackingAssumption
        <5> QED BY <1>2, <3>5, <4>1, <4>4, <5>1
      <4>5. Asked(c).name # BigRequests =>
              (BigRequests \in told'[b] => BigRequests \in told[b])
        BY <1>2, <3>5
      <4> QED BY <3>1, <4>2, <4>3, <4>4, <4>5 DEF Chained
    <3> QED BY <3>3, <3>4, <3>5
  <2>3. CASE LogBigReqEnableReply(c)
    <3>1. todo[c][1].kind = "BigReqEnable" /\ 1 \in 1 .. Len(todo[c])
      BY <1>1, <2>3, Answerable DEF LogBigReqEnableReply, ReplyTo
    <3>2. majors[BigRequests] = BigRequests
      BY <3>1 DEF Chained
    <3>3. /\ enabled' = [enabled EXCEPT ![c] = TRUE] /\ majors' = majors
          /\ told' = [told EXCEPT ![c] = @ \cup {"BigReqEnable"}]
      BY <2>3, <3>2 DEF LogBigReqEnableReply
    <3>4. BigRequests \in told'[b] => BigRequests \in told[b]
      BY <1>2, <1>3, <3>3
    <3>5. b # c => told'[b] = told[b] /\ enabled'[b] = enabled[b]
      BY <1>2, <3>3
    <3>6. enabled'[c]
      BY <1>2, <3>3
    <3> QED BY <3>3, <3>4, <3>5, <3>6 DEF Chained
  <2> QED BY <2>1, <2>2, <2>3
<1> QED BY <1>5, <1>7, <1>8 DEF Chained

LEMMA NextChained ==
  ASSUME Typed, Chained, [Next]_vars
  PROVE  Chained'
<1>1. CASE UNCHANGED vars
  BY <1>1 DEF vars, parser, peers, Chained
<1>2. ASSUME NEW c \in Conns, EndOfMessages(c) \/ SendRequests(c)
      PROVE  Chained'
  BY <1>2, BufferSteps DEF parser, peers, Chained
<1> QED BY <1>1, <1>2, RequestChained, AnswerChained DEF Next

(* A client that may send big requests has them enabled.                   *)
THEOREM BigRequestsAreUnderstood == Spec => []BigRequestsUnderstood
<1>1. Init => Chained
  BY DEF Init, Chained
<1>2. Typed /\ Chained /\ [Next]_vars => Chained'
  BY NextChained
<1>3. Chained => BigRequestsUnderstood
  BY DEF Chained, BigRequestsUnderstood
<1> QED BY <1>1, <1>2, <1>3, AlwaysTyped, PTL DEF Spec

-----------------------------------------------------------------------------
(* Names, as long as the bytes of the request are where they were received *)

(***************************************************************************)
(* While no assertion has failed, whatever the numbers and however often   *)
(* they have been used: for each request about a name that waits there is  *)
(* a view, no other such request has its number, and if its bytes are      *)
(* still where they were received the view shows its name.                 *)
(***************************************************************************)
Alone(c, k) ==
  \A j \in 1 .. Len(todo[c]) :
    /\ todo[c][j].kind \in Naming
    /\ todo[c][j].nr % SeqMod = todo[c][k].nr % SeqMod
    => j = k

Shown(c, k) ==
  \A i \in 1 .. Slots : origin[c][i] = todo[c][k].nr =>
    /\ stash[c][todo[c][k].nr % SeqMod] = i
    /\ storage[c][i] = todo[c][k].name

NameKept(c) ==
  \A k \in 1 .. Len(todo[c]) : todo[c][k].kind \in Naming =>
    /\ stash[c][todo[c][k].nr % SeqMod] # Nowhere
    /\ Alone(c, k)
    /\ Shown(c, k)

NamesKept ==
  \A c \in Conns :
    /\ \A i \in 1 .. Slots : origin[c][i] <= requests[c]
    /\ fault = "none" => NameKept(c)

(* The number of a waiting request, and that of one which is sent          *)
LEMMA WaitingNumber ==
  ASSUME Typed, Numbered, NEW c \in Conns, NEW k \in 1 .. Len(todo[c])
  PROVE  /\ todo[c][k].nr \in 1 .. requests[c]
         /\ todo[c][k].nr % SeqMod \in SeqNums
<1>1. /\ requests[c] \in Nat /\ Len(todo[c]) \in Nat
  BY Waiting
<1>2. /\ todo[c][k].nr = requests[c] - Len(todo[c]) + k
      /\ Len(todo[c]) <= requests[c]
  BY DEF Numbered
<1>3. todo[c][k].nr \in 1 .. requests[c]
  BY <1>1, <1>2
<1>4. todo[c][k].nr \in Nat
  BY <1>1, <1>3
<1> QED BY <1>3, <1>4, SeqNumber

(* What a request does to the stash, the storage and the origins           *)
LEMMA RequestStored ==
  ASSUME Typed, Numbered, NEW c \in Conns, NEW kind \in Sent[c],
         NEW name \in Content, LogRequest(c, kind, name)
  PROVE  /\ NextNumber(c) = (requests[c] + 1) % SeqMod
         /\ NextNumber(c) \in SeqNums
         /\ stash'[c] = Views(c, kind)
         /\ origin'[c] = Moved(c, kind)
         /\ storage'[c][held[c] + 1] = name
         /\ \A i \in 1 .. Slots : i # held[c] + 1 =>
              storage'[c][i] = storage[c][i]
         /\ \A b \in Conns : b # c =>
              /\ todo'[b] = todo[b] /\ stash'[b] = stash[b]
              /\ storage'[b] = storage[b] /\ origin'[b] = origin[b]
              /\ requests'[b] = requests[b]
<1>1. /\ requests'[c] = requests[c] + 1 /\ held[c] + 1 \in 1 .. Slots
      /\ requests' = [requests EXCEPT ![c] = @ + 1]
      /\ \E new : todo' = [todo EXCEPT ![c] = new]
  BY Requested
<1>2. /\ todo \in [Conns -> Seq(Request)] /\ requests \in [Conns -> Nat]
      /\ stash \in [Conns -> [SeqNums -> Nowhere .. Dangling]]
      /\ storage \in [Conns -> [1 .. Slots -> Content]]
      /\ origin \in [Conns -> [1 .. Slots -> Nat]]
  BY Waiting DEF Typed, TypeOK
<1>3. /\ stash' = [stash EXCEPT ![c] = Views(c, kind)]
      /\ storage' = [storage EXCEPT ![c][held[c] + 1] = name]
      /\ origin' = [origin EXCEPT ![c] = Moved(c, kind)]
  BY DEF LogRequest, Received
<1>4. NextNumber(c) = (requests[c] + 1) % SeqMod
  BY <1>1, RequestNumbered
<1>5. NextNumber(c) \in SeqNums
  <2>1. sequence' \in [Conns -> SeqNums] /\ sequence'[c] = NextNumber(c)
    BY RequestTyped, RequestNumbered DEF Typed, TypeOK
  <2> QED BY <2>1
<1>6. /\ stash'[c] = Views(c, kind) /\ origin'[c] = Moved(c, kind)
  BY <1>2, <1>3
<1>7. /\ storage'[c][held[c] + 1] = name
      /\ \A i \in 1 .. Slots : i # held[c] + 1 =>
           storage'[c][i] = storage[c][i]
  BY <1>1, <1>2, <1>3
<1>8. \A b \in Conns : b # c =>
        /\ todo'[b] = todo[b] /\ stash'[b] = stash[b]
        /\ storage'[b] = storage[b] /\ origin'[b] = origin[b]
        /\ requests'[b] = requests[b]
  BY <1>1, <1>2, <1>3
<1> QED BY <1>4, <1>5, <1>6, <1>7, <1>8

(* A request about a name whose number is still in use fails an assertion, *)
(* so if none fails no request that waits has its number.                  *)
LEMMA FreshNumber ==
  ASSUME Typed, Numbered, NamesKept, NEW c \in Conns, NEW kind \in Sent[c],
         NEW name \in Content, LogRequest(c, kind, name), fault' = "none",
         kind \in Naming, NEW k \in 1 .. Len(todo[c]),
         todo[c][k].kind \in Naming
  PROVE  todo[c][k].nr % SeqMod # NextNumber(c)
<1>1. stash[c][NextNumber(c)] = Nowhere
  BY DEF LogRequest, Fail, Naming
<1>2. fault = "none"
  BY DEF LogRequest
<1> QED BY <1>1, <1>2 DEF NamesKept, NameKept

LEMMA RequestOrigins ==
  ASSUME Typed, Numbered, NamesKept, NEW c \in Conns, NEW kind \in Sent[c],
         NEW name \in Content, LogRequest(c, kind, name)
  PROVE  \A i \in 1 .. Slots :
           /\ origin'[c][i] <= requests'[c]
           /\ origin'[c][i] = requests[c] + 1 => i = held[c] + 1
           /\ origin'[c][i] \in 1 .. requests[c] =>
                /\ kind # "LongDraw" /\ i # held[c] + 1
                /\ origin'[c][i] = origin[c][i]
<1> SUFFICES ASSUME NEW i \in 1 .. Slots
             PROVE  /\ origin'[c][i] <= requests'[c]
                    /\ origin'[c][i] = requests[c] + 1 => i = held[c] + 1
                    /\ origin'[c][i] \in 1 .. requests[c] =>
                         /\ kind # "LongDraw" /\ i # held[c] + 1
                         /\ origin'[c][i] = origin[c][i]
  OBVIOUS
<1>1. requests'[c] = requests[c] + 1 /\ requests[c] \in Nat
  BY Requested, Waiting
<1>2. origin[c][i] \in Nat /\ origin[c][i] <= requests[c]
  BY DEF Typed, TypeOK, NamesKept
<1>3. origin'[c][i] = Moved(c, kind)[i]
  BY RequestStored
<1>4. CASE kind = "LongDraw"
  BY <1>1, <1>3, <1>4 DEF Moved, Gone
<1>5. CASE kind # "LongDraw" /\ i = held[c] + 1
  <2>1. origin'[c][i] \in {requests[c] + 1, 0}
    BY <1>3, <1>5 DEF Moved, Gone
  <2> QED BY <1>1, <1>5, <2>1
<1>6. CASE kind # "LongDraw" /\ i # held[c] + 1
  <2>1. origin'[c][i] = origin[c][i]
    BY <1>3, <1>6 DEF Moved
  <2> QED BY <1>1, <1>2, <1>6, <2>1
<1> QED BY <1>4, <1>5, <1>6

(* What waited before keeps its view.                                      *)
LEMMA RequestKeepsOld ==
  ASSUME Typed, Numbered, NamesKept, NEW c \in Conns, NEW kind \in Sent[c],
         NEW name \in Content, LogRequest(c, kind, name), fault' = "none",
         NEW k \in 1 .. Len(todo[c]), todo[c][k].kind \in Naming
  PROVE  /\ stash'[c][todo[c][k].nr % SeqMod] # Nowhere
         /\ \A i \in 1 .. Slots : origin'[c][i] = todo[c][k].nr =>
              /\ stash'[c][todo[c][k].nr % SeqMod] = i
              /\ storage'[c][i] = todo[c][k].name
<1> DEFINE s == todo[c][k].nr % SeqMod
<1>1. s \in SeqNums /\ todo[c][k].nr \in 1 .. requests[c]
  BY WaitingNumber
<1>2. stash[c][s] # Nowhere /\ Shown(c, k)
  BY DEF NamesKept, NameKept, LogRequest
<1>3. /\ stash'[c] = Views(c, kind)
      /\ \A i \in 1 .. Slots : i # held[c] + 1 =>
           storage'[c][i] = storage[c][i]
  BY RequestStored
<1>4. kind \in Naming => s # NextNumber(c)
  BY FreshNumber
<1>5. stash[c] \in [SeqNums -> Nowhere .. Dangling]
  BY DEF Typed, TypeOK
<1> HIDE DEF s
<1>6. kind # "LongDraw" => stash'[c][s] = stash[c][s]
  BY <1>1, <1>3, <1>4, <1>5 DEF Views
<1>7. kind = "LongDraw" => stash'[c][s] = Dangling
  BY <1>1, <1>2, <1>3 DEF Views, Naming
<1>8. Dangling # Nowhere
  BY TrackingAssumption DEF Dangling, Nowhere
<1>9. stash'[c][s] # Nowhere
  BY <1>2, <1>6, <1>7, <1>8
<1>10. ASSUME NEW i \in 1 .. Slots, origin'[c][i] = todo[c][k].nr
       PROVE  stash'[c][s] = i /\ storage'[c][i] = todo[c][k].name
  <2>1. /\ kind # "LongDraw" /\ i # held[c] + 1
        /\ origin[c][i] = todo[c][k].nr
    BY <1>1, <1>10, RequestOrigins
  <2>2. stash[c][s] = i /\ storage[c][i] = todo[c][k].name
    BY <1>2, <2>1 DEF Shown, s
  <2> QED BY <1>3, <1>6, <2>1, <2>2
<1> QED BY <1>9, <1>10 DEF s

LEMMA RequestNamesKept ==
  ASSUME Typed, Numbered, NamesKept, NEW c \in Conns, NEW kind \in Sent[c],
         NEW name \in Content, LogRequest(c, kind, name)
  PROVE  NamesKept'
<1> DEFINE sent == [kind |-> kind, name |-> name, nr |-> requests[c] + 1]
           n == Len(todo[c])
<1>1. /\ Len(todo'[c]) = n + 1
      /\ \A k \in 1 .. n : todo'[c][k] = todo[c][k]
      /\ todo'[c][n + 1] = sent
      /\ held[c] + 1 \in 1 .. Slots
  BY Requested
<1>2. n \in Nat /\ requests[c] \in Nat /\ fault = "none"
  BY Waiting DEF LogRequest
<1>3. /\ NextNumber(c) = (requests[c] + 1) % SeqMod /\ NextNumber(c) \in SeqNums
      /\ stash'[c] = Views(c, kind) /\ storage'[c][held[c] + 1] = name
  BY RequestStored
<1>4. stash[c] \in [SeqNums -> Nowhere .. Dangling]
  BY DEF Typed, TypeOK
<1>5. sent.kind = kind /\ sent.name = name /\ sent.nr = requests[c] + 1
  OBVIOUS
<1> HIDE DEF sent, n
<1>6. ASSUME fault' = "none", kind \in Naming
      PROVE  /\ stash'[c][sent.nr % SeqMod] = held[c] + 1
             /\ \A i \in 1 .. Slots : origin'[c][i] = sent.nr =>
                  i = held[c] + 1
  <2>1. stash'[c][NextNumber(c)] = held[c] + 1
    <3>1. Views(c, kind) = [stash[c] EXCEPT ![NextNumber(c)] = held[c] + 1]
      BY <1>6 DEF Views, Naming
    <3> QED BY <1>3, <1>4, <3>1
  <2> QED BY <1>3, <1>5, <2>1, RequestOrigins
<1>7. ASSUME fault' = "none", NEW k \in 1 .. n + 1, NEW j \in 1 .. n + 1,
             todo'[c][k].kind \in Naming, todo'[c][j].kind \in Naming,
             todo'[c][j].nr % SeqMod = todo'[c][k].nr % SeqMod
      PROVE  j = k
  <2>1. ASSUME NEW l \in 1 .. n, todo[c][l].kind \in Naming, kind \in Naming
        PROVE  todo[c][l].nr % SeqMod # sent.nr % SeqMod
    BY <1>3, <1>5, <1>7, <2>1, FreshNumber DEF n
  <2>2. CASE k \in 1 .. n /\ j \in 1 .. n
    <3>1. Alone(c, k)
      BY <1>1, <1>2, <1>7, <2>2 DEF NamesKept, NameKept, n
    <3> QED BY <1>1, <1>7, <2>2, <3>1 DEF Alone, n
  <2>3. CASE k \in 1 .. n /\ j = n + 1
    BY <1>1, <1>5, <1>7, <2>1, <2>3
  <2>4. CASE k = n + 1 /\ j \in 1 .. n
    BY <1>1, <1>5, <1>7, <2>1, <2>4
  <2> QED BY <1>2, <2>2, <2>3, <2>4
<1>8. ASSUME fault' = "none", NEW k \in 1 .. n + 1,
             todo'[c][k].kind \in Naming
      PROVE  /\ stash'[c][todo'[c][k].nr % SeqMod] # Nowhere
             /\ \A i \in 1 .. Slots : origin'[c][i] = todo'[c][k].nr =>
                  /\ stash'[c][todo'[c][k].nr % SeqMod] = i
                  /\ storage'[c][i] = todo'[c][k].name
  <2>1. CASE k \in 1 .. n
    <3>1. todo'[c][k] = todo[c][k] /\ todo[c][k].kind \in Naming
      BY <1>1, <1>8, <2>1
    <3>2. /\ stash'[c][todo[c][k].nr % SeqMod] # Nowhere
          /\ \A i \in 1 .. Slots : origin'[c][i] = todo[c][k].nr =>
               /\ stash'[c][todo[c][k].nr % SeqMod] = i
               /\ storage'[c][i] = todo[c][k].name
      BY <1>8, <2>1, <3>1, RequestKeepsOld DEF n
    <3> QED BY <3>1, <3>2
  <2>2. CASE k = n + 1
    <3>1. todo'[c][k] = sent /\ kind \in Naming
      BY <1>1, <1>5, <1>8, <2>2
    <3>2. held[c] + 1 # Nowhere
      BY <1>1 DEF Nowhere
    <3> QED BY <1>3, <1>5, <1>6, <1>8, <3>1, <3>2
  <2> QED BY <1>2, <2>1, <2>2
<1>9. fault' = "none" => NameKept(c)'
  BY <1>1, <1>7, <1>8 DEF NameKept, Alone, Shown
<1>10. \A i \in 1 .. Slots : origin'[c][i] <= requests'[c]
  BY RequestOrigins
<1>11. ASSUME NEW b \in Conns, b # c
       PROVE  /\ \A i \in 1 .. Slots : origin'[b][i] <= requests'[b]
              /\ NameKept(b)'
  <2>1. /\ todo'[b] = todo[b] /\ stash'[b] = stash[b]
        /\ storage'[b] = storage[b] /\ origin'[b] = origin[b]
        /\ requests'[b] = requests[b]
    BY <1>11, RequestStored
  <2> QED BY <1>2, <2>1 DEF NamesKept, NameKept, Alone, Shown
<1> QED BY <1>9, <1>10, <1>11 DEF NamesKept

LEMMA AnswerNamesKept ==
  ASSUME Typed, Numbered, NamesKept, NEW c \in Conns, ServerAnswers(c)
  PROVE  NamesKept'
<1>1. /\ Answers(c)
      /\ UNCHANGED <<storage, origin, requests>>
      /\ Answered(c) \/ todo' = todo
      /\ \/ stash' = stash
         \/ /\ Asked(c).kind \in Naming /\ Answered(c)
            /\ stash' = [stash EXCEPT ![c][Number(c)] = Nowhere]
  BY Answering DEF Closed, buffers
<1>2. /\ Asked(c) = todo[c][1] /\ Len(todo[c]) \in Nat \ {0}
      /\ Number(c) \in SeqNums
      /\ stash \in [Conns -> [SeqNums -> Nowhere .. Dangling]]
  BY <1>1, Answerable DEF Typed, TypeOK
<1>3. fault = "none"
  BY <1>1 DEF Answers
<1>4. ASSUME NEW b \in Conns, b # c
      PROVE  NameKept(b)'
  <2>1. stash'[b] = stash[b]
    BY <1>1, <1>2, <1>4
  <2>2. todo'[b] = todo[b]
    BY <1>1, <1>4, Remaining
  <2> QED BY <1>1, <1>3, <2>1, <2>2 DEF NamesKept, NameKept, Alone, Shown
<1>5. CASE todo' = todo /\ stash' = stash
  BY <1>1, <1>3, <1>5 DEF NamesKept, NameKept, Alone, Shown
<1>6. CASE Answered(c)
  <2>1. /\ Len(todo'[c]) = Len(todo[c]) - 1
        /\ \A i \in 1 .. Len(todo'[c]) :
             i + 1 \in 2 .. Len(todo[c]) /\ todo'[c][i] = todo[c][i + 1]
    BY <1>1, <1>6, Remaining
  <2>2. ASSUME NEW k \in 1 .. Len(todo'[c]), todo'[c][k].kind \in Naming
        PROVE  /\ stash'[c][todo'[c][k].nr % SeqMod] # Nowhere
               /\ Alone(c, k)' /\ Shown(c, k)'
    <3>1. k + 1 \in 2 .. Len(todo[c]) /\ todo'[c][k] = todo[c][k + 1]
      BY <2>1
    <3>2. k + 1 \in 1 .. Len(todo[c]) /\ 1 \in 1 .. Len(todo[c])
      BY <1>2, <3>1
    <3>3. /\ stash[c][todo[c][k + 1].nr % SeqMod] # Nowhere
          /\ Alone(c, k + 1) /\ Shown(c, k + 1)
      BY <1>3, <2>2, <3>1, <3>2 DEF NamesKept, NameKept
    <3>4. todo[c][k + 1].nr % SeqMod \in SeqNums
      BY <3>2, WaitingNumber
    <3>5. stash'[c][todo[c][k + 1].nr % SeqMod]
            = stash[c][todo[c][k + 1].nr % SeqMod]
      <4>1. CASE stash' = stash
        BY <4>1
      <4>2. CASE /\ Asked(c).kind \in Naming
                 /\ stash' = [stash EXCEPT ![c][Number(c)] = Nowhere]
        <5>1. Number(c) = todo[c][1].nr % SeqMod /\ todo[c][1].kind \in Naming
          BY <1>2, <4>2 DEF Number
        <5>2. 1 # k + 1
          BY <3>1
        <5>3. todo[c][k + 1].nr % SeqMod # Number(c)
          BY <3>2, <3>3, <5>1, <5>2 DEF Alone
        <5> HIDE DEF Number
        <5> QED BY <1>2, <3>4, <4>2, <5>3
      <4> QED BY <1>1, <4>1, <4>2
    <3>6. Shown(c, k)'
      BY <1>1, <3>1, <3>3, <3>5 DEF Shown
    <3>7. Alone(c, k)'
      <4> SUFFICES ASSUME NEW j \in 1 .. Len(todo'[c]),
                          todo'[c][j].kind \in Naming,
                          todo'[c][j].nr % SeqMod = todo'[c][k].nr % SeqMod
                   PROVE  j = k
        BY DEF Alone
      <4>1. j + 1 \in 1 .. Len(todo[c]) /\ todo'[c][j] = todo[c][j + 1]
        BY <1>2, <2>1
      <4>2. j + 1 = k + 1
        BY <3>1, <3>3, <4>1 DEF Alone
      <4> QED BY <4>2
    <3> QED BY <3>1, <3>3, <3>5, <3>6, <3>7
  <2>3. NameKept(c)'
    BY <2>2 DEF NameKept
  <2> QED BY <1>1, <1>4, <2>3 DEF NamesKept
<1> QED BY <1>1, <1>5, <1>6

LEMMA NextNamesKept ==
  ASSUME Typed, Numbered, NamesKept, [Next]_vars
  PROVE  NamesKept'
<1>1. CASE UNCHANGED vars
  BY <1>1 DEF vars, parser, buffers, peers, NamesKept, NameKept, Alone, Shown
<1>2. ASSUME NEW c \in Conns, EndOfMessages(c) \/ SendRequests(c)
      PROVE  NamesKept'
  BY <1>2, BufferSteps
    DEF parser, peers, NamesKept, NameKept, Alone, Shown
<1> QED BY <1>1, <1>2, RequestNamesKept, AnswerNamesKept DEF Next

(* So what the view shows when the reply comes is the name asked about.    *)
LEMMA ShownIsAsked ==
  ASSUME Typed, Numbered, NamesKept, NEW c \in Conns, Answers(c),
         Asked(c).kind \in Naming, NEW i \in 1 .. Slots,
         origin[c][i] = Asked(c).nr, NEW name \in Content, Shows(c, name)
  PROVE  name = Asked(c).name
<1>1. Asked(c) = todo[c][1] /\ Len(todo[c]) \in Nat \ {0}
  BY Answerable
<1>2. 1 \in 1 .. Len(todo[c])
  BY <1>1
<1>3. Shown(c, 1)
  BY <1>1, <1>2 DEF NamesKept, NameKept, Answers
<1>4. View(c) = i /\ storage[c][i] = Asked(c).name
  BY <1>1, <1>3 DEF Shown, View, Number
<1>5. View(c) # Nowhere /\ View(c) # Dangling
  BY <1>4, TrackingAssumption DEF Nowhere, Dangling
<1> QED BY <1>4, <1>5 DEF Shows

-----------------------------------------------------------------------------
(* What is learnt from the names                                           *)

(* Only the connection that is answered has fewer requests that wait.      *)
LEMMA AnsweredNow ==
  ASSUME Typed, Next, NEW c \in Conns, AnsweredInTime(c)
  PROVE  ServerAnswers(c)
<1>1. PICK b \in Conns :
        \/ \E kind \in Sent[b], name \in Content : LogRequest(b, kind, name)
        \/ EndOfMessages(b) \/ SendRequests(b)
        \/ ServerAnswers(b)
  BY DEF Next
<1>2. Len(todo[c]) \in Nat /\ Len(todo'[c]) < Len(todo[c])
  BY Waiting DEF AnsweredInTime
<1>3. ASSUME NEW kind \in Sent[b], NEW name \in Content,
             LogRequest(b, kind, name)
      PROVE  FALSE
  <2>1. CASE b = c
    <3>1. Len(todo'[c]) = Len(todo[c]) + 1
      BY <1>3, <2>1, Requested
    <3> QED BY <1>2, <3>1
  <2>2. CASE b # c
    <3>1. todo'[c] = todo[c]
      BY <1>3, <2>2, Requested, Waiting
    <3> QED BY <1>2, <3>1
  <2> QED BY <2>1, <2>2
<1>4. ASSUME EndOfMessages(b) \/ SendRequests(b)
      PROVE  FALSE
  BY <1>2, <1>4, BufferSteps DEF peers
<1>5. ASSUME ServerAnswers(b), b # c
      PROVE  FALSE
  <2>1. Answers(b) /\ (Answered(b) \/ todo' = todo)
    BY <1>5, Answering DEF Closed
  <2>2. todo'[c] = todo[c]
    BY <1>5, <2>1, Remaining
  <2> QED BY <1>2, <2>2
<1> QED BY <1>1, <1>3, <1>4, <1>5

LEMMA NextLearns ==
  ASSUME Typed, Numbered, NamesKept, Next
  PROVE  LearnsAtoms
<1> SUFFICES ASSUME NEW c \in Conns, AnsweredInTime(c), NEW b \in Atoms,
                    interned'[b] # interned[b]
             PROVE  b \in DOMAIN atoms' /\ interned'[b] = atoms'[b]
  BY DEF LearnsAtoms
<1>1. ServerAnswers(c)
  BY AnsweredNow
<1>2. LogAtom(c)
  BY <1>1 DEF ServerAnswers, CarryOut, LogError, LookupFails,
              LogGetInputFocusReply, LogListFontsWithInfoReply, LogNoAtom,
              LogQueryExtensionReply, LogBigReqEnableReply, parser
<1>3. Answers(c) /\ Asked(c).kind \in Naming
  BY <1>2 DEF LogAtom, ReplyTo, Replies, Naming
<1>4. PICK i \in 1 .. Slots : origin[c][i] = Asked(c).nr
  BY <1>3 DEF AnsweredInTime
<1>5. PICK a \in DOMAIN atoms', name \in Content :
        /\ atoms'[a] = Asked(c).name
        /\ Shows(c, name)
        /\ interned' = [interned EXCEPT ![a] = name]
  BY <1>2 DEF LogAtom
<1>6. name = Asked(c).name
  BY <1>3, <1>4, <1>5, ShownIsAsked
<1>7. interned \in [Atoms -> Content \cup {Unset}]
  BY DEF Typed, TypeOK
<1>8. b = a /\ interned'[b] = name
  BY <1>5, <1>7
<1> QED BY <1>5, <1>6, <1>8

LEMMA NextTellsAllowed ==
  ASSUME Typed, Numbered, NamesKept, Next
  PROVE  TellsAllowed
<1> SUFFICES ASSUME NEW c \in Conns, AnsweredInTime(c)
             PROVE  told'[c] \subseteq told[c] \cup Allowed \cup {"BigReqEnable"}
  BY DEF TellsAllowed
<1>1. ServerAnswers(c)
  BY AnsweredNow
<1>2. told \in [Conns -> SUBSET (ServerExts \cup {"BigReqEnable"})]
  BY DEF Typed, TypeOK
<1>3. CASE LogQueryExtensionReply(c)
  <2>1. Answers(c) /\ Asked(c).kind \in Naming
    BY <1>3 DEF LogQueryExtensionReply, ReplyTo, Replies, Naming
  <2>2. PICK i \in 1 .. Slots : origin[c][i] = Asked(c).nr
    BY <2>1 DEF AnsweredInTime
  <2>3. PICK name \in Content :
          /\ Shows(c, name)
          /\ IF Asked(c).name \in ServerExts /\ name \in Allowed
             THEN told' = [told EXCEPT ![c] = @ \cup {Asked(c).name}]
             ELSE told' = told
    BY <1>3 DEF LogQueryExtensionReply
  <2>4. name = Asked(c).name
    BY <2>1, <2>2, <2>3, ShownIsAsked
  <2>5. CASE told' = told
    BY <2>5
  <2>6. CASE /\ Asked(c).name \in Allowed
             /\ told' = [told EXCEPT ![c] = @ \cup {Asked(c).name}]
    BY <1>2, <2>6
  <2> QED BY <2>3, <2>4, <2>5, <2>6
<1>4. CASE LogBigReqEnableReply(c)
  BY <1>2, <1>4 DEF LogBigReqEnableReply
<1>5. CASE ~ LogQueryExtensionReply(c) /\ ~ LogBigReqEnableReply(c)
  <2>1. told' = told
    BY <1>1, <1>5 DEF ServerAnswers, CarryOut, LogError, LookupFails, peers,
                LogGetInputFocusReply, LogListFontsWithInfoReply, LogNoAtom,
                LogAtom
  <2> QED BY <2>1
<1> QED BY <1>3, <1>4, <1>5

LEMMA AlwaysKept == Spec => [](Typed /\ Numbered /\ NamesKept)
<1>1. Init => Typed /\ Numbered /\ NamesKept
  <2>1. Init => NamesKept
    BY DEF Init, NamesKept, NameKept, Gone
  <2> QED BY <2>1, FirstTyped, FirstNumbered
<1>2. Typed /\ Numbered /\ NamesKept /\ [Next]_vars
        => (Typed /\ Numbered /\ NamesKept)'
  BY NextTyped, NextNumbered, NextNamesKept
<1> QED BY <1>1, <1>2, PTL DEF Spec

(***************************************************************************)
(* Clients may go on without waiting for replies, and use their numbers    *)
(* again: as long as the bytes of an InternAtom are where they were        *)
(* received, its reply enters the atom with the name that the server has.  *)
(***************************************************************************)
THEOREM AtomsAreMirrored == Spec => AtomsMirrored
<1>1. Typed /\ Numbered /\ NamesKept /\ [Next]_vars => [LearnsAtoms]_vars
  BY NextLearns
<1> QED BY <1>1, AlwaysKept, PTL DEF Spec, AtomsMirrored

(* And that to a QueryExtension tells of no extension that is denied.      *)
THEOREM DeniedStayHidden == Spec => DeniedHidden
<1>1. Typed /\ Numbered /\ NamesKept /\ [Next]_vars => [TellsAllowed]_vars
  BY NextTellsAllowed
<1> QED BY <1>1, AlwaysKept, PTL DEF Spec, DeniedHidden

=============================================================================
