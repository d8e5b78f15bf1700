------------------------- MODULE ClientQueueProofs -------------------------
(***************************************************************************)
(* The poll table of the client queue stays consistent, no descriptor      *)
(* leaks, no call blocks the loop, and the process returns what became of  *)
(* its subcommand: for any number of clients and descriptors.              *)
(***************************************************************************)
EXTENDS ClientQueue, FiniteSetTheorems, SequenceTheorems,
        WellFoundedInduction, TLAPS

-----------------------------------------------------------------------------
(* Descriptors and their ranks.                                            *)

(* A set of descriptors that is not empty has a lowest one.                *)
LEMMA LowestIsLeast ==
  ASSUME NEW S \in SUBSET Nat, S # {}
  PROVE  Lowest(S) \in S /\ \A g \in S : Lowest(S) <= g
<1>1. \E x \in S : \A y \in S : ~(<<y, x>> \in OpToRel(<, Nat))
  BY NatLessThanWellFounded, WFMin
<1>2. PICK x \in S : \A y \in S : ~(<<y, x>> \in OpToRel(<, Nat))
  BY <1>1
<1>3. ASSUME NEW y \in S, y < x
      PROVE  FALSE
  <2>1. <<y, x>> \in Nat \X Nat
    OBVIOUS
  <2>2. <<y, x>>[1] < <<y, x>>[2]
    BY <1>3
  <2>3. <<y, x>> \in OpToRel(<, Nat)
    BY <2>1, <2>2, Zenon DEF OpToRel
  <2> QED
    BY <1>2, <2>3
<1>4. \A y \in S : x <= y
  <2> TAKE y \in S
  <2>1. x \in Int /\ y \in Int /\ ~(y < x)
    BY <1>3
  <2> QED
    BY <2>1
<1> QED
  BY <1>4 DEF Lowest

(* The rank of a member is less than the number of members.                *)
LEMMA RankRange ==
  ASSUME NEW S \in SUBSET Nat, IsFiniteSet(S), NEW fd \in S
  PROVE  Rank(S, fd) \in 0 .. (Cardinality(S) - 1)
<1> DEFINE B == {g \in S : g < fd}
<1>1. IsFiniteSet(B) /\ Cardinality(B) <= Cardinality(S)
      /\ (Cardinality(S) = Cardinality(B) => S = B)
  BY FS_Subset
<1>2. fd \notin B /\ fd \in Nat
  OBVIOUS
<1>3. Cardinality(B) \in Nat /\ Cardinality(S) \in Nat
  BY <1>1, FS_CardinalityType
<1>4. S # B
  BY <1>2
<1> QED
  BY <1>1, <1>3, <1>4 DEF Rank

(* Different members have different ranks.                                 *)
LEMMA RankInjective ==
  ASSUME NEW S \in SUBSET Nat, IsFiniteSet(S), NEW f \in S, NEW g \in S,
         Rank(S, f) = Rank(S, g)
  PROVE  f = g
<1>1. ASSUME NEW a \in S, NEW b \in S, a < b
      PROVE  Rank(S, a) < Rank(S, b)
  <2> DEFINE A == {x \in S : x < a}
             B == {x \in S : x < b}
  <2>0. a \in Int /\ b \in Int /\ \A x \in S : x \in Int
    OBVIOUS
  <2>1. a \in B /\ a \notin A /\ \A x \in S : x < a => x < b
    BY <1>1, <2>0
  <2>2. IsFiniteSet(B)
    BY FS_Subset, B \subseteq S
  <2>3. IsFiniteSet(A) /\ Cardinality(A) <= Cardinality(B)
        /\ (Cardinality(B) = Cardinality(A) => B = A)
    BY <2>1, <2>2, FS_Subset
  <2>4. Cardinality(A) \in Nat /\ Cardinality(B) \in Nat
    BY <2>2, <2>3, FS_CardinalityType
  <2>5. B # A
    BY <2>1
  <2> QED
    BY <2>3, <2>4, <2>5 DEF Rank
<1>2. Rank(S, f) \in Int /\ Rank(S, g) \in Int
  BY RankRange
<1>3. ~(f < g) /\ ~(g < f)
  BY <1>1, <1>2
<1> QED
  BY <1>3

(* Every rank is some member's.                                            *)
LEMMA RankOnto ==
  ASSUME NEW S \in SUBSET Nat, IsFiniteSet(S), NEW i \in 1 .. Cardinality(S)
  PROVE  \E fd \in S : Rank(S, fd) = i - 1
<1> DEFINE n == Cardinality(S)
           T == 0 .. (n - 1)
           R == [fd \in S |-> Rank(S, fd)]
<1>1. n \in Nat
  BY FS_CardinalityType
<1>2. IsFiniteSet(T) /\ Cardinality(T) = n
  <2>1. 0 \in Int /\ n - 1 \in Int
    BY <1>1
  <2>2. /\ IsFiniteSet(T)
        /\ Cardinality(T) = IF 0 > n - 1 THEN 0 ELSE (n - 1) - 0 + 1
    BY ONLY <2>1, FS_Interval
  <2> QED
    BY <1>1, <2>2
<1>3. R \in [S -> T]
  BY RankRange
<1>4. R \in Injection(S, T)
  BY <1>3, RankInjective DEF Injection, IsInjective
<1>5. R \in Surjection(S, T)
  BY <1>2, <1>4, FS_Injection
<1>6. i - 1 \in T
  BY <1>1
<1> QED
  BY <1>5, <1>6 DEF Surjection

-----------------------------------------------------------------------------
(* The operations on the poll table.                                       *)

(* A function over 1 .. n is a sequence of length n.                       *)
LEMMA FunctionIsSeq ==
  ASSUME NEW n \in Nat, NEW T, NEW f \in [1 .. n -> T]
  PROVE  f \in Seq(T) /\ Len(f) = n /\ DOMAIN f = 1 .. n
<1>1. f \in Seq(T)
  BY SeqDef
<1>2. DOMAIN f = 1 .. n
  OBVIOUS
<1>3. Len(f) = n
  BY <1>1, <1>2, LenProperties
<1> QED
  BY <1>1, <1>2, <1>3

(* What a table's type says of its parts.                                  *)
LEMMA TableParts ==
  ASSUME NEW t \in Table
  PROVE  /\ t = [pfds |-> t.pfds, index |-> t.index]
         /\ t.pfds \in Seq(Entry)
         /\ DOMAIN t.index \in SUBSET Fds
         /\ t.index \in [DOMAIN t.index -> 1 .. Cardinality(Fds)]
         /\ DOMAIN t.pfds = 1 .. Len(t.pfds)
         /\ Len(t.pfds) \in Nat
<1>1. t.pfds \in Seq(Entry) /\ t = [pfds |-> t.pfds, index |-> t.index]
  BY DEF Table
<1>2. PICK S \in SUBSET Fds : t.index \in [S -> 1 .. Cardinality(Fds)]
  BY DEF Table
<1> QED
  BY <1>1, <1>2

EntryOf(t, fd) == t.pfds[t.index[fd]]

(* Compacting an indexed table gives an indexed table, whose entries are   *)
(* what they were.                                                         *)
LEMMA CompactedIsIndexed ==
  ASSUME NEW t \in Table, NEW K, Indexes(t, K), NEW gone
  PROVE  /\ Compacted(t, gone) \in Table
         /\ Indexes(Compacted(t, gone), K \ gone)
         /\ \A fd \in K \ gone :
              EntryOf(Compacted(t, gone), fd) = EntryOf(t, fd)
<1> DEFINE keep == K \ gone
           n == Cardinality(keep)
           who(i) == CHOOSE fd \in keep : Rank(keep, fd) = i - 1
           p == [i \in 1 .. n |-> t.pfds[t.index[who(i)]]]
           x == [fd \in keep |-> Rank(keep, fd) + 1]
<1>1. /\ DOMAIN t.index = K
      /\ \A fd \in K : t.index[fd] \in DOMAIN t.pfds
                      /\ t.pfds[t.index[fd]].fd = fd
  BY DEF Indexes
<1>2. Compacted(t, gone) = [pfds |-> p, index |-> x]
  BY <1>1 DEF Compacted
<1>3. /\ K \in SUBSET Fds /\ t.pfds \in Seq(Entry)
      /\ \A j \in DOMAIN t.pfds : t.pfds[j] \in Entry
  BY <1>1, TableParts, ElementOfSeq
<1>4. /\ IsFiniteSet(keep) /\ keep \in SUBSET Nat /\ n \in Nat
      /\ n <= Cardinality(Fds) /\ Cardinality(Fds) \in Nat
  BY <1>3, FdsAssumption, FS_Subset, FS_CardinalityType
<1>5. \A i \in 1 .. n : who(i) \in keep /\ Rank(keep, who(i)) = i - 1
  BY <1>4, RankOnto
<1>6. p \in [1 .. n -> Entry]
  BY <1>1, <1>3, <1>5
<1>7. p \in Seq(Entry) /\ Len(p) = n /\ DOMAIN p = 1 .. n
  BY <1>4, <1>6, FunctionIsSeq
<1>8. \A fd \in keep : Rank(keep, fd) \in 0 .. (n - 1)
  BY <1>4, RankRange
<1>9. \A fd \in keep : x[fd] \in 1 .. n
  <2> TAKE fd \in keep
  <2>1. Rank(keep, fd) \in Int /\ 0 <= Rank(keep, fd) /\ Rank(keep, fd) <= n - 1
    BY <1>4, <1>8
  <2>2. x[fd] = Rank(keep, fd) + 1
    OBVIOUS
  <2> QED
    BY ONLY <1>4, <2>1, <2>2
<1>10. \A fd \in keep : p[x[fd]] = t.pfds[t.index[fd]] /\ p[x[fd]].fd = fd
  <2> TAKE fd \in keep
  <2> DEFINE i == Rank(keep, fd) + 1
  <2>1. i \in 1 .. n /\ x[fd] = i /\ i - 1 = Rank(keep, fd)
    BY <1>4, <1>8, <1>9
  <2>2. who(i) \in keep /\ Rank(keep, who(i)) = Rank(keep, fd)
    BY <1>5, <2>1
  <2>3. who(i) = fd
    BY <1>4, <2>2, RankInjective
  <2>4. p[i] = t.pfds[t.index[who(i)]]
    BY <2>1
  <2> HIDE DEF i, p, x, who
  <2> QED
    BY <1>1, <2>1, <2>3, <2>4
<1>11. x \in [keep -> 1 .. Cardinality(Fds)]
  BY <1>4, <1>9
<1>12. keep \in SUBSET Fds
  BY <1>3
<1> HIDE DEF p, x
<1>13. [pfds |-> p, index |-> x] \in Table
  BY <1>7, <1>11, <1>12 DEF Table
<1>14. DOMAIN x = keep
  BY <1>11
<1>15. \A fd \in keep : x[fd] \in DOMAIN p /\ p[x[fd]].fd = fd
  BY <1>7, <1>9, <1>10
<1>16. Len(p) = Cardinality(keep)
  BY <1>7
<1> HIDE DEF keep, n, who
<1>17. Indexes([pfds |-> p, index |-> x], keep)
  BY <1>14, <1>15, <1>16 DEF Indexes
<1>18. \A fd \in keep : EntryOf([pfds |-> p, index |-> x], fd) = EntryOf(t, fd)
  BY <1>10 DEF EntryOf
<1> USE DEF keep
<1> QED
  BY <1>2, <1>13, <1>17, <1>18

(* Adding a descriptor that the table does not have keeps it indexed.      *)
LEMMA SocketAddedIsIndexed ==
  ASSUME NEW t \in Table, NEW K, Indexes(t, K), NEW fd \in Fds, fd \notin K,
         NEW events \in SUBSET {"POLLIN", "POLLOUT"}
  PROVE  /\ SocketAdded(t, fd, events) \in Table
         /\ Indexes(SocketAdded(t, fd, events), K \cup {fd})
<1> DEFINE n == Len(t.pfds)
           e == [fd |-> fd, events |-> events, revents |-> {}]
           p == Append(t.pfds, e)
           x == [f \in K \cup {fd} |-> IF f = fd THEN n + 1 ELSE t.index[f]]
<1>1. /\ DOMAIN t.index = K /\ n = Cardinality(K)
      /\ \A f \in K : t.index[f] \in DOMAIN t.pfds
                     /\ t.pfds[t.index[f]].fd = f
  BY DEF Indexes
<1>2. SocketAdded(t, fd, events) = [pfds |-> p, index |-> x]
  BY <1>1 DEF SocketAdded
<1>3. /\ K \in SUBSET Fds /\ t.pfds \in Seq(Entry) /\ n \in Nat
      /\ DOMAIN t.pfds = 1 .. n
      /\ t.index \in [K -> 1 .. Cardinality(Fds)]
  BY <1>1, TableParts
<1>4. IsFiniteSet(K)
  BY <1>3, FdsAssumption, FS_Subset
<1>5. /\ IsFiniteSet(K \cup {fd}) /\ Cardinality(K \cup {fd}) = n + 1
  BY <1>1, <1>4, FS_AddElement
<1>6. n + 1 <= Cardinality(Fds) /\ Cardinality(Fds) \in Nat
      /\ K \cup {fd} \in SUBSET Fds
  <2>1. K \cup {fd} \in SUBSET Fds
    BY <1>3
  <2>2. Cardinality(K \cup {fd}) <= Cardinality(Fds)
    BY <2>1, FdsAssumption, FS_Subset
  <2> QED
    BY <1>5, <2>1, <2>2, FdsAssumption, FS_CardinalityType
<1>7. e \in Entry /\ e.fd = fd
  BY DEF Entry
<1>8. p \in Seq(Entry) /\ Len(p) = n + 1 /\ p[n + 1] = e
      /\ \A i \in 1 .. n : p[i] = t.pfds[i]
  BY <1>3, <1>7, AppendProperties
<1>9. DOMAIN p = 1 .. (n + 1)
  BY <1>8, LenProperties
<1>10. x[fd] = n + 1 /\ \A f \in K : x[f] = t.index[f]
  OBVIOUS
<1>11. x \in [K \cup {fd} -> 1 .. Cardinality(Fds)]
  BY <1>3, <1>6
<1>12. n + 1 \in DOMAIN p /\ \A i \in DOMAIN t.pfds : i \in DOMAIN p /\ p[i] = t.pfds[i]
  BY <1>3, <1>8, <1>9
<1> HIDE DEF e, p, x
<1>13. [pfds |-> p, index |-> x] \in Table
  BY <1>6, <1>8, <1>11 DEF Table
<1>14. DOMAIN x = K \cup {fd}
  BY <1>11
<1>15. \A f \in K \cup {fd} : x[f] \in DOMAIN p /\ p[x[f]].fd = f
  BY <1>1, <1>7, <1>8, <1>10, <1>12
<1> QED
  BY <1>2, <1>5, <1>8, <1>13, <1>14, <1>15 DEF Indexes

(* Changing the events of the entries keeps a table indexed.               *)
LEMMA EventsChangedIsIndexed ==
  ASSUME NEW t \in Table, NEW K, Indexes(t, K), NEW p \in Seq(Entry),
         DOMAIN p = DOMAIN t.pfds, \A i \in DOMAIN p : p[i].fd = t.pfds[i].fd
  PROVE  /\ [t EXCEPT !.pfds = p] \in Table
         /\ Indexes([t EXCEPT !.pfds = p], K)
<1>1. t = [pfds |-> t.pfds, index |-> t.index]
  BY TableParts
<1>2. [t EXCEPT !.pfds = p] = [pfds |-> p, index |-> t.index]
  BY <1>1
<1>3. Len(p) = Len(t.pfds)
  BY TableParts, LenProperties
<1>4. [pfds |-> p, index |-> t.index] \in Table
  BY DEF Table
<1> QED
  BY <1>2, <1>3, <1>4 DEF Indexes

-----------------------------------------------------------------------------
(* The invariant.                                                          *)

Starting == pc \in {"start", "forked", "add"}

(* A client that waits has no connection, and waits once.                  *)
Waiting ==
  \A i \in DOMAIN backlog :
    /\ backlog[i] \notin DOMAIN conns
    /\ \A j \in DOMAIN backlog : backlog[i] = backlog[j] => i = j

ListenerApart ==
  \A c \in DOMAIN conns : \A d \in Dirs : conns[c].fd[d] # Listener

NothingYet ==
  Starting => /\ polled = [pfds |-> <<>>, index |-> <<>>]
              /\ DOMAIN conns = {}

(* A send that blocks has a connection.                                    *)
Sending == pc = "sending" => at # <<>>

Layout == TableConsistent /\ NoDescriptorLeak /\ ListenerApart /\ NothingYet

LayoutInv == TypeOK /\ Waiting /\ Sending /\ Layout

(* The connections' type, without the union.                               *)
LEMMA ConnsTyped ==
  ASSUME NEW f
  PROVE  f \in UNION {[S -> Conn] : S \in SUBSET Clients}
           <=> DOMAIN f \in SUBSET Clients /\ f \in [DOMAIN f -> Conn]
OBVIOUS

(* The listener is one of the descriptors.                                 *)
LEMMA ListenerIsFd == Listener \in Fds
BY LowestIsLeast, FdsAssumption DEF Listener

(* What a step keeps that neither opens nor closes anything.               *)
LEMMA LayoutKept ==
  ASSUME Layout,
         DOMAIN conns' = DOMAIN conns,
         \A c \in DOMAIN conns : conns'[c].fd = conns[c].fd,
         \A fd \in Fds : sock'[fd] = "free" <=> sock[fd] = "free",
         \A K : Indexes(polled, K) => Indexes(polled, K)',
         pc = "dead" => pc' = "dead",
         pc' # "dead" => (Starting' <=> Starting),
         Starting => polled' = polled
  PROVE  Layout'
<1>1. Known' = Known
  BY DEF Known, FdsOf
<1>2. TableConsistent'
  <2> SUFFICES ASSUME pc' # "dead"
               PROVE  TableConsistent'
    BY DEF TableConsistent
  <2> DEFINE K == IF Starting THEN {} ELSE Known
  <2>1. Indexes(polled, K)
    BY DEF Layout, TableConsistent, Starting
  <2>2. K' = K
    BY <1>1
  <2>3. Indexes(polled, K)'
    BY <2>1, <2>2
  <2> QED
    BY <2>3 DEF TableConsistent, Starting
<1>3. NoDescriptorLeak'
  BY <1>1 DEF Layout, NoDescriptorLeak
<1>4. ListenerApart' /\ NothingYet'
  <2>1. Starting' => Starting
    BY DEF Starting
  <2> QED
    BY <2>1 DEF Layout, ListenerApart, NothingYet
<1> QED
  BY <1>2, <1>3, <1>4 DEF Layout

(* A change of the held data leaves descriptors and types alone, and the   *)
(* other connections.                                                      *)
LEMMA HeldChanged ==
  ASSUME TypeOK, NEW c \in DOMAIN conns, NEW H \in SUBSET Dirs, NEW K \in SUBSET Dirs,
         conns' = [conns EXCEPT ![c].held = H, ![c].cut = K]
  PROVE  /\ DOMAIN conns' = DOMAIN conns
         /\ conns' \in UNION {[S -> Conn] : S \in SUBSET Clients}
         /\ \A x \in DOMAIN conns : conns'[x].fd = conns[x].fd
         /\ \A x \in DOMAIN conns : x # c => conns'[x] = conns[x]
<1>1. DOMAIN conns \in SUBSET Clients /\ conns \in [DOMAIN conns -> Conn]
  BY ConnsTyped DEF TypeOK
<1>2. DOMAIN conns' = DOMAIN conns
  BY <1>1
<1>3. \A x \in DOMAIN conns : conns[x] \in Conn
  BY <1>1
<1> DEFINE n == [conns[c] EXCEPT !.held = H, !.cut = K]
<1>4. \A x \in DOMAIN conns : conns'[x] = IF x = c THEN n ELSE conns[x]
  BY <1>1
<1>5. n \in Conn /\ n.fd = conns[c].fd
  BY <1>3 DEF Conn
<1> HIDE DEF n
<1>6. \A x \in DOMAIN conns : conns'[x] \in Conn /\ conns'[x].fd = conns[x].fd
  BY <1>3, <1>4, <1>5
<1>7. conns' \in [DOMAIN conns -> Conn]
  BY <1>1, <1>6
<1> QED
  BY <1>1, <1>2, <1>6, <1>7, ConnsTyped

(* So does what is read, and what has been sent.                           *)
LEMMA ConnRead ==
  ASSUME TypeOK, at[1] \in DOMAIN conns, at[2] \in Dirs,
         NEW whole \in BOOLEAN, NEW part \in BOOLEAN, ReadMessages(whole, part)
  PROVE  /\ DOMAIN conns' = DOMAIN conns
         /\ conns' \in UNION {[S -> Conn] : S \in SUBSET Clients}
         /\ \A x \in DOMAIN conns : conns'[x].fd = conns[x].fd
         /\ \A x \in DOMAIN conns : x # at[1] => conns'[x] = conns[x]
<1> DEFINE c == at[1]
           H == IF whole THEN conns[c].held \cup {at[2]} ELSE conns[c].held
           K == IF part THEN conns[c].cut \cup {at[2]} ELSE conns[c].cut \ {at[2]}
<1>1. conns[c] \in Conn
  BY ConnsTyped DEF TypeOK
<1>2. H \in SUBSET Dirs /\ K \in SUBSET Dirs
  BY <1>1 DEF Conn
<1>3. conns' = [conns EXCEPT ![c].held = H, ![c].cut = K]
  BY DEF ReadMessages
<1> HIDE DEF H, K
<1> QED
  BY <1>2, <1>3, HeldChanged

LEMMA ConnSent ==
  ASSUME TypeOK, at[1] \in DOMAIN conns, Sent
  PROVE  /\ DOMAIN conns' = DOMAIN conns
         /\ conns' \in UNION {[S -> Conn] : S \in SUBSET Clients}
         /\ \A x \in DOMAIN conns : conns'[x].fd = conns[x].fd
         /\ \A x \in DOMAIN conns : x # at[1] => conns'[x] = conns[x]
<1> DEFINE c == at[1]
           H == conns[c].held \ {Other(at[2])}
           K == conns[c].cut
<1>1. conns[c] \in Conn
  BY ConnsTyped DEF TypeOK
<1>2. H \in SUBSET Dirs /\ K \in SUBSET Dirs
  BY <1>1 DEF Conn
<1>3. conns' = [conns EXCEPT ![c].held = H, ![c].cut = K]
  BY <1>1 DEF Sent, Conn
<1> HIDE DEF H, K
<1> QED
  BY <1>2, <1>3, HeldChanged

(* The descriptor being served is one of those of the program.             *)
LEMMA ServedIsFd ==
  ASSUME TypeOK, Serving
  PROVE  /\ at[1] \in DOMAIN conns /\ at[2] \in Dirs
         /\ Served \in Fds
         /\ at = <<at[1], at[2]>>
<1>1. at[1] \in DOMAIN conns /\ at[2] \in Dirs /\ at = <<at[1], at[2]>>
  BY DEF TypeOK, Serving
<1>2. conns[at[1]] \in Conn
  BY <1>1, ConnsTyped DEF TypeOK
<1> QED
  BY <1>1, <1>2 DEF Served, Conn

(* The events of a table are updated in place.                             *)
LEMMA FlagsUpdatedIsIndexed ==
  ASSUME polled \in Table
  PROVE  /\ FlagsUpdated(polled) \in Table
         /\ \A K : Indexes(polled, K) => Indexes(FlagsUpdated(polled), K)
<1> DEFINE owners(i) == {o \in (DOMAIN conns) \X Dirs :
                           polled.index[conns[o[1]].fd[o[2]]] = i}
           o(i) == CHOOSE x \in owners(i) : TRUE
           ev(i) == IF owners(i) = {} THEN polled.pfds[i].events
                    ELSE Wanted(o(i)[1], o(i)[2])
           p == [i \in DOMAIN polled.pfds |->
                   [polled.pfds[i] EXCEPT !.revents = {}, !.events = ev(i)]]
<1>1. FlagsUpdated(polled) = [polled EXCEPT !.pfds = p]
  BY DEF FlagsUpdated
<1>2. \A i \in DOMAIN polled.pfds : polled.pfds[i] \in Entry
  BY TableParts, ElementOfSeq
<1>3. \A i \in DOMAIN polled.pfds : ev(i) \in SUBSET {"POLLIN", "POLLOUT"}
  BY <1>2 DEF Wanted, Entry
<1> HIDE DEF ev
<1>4. \A i \in DOMAIN polled.pfds :
        p[i] \in Entry /\ p[i].fd = polled.pfds[i].fd
  BY <1>2, <1>3 DEF Entry
<1>5. p \in [1 .. Len(polled.pfds) -> Entry] /\ Len(polled.pfds) \in Nat
  BY <1>4, TableParts
<1>6. p \in Seq(Entry) /\ DOMAIN p = DOMAIN polled.pfds
  BY <1>5, FunctionIsSeq, TableParts
<1> HIDE DEF p
<1>7. \A K : Indexes(polled, K) => /\ [polled EXCEPT !.pfds = p] \in Table
                                   /\ Indexes([polled EXCEPT !.pfds = p], K)
  BY <1>4, <1>6, EventsChangedIsIndexed
<1>8. [polled EXCEPT !.pfds = p] \in Table
  BY <1>6, TableParts DEF Table
<1> QED
  BY <1>1, <1>7, <1>8

(* poll() writes what it found into the entries.                           *)
LEMMA PolledIsIndexed ==
  ASSUME polled \in Table, PollReturns
  PROVE  /\ polled' \in Table
         /\ \A K : Indexes(polled, K) => Indexes(polled', K)
<1>0. PICK broken \in SUBSET {fd \in Fds : sock[fd] \in Gone} :
        polled' = [polled EXCEPT !.pfds =
          [i \in DOMAIN @ |-> [@[i] EXCEPT !.revents = Found(polled.pfds[i], broken)]]]
  BY DEF PollReturns
<1> DEFINE found(i) == Found(polled.pfds[i], broken)
           p == [i \in DOMAIN polled.pfds |->
                   [polled.pfds[i] EXCEPT !.revents = found(i)]]
<1>1. polled' = [polled EXCEPT !.pfds = p]
  BY <1>0
<1>2. \A i \in DOMAIN polled.pfds : polled.pfds[i] \in Entry
  BY TableParts, ElementOfSeq
<1>3. \A i \in DOMAIN polled.pfds : found(i) \in SUBSET {"POLLIN", "POLLOUT", "POLLERR"}
  BY <1>2 DEF Entry, Found
<1> HIDE DEF found
<1>4. \A i \in DOMAIN polled.pfds :
        p[i] \in Entry /\ p[i].fd = polled.pfds[i].fd
  BY <1>2, <1>3 DEF Entry
<1>5. p \in [1 .. Len(polled.pfds) -> Entry] /\ Len(polled.pfds) \in Nat
  BY <1>4, TableParts
<1>6. p \in Seq(Entry) /\ DOMAIN p = DOMAIN polled.pfds
  BY <1>5, FunctionIsSeq, TableParts
<1> HIDE DEF p
<1>7. \A K : Indexes(polled, K) => Indexes([polled EXCEPT !.pfds = p], K)
  BY <1>4, <1>6, EventsChangedIsIndexed
<1>8. [polled EXCEPT !.pfds = p] \in Table
  BY <1>6, TableParts DEF Table
<1> QED
  BY <1>1, <1>7, <1>8

-----------------------------------------------------------------------------
(* The steps that neither open nor close a descriptor.                     *)

(* What such a step leaves of the layout: descriptors and connections.     *)
SameLayout ==
  /\ DOMAIN conns' = DOMAIN conns
  /\ \A c \in DOMAIN conns : conns'[c].fd = conns[c].fd
  /\ \A c \in DOMAIN conns : ~Serving \/ c # at[1] => conns'[c] = conns[c]
  /\ \A fd \in Fds : sock'[fd] = "free" <=> sock[fd] = "free"
  /\ \A K : Indexes(polled, K) => Indexes(polled, K)'
  /\ pc = "dead" => pc' = "dead"
  /\ pc' # "dead" => (Starting' <=> Starting)
  /\ Starting => polled' = polled

(* Such a step of the peers preserves the type and opens nothing.          *)
LEMMA PeersKeep ==
  ASSUME TypeOK, Peers
  PROVE  TypeOK' /\ SameLayout
<1>1. ASSUME NEW c \in Clients, ClientConnects(c)
      PROVE  TypeOK' /\ SameLayout
  BY <1>1 DEF ClientConnects, TypeOK, SameLayout, Starting, Running, kernel, program
<1>2. ASSUME NEW fd \in Fds, PeerSends(fd)
      PROVE  TypeOK' /\ SameLayout
  BY <1>2 DEF PeerSends, TypeOK, SameLayout, Starting, Running, peers, program, Alive
<1>3. ASSUME NEW fd \in Fds, PeerCloses(fd)
      PROVE  TypeOK' /\ SameLayout
  BY <1>3 DEF PeerCloses, TypeOK, SameLayout, Starting, Running, peers, program, Alive, Gone
<1>4. ASSUME NEW fd \in Fds, PeerReads(fd)
      PROVE  TypeOK' /\ SameLayout
  BY <1>4 DEF PeerReads, TypeOK, SameLayout, Starting, Running, peers, program
<1>5. ASSUME ChildEnds
      PROVE  TypeOK' /\ SameLayout
  BY <1>5 DEF ChildEnds, TypeOK, SameLayout, Starting, Running, program
<1> QED
  BY <1>1, <1>2, <1>3, <1>4, <1>5 DEF Peers

(* So does the handler of SIGCHLD.                                         *)
LEMMA HandlerKeeps ==
  ASSUME TypeOK, Sending, HandleSIGCHLD
  PROVE  TypeOK' /\ SameLayout
<1>1. RetvalOf(ending) \in Nat
  BY DEF RetvalOf, TypeOK, Endings, SIGNAL_RETVAL_OFFSET
<1>2. /\ UNCHANGED <<peers, sock, full, conns, polled, todo, retval>>
      /\ sigchld' = FALSE
  BY DEF HandleSIGCHLD
<1>3. childRunning' \in BOOLEAN /\ childRetval' \in Nat
  BY <1>1 DEF HandleSIGCHLD, TypeOK
<1>4. pc' \in {"test", "serve", "dead", pc} /\ cause' \in {"handler", "short", cause}
  BY DEF HandleSIGCHLD, Die
<1>5. toClose' \subseteq DOMAIN conns /\ (at' = at \/ at' = <<>>)
  <2>1. CASE pc = "sending" /\ GiveUp
    BY <2>1 DEF HandleSIGCHLD, TypeOK, Sending, GiveUp
  <2>2. CASE ~(pc = "sending" /\ GiveUp)
    BY <2>2 DEF HandleSIGCHLD, TypeOK
  <2> QED
    BY <2>1, <2>2
<1>6. TypeOK'
  BY <1>2, <1>3, <1>4, <1>5 DEF TypeOK, peers
<1>7. pc # "dead" /\ (pc' = "dead" \/ (Starting' <=> Starting))
  BY DEF HandleSIGCHLD, Running, Die, Starting
<1> QED
  BY <1>2, <1>6, <1>7 DEF SameLayout, peers

(* So do the steps of the loop but for the three that change the table's   *)
(* descriptors.                                                            *)
LEMMA LoopKeeps ==
  ASSUME TypeOK, Sending, Loop, ~AddListener, ~CloseConnections, ~Accept
  PROVE  TypeOK' /\ SameLayout
<1> USE DEF SameLayout, Starting, peers, kernel, program, served
<1>1. CASE Fork
  BY <1>1 DEF Fork, TypeOK
<1>2. CASE StoreChildRunning
  BY <1>2 DEF StoreChildRunning, TypeOK
<1>3. CASE LoopTest
  <2>1. polled' \in Table /\ \A K : Indexes(polled, K) => Indexes(polled, K)'
    <3>1. CASE polled' = polled
      BY <3>1 DEF TypeOK, Indexes
    <3>2. CASE polled' = FlagsUpdated(polled)
      BY <3>2, FlagsUpdatedIsIndexed DEF TypeOK, Indexes
    <3> QED
      BY <1>3, <3>1, <3>2 DEF LoopTest
  <2>2. retval' \in Nat
    BY <1>3 DEF LoopTest, TypeOK
  <2> QED
    BY <1>3, <2>1, <2>2 DEF LoopTest, TypeOK
<1>4. CASE EnterPoll
  BY <1>4 DEF EnterPoll, TypeOK
<1>5. CASE PollReturns
  <2>1. polled' \in Table /\ \A K : Indexes(polled, K) => Indexes(polled, K)'
    BY <1>5, PolledIsIndexed DEF TypeOK, Indexes
  <2> QED
    BY <1>5, <2>1 DEF PollReturns, TypeOK
<1>6. CASE Pick
  <2>1. PICK c \in todo : at' = <<c, "client">> /\ todo' = todo \ {c}
    BY <1>6 DEF Pick
  <2>2. at' \in (DOMAIN conns) \X Dirs
    BY <2>1 DEF TypeOK, Dirs
  <2> QED
    BY <1>6, <2>1, <2>2 DEF Pick, TypeOK
<1>7. CASE ReadEOF
  BY <1>7, ServedIsFd DEF ReadEOF, GiveUp, TypeOK
<1>8. ASSUME NextSide, Serving
      PROVE  at' = <<>> \/ at' \in (DOMAIN conns) \X Dirs
  BY <1>8, ServedIsFd DEF NextSide, Dirs
<1>9. ASSUME NEW whole \in BOOLEAN, NEW part \in BOOLEAN, ReadMessages(whole, part)
      PROVE  TypeOK' /\ SameLayout
  <2>1. Serving /\ Served \in Fds /\ at[1] \in DOMAIN conns /\ at[2] \in Dirs
    BY <1>9, ServedIsFd DEF ReadMessages
  <2>2. /\ DOMAIN conns' = DOMAIN conns
        /\ conns' \in UNION {[S -> Conn] : S \in SUBSET Clients}
        /\ \A x \in DOMAIN conns : conns'[x].fd = conns[x].fd
        /\ \A x \in DOMAIN conns : x # at[1] => conns'[x] = conns[x]
    BY <1>9, <2>1, ConnRead
  <2>3. /\ sock' \in [Fds -> {"free", "listener"} \cup Alive \cup Gone]
        /\ \A fd \in Fds : sock'[fd] = "free" <=> sock[fd] = "free"
    BY <1>9, <2>1 DEF ReadMessages, TypeOK, Alive, Gone
  <2> QED
    BY <1>8, <1>9, <2>1, <2>2, <2>3 DEF ReadMessages, TypeOK
<1>10. ASSUME Serving, Sent
       PROVE  /\ DOMAIN conns' = DOMAIN conns
              /\ conns' \in UNION {[S -> Conn] : S \in SUBSET Clients}
              /\ \A x \in DOMAIN conns : conns'[x].fd = conns[x].fd
              /\ \A x \in DOMAIN conns : x # at[1] => conns'[x] = conns[x]
  BY <1>10, ServedIsFd, ConnSent
<1>11. CASE Write
  <2>1. Serving /\ Served \in Fds /\ pc = "serve"
    BY <1>11, ServedIsFd DEF Write
  <2>2. full' \subseteq Fds
    BY <1>11, <2>1 DEF Write, TypeOK
  <2>3. CASE Sent /\ NextSide /\ UNCHANGED <<toClose, pc, cause>>
    BY <1>8, <1>10, <1>11, <2>1, <2>2, <2>3 DEF Write, TypeOK
  <2>4. CASE pc' = "sending" /\ UNCHANGED <<conns, at, toClose, cause>>
    BY <1>11, <2>1, <2>2, <2>4 DEF Write, TypeOK
  <2>5. CASE Die("sigpipe") /\ UNCHANGED <<conns, full, at, toClose>>
    BY <1>11, <2>1, <2>5 DEF Write, TypeOK, Die
  <2>6. CASE GiveUp /\ UNCHANGED <<conns, full, pc, cause>>
    BY <1>11, <2>1, <2>6, ServedIsFd DEF Write, TypeOK, GiveUp
  <2> QED
    BY <1>11, <2>3, <2>4, <2>5, <2>6 DEF Write
<1>12. CASE SendReturns
  <2>1. Serving
    BY <1>12 DEF SendReturns, Serving, Sending
  <2> QED
    BY <1>8, <1>10, <1>12, <2>1 DEF SendReturns, TypeOK
<1>13. CASE SendFails
  <2>1. Serving
    BY <1>13 DEF SendFails, Serving, Sending
  <2>2. at[1] \in DOMAIN conns
    BY <2>1, ServedIsFd
  <2> QED
    BY <1>13, <2>2 DEF SendFails, TypeOK, Die, GiveUp
<1>14. CASE Skip
  BY <1>8, <1>14 DEF Skip, Idle, TypeOK
<1>15. CASE NobodyWaits
  BY <1>15 DEF NobodyWaits, TypeOK
<1>16. CASE PollError
  BY <1>16, ServedIsFd DEF PollError, Idle, GiveUp, TypeOK
<1>17. CASE ReadMiscounted
  BY <1>17, ServedIsFd DEF ReadMiscounted, GiveUp, Die, TypeOK
<1> QED
  BY <1>1, <1>2, <1>3, <1>4, <1>5, <1>6, <1>7, <1>9, <1>11, <1>12, <1>13, <1>14,
     <1>15, <1>16, <1>17 DEF Loop, Pass

-----------------------------------------------------------------------------
(* The steps that change the table's descriptors.                          *)

(* The listener is put into the empty table.                               *)
LEMMA AddListenerKeeps ==
  ASSUME TypeOK, Layout, AddListener
  PROVE  TypeOK' /\ Layout'
<1>1. /\ pc = "add" /\ pc' = "test" /\ UNCHANGED <<conns, sock>>
      /\ polled' = SocketAdded(polled, Listener, {"POLLIN"})
  BY DEF AddListener, kernel
<1>2. Indexes(polled, {}) /\ polled \in Table
  BY <1>1 DEF Layout, TableConsistent, TypeOK
<1>3. polled' \in Table /\ Indexes(polled', {} \cup {Listener})
  <2>1. {"POLLIN"} \in SUBSET {"POLLIN", "POLLOUT"} /\ Listener \notin {}
    OBVIOUS
  <2> QED
    BY <1>1, <1>2, <2>1, ListenerIsFd, SocketAddedIsIndexed
<1>4. DOMAIN conns = {}
  BY <1>1 DEF Layout, NothingYet, Starting
<1>5. Known = {Listener} /\ Known' = {Listener}
  BY <1>1, <1>4 DEF Known
<1>6. {} \cup {Listener} = Known'
  BY <1>5
<1>7. TableConsistent'
  <2>1. Indexes(polled', Known')
    BY <1>3, <1>6
  <2> QED
    BY <1>1, <2>1 DEF TableConsistent, Indexes
<1>8. NoDescriptorLeak' /\ ListenerApart' /\ NothingYet'
  BY <1>1, <1>4, <1>5 DEF Layout, NoDescriptorLeak, ListenerApart, NothingYet, Starting
<1>9. TypeOK'
  BY <1>1, <1>3 DEF TypeOK, AddListener, peers, kernel
<1> QED
  BY <1>7, <1>8, <1>9 DEF Layout

(* Connections are closed, and their descriptors leave table and kernel.   *)
LEMMA CloseConnectionsKeeps ==
  ASSUME TypeOK, Layout, CloseConnections
  PROVE  TypeOK' /\ Layout'
<1> DEFINE gone == UNION {FdsOf(c) : c \in toClose}
           left == DOMAIN conns \ toClose
<1>1. /\ pc = "serve" /\ pc' = "accept" /\ toClose' = {} /\ todo' = {}
      /\ at' = <<>> /\ sock' = Closed(sock, gone) /\ full' = full \ gone
      /\ polled' = Compacted(polled, gone)
      /\ conns' = [c \in left |-> conns[c]]
  BY DEF CloseConnections
<1>2. /\ DOMAIN conns \in SUBSET Clients /\ conns \in [DOMAIN conns -> Conn]
      /\ toClose \subseteq DOMAIN conns
  BY ConnsTyped DEF TypeOK
<1>3. DOMAIN conns' = left /\ \A c \in left : conns'[c] = conns[c]
  BY <1>1
<1>4. conns' \in UNION {[S -> Conn] : S \in SUBSET Clients}
  <2>1. conns' \in [left -> Conn] /\ left \in SUBSET Clients
    BY <1>1, <1>2
  <2> QED
    BY <1>3, <2>1, ConnsTyped
<1>5. \A c \in left : \A d \in Dirs : conns[c].fd[d] \notin gone
  BY <1>2 DEF Layout, NoDescriptorLeak, FdsOf
<1>6. Listener \notin gone
  BY <1>2 DEF Layout, ListenerApart, FdsOf
<1>7. Known' = Known \ gone
  <2>1. Known = {Listener} \cup UNION {FdsOf(c) : c \in DOMAIN conns}
    BY DEF Known
  <2>2. Known' = {Listener} \cup UNION {FdsOf(c) : c \in left}
    BY <1>3 DEF Known, FdsOf
  <2>3. \A c \in left : FdsOf(c) \cap gone = {}
    BY <1>5 DEF FdsOf
  <2>4. UNION {FdsOf(c) : c \in DOMAIN conns}
          = gone \cup UNION {FdsOf(c) : c \in left}
    BY <1>2
  <2> HIDE DEF gone, left
  <2> QED
    BY <1>6, <2>1, <2>2, <2>3, <2>4
<1>8. Indexes(polled, Known) /\ polled \in Table
  BY <1>1 DEF Layout, TableConsistent, TypeOK
<1>9. polled' \in Table /\ Indexes(polled', Known')
  BY <1>1, <1>7, <1>8, CompactedIsIndexed, Zenon
<1>10. TableConsistent'
  BY <1>1, <1>9 DEF TableConsistent, Indexes
<1>11. /\ sock' \in [Fds -> {"free", "listener"} \cup Alive \cup Gone]
       /\ \A fd \in Fds : sock'[fd] = IF fd \in gone THEN "free" ELSE sock[fd]
  BY <1>1 DEF TypeOK, Closed
<1> HIDE DEF gone
<1>12. {fd \in Fds : sock'[fd] # "free"} = Known'
  BY <1>7, <1>11 DEF Layout, NoDescriptorLeak
<1>13. NoDescriptorLeak'
  BY <1>3, <1>12 DEF Layout, NoDescriptorLeak
<1>14. ListenerApart' /\ NothingYet'
  BY <1>1, <1>3 DEF Layout, ListenerApart, NothingYet, Starting
<1>15. TypeOK'
  BY <1>1, <1>4, <1>9, <1>11 DEF TypeOK, CloseConnections, peers
<1> QED
  BY <1>10, <1>13, <1>14, <1>15 DEF Layout

(* A connection is accepted, refused, or not taken for want of a           *)
(* descriptor.                                                             *)
LEMMA AcceptKeeps ==
  ASSUME TypeOK, Waiting, Layout, Accept
  PROVE  TypeOK' /\ Layout' /\ Waiting'
<1> DEFINE c   == Head(backlog)
           cfd == Lowest(Free)
           sfd == Lowest(Free \ {cfd})
           new == [fd |-> [client |-> cfd, server |-> sfd], held |-> {}, cut |-> {}]
<1>1. /\ pc = "accept" /\ pc' = "test" /\ backlog # <<>>
      /\ UNCHANGED <<child, ending, full, sigchld, todo, at, toClose,
                     childRunning, childRetval, retval, cause>>
  BY DEF Accept
<1>2. /\ c \in Clients /\ Tail(backlog) \in Seq(Clients)
      /\ Len(backlog) \in Nat \ {0}
      /\ Len(Tail(backlog)) = Len(backlog) - 1
      /\ \A i \in 1 .. Len(backlog) - 1 : Tail(backlog)[i] = backlog[i + 1]
      /\ c = backlog[1] /\ DOMAIN backlog = 1 .. Len(backlog)
      /\ DOMAIN Tail(backlog) = 1 .. Len(backlog) - 1
  BY <1>1, HeadTailProperties, LenProperties DEF TypeOK
<1>3. c \notin DOMAIN conns
  BY <1>2 DEF Waiting
<1>4. ASSUME backlog' = Tail(backlog), DOMAIN conns' \subseteq DOMAIN conns \cup {c}
      PROVE  Waiting'
  <2> SUFFICES ASSUME NEW i \in DOMAIN backlog'
               PROVE  /\ backlog'[i] \notin DOMAIN conns'
                      /\ \A j \in DOMAIN backlog' : backlog'[i] = backlog'[j] => i = j
    BY DEF Waiting
  <2>1. i + 1 \in DOMAIN backlog /\ backlog'[i] = backlog[i + 1] /\ 1 \in DOMAIN backlog
        /\ i \in Int /\ i + 1 # 1
    BY <1>2, <1>4
  <2>2. backlog'[i] # c /\ backlog'[i] \notin DOMAIN conns
    BY <1>2, <2>1 DEF Waiting
  <2>3. ASSUME NEW j \in DOMAIN backlog', backlog'[i] = backlog'[j]
        PROVE  i = j
    <3>1. j + 1 \in DOMAIN backlog /\ backlog'[j] = backlog[j + 1] /\ j \in Int
      BY <1>2, <1>4
    <3>2. i + 1 = j + 1
      BY <2>1, <2>3, <3>1 DEF Waiting
    <3> QED
      BY <2>1, <3>1, <3>2
  <2> QED
    BY <1>4, <2>2, <2>3
<1>5. ASSUME Free # {}
      PROVE  cfd \in Free /\ cfd \in Fds /\ sock[cfd] = "free"
  <2>1. Free \in SUBSET Nat
    BY FdsAssumption DEF Free
  <2> QED
    BY <1>5, <2>1, LowestIsLeast DEF Free
<1>6. ASSUME Free # {}, Free # {cfd}
      PROVE  sfd \in Free /\ sfd \in Fds /\ sock[sfd] = "free" /\ sfd # cfd
  <2>1. Free \ {cfd} \in SUBSET Nat /\ Free \ {cfd} # {}
    BY <1>6, FdsAssumption DEF Free
  <2> HIDE DEF cfd
  <2> QED
    BY <2>1, LowestIsLeast DEF Free
<1>7. CASE UNCHANGED <<backlog, sock, conns, polled>>
  <2>1. TypeOK'
    BY <1>1, <1>7 DEF TypeOK
  <2>2. Waiting'
    BY <1>7 DEF Waiting
  <2>3. Layout'
    BY <1>1, <1>7, LayoutKept DEF Starting, Indexes
  <2> QED
    BY <2>1, <2>2, <2>3
<1>8. CASE Free # {} /\ backlog' = Tail(backlog) /\ sock' = Refused(sock, cfd)
           /\ UNCHANGED <<conns, polled>>
  <2>1. /\ sock' \in [Fds -> {"free", "listener"} \cup Alive \cup Gone]
        /\ \A fd \in Fds : sock'[fd] = IF fd = cfd THEN "free" ELSE sock[fd]
    BY <1>8 DEF TypeOK, Refused, Closed
  <2>2. \A fd \in Fds : sock'[fd] = "free" <=> sock[fd] = "free"
    BY <1>5, <1>8, <2>1
  <2>3. TypeOK'
    BY <1>1, <1>2, <1>8, <2>1 DEF TypeOK
  <2>4. Waiting'
    BY <1>4, <1>8
  <2>5. Layout'
    BY <1>1, <1>8, <2>2, LayoutKept DEF Starting, Indexes
  <2> QED
    BY <2>3, <2>4, <2>5
<1>9. CASE /\ Free # {} /\ Free # {cfd} /\ backlog' = Tail(backlog)
           /\ sock' = [sock EXCEPT ![cfd] = "quiet", ![sfd] = "quiet"]
           /\ conns' = [x \in DOMAIN conns \cup {c} |->
                          IF x = c THEN new ELSE conns[x]]
           /\ polled' = SocketAdded(SocketAdded(polled, cfd, {}), sfd, {})
  <2>1. /\ sock' \in [Fds -> {"free", "listener"} \cup Alive \cup Gone]
        /\ \A fd \in Fds : sock'[fd] = IF fd \in {cfd, sfd} THEN "quiet" ELSE sock[fd]
    BY <1>5, <1>6, <1>9 DEF TypeOK, Alive
  <2>2. new \in Conn
    BY <1>5, <1>6, <1>9 DEF Conn, Dirs
  <2>3. /\ DOMAIN conns \in SUBSET Clients
        /\ \A x \in DOMAIN conns : conns[x] \in Conn
    BY ConnsTyped DEF TypeOK
  <2>4. /\ DOMAIN conns' = DOMAIN conns \cup {c} /\ conns'[c] = new
        /\ \A x \in DOMAIN conns : conns'[x] = conns[x]
    BY <1>3, <1>9
  <2>5. conns' \in UNION {[S -> Conn] : S \in SUBSET Clients}
    <3>1. DOMAIN conns' \in SUBSET Clients
      BY <1>2, <2>3, <2>4
    <3>2. conns' \in [DOMAIN conns' -> Conn]
      BY <1>9, <2>2, <2>3, <2>4
    <3> QED
      BY <3>1, <3>2, ConnsTyped
  <2>6. new.fd["client"] = cfd /\ new.fd["server"] = sfd
    OBVIOUS
  <2>7. Known' = (Known \cup {cfd}) \cup {sfd}
    <3> HIDE DEF cfd, sfd, new, c
    <3>1. \A x \in DOMAIN conns : FdsOf(x)' = FdsOf(x)
      BY <2>4 DEF FdsOf
    <3>2. {conns'[c].fd[d] : d \in Dirs} = {cfd, sfd}
      BY <2>4, <2>6 DEF Dirs
    <3>3. UNION {{conns'[x].fd[d] : d \in Dirs} : x \in DOMAIN conns'}
            = {cfd, sfd} \cup UNION {FdsOf(x) : x \in DOMAIN conns}
      BY <2>4, <3>1, <3>2 DEF FdsOf
    <3> QED
      BY <3>3 DEF Known, FdsOf
  <2>8. Indexes(polled, Known) /\ polled \in Table
    BY <1>1 DEF Layout, TableConsistent, TypeOK
  <2>9. cfd \notin Known /\ sfd \notin Known \cup {cfd}
    BY <1>5, <1>6, <1>9 DEF Layout, NoDescriptorLeak
  <2>10. polled' \in Table /\ Indexes(polled', (Known \cup {cfd}) \cup {sfd})
    <3> HIDE DEF cfd, sfd
    <3>1. /\ SocketAdded(polled, cfd, {}) \in Table
          /\ Indexes(SocketAdded(polled, cfd, {}), Known \cup {cfd})
      BY <1>5, <1>9, <2>8, <2>9, SocketAddedIsIndexed
    <3> QED
      BY <1>6, <1>9, <2>9, <3>1, SocketAddedIsIndexed
  <2>11. TableConsistent'
    BY <1>1, <2>7, <2>10 DEF TableConsistent, Indexes
  <2> HIDE DEF cfd, sfd, new, c
  <2>12. {fd \in Fds : sock'[fd] # "free"} = Known'
    BY <1>5, <1>6, <1>9, <2>1, <2>7 DEF Layout, NoDescriptorLeak
  <2>13. \A x \in DOMAIN conns : \A d \in Dirs : conns[x].fd[d] \in Known
    BY DEF Known, FdsOf
  <2>14. \A c1, c2 \in DOMAIN conns' : \A d1, d2 \in Dirs :
           conns'[c1].fd[d1] = conns'[c2].fd[d2] => c1 = c2 /\ d1 = d2
    <3> SUFFICES ASSUME NEW c1 \in DOMAIN conns', NEW c2 \in DOMAIN conns',
                        NEW d1 \in Dirs, NEW d2 \in Dirs,
                        conns'[c1].fd[d1] = conns'[c2].fd[d2]
                 PROVE  c1 = c2 /\ d1 = d2
      OBVIOUS
    <3>1. \A d \in Dirs : new.fd[d] \notin Known
      BY <2>6, <2>9 DEF Dirs
    <3>2. new.fd[d1] = new.fd[d2] => d1 = d2
      BY <1>6, <1>9, <2>6 DEF Dirs
    <3>3. CASE c1 = c /\ c2 = c
      BY <2>4, <3>2, <3>3
    <3>4. CASE c1 = c /\ c2 # c
      BY <2>4, <2>13, <3>1, <3>4
    <3>5. CASE c1 # c /\ c2 = c
      BY <2>4, <2>13, <3>1, <3>5
    <3>6. CASE c1 # c /\ c2 # c
      BY <2>4, <3>6 DEF Layout, NoDescriptorLeak
    <3> QED
      BY <3>3, <3>4, <3>5, <3>6
  <2>15. NoDescriptorLeak'
    BY <2>12, <2>14 DEF NoDescriptorLeak
  <2>16. ListenerApart'
    <3>1. Listener \in Known
      BY DEF Known
    <3>2. \A d \in Dirs : new.fd[d] # Listener
      BY <2>6, <2>9, <3>1 DEF Dirs
    <3> QED
      BY <2>4, <3>2 DEF Layout, ListenerApart
  <2>17. NothingYet'
    BY <1>1 DEF NothingYet, Starting
  <2>18. TypeOK'
    BY <1>1, <1>2, <1>9, <2>1, <2>4, <2>5, <2>10 DEF TypeOK
  <2>19. Waiting'
    BY <1>4, <1>9, <2>4
  <2> QED
    BY <2>11, <2>15, <2>16, <2>17, <2>18, <2>19 DEF Layout
<1> QED
  BY <1>7, <1>8, <1>9 DEF Accept

-----------------------------------------------------------------------------
(* The invariant holds throughout.                                         *)

LEMMA LayoutInit == Init => LayoutInv
<1> SUFFICES ASSUME Init PROVE LayoutInv
  OBVIOUS
<1> USE DEF Init
<1>1. DOMAIN conns = {} /\ conns \in [{} -> Conn]
  OBVIOUS
<1>2. conns \in UNION {[S -> Conn] : S \in SUBSET Clients}
  BY <1>1, ConnsTyped
<1>3. polled \in Table
  <2>1. <<>> \in Seq(Entry) /\ <<>> \in [{} -> 1 .. Cardinality(Fds)]
    OBVIOUS
  <2> QED
    BY <2>1 DEF Table
<1>4. TypeOK
  <2>1. backlog \in Seq(Clients) /\ full \subseteq Fds
    OBVIOUS
  <2>2. sock \in [Fds -> {"free", "listener"} \cup Alive \cup Gone]
    BY DEF Alive
  <2>3. ending \in Endings /\ childRetval \in Nat /\ retval \in Nat
    BY DEF Endings
  <2>4. /\ child \in {"none", "running", "ended"} /\ sigchld \in BOOLEAN
        /\ childRunning \in BOOLEAN /\ cause \in {"none", "sigpipe", "handler", "short"}
    OBVIOUS
  <2>5. /\ todo \subseteq DOMAIN conns /\ toClose \subseteq DOMAIN conns
        /\ at = <<>>
    OBVIOUS
  <2>6. pc \in {"start", "forked", "add", "test", "ready", "polling", "serve",
               "sending", "accept", "exit", "dead"}
    OBVIOUS
  <2> QED
    BY ONLY <1>2, <1>3, <2>1, <2>2, <2>3, <2>4, <2>5, <2>6 DEF TypeOK
<1>5. Waiting /\ Sending
  BY DEF Waiting, Sending
<1>6. Known = {Listener}
  BY <1>1 DEF Known
<1>7. NoDescriptorLeak
  BY <1>1, <1>6, ListenerIsFd DEF NoDescriptorLeak
<1>8. TableConsistent
  BY FS_EmptySet DEF TableConsistent, Indexes
<1>9. ListenerApart /\ NothingYet
  BY <1>1 DEF ListenerApart, NothingYet
<1> QED
  BY <1>4, <1>5, <1>7, <1>8, <1>9 DEF LayoutInv, Layout

(* A send that blocks keeps its connection.                                *)
LEMMA SendingKept ==
  ASSUME Sending, Next
  PROVE  Sending'
<1> USE DEF Sending, peers, kernel, program, served
<1>1. CASE Peers
  BY <1>1 DEF Peers, ClientConnects, PeerSends, PeerCloses, PeerReads, ChildEnds
<1>2. CASE HandleSIGCHLD
  BY <1>2 DEF HandleSIGCHLD, Die
<1>3. CASE Write
  BY <1>3 DEF Write, Serving, Die
<1>4. CASE Loop /\ ~Write
  BY <1>4 DEF Loop, Pass, Fork, StoreChildRunning, AddListener, LoopTest, EnterPoll,
     PollReturns, Pick, ReadMessages, ReadEOF, ReadMiscounted, SendReturns, SendFails, Skip, Idle, PollError,
     CloseConnections, Accept, NobodyWaits, Die
<1> QED
  BY <1>1, <1>2, <1>3, <1>4 DEF Next

(* Who waits has no connection, as long as nothing is accepted.            *)
LEMMA WaitingKept ==
  ASSUME TypeOK, Waiting, Next, ~Accept, DOMAIN conns' \subseteq DOMAIN conns
  PROVE  Waiting'
<1>1. CASE backlog' = backlog
  BY <1>1 DEF Waiting
<1>2. ASSUME NEW c \in Clients, ClientConnects(c)
      PROVE  Waiting'
  <2>1. /\ backlog' = Append(backlog, c) /\ conns' = conns
        /\ c \notin DOMAIN conns /\ \A i \in DOMAIN backlog : backlog[i] # c
    BY <1>2 DEF ClientConnects, program
  <2>2. /\ Len(backlog) \in Nat /\ DOMAIN backlog = 1 .. Len(backlog)
        /\ DOMAIN backlog' = 1 .. Len(backlog) + 1
        /\ backlog'[Len(backlog) + 1] = c
        /\ \A i \in DOMAIN backlog : backlog'[i] = backlog[i]
    BY <2>1, LenProperties, AppendProperties DEF TypeOK
  <2>3. \A i \in DOMAIN backlog' : i \in DOMAIN backlog \/ i = Len(backlog) + 1
    BY <2>2
  <2> QED
    BY <2>1, <2>2, <2>3 DEF Waiting
<1>3. CASE ~\E c \in Clients : ClientConnects(c)
  <2> USE DEF peers, kernel, program, served
  <2>1. CASE Peers
    BY <1>1, <1>3, <2>1 DEF Peers, PeerSends, PeerCloses, PeerReads, ChildEnds
  <2>2. CASE HandleSIGCHLD
    BY <1>1, <2>2 DEF HandleSIGCHLD
  <2>3. CASE Loop
    BY <1>1, <2>3 DEF Loop, Pass, Fork, StoreChildRunning, AddListener, LoopTest,
       EnterPoll, PollReturns, Pick, ReadMessages, ReadEOF, ReadMiscounted, Write, SendReturns,
       SendFails, Skip, Idle, PollError, CloseConnections, NobodyWaits
  <2> QED
    BY <2>1, <2>2, <2>3 DEF Next
<1> QED
  BY <1>2, <1>3

LEMMA LayoutStep == LayoutInv /\ [Next]_vars => LayoutInv'
<1> SUFFICES ASSUME LayoutInv, [Next]_vars
             PROVE  LayoutInv'
  OBVIOUS
<1> USE DEF LayoutInv
<1>1. ASSUME TypeOK', SameLayout
      PROVE  Layout'
  BY <1>1, LayoutKept DEF SameLayout
<1>2. CASE UNCHANGED vars
  <2>1. TypeOK'
    BY <1>2 DEF TypeOK, vars, peers, kernel, program
  <2>2. SameLayout
    BY <1>2 DEF SameLayout, Starting, Indexes, vars, peers, kernel, program
  <2>3. Waiting' /\ Sending'
    BY <1>2 DEF Waiting, Sending, vars, peers, kernel, program
  <2> QED
    BY <1>1, <2>1, <2>2, <2>3
<1>3. CASE ~Accept /\ (Peers \/ HandleSIGCHLD \/ (Loop /\ ~AddListener /\ ~CloseConnections))
  <2>1. TypeOK' /\ SameLayout /\ Next
    BY <1>3, PeersKeep, HandlerKeeps, LoopKeeps DEF Next
  <2>2. Waiting' /\ Sending'
    BY <1>3, <2>1, WaitingKept, SendingKept DEF SameLayout
  <2> QED
    BY <1>1, <2>1, <2>2
<1>4. CASE AddListener
  <2>1. TypeOK' /\ Layout' /\ conns' = conns /\ Next /\ ~Accept
    BY <1>4, AddListenerKeeps DEF AddListener, Accept, Next, Loop
  <2> QED
    BY <2>1, WaitingKept, SendingKept
<1>5. CASE CloseConnections
  <2>1. TypeOK' /\ Layout' /\ DOMAIN conns' \subseteq DOMAIN conns
    BY <1>5, CloseConnectionsKeeps DEF CloseConnections
  <2>2. Next /\ ~Accept
    BY <1>5 DEF CloseConnections, Accept, Next, Loop, Pass
  <2> QED
    BY <2>1, <2>2, WaitingKept, SendingKept
<1>6. CASE Accept
  <2>1. Next
    BY <1>6 DEF Next, Loop, Pass
  <2> QED
    BY <1>6, <2>1, AcceptKeeps, SendingKept
<1> QED
  BY <1>2, <1>3, <1>4, <1>5, <1>6 DEF Next

LEMMA LayoutHolds == Spec => []LayoutInv
BY LayoutInit, LayoutStep, PTL DEF Spec

(* The state has the declared types: the poll table has an entry per       *)
(* descriptor at most, what is served or to be closed is a connection.     *)
THEOREM TypesHold == Spec => []TypeOK
<1>1. LayoutInv => TypeOK
  BY DEF LayoutInv
<1> QED
  BY <1>1, LayoutHolds, PTL

(* The poll table has exactly one entry for the listener and for each side *)
(* of each connection, at the place its index says.                        *)
THEOREM TableStaysConsistent == Spec => []TableConsistent
<1>1. LayoutInv => TableConsistent
  BY DEF LayoutInv, Layout
<1> QED
  BY <1>1, LayoutHolds, PTL

(* Every open descriptor is known to the program and belongs to one side   *)
(* of one connection.                                                      *)
THEOREM NoDescriptorLeaks == Spec => []NoDescriptorLeak
<1>1. LayoutInv => NoDescriptorLeak
  BY DEF LayoutInv, Layout
<1> QED
  BY <1>1, LayoutHolds, PTL

-----------------------------------------------------------------------------
(* The subcommand.                                                         *)

(* A signal is pending or has been handled once the subcommand has ended,  *)
(* and what the handler stored stays until the process returns it.         *)
ChildInv ==
  /\ pc = "start" => child = "none"
  /\ Subcommand /\ pc # "start" => child # "none"
  /\ child = "running" => ~sigchld /\ (childRunning \/ pc = "forked")
  /\ sigchld => child = "ended" /\ (childRunning \/ pc \in {"forked", "dead"})
  /\ child = "ended" /\ ~sigchld /\ pc # "dead" => childRetval = RetvalOf(ending)
  /\ pc = "exit" => /\ ~KeepRunning
                    /\ DOMAIN conns = {}
                    /\ Subcommand => /\ child = "ended" /\ ~sigchld
                                     /\ retval = childRetval

LEMMA ChildInit == Init => ChildInv
BY DEF Init, ChildInv

LEMMA ChildStep == TypeOK /\ ChildInv /\ [Next]_vars => ChildInv'
<1> SUFFICES ASSUME TypeOK, ChildInv, [Next]_vars
             PROVE  ChildInv'
  OBVIOUS
<1> USE DEF ChildInv, peers, kernel, program
<1>1. CASE UNCHANGED vars
  BY <1>1 DEF vars, RetvalOf
<1>2. CASE Peers /\ ~ChildEnds
  BY <1>2 DEF Peers, ClientConnects, PeerSends, PeerCloses, PeerReads, RetvalOf
<1>3. CASE ChildEnds
  BY <1>3 DEF ChildEnds, Running
<1>4. CASE HandleSIGCHLD
  <2>1. CASE ~childRunning
    BY <1>4, <2>1 DEF HandleSIGCHLD, Running, Die
  <2>2. CASE childRunning
    <3>1. /\ childRetval' = RetvalOf(ending) /\ ~childRunning' /\ sigchld' = FALSE
          /\ UNCHANGED <<child, ending, conns>> /\ pc \notin {"exit", "dead"}
          /\ child = "ended"
      BY <1>4, <2>2 DEF HandleSIGCHLD, Running
    <3>2. pc' \in {"test", "serve", "dead"} \/ pc' = pc
      BY <1>4, <2>2 DEF HandleSIGCHLD, Die
    <3>3. RetvalOf(ending)' = RetvalOf(ending)
      BY <3>1 DEF RetvalOf
    <3>4. pc # "start"
      BY <3>1
    <3> QED
      BY <3>1, <3>2, <3>3, <3>4
  <2> QED
    BY <2>1, <2>2 DEF TypeOK
<1>5. CASE Fork
  BY <1>5 DEF Fork, TypeOK, OptionsAssumption
<1>6. CASE StoreChildRunning
  BY <1>6 DEF StoreChildRunning, RetvalOf
<1>7. CASE LoopTest
  <2>1. CASE LoopGoesOn
    BY <1>7, <2>1 DEF LoopTest, RetvalOf
  <2>2. CASE ~LoopGoesOn
    <3>1. /\ pc' = "exit" /\ pc = "test" /\ ~KeepRunning /\ ~childRunning
          /\ DOMAIN conns = {}
          /\ retval' = IF Subcommand /\ ~KeepRunning THEN childRetval ELSE 0
          /\ UNCHANGED <<conns, child, ending, sigchld, childRunning, childRetval>>
      BY <1>7, <2>2 DEF LoopTest, LoopGoesOn
    <3>2. Subcommand => child = "ended" /\ ~sigchld
      BY <3>1 DEF TypeOK
    <3> QED
      BY <3>1, <3>2 DEF RetvalOf
  <2> QED
    BY <2>1, <2>2
<1>8. CASE Loop /\ ~Fork /\ ~StoreChildRunning /\ ~LoopTest
  <2>1. /\ UNCHANGED <<child, ending, sigchld, childRunning, childRetval>>
        /\ pc \notin {"start", "forked", "exit"} /\ pc' \notin {"start", "forked", "exit"}
        /\ pc # "dead"
    BY <1>8 DEF Loop, Pass, AddListener, EnterPoll, PollReturns, Pick, ReadMessages,
       ReadEOF, ReadMiscounted, Write, SendReturns, SendFails, Skip, Idle, PollError, CloseConnections, Accept,
       NobodyWaits, Die, served
  <2> QED
    BY <2>1 DEF RetvalOf
<1> QED
  BY <1>1, <1>2, <1>3, <1>4, <1>5, <1>6, <1>7, <1>8 DEF Next

LEMMA ChildHolds == Spec => []ChildInv
BY TypesHold, ChildInit, ChildStep, PTL DEF Spec

(* When the process returns, its subcommand has ended, no connection is    *)
(* left, and it returns the subcommand's status, or its signal plus 128.   *)
THEOREM ExitStatusIsChilds == Spec => []ExitStatus
<1>1. TypeOK /\ ChildInv => ExitStatus
  BY DEF TypeOK, ChildInv, ExitStatus, RetvalOf, Endings, SIGNAL_RETVAL_OFFSET
<1> QED
  BY <1>1, TypesHold, ChildHolds, PTL

-----------------------------------------------------------------------------
(* The pass over the connections.                                          *)

Readable == {"data", "last", "closed"}

OnlyListener == \A fd \in Fds : sock[fd] = "listener" <=> fd = Listener

(* This side of this connection is still to be served in this pass.        *)
ToServe(c, d) ==
  c \in todo \/ (at # <<>> /\ at[1] = c /\ (at[2] = d \/ d = "server"))

(* What poll() found is still there when its turn comes.                   *)
FreshEvents ==
  pc \in {"serve", "sending"} =>
    \A c \in DOMAIN conns : \A d \in Dirs :
      ToServe(c, d) =>
        /\ "POLLIN" \in Revents(conns[c].fd[d]) => sock[conns[c].fd[d]] \in Readable
        /\ "POLLERR" \in Revents(conns[c].fd[d]) => sock[conns[c].fd[d]] \in Gone

FreshListener ==
  pc \in {"serve", "sending", "accept"} /\ "POLLIN" \in Revents(Listener)
    => backlog # <<>>

ServedOnce == at # <<>> => at[1] \notin todo /\ pc \in {"serve", "sending", "dead"}

PassInv == OnlyListener /\ FreshEvents /\ FreshListener /\ ServedOnce

(* What a step keeps that forgets nothing of what there is to read.        *)
LEMMA FreshKept ==
  ASSUME PassInv, polled' = polled,
         DOMAIN conns' = DOMAIN conns,
         \A c \in DOMAIN conns : conns'[c].fd = conns[c].fd,
         \A c \in DOMAIN conns : \A d \in Dirs :
           ToServe(c, d)' =>
             /\ ToServe(c, d)
             /\ sock[conns[c].fd[d]] \in Readable => sock'[conns[c].fd[d]] \in Readable
             /\ sock[conns[c].fd[d]] \in Gone => sock'[conns[c].fd[d]] \in Gone,
         \A fd \in Fds : sock'[fd] = "listener" <=> sock[fd] = "listener",
         pc' \in {"serve", "sending"} => pc \in {"serve", "sending"},
         pc' = "accept" => pc = "accept",
         backlog # <<>> => backlog' # <<>>,
         ServedOnce'
  PROVE  PassInv'
<1>1. \A fd : Revents(fd)' = Revents(fd)
  BY DEF Revents
<1>2. FreshEvents'
  BY <1>1 DEF PassInv, FreshEvents
<1>3. FreshListener'
  BY <1>1 DEF PassInv, FreshListener
<1>4. OnlyListener'
  BY DEF PassInv, OnlyListener
<1> QED
  BY <1>2, <1>3, <1>4 DEF PassInv

LEMMA PassInit == Init => PassInv
BY ListenerIsFd DEF Init, PassInv, OnlyListener, FreshEvents, FreshListener, ServedOnce

(* What poll() returns is what is there.                                   *)
LEMMA PollIsFresh ==
  ASSUME LayoutInv, PassInv, PollReturns
  PROVE  PassInv'
<1>1. /\ pc = "polling" /\ pc' = "serve" /\ UNCHANGED <<backlog, sock, conns, at>>
      /\ todo' = DOMAIN conns
  BY DEF PollReturns, peers, kernel
<1>2. Indexes(polled, Known)
  BY <1>1 DEF LayoutInv, Layout, TableConsistent
<1>3. ASSUME NEW fd \in Known
      PROVE  /\ "POLLIN" \in Revents(fd)' => "POLLIN" \in Ready(fd)
             /\ "POLLERR" \in Revents(fd)' => sock[fd] \in Gone
  <2>0. PICK broken \in SUBSET {f \in Fds : sock[f] \in Gone} :
          polled' = [polled EXCEPT !.pfds =
            [i \in DOMAIN @ |-> [@[i] EXCEPT !.revents = Found(polled.pfds[i], broken)]]]
    BY DEF PollReturns
  <2>1. polled.index[fd] \in DOMAIN polled.pfds /\ polled.pfds[polled.index[fd]].fd = fd
    BY <1>2 DEF Indexes
  <2> DEFINE p == [i \in DOMAIN polled.pfds |->
                     [polled.pfds[i] EXCEPT !.revents = Found(polled.pfds[i], broken)]]
  <2>2. polled'.pfds = p /\ polled'.index = polled.index
    <3>1. polled = [pfds |-> polled.pfds, index |-> polled.index]
      BY TableParts DEF LayoutInv, TypeOK
    <3>2. polled' = [polled EXCEPT !.pfds = p]
      BY <2>0
    <3> HIDE DEF p
    <3> QED
      BY <3>1, <3>2
  <2>3. polled.pfds[polled.index[fd]] \in Entry
    BY <2>1, TableParts, ElementOfSeq DEF LayoutInv, TypeOK
  <2>4. Revents(fd)' = Found(polled.pfds[polled.index[fd]], broken)
    BY <2>1, <2>2, <2>3 DEF Revents, Entry
  <2> QED
    BY <2>1, <2>3, <2>4 DEF Found, Entry, Ready
<1>4. FreshListener'
  BY <1>1, <1>3 DEF FreshListener, Known, Ready
<1>5. FreshEvents'
  <2> SUFFICES ASSUME NEW c \in DOMAIN conns, NEW d \in Dirs
               PROVE  /\ "POLLIN" \in Revents(conns[c].fd[d])'
                            => sock[conns[c].fd[d]] \in Readable
                      /\ "POLLERR" \in Revents(conns[c].fd[d])'
                            => sock[conns[c].fd[d]] \in Gone
    BY <1>1 DEF FreshEvents, Revents
  <2> DEFINE fd == conns[c].fd[d]
  <2>1. fd \in Known /\ fd # Listener
    BY DEF Known, FdsOf, LayoutInv, Layout, ListenerApart
  <2>2. sock[fd] # "free" /\ fd \in Fds
    BY <2>1 DEF LayoutInv, Layout, NoDescriptorLeak
  <2>3. /\ "POLLIN" \in Revents(conns[c].fd[d])' => "POLLIN" \in Ready(fd)
        /\ "POLLERR" \in Revents(conns[c].fd[d])' => sock[fd] \in Gone
    BY <1>1, <1>3, <2>1 DEF Revents
  <2>4. "POLLIN" \in Ready(fd) => sock[fd] # "quiet" /\ sock[fd] # "listener"
    BY <2>1, <2>2 DEF Ready, PassInv, OnlyListener
  <2>5. sock[fd] \in {"free", "listener", "quiet"} \cup Readable
    BY <2>2 DEF LayoutInv, TypeOK, Alive, Gone, Readable
  <2> QED
    BY <2>2, <2>3, <2>4, <2>5
<1> QED
  BY <1>1, <1>4, <1>5 DEF PassInv, OnlyListener, ServedOnce

(* The listener's events outlive the closing of connections.               *)
LEMMA CloseIsFresh ==
  ASSUME LayoutInv, PassInv, CloseConnections
  PROVE  PassInv'
<1> DEFINE gone == UNION {FdsOf(c) : c \in toClose}
<1>1. /\ pc = "serve" /\ pc' = "accept" /\ at = <<>> /\ at' = <<>>
      /\ sock' = Closed(sock, gone) /\ backlog' = backlog
      /\ polled' = Compacted(polled, gone)
  BY DEF CloseConnections, peers
<1>2. Indexes(polled, Known) /\ polled \in Table /\ toClose \subseteq DOMAIN conns
  BY <1>1 DEF LayoutInv, Layout, TableConsistent, TypeOK
<1>3. Listener \in Known \ gone
  BY <1>2 DEF LayoutInv, Layout, ListenerApart, FdsOf, Known
<1>4. Revents(Listener)' = Revents(Listener)
  <2>1. polled'.pfds[polled'.index[Listener]] = polled.pfds[polled.index[Listener]]
    <3> HIDE DEF gone
    <3>1. EntryOf(Compacted(polled, gone), Listener) = EntryOf(polled, Listener)
      BY <1>2, <1>3, CompactedIsIndexed
    <3> QED
      BY <1>1, <3>1 DEF EntryOf
  <2> QED
    BY <2>1 DEF Revents
<1>5. FreshListener'
  BY <1>1, <1>4 DEF PassInv, FreshListener
<1>6. \A fd \in Fds : sock'[fd] = IF fd \in gone THEN "free" ELSE sock[fd]
  BY <1>1 DEF Closed
<1> HIDE DEF gone
<1>7. OnlyListener'
  BY <1>3, <1>6 DEF PassInv, OnlyListener
<1>8. FreshEvents' /\ ServedOnce'
  BY <1>1 DEF FreshEvents, ServedOnce
<1> QED
  BY <1>5, <1>7, <1>8 DEF PassInv

(* An accepted descriptor was free.                                        *)
LEMMA AcceptIsFresh ==
  ASSUME LayoutInv, PassInv, Accept
  PROVE  PassInv'
<1>1. pc = "accept" /\ pc' = "test" /\ at' = at
  BY DEF Accept
<1>2. FreshEvents' /\ FreshListener' /\ ServedOnce'
  BY <1>1 DEF PassInv, FreshEvents, FreshListener, ServedOnce
<1>3. ASSUME NEW S \in SUBSET Fds, \A fd \in S : sock[fd] = "free",
             \A fd \in Fds \ S : sock'[fd] = sock[fd],
             \A fd \in S : sock'[fd] \in {"free", "quiet"}
      PROVE  OnlyListener'
  BY <1>3, ListenerIsFd DEF PassInv, OnlyListener
<1> DEFINE cfd == Lowest(Free)
           sfd == Lowest(Free \ {cfd})
<1>4. Free # {} => cfd \in Fds /\ sock[cfd] = "free"
  <2>1. Free \in SUBSET Nat
    BY FdsAssumption DEF Free
  <2> QED
    BY <2>1, LowestIsLeast DEF Free
<1>5. Free # {} /\ Free # {cfd} => sfd \in Fds /\ sock[sfd] = "free"
  <2>1. Free \ {cfd} \in SUBSET Nat
    BY FdsAssumption DEF Free
  <2> HIDE DEF cfd
  <2>2. Free # {} /\ Free # {cfd} => Free \ {cfd} # {}
    OBVIOUS
  <2> QED
    BY <2>1, <2>2, LowestIsLeast DEF Free
<1>6. CASE sock' = sock
  BY <1>6 DEF PassInv, OnlyListener, FreshEvents, FreshListener, ServedOnce, Accept
<1>7. CASE Free # {} /\ sock' = Refused(sock, cfd)
  <2>1. \A fd \in Fds : sock'[fd] = IF fd = cfd THEN "free" ELSE sock[fd]
    BY <1>7 DEF Refused, Closed
  <2> HIDE DEF cfd
  <2>2. {cfd} \in SUBSET Fds /\ sock[cfd] = "free" /\ sock'[cfd] = "free"
    BY <1>4, <1>7, <2>1
  <2>3. OnlyListener'
    BY <1>3, <2>1, <2>2
  <2> QED
    BY <1>2, <2>3 DEF PassInv
<1>8. CASE /\ Free # {} /\ Free # {cfd}
           /\ sock' = [sock EXCEPT ![cfd] = "quiet", ![sfd] = "quiet"]
  <2>1. \A fd \in Fds : sock'[fd] = IF fd \in {cfd, sfd} THEN "quiet" ELSE sock[fd]
    BY <1>4, <1>5, <1>8 DEF LayoutInv, TypeOK
  <2> HIDE DEF cfd, sfd
  <2>2. OnlyListener'
    BY <1>3, <1>4, <1>5, <1>8, <2>1
  <2> QED
    BY <1>2, <2>2 DEF PassInv
<1> QED
  BY <1>6, <1>7, <1>8 DEF Accept

(* Reading takes what there is from the side that is served and from no    *)
(* other, and that side is not served again.                               *)
LEMMA ReadIsFresh ==
  ASSUME LayoutInv, PassInv,
         NEW whole \in BOOLEAN, NEW part \in BOOLEAN, ReadMessages(whole, part)
  PROVE  PassInv'
<1>1. /\ Serving /\ Served \in Fds /\ at[1] \in DOMAIN conns /\ at[2] \in Dirs
      /\ at = <<at[1], at[2]>>
  BY ServedIsFd DEF ReadMessages, LayoutInv
<1>2. /\ pc = "serve" /\ UNCHANGED <<pc, polled, todo, backlog>>
      /\ sock[Served] \in {"data", "last"}
      /\ NextSide
  BY DEF ReadMessages, served, peers
<1>3. \A fd \in Fds : sock'[fd] = IF fd = Served
                                  THEN IF sock[fd] = "data" THEN "quiet" ELSE "closed"
                                  ELSE sock[fd]
  BY <1>1 DEF ReadMessages, LayoutInv, TypeOK
<1>4. DOMAIN conns' = DOMAIN conns /\ \A c \in DOMAIN conns : conns'[c].fd = conns[c].fd
  BY <1>1, ConnRead DEF LayoutInv
<1>5. at' = <<>> \/ (at' = <<at[1], "server">> /\ at[2] = "client")
  BY <1>2 DEF NextSide
<1>6. ASSUME NEW c \in DOMAIN conns, NEW d \in Dirs, ToServe(c, d)'
      PROVE  /\ ToServe(c, d)
             /\ sock[conns[c].fd[d]] \in Readable => sock'[conns[c].fd[d]] \in Readable
             /\ sock[conns[c].fd[d]] \in Gone => sock'[conns[c].fd[d]] \in Gone
  <2>1. ToServe(c, d)
    BY <1>1, <1>2, <1>5, <1>6 DEF ToServe, Serving
  <2>2. ~(c = at[1] /\ d = at[2])
    <3>1. at[1] \notin todo
      BY <1>1 DEF PassInv, ServedOnce, Serving
    <3>2. CASE at' = <<>>
      BY <1>2, <1>6, <3>1, <3>2 DEF ToServe
    <3>3. CASE at' = <<at[1], "server">> /\ at[2] = "client"
      <4>1. at'[2] = "server"
        BY <3>3
      <4> QED
        BY <1>2, <1>6, <3>1, <3>3, <4>1 DEF ToServe
    <3> QED
      BY <1>5, <3>2, <3>3
  <2>3. conns[c].fd[d] # Served
    BY <1>1, <2>2 DEF LayoutInv, Layout, NoDescriptorLeak, Served
  <2>4. conns[c].fd[d] \in Fds
    <3>1. conns[c] \in Conn
      BY ConnsTyped DEF LayoutInv, TypeOK
    <3> QED
      BY <3>1 DEF Conn
  <2> QED
    BY <1>3, <2>1, <2>3, <2>4
<1>7. \A fd \in Fds : sock'[fd] = "listener" <=> sock[fd] = "listener"
  BY <1>2, <1>3
<1>8. ServedOnce'
  BY <1>1, <1>2, <1>5 DEF PassInv, ServedOnce, Serving
<1> QED
  BY <1>2, <1>4, <1>6, <1>7, <1>8, FreshKept

(* Nobody takes back what the peers have sent.                             *)
LEMMA PeersAreFresh ==
  ASSUME LayoutInv, PassInv, Peers
  PROVE  PassInv'
<1>1. UNCHANGED <<pc, polled, conns, todo, at>>
  BY DEF Peers, ClientConnects, PeerSends, PeerCloses, PeerReads, ChildEnds, program
<1>2. backlog # <<>> => backlog' # <<>>
  <2>1. \A c \in Clients : Append(backlog, c) # <<>>
    <3> SUFFICES ASSUME NEW c \in Clients, Append(backlog, c) = <<>>
                 PROVE  FALSE
      OBVIOUS
    <3>1. Len(Append(backlog, c)) = Len(backlog) + 1 /\ Len(backlog) \in Nat
      BY AppendProperties, LenProperties DEF LayoutInv, TypeOK
    <3>2. Len(Append(backlog, c)) = 0
      OBVIOUS
    <3> QED
      BY ONLY <3>1, <3>2
  <2> QED
    BY <2>1 DEF Peers, ClientConnects, PeerSends, PeerCloses, PeerReads, ChildEnds, peers
<1>3. \A fd \in Fds : /\ sock'[fd] = "listener" <=> sock[fd] = "listener"
                      /\ sock[fd] \in Readable => sock'[fd] \in Readable
                      /\ sock[fd] \in Gone => sock'[fd] \in Gone
  BY DEF Peers, ClientConnects, PeerSends, PeerCloses, PeerReads, ChildEnds, kernel,
     LayoutInv, TypeOK, Alive, Gone, Readable
<1>4. \A c \in DOMAIN conns : \A d \in Dirs : conns[c].fd[d] \in Fds
  <2>1. \A c \in DOMAIN conns : conns[c] \in Conn
    BY ConnsTyped DEF LayoutInv, TypeOK
  <2> QED
    BY <2>1 DEF Conn
<1>5. ServedOnce'
  BY <1>1 DEF PassInv, ServedOnce
<1>6. \A c, d : ToServe(c, d)' => ToServe(c, d)
  BY <1>1 DEF ToServe
<1> QED
  BY <1>1, <1>2, <1>3, <1>4, <1>5, <1>6, FreshKept

(* The steps outside a pass.                                               *)
LEMMA OutsideIsFresh ==
  ASSUME PassInv, UNCHANGED <<sock, at>>, pc \notin {"serve", "sending", "dead"},
         pc' \notin {"serve", "sending", "accept"}
  PROVE  PassInv'
BY DEF PassInv, OnlyListener, FreshEvents, FreshListener, ServedOnce

(* The other steps of a pass, and the handler, serve sides or skip them.   *)
LEMMA RestIsFresh ==
  ASSUME LayoutInv, PassInv, SameLayout, UNCHANGED <<sock, backlog, polled>>,
         pc' \in {pc, "sending", "serve", "dead"},
         pc \in {"serve", "sending"} \/ (pc' \in {pc, "dead"} /\ UNCHANGED <<todo, at>>),
         \/ /\ UNCHANGED <<todo, at>>
         \/ /\ at # <<>> /\ todo' = todo
            /\ \/ at' = <<>>
               \/ at' = <<at[1], "server">> /\ pc' \in {"serve", "sending"}
         \/ /\ at = <<>> /\ pc' = "serve"
            /\ \E c \in todo : at' = <<c, "client">> /\ todo' = todo \ {c}
  PROVE  PassInv'
<1>1. \A c \in DOMAIN conns : \A d \in Dirs : ToServe(c, d)' => ToServe(c, d)
  <2>1. CASE UNCHANGED <<todo, at>>
    BY <2>1 DEF ToServe
  <2>2. CASE at # <<>> /\ todo' = todo /\ (at' = <<>> \/ at' = <<at[1], "server">>)
    BY <2>2 DEF ToServe, Dirs
  <2>3. CASE at = <<>> /\ \E c \in todo : at' = <<c, "client">> /\ todo' = todo \ {c}
    BY <2>3 DEF ToServe
  <2> QED
    BY <2>1, <2>2, <2>3
<1>2. ServedOnce'
  <2>1. CASE UNCHANGED <<todo, at>>
    BY <2>1 DEF PassInv, ServedOnce
  <2>2. CASE at # <<>> /\ todo' = todo
             /\ (at' = <<>> \/ (at' = <<at[1], "server">> /\ pc' \in {"serve", "sending"}))
    BY <2>2 DEF PassInv, ServedOnce
  <2>3. CASE at = <<>> /\ pc' = "serve"
             /\ \E c \in todo : at' = <<c, "client">> /\ todo' = todo \ {c}
    BY <2>3 DEF ServedOnce
  <2> QED
    BY <2>1, <2>2, <2>3
<1>3. pc' \in {"serve", "sending"} => pc \in {"serve", "sending"}
  OBVIOUS
<1>4. pc' = "accept" => pc = "accept"
  OBVIOUS
<1> QED
  BY <1>1, <1>2, <1>3, <1>4, FreshKept DEF SameLayout

LEMMA PassStep == LayoutInv /\ PassInv /\ [Next]_vars => PassInv'
<1> SUFFICES ASSUME LayoutInv, PassInv, [Next]_vars
             PROVE  PassInv'
  OBVIOUS
<1> USE DEF peers, kernel, program, served
<1>1. CASE UNCHANGED vars
  BY <1>1 DEF vars, PassInv, OnlyListener, FreshEvents, FreshListener, ServedOnce,
     ToServe, Revents
<1>2. CASE Peers \/ PollReturns \/ CloseConnections \/ Accept
  BY <1>2, PeersAreFresh, PollIsFresh, CloseIsFresh, AcceptIsFresh
<1>3. CASE \E whole, part \in BOOLEAN : ReadMessages(whole, part)
  BY <1>3, ReadIsFresh
<1>4. CASE \/ Fork \/ StoreChildRunning \/ AddListener \/ LoopTest \/ EnterPoll
           \/ NobodyWaits
  <2>1. /\ UNCHANGED <<sock, at>> /\ pc \notin {"serve", "sending", "dead"}
        /\ pc' \notin {"serve", "sending", "accept"}
    BY <1>4 DEF Fork, StoreChildRunning, AddListener, LoopTest, EnterPoll, NobodyWaits
  <2> QED
    BY <2>1, OutsideIsFresh
<1>5. CASE HandleSIGCHLD
  <2>1. SameLayout
    BY <1>5, HandlerKeeps DEF LayoutInv
  <2>2. UNCHANGED <<sock, backlog, polled, todo>>
    BY <1>5 DEF HandleSIGCHLD
  <2>3. CASE pc = "polling" /\ pc' = "test"
    <3>1. at' = at
      BY <1>5, <2>3 DEF HandleSIGCHLD, Die
    <3> QED
      BY <2>2, <2>3, <3>1, OutsideIsFresh
  <2>4. CASE pc = "sending"
    <3>1. at # <<>>
      BY <2>4 DEF LayoutInv, Sending
    <3>2. pc' \in {"serve", "dead"} /\ (at' = at \/ at' = <<>>)
      BY <1>5, <2>4 DEF HandleSIGCHLD, Die, GiveUp
    <3> QED
      BY <2>1, <2>2, <2>4, <3>1, <3>2, RestIsFresh
  <2>5. CASE pc # "sending" /\ ~(pc = "polling" /\ pc' = "test")
    <3>1. pc' \in {pc, "dead"} /\ at' = at
      BY <1>5, <2>5 DEF HandleSIGCHLD, Die
    <3> QED
      BY <2>1, <2>2, <3>1, RestIsFresh
  <2> QED
    BY <2>3, <2>4, <2>5
<1>6. CASE \/ Pick \/ ReadEOF \/ ReadMiscounted \/ Write \/ SendReturns
           \/ SendFails \/ Skip \/ PollError
  <2>1. SameLayout
    <3>1. (Loop /\ ~AddListener /\ ~CloseConnections /\ ~Accept) \/ SameLayout
      <4>1. pc \in {"serve", "sending"}
        BY <1>6 DEF Pick, ReadEOF, ReadMiscounted, Write, SendReturns, SendFails, Skip,
           Idle, PollError
      <4>2. ~AddListener /\ ~Accept
        BY <4>1 DEF AddListener, Accept
      <4>3. CASE CloseConnections
        <5>1. pc' = "accept" /\ at = <<>> /\ todo = {} /\ pc = "serve"
          BY <4>3 DEF CloseConnections
        <5> QED
          BY <1>6, <5>1 DEF Pick, ReadEOF, ReadMiscounted, Write, SendReturns, SendFails,
             Skip, Idle, PollError, Serving
      <4> QED
        BY <1>6, <4>2, <4>3 DEF Loop, Pass
    <3> QED
      BY <3>1, LoopKeeps DEF LayoutInv
  <2>2. UNCHANGED <<sock, backlog, polled>>
    BY <1>6 DEF Pick, ReadEOF, ReadMiscounted, Write, SendReturns, SendFails, Skip,
       Idle, PollError
  <2>3. CASE Pick
    BY <2>1, <2>2, <2>3, RestIsFresh DEF Pick
  <2>4. CASE ReadEOF
    BY <2>1, <2>2, <2>4, RestIsFresh DEF ReadEOF, Serving, GiveUp
  <2>5. CASE Write
    <3>1. pc = "serve" /\ at # <<>> /\ todo' = todo
      BY <2>5 DEF Write, Serving
    <3>2. \/ NextSide /\ UNCHANGED pc
          \/ at' = at /\ pc' \in {"sending", "dead"}
          \/ at' = <<>> /\ UNCHANGED pc
      BY <2>5 DEF Write, Die, GiveUp
    <3> QED
      BY <2>1, <2>2, <3>1, <3>2, RestIsFresh DEF NextSide
  <2>6. CASE SendReturns
    BY <2>1, <2>2, <2>6, RestIsFresh DEF SendReturns, NextSide, LayoutInv, Sending
  <2>7. CASE SendFails
    BY <2>1, <2>2, <2>7, RestIsFresh DEF SendFails, GiveUp, Die, LayoutInv, Sending
  <2>8. CASE Skip
    BY <2>1, <2>2, <2>8, RestIsFresh DEF Skip, Idle, PollError, NextSide, Serving
  <2>9. CASE PollError
    BY <2>1, <2>2, <2>9, RestIsFresh DEF PollError, Idle, Serving, GiveUp
  <2>10. CASE ReadMiscounted
    BY <2>1, <2>2, <2>10, RestIsFresh DEF ReadMiscounted, Serving, GiveUp, Die
  <2> QED
    BY <1>6, <2>3, <2>4, <2>5, <2>6, <2>7, <2>8, <2>9, <2>10
<1> QED
  BY <1>1, <1>2, <1>3, <1>4, <1>5, <1>6 DEF Next, Loop, Pass

LEMMA PassHolds == Spec => []PassInv
BY LayoutHolds, PassInit, PassStep, PTL DEF Spec

(* recv() and accept() are only called when there is something: no single  *)
(* connection can hold up the loop by them.                                *)
THEOREM RecvNeverBlocks == Spec => []NeverBlocksInRecv
<1>1. LayoutInv /\ PassInv => NeverBlocksInRecv
  <2> SUFFICES ASSUME LayoutInv, PassInv
               PROVE  NeverBlocksInRecv
    OBVIOUS
  <2>1. ASSUME pc = "serve", at # <<>>, "POLLIN" \in Revents(Served)
        PROVE  sock[Served] \in {"data", "last", "closed"}
    <3>1. at[1] \in DOMAIN conns /\ at[2] \in Dirs
      BY <2>1, ServedIsFd DEF LayoutInv, Serving
    <3>2. ToServe(at[1], at[2])
      BY <2>1 DEF ToServe
    <3> QED
      BY <2>1, <3>1, <3>2 DEF PassInv, FreshEvents, Served, Readable
  <2>2. ASSUME pc = "accept", "POLLIN" \in Revents(Listener)
        PROVE  backlog # <<>>
    BY <2>2 DEF PassInv, FreshListener
  <2> QED
    BY <2>1, <2>2 DEF NeverBlocksInRecv
<1> QED
  BY <1>1, LayoutHolds, PassHolds, PTL

-----------------------------------------------------------------------------
(* The closing of connections.                                             *)

Reason(c) == \/ \E d \in Dirs : sock[conns[c].fd[d]] \in Gone
             \/ conns[c].cut # {}
             \/ child = "ended"

Reasons == \A c \in toClose : Reason(c)

(* A connection that is given up is not served again.                      *)
Apart ==
  /\ toClose \cap todo = {}
  /\ at # <<>> => at[1] \notin toClose
  /\ pc \notin {"serve", "sending", "dead"} => toClose = {}

(* Once a side has closed it stays closed, until its connection is.        *)
LEMMA GoneStaysGone ==
  ASSUME LayoutInv, ChildInv, Next, ~CloseConnections
  PROVE  /\ \A fd \in Fds : sock[fd] \in Gone => sock'[fd] \in Gone
         /\ child = "ended" => child' = "ended"
         /\ DOMAIN conns \subseteq DOMAIN conns'
         /\ \A c \in DOMAIN conns : conns'[c].fd = conns[c].fd
         /\ \A c \in DOMAIN conns : ~Serving \/ c # at[1] => conns'[c].cut = conns[c].cut
<1> USE DEF peers, kernel, program, served
<1>1. CASE Peers
  <2>1. conns' = conns
    BY <1>1 DEF Peers, ClientConnects, PeerSends, PeerCloses, PeerReads, ChildEnds
  <2>2. child = "ended" => child' = "ended"
    BY <1>1 DEF Peers, ClientConnects, PeerSends, PeerCloses, PeerReads, ChildEnds
  <2>3. \A fd \in Fds : sock[fd] \in Gone => sock'[fd] \in Gone
    BY <1>1 DEF Peers, ClientConnects, PeerSends, PeerCloses, PeerReads, ChildEnds,
       LayoutInv, TypeOK, Alive, Gone
  <2> QED
    BY <2>1, <2>2, <2>3
<1>2. CASE HandleSIGCHLD
  BY <1>2 DEF HandleSIGCHLD
<1>3. CASE AddListener
  BY <1>3 DEF AddListener
<1>4. CASE Accept
  <2> DEFINE cfd == Lowest(Free)
             sfd == Lowest(Free \ {cfd})
             c0  == Head(backlog)
  <2>1. Free \in SUBSET Nat
    BY FdsAssumption DEF Free
  <2>2. Free # {} => sock[cfd] = "free" /\ cfd \in Fds
    BY <2>1, LowestIsLeast DEF Free
  <2>3. Free # {} /\ Free # {cfd} => sock[sfd] = "free" /\ sfd \in Fds
    <3> HIDE DEF cfd
    <3>1. Free # {} /\ Free # {cfd} => Free \ {cfd} # {} /\ Free \ {cfd} \in SUBSET Nat
      BY <2>1
    <3> QED
      BY <3>1, LowestIsLeast DEF Free
  <2>4. \A fd \in Fds : sock[fd] # "free" => sock'[fd] = sock[fd]
    <3>1. CASE sock' = sock
      BY <3>1
    <3>2. CASE Free # {} /\ sock' = Refused(sock, cfd)
      BY <2>2, <3>2 DEF Refused, Closed
    <3>3. CASE /\ Free # {} /\ Free # {cfd}
               /\ sock' = [sock EXCEPT ![cfd] = "quiet", ![sfd] = "quiet"]
      <4> HIDE DEF cfd, sfd
      <4> QED
        BY <2>2, <2>3, <3>3 DEF LayoutInv, TypeOK
    <3> QED
      BY <1>4, <3>1, <3>2, <3>3 DEF Accept
  <2>5. c0 \notin DOMAIN conns
    <3>1. backlog # <<>> /\ backlog \in Seq(Clients)
      BY <1>4 DEF Accept, LayoutInv, TypeOK
    <3>2. 1 \in DOMAIN backlog /\ c0 = backlog[1]
      BY <3>1, HeadTailProperties, LenProperties
    <3> QED
      BY <3>2 DEF LayoutInv, Waiting
  <2>6. /\ DOMAIN conns \subseteq DOMAIN conns'
        /\ \A c \in DOMAIN conns : conns'[c] = conns[c]
    <3>1. CASE conns' = conns
      BY <3>1
    <3>2. CASE \E new : conns' = [x \in DOMAIN conns \cup {c0} |->
                                    IF x = c0 THEN new ELSE conns[x]]
      <4> HIDE DEF c0
      <4> QED
        BY <2>5, <3>2
    <3> QED
      BY <1>4, <3>1, <3>2 DEF Accept
  <2> QED
    BY <1>4, <2>4, <2>6 DEF Accept, Gone
<1>5. CASE Loop /\ ~AddListener /\ ~Accept
  <2>1. SameLayout
    BY <1>5, LoopKeeps DEF LayoutInv
  <2>2. \A fd \in Fds : sock[fd] \in Gone => sock'[fd] \in Gone
    <3>1. CASE \E whole, part \in BOOLEAN : ReadMessages(whole, part)
      BY <3>1 DEF ReadMessages, LayoutInv, TypeOK, Gone
    <3>2. CASE ~\E whole, part \in BOOLEAN : ReadMessages(whole, part)
      BY <1>5, <3>2 DEF Loop, Pass, Fork, StoreChildRunning, LoopTest, EnterPoll,
         PollReturns, Pick, ReadEOF, ReadMiscounted, Write, SendReturns, SendFails, Skip,
         Idle, PollError, NobodyWaits
    <3> QED
      BY <3>1, <3>2
  <2>3. child = "ended" => child' = "ended"
    <3>1. CASE Fork
      BY <3>1 DEF Fork, ChildInv
    <3>2. CASE ~Fork
      BY <1>5, <3>2 DEF Loop, Pass, StoreChildRunning, LoopTest, EnterPoll, ReadMessages,
         PollReturns, Pick, ReadEOF, ReadMiscounted, Write, SendReturns, SendFails, Skip,
         Idle, PollError, NobodyWaits
    <3> QED
      BY <3>1, <3>2
  <2> QED
    BY <2>1, <2>2, <2>3 DEF SameLayout
<1> QED
  BY <1>1, <1>2, <1>3, <1>4, <1>5 DEF Next

(* Each step that gives a connection up has one of the reasons.            *)
LEMMA GivenUp ==
  ASSUME LayoutInv, ChildInv, PassInv, Next, ~CloseConnections, toClose' # toClose
  PROVE  /\ Serving /\ toClose' = toClose \cup {at[1]} /\ at' = <<>> /\ todo' = todo
         /\ pc' = "serve"
         /\ Reason(at[1]) /\ UNCHANGED <<conns, sock, child>>
<1> USE DEF peers, kernel, program, served
<1>1. \/ ReadEOF \/ ReadMiscounted \/ Write \/ SendFails \/ HandleSIGCHLD
      \/ PollError
  <2>1. CASE Peers
    BY <2>1 DEF Peers, ClientConnects, PeerSends, PeerCloses, PeerReads, ChildEnds
  <2>2. CASE Loop
    BY <2>2 DEF Loop, Pass, Fork, StoreChildRunning, AddListener, LoopTest,
       EnterPoll, PollReturns, Pick, ReadMessages, SendReturns, Skip, Idle, Accept,
       NobodyWaits
  <2> QED
    BY <2>1, <2>2 DEF Next
<1>2. pc = "sending" => Serving
  BY DEF LayoutInv, Sending, Serving
<1>3. Serving => /\ at[1] \in DOMAIN conns /\ at[2] \in Dirs
                 /\ sock[Served] \in Gone => Reason(at[1])
  BY ServedIsFd DEF LayoutInv, Reason, Served
<1>4. CASE ReadEOF
  BY <1>3, <1>4 DEF ReadEOF, GiveUp
<1>5. CASE ReadMiscounted
  BY <1>5 DEF ReadMiscounted, GiveUp, Reason
<1>6. CASE Write
  BY <1>3, <1>6 DEF Write, GiveUp
<1>7. CASE SendFails
  BY <1>2, <1>3, <1>7 DEF SendFails, GiveUp
<1>8. CASE HandleSIGCHLD
  <2>1. child = "ended"
    BY <1>8 DEF HandleSIGCHLD, ChildInv
  <2>2. pc = "sending" /\ GiveUp /\ pc' = "serve"
    BY <1>8 DEF HandleSIGCHLD, GiveUp
  <2> QED
    BY <1>2, <1>8, <2>1, <2>2 DEF HandleSIGCHLD, GiveUp, Reason
<1>9. CASE PollError
  <2>1. Serving /\ pc = "serve" /\ "POLLERR" \in Revents(Served)
    BY <1>9 DEF PollError, Idle
  <2>2. ToServe(at[1], at[2])
    BY <1>3, <2>1 DEF ToServe, Serving
  <2>3. sock[Served] \in Gone
    BY <1>3, <2>1, <2>2 DEF PassInv, FreshEvents, Served
  <2> QED
    BY <1>3, <1>9, <2>1, <2>3 DEF PollError, GiveUp
<1> QED
  BY <1>1, <1>4, <1>5, <1>6, <1>7, <1>8, <1>9

(* Connections to serve stay apart from those that are given up.           *)
LEMMA ApartStep ==
  LayoutInv /\ ChildInv /\ PassInv /\ Apart /\ [Next]_vars => Apart'
<1> SUFFICES ASSUME LayoutInv, ChildInv, PassInv, Apart, [Next]_vars
             PROVE  Apart'
  OBVIOUS
<1> USE DEF peers, kernel, program, served
<1>1. CASE UNCHANGED vars
  BY <1>1 DEF vars, Apart
<1>2. CASE CloseConnections
  BY <1>2 DEF CloseConnections, Apart
<1>3. CASE Next /\ ~CloseConnections /\ toClose' # toClose
  <2>1. at[1] \notin todo
    BY <1>3, GivenUp DEF PassInv, ServedOnce, Serving
  <2> QED
    BY <1>3, <2>1, GivenUp DEF Apart
<1>4. CASE Next /\ ~CloseConnections /\ toClose' = toClose
  <2>1. /\ pc' \in {"serve", "sending", "dead"} \/ pc \notin {"serve", "sending", "dead"}
        /\ \/ todo' \subseteq todo
           \/ pc = "polling"
        /\ \/ at' = at \/ at' = <<>>
           \/ at # <<>> /\ at' = <<at[1], "server">>
           \/ \E c \in todo : at' = <<c, "client">>
    <3>1. CASE Peers
      BY <3>1 DEF Peers, ClientConnects, PeerSends, PeerCloses, PeerReads, ChildEnds
    <3>2. CASE HandleSIGCHLD
      BY <3>2 DEF HandleSIGCHLD, GiveUp, Die
    <3>3. CASE Fork \/ StoreChildRunning \/ AddListener \/ LoopTest \/ EnterPoll
               \/ PollReturns \/ Accept \/ NobodyWaits
      BY <3>3 DEF Fork, StoreChildRunning, AddListener, LoopTest, EnterPoll, PollReturns,
         Accept, NobodyWaits
    <3>4. CASE Pick
      BY <3>4 DEF Pick
    <3>5. CASE (\E whole, part \in BOOLEAN : ReadMessages(whole, part)) \/ Write
               \/ SendReturns \/ Skip
      <4>1. Serving
        BY <3>5 DEF ReadMessages, Write, SendReturns, Skip, Idle, LayoutInv, Sending, Serving
      <4>2. (NextSide \/ at' = at \/ at' = <<>>) /\ todo' = todo
        BY <3>5 DEF ReadMessages, Write, SendReturns, Skip, GiveUp, Die
      <4>3. pc' \in {"serve", "sending", "dead"}
        BY <3>5 DEF ReadMessages, Write, SendReturns, Skip, Idle, GiveUp, Die
      <4> QED
        BY <4>1, <4>2, <4>3 DEF NextSide, Serving
    <3>6. CASE ReadEOF \/ ReadMiscounted \/ SendFails \/ PollError
      BY <3>6 DEF ReadEOF, ReadMiscounted, SendFails, PollError, Idle, GiveUp, Die
    <3> QED
      BY <1>4, <3>1, <3>2, <3>3, <3>4, <3>5, <3>6 DEF Next, Loop, Pass
  <2> QED
    BY <1>4, <2>1 DEF Apart
<1> QED
  BY <1>1, <1>2, <1>3, <1>4

LEMMA ReasonsStep ==
  LayoutInv /\ ChildInv /\ PassInv /\ Apart /\ Reasons /\ [Next]_vars => Reasons'
<1> SUFFICES ASSUME LayoutInv, ChildInv, PassInv, Apart, Reasons, [Next]_vars
             PROVE  Reasons'
  OBVIOUS
<1> USE DEF peers, kernel, program, served
<1>1. CASE UNCHANGED vars
  BY <1>1 DEF vars, Reasons, Reason
<1>2. CASE CloseConnections
  BY <1>2 DEF CloseConnections, Reasons
<1>3. CASE Next /\ ~CloseConnections
  <2>1. /\ toClose \subseteq DOMAIN conns
        /\ \A c \in DOMAIN conns : \A d \in Dirs : conns[c].fd[d] \in Fds
    <3>1. \A c \in DOMAIN conns : conns[c] \in Conn
      BY ConnsTyped DEF LayoutInv, TypeOK
    <3> QED
      BY <3>1 DEF Conn, LayoutInv, TypeOK
  <2>2. ASSUME NEW c \in toClose
        PROVE  Reason(c)'
    <3>1. Reason(c)
      BY DEF Reasons
    <3>2. ~Serving \/ c # at[1]
      BY DEF Apart, Serving
    <3>3. conns'[c].cut = conns[c].cut /\ conns'[c].fd = conns[c].fd
      BY <1>3, <2>1, <3>2, GoneStaysGone
    <3> QED
      BY <1>3, <2>1, <3>1, <3>3, GoneStaysGone DEF Reason
  <2>3. CASE toClose' = toClose
    BY <2>2, <2>3 DEF Reasons
  <2>4. CASE toClose' # toClose
    <3>1. toClose' = toClose \cup {at[1]}
      BY <1>3, <2>4, GivenUp
    <3>2. \A c \in {at[1]} : Reason(c)'
      BY <1>3, <2>4, GivenUp DEF Reason
    <3> QED
      BY <2>2, <3>1, <3>2 DEF Reasons
  <2> QED
    BY <2>3, <2>4
<1> QED
  BY <1>1, <1>2, <1>3

(* A connection ends only when one of its own sides has closed, when part  *)
(* of a message was read behind another on one of its own sides, or after  *)
(* the subcommand has ended: its signal may interrupt a send.              *)
THEOREM ConnectionsEndForTheirOwnReasons == Spec => EndsForItsOwnReasons
<1>1. Init => Reasons /\ Apart
  BY DEF Init, Reasons, Apart
<1>2. LayoutInv /\ ChildInv /\ Reasons /\ [Next]_vars
        => [\A c \in DOMAIN conns :
              c \notin DOMAIN conns' =>
                \/ \E d \in Dirs : sock[conns[c].fd[d]] \in Gone
                \/ conns[c].cut # {}
                \/ child = "ended"]_vars
  <2> SUFFICES ASSUME LayoutInv, ChildInv, Reasons, Next,
                      NEW c \in DOMAIN conns, c \notin DOMAIN conns'
               PROVE  Reason(c)
    BY DEF Reason
  <2>1. CloseConnections
    BY GoneStaysGone
  <2>2. c \in toClose
    BY <2>1 DEF CloseConnections
  <2> QED
    BY <2>2 DEF Reasons
<1> QED
  BY <1>1, <1>2, ReasonsStep, ApartStep, LayoutHolds, ChildHolds, PassHolds, PTL
     DEF Spec, EndsForItsOwnReasons

=============================================================================
