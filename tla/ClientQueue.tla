---------------------------- MODULE ClientQueue ----------------------------
(***************************************************************************)
(* The loop of ProxyX11Server::_processClientQueue over all connections:   *)
(* the poll table and its index, accepting and closing connections, the    *)
(* kernel's descriptors, and the subcommand with its SIGCHLD.              *)
(*                                                                         *)
(* What module Relay follows cell by cell is seen from the loop: a buffer  *)
(* either wants to read or holds messages for the other side.  A client    *)
(* has at most one connection at a time, and names it.                     *)
(***************************************************************************)
EXTENDS Integers, Sequences, FiniteSets

CONSTANTS
  Clients,      \* the X clients; each may connect again and again
  Fds,          \* the descriptors free before the listener takes the first
  Subcommand,   \* TRUE: a subcommand client is given
  KeepRunning,  \* settings.keeprunning
  MaxStressed   \* bound: sockets of which something is wanted at a time

ASSUME ClientsAssumption == IsFiniteSet(Clients)
ASSUME FdsAssumption     == Fds \subseteq Nat /\ IsFiniteSet(Fds) /\ Fds # {}
ASSUME OptionsAssumption == Subcommand \in BOOLEAN /\ KeepRunning \in BOOLEAN
ASSUME BoundAssumption   == MaxStressed \in Nat

VARIABLES
  backlog,      \* clients that wait to be accepted
  sock,         \* sock[fd]: what the kernel has for a descriptor
  full,         \* sockets whose peer has to read before they take more
  child,        \* the subcommand: "none", "running" or "ended"
  ending,       \* how it ended: what SIGCHLD brings along
  sigchld,      \* SIGCHLD is pending
  conns,        \* _connections: descriptors, the directions with messages
                \* held for the other side, and those of them that have part
                \* of another message behind those, and so read on
  polled,       \* _pfds and _pfds_i_by_fd
  todo,         \* connections this pass has still to serve
  at,           \* <<connection, side>> being served, or <<>>
  toClose,      \* conns_to_close
  childRunning, \* child_running
  childRetval,  \* child_retval
  retval,       \* what the process returns
  pc,
  cause         \* why the process died

peers   == <<backlog, child, ending>>
kernel  == <<sock, full, sigchld>>
program == <<conns, polled, todo, at, toClose, childRunning, childRetval, retval>>
vars    == <<peers, kernel, program, pc, cause>>

Dirs == {"client", "server"}
Other(d) == IF d = "client" THEN "server" ELSE "client"

Lowest(S) == CHOOSE fd \in S : \A g \in S : fd <= g
Listener  == Lowest(Fds)
Free      == {fd \in Fds : sock[fd] = "free"}

(* A socket of a connection: nothing to read, data, data and then EOF, or  *)
(* just EOF.                                                               *)
Alive == {"quiet", "data"}
Gone  == {"last", "closed"}

Endings == {[code |-> "CLD_EXITED", status |-> 0],
            [code |-> "CLD_EXITED", status |-> 3],
            [code |-> "CLD_KILLED", status |-> 15]}

SIGNAL_RETVAL_OFFSET == 128

(* The sockets that have something to read, that take no more, or of which *)
(* part of a message was read behind another.                              *)
Stressed ==
  full \cup {fd \in Fds : sock[fd] \in {"data"} \cup Gone}
       \cup {conns[o[1]].fd[o[2]] : o \in {o \in (DOMAIN conns) \X Dirs :
                                            o[2] \in conns[o[1]].cut}}

MayStress(fd) == Cardinality(Stressed \cup {fd}) <= MaxStressed

Running == pc \notin {"exit", "dead"}

Die(why) == pc' = "dead" /\ cause' = why

-----------------------------------------------------------------------------
(* The poll table.                                                         *)

(* Variant: what was asked for is taken for what happened.                 *)
Revents_Asked(fd) == polled.pfds[polled.index[fd]].events

Revents(fd) == polled.pfds[polled.index[fd]].revents

(* _addSocketToPoll.                                                       *)
SocketAdded(t, fd, events) ==
  [pfds  |-> Append(t.pfds, [fd |-> fd, events |-> events, revents |-> {}]),
   index |-> [f \in DOMAIN t.index \cup {fd} |->
                IF f = fd THEN Len(t.pfds) + 1 ELSE t.index[f]]]

(* Variant: data are offered to the side they came from.                   *)
Wanted_SameSide(c, d) ==
  IF d \in conns[c].held THEN {"POLLOUT"} ELSE {"POLLIN"}

Wanted(c, d) ==
  LET stopped(e) == e \in conns[c].held \ conns[c].cut
  IN  (IF stopped(d) THEN {} ELSE {"POLLIN"}) \cup
      (IF stopped(Other(d)) THEN {"POLLOUT"} ELSE {})

(* Variant: what belongs to no connection is not polled for anything.      *)
FlagsUpdated_ConnsOnly(t) ==
  LET owners(i) == {o \in (DOMAIN conns) \X Dirs :
                      t.index[conns[o[1]].fd[o[2]]] = i}
  IN  [t EXCEPT !.pfds =
        [i \in DOMAIN t.pfds |->
           LET o == CHOOSE o \in owners(i) : TRUE
           IN  [t.pfds[i] EXCEPT !.revents = {},
                  !.events = IF owners(i) = {} THEN {} ELSE Wanted(o[1], o[2])]]]

(* _updatePollFlags.  What the last poll() returned is forgotten here: the *)
(* next one overwrites it before it is looked at.                          *)
FlagsUpdated(t) ==
  LET owners(i) == {o \in (DOMAIN conns) \X Dirs :
                      t.index[conns[o[1]].fd[o[2]]] = i}
  IN  [t EXCEPT !.pfds =
        [i \in DOMAIN t.pfds |->
           LET o == CHOOSE o \in owners(i) : TRUE
           IN  [t.pfds[i] EXCEPT !.revents = {},
                  !.events = IF owners(i) = {} THEN @ ELSE Wanted(o[1], o[2])]]]

Rank(S, fd) == Cardinality({g \in S : g < fd})

(* Variant: entries are compacted and the index is not.                    *)
Compacted_IndexKept(t, gone) ==
  LET keep == DOMAIN t.index \ gone
  IN  [pfds  |-> [i \in 1 .. Cardinality(keep) |->
                    t.pfds[t.index[CHOOSE fd \in keep : Rank(keep, fd) = i - 1]]],
       index |-> [fd \in keep |-> t.index[fd]]]

(* The end of _closeConnections: the index without the descriptors that    *)
(* are gone is walked in its order, that of a std::map, and zipped.        *)
Compacted(t, gone) ==
  LET keep == DOMAIN t.index \ gone
  IN  [pfds  |-> [i \in 1 .. Cardinality(keep) |->
                    t.pfds[t.index[CHOOSE fd \in keep : Rank(keep, fd) = i - 1]]],
       index |-> [fd \in keep |-> Rank(keep, fd) + 1]]

-----------------------------------------------------------------------------
(* The peers and the kernel.                                               *)

ClientConnects(c) ==
  /\ Running
  /\ c \notin DOMAIN conns
  /\ \A i \in DOMAIN backlog : backlog[i] # c
  /\ backlog' = Append(backlog, c)
  /\ UNCHANGED <<child, ending, kernel, program, pc, cause>>

PeerSends(fd) ==
  /\ Running
  /\ sock[fd] = "quiet"
  /\ MayStress(fd)
  /\ sock' = [sock EXCEPT ![fd] = "data"]
  /\ UNCHANGED <<peers, full, sigchld, program, pc, cause>>

PeerCloses(fd) ==
  /\ Running
  /\ sock[fd] \in Alive
  /\ MayStress(fd)
  /\ sock' = [sock EXCEPT ![fd] = IF @ = "data" THEN "last" ELSE "closed"]
  /\ UNCHANGED <<peers, full, sigchld, program, pc, cause>>

PeerReads(fd) ==
  /\ Running
  /\ fd \in full
  /\ sock[fd] \in Alive
  /\ full' = full \ {fd}
  /\ UNCHANGED <<peers, sock, sigchld, program, pc, cause>>

ChildEnds ==
  /\ Running
  /\ child = "running"
  /\ child' = "ended"
  /\ ending' \in Endings
  /\ sigchld' = TRUE
  /\ UNCHANGED <<backlog, sock, full, program, pc, cause>>

(* What poll() finds.                                                      *)
Ready(fd) ==
  IF fd = Listener THEN IF backlog = <<>> THEN {} ELSE {"POLLIN"}
  ELSE (IF sock[fd] = "quiet" THEN {} ELSE {"POLLIN"}) \cup
       (IF fd \in full /\ sock[fd] \in Alive THEN {} ELSE {"POLLOUT"})

-----------------------------------------------------------------------------
(* The start: the listener exists, _startSubcommandClient has installed    *)
(* the handler and forks, and the loop puts the listener into the table.   *)

Fork ==
  /\ pc = "start"
  /\ IF Subcommand THEN child' = "running" /\ pc' = "forked"
                   ELSE pc' = "add" /\ UNCHANGED child
  /\ UNCHANGED <<backlog, ending, kernel, program, cause>>

StoreChildRunning ==
  /\ pc = "forked"
  /\ childRunning' = TRUE
  /\ pc' = "add"
  /\ UNCHANGED <<peers, kernel, conns, polled, todo, at, toClose, childRetval,
                 retval, cause>>

AddListener ==
  /\ pc = "add"
  /\ polled' = SocketAdded(polled, Listener, {"POLLIN"})
  /\ pc' = "test"
  /\ UNCHANGED <<peers, kernel, conns, todo, at, toClose, childRunning,
                 childRetval, retval, cause>>

(* Variant: only connections keep the loop going.                          *)
LoopGoesOn_NoChild == DOMAIN conns # {} \/ KeepRunning

LoopGoesOn == childRunning \/ DOMAIN conns # {} \/ KeepRunning

LoopTest ==
  /\ pc = "test"
  /\ IF LoopGoesOn
     THEN /\ polled' = FlagsUpdated(polled)
          /\ pc' = "ready"
          /\ UNCHANGED retval
     ELSE /\ retval' = IF Subcommand /\ ~KeepRunning THEN childRetval ELSE 0
          /\ pc' = "exit"
          /\ UNCHANGED polled
  /\ UNCHANGED <<peers, kernel, conns, todo, at, toClose, childRunning,
                 childRetval, cause>>

(* From here on a signal interrupts poll().                                *)
EnterPoll ==
  /\ pc = "ready"
  /\ pc' = "polling"
  /\ UNCHANGED <<peers, kernel, program, cause>>

(* Of the events asked for, and an error condition even if not asked for.  *)
Found(entry, broken) ==
  (entry.events \cap Ready(entry.fd)) \cup
  (IF entry.fd \in broken THEN {"POLLERR"} ELSE {})

(* An error condition may follow when a peer has closed.  Its hanging up,  *)
(* which nobody looks at, is enough for poll() to return.                  *)
PollReturns ==
  /\ pc = "polling"
  /\ \E broken \in SUBSET {fd \in Fds : sock[fd] \in Gone} :
       LET found(i) == Found(polled.pfds[i], broken)
       IN  /\ \E i \in DOMAIN polled.pfds :
                found(i) # {} \/ sock[polled.pfds[i].fd] \in Gone
           /\ polled' = [polled EXCEPT !.pfds =
                          [i \in DOMAIN @ |-> [@[i] EXCEPT !.revents = found(i)]]]
  /\ todo' = DOMAIN conns
  /\ pc' = "serve"
  /\ UNCHANGED <<peers, kernel, conns, at, toClose, childRunning, childRetval,
                 retval, cause>>

-----------------------------------------------------------------------------
(* _processPolledSockets: the connections in any order (the map is a hash  *)
(* table), of each the client's side and then the server's.                *)

Pick ==
  /\ pc = "serve"
  /\ at = <<>>
  /\ \E c \in todo : at' = <<c, "client">> /\ todo' = todo \ {c}
  /\ UNCHANGED <<peers, kernel, conns, polled, toClose, childRunning,
                 childRetval, retval, pc, cause>>

Serving  == pc \in {"serve", "sending"} /\ at # <<>>
Served   == conns[at[1]].fd[at[2]]       \* its descriptor
NextSide == at' = IF at[2] = "client" THEN <<at[1], "server">> ELSE <<>>

(* Variant: every connection is given up.                                  *)
GiveUp_All == toClose' = DOMAIN conns /\ at' = <<>>

GiveUp == toClose' = toClose \cup {at[1]} /\ at' = <<>>

served == <<todo, polled, childRunning, childRetval, retval, cause>>

(* What is read completes a message or does not, and ends with part of one *)
(* behind those that are held or does not.                                 *)
ReadMessages(whole, part) ==
  /\ pc = "serve"
  /\ Serving
  /\ "POLLIN" \in Revents(Served)
  /\ sock[Served] \in {"data", "last"}
  /\ whole \/ (part <=> at[2] \in conns[at[1]].held)
  /\ part => MayStress(Served)
  /\ sock' = [sock EXCEPT ![Served] = IF @ = "data" THEN "quiet" ELSE "closed"]
  /\ conns' = [conns EXCEPT
       ![at[1]].held = IF whole THEN @ \cup {at[2]} ELSE @,
       ![at[1]].cut  = IF part THEN @ \cup {at[2]} ELSE @ \ {at[2]}]
  /\ NextSide
  /\ UNCHANGED <<peers, full, sigchld, toClose, pc, served>>

(* EOF, or an error, which may come before the last data.                  *)
ReadEOF ==
  /\ pc = "serve"
  /\ Serving
  /\ "POLLIN" \in Revents(Served)
  /\ sock[Served] \in Gone
  /\ GiveUp
  /\ UNCHANGED <<peers, kernel, conns, pc, served>>

(* What is missing of a message is counted from the beginning of those in  *)
(* front of it: recv() is asked for nothing, and its 0 taken for an EOF,   *)
(* or the difference wraps around and fails the assertion in read().       *)
ReadMiscounted ==
  /\ pc = "serve"
  /\ Serving
  /\ "POLLIN" \in Revents(Served)
  /\ at[2] \in conns[at[1]].cut
  /\ \/ GiveUp /\ UNCHANGED <<pc, cause>>
     \/ Die("capacity") /\ UNCHANGED <<toClose, at>>
  /\ UNCHANGED <<peers, kernel, conns, todo, polled, childRunning, childRetval,
                 retval>>

Sent == conns' = [conns EXCEPT ![at[1]].held = @ \ {Other(at[2])}]

(* The send is done at once, blocks, or finds the peer gone, which the     *)
(* kernel reports by SIGPIPE, by an error, or not at all.                  *)
Write ==
  /\ pc = "serve"
  /\ Serving
  /\ "POLLIN" \notin Revents(Served)
  /\ "POLLOUT" \in Revents(Served)
  /\ Other(at[2]) \in conns[at[1]].held
  /\ \/ /\ Sent
        /\ NextSide
        /\ \/ UNCHANGED full
           \/ MayStress(Served) /\ full' = full \cup {Served}
        /\ UNCHANGED <<toClose, pc, cause>>
     \/ /\ sock[Served] \in Alive
        /\ MayStress(Served)
        /\ pc' = "sending"
        /\ full' = full \cup {Served}
        /\ UNCHANGED <<conns, at, toClose, cause>>
     \/ /\ sock[Served] \in Gone
        /\ \/ Die("sigpipe") /\ UNCHANGED <<at, toClose>>
           \/ GiveUp /\ UNCHANGED <<pc, cause>>
        /\ UNCHANGED <<conns, full>>
  /\ UNCHANGED <<peers, sock, sigchld, todo, polled, childRunning, childRetval,
                 retval>>

SendReturns ==
  /\ pc = "sending"
  /\ Served \notin full
  /\ Sent
  /\ NextSide
  /\ pc' = "serve"
  /\ UNCHANGED <<peers, kernel, toClose, served>>

(* The peer closes while the send blocks.                                  *)
SendFails ==
  /\ pc = "sending"
  /\ Served \in full
  /\ sock[Served] \in Gone
  /\ \/ Die("sigpipe") /\ UNCHANGED <<at, toClose>>
     \/ GiveUp /\ pc' = "serve" /\ UNCHANGED cause
  /\ UNCHANGED <<peers, kernel, conns, todo, polled, childRunning, childRetval,
                 retval>>

(* Neither read nor written: an error condition is looked at only now.     *)
Idle ==
  /\ pc = "serve"
  /\ Serving
  /\ "POLLIN" \notin Revents(Served)
  /\ \/ "POLLOUT" \notin Revents(Served)
     \/ Other(at[2]) \notin conns[at[1]].held

PollError ==
  /\ Idle
  /\ "POLLERR" \in Revents(Served)
  /\ GiveUp
  /\ UNCHANGED <<peers, kernel, conns, pc, served>>

Skip ==
  /\ Idle
  /\ "POLLERR" \notin Revents(Served)
  /\ NextSide
  /\ UNCHANGED <<peers, kernel, conns, toClose, pc, served>>

FdsOf(c) == {conns[c].fd[d] : d \in Dirs}

Closed(s, fds) == [fd \in Fds |-> IF fd \in fds THEN "free" ELSE s[fd]]

CloseConnections ==
  /\ pc = "serve"
  /\ at = <<>>
  /\ todo = {}
  /\ LET gone == UNION {FdsOf(c) : c \in toClose}
     IN  /\ polled' = Compacted(polled, gone)
         /\ sock' = Closed(sock, gone)
         /\ full' = full \ gone
  /\ conns' = [c \in DOMAIN conns \ toClose |-> conns[c]]
  /\ toClose' = {}
  /\ pc' = "accept"
  /\ UNCHANGED <<peers, sigchld, todo, at, childRunning, childRetval, retval,
                 cause>>

(* Variant: the accepted client is kept when the server is not reached.    *)
Refused_ClientKept(s, fd) == [s EXCEPT ![fd] = "quiet"]

(* closeClientSide() after a failure to connect to the server.             *)
Refused(s, fd) == Closed(s, {fd})

(* The listener's turn; accept() fails when no descriptor is free, and the *)
(* connection to the server may fail for that and for other reasons.       *)
Accept ==
  /\ pc = "accept"
  /\ "POLLIN" \in Revents(Listener)
  /\ backlog # <<>>
  /\ LET c   == Head(backlog)
         cfd == Lowest(Free)
         sfd == Lowest(Free \ {cfd})
         new == [client |-> cfd, server |-> sfd]
     IN  \/ Free = {} /\ UNCHANGED <<backlog, sock, conns, polled>>
         \/ /\ Free # {}
            /\ backlog' = Tail(backlog)
            /\ \/ /\ sock' = Refused(sock, cfd)
                  /\ UNCHANGED <<conns, polled>>
               \/ /\ Free # {cfd}
                  /\ sock' = [sock EXCEPT ![cfd] = "quiet", ![sfd] = "quiet"]
                  /\ conns' = [x \in DOMAIN conns \cup {c} |->
                                 IF x = c
                                 THEN [fd |-> new, held |-> {}, cut |-> {}]
                                 ELSE conns[x]]
                  /\ polled' = SocketAdded(SocketAdded(polled, cfd, {}), sfd, {})
  /\ pc' = "test"
  /\ UNCHANGED <<child, ending, full, sigchld, todo, at, toClose, childRunning,
                 childRetval, retval, cause>>

NobodyWaits ==
  /\ pc = "accept"
  /\ "POLLIN" \notin Revents(Listener)
  /\ pc' = "test"
  /\ UNCHANGED <<peers, kernel, program, cause>>

-----------------------------------------------------------------------------
(* handleSIGCHLD, at any point of the program.  It interrupts poll(), and  *)
(* a send that blocks: with nothing sent that is an error which closes the *)
(* connection, with something sent a count that fails an assertion.        *)

(* Variant: a signal's number is returned negated.                         *)
RetvalOf_Negated(e) == IF e.code = "CLD_EXITED" THEN e.status ELSE -e.status

RetvalOf(e) ==
  IF e.code = "CLD_EXITED" THEN e.status ELSE SIGNAL_RETVAL_OFFSET + e.status

HandleSIGCHLD ==
  /\ Running
  /\ sigchld
  /\ sigchld' = FALSE
  /\ IF ~childRunning
     THEN Die("handler") /\ UNCHANGED <<childRunning, childRetval, at, toClose>>
     ELSE /\ childRunning' = FALSE
          /\ childRetval' = RetvalOf(ending)
          /\ \/ /\ pc = "polling"
                /\ pc' = "test"
                /\ UNCHANGED <<at, toClose, cause>>
             \/ /\ pc = "sending"
                /\ GiveUp
                /\ pc' = "serve"
                /\ UNCHANGED cause
             \/ /\ pc = "sending"
                /\ Die("short")
                /\ UNCHANGED <<at, toClose>>
             \/ /\ pc \notin {"polling", "sending"}
                /\ UNCHANGED <<pc, cause, at, toClose>>
  /\ UNCHANGED <<peers, sock, full, conns, polled, todo, retval>>

-----------------------------------------------------------------------------

Init ==
  /\ backlog = <<>>
  /\ sock = [fd \in Fds |-> IF fd = Listener THEN "listener" ELSE "free"]
  /\ full = {}
  /\ child = "none"
  /\ ending = [code |-> "CLD_EXITED", status |-> 0]
  /\ sigchld = FALSE
  /\ conns = <<>>
  /\ polled = [pfds |-> <<>>, index |-> <<>>]
  /\ todo = {}
  /\ at = <<>>
  /\ toClose = {}
  /\ childRunning = FALSE
  /\ childRetval = 0
  /\ retval = 0
  /\ pc = "start"
  /\ cause = "none"

Pass == \/ Pick
        \/ \E whole, part \in BOOLEAN : ReadMessages(whole, part)
        \/ ReadEOF \/ ReadMiscounted
        \/ Write \/ SendReturns \/ SendFails \/ PollError \/ Skip
        \/ CloseConnections \/ Accept \/ NobodyWaits

Loop == \/ Fork \/ StoreChildRunning \/ AddListener
        \/ LoopTest \/ EnterPoll \/ PollReturns \/ Pass

Peers == \/ \E c \in Clients : ClientConnects(c)
         \/ \E fd \in Fds : PeerSends(fd) \/ PeerCloses(fd) \/ PeerReads(fd)
         \/ ChildEnds

Next == Loop \/ HandleSIGCHLD \/ Peers

Spec == Init /\ [][Next]_vars

(* The loop runs, a pending signal is delivered, and who has to read reads *)
(* in the end.  A message is finite, and so is the storage that is left    *)
(* behind one that is held: a side that is read again and again completes  *)
(* one with nothing behind it, or its reads go wrong.  Nothing makes a     *)
(* peer connect, send, close or end.                                       *)
Fairness ==
  /\ WF_vars(Loop)
  /\ WF_vars(HandleSIGCHLD)
  /\ \A fd \in Fds : WF_vars(PeerReads(fd))
  /\ \A fd \in Fds :
       SF_vars((ReadMessages(TRUE, FALSE) \/ ReadMiscounted) /\ Served = fd)

FairSpec == Spec /\ Fairness

-----------------------------------------------------------------------------
(* Properties.                                                             *)

Entry == [fd : Fds, events : SUBSET {"POLLIN", "POLLOUT"},
          revents : SUBSET {"POLLIN", "POLLOUT", "POLLERR"}]

Conn  == [fd : [Dirs -> Fds], held : SUBSET Dirs, cut : SUBSET Dirs]

Table == [pfds  : Seq(Entry),
          index : UNION {[S -> 1 .. Cardinality(Fds)] : S \in SUBSET Fds}]

TypeOK ==
  /\ backlog \in Seq(Clients)
  /\ sock \in [Fds -> {"free", "listener"} \cup Alive \cup Gone]
  /\ full \subseteq Fds
  /\ child \in {"none", "running", "ended"}
  /\ ending \in Endings
  /\ sigchld \in BOOLEAN
  /\ conns \in UNION {[S -> Conn] : S \in SUBSET Clients}
  /\ polled \in Table
  /\ todo \subseteq DOMAIN conns
  /\ toClose \subseteq DOMAIN conns
  /\ at = <<>> \/ at \in (DOMAIN conns) \X Dirs
  /\ childRunning \in BOOLEAN
  /\ childRetval \in Nat
  /\ retval \in Nat
  /\ pc \in {"start", "forked", "add", "test", "ready", "polling", "serve",
             "sending", "accept", "exit", "dead"}
  /\ cause \in {"none", "sigpipe", "capacity", "handler", "short"}

(* The descriptors the program believes it has.                            *)
Known == {Listener} \cup UNION {FdsOf(c) : c \in DOMAIN conns}

(* t has one entry for each descriptor of K, at the place its index says,  *)
(* and no other entry.                                                     *)
Indexes(t, K) ==
  /\ DOMAIN t.index = K
  /\ Len(t.pfds) = Cardinality(K)
  /\ \A fd \in K : /\ t.index[fd] \in DOMAIN t.pfds
                   /\ t.pfds[t.index[fd]].fd = fd

(* The poll table has one entry for the listener and each side of each     *)
(* connection, at the place its index says, and no other: _pfds.at() and   *)
(* _pfds_i_by_fd.at() never throw, and the assertions of _addSocketToPoll  *)
(* and _closeConnections hold, whatever descriptors the kernel reuses.     *)
TableConsistent ==
  pc # "dead" =>
    Indexes(polled, IF pc \in {"start", "forked", "add"} THEN {} ELSE Known)

(* Every open descriptor belongs to the listener or to one side of one     *)
(* connection: none leaks when an opening fails or a connection is closed. *)
NoDescriptorLeak ==
  /\ {fd \in Fds : sock[fd] # "free"} = Known
  /\ \A c1, c2 \in DOMAIN conns : \A d1, d2 \in Dirs :
       conns[c1].fd[d1] = conns[c2].fd[d2] => c1 = c2 /\ d1 = d2

(* The events looked at belong to the socket that is served: recv() and    *)
(* accept() are only called when there is something, and never block the   *)
(* loop.                                                                   *)
NeverBlocksInRecv ==
  /\ pc = "serve" /\ at # <<>> /\ "POLLIN" \in Revents(Served) =>
       sock[Served] \in {"data", "last", "closed"}
  /\ pc = "accept" /\ "POLLIN" \in Revents(Listener) => backlog # <<>>

(* "child return value", or "signal value + 128": the process outlives its *)
(* subcommand and all connections, and returns what became of it.          *)
ExitStatus ==
  pc = "exit" =>
    /\ ~KeepRunning
    /\ DOMAIN conns = {}
    /\ Subcommand =>
         /\ child = "ended"
         /\ retval = IF ending.code = "CLD_KILLED" THEN 128 + ending.status
                     ELSE ending.status

(* A connection ends only when one of its own sides has closed, when part  *)
(* of a message was read behind another on one of its own sides, or when   *)
(* SIGCHLD interrupted a send: never for what another connection does.     *)
EndsForItsOwnReasons ==
  [][\A c \in DOMAIN conns :
       c \notin DOMAIN conns' =>
         \/ \E d \in Dirs : sock[conns[c].fd[d]] \in Gone
         \/ conns[c].cut # {}
         \/ child = "ended"]_vars

(* A client that waits is accepted (or turned away), whatever the others   *)
(* do, as long as the process lives.                                       *)
WaitingServed ==
  \A c \in Clients :
    (\E i \in DOMAIN backlog : backlog[i] = c)
      ~> ((\A i \in DOMAIN backlog : backlog[i] # c) \/ ~Running)

(* When a side of a connection closes, the connection is closed in the     *)
(* end, and its descriptors are given back.                                *)
ClosedSidesGo ==
  \A fd \in Fds : sock[fd] \in Gone ~> (sock[fd] \notin Gone \/ ~Running)

(* Without --keeprunning the process ends once the subcommand has ended    *)
(* and no connection is left.                                              *)
EndsWithoutWork ==
  (child = "ended" /\ DOMAIN conns = {})
    ~> (~Running \/ DOMAIN conns # {})

=============================================================================
