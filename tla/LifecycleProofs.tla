-------------------------- MODULE LifecycleProofs --------------------------
(* Proofs about Lifecycle: the sockets and the cursor, for any number of   *)
(* proxies; the files, for one proxy at a time.                            *)
EXTENDS Lifecycle, TLAPS

-----------------------------------------------------------------------------
(* Types                                                                   *)

LEMMA OffIsTyped == Off \in Processes /\ NotEnded \in Endings
BY DEF Off, NotEnded, Processes, Endings, Places, Ways, NoSettings

(* A step that sets the memory of one proxy.                               *)
LEMMA BecomeTyped ==
  ASSUME TypeOK, NEW p \in Proxies, NEW r \in Processes, Become(p, r)
  PROVE  /\ proc' \in [Proxies -> Processes]
         /\ proc'[p] = r
         /\ \A q \in Proxies \ {p} : proc'[q] = proc[q]
BY DEF TypeOK, Become

LEMMA ProcessTyped ==
  ASSUME TypeOK, NEW p \in Proxies
  PROVE  proc[p] \in Processes
BY DEF TypeOK

(* How a run that is over is remembered.                                   *)
LastOf(p, how) ==
  [how |-> how, pc |-> proc[p].pc, settings |-> proc[p].settings,
   handler |-> proc[p].handler, original |-> proc[p].original]

LEMMA EndTyped ==
  ASSUME TypeOK, NEW p \in Proxies, NEW how \in Ways, End(p, how)
  PROVE  /\ proc' \in [Proxies -> Processes]
         /\ ended' \in [Proxies -> Endings]
         /\ data' = data /\ starts' = starts
         /\ proc'[p] = Off
         /\ ended'[p] = LastOf(p, how)
         /\ \A q \in Proxies \ {p} : proc'[q] = proc[q] /\ ended'[q] = ended[q]
<1>1. proc[p] \in Processes
  BY ProcessTyped
<1>2. LastOf(p, how) \in Endings
  BY <1>1 DEF Processes, Endings, LastOf
<1>3. Become(p, Off) /\ ended' = [ended EXCEPT ![p] = LastOf(p, how)]
  BY DEF End, LastOf
<1>4. /\ proc' \in [Proxies -> Processes]
      /\ proc'[p] = Off
      /\ \A q \in Proxies \ {p} : proc'[q] = proc[q]
  BY <1>3, OffIsTyped, BecomeTyped
<1>5. /\ ended' \in [Proxies -> Endings]
      /\ ended'[p] = LastOf(p, how)
      /\ \A q \in Proxies \ {p} : ended'[q] = ended[q]
  BY <1>2, <1>3 DEF TypeOK
<1> QED BY <1>4, <1>5 DEF End

LEMMA ExitTyped ==
  ASSUME TypeOK, NEW p \in Proxies, Exit(p)
  PROVE  TypeOK'
<1>1. "exit" \in Ways
  BY DEF Ways
<1> QED BY <1>1, EndTyped DEF Exit, TypeOK

LEMMA HandlerTyped ==
  ASSUME TypeOK, NEW p \in Proxies, NEW how \in Ways,
         HandleTerminatingSignal(p, how)
  PROVE  TypeOK'
<1>1. /\ proc' \in [Proxies -> Processes]
      /\ ended' \in [Proxies -> Endings]
      /\ data' = data /\ starts' = starts
  BY EndTyped DEF HandleTerminatingSignal
<1>2. auth' \in Inodes /\ backup' \in Inodes \cup {None}
  BY DEF TypeOK, HandleTerminatingSignal, RestoreBackup
<1>3. sockets' \in [Displays -> Proxies \cup {"server", Nobody}]
  BY DEF TypeOK, HandleTerminatingSignal, Without
<1>4. hidden' \in [Proxies -> BOOLEAN] /\ spoiled' \in BOOLEAN
  BY DEF TypeOK, HandleTerminatingSignal
<1> QED BY <1>1, <1>2, <1>3, <1>4 DEF TypeOK

LEMMA AbortTyped ==
  ASSUME TypeOK, NEW p \in Proxies, Abort(p)
  PROVE  TypeOK'
BY HandlerTyped DEF Abort, Ways

(* A proxy is somewhere else, and has nothing else in memory.              *)
Moved(p, place) ==
  /\ proc'[p].pc = place
  /\ proc'[p].settings = proc[p].settings
  /\ proc'[p].handler = proc[p].handler
  /\ proc'[p].paths = proc[p].paths
  /\ proc'[p].original = proc[p].original
  /\ \A q \in Proxies \ {p} : proc'[q] = proc[q]

LEMMA GoToTyped ==
  ASSUME TypeOK, NEW p \in Proxies, NEW place \in Places, GoTo(p, place)
  PROVE  proc' \in [Proxies -> Processes] /\ Moved(p, place)
<1>1. [proc[p] EXCEPT !.pc = place] \in Processes
  BY ProcessTyped DEF Processes
<1>2. /\ proc' \in [Proxies -> Processes]
      /\ proc'[p] = [proc[p] EXCEPT !.pc = place]
      /\ \A q \in Proxies \ {p} : proc'[q] = proc[q]
  BY <1>1, BecomeTyped DEF GoTo
<1>3. proc[p] \in Processes
  BY ProcessTyped
<1> QED BY <1>2, <1>3 DEF Moved, Processes

(* What is open where a file is read or written.                           *)
Opened ==
  \A p \in Proxies :
    /\ At(p, "copying") => proc[p].from \in Inodes /\ proc[p].to \in Inodes
    /\ At(p, "writing") => proc[p].to \in Inodes

TInv == TypeOK /\ Opened

LEMMA StartTyped ==
  ASSUME TypeOK, NEW p \in Proxies, Start(p)
  PROVE  TypeOK'
<1>1. PICK s \in Settings : Become(p, [Off EXCEPT !.pc = "names", !.settings = s])
  BY DEF Start
<1>2. [Off EXCEPT !.pc = "names", !.settings = s] \in Processes
  BY OffIsTyped DEF Processes, Places
<1>3. proc' \in [Proxies -> Processes]
  BY <1>1, <1>2, BecomeTyped
<1>4. starts' \in [Proxies -> 0..MaxStarts]
  BY LifecycleAssumption DEF TypeOK, Start
<1> QED BY <1>3, <1>4, OffIsTyped DEF TypeOK, Start, files

LEMMA AuthTyped ==
  ASSUME TypeOK
  PROVE  /\ data[auth] \in SUBSET Displays
         /\ \A p \in Proxies : data[auth] \cup {In[p]} \in SUBSET Displays
BY DEF TypeOK, Displays

LEMMA DisplaysTyped ==
  ASSUME NEW p \in Proxies
  PROVE  /\ In[p] \in Displays /\ Out[p] \in Displays /\ In[p] # Out[p]
         /\ p # "server" /\ p # Nobody /\ Nobody # "server"
BY DisplaysAssumption, ProxiesAssumption DEF Displays

(* The steps of the constructor up to the end of _copyAuthentication: the  *)
(* types, and what the proxy has in memory afterwards.                     *)
Others(p) == \A q \in Proxies \ {p} : proc'[q] = proc[q]

LEMMA ParseStep ==
  ASSUME TypeOK, NEW p \in Proxies, ~Exit(p), ParseDisplayNames(p)
  PROVE  /\ TypeOK' /\ Others(p)
         /\ proc'[p].pc = IF Option(p).copyauth THEN "path" ELSE "time"
         /\ proc'[p].settings = proc[p].settings
         /\ proc'[p].paths = proc[p].paths
         /\ proc'[p].original = proc[p].original
<1> DEFINE s == [proc[p] EXCEPT
       !.pc = IF Option(p).copyauth THEN "path" ELSE "time",
       !.handler = IF Option(p).inUnix \/ Option(p).outUnix THEN "cleanup" ELSE @]
<1>0. proc[p] \in Processes
  BY ProcessTyped
<1>1. /\ s \in Processes
      /\ s.pc = IF Option(p).copyauth THEN "path" ELSE "time"
      /\ s.settings = proc[p].settings /\ s.paths = proc[p].paths
      /\ s.original = proc[p].original
  BY <1>0 DEF Processes, Places
<1>2. Become(p, s) /\ UNCHANGED <<files, sockets, hidden, starts, ended, spoiled>>
  BY DEF ParseDisplayNames
<1> HIDE DEF s
<1>3. proc' \in [Proxies -> Processes] /\ proc'[p] = s /\ Others(p)
  BY <1>1, <1>2, BecomeTyped DEF Others
<1>4. TypeOK'
  BY <1>2, <1>3 DEF TypeOK, files
<1> QED BY <1>1, <1>3, <1>4

LEMMA ResolveStep ==
  ASSUME TypeOK, NEW p \in Proxies, ~Exit(p), ResolveAuthPath(p)
  PROVE  /\ TypeOK' /\ Others(p)
         /\ proc'[p].pc = "reading" /\ proc'[p].paths
         /\ proc'[p].settings = proc[p].settings
         /\ proc'[p].original = proc[p].original
<1> DEFINE s == [proc[p] EXCEPT !.pc = "reading", !.paths = TRUE]
<1>0. proc[p] \in Processes
  BY ProcessTyped
<1>1. /\ s \in Processes /\ s.pc = "reading" /\ s.paths = TRUE
      /\ s.settings = proc[p].settings /\ s.original = proc[p].original
  BY <1>0 DEF Processes, Places
<1>2. Become(p, s) /\ UNCHANGED <<files, sockets, hidden, starts, ended, spoiled>>
  BY DEF ResolveAuthPath
<1> HIDE DEF s
<1>3. proc' \in [Proxies -> Processes] /\ proc'[p] = s /\ Others(p)
  BY <1>1, <1>2, BecomeTyped DEF Others
<1>4. TypeOK'
  BY <1>2, <1>3 DEF TypeOK, files
<1> QED BY <1>1, <1>3, <1>4

LEMMA ReadStep ==
  ASSUME TypeOK, NEW p \in Proxies, ~Exit(p), ~Abort(p), ReadAuth(p)
  PROVE  /\ TypeOK' /\ Others(p)
         /\ proc'[p].pc = "copy" /\ proc'[p].paths = proc[p].paths
         /\ proc'[p].settings = proc[p].settings
         /\ proc'[p].original = data[auth]
         /\ proc'[p].entries = data[auth] \cup {In[p]}
<1> DEFINE s == [proc[p] EXCEPT !.pc = "copy", !.original = data[auth],
                                !.entries = data[auth] \cup {In[p]}]
<1>0. proc[p] \in Processes
  BY ProcessTyped
<1>1. /\ s \in Processes /\ s.pc = "copy" /\ s.paths = proc[p].paths
      /\ s.settings = proc[p].settings /\ s.original = data[auth]
      /\ s.entries = data[auth] \cup {In[p]}
  BY <1>0, AuthTyped DEF Processes, Places
<1>2. Become(p, s) /\ UNCHANGED <<files, sockets, hidden, starts, ended, spoiled>>
  BY DEF ReadAuth
<1> HIDE DEF s
<1>3. proc' \in [Proxies -> Processes] /\ proc'[p] = s /\ Others(p)
  BY <1>1, <1>2, BecomeTyped DEF Others
<1>4. TypeOK'
  BY <1>2, <1>3 DEF TypeOK, files
<1> QED BY <1>1, <1>3, <1>4

LEMMA BeginStep ==
  ASSUME TypeOK, NEW p \in Proxies, ~Abort(p), BeginCopy(p)
  PROVE  /\ TypeOK' /\ Others(p)
         /\ proc'[p].pc = "copying" /\ proc'[p].paths = proc[p].paths
         /\ proc'[p].settings = proc[p].settings
         /\ proc'[p].original = proc[p].original
         /\ proc'[p].entries = proc[p].entries
         /\ proc'[p].from = auth /\ proc'[p].to = backup'
         /\ backup' \in Inodes /\ (backup # auth => backup' # auth)
         /\ data' = [data EXCEPT ![backup'] = {}]
<1>0. proc[p] \in Processes
  BY ProcessTyped
<1>1. PICK i \in IF backup # None THEN {backup} ELSE Unused :
        /\ Become(p, [proc[p] EXCEPT !.pc = "copying", !.from = auth, !.to = i])
        /\ backup' = i
        /\ data' = [data EXCEPT ![i] = {}]
  BY DEF BeginCopy
<1>a. UNCHANGED <<auth, sockets, hidden, starts, ended, spoiled>>
  BY DEF BeginCopy
<1>2. i \in Inodes /\ auth \in Inodes /\ (backup # auth => i # auth)
  BY <1>1 DEF TypeOK, Unused
<1> DEFINE s == [proc[p] EXCEPT !.pc = "copying", !.from = auth, !.to = i]
<1>3. /\ s \in Processes /\ s.pc = "copying" /\ s.paths = proc[p].paths
      /\ s.settings = proc[p].settings /\ s.original = proc[p].original
      /\ s.entries = proc[p].entries /\ s.from = auth /\ s.to = i
  BY <1>0, <1>2 DEF Processes, Places
<1>4. Become(p, s)
  BY <1>1
<1> HIDE DEF s
<1>5. proc' \in [Proxies -> Processes] /\ proc'[p] = s /\ Others(p)
  BY <1>3, <1>4, BecomeTyped DEF Others
<1>6. TypeOK'
  BY <1>1, <1>2, <1>5, <1>a DEF TypeOK
<1> QED BY <1>1, <1>2, <1>3, <1>5, <1>6

LEMMA EndStep ==
  ASSUME TInv, NEW p \in Proxies, ~Abort(p), EndCopy(p)
  PROVE  /\ TypeOK' /\ Others(p)
         /\ proc'[p].pc = "open" /\ proc'[p].paths = proc[p].paths
         /\ proc'[p].settings = proc[p].settings
         /\ proc'[p].original = proc[p].original
         /\ proc'[p].entries = proc[p].entries
<1> DEFINE s == [proc[p] EXCEPT !.pc = "open", !.from = None, !.to = None]
<1>0. TypeOK /\ proc[p] \in Processes
  BY ProcessTyped DEF TInv
<1>1. /\ s \in Processes /\ s.pc = "open" /\ s.paths = proc[p].paths
      /\ s.settings = proc[p].settings /\ s.original = proc[p].original
      /\ s.entries = proc[p].entries
  BY <1>0 DEF Processes, Places
<1>2. /\ Become(p, s) /\ UNCHANGED <<auth, backup, sockets, hidden, starts, ended, spoiled>>
      /\ data' = [data EXCEPT ![proc[p].to] = data[proc[p].from]]
  BY DEF EndCopy
<1> HIDE DEF s
<1>3. proc' \in [Proxies -> Processes] /\ proc'[p] = s /\ Others(p)
  BY <1>0, <1>1, <1>2, BecomeTyped DEF Others
<1>4. proc[p].from \in Inodes /\ proc[p].to \in Inodes
  BY DEF TInv, Opened, EndCopy
<1>5. data' \in [Inodes -> SUBSET Displays]
  BY <1>0, <1>2, <1>4 DEF TypeOK
<1>6. TypeOK'
  BY <1>0, <1>2, <1>3, <1>5 DEF TypeOK
<1> QED BY <1>1, <1>3, <1>6

LEMMA OpenStep ==
  ASSUME TypeOK, NEW p \in Proxies, ~Exit(p), OpenAuth(p)
  PROVE  /\ TypeOK' /\ Others(p)
         /\ proc'[p].pc = "writing" /\ proc'[p].paths = proc[p].paths
         /\ proc'[p].settings = proc[p].settings
         /\ proc'[p].original = proc[p].original
         /\ proc'[p].entries = proc[p].entries
         /\ proc'[p].to = auth
<1> DEFINE s == [proc[p] EXCEPT !.pc = "writing", !.to = auth]
<1>0. proc[p] \in Processes
  BY ProcessTyped
<1>1. /\ s \in Processes /\ s.pc = "writing" /\ s.paths = proc[p].paths
      /\ s.settings = proc[p].settings /\ s.original = proc[p].original
      /\ s.entries = proc[p].entries /\ s.to = auth
  BY <1>0 DEF Processes, Places, TypeOK
<1>2. /\ Become(p, s) /\ UNCHANGED <<auth, backup, sockets, hidden, starts, ended, spoiled>>
      /\ data' = [data EXCEPT ![auth] = {}]
  BY DEF OpenAuth
<1> HIDE DEF s
<1>3. proc' \in [Proxies -> Processes] /\ proc'[p] = s /\ Others(p)
  BY <1>1, <1>2, BecomeTyped DEF Others
<1>4. TypeOK'
  BY <1>2, <1>3 DEF TypeOK
<1> QED BY <1>1, <1>3, <1>4

LEMMA WriteStep ==
  ASSUME TypeOK, NEW p \in Proxies, WriteAuth(p)
  PROVE  /\ TypeOK' /\ Others(p)
         /\ proc'[p].pc = "time" /\ proc'[p].paths = proc[p].paths
         /\ proc'[p].settings = proc[p].settings
         /\ proc'[p].original = proc[p].original
<1> DEFINE s == [proc[p] EXCEPT !.pc = "time", !.to = None]
<1>0. proc[p] \in Processes
  BY ProcessTyped
<1>1. /\ s \in Processes /\ s.pc = "time" /\ s.paths = proc[p].paths
      /\ s.settings = proc[p].settings /\ s.original = proc[p].original
  BY <1>0 DEF Processes, Places
<1>2. /\ Become(p, s) /\ UNCHANGED <<auth, backup, sockets, hidden, starts, ended, spoiled>>
      /\ data' = [data EXCEPT ![proc[p].to] = proc[p].entries]
  BY DEF WriteAuth
<1> HIDE DEF s
<1>3. proc' \in [Proxies -> Processes] /\ proc'[p] = s /\ Others(p)
  BY <1>1, <1>2, BecomeTyped DEF Others
<1>4. proc[p].entries \in SUBSET Displays
  BY <1>0 DEF Processes
<1>5. data' \in [Inodes -> SUBSET Displays]
  BY <1>2, <1>4 DEF TypeOK
<1>6. TypeOK'
  BY <1>2, <1>3, <1>5 DEF TypeOK
<1> QED BY <1>1, <1>3, <1>6

LEMMA HandlerSetTyped ==
  ASSUME TypeOK, NEW p \in Proxies, NEW place \in Places,
         NEW h \in {"default", "cleanup", "cursor"},
         Become(p, [proc[p] EXCEPT !.pc = place, !.handler = h])
  PROVE  /\ proc' \in [Proxies -> Processes]
         /\ proc'[p].pc = place /\ proc'[p].handler = h
         /\ proc'[p].settings = proc[p].settings
         /\ proc'[p].paths = proc[p].paths
         /\ proc'[p].original = proc[p].original
         /\ \A q \in Proxies \ {p} : proc'[q] = proc[q]
<1>1. proc[p] \in Processes
  BY ProcessTyped
<1>2. [proc[p] EXCEPT !.pc = place, !.handler = h] \in Processes
  BY <1>1 DEF Processes
<1>3. /\ proc' \in [Proxies -> Processes]
      /\ proc'[p] = [proc[p] EXCEPT !.pc = place, !.handler = h]
      /\ \A q \in Proxies \ {p} : proc'[q] = proc[q]
  BY <1>2, BecomeTyped
<1> QED BY <1>1, <1>3 DEF Processes

(* The steps of the prequeue clients.                                      *)
LEMMA FetchTyped ==
  ASSUME TypeOK, NEW p \in Proxies, ~Exit(p), ~Abort(p),
         \/ FetchCurrentServerTime(p) \/ ConnectForAtoms(p) \/ HideCursor(p)
         \/ InstallCursorHandler(p) \/ FetchAtoms(p) \/ RestoreDefaultHandlers(p)
  PROVE  TypeOK' /\ Others(p) /\ proc'[p].pc \notin {"copying", "writing"}
<1>1. CASE FetchCurrentServerTime(p)
  <2>1. proc' \in [Proxies -> Processes] /\ Others(p)
        /\ proc'[p].pc \notin {"copying", "writing"}
    BY <1>1, GoToTyped DEF FetchCurrentServerTime, Places, Moved, Others
  <2> QED BY <1>1, <2>1 DEF FetchCurrentServerTime, TypeOK, files
<1>2. CASE ConnectForAtoms(p)
  <2>1. proc' \in [Proxies -> Processes] /\ Others(p)
        /\ proc'[p].pc \notin {"copying", "writing"}
    BY <1>2, GoToTyped DEF ConnectForAtoms, Places, Moved, Others
  <2> QED BY <1>2, <2>1 DEF ConnectForAtoms, TypeOK, files
<1>3. CASE HideCursor(p)
  <2>1. proc' \in [Proxies -> Processes] /\ Others(p)
        /\ proc'[p].pc \notin {"copying", "writing"}
    BY <1>3, GoToTyped DEF HideCursor, Places, Moved, Others
  <2> QED BY <1>3, <2>1 DEF HideCursor, TypeOK, files
<1>4. CASE InstallCursorHandler(p)
  <2>1. proc' \in [Proxies -> Processes] /\ Others(p)
        /\ proc'[p].pc \notin {"copying", "writing"}
    BY <1>4, HandlerSetTyped DEF InstallCursorHandler, Places, Others
  <2> QED BY <1>4, <2>1 DEF InstallCursorHandler, TypeOK, files
<1>5. CASE FetchAtoms(p)
  <2>1. proc' \in [Proxies -> Processes] /\ Others(p)
        /\ proc'[p].pc \notin {"copying", "writing"}
    BY <1>5, GoToTyped DEF FetchAtoms, Places, Moved, Others
  <2> QED BY <1>5, <2>1 DEF FetchAtoms, TypeOK, files
<1>6. CASE RestoreDefaultHandlers(p)
  <2>1. proc' \in [Proxies -> Processes] /\ Others(p)
        /\ proc'[p].pc \notin {"copying", "writing"}
    BY <1>6, HandlerSetTyped DEF RestoreDefaultHandlers, Places, Others
  <2> QED BY <1>6, <2>1 DEF RestoreDefaultHandlers, TypeOK, files
<1> QED BY <1>1, <1>2, <1>3, <1>4, <1>5, <1>6

(* The steps of run() and of the destructor.                               *)
LEMMA ServeTyped ==
  ASSUME TypeOK, NEW p \in Proxies, ~Exit(p), ~Abort(p),
         \/ RemoveStaleSocket(p) \/ Bind(p) \/ StartSubcommandClient(p)
         \/ ProcessClientQueue(p) \/ RemoveInSocket(p) \/ RemoveOutSocket(p)
         \/ RestoreAuth(p)
  PROVE  TypeOK' /\ Others(p) /\ proc'[p].pc \notin {"copying", "writing"}
<1>1. CASE RemoveStaleSocket(p)
  <2>1. proc' \in [Proxies -> Processes] /\ Others(p)
        /\ proc'[p].pc \notin {"copying", "writing"}
    BY <1>1, GoToTyped DEF RemoveStaleSocket, Places, Moved, Others
  <2> QED BY <1>1, <2>1 DEF RemoveStaleSocket, TypeOK, files, Without
<1>2. CASE Bind(p)
  <2>1. /\ sockets' = Bound(p) /\ UNCHANGED <<auth, backup, hidden, spoiled>>
        /\ \/ GoTo(p, "subcommand") /\ UNCHANGED <<data, starts, ended>>
           \/ End(p, "exit")
    BY <1>2 DEF Bind
  <2>2. sockets' \in [Displays -> Proxies \cup {"server", Nobody}]
    BY <2>1 DEF Bound, TypeOK
  <2>3. CASE GoTo(p, "subcommand") /\ UNCHANGED <<data, starts, ended>>
    <3>1. proc' \in [Proxies -> Processes] /\ Others(p)
          /\ proc'[p].pc \notin {"copying", "writing"}
      BY <2>3, GoToTyped DEF Places, Moved, Others
    <3> QED BY <2>1, <2>2, <2>3, <3>1 DEF TypeOK
  <2>4. CASE End(p, "exit")
    <3>1. /\ proc' \in [Proxies -> Processes] /\ ended' \in [Proxies -> Endings]
          /\ data' = data /\ starts' = starts
          /\ Others(p) /\ proc'[p].pc \notin {"copying", "writing"}
      BY <2>4, EndTyped DEF Ways, Off, Others
    <3> QED BY <2>1, <2>2, <3>1 DEF TypeOK
  <2> QED BY <2>1, <2>3, <2>4
<1>3. CASE StartSubcommandClient(p)
  <2>1. proc' \in [Proxies -> Processes] /\ Others(p)
        /\ proc'[p].pc \notin {"copying", "writing"}
    BY <1>3, GoToTyped DEF StartSubcommandClient, Places, Moved, Others
  <2> QED BY <1>3, <2>1 DEF StartSubcommandClient, TypeOK, files
<1>4. CASE ProcessClientQueue(p)
  <2>1. proc' \in [Proxies -> Processes] /\ Others(p)
        /\ proc'[p].pc \notin {"copying", "writing"}
    BY <1>4, GoToTyped DEF ProcessClientQueue, Places, Moved, Others
  <2> QED BY <1>4, <2>1 DEF ProcessClientQueue, TypeOK, files
<1>5. CASE RemoveInSocket(p)
  <2>1. proc' \in [Proxies -> Processes] /\ Others(p)
        /\ proc'[p].pc \notin {"copying", "writing"}
    BY <1>5, GoToTyped DEF RemoveInSocket, Places, Moved, Others
  <2> QED BY <1>5, <2>1 DEF RemoveInSocket, TypeOK, files, Without
<1>6. CASE RemoveOutSocket(p)
  <2>1. proc' \in [Proxies -> Processes] /\ Others(p)
        /\ proc'[p].pc \notin {"copying", "writing"}
    BY <1>6, GoToTyped DEF RemoveOutSocket, Places, Moved, Others
  <2> QED BY <1>6, <2>1 DEF RemoveOutSocket, TypeOK, files, Without
<1>7. CASE RestoreAuth(p)
  <2>1. End(p, "returned") /\ UNCHANGED <<sockets, hidden>>
    BY <1>7 DEF RestoreAuth
  <2>2. /\ proc' \in [Proxies -> Processes] /\ ended' \in [Proxies -> Endings]
        /\ data' = data /\ starts' = starts
        /\ Others(p) /\ proc'[p].pc \notin {"copying", "writing"}
    BY <2>1, EndTyped DEF Ways, Off, Others
  <2>3. auth' \in Inodes /\ backup' \in Inodes \cup {None} /\ spoiled' = spoiled
    BY <1>7 DEF RestoreAuth, RestoreBackup, TypeOK
  <2> QED BY <2>1, <2>2, <2>3 DEF TypeOK
<1> QED BY <1>1, <1>2, <1>3, <1>4, <1>5, <1>6, <1>7

(* What a step that ends a run leaves.                                     *)
LEMMA ExitLeaves ==
  ASSUME TypeOK, NEW p \in Proxies, Exit(p)
  PROVE  /\ proc'[p] = Off /\ Others(p) /\ ended'[p] = LastOf(p, "exit")
         /\ \A q \in Proxies \ {p} : ended'[q] = ended[q]
BY EndTyped DEF Exit, Ways, Others

LEMMA HandlerLeaves ==
  ASSUME TypeOK, NEW p \in Proxies, NEW how \in Ways,
         HandleTerminatingSignal(p, how)
  PROVE  /\ proc'[p] = Off /\ Others(p) /\ ended'[p] = LastOf(p, how)
         /\ \A q \in Proxies \ {p} : ended'[q] = ended[q]
BY EndTyped DEF HandleTerminatingSignal, Others

LEMMA KilledLeaves ==
  ASSUME TypeOK, NEW p \in Proxies, Killed(p)
  PROVE  /\ TypeOK'
         /\ proc'[p] = Off /\ Others(p) /\ ended'[p] = LastOf(p, "killed")
         /\ \A q \in Proxies \ {p} : ended'[q] = ended[q]
<1>1. End(p, "killed") /\ UNCHANGED <<auth, backup, sockets, hidden, spoiled>>
  BY DEF Killed
<1> QED BY <1>1, EndTyped DEF Ways, Others, TypeOK

LEMMA StartLeaves ==
  ASSUME TypeOK, NEW p \in Proxies, Start(p)
  PROVE  /\ Others(p) /\ proc'[p].pc = "names" /\ ~proc'[p].paths
         /\ proc'[p].original = {} /\ ended'[p] = NotEnded
         /\ \A q \in Proxies \ {p} : ended'[q] = ended[q]
<1>1. PICK s \in Settings : Become(p, [Off EXCEPT !.pc = "names", !.settings = s])
  BY DEF Start
<1>2. [Off EXCEPT !.pc = "names", !.settings = s] \in Processes
  BY OffIsTyped DEF Processes, Places
<1>3. Others(p) /\ proc'[p] = [Off EXCEPT !.pc = "names", !.settings = s]
  BY <1>1, <1>2, BecomeTyped DEF Others
<1>4. ended' = [ended EXCEPT ![p] = NotEnded]
  BY DEF Start
<1> QED BY <1>3, <1>4 DEF Off, TypeOK

(* Every step of a proxy ends its run by a handler, ::exit or a kill,      *)
(* starts one, or is one of the code's that does neither.                  *)
Setup(p) ==
  \/ ParseDisplayNames(p) \/ ResolveAuthPath(p) \/ ReadAuth(p) \/ BeginCopy(p)
  \/ EndCopy(p) \/ OpenAuth(p) \/ WriteAuth(p)
Fetch(p) ==
  \/ FetchCurrentServerTime(p) \/ ConnectForAtoms(p) \/ HideCursor(p)
  \/ InstallCursorHandler(p) \/ FetchAtoms(p) \/ RestoreDefaultHandlers(p)
Serve(p) ==
  \/ RemoveStaleSocket(p) \/ Bind(p) \/ StartSubcommandClient(p)
  \/ ProcessClientQueue(p) \/ RemoveInSocket(p) \/ RemoveOutSocket(p)
  \/ RestoreAuth(p)

LEMMA StepOfOne ==
  ASSUME Next
  PROVE  \E p \in Proxies :
           \/ Start(p) \/ Signal(p) \/ Killed(p)
           \/ Run(p) /\ Exit(p)
           \/ Run(p) /\ Abort(p)
           \/ Setup(p) /\ ~Exit(p) /\ ~Abort(p)
           \/ Fetch(p) /\ ~Exit(p) /\ ~Abort(p)
           \/ Serve(p) /\ ~Exit(p) /\ ~Abort(p)
BY DEF Next, Run, Setup, Fetch, Serve

LEMMA RunsOn ==
  ASSUME NEW p \in Proxies, Run(p)
  PROVE  proc[p].pc # "off"
BY DEF Run, At, ParseDisplayNames, ResolveAuthPath, ReadAuth, BeginCopy,
       EndCopy, OpenAuth, WriteAuth, FetchCurrentServerTime, ConnectForAtoms,
       HideCursor, InstallCursorHandler, FetchAtoms, RestoreDefaultHandlers,
       RemoveStaleSocket, Bind, StartSubcommandClient, ProcessClientQueue,
       RemoveInSocket, RemoveOutSocket, RestoreAuth

LEMMA OpenedKept ==
  ASSUME Opened, NEW p \in Proxies, Others(p),
         proc'[p].pc = "copying" =>
           proc'[p].from \in Inodes /\ proc'[p].to \in Inodes,
         proc'[p].pc = "writing" => proc'[p].to \in Inodes
  PROVE  Opened'
BY DEF Opened, Others, At

LEMMA TInvKept == TInv /\ [Next]_vars => TInv'
<1> SUFFICES ASSUME TInv, [Next]_vars PROVE TInv'
  OBVIOUS
<1>0. TypeOK /\ Opened
  BY DEF TInv
<1>1. CASE UNCHANGED vars
  BY <1>0, <1>1 DEF TInv, TypeOK, Opened, At, vars, files
<1>2. ASSUME NEW p \in Proxies, Start(p) PROVE TInv'
  BY <1>0, <1>2, StartTyped, StartLeaves, OpenedKept DEF TInv
<1>3. ASSUME NEW p \in Proxies, Signal(p) PROVE TInv'
  <2>1. HandleTerminatingSignal(p, "signal") /\ "signal" \in Ways
    BY <1>3 DEF Signal, Ways
  <2>2. TypeOK' /\ proc'[p] = Off /\ Others(p)
    BY <1>0, <2>1, HandlerTyped, HandlerLeaves
  <2> QED BY <1>0, <2>2, OpenedKept DEF TInv, Off
<1>4. ASSUME NEW p \in Proxies, Killed(p) PROVE TInv'
  BY <1>0, <1>4, KilledLeaves, OpenedKept DEF TInv, Off
<1>5. ASSUME NEW p \in Proxies, Exit(p) PROVE TInv'
  BY <1>0, <1>5, ExitTyped, ExitLeaves, OpenedKept DEF TInv, Off
<1>6. ASSUME NEW p \in Proxies, Abort(p) PROVE TInv'
  <2>1. HandleTerminatingSignal(p, "abort") /\ "abort" \in Ways
    BY <1>6 DEF Abort, Ways
  <2>2. TypeOK' /\ proc'[p] = Off /\ Others(p)
    BY <1>0, <2>1, HandlerTyped, HandlerLeaves
  <2> QED BY <1>0, <2>2, OpenedKept DEF TInv, Off
<1>7. ASSUME NEW p \in Proxies, Setup(p), ~Exit(p), ~Abort(p) PROVE TInv'
  <2>1. auth \in Inodes
    BY <1>0 DEF TypeOK
  <2>2. CASE ParseDisplayNames(p)
    BY <1>0, <1>7, <2>2, ParseStep, OpenedKept DEF TInv
  <2>3. CASE ResolveAuthPath(p)
    BY <1>0, <1>7, <2>3, ResolveStep, OpenedKept DEF TInv
  <2>4. CASE ReadAuth(p)
    BY <1>0, <1>7, <2>4, ReadStep, OpenedKept DEF TInv
  <2>5. CASE BeginCopy(p)
    BY <1>0, <1>7, <2>1, <2>5, BeginStep, OpenedKept DEF TInv
  <2>6. CASE EndCopy(p)
    BY <1>0, <1>7, <2>6, EndStep, OpenedKept DEF TInv
  <2>7. CASE OpenAuth(p)
    BY <1>0, <1>7, <2>1, <2>7, OpenStep, OpenedKept DEF TInv
  <2>8. CASE WriteAuth(p)
    BY <1>0, <1>7, <2>8, WriteStep, OpenedKept DEF TInv
  <2> QED BY <1>7, <2>2, <2>3, <2>4, <2>5, <2>6, <2>7, <2>8 DEF Setup
<1>8. ASSUME NEW p \in Proxies, Fetch(p), ~Exit(p), ~Abort(p) PROVE TInv'
  <2>1. TypeOK' /\ Others(p) /\ proc'[p].pc \notin {"copying", "writing"}
    BY <1>0, <1>8, FetchTyped DEF Fetch
  <2> QED BY <1>0, <2>1, OpenedKept DEF TInv
<1>9. ASSUME NEW p \in Proxies, Serve(p), ~Exit(p), ~Abort(p) PROVE TInv'
  <2>1. TypeOK' /\ Others(p) /\ proc'[p].pc \notin {"copying", "writing"}
    BY <1>0, <1>9, ServeTyped DEF Serve
  <2> QED BY <1>0, <2>1, OpenedKept DEF TInv
<1> QED BY <1>1, <1>2, <1>3, <1>4, <1>5, <1>6, <1>7, <1>8, <1>9, StepOfOne

LEMMA InitTInv == Init => TInv
<1> SUFFICES ASSUME Init PROVE TInv
  OBVIOUS
<1>1. data \in [Inodes -> SUBSET Displays]
  BY DEF Init, Displays
<1>2. starts \in [Proxies -> 0..MaxStarts]
  BY LifecycleAssumption DEF Init
<1> QED BY <1>1, <1>2, OffIsTyped DEF Init, TInv, TypeOK, Opened, At, Off

(* Every variable keeps its type, for any number of proxies, inodes,       *)
(* settings and restarts.                                                  *)
THEOREM TypesHold == Spec => []TypeOK
<1>1. Spec => []TInv
  BY InitTInv, TInvKept, PTL DEF Spec
<1>2. TInv => TypeOK
  BY DEF TInv
<1> QED BY <1>1, <1>2, PTL

-----------------------------------------------------------------------------
(* Sockets and cursors, for any number of proxies                          *)

(* The places from the removal of a stale socket to the end of a run.      *)
Listened == {"bind", "subcommand", "serving", "closing", "closing out", "restoring"}

(* A proxy's socket is there from bind to the destructor unless a rival    *)
(* removed it, and at no other time but after a run that was not cleaned   *)
(* up; its cursor is hidden only while atoms are fetched, or for good.     *)
SocketAt(p) ==
  /\ proc[p].pc \in {"subcommand", "serving", "closing"} /\ proc[p].settings.inUnix
       => sockets[In[p]] = p \/ Rivals(p) # {}
  /\ proc[p].pc \in {"bind", "closing out", "restoring"} /\ proc[p].settings.inUnix
       => sockets[In[p]] # p
  /\ proc[p].pc = "bind" /\ proc[p].settings.inUnix => sockets[In[p]] # "server"
  /\ proc[p].pc # "off" => ended[p] = NotEnded /\ starts[p] > 0
  /\ CleanedUp(p) /\ ended[p].settings.inUnix => sockets[In[p]] # p

CursorAt(p) ==
  /\ proc[p].pc = "fetching" => proc[p].handler = "cursor"
  /\ hidden[p] => \/ proc[p].pc \in {"handler", "fetching"}
                  \/ /\ proc[p].pc = "off"
                     /\ \/ ended[p].pc = "handler"
                        \/ ended[p].how \in {"exit", "killed"}

(* A proxy has a socket only at the path of its own display.               *)
Owned == \A d \in Displays : sockets[d] \in Proxies => In[sockets[d]] = d

SInv == Owned /\ \A p \in Proxies : SocketAt(p) /\ CursorAt(p)

(* A step of one proxy leaves what it says of the others; where it removes *)
(* a socket it has come to where it is a rival of whose that was, and who  *)
(* is a rival remains one.                                                 *)
OthersLeft(p) ==
  /\ Others(p)
  /\ \A q \in Proxies \ {p} :
       ended'[q] = ended[q] /\ hidden'[q] = hidden[q] /\ starts'[q] = starts[q]

RivalsKept(p) ==
  /\ HasEnded(p) => HasEnded(p)'
  /\ proc[p].pc \in Listened => proc'[p].pc \in Listened \/ HasEnded(p)'
  /\ proc[p].pc = "restoring" => proc'[p].pc = "restoring" \/ HasEnded(p)'

SocketsBy(p) ==
  \A d \in Displays :
    \/ sockets'[d] = sockets[d]
    \/ /\ d = In[p] /\ sockets'[d] \in {p, Nobody}
       /\ proc'[p].pc \in Listened \/ HasEnded(p)'
    \/ /\ d = Out[p] /\ sockets'[d] = Nobody
       /\ proc'[p].pc = "restoring" \/ HasEnded(p)'

LEMMA RivalsRemain ==
  ASSUME NEW p \in Proxies, OthersLeft(p), RivalsKept(p),
         NEW q \in Proxies, Rivals(q) # {}
  PROVE  Rivals(q)' # {}
<1>1. PICK r \in Proxies \ {q} :
        \/ In[r] = In[q] /\ (HasEnded(r) \/ proc[r].pc \in Listened)
        \/ Out[r] = In[q] /\ (HasEnded(r) \/ proc[r].pc = "restoring")
  BY DEF Rivals, Listened, At
<1>2. \/ In[r] = In[q] /\ (HasEnded(r)' \/ proc'[r].pc \in Listened)
      \/ Out[r] = In[q] /\ (HasEnded(r)' \/ proc'[r].pc = "restoring")
  <2>1. CASE r = p
    BY <1>1, <2>1 DEF RivalsKept
  <2>2. CASE r # p
    <3>1. proc'[r] = proc[r] /\ starts'[r] = starts[r]
      BY <2>2 DEF OthersLeft, Others
    <3> QED BY <1>1, <3>1 DEF HasEnded, At
  <2> QED BY <2>1, <2>2
<1>3. r \in Rivals(q)'
  BY <1>2 DEF Rivals, Listened, At
<1> QED BY <1>3

LEMMA SInvKept ==
  ASSUME SInv, NEW p \in Proxies, OthersLeft(p), RivalsKept(p), SocketsBy(p),
         SocketAt(p)', CursorAt(p)'
  PROVE  SInv'
<1>1. Owned'
  <2> SUFFICES ASSUME NEW d \in Displays, sockets'[d] \in Proxies
               PROVE  In[sockets'[d]] = d
    BY DEF Owned
  <2> QED BY DisplaysTyped DEF SInv, Owned, SocketsBy
<1>2. ASSUME NEW q \in Proxies, q # p PROVE (SocketAt(q) /\ CursorAt(q))'
  <2>1. /\ proc'[q] = proc[q] /\ ended'[q] = ended[q] /\ hidden'[q] = hidden[q]
        /\ starts'[q] = starts[q]
    BY <1>2 DEF OthersLeft, Others
  <2>2. SocketAt(q) /\ CursorAt(q)
    BY DEF SInv
  <2>3. CursorAt(q)'
    BY <2>1, <2>2 DEF CursorAt
  <2>4. /\ sockets[In[q]] # q => sockets'[In[q]] # q
        /\ sockets[In[q]] # "server" => sockets'[In[q]] # "server"
    BY <1>2, DisplaysTyped DEF SocketsBy
  <2>5. sockets[In[q]] = q \/ Rivals(q) # {}
          => sockets'[In[q]] = q \/ Rivals(q)' # {}
    <3>1. CASE Rivals(q) # {}
      BY <3>1, RivalsRemain
    <3>2. CASE sockets[In[q]] = q /\ sockets'[In[q]] # q
      <4>1. \/ In[q] = In[p] /\ (proc'[p].pc \in Listened \/ HasEnded(p)')
            \/ In[q] = Out[p] /\ (proc'[p].pc = "restoring" \/ HasEnded(p)')
        BY <3>2, DisplaysTyped DEF SocketsBy
      <4>2. p \in Rivals(q)'
        BY <1>2, <4>1 DEF Rivals, Listened, At
      <4> QED BY <4>2
    <3> QED BY <3>1, <3>2
  <2>6. CleanedUp(q)' <=> CleanedUp(q)
    BY <2>1 DEF CleanedUp
  <2> QED BY <2>1, <2>2, <2>3, <2>4, <2>5, <2>6 DEF SocketAt
<1> QED BY <1>1, <1>2 DEF SInv

LEMMA StartsTyped ==
  ASSUME TypeOK, NEW p \in Proxies
  PROVE  starts[p] \in Int
BY LifecycleAssumption DEF TypeOK

(* A step that ends the run leaves every rival one, and is one's own.      *)
LEMMA EndsRun ==
  ASSUME TypeOK, SInv, NEW p \in Proxies, proc[p].pc # "off",
         proc'[p].pc = "off", starts' = starts
  PROVE  HasEnded(p)' /\ RivalsKept(p)
<1>1. starts'[p] > 0 /\ starts'[p] \in Int
  BY StartsTyped DEF SInv, SocketAt
<1>2. HasEnded(p)'
  BY <1>1 DEF HasEnded, At
<1> QED BY <1>2 DEF RivalsKept

(* A step of the run that goes on.                                         *)
LEMMA GoesOn ==
  ASSUME NEW p \in Proxies, proc[p].pc # "off", starts' = starts,
         proc[p].pc \in Listened => proc'[p].pc \in Listened,
         proc[p].pc # "restoring"
  PROVE  RivalsKept(p)
BY DEF RivalsKept, HasEnded, At

(* The rivals of a proxy do not depend on what it does itself.             *)
LEMMA OwnRivals ==
  ASSUME NEW p \in Proxies, OthersLeft(p)
  PROVE  Rivals(p)' = Rivals(p)
<1>1. \A q \in Proxies \ {p} : proc'[q] = proc[q] /\ starts'[q] = starts[q]
  BY DEF OthersLeft, Others
<1>2. \A q \in Proxies \ {p} : HasEnded(q)' <=> HasEnded(q)
  BY <1>1 DEF HasEnded, At
<1> QED BY <1>1, <1>2 DEF Rivals, At

(* The end of a run.                                                       *)
LEMMA HandlerSockets ==
  ASSUME TypeOK, SInv, NEW p \in Proxies, NEW how \in {"signal", "abort"},
         proc[p].pc # "off", HandleTerminatingSignal(p, how)
  PROVE  SInv'
<1>1. /\ proc'[p] = Off /\ Others(p) /\ ended'[p] = LastOf(p, how)
      /\ \A q \in Proxies \ {p} : ended'[q] = ended[q]
      /\ starts' = starts
  BY HandlerLeaves DEF Ways, HandleTerminatingSignal, End
<1>2. SocketAt(p) /\ CursorAt(p)
  BY DEF SInv
<1>3. HasEnded(p)' /\ RivalsKept(p)
  BY <1>1, EndsRun DEF Off
<1>4. CASE proc[p].handler = "default" /\ UNCHANGED <<sockets, hidden>>
  <2>1. SocketAt(p)'
    BY <1>1, <1>4 DEF SocketAt, CleanedUp, LastOf, Off
  <2>2. CursorAt(p)'
    BY <1>1, <1>2, <1>4 DEF CursorAt, LastOf, Off
  <2>3. OthersLeft(p) /\ SocketsBy(p)
    BY <1>1, <1>4 DEF OthersLeft, SocketsBy
  <2> QED BY <1>3, <2>1, <2>2, <2>3, SInvKept
<1>5. CASE /\ proc[p].handler = "cleanup" /\ UNCHANGED hidden
           /\ sockets' = Without(Unlinked(p))
  <2>1. SocketsBy(p)
    BY <1>3, <1>5 DEF SocketsBy, Without, Unlinked
  <2>2. proc[p].settings.inUnix => sockets'[In[p]] # p
    BY <1>5, DisplaysTyped DEF Without, Unlinked, Option, MayRemove
  <2>3. SocketAt(p)'
    BY <1>1, <2>2 DEF SocketAt, CleanedUp, LastOf, Off
  <2>4. CursorAt(p)'
    BY <1>1, <1>2, <1>5 DEF CursorAt, LastOf, Off
  <2>5. OthersLeft(p)
    BY <1>1, <1>5 DEF OthersLeft
  <2> QED BY <1>3, <2>1, <2>3, <2>4, <2>5, SInvKept
<1>6. CASE /\ proc[p].handler = "cursor" /\ UNCHANGED sockets
           /\ hidden' = [hidden EXCEPT ![p] = FALSE]
  <2>0. ~hidden'[p] /\ \A q \in Proxies \ {p} : hidden'[q] = hidden[q]
    BY <1>6 DEF TypeOK
  <2>1. SocketAt(p)'
    BY <1>1, <1>6 DEF SocketAt, CleanedUp, LastOf, Off
  <2>2. CursorAt(p)'
    BY <1>1, <2>0 DEF CursorAt, Off
  <2>3. OthersLeft(p) /\ SocketsBy(p)
    BY <1>1, <1>6, <2>0 DEF OthersLeft, SocketsBy
  <2> QED BY <1>3, <2>1, <2>2, <2>3, SInvKept
<1> QED BY <1>4, <1>5, <1>6 DEF HandleTerminatingSignal

LEMMA GoneSockets ==
  ASSUME TypeOK, SInv, NEW p \in Proxies, NEW how \in {"exit", "killed"},
         proc[p].pc # "off", End(p, how), UNCHANGED hidden,
         sockets' = sockets \/ (proc[p].pc = "bind" /\ sockets' = Bound(p))
  PROVE  SInv'
<1>1. /\ proc'[p] = Off /\ Others(p) /\ ended'[p] = LastOf(p, how)
      /\ \A q \in Proxies \ {p} : ended'[q] = ended[q]
      /\ starts' = starts
  BY EndTyped DEF Ways, Others
<1>2. SocketAt(p)' /\ CursorAt(p)'
  BY <1>1 DEF SocketAt, CursorAt, CleanedUp, LastOf, Off
<1>3. HasEnded(p)' /\ RivalsKept(p)
  BY <1>1, EndsRun DEF Off
<1>4. SocketsBy(p)
  BY <1>3 DEF SocketsBy, Bound, TypeOK
<1> QED BY <1>1, <1>2, <1>3, <1>4, SInvKept DEF OthersLeft

(* A step that touches neither sockets nor cursor, to a place before bind. *)
Early == {"names", "path", "reading", "copy", "copying", "open", "writing", "time",
          "connect", "cursor", "listen"}

LEMMA EarlySockets ==
  ASSUME TypeOK, SInv, NEW p \in Proxies, Others(p), proc[p].pc \in Early,
         proc'[p].pc \in Early, UNCHANGED <<sockets, hidden, ended, starts>>
  PROVE  SInv'
<1>1. SocketAt(p) /\ CursorAt(p)
  BY DEF SInv
<1>2. SocketAt(p)'
  BY <1>1 DEF SocketAt, CleanedUp, Early
<1>3. CursorAt(p)'
  BY <1>1 DEF CursorAt, Early
<1>4. RivalsKept(p)
  BY GoesOn DEF Early, Listened
<1> QED BY <1>2, <1>3, <1>4, SInvKept DEF OthersLeft, SocketsBy

LEMMA SetupSockets ==
  ASSUME TInv, SInv, NEW p \in Proxies, Setup(p), ~Exit(p), ~Abort(p)
  PROVE  SInv'
<1>0. TypeOK
  BY DEF TInv
<1>1. /\ Others(p) /\ proc'[p].pc \in Early
  BY <1>0, ParseStep, ResolveStep, ReadStep, BeginStep, EndStep, OpenStep, WriteStep
     DEF Setup, Early
<1>2. proc[p].pc \in Early
  BY DEF Setup, Early, At, ParseDisplayNames, ResolveAuthPath, ReadAuth, BeginCopy,
         EndCopy, OpenAuth, WriteAuth
<1>3. UNCHANGED <<sockets, hidden, ended, starts>>
  BY DEF Setup, ParseDisplayNames, ResolveAuthPath, ReadAuth, BeginCopy,
         EndCopy, OpenAuth, WriteAuth
<1> QED BY <1>0, <1>1, <1>2, <1>3, EarlySockets

LEMMA FetchSockets ==
  ASSUME TypeOK, SInv, NEW p \in Proxies, Fetch(p), ~Exit(p), ~Abort(p)
  PROVE  SInv'
<1>0. SocketAt(p) /\ CursorAt(p)
  BY DEF SInv
<1>1. CASE FetchCurrentServerTime(p) \/ ConnectForAtoms(p)
  <2>1. PICK place \in {"connect", "listen", "cursor"} : GoTo(p, place)
    BY <1>1 DEF FetchCurrentServerTime, ConnectForAtoms
  <2>2. Others(p) /\ proc'[p].pc \in Early
    BY <2>1, GoToTyped DEF Moved, Others, Early, Places
  <2>3. proc[p].pc \in Early /\ UNCHANGED <<sockets, hidden, ended, starts>>
    BY <1>1 DEF FetchCurrentServerTime, ConnectForAtoms, At, Early
  <2> QED BY <2>2, <2>3, EarlySockets
<1>2. CASE HideCursor(p)
  <2>1. Moved(p, "handler")
    BY <1>2, GoToTyped DEF HideCursor, Places
  <2>2. /\ UNCHANGED <<sockets, ended, starts>> /\ proc[p].pc = "cursor"
        /\ \A q \in Proxies \ {p} : hidden'[q] = hidden[q]
    BY <1>2 DEF HideCursor, At, TypeOK
  <2>3. SocketAt(p)' /\ CursorAt(p)'
    BY <1>0, <2>1, <2>2 DEF SocketAt, CursorAt, CleanedUp, Moved
  <2>4. RivalsKept(p)
    BY <2>2, GoesOn DEF Listened
  <2> QED BY <2>1, <2>2, <2>3, <2>4, SInvKept DEF OthersLeft, Others, Moved, SocketsBy
<1>3. CASE InstallCursorHandler(p)
  <2>1. Others(p) /\ proc'[p].pc = "fetching" /\ proc'[p].handler = "cursor"
    BY <1>3, HandlerSetTyped DEF InstallCursorHandler, Places, Others
  <2>2. UNCHANGED <<sockets, hidden, ended, starts>> /\ proc[p].pc = "handler"
    BY <1>3 DEF InstallCursorHandler, At
  <2>3. SocketAt(p)' /\ CursorAt(p)'
    BY <1>0, <2>1, <2>2 DEF SocketAt, CursorAt, CleanedUp
  <2>4. RivalsKept(p)
    BY <2>2, GoesOn DEF Listened
  <2> QED BY <2>1, <2>2, <2>3, <2>4, SInvKept DEF OthersLeft, SocketsBy
<1>4. CASE FetchAtoms(p)
  <2>1. Moved(p, "default")
    BY <1>4, GoToTyped DEF FetchAtoms, Places
  <2>2. /\ UNCHANGED <<sockets, ended, starts>> /\ proc[p].pc = "fetching"
        /\ ~hidden'[p]
        /\ \A q \in Proxies \ {p} : hidden'[q] = hidden[q]
    BY <1>4 DEF FetchAtoms, At, TypeOK
  <2>3. SocketAt(p)' /\ CursorAt(p)'
    BY <1>0, <2>1, <2>2 DEF SocketAt, CursorAt, CleanedUp, Moved
  <2>4. RivalsKept(p)
    BY <2>2, GoesOn DEF Listened
  <2> QED BY <2>1, <2>2, <2>3, <2>4, SInvKept DEF OthersLeft, Others, Moved, SocketsBy
<1>5. CASE RestoreDefaultHandlers(p)
  <2>1. Others(p) /\ proc'[p].pc = "listen"
    BY <1>5, HandlerSetTyped DEF RestoreDefaultHandlers, Places, Others
  <2>2. UNCHANGED <<sockets, hidden, ended, starts>> /\ proc[p].pc = "default"
    BY <1>5 DEF RestoreDefaultHandlers, At
  <2>3. SocketAt(p)' /\ CursorAt(p)'
    BY <1>0, <2>1, <2>2 DEF SocketAt, CursorAt, CleanedUp
  <2>4. RivalsKept(p)
    BY <2>2, GoesOn DEF Listened
  <2> QED BY <2>1, <2>2, <2>3, <2>4, SInvKept DEF OthersLeft, SocketsBy
<1> QED BY <1>1, <1>2, <1>3, <1>4, <1>5 DEF Fetch

(* A step of run() or of the destructor that goes on.                      *)
LEMMA LateSockets ==
  ASSUME TypeOK, SInv, NEW p \in Proxies, NEW place \in Listened, GoTo(p, place),
         proc[p].pc \in Listened \cup {"listen"}, proc[p].pc # "restoring",
         UNCHANGED <<hidden, ended, starts>>,
         \A d \in Displays :
           \/ sockets'[d] = sockets[d]
           \/ d = In[p] /\ sockets'[d] \in {p, Nobody}
           \/ d = Out[p] /\ sockets'[d] = Nobody /\ place = "restoring",
         place \in {"subcommand", "serving", "closing"} /\ proc[p].settings.inUnix
           => sockets'[In[p]] = p \/ Rivals(p) # {},
         place \in {"bind", "closing out", "restoring"} /\ proc[p].settings.inUnix
           => sockets'[In[p]] # p,
         place = "bind" /\ proc[p].settings.inUnix => sockets'[In[p]] = Nobody
  PROVE  SInv'
<1>0. SocketAt(p) /\ CursorAt(p) /\ place \in Places /\ place # "off"
  BY DEF SInv, Listened, Places
<1>1. Moved(p, place)
  BY <1>0, GoToTyped
<1>2. OthersLeft(p)
  BY <1>1 DEF OthersLeft, Others, Moved
<1>3. CursorAt(p)'
  BY <1>0, <1>1 DEF CursorAt, Moved, Listened
<1>4. ended'[p] = NotEnded /\ ended'[p].how = "none" /\ starts'[p] > 0
  <2>1. ended[p] = NotEnded /\ starts[p] > 0
    BY <1>0 DEF SocketAt, Listened
  <2>2. NotEnded.how = "none"
    BY DEF NotEnded
  <2>3. ended' = ended /\ starts' = starts
    OBVIOUS
  <2> QED BY ONLY <2>1, <2>2, <2>3
<1>5. ~CleanedUp(p)'
  BY <1>4 DEF CleanedUp
<1>6. SocketAt(p)'
  <2>1. Rivals(p)' = Rivals(p)
    BY <1>2, OwnRivals
  <2> QED BY <1>1, <1>4, <1>5, <2>1, DisplaysTyped DEF SocketAt, Moved
<1>7. RivalsKept(p)
  BY <1>1, GoesOn DEF Moved, Listened
<1>8. SocketsBy(p)
  BY <1>1 DEF SocketsBy, Moved
<1> QED BY <1>2, <1>3, <1>6, <1>7, <1>8, SInvKept

LEMMA ServeSockets ==
  ASSUME TypeOK, SInv, NEW p \in Proxies, Serve(p), ~Exit(p), ~Abort(p)
  PROVE  SInv'
<1>0. SocketAt(p) /\ In[p] \in Displays /\ p # Nobody
  BY DisplaysTyped DEF SInv
<1>1. CASE RestoreAuth(p)
  <2>1. /\ End(p, "returned") /\ UNCHANGED <<sockets, hidden>>
        /\ proc[p].pc = "restoring"
    BY <1>1 DEF RestoreAuth, At
  <2>2. /\ proc'[p] = Off /\ Others(p) /\ ended'[p] = LastOf(p, "returned")
        /\ \A q \in Proxies \ {p} : ended'[q] = ended[q]
        /\ starts' = starts
    BY <2>1, EndTyped DEF Ways, Others
  <2>3. SocketAt(p)'
    BY <1>0, <2>1, <2>2 DEF SocketAt, CleanedUp, LastOf, Off
  <2>4. CursorAt(p)'
    BY <2>1, <2>2 DEF SInv, CursorAt, Off
  <2>5. RivalsKept(p)
    BY <2>1, <2>2, EndsRun DEF Off
  <2> QED BY <2>1, <2>2, <2>3, <2>4, <2>5, SInvKept DEF OthersLeft, SocketsBy
<1>2. CASE RemoveStaleSocket(p)
  <2>1. /\ proc[p].pc = "listen" /\ GoTo(p, "bind")
        /\ UNCHANGED <<hidden, ended, starts>>
        /\ sockets' = IF proc[p].settings.inUnix THEN Without({In[p]}) ELSE sockets
    BY <1>2 DEF RemoveStaleSocket, At, Option
  <2>2. /\ \A d \in Displays : sockets'[d] = sockets[d] \/ (d = In[p] /\ sockets'[d] = Nobody)
        /\ proc[p].settings.inUnix => sockets'[In[p]] = Nobody
    BY <1>0, <2>1 DEF Without
  <2> QED BY <1>0, <2>1, <2>2, LateSockets DEF Listened
<1>3. CASE Bind(p)
  <2>1. /\ proc[p].pc = "bind" /\ UNCHANGED hidden
        /\ sockets' = Bound(p)
        /\ \/ GoTo(p, "subcommand") /\ UNCHANGED <<starts, ended>>
           \/ End(p, "exit")
    BY <1>3 DEF Bind, At
  <2>2. /\ \A d \in Displays : sockets'[d] = sockets[d] \/ (d = In[p] /\ sockets'[d] = p)
        /\ proc[p].settings.inUnix => sockets'[In[p]] = p
    BY <1>0, <2>1 DEF Bound, Option, TypeOK
  <2>3. CASE GoTo(p, "subcommand") /\ UNCHANGED <<starts, ended>>
    BY <2>1, <2>2, <2>3, LateSockets DEF Listened
  <2>4. CASE End(p, "exit")
    BY <2>1, <2>4, GoneSockets
  <2> QED BY <2>1, <2>3, <2>4
<1>4. CASE StartSubcommandClient(p)
  <2>1. /\ proc[p].pc = "subcommand" /\ GoTo(p, "serving")
        /\ UNCHANGED <<sockets, hidden, ended, starts>>
    BY <1>4 DEF StartSubcommandClient, At
  <2> QED BY <1>0, <2>1, LateSockets DEF Listened, SocketAt
<1>5. CASE ProcessClientQueue(p)
  <2>1. /\ proc[p].pc = "serving" /\ GoTo(p, "closing")
        /\ UNCHANGED <<sockets, hidden, ended, starts>>
    BY <1>5 DEF ProcessClientQueue, At
  <2> QED BY <1>0, <2>1, LateSockets DEF Listened, SocketAt
<1>6. CASE RemoveInSocket(p)
  <2>1. /\ proc[p].pc = "closing" /\ GoTo(p, "closing out")
        /\ UNCHANGED <<hidden, ended, starts>>
        /\ sockets' = IF proc[p].settings.inUnix THEN Without({In[p]}) ELSE sockets
    BY <1>6 DEF RemoveInSocket, At, Option
  <2>2. /\ \A d \in Displays : sockets'[d] = sockets[d] \/ (d = In[p] /\ sockets'[d] = Nobody)
        /\ proc[p].settings.inUnix => sockets'[In[p]] = Nobody
    BY <1>0, <2>1 DEF Without
  <2> QED BY <1>0, <2>1, <2>2, LateSockets DEF Listened
<1>7. CASE RemoveOutSocket(p)
  <2>1. /\ proc[p].pc = "closing out" /\ GoTo(p, "restoring")
        /\ UNCHANGED <<hidden, ended, starts>>
        /\ sockets' \in {sockets, Without({Out[p]})}
    BY <1>7 DEF RemoveOutSocket, At
  <2>2. \A d \in Displays : sockets'[d] = sockets[d] \/ (d = Out[p] /\ sockets'[d] = Nobody)
    BY <2>1 DEF Without
  <2>3. proc[p].settings.inUnix => sockets'[In[p]] # p
    BY <1>0, <2>1, <2>2 DEF SocketAt
  <2> QED BY <2>1, <2>2, <2>3, LateSockets DEF Listened
<1> QED BY <1>1, <1>2, <1>3, <1>4, <1>5, <1>6, <1>7 DEF Serve

LEMMA StepSockets == TInv /\ SInv /\ [Next]_vars => SInv'
<1> SUFFICES ASSUME TInv, SInv, [Next]_vars PROVE SInv'
  OBVIOUS
<1>0. TypeOK
  BY DEF TInv
<1>1. CASE UNCHANGED vars
  <2>1. UNCHANGED <<sockets, proc, hidden, starts, ended>>
    BY <1>1 DEF vars
  <2>2. \A q \in Proxies : HasEnded(q)' <=> HasEnded(q)
    BY <2>1 DEF HasEnded, At
  <2>3. \A q \in Proxies : Rivals(q)' = Rivals(q)
    BY <2>1, <2>2 DEF Rivals, At
  <2>4. Owned'
    BY <2>1 DEF SInv, Owned
  <2>5. ASSUME NEW q \in Proxies PROVE (SocketAt(q) /\ CursorAt(q))'
    BY <2>1, <2>3, <2>5 DEF SInv, SocketAt, CursorAt, CleanedUp
  <2> QED BY <2>4, <2>5 DEF SInv
<1>2. ASSUME NEW p \in Proxies, Start(p) PROVE SInv'
  <2>1. /\ Others(p) /\ proc'[p].pc = "names" /\ ended'[p] = NotEnded
        /\ \A q \in Proxies \ {p} : ended'[q] = ended[q]
    BY <1>0, <1>2, StartLeaves
  <2>2. /\ UNCHANGED sockets /\ ~hidden'[p] /\ proc[p].pc = "off"
        /\ \A q \in Proxies \ {p} : hidden'[q] = hidden[q] /\ starts'[q] = starts[q]
        /\ starts'[p] = starts[p] + 1 /\ starts[p] \in Nat
    BY <1>0, <1>2, LifecycleAssumption DEF Start, TypeOK, At
  <2>3. SocketAt(p)' /\ CursorAt(p)'
    BY <2>1, <2>2 DEF SocketAt, CursorAt, CleanedUp, NotEnded
  <2>4. RivalsKept(p)
    BY <2>1, <2>2 DEF RivalsKept, HasEnded, Listened
  <2> QED BY <2>1, <2>2, <2>3, <2>4, SInvKept DEF OthersLeft, SocketsBy
<1>3. ASSUME NEW p \in Proxies, Signal(p) PROVE SInv'
  BY <1>0, <1>3, HandlerSockets DEF Signal, At
<1>4. ASSUME NEW p \in Proxies, Killed(p) PROVE SInv'
  BY <1>0, <1>4, GoneSockets DEF Killed, At
<1>5. ASSUME NEW p \in Proxies, Run(p), Exit(p) PROVE SInv'
  BY <1>0, <1>5, GoneSockets, RunsOn DEF Exit
<1>6. ASSUME NEW p \in Proxies, Run(p), Abort(p) PROVE SInv'
  BY <1>0, <1>6, RunsOn, HandlerSockets DEF Abort
<1>7. ASSUME NEW p \in Proxies, Setup(p), ~Exit(p), ~Abort(p) PROVE SInv'
  BY <1>7, SetupSockets
<1>8. ASSUME NEW p \in Proxies, Fetch(p), ~Exit(p), ~Abort(p) PROVE SInv'
  BY <1>0, <1>8, FetchSockets
<1>9. ASSUME NEW p \in Proxies, Serve(p), ~Exit(p), ~Abort(p) PROVE SInv'
  BY <1>0, <1>9, ServeSockets
<1> QED BY <1>1, <1>2, <1>3, <1>4, <1>5, <1>6, <1>7, <1>8, <1>9, StepOfOne

LEMMA InitSockets == Init => SInv
<1>0. Init => Owned
  BY ProxiesAssumption DEF Init, Owned
<1> SUFFICES ASSUME Init, NEW p \in Proxies PROVE SocketAt(p) /\ CursorAt(p)
  BY <1>0 DEF SInv
<1>1. /\ proc[p] = Off /\ proc[p].pc = "off" /\ ~hidden[p]
      /\ ended[p] = NotEnded /\ ended[p].how = "none"
  BY DEF Init, Off, NotEnded
<1>2. ~CleanedUp(p)
  BY <1>1 DEF CleanedUp
<1> QED BY <1>1, <1>2 DEF SocketAt, CursorAt

LEMMA SpecSInv == Spec => [](TInv /\ SInv)
BY InitTInv, TInvKept, InitSockets, StepSockets, PTL DEF Spec

(* A run that returned, or that a signal or an abort ended through the     *)
(* handler, leaves no socket of its own, whoever else runs.                *)
THEOREM SocketsAreRemoved == Spec => []SocketRemoved
<1>1. SInv => SocketRemoved
  BY DEF SInv, SocketAt, SocketRemoved
<1> QED BY <1>1, SpecSInv, PTL

(* bind never finds what a killed run has left: at most the socket of      *)
(* another proxy with the same display that has come in between.           *)
THEOREM PathsAreFree == Spec => []PathIsFree
<1>1. TInv /\ SInv => PathIsFree
  <2> SUFFICES ASSUME TInv, SInv, NEW p \in Proxies, At(p, "bind"), Option(p).inUnix
               PROVE  \/ sockets[In[p]] = Nobody
                      \/ \E q \in Proxies \ {p} : In[q] = In[p] /\ sockets[In[p]] = q
    BY DEF PathIsFree
  <2>1. sockets[In[p]] # p /\ sockets[In[p]] # "server"
    BY DEF SInv, SocketAt, At, Option
  <2>2. In[p] \in Displays /\ sockets[In[p]] \in Proxies \cup {"server", Nobody}
    BY DisplaysTyped DEF TInv, TypeOK
  <2> QED BY <2>1, <2>2 DEF SInv, Owned
<1> QED BY <1>1, SpecSInv, PTL

(* Nobody removes the socket of a proxy that serves but a proxy with its   *)
(* display that listens or ends, or one connected through it that ends.    *)
THEOREM ServingIsReachable == Spec => []Reachable
<1>1. SInv => Reachable
  BY DEF SInv, SocketAt, Reachable, At, Option
<1> QED BY <1>1, SpecSInv, PTL

(* No signal and no failed assertion leaves the cursor hidden while the    *)
(* handler of the prequeue clients is installed.                           *)
THEOREM CursorsAreShown == Spec => []CursorShown
<1>1. SInv => CursorShown
  BY DEF SInv, CursorAt, CursorShown
<1> QED BY <1>1, SpecSInv, PTL

-----------------------------------------------------------------------------
(* Files, for one proxy that is started again and again                    *)

Alone == \A p, q \in Proxies : p = q

(* It connects to the X server.                                            *)
LEMMA AloneOut ==
  ASSUME Alone, NEW p \in Proxies
  PROVE  Out[p] = "server"
BY DisplaysTyped DEF Alone, Displays

(* Where a proxy has not read .Xauthority yet, where the backup is not     *)
(* written yet, and where both files are as they stay until the end.       *)
Unread   == {"off", "names", "path", "reading"}
Unbacked == Unread \cup {"copy", "copying"}
Late     == Places \ (Unbacked \cup {"open", "writing"})

(* What a proxy knows of the files: the backup is what it read, once it is *)
(* written, and .Xauthority is that and its own entry, once it is written. *)
FileAt(p) ==
  /\ proc[p].pc \in Unread \ {"reading"} => ~proc[p].paths
  /\ proc[p].pc = "reading" => proc[p].paths
  /\ proc[p].pc \in Unread \/ ~proc[p].paths => proc[p].original = {}
  /\ proc[p].pc \in {"copy", "copying", "open", "writing"} =>
       /\ proc[p].paths
       /\ proc[p].entries = proc[p].original \cup {In[p]}
       /\ "server" \in proc[p].original
  /\ proc[p].pc \in {"copy", "copying", "open"} => data[auth] = proc[p].original
  /\ proc[p].pc = "copying" => proc[p].from = auth /\ proc[p].to = backup
  /\ proc[p].pc = "copying" => backup \in Inodes
  /\ proc[p].pc = "writing" => proc[p].to = auth
  /\ proc[p].pc \notin Unbacked /\ proc[p].paths =>
       /\ backup \in Inodes
       /\ "server" \in proc[p].original
       /\ data[backup] = proc[p].original
  /\ proc[p].pc \in Late /\ proc[p].paths => data[auth] = proc[p].original \cup {In[p]}
  /\ proc[p].pc \in Late /\ proc[p].settings.copyauth => proc[p].paths
  /\ proc[p].pc # "off" => ended[p] = NotEnded
  /\ CleanedUp(p) /\ ended[p].original # {} /\ ended[p].pc \notin Copying
       => data[auth] = ended[p].original

FInv ==
  /\ Alone
  /\ backup # auth
  /\ OwnNeverLost
  /\ \A p \in Proxies : FileAt(p)

LEMMA FInvKept ==
  ASSUME FInv, NEW p \in Proxies, (backup # auth)', OwnNeverLost', FileAt(p)'
  PROVE  FInv'
<1>1. \A q \in Proxies : q = p
  BY DEF FInv, Alone
<1>2. Alone'
  BY DEF FInv, Alone
<1> QED BY <1>1, <1>2 DEF FInv

LEMMA NotCleaned ==
  /\ NotEnded.how = "none" /\ NotEnded.original = {}
  /\ Off.pc = "off" /\ Off.original = {} /\ Off.paths = FALSE
BY DEF NotEnded, Off

(* The end of a run leaves the files as they are, or restores the backup.  *)
LEMMA GoneFiles ==
  ASSUME TypeOK, FInv, NEW p \in Proxies, NEW how \in {"exit", "killed"},
         End(p, how), UNCHANGED <<auth, backup, spoiled>>
  PROVE  FInv'
<1>1. proc'[p] = Off /\ ended'[p] = LastOf(p, how) /\ data' = data
  BY EndTyped DEF Ways
<1>2. ended'[p].how = how
  BY <1>1 DEF LastOf
<1>3. ~CleanedUp(p)'
  BY <1>2 DEF CleanedUp
<1>4. FileAt(p)'
  BY <1>1, <1>3, NotCleaned DEF FileAt, Unread, Unbacked, Late
<1>5. (backup # auth)' /\ OwnNeverLost'
  BY <1>1 DEF FInv, OwnNeverLost
<1> QED BY <1>4, <1>5, FInvKept

LEMMA RestoredFiles ==
  ASSUME TypeOK, FInv, NEW p \in Proxies, NEW how \in Ways, End(p, how),
         proc[p].paths, proc[p].pc \notin Copying \cup {"off"}, RestoreBackup
  PROVE  FInv'
<1>1. proc'[p] = Off /\ ended'[p] = LastOf(p, how) /\ data' = data
  BY EndTyped
<1>2. FileAt(p) /\ proc[p].pc \in Places
  BY ProcessTyped DEF FInv, Processes
<1>3. proc[p].pc \notin Unbacked
  BY <1>2 DEF FileAt, Unread, Unbacked, Copying
<1>4. /\ backup # None /\ "server" \in data[backup]
      /\ data[backup] = proc[p].original
  BY <1>2, <1>3, FilesAssumption DEF FileAt
<1>5. auth' = backup /\ backup' = None
  BY <1>4 DEF RestoreBackup
<1>6. ended'[p].original = proc[p].original
  BY <1>1 DEF LastOf
<1>7. FileAt(p)'
  BY <1>1, <1>4, <1>5, <1>6, NotCleaned DEF FileAt, Unread, Unbacked, Late
<1>8. (backup # auth)' /\ OwnNeverLost'
  BY <1>1, <1>4, <1>5 DEF OwnNeverLost
<1> QED BY <1>7, <1>8, FInvKept

(* A handler that meets a run before its backup is complete may lose the   *)
(* authorization, and then says so.                                        *)
LEMMA SpoiledFiles ==
  ASSUME TypeOK, FInv, NEW p \in Proxies, NEW how \in Ways, End(p, how),
         proc[p].pc \in Copying, RestoreBackup,
         spoiled' = (spoiled \/ backup # None)
  PROVE  FInv'
<1>1. proc'[p] = Off /\ ended'[p] = LastOf(p, how) /\ data' = data
  BY EndTyped
<1>2. ended'[p].pc \in Copying
  BY <1>1 DEF LastOf
<1>3. FileAt(p)'
  BY <1>1, <1>2, NotCleaned DEF FileAt, Unread, Unbacked, Late
<1>4. (backup # auth)' /\ OwnNeverLost'
  BY <1>1, FilesAssumption DEF RestoreBackup, FInv, OwnNeverLost, TypeOK
<1> QED BY <1>3, <1>4, FInvKept

LEMMA HandlerFiles ==
  ASSUME TypeOK, FInv, NEW p \in Proxies, NEW how \in {"signal", "abort"},
         HandleTerminatingSignal(p, how), proc[p].pc # "off"
  PROVE  FInv'
<1>0. End(p, how) /\ how \in Ways
  BY DEF HandleTerminatingSignal, Ways
<1>1. CASE proc[p].handler = "cleanup" /\ proc[p].paths
  <2>1. /\ RestoreBackup
        /\ spoiled' = (spoiled \/ (backup # None /\ proc[p].pc \in Copying))
    BY <1>1 DEF HandleTerminatingSignal
  <2>2. CASE proc[p].pc \in Copying
    <3>1. spoiled' = (spoiled \/ backup # None)
      BY <2>1, <2>2
    <3> QED BY <1>0, <2>1, <2>2, <3>1, SpoiledFiles
  <2>3. CASE proc[p].pc \notin Copying
    BY <1>0, <1>1, <2>1, <2>3, RestoredFiles
  <2> QED BY <2>2, <2>3
<1>2. CASE proc[p].handler # "cleanup" \/ ~proc[p].paths
  <2>1. UNCHANGED <<auth, backup, spoiled>>
    BY <1>2 DEF HandleTerminatingSignal
  <2>2. proc'[p] = Off /\ ended'[p] = LastOf(p, how) /\ data' = data
    BY <1>0, EndTyped
  <2>3. /\ ended'[p].how = how /\ ended'[p].handler = proc[p].handler
        /\ ended'[p].original = proc[p].original
    BY <2>2 DEF LastOf
  <2>4. ~proc[p].paths => proc[p].original = {}
    BY DEF FInv, FileAt
  <2>5. CleanedUp(p)' => ended'[p].original = {}
    BY <1>2, <2>3, <2>4 DEF CleanedUp
  <2>6. FileAt(p)'
    BY <2>2, <2>5, NotCleaned DEF FileAt, Unread, Unbacked, Late
  <2>7. (backup # auth)' /\ OwnNeverLost'
    BY <2>1, <2>2 DEF FInv, OwnNeverLost
  <2> QED BY <2>6, <2>7, FInvKept
<1> QED BY <1>1, <1>2

(* A step that leaves the files and what the proxy knows of them.          *)
LEMMA SameFiles ==
  ASSUME TypeOK, FInv, NEW p \in Proxies, UNCHANGED <<auth, backup, data, ended, spoiled>>,
         proc[p].pc \in Late, proc'[p].pc \in Late,
         proc'[p].settings = proc[p].settings, proc'[p].paths = proc[p].paths,
         proc'[p].original = proc[p].original
  PROVE  FInv'
<1>1. FileAt(p) /\ backup # auth /\ OwnNeverLost
  BY DEF FInv
<1>2. FileAt(p)'
  BY <1>1 DEF FileAt, CleanedUp, Unread, Unbacked, Late
<1> QED BY <1>1, <1>2, FInvKept DEF OwnNeverLost

(* The run is not over, and no earlier one counts.                         *)
LEMMA NotYet ==
  ASSUME FInv, NEW p \in Proxies, proc[p].pc # "off", ended' = ended
  PROVE  ended'[p] = NotEnded /\ ~CleanedUp(p)'
<1>1. ended[p] = NotEnded
  BY DEF FInv, FileAt
<1>2. ended'[p].how = "none"
  BY <1>1, NotCleaned
<1>3. ~CleanedUp(p)'
  BY <1>2 DEF CleanedUp
<1> QED BY <1>1, <1>3

LEMMA SetupFiles ==
  ASSUME TInv, FInv, NEW p \in Proxies, Setup(p), ~Exit(p), ~Abort(p)
  PROVE  FInv'
<1>0. /\ TypeOK /\ FileAt(p) /\ backup # auth /\ OwnNeverLost
      /\ auth \in Inodes /\ None \notin Inodes
      /\ data \in [Inodes -> SUBSET Displays]
  BY FilesAssumption DEF TInv, FInv, TypeOK
<1>1. CASE ParseDisplayNames(p)
  <2>1. /\ UNCHANGED <<auth, backup, data, ended, spoiled>> /\ proc[p].pc = "names"
    BY <1>0, <1>1 DEF ParseDisplayNames, At, files
  <2>2. FileAt(p)'
    BY <1>0, <1>1, <2>1, ParseStep, NotYet
       DEF FileAt, Option, Unread, Unbacked, Late
  <2> QED BY <1>0, <2>1, <2>2, FInvKept DEF OwnNeverLost
<1>2. CASE ResolveAuthPath(p)
  <2>1. /\ UNCHANGED <<auth, backup, data, ended, spoiled>> /\ proc[p].pc = "path"
    BY <1>0, <1>2 DEF ResolveAuthPath, At, files
  <2>2. FileAt(p)'
    BY <1>0, <1>2, <2>1, ResolveStep, NotYet DEF FileAt, Unread, Unbacked, Late
  <2> QED BY <1>0, <2>1, <2>2, FInvKept DEF OwnNeverLost
<1>3. CASE ReadAuth(p)
  <2>1. /\ UNCHANGED <<auth, backup, data, ended, spoiled>> /\ proc[p].pc = "reading"
        /\ Out[p] \in data[auth]
    BY <1>0, <1>3 DEF ReadAuth, At, files
  <2>2. proc[p].paths /\ "server" \in data[auth]
    BY <2>1, AloneOut DEF FInv, FileAt
  <2>3. FileAt(p)'
    BY <1>0, <1>3, <2>1, <2>2, ReadStep, NotYet DEF FileAt, Unread, Unbacked, Late
  <2> QED BY <1>0, <2>1, <2>3, FInvKept DEF OwnNeverLost
<1>4. CASE BeginCopy(p)
  <2>1. /\ UNCHANGED <<auth, ended, spoiled>> /\ proc[p].pc = "copy"
    BY <1>4 DEF BeginCopy, At
  <2>2. /\ backup' \in Inodes /\ backup' # auth /\ data'[auth] = data[auth]
    BY <1>0, <1>4, BeginStep
  <2>3. "server" \in data[auth]
    BY <1>0, <2>1 DEF FileAt
  <2>4. FileAt(p)'
    BY <1>0, <1>4, <2>1, <2>2, BeginStep, NotYet DEF FileAt, Unread, Unbacked, Late
  <2> QED BY <2>1, <2>2, <2>3, <2>4, FInvKept DEF OwnNeverLost
<1>5. CASE EndCopy(p)
  <2>1. /\ UNCHANGED <<auth, backup, ended, spoiled>> /\ proc[p].pc = "copying"
        /\ data' = [data EXCEPT ![proc[p].to] = data[proc[p].from]]
    BY <1>5 DEF EndCopy, At
  <2>2. proc[p].to = backup /\ proc[p].from = auth /\ backup \in Inodes
    BY <1>0, <2>1 DEF FileAt
  <2>3. data'[auth] = data[auth] /\ data'[backup] = data[auth]
    BY <1>0, <2>1, <2>2
  <2>4. "server" \in data[auth]
    BY <1>0, <2>1 DEF FileAt
  <2>5. FileAt(p)'
    BY <1>0, <1>5, <2>1, <2>2, <2>3, <2>4, EndStep, NotYet
       DEF FileAt, Unread, Unbacked, Late
  <2> QED BY <1>0, <2>1, <2>3, <2>4, <2>5, FInvKept DEF OwnNeverLost
<1>6. CASE OpenAuth(p)
  <2>1. /\ UNCHANGED <<auth, backup, ended, spoiled>> /\ proc[p].pc = "open"
        /\ data' = [data EXCEPT ![auth] = {}]
    BY <1>6 DEF OpenAuth, At
  <2>2. /\ backup \in Inodes /\ data[backup] = proc[p].original
        /\ "server" \in proc[p].original /\ proc[p].paths
    BY <1>0, <2>1 DEF FileAt, Unbacked, Unread
  <2>3. data'[backup] = data[backup]
    BY <1>0, <2>1, <2>2
  <2>4. FileAt(p)'
    BY <1>0, <1>6, <2>1, <2>2, <2>3, OpenStep, NotYet DEF FileAt, Unread, Unbacked, Late
  <2> QED BY <1>0, <2>1, <2>2, <2>3, <2>4, FInvKept DEF OwnNeverLost
<1>7. CASE WriteAuth(p)
  <2>1. /\ UNCHANGED <<auth, backup, ended, spoiled>> /\ proc[p].pc = "writing"
        /\ data' = [data EXCEPT ![proc[p].to] = proc[p].entries]
    BY <1>7 DEF WriteAuth, At
  <2>2. /\ backup \in Inodes /\ data[backup] = proc[p].original
        /\ "server" \in proc[p].original /\ proc[p].paths /\ proc[p].to = auth
        /\ proc[p].entries = proc[p].original \cup {In[p]}
    BY <1>0, <2>1 DEF FileAt, Unbacked, Unread
  <2>3. data'[backup] = data[backup] /\ data'[auth] = proc[p].original \cup {In[p]}
    BY <1>0, <2>1, <2>2
  <2>4. FileAt(p)'
    BY <1>0, <1>7, <2>1, <2>2, <2>3, WriteStep, NotYet DEF FileAt, Unread, Unbacked, Late
  <2> QED BY <1>0, <2>1, <2>2, <2>3, <2>4, FInvKept DEF OwnNeverLost
<1> QED BY <1>1, <1>2, <1>3, <1>4, <1>5, <1>6, <1>7 DEF Setup

LEMMA FetchFiles ==
  ASSUME TypeOK, FInv, NEW p \in Proxies, Fetch(p), ~Exit(p), ~Abort(p)
  PROVE  FInv'
<1>1. UNCHANGED <<auth, backup, data, ended, spoiled>> /\ proc[p].pc \in Late
  BY DEF Fetch, FetchCurrentServerTime, ConnectForAtoms, HideCursor, FetchAtoms,
         InstallCursorHandler, RestoreDefaultHandlers, At, files, Late, Unbacked,
         Unread, Places
<1>2. CASE \E place \in Late : GoTo(p, place)
  <2>1. PICK place \in Late : Moved(p, place)
    BY <1>2, GoToTyped DEF Late
  <2> QED BY <1>1, <2>1, SameFiles DEF Moved
<1>3. CASE InstallCursorHandler(p) \/ RestoreDefaultHandlers(p)
  <2>1. PICK place \in {"fetching", "listen"}, h \in {"default", "cursor"} :
          Become(p, [proc[p] EXCEPT !.pc = place, !.handler = h])
    BY <1>3 DEF InstallCursorHandler, RestoreDefaultHandlers
  <2>2. place \in Late
    BY DEF Late, Unbacked, Unread, Places
  <2> QED BY <1>1, <2>1, <2>2, HandlerSetTyped, SameFiles DEF Late
<1>4. CASE \/ FetchCurrentServerTime(p) \/ ConnectForAtoms(p)
           \/ HideCursor(p) \/ FetchAtoms(p)
  <2>1. PICK place \in {"connect", "listen", "cursor", "handler", "default"} :
          GoTo(p, place)
    BY <1>4 DEF FetchCurrentServerTime, ConnectForAtoms, HideCursor, FetchAtoms
  <2>2. place \in Late
    BY DEF Late, Unbacked, Unread, Places
  <2> QED BY <1>2, <2>1, <2>2
<1> QED BY <1>3, <1>4 DEF Fetch

LEMMA ServeFiles ==
  ASSUME TypeOK, FInv, NEW p \in Proxies, Serve(p), ~Exit(p), ~Abort(p)
  PROVE  FInv'
<1>1. proc[p].pc \in Late
  BY DEF Serve, RemoveStaleSocket, Bind, StartSubcommandClient, ProcessClientQueue,
         RemoveInSocket, RemoveOutSocket, RestoreAuth, At, Late, Unbacked, Unread, Places
<1>2. CASE RestoreAuth(p)
  <2>0. proc[p].pc = "restoring" /\ End(p, "returned")
    BY <1>2 DEF RestoreAuth, At
  <2>1. CASE proc[p].paths
    <3>1. RestoreBackup
      BY <1>2, <2>1 DEF RestoreAuth
    <3>2. proc[p].pc \notin Copying \cup {"off"} /\ "returned" \in Ways
      BY <2>0 DEF Copying, Ways
    <3> QED BY <2>0, <2>1, <3>1, <3>2, RestoredFiles
  <2>2. CASE ~proc[p].paths
    <3>1. UNCHANGED <<auth, backup, spoiled>>
      BY <1>2, <2>2 DEF RestoreAuth
    <3>2. proc'[p] = Off /\ ended'[p] = LastOf(p, "returned") /\ data' = data
      BY <2>0, EndTyped DEF Ways
    <3>3. ended'[p].original = {}
      BY <2>2, <3>2 DEF LastOf, FInv, FileAt
    <3>4. FileAt(p)'
      BY <3>2, <3>3, NotCleaned DEF FileAt, Unread, Unbacked, Late
    <3> QED BY <3>1, <3>2, <3>4, FInvKept DEF FInv, OwnNeverLost
  <2> QED BY <2>1, <2>2
<1>3. CASE Bind(p) /\ End(p, "exit") /\ UNCHANGED <<auth, backup, spoiled>>
  BY <1>3, GoneFiles
<1>4. CASE ~RestoreAuth(p) /\ ~(Bind(p) /\ End(p, "exit") /\ UNCHANGED <<auth, backup, spoiled>>)
  <2>1. UNCHANGED <<auth, backup, data, ended, spoiled>>
    BY <1>4 DEF Serve, RemoveStaleSocket, Bind, StartSubcommandClient, files,
                ProcessClientQueue, RemoveInSocket, RemoveOutSocket
  <2>2. PICK place \in {"bind", "subcommand", "serving", "closing", "closing out",
                        "restoring"} : GoTo(p, place)
    BY <1>4 DEF Serve, RemoveStaleSocket, Bind, StartSubcommandClient,
                ProcessClientQueue, RemoveInSocket, RemoveOutSocket
  <2>3. place \in Late /\ place \in Places
    BY DEF Late, Unbacked, Unread, Places
  <2>4. Moved(p, place)
    BY <2>2, <2>3, GoToTyped
  <2> QED BY <1>1, <2>1, <2>3, <2>4, SameFiles DEF Moved
<1> QED BY <1>2, <1>3, <1>4

LEMMA StepFiles == TInv /\ FInv /\ [Next]_vars => FInv'
<1> SUFFICES ASSUME TInv, FInv, [Next]_vars PROVE FInv'
  OBVIOUS
<1>0. TypeOK
  BY DEF TInv
<1>1. CASE UNCHANGED vars
  BY <1>1 DEF FInv, Alone, FileAt, CleanedUp, OwnNeverLost, vars, files
<1>2. ASSUME NEW p \in Proxies, Start(p) PROVE FInv'
  <2>1. /\ proc'[p].pc = "names" /\ ~proc'[p].paths /\ proc'[p].original = {}
        /\ ended'[p] = NotEnded
    BY <1>0, <1>2, StartLeaves
  <2>2. ended'[p].how = "none" /\ UNCHANGED <<auth, backup, data, spoiled>>
    BY <1>2, <2>1, NotCleaned DEF Start, files
  <2>3. ~CleanedUp(p)'
    BY <2>2 DEF CleanedUp
  <2>4. FileAt(p)'
    BY <2>1, <2>3 DEF FileAt, Unread, Unbacked, Late
  <2> QED BY <2>2, <2>4, FInvKept DEF FInv, OwnNeverLost
<1>3. ASSUME NEW p \in Proxies, Signal(p) PROVE FInv'
  BY <1>0, <1>3, HandlerFiles DEF Signal, At
<1>4. ASSUME NEW p \in Proxies, Killed(p) PROVE FInv'
  BY <1>0, <1>4, GoneFiles DEF Killed
<1>5. ASSUME NEW p \in Proxies, Exit(p) PROVE FInv'
  BY <1>0, <1>5, GoneFiles DEF Exit
<1>6. ASSUME NEW p \in Proxies, Run(p), Abort(p) PROVE FInv'
  BY <1>0, <1>6, RunsOn, HandlerFiles DEF Abort
<1>7. ASSUME NEW p \in Proxies, Setup(p), ~Exit(p), ~Abort(p) PROVE FInv'
  BY <1>7, SetupFiles
<1>8. ASSUME NEW p \in Proxies, Fetch(p), ~Exit(p), ~Abort(p) PROVE FInv'
  BY <1>0, <1>8, FetchFiles
<1>9. ASSUME NEW p \in Proxies, Serve(p), ~Exit(p), ~Abort(p) PROVE FInv'
  BY <1>0, <1>9, ServeFiles
<1> QED BY <1>1, <1>2, <1>3, <1>4, <1>5, <1>6, <1>7, <1>8, <1>9, StepOfOne

LEMMA InitFiles == Alone /\ Init => FInv
<1> SUFFICES ASSUME Alone, Init PROVE FInv
  OBVIOUS
<1>1. /\ auth \in Inodes /\ backup = None /\ data[auth] = {"server"}
      /\ backup # auth
  BY FilesAssumption DEF Init
<1>2. ASSUME NEW p \in Proxies PROVE FileAt(p)
  <2>1. proc[p] = Off /\ ended[p] = NotEnded
    BY DEF Init
  <2>2. ~CleanedUp(p)
    BY <2>1, NotCleaned DEF CleanedUp
  <2> QED BY <2>1, <2>2, NotCleaned DEF FileAt, Unread, Unbacked, Late
<1> QED BY <1>1, <1>2 DEF FInv, OwnNeverLost

LEMMA SpecFInv == Alone /\ Spec => [](TInv /\ FInv)
<1>1. TInv /\ FInv /\ [Next]_vars => (TInv /\ FInv)'
  BY TInvKept, StepFiles
<1>2. Alone /\ Init => TInv /\ FInv
  BY InitTInv, InitFiles
<1>3. CASE Alone
  <2>1. Init => TInv /\ FInv
    BY <1>2, <1>3
  <2>2. TInv /\ FInv /\ [Next]_vars => (TInv /\ FInv)'
    BY <1>1, <1>3
  <2> QED BY <2>1, <2>2, PTL DEF Spec
<1> QED BY <1>3

(* One proxy at a time never loses the user's own authorization, wherever  *)
(* it is killed, fails or meets a signal, until the handler replaces the   *)
(* file that is still read or copied by the incomplete or earlier backup.  *)
THEOREM OwnIsNeverLost == Alone /\ Spec => []OwnNeverLost
<1>1. FInv => OwnNeverLost
  BY DEF FInv
<1> QED BY <1>1, SpecFInv, PTL

(* A run that cleaned up left .Xauthority as that run had found it, unless *)
(* it ended before its backup was complete.                                *)
THEOREM AuthIsRestored == Alone /\ Spec => []AuthRestored
<1>1. FInv => AuthRestored
  BY DEF FInv, FileAt, AuthRestored
<1> QED BY <1>1, SpecFInv, PTL

(* A proxy that serves has its own authorization in .Xauthority.           *)
THEOREM ClientsCanConnect == Alone /\ Spec => []ClientsAuthorized
<1>1. FInv => ClientsAuthorized
  BY DEF FInv, FileAt, ClientsAuthorized, At, Option, Late, Unbacked, Unread, Places
<1> QED BY <1>1, SpecFInv, PTL
=============================================================================
