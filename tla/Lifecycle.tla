----------------------------- MODULE Lifecycle -----------------------------
(***************************************************************************)
(* From the constructor of ProxyX11Server to its destructor: what a run of *)
(* the proxy does to files that outlive it, .Xauthority, its backup and    *)
(* the Unix sockets, and what is left of them when it ends by returning,   *)
(* by ::exit, by an assertion or an exception, by a terminating signal or  *)
(* by SIGKILL.  A proxy that has ended may be started again.               *)
(*                                                                         *)
(* A file has a name and an inode: a file that is open stays the same when *)
(* another one is renamed to its name.  Its content is the set of displays *)
(* it has an authorization for: that of the X server, or a proxy's.        *)
(***************************************************************************)
EXTENDS Integers

CONSTANTS
  Proxies,    \* proxies
  In, Out,    \* In[p], Out[p]: the displays a proxy serves and connects to
  Inodes,     \* inodes for .Xauthority, its backup and files still open
  None,       \* no inode
  Nobody,     \* no owner of a socket
  Settings,   \* what a proxy may be started with
  Removable,  \* TRUE: the user may remove the X server's socket
  MaxStarts   \* bound: how often a proxy is started

(* The displays: the X server's, of that name, and those of the proxies,   *)
(* each of which may be the one that another proxy serves or connects to.  *)
Displays == {"server"} \cup {In[p] : p \in Proxies}

ASSUME FilesAssumption    == None \notin Inodes
ASSUME ProxiesAssumption  == "server" \notin Proxies /\ Nobody \notin Proxies \cup {"server"}
ASSUME DisplaysAssumption ==
  \A p \in Proxies : Out[p] \in Displays /\ In[p] # Out[p]
ASSUME SettingsAssumption ==
  Settings \subseteq [inUnix : BOOLEAN, outUnix : BOOLEAN, copyauth : BOOLEAN,
                      systemtimeformat : BOOLEAN, prefetchatoms : BOOLEAN]
ASSUME LifecycleAssumption ==
  Removable \in BOOLEAN /\ MaxStarts \in Nat

VARIABLES
  auth,     \* the inode of .Xauthority
  backup,   \* the inode of .Xauthority.bup, or None
  data,     \* what is in an inode
  sockets,  \* whose Unix socket is at the path of a display, or Nobody's
  proc,     \* what a process has in memory
  hidden,   \* the cursor of the terminal that a run writes to is hidden
  starts,   \* how often a proxy has been started
  ended,    \* history: how a proxy's last run ended
  spoiled   \* history: .Xauthority was replaced by the backup of a run
            \* that was still reading and copying it

files == <<auth, backup, data>>
vars  == <<files, sockets, proc, hidden, starts, ended, spoiled>>

(* Where a process is: in the order of the code, each before what its name *)
(* says, or "off".                                                         *)
Places == {"off", "names", "path", "reading", "copy", "copying", "open", "writing",
           "time", "connect", "cursor", "handler", "fetching", "default",
           "listen", "bind", "subcommand", "serving", "closing", "closing out",
           "restoring"}
Copying == {"reading", "copy", "copying"}

NoSettings == [inUnix |-> FALSE, outUnix |-> FALSE, copyauth |-> FALSE,
               systemtimeformat |-> FALSE, prefetchatoms |-> FALSE]

(* handler: the action for terminating signals; paths: xauth_path and      *)
(* xauth_bup_path are set; entries: those to be written; original: those   *)
(* that were read; from, to: the files that are open.                      *)
Off == [pc |-> "off", settings |-> NoSettings, handler |-> "default", paths |-> FALSE,
        entries |-> {}, original |-> {}, from |-> None, to |-> None]

Processes == [pc : Places, settings : Settings \cup {NoSettings},
              handler : {"default", "cleanup", "cursor"}, paths : BOOLEAN,
              entries : SUBSET Displays, original : SUBSET Displays,
              from : Inodes \cup {None}, to : Inodes \cup {None}]

Ways == {"none", "returned", "exit", "abort", "signal", "killed"}
Endings == [how : Ways, pc : Places, settings : Settings \cup {NoSettings},
            handler : {"default", "cleanup", "cursor"}, original : SUBSET Displays]
NotEnded == [how |-> "none", pc |-> "off", settings |-> NoSettings,
             handler |-> "default", original |-> {}]

TypeOK ==
  /\ auth \in Inodes
  /\ backup \in Inodes \cup {None}
  /\ data \in [Inodes -> SUBSET Displays]
  /\ sockets \in [Displays -> Proxies \cup {"server", Nobody}]
  /\ proc \in [Proxies -> Processes]
  /\ hidden \in [Proxies -> BOOLEAN]
  /\ starts \in [Proxies -> 0..MaxStarts]
  /\ ended \in [Proxies -> Endings]
  /\ spoiled \in BOOLEAN

-----------------------------------------------------------------------------

At(p, place)   == proc[p].pc = place
Become(p, r)   == proc' = [proc EXCEPT ![p] = r]
GoTo(p, place) == Become(p, [proc[p] EXCEPT !.pc = place])
Option(p)      == proc[p].settings

(* What a path is left with; the user may not remove everything.           *)
MayRemove(d)  == sockets[d] = "server" => Removable
Without(gone) == [d \in Displays |-> IF d \in gone THEN Nobody ELSE sockets[d]]

OpenFiles == {proc[p].from : p \in Proxies} \cup {proc[p].to : p \in Proxies}
Unused    == Inodes \ ({auth, backup} \cup OpenFiles)

(* The process is gone; what it had open is closed.                        *)
End(p, how) ==
  /\ Become(p, Off)
  /\ ended' = [ended EXCEPT ![p] =
       [how |-> how, pc |-> proc[p].pc, settings |-> proc[p].settings,
        handler |-> proc[p].handler, original |-> proc[p].original]]
  /\ UNCHANGED <<data, starts>>

(* ::exit: neither the destructor nor the handler runs.                    *)
Exit(p) ==
  /\ End(p, "exit")
  /\ UNCHANGED <<auth, backup, sockets, hidden, spoiled>>

RestoreBackup_Unchecked ==
  /\ auth' = backup
  /\ backup' = None

(* rename(2) of the backup to .Xauthority; without a backup it fails.      *)
RestoreBackup ==
  \/ /\ backup # None
     /\ auth' = backup
     /\ backup' = None
  \/ /\ backup = None
     /\ UNCHANGED <<auth, backup>>

Unlinked_OutOnly(p) == {d \in {Out[p]} : Option(p).outUnix /\ MayRemove(d)}

(* What the handler unlinks, whoever has made it.                          *)
Unlinked(p) == {d \in {In[p], Out[p]} : /\ d = In[p] => Option(p).inUnix
                                        /\ d = Out[p] => Option(p).outUnix
                                        /\ MayRemove(d)}

(* A terminating signal, one's own SIGABRT included, meets the handler of  *)
(* ProxyX11Server.cpp, that of the prequeue clients, or none.              *)
HandleTerminatingSignal(p, how) ==
  /\ \/ /\ proc[p].handler = "default"
        /\ UNCHANGED <<auth, backup, sockets, hidden, spoiled>>
     \/ /\ proc[p].handler = "cleanup"
        /\ sockets' = Without(Unlinked(p))
        /\ IF proc[p].paths
           THEN /\ RestoreBackup
                /\ spoiled' = (spoiled \/ (backup # None /\ proc[p].pc \in Copying))
           ELSE UNCHANGED <<auth, backup, spoiled>>
        /\ UNCHANGED hidden
     \/ /\ proc[p].handler = "cursor"
        /\ hidden' = [hidden EXCEPT ![p] = FALSE]
        /\ UNCHANGED <<auth, backup, sockets, spoiled>>
  /\ End(p, how)

Abort(p) == HandleTerminatingSignal(p, "abort")

Signal(p) ==
  /\ ~At(p, "off")
  /\ HandleTerminatingSignal(p, "signal")

(* SIGKILL, or another signal that nothing handles.                        *)
Killed(p) ==
  /\ ~At(p, "off")
  /\ End(p, "killed")
  /\ UNCHANGED <<auth, backup, sockets, hidden, spoiled>>

-----------------------------------------------------------------------------

Init ==
  /\ auth \in Inodes
  /\ backup = None
  /\ data = [i \in Inodes |-> IF i = auth THEN {"server"} ELSE {}]
  /\ sockets = [d \in Displays |-> IF d = "server" THEN "server" ELSE Nobody]
  /\ proc = [p \in Proxies |-> Off]
  /\ hidden = [p \in Proxies |-> FALSE]
  /\ starts = [p \in Proxies |-> 0]
  /\ ended = [p \in Proxies |-> NotEnded]
  /\ spoiled = FALSE

Start(p) ==
  /\ At(p, "off")
  /\ starts[p] < MaxStarts
  /\ starts' = [starts EXCEPT ![p] = @ + 1]
  /\ \E s \in Settings : Become(p, [Off EXCEPT !.pc = "names", !.settings = s])
  /\ ended' = [ended EXCEPT ![p] = NotEnded]
  /\ hidden' = [hidden EXCEPT ![p] = FALSE]
  /\ UNCHANGED <<files, sockets, spoiled>>

(* The handler is installed if one of the displays is a Unix socket.       *)
ParseDisplayNames(p) ==
  /\ At(p, "names")
  /\ \/ /\ Become(p, [proc[p] EXCEPT
             !.pc = IF Option(p).copyauth THEN "path" ELSE "time",
             !.handler = IF Option(p).inUnix \/ Option(p).outUnix THEN "cleanup" ELSE @])
        /\ UNCHANGED <<files, sockets, hidden, starts, ended, spoiled>>
     \/ Exit(p)

ResolveAuthPath_NotStored(p) ==
  /\ At(p, "path")
  /\ GoTo(p, "reading")
  /\ UNCHANGED <<files, sockets, hidden, starts, ended, spoiled>>

(* From here on the handler and the destructor restore the backup, which   *)
(* is there only if an earlier run left it.                                *)
ResolveAuthPath(p) ==
  /\ At(p, "path")
  /\ \/ /\ Become(p, [proc[p] EXCEPT !.pc = "reading", !.paths = TRUE])
        /\ UNCHANGED <<files, sockets, hidden, starts, ended, spoiled>>
     \/ Exit(p)

(* The user's file is well-formed, but a run that was killed may have left *)
(* it empty, which fails the assertion about the length of the data.  The  *)
(* authorization for the proxy's display is a copy of that for Out[p].     *)
ReadAuth(p) ==
  /\ At(p, "reading")
  /\ \/ /\ Out[p] \in data[auth]
        /\ Become(p, [proc[p] EXCEPT !.pc = "copy", !.original = data[auth],
                                     !.entries = data[auth] \cup {In[p]}])
        /\ UNCHANGED <<files, sockets, hidden, starts, ended, spoiled>>
     \/ data[auth] = {} /\ Abort(p)
     \/ Exit(p)

(* std::filesystem::copy opens both files, the backup for overwriting, or  *)
(* throws; nothing catches what it throws.                                 *)
BeginCopy(p) ==
  /\ At(p, "copy")
  /\ \/ /\ \E i \in IF backup # None THEN {backup} ELSE Unused :
             /\ Become(p, [proc[p] EXCEPT !.pc = "copying", !.from = auth, !.to = i])
             /\ backup' = i
             /\ data' = [data EXCEPT ![i] = {}]
        /\ UNCHANGED <<auth, sockets, hidden, starts, ended, spoiled>>
     \/ Abort(p)

EndCopy_Late(p) ==
  /\ At(p, "copying")
  /\ Become(p, [proc[p] EXCEPT !.pc = "open", !.from = None, !.to = None])
  /\ UNCHANGED <<files, sockets, hidden, starts, ended, spoiled>>

(* It throws if the disk is full.                                          *)
EndCopy(p) ==
  /\ At(p, "copying")
  /\ \/ /\ data' = [data EXCEPT ![proc[p].to] = data[proc[p].from]]
        /\ Become(p, [proc[p] EXCEPT !.pc = "open", !.from = None, !.to = None])
        /\ UNCHANGED <<auth, backup, sockets, hidden, starts, ended, spoiled>>
     \/ Abort(p)

OpenAuth(p) ==
  /\ At(p, "open")
  /\ \/ /\ Become(p, [proc[p] EXCEPT !.pc = "writing", !.to = auth])
        /\ data' = [data EXCEPT ![auth] = {}]
        /\ UNCHANGED <<auth, backup, sockets, hidden, starts, ended, spoiled>>
     \/ Exit(p)

WriteAuth_Read(p) ==
  /\ At(p, "writing")
  /\ data' = [data EXCEPT ![proc[p].to] = proc[p].original]
  /\ Become(p, [proc[p] EXCEPT !.pc = "time", !.to = None])
  /\ UNCHANGED <<auth, backup, sockets, hidden, starts, ended, spoiled>>

(* The entries are in the stream's buffer until it is closed.              *)
WriteAuth(p) ==
  /\ At(p, "writing")
  /\ data' = [data EXCEPT ![proc[p].to] = proc[p].entries]
  /\ Become(p, [proc[p] EXCEPT !.pc = "time", !.to = None])
  /\ UNCHANGED <<auth, backup, sockets, hidden, starts, ended, spoiled>>

-----------------------------------------------------------------------------

(* A failure is reported and left at that; an unexpected answer fails an   *)
(* assertion, and after an EOF the proxy may go on reading forever.        *)
FetchCurrentServerTime(p) ==
  /\ At(p, "time")
  /\ \/ /\ GoTo(p, IF Option(p).prefetchatoms THEN "connect" ELSE "listen")
        /\ UNCHANGED <<files, sockets, hidden, starts, ended, spoiled>>
     \/ Option(p).systemtimeformat /\ Abort(p)

(* Somebody answers at the path of a display.                              *)
Listening(d) ==
  sockets[d] = "server" \/ \E q \in Proxies : sockets[d] = q /\ At(q, "serving")

(* _fetchInternedAtoms: the connection and its setup.                      *)
ConnectForAtoms(p) ==
  /\ At(p, "connect")
  /\ \/ /\ Option(p).outUnix => Listening(Out[p])
        /\ GoTo(p, "cursor")
        /\ UNCHANGED <<files, sockets, hidden, starts, ended, spoiled>>
     \/ Exit(p)
     \/ Abort(p)

HideCursor(p) ==
  /\ At(p, "cursor")
  /\ GoTo(p, "handler")
  /\ hidden' = [hidden EXCEPT ![p] = TRUE]
  /\ UNCHANGED <<files, sockets, starts, ended, spoiled>>

InstallCursorHandler_Not(p) ==
  /\ At(p, "handler")
  /\ GoTo(p, "fetching")
  /\ UNCHANGED <<files, sockets, hidden, starts, ended, spoiled>>

InstallCursorHandler(p) ==
  /\ At(p, "handler")
  /\ Become(p, [proc[p] EXCEPT !.pc = "fetching", !.handler = "cursor"])
  /\ UNCHANGED <<files, sockets, hidden, starts, ended, spoiled>>

(* The loop over the atoms ends with the server's first error, fails, or   *)
(* meets something else than the reply it expects.                         *)
FetchAtoms(p) ==
  /\ At(p, "fetching")
  /\ \/ /\ GoTo(p, "default")
        /\ hidden' = [hidden EXCEPT ![p] = FALSE]
        /\ UNCHANGED <<files, sockets, starts, ended, spoiled>>
     \/ Exit(p)
     \/ Abort(p)

RestoreDefaultHandlers(p) ==
  /\ At(p, "default")
  /\ Become(p, [proc[p] EXCEPT !.pc = "listen", !.handler = "default"])
  /\ UNCHANGED <<files, sockets, hidden, starts, ended, spoiled>>

-----------------------------------------------------------------------------

RemoveStaleSocket_Not(p) ==
  /\ At(p, "listen")
  /\ GoTo(p, "bind")
  /\ UNCHANGED <<files, sockets, hidden, starts, ended, spoiled>>

(* _listenForClients removes what is at the path, a socket that a run that *)
(* was killed has left or one in use, and throws if it cannot.             *)
RemoveStaleSocket(p) ==
  /\ At(p, "listen")
  /\ \/ /\ Option(p).inUnix => MayRemove(In[p])
        /\ GoTo(p, "bind")
        /\ sockets' = IF Option(p).inUnix THEN Without({In[p]}) ELSE sockets
        /\ UNCHANGED <<files, hidden, starts, ended, spoiled>>
     \/ Option(p).inUnix /\ Abort(p)
     \/ Exit(p)

Bind_ThenRemove(p) ==
  /\ At(p, "bind")
  /\ GoTo(p, "subcommand")
  /\ UNCHANGED <<files, sockets, hidden, starts, ended, spoiled>>

Bound(p) == IF Option(p).inUnix THEN [sockets EXCEPT ![In[p]] = p] ELSE sockets

(* bind() fails if there is something at the path; a listen() that fails   *)
(* leaves what bind() has made.                                            *)
Bind(p) ==
  /\ At(p, "bind")
  /\ \/ /\ Option(p).inUnix => sockets[In[p]] = Nobody
        /\ sockets' = Bound(p)
        /\ UNCHANGED <<auth, backup, hidden, spoiled>>
        /\ \/ GoTo(p, "subcommand") /\ UNCHANGED <<data, starts, ended>>
           \/ End(p, "exit")
     \/ Exit(p)

StartSubcommandClient(p) ==
  /\ At(p, "subcommand")
  /\ \/ /\ GoTo(p, "serving")
        /\ UNCHANGED <<files, sockets, hidden, starts, ended, spoiled>>
     \/ Exit(p)

(* _processClientQueue, to which module ClientQueue is devoted: it returns *)
(* or fails an assertion.                                                  *)
ProcessClientQueue(p) ==
  /\ At(p, "serving")
  /\ \/ /\ GoTo(p, "closing")
        /\ UNCHANGED <<files, sockets, hidden, starts, ended, spoiled>>
     \/ Abort(p)

(* The destructor: std::filesystem::remove throws if it may not remove     *)
(* what is there, and std::terminate raises SIGABRT.                       *)
RemoveInSocket(p) ==
  /\ At(p, "closing")
  /\ \/ /\ Option(p).inUnix => MayRemove(In[p])
        /\ GoTo(p, "closing out")
        /\ sockets' = IF Option(p).inUnix THEN Without({In[p]}) ELSE sockets
        /\ UNCHANGED <<files, hidden, starts, ended, spoiled>>
     \/ Option(p).inUnix /\ ~MayRemove(In[p]) /\ Abort(p)

RemoveOutSocket(p) ==
  /\ At(p, "closing out")
  /\ \/ /\ Option(p).outUnix => MayRemove(Out[p])
        /\ GoTo(p, "restoring")
        /\ sockets' = IF Option(p).outUnix THEN Without({Out[p]}) ELSE sockets
        /\ UNCHANGED <<files, hidden, starts, ended, spoiled>>
     \/ Option(p).outUnix /\ ~MayRemove(Out[p]) /\ Abort(p)

(* std::filesystem::rename throws if there is no backup.                   *)
RestoreAuth(p) ==
  /\ At(p, "restoring")
  /\ \/ /\ ~proc[p].paths
        /\ End(p, "returned")
        /\ UNCHANGED <<auth, backup, sockets, hidden, spoiled>>
     \/ /\ proc[p].paths /\ backup # None
        /\ RestoreBackup
        /\ End(p, "returned")
        /\ UNCHANGED <<sockets, hidden, spoiled>>
     \/ /\ proc[p].paths /\ backup = None
        /\ Abort(p)

Run(p) ==
  \/ ParseDisplayNames(p) \/ ResolveAuthPath(p) \/ ReadAuth(p) \/ BeginCopy(p)
  \/ EndCopy(p) \/ OpenAuth(p) \/ WriteAuth(p) \/ FetchCurrentServerTime(p)
  \/ ConnectForAtoms(p) \/ HideCursor(p) \/ InstallCursorHandler(p) \/ FetchAtoms(p)
  \/ RestoreDefaultHandlers(p) \/ RemoveStaleSocket(p) \/ Bind(p)
  \/ StartSubcommandClient(p) \/ ProcessClientQueue(p) \/ RemoveInSocket(p) \/ RemoveOutSocket(p)
  \/ RestoreAuth(p)

Next == \E p \in Proxies : Start(p) \/ Run(p) \/ Signal(p) \/ Killed(p)

Spec == Init /\ [][Next]_vars

-----------------------------------------------------------------------------

(* The user's own authorization, for the X server, is in .Xauthority or in *)
(* its backup, wherever runs are killed, fail or meet a signal and however *)
(* often the proxy is started again: unless a run of it met a signal or an *)
(* abort when .Xauthority was not copied yet, and its handler put there    *)
(* the incomplete backup, or an earlier one.                               *)
OwnNeverLost ==
  \/ "server" \in data[auth]
  \/ backup # None /\ "server" \in data[backup]
  \/ spoiled

(* A run ended by returning, or by a signal or an abort that met the       *)
(* handler of ProxyX11Server.cpp.                                          *)
CleanedUp(p) ==
  \/ ended[p].how = "returned"
  \/ ended[p].how \in {"signal", "abort"} /\ ended[p].handler = "cleanup"

(* After such a run .Xauthority is as this run had found it, whether it    *)
(* was copied, emptied or written when the run ended and earlier runs have *)
(* been killed or not.  A run that ends before its backup is complete is   *)
(* left out: it restores what there is of it, or an earlier one.           *)
AuthRestored ==
  \A p \in Proxies :
    CleanedUp(p) /\ ended[p].original # {} /\ ended[p].pc \notin Copying
      => data[auth] = ended[p].original

(* After such a run there is no socket of the proxy, whoever else runs and *)
(* whatever runs that were killed have left.                               *)
SocketRemoved ==
  \A p \in Proxies : CleanedUp(p) /\ ended[p].settings.inUnix => sockets[In[p]] # p

(* The socket that a killed run left never keeps the next one from         *)
(* listening: a proxy that calls bind finds nothing at its path, unless    *)
(* another proxy with the same display has come to it in between.          *)
PathIsFree ==
  \A p \in Proxies :
    At(p, "bind") /\ Option(p).inUnix =>
      \/ sockets[In[p]] = Nobody
      \/ \E q \in Proxies \ {p} : In[q] = In[p] /\ sockets[In[p]] = q

(* A run of this proxy has ended.                                          *)
HasEnded(q) == starts[q] > 1 \/ (starts[q] = 1 /\ At(q, "off"))

(* Those that may have removed the socket of p: another proxy with its     *)
(* display, from the moment it listens, and one that is connected through  *)
(* p, once it is ending.                                                   *)
Rivals(p) ==
  {q \in Proxies \ {p} :
     \/ /\ In[q] = In[p]
        /\ \/ HasEnded(q)
           \/ proc[q].pc \in {"bind", "subcommand", "serving", "closing",
                               "closing out", "restoring"}
     \/ Out[q] = In[p] /\ (HasEnded(q) \/ At(q, "restoring"))}

(* A proxy that serves can be reached at its path, whatever it does and    *)
(* whatever is left of earlier runs, and while proxies for other displays  *)
(* start, serve and end and others are connected through it: until another *)
(* proxy with its display listens or ends, or one connected through it     *)
(* ends.  These do remove a socket that is in use.                         *)
Reachable ==
  \A p \in Proxies :
    At(p, "serving") /\ Option(p).inUnix => sockets[In[p]] = p \/ Rivals(p) # {}

(* A proxy that serves has its own authorization in .Xauthority, so that   *)
(* its clients can connect, also after a run that was killed at any point. *)
ClientsAuthorized ==
  \A p \in Proxies : At(p, "serving") /\ Option(p).copyauth => In[p] \in data[auth]

(* A signal or a failed assertion while atoms are fetched never leaves the *)
(* cursor hidden.  The handler is installed after it was hidden, and a     *)
(* read or write error exits without showing it: both are left out here.   *)
CursorShown ==
  \A p \in Proxies :
    hidden[p] => \/ proc[p].pc \in {"handler", "fetching"}
                 \/ ended[p].pc = "handler"
                 \/ ended[p].how \in {"exit", "killed"}
=============================================================================
