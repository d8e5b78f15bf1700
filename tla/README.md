# A TLA+ model of xtracepp

xtracepp sits between X11 clients and an X server. It accepts clients on its
own display, opens one connection to the real server for each of them, relays
the bytes of both directions, and writes one log line per protocol message.
This directory holds the TLA+ modules that model the program, the TLC
configurations that check them, and the theorems that TLAPS proves about them.

Paths below are relative to the repository; `src/SocketBuffer.cpp` is the file
in its source directory.

## Inventory

| Component | Files | State | Operations | Hard behaviour | What makes it correct |
|-|-|-|-|-|-|
| Socket buffer | `src/SocketBuffer.cpp`, `.hpp` | storage, bytes read, parsed and written, size of the next message | `read`, `write`, `setMessageSize`, `markMessageParsed`, `clear`, observers | `size_t` wrap-around, resizing, stale storage | no byte lost, repeated or altered; storage never exceeded |
| Framing | `src/X11ProtocolParser.cpp` (`logClientMessages`, `logServerMessages`) | buffer, connection status | find a message's size in its header, wait for the rest, parse, mark | messages and headers split over reads | the logged messages are the messages sent |
| Relaying | `src/ProxyX11Server.cpp` (`_updatePollFlags`, `_processPolledSockets`) | poll events of two sockets | read, log, write | backpressure, EOF with data buffered, closed peers | each direction is a pipe; nothing is stuck |
| Connection object | `src/Connection.cpp`, `.hpp` | sequence number, open requests, extension toggles, status | register, look up and forget a request | 16-bit wrap-around | a reply is parsed as the reply of its request |
| Event loop | `src/ProxyX11Server.cpp` | connections, poll table, index by descriptor | poll, serve all, close some, accept one | descriptor reuse, blocking sockets, signals | table consistent, no leak, closed connections go |
| Request tracking, atoms, extensions | `src/X11ProtocolParser.cpp` | stashed strings, interned atoms, active extensions | stash, unstash, enable an extension, hide one | replies out of step, errors instead of replies, stale views | atoms and opcodes are those the server uses |
| Lifecycle | `src/ProxyX11Server.cpp` | child flag, paths to clean up, `.Xauthority` and its backup, Unix sockets | copy the authentication, start, fork, handle signals, exit | signals at any moment, kill and restart, two proxies at once | nothing of the user's is lost, files restored, exit status that of the child |
| Prequeue clients | `src/ProxyX11Server_prequeue_clients.cpp` | a private connection | set up, fetch the time, fetch atoms | events among the replies, EOF | they end, and leave the process as it was |
| Message parsers | `src/X11ProtocolParser__parse*.cpp`, `src/include/protocol/` | byte order, status and extension of the connection | walk the fields of one message | paddings, counts, optional fields, byte orders | the fields add up to the declared size, nothing is left out or read behind it |
| Settings, display names, formatting | `src/Settings.cpp`, `src/DisplayInfo.cpp`, ... | settings | parse arguments, resolve names, format values | assertions about values in the wrong byte order | (only these assertions are modelled) |

How they interact: the loop polls the sockets of all connections and calls, for
each, the buffer's `read` and then the parser's log function, or the buffer's
`write`. The parser works on the buffer in place and moves only its marks. The
buffer's observers (`readReady`, `writeReady`) decide the events the next poll
asks for. Signals reach the loop through two atomic variables.

`PROJECT.json` lists every component with its status, and the hazards with the
properties that cover them.

## Modules

| Module | Models |
|-|-|
| `SocketBuffer` | class `SocketBuffer`, as operators on a record |
| `Framing` | how both log functions find the end of a message |
| `Relay` | one connection: its two buffers, the passes of the loop over it, and its two peers |
| `Pipe` | the abstract specification of one direction of a connection |
| `MCRelay` | the peers' scripts for model checking `Relay` |
| `SocketBufferProofs` | lemmas about the operators of `SocketBuffer` |
| `RelayProofs` | the inductive invariant of `Relay` and its theorems |
| `RelayRefinement` | that each direction of `Relay` implements `Pipe` |
| `FramingProofs` | that framed arrival is enough for the parser: every message is found, logged and sent on |
| `ClientQueue` | the event loop: listener, connections, poll table, descriptors, subcommand |
| `MCClientQueue` | the symmetry of clients, for model checking `ClientQueue` |
| `ClientQueueProofs` | the invariants of `ClientQueue` and its theorems |
| `RequestTracking` | what the parser keeps from a request to its answer: numbers, registry, stashed names, atoms, extensions |
| `MCRequestTracking` | clients, names and bounds for model checking it |
| `RequestTrackingProofs` | its invariants and theorems |
| `Lifecycle` | the process from constructor to destructor: `.Xauthority` and its backup, Unix sockets, signal handlers, ends and restarts |
| `MCLifecycle` | proxies, inodes and settings for model checking it |
| `LifecycleProofs` | its invariants and theorems |
| `WireFormat` | the sizes of the protocol's types, padding and alignment |
| `RequestEncodings`, `ReplyEncodings`, `EventEncodings` | what messages look like: fixed parts, and the lists and strings that follow |
| `MessageWalk` | the helpers of all parse functions: the fixed part, lists, strings, assertions |
| `RequestParsers`, `ReplyParsers` | one operator per parse function: how it walks over the bytes of a message |
| `SetupMessages` | the setup messages, both ways |
| `MessageParsing` | the parser of one connection over its messages |
| `MCMessageParsing` | the lengths for model checking it |
| `MessageParsingProofs` | that every parse function walks through what its kind of message looks like; the inductive invariant of `MessageParsing` and its theorems |

`Relay` looks at one connection through a magnifying glass, `ClientQueue` at all of
them from a distance. What `Relay` follows cell by cell (what is in a buffer, how a
message is found) is in `ClientQueue` one bit per direction, and what is fixed in
`Relay` (descriptors, the table, who else is served) is the subject of `ClientQueue`.

`RequestTracking` and `MessageParsing` are about what happens between "a message is complete" and "it is
marked as parsed", which is one step, `ParseMessage`, in `Relay`. `MessageParsing` asks about a single message whether its parse
function gets to the end of it, `RequestTracking` about the memory that one message leaves for another.

`Lifecycle` is about what comes before and after the loop, and about what a run leaves for the next one: in it the whole of
`ClientQueue` is one step, `ProcessClientQueue`, which returns or fails an assertion.

### Cells

A cell stands for a group of consecutive bytes that the code treats alike. The
header of a request is three cells (opcodes `[0-1]`, length `[2-3]`, big length
`[4-7]`); that of an Initiation three (`[0-5]`, name length `[6-7]`, the rest with
the data length `[8-11]`); that of a setup answer two (`[0-5]`, length `[6-7]`);
a server message is three (prefix and sequence `[0-3]`, extra length `[4-7]`, the
rest up to byte 31). Further cells are payload. Lengths in headers count cells.
What the properties tell apart survives: which header test is satisfied by
which prefix of a message, what is read of the header after it, and what lies in
the storage when it is read. A split in the middle of a cell behaves like one
before it, except that a partly filled cell counts for the header tests; all
these tests compare with a sum of whole cells.

### State and actions of `Relay`

`buf[d]` is the `SocketBuffer` of the data that come from side `d`, `revents` what
`poll` returned, `side` the half of `_processPolledSockets` that runs, `off` the
parser's `data` pointer. `Poll` is `_updatePollFlags` with its assertions and the
`poll` call; `ServeRead`, `ServeWrite` and `ServeIdle` are the three branches of a
half pass; `ParseHeader`, `ParseMessage` and `ParseLeave` the iterations of a log
function's loop. `script`, `avail`, `closed`, `reset` and `willing` are the environment: what a
peer sends, how much of it is in the socket, whether it closed, whether its end was a reset, whether its socket
takes data. `taken`, `out` and `logged` record what happened.

A failed assertion ends the process (the build does not define `NDEBUG`), as do
SIGPIPE and undefined behaviour; `cause` says which. A connection that ends is not
followed further: `CloseConnection("eof")` is the end after an EOF, `CloseConnection("reset")` the one after an
error of `recv` or `send` or one that `poll` reported. `ParseMessage` succeeds or
fails nondeterministically when what is in the storage is not what the header
declared (`WellFormed`), since what a parser does with it depends on the message.
A client sends its Initiation and waits for the answer, as the protocol demands.

`poll` returns `POLLHUP` and `POLLERR` without being asked (`Conditions`, `Returned`). `_socketPollError` looks at the second and
not at the first, so that a side that is neither read nor written (`ServeIdle`) closes the connection if it was reset, with
whatever the buffers hold, and is passed over if it hung up. A peer that closes while data for it have not been read resets its connection (`PeerReset`).
`POLLPRI` is not modelled: nobody sends urgent data.

`TypeOK` is `Typed` with `Counted` for both buffers: the order of a buffer's counters, by which none of the
differences of `size_t` in its observers wraps around.

### How bytes arrive

`Chunks` says how the kernel splits the streams. "free": at any cell. "leading": a
partial message is never received together with a complete one before it.
"framed": in addition at least the first 8 bytes of a server message arrive together.
The last two are assumptions about the environment, not about the code. The code
depends on them: the run `straddle` and [Findings](#findings) show what
happens without, and `FramingProofs` that "framed" is enough.

### State and actions of `ClientQueue`

`conns` is `_connections` (a connection is named by its client; a client has one at a
time), `polled` is `_pfds` with `_pfds_i_by_fd`, `todo` and `at` are the place in the loop over the
connections, `toClose` is `conns_to_close`. `sock` is the kernel's table: a descriptor is
free, the listener, or a socket on which there is nothing to read ("quiet"), data,
data and then EOF ("last"), or EOF ("closed"). `full` are the sockets that take no more until
their peer reads. A buffer is in `held` when complete messages in it wait for the other side, and in `cut` when part of another message
is behind them: such a side is read on, before what it holds has gone.

The actions follow the code in its order. `Fork`, `StoreChildRunning` and `AddListener` are the
start; `LoopTest` is the loop's condition with `_updatePollFlags`; `EnterPoll` is the step
into `poll`, from which on a signal interrupts; `PollReturns` fills in the events, and may come for a hang-up alone, which nobody looks at. `Pick`
takes the connections in any order, since the map is a hash table. Each side is read
(`ReadMessages`, whole messages or not yet, with part of the next one or not; `ReadEOF`; `ReadMiscounted`), written (`Write`, which may fail or block:
`SendReturns`, `SendFails`), given up for an error condition (`PollError`) or skipped. `CloseConnections` and `Accept` end the pass.
`HandleSIGCHLD` may come between any two steps. `poll` and a blocking `send` are interrupted, for the
handler is installed without `SA_RESTART`: a send with nothing sent fails and the connection is
closed, a send with something sent returns a short count.

`ReadMiscounted` is what `Relay` shows of a partial message behind a complete one (run `straddle`): `recv` is asked for zero bytes, and its zero is taken for an EOF
although both sides are alive, or the difference wraps around and an assertion ends the process (`cause = "capacity"`).
The branch of the code that closes a connection for a parse error (`src/ProxyX11Server.cpp:573-581` and `630-635`) cannot be reached: the log functions return one
only for a connection whose status is `AUTHENTICATION` (`src/X11ProtocolParser.cpp:337-342`, `449-454`), and the
answer that sets this status fails the assertion after `_logConnectionSetup` first (line 516). An Initiation with an invalid byte order is an assertion as well (line 325).

The lowest free descriptor is given out, as POSIX demands, so a descriptor that is closed is
reused by the next client. `accept` fails when none is free, and the connection to the server
may fail for that or for any other reason.

What the last `poll` returned is cleared in `FlagsUpdated`, before it is overwritten: it is not looked
at in between. A read error is the same as an EOF, and `Write` may find a peer gone by SIGPIPE, by an error, or not at all. That a message is malformed, or that a
parser's assertion fails, is left to `Relay` and `MessageParsing`. `POLLPRI` is not modelled.

### State and actions of `RequestTracking`

`sequence` and `registry` are the members of `Connection`, one entry per number (`emplace` leaves an entry that exists).
`stash` is `_stashed_strings`: an entry is the slot of the client buffer that the `string_view` points into, `Nowhere` without
an entry, `Dangling` when the storage was resized. `storage` has what the slots hold, which stays there when the buffer is cleared. `interned` and
`majors` are the tables of the parser, shared by the connections; `majors` has the name under which an opcode was enabled.
`LogRequest` is the receipt of one request and `_logRequest` on it: the parser works on the buffer of one
connection at a time, so that `logging` keeps the others out until `EndOfMessages`. `SendRequests` empties the buffer.
The server takes requests in order and answers each with nothing, an error, a reply or a series of replies; the
actions named `Log...Reply` are `_logReply` with the parse function that the lookup finds, and `LookupFails` is what
happens if that is another one's. `_logError` forgets the request and not its string.

Requests are all of one size, so that a batch fills the slots from the first on, and names are equally long, so that a later one covers
an earlier one. That is the case in which the stale view shows a name; otherwise it shows pieces of one (`Bytes`).
The number of sequence numbers, 65536 in the code, is `SeqMod`.

A client asks for `BigReqEnable` only if it was told of the extension, and sends big requests only after the reply. Nothing else makes clients wait: any number of requests about names
may be open, on several connections. `Sent` says which kinds a client sends.

When a batch has been sent the next one is received into the same storage, and the views of the earlier one show what is there now. That the answer comes later than that is usual
for a client that does not wait, so the model has it, and the replies act on what the view shows (`Shows`). `origin` is a history variable that tells the properties which names are still where they were
received: in each slot the number of the request whose name it holds, `Gone` without one. A request for which the storage grows moves all of them (`Moved`).

The reply to a QueryExtension is changed in the buffer, so the client does not learn of what the settings deny. A reply to ListExtensions is passed on as it is, with all names.

### State and actions of `Lifecycle`

`auth` and `backup` are the inodes that `.Xauthority` and `.Xauthority.bup` name, `data` what is in each inode: the set of displays
it has an authorization for. `Displays` are the X server's and those that proxies serve. `In[p]` and `Out[p]` are the display a proxy serves and the one it connects to, so that two proxies
may serve one display, and one may be connected through another. Inodes are needed because a proxy holds files open by inode
while another one renames the names. `sockets` has whose Unix socket is at the path of each display (the server's, a proxy's, or `Nobody`'s), `hidden` is the cursor of the terminal. They outlive
a process; `proc` does not: where it is, its settings, the installed handler, whether `xauth_path` and `xauth_bup_path` are set, what was
read and is to be written, and what is open. `ended` remembers how the last run ended.

The actions follow the constructor, `run` and the destructor statement by statement where something outside the process changes.
The copy is two steps, `BeginCopy` and `EndCopy`, since `std::filesystem::copy` empties the backup before it fills it. `WriteAuth` is one: the entries stay in the
stream's buffer until `close`. A step that may call `::exit` has `Exit` as an alternative, one with an assertion or an uncaught exception `Abort`,
which is SIGABRT and so meets the installed handler. `HandleTerminatingSignal` has three cases: that of `ProxyX11Server.cpp`, that of the prequeue clients,
and none, which is what the prefetching of atoms leaves behind. `Signal` and `Killed` may come between any two steps.

The constructor, the destructor and the handler remove what is at a path without a look at whose it is (`RemoveStaleSocket`, `RemoveInSocket`, `RemoveOutSocket`, `Unlinked`). `std::filesystem::remove`
throws where it may not, which is an `Abort`. `Removable` says whether the user may remove the X server's socket; usually root owns it.

Signals and failures come anywhere, also while `.Xauthority` is read and copied. The handler then renames what there is under the backup's name to `.Xauthority`, an incomplete copy or an earlier run's;
the history variable `spoiled` records it.
A user's `.Xauthority` is well-formed. One without an entry for the display that the proxy connects to makes it exit (`ReadAuth`).

### Messages

The encodings and the parsers are two translations of different sources. The encodings come from the structures in
`src/include/protocol/`: `FixedSize` of a request's `Encoding`, and what its documented suffix adds. They give the size that the
header of a message declares. The parsers come from the `_parse...` functions, in the order of their statements: each
operator takes a walk, `[at, ok, reach, logged]`, from the fixed part over lists and strings to the end. `at` is `bytes_parsed`, `ok`
tells whether the assertions held, `reach` how far any byte was read, `logged` how many members of lists and characters came into the log.

A message is its kind with the lengths of its lists (`n`, `k`) and a flag (`opt`) for whatever the kind has as an
alternative. Byte order matters where a count or a length is used without being ordered (`Swap16` and `Swap32` are
what such a use makes of it), and where a value is formatted: `_formatVariable` asserts that the unused bits of ids, atoms and masks are zero, and looks at them before the value is ordered. `stray` says that
a message has a value, in a field that is formatted so, whose bytes in the other order have a bit there. Which kinds have such a field is said by `IdsFit`, `ReplyIdsFit`, `SetupIdsFit` and `EventIdsFit`; errors have none.
`Formatted` is the assertion on top of the walk. Other values of single fields are left out. Counts have the width of the variables they go through: 16 bits in the loop of `_parseLISTof`.

Events and errors have the codes of the core protocol, or one that no parser has registered, as those of extensions have. `_event_codes.at()` throws for the latter, and nothing catches it.

`MessageParsing` has a connection's part in it: the byte order is what the Initiation said, the first answer opens the connection,
BIG-REQUESTS is enabled by the reply to `BigReqEnable`. `LogMessage` walks and compares, `MarkMessageParsed` goes on.

## Runs

| Run | Question | States |
|-|-|-|
| `live` | Does every message that arrived get through, with a fair loop? | 35 000 |
| `close` | Framed arrival, peers that close or reset at any time: does an assertion fail, does the log match the messages, is the buffer bounded, is an EOF real, is anything lost or altered? | 3 030 000 |
| `free` | Any arrival, any answer to the setup: is each direction a pipe, do the loop's assertions hold? | 1 440 000 |
| `table` | Two clients that come and go, five descriptors: table, leaks, blocking calls, reasons to close | 2 680 000 |
| `child` | A subcommand that may end at any moment: does the process return the right status? Does a connection with a closed side go? | 168 000 |
| `served` | Is a waiting client accepted, with another connection going on? | 54 000 |
| `messages` | Does each parse function get to the end of every message that peers may send, with everything logged and nothing read behind it? | 33 000 |
| `tracking` | Clients that do not wait: does each answer find its request and its name, are atoms and extensions those of the server, are big requests understood? | 4 040 000 |
| `crashes` | One proxy, any settings, started three times, ending anywhere, by a signal at any step: is the user's authorization lost, are files and sockets left as they were found, can the next run listen and serve? | 109 000 |
| `side_by_side` | Three proxies with one `.Xauthority`, two of them with one display and one connected through them, signals and a full disk during the copying: does the file always exist, who can make a serving proxy unreachable? | 2 750 000 |
| `straddle`, `lost_wakeup` | One counterexample each, listed as findings in `PROJECT.json` | |

Bounds of the `Relay` runs. A block is 6 cells and the longest message 8, so that a message exceeds
the block, a buffer grows, and a block holds a complete message and part of the
next. Scripts are a setup and two messages in each direction: enough for a
complete, a partial and a stale message in one buffer. `SIZE_MAX` is 1023, larger
than any sum of sizes and small enough to make wrap-around visible; `CELL_MAX` bounds the
length fields. Deadlock is not checked: peers may stop sending, and a connection ends.

Bounds of the `ClientQueue` runs. Two clients with their two sides and the listener need
five descriptors; with one client, three. Two connections are enough for one
to be closed and its descriptors reused while the other stays, in both orders of serving and with
the closed one below or above the other in the table. `MaxStressed` bounds how many sockets
have something to read or take nothing at a time: the two sides of one connection, or one of each of two.
Deadlock is not checked: the process exits, and without peers it waits forever.

Bounds of `messages`. Every kind of message is in it, with lists and strings of 0 to 5 members, which has every padding and both
parities, and of 254 to 257 and 65535 to 65537, where 8- and 16-bit counts wrap. `Widths` are lengths within lists
and factors of products. An acceptance has no screen, one, or two with depths of up to 2000 visuals. What a kind of message cannot have is left out by `CountsFit` and `LengthFits`:
a count must fit in its field, and the length in 16 bits or, for a big request, 32.

Bounds of `tracking`. There are three sequence numbers, and one client sends up to four requests of all kinds, so that a number is used again while
its first request may be open; the other client sends one about a name, enough to enable an extension for the first or to intern the same atom.
Two slots are enough for a request to lie behind another, and for a batch to overwrite all of the one before, or half of it. Deadlock is not checked: clients stop at the bound.

Bounds of the `Lifecycle` runs. Two files have names and a proxy holds up to two more open, so in `crashes` four inodes always leave one for a new file: each
`BeginCopy` without a backup finds one. In `side_by_side` they may run out, and a copy can then only fail, as on a full disk. Three starts are a run that is killed, one that meets what it left, and one after that. Inodes are interchangeable,
and no run has a temporal property, so `SYMMETRY` is sound. `side_by_side` starts each proxy once: it is about several at a time. Deadlock is not checked: a proxy need not be started again.

Fairness of `Relay` (`FairSpec`). The loop keeps running (`WF` of `Proxy`): `_processClientQueue`
has no other exit while a connection exists. A peer whose socket is full reads again
(`WF` of `PeerResumes`); without it nothing can be promised, since `send` blocks. Nothing makes
a peer send or close.

Fairness of `ClientQueue` (`FairSpec`). The loop runs (`WF` of `Loop`), a pending signal is delivered (`WF` of `HandleSIGCHLD`), and a peer whose
socket is full reads in the end (`WF` of `PeerReads`). A side that is read again and again completes a message with nothing behind it, or meets the miscount
(`SF` of `ReadMessages(TRUE, FALSE) \/ ReadMiscounted`, for each descriptor): messages are finite, and so is the storage behind one that is held. Nothing makes a peer connect, send, close or end, and nothing is assumed of
the order in which connections are served.

Every property has a mutant in `PROJECT.json`: a plausible bug in one definition for
which TLC finds the property violated. The mutated forms (`ReadReady_WhenEmpty`
and the like) stand before the definitions they replace.

## Findings

- `straddle`: when one `recv` returns a complete message and part of the next, the
  next read is asked for `_next_message_sz - size()` bytes, where `size()` still
  includes the complete message. The difference wraps around and the assertion in
  `SocketBuffer::read` (line 26) fails. The same difference can be zero: `recv` of zero
  bytes returns zero, and the connection is closed as if the peer had closed it (check
  `EofIsReal` with `Chunks = "free"` to see it). `ClientQueue` has both as `ReadMiscounted`.
- `lost_wakeup`: SIGCHLD between the loop's test and `poll` is lost, and the process waits on
  although it has nothing left to wait for.

More appear when an assumption is dropped from a run that passes:

- `close` with `Chunks = "leading"` and `Scripts <- MCOneScript`: the header test for server messages asks for 4 bytes, but a reply's length is in bytes 4 to 7
  (`src/X11ProtocolParser.cpp:457` and `474`). `LogMatchesMessages` fails; with the run's own scripts, `NothingLostOnClose` does.
- `crashes` with `Proxies <- MCThree`, `Settings <- MCUnix` and one start each: proxies with one `.Xauthority` use one name for the backup, so the user's file is not what is restored in the end, and
  may be lost altogether (`AuthRestored`, `OwnNeverLost`).

Some disagreements have no run of their own. They are outcomes of the models:

- A write to a peer that has closed ends the process (`cause = "sigpipe"` in `Relay` and `ClientQueue`).
- A side that was reset while its messages wait in the buffer takes them with it: `poll` reports `POLLERR`, and the connection is closed although the other side would still take them (`ServeIdle`;
  `NothingLostOnClose` leaves such a side out).
- A client that does not wait for replies about names may have them overwritten by its next batch, or moved by a resize: an atom is then interned under another name, a denied extension told or an allowed one
  denied (`Shows` in `RequestTracking`; `AtomsMirrored` and `DeniedHidden` leave out the replies that come after that). libX11 waits for single atoms and extensions, and not for several at a time.
- A reply to ListExtensions tells the client all names, the denied ones among them.
- A signal during the copy of `.Xauthority`, or a copy that fails on a full disk, makes the handler rename an incomplete or an earlier backup over
  the intact file (`spoiled` in `Lifecycle`; `OwnNeverLost` says that the user's authorization goes in no other way).
- A proxy removes the socket of another one in use: one that serves the same display when it starts to listen and when it ends, one that is connected through it when that ends (`Rivals`, which `Reachable` shows to be all).
- A subcommand that ends before `child_running` is stored fails the handler's assertion (`cause = "handler"`).
- SIGCHLD during a blocking send leaves a short count, which fails the assertion of `SocketBuffer::write` (`cause = "short"`).
- The destructor and the handler remove the X server's own socket as well as the proxy's, if the user may (`RemoveOutSocket` and `Unlinked` in `Lifecycle`).
- `_fetchInternedAtoms` sets the terminating signals to their default action instead of the handler installed before, so that after it a signal leaves the socket and
  `.Xauthority` as they are (`RestoreDefaultHandlers`; `CleanedUp` leaves this out). The comment in `src/ProxyX11Server.cpp:185` promises otherwise for the socket.
- After a run that was killed, what it wrote is the next run's original: the entry for the proxy's display stays for good (`AuthRestored` is about what a run found).
- An `::exit` on an error path restores nothing: neither the destructor nor the handler runs (`Exit` in `Lifecycle`).
- Between TCP displays no handler is installed, so a signal leaves `.Xauthority` modified (`ParseDisplayNames`).
- Where the X server's socket may not be removed, the destructor throws before it restores `.Xauthority`. The handler makes up for it, unless atoms were fetched (`RemoveOutSocket`).
- A signal between the hiding of the cursor and the installation of the handler, or a read error after it, leaves the cursor hidden (`CursorShown` leaves these two out).
- A setup that is refused, or that asks for authentication, fails the assertion after `_logConnectionSetup` (`cause = "setup"` in `Relay`, `NotOpened`
  in `MessageParsing`).

And the messages for which parsing stops the process are the formula `Defect` of `MessageParsing`, which `StopsOnlyForDefects` shows to be all of them:

- `WrongLength`: a PolyArc, whose size in units is taken for one in bytes (`src/X11ProtocolParser__parseRequest.cpp:4080`), and a PolyFillRectangle
  with the header of a big request, whose count is one too large (line 4228).
- `CountCut`: lists of 65536 members and more.
- `Unswapped`: ListProperties, GetMotionEvents and GetPointerMapping for a client of the other byte order
  (`src/X11ProtocolParser__parseReply.cpp:525`, `813`, `2591`).
- `NotExpected`: events and errors of codes that nobody has registered, a SendEvent of such an event, and a second BigReqEnable.
- `NotOpened`, as above.
- `Disordered`: a message of a client of the other byte order with an id, an atom or a mask whose last byte has bits that its format has as zeros in the first (`src/X11ProtocolParser__formatVariable.cpp:24`, `34`, `43`,
  `123`, `135`, `149`, `199`, `220`; `src/include/X11ProtocolParser.hpp:589`). These are setup messages, requests, replies and events. Nearly every Acceptance is one, by its visual ids.

`LoggedWhole` and `ReadsWithinMessage` state in the same way what is not logged (`LostItems`) and where one byte behind a message is read (PolyText8 and PolyText16).

## Proofs

The theorems about `Relay` hold for every block size, every range of cells, every set of
scripts and every arrival; the assumptions are `BlockAssumption`,
`SizeMaxAssumption`, `CellMaxAssumption`, `ScriptsAssumption`, `FramedAssumption` and the two on the mode
constants, in the modules that declare the constants.

`RelayProofs` proves `TypeCorrect` (`Spec => []TypeOK`), `RelayIsFaithful`
(`SentAsReceived`), `WritesAlwaysDrain` (`WritesDrain`) and `PollAssertionsHold`
(`PollAssertions`). None of these formulas is inductive alone. The inductive invariant
`IInv` adds to the types:

- `DirOK`, for each direction: the cells received, sent and stored agree (`SentAsReceived`), the
  buffer's counters agree with each other and with the storage (`Counted`), nothing
  remains written, and a parser that is running is at the end of the parsed cells;
- `SettledSides`: a buffer that is not being parsed wants to read or has something to
  write. It is what the parser's loop leaves behind: either everything is parsed
  or the rest is an incomplete message;
- `FlagsFit`: what `poll` returned allows a write only from a buffer that does not want
  to read, so a write finds everything parsed and drains the buffer.

The third is why the second survives a write, and the second why the first does. The lemmas
of `SocketBufferProofs` say what a read, a mark and a write do to a buffer, for any
requested size, wrapped around or not.

`RelayRefinement` proves `RelayImplementsPipes` (`Spec => RelaysLikePipes`): a read maps
to `Receive`, a parsed message to `Log`, a write to `Deliver`, everything else
to a stutter.

`FramingProofs` proves what the run `close` checks, for every script, every block size and every value of the lengths: `NoFaults` (`NoFault`), `LogIsTrue`
(`LogMatchesMessages`), `EofsAreReal` (`EofIsReal`), `NothingIsLost` (`NothingLostOnClose`) and the action property
`ReadsWaitForWrites` (`Backpressure`). All are of the form `Chunks = "framed" /\ Spec => ...`. The assumption is `FramedAssumption`, which asks
something only in that mode: a block holds any header, and what a peer sends is a run of messages (`WholeMessages`), a valid setup first, each header saying
where its message ends. `ProtocolSize` states what the protocol says, not what the code computes; that `Declared` agrees with it is proved
(`SizeIsProtocols`). The `live` and `close` runs evaluate it on their scripts. Nothing is assumed of the order or the pace in
which the peers send, except what `MayArrive` says. The inductive invariant is `FInv`, on top of `IInv`:

- `DirFramed`, for each direction: what was sent on and what was logged end where a message does, the log has one entry for each of these messages (`Marked`),
  what has arrived is what `MayArrive` allows (`Arrives`), the buffer holds whole messages or the beginning of one (`Holds`), and a size
  that is set is that of the next message (`SizeRight`).
- `Waiting`: outside the parser all of a buffer is logged, or it begins with an incomplete message and nothing logged waits before that. This makes the code's tests right, which take
  the unsent size of the whole buffer for that of the message at hand, and it is what `straddle` breaks: there a partial message follows a logged one.
- `SetupFirst`: the status is that of the message at the mark, since neither side goes on before the setup has passed.
- `FlagsTrue`: what `poll` found is true until the side is served, so a read takes at least one cell or meets a closed side.
- `GoodEnds`: the causes that are left, that a reset is real, and that a side whose EOF ends the connection has no message waiting. `NothingLostOnClose` follows for every side that was not reset.

The lemma `HeaderAgrees` carries a header from the sender's script to the buffer: it reads the same in both, provided that all the cells that are read have arrived. `HeaderSeen` is where
a reply's header needs its first two cells together, which "leading" does not grant.

`ClientQueueProofs` proves, for every finite set of clients and of descriptors, with and without a
subcommand, the safety properties the runs `table` and `child` check: `TypesHold`,
`TableStaysConsistent`, `NoDescriptorLeaks`, `RecvNeverBlocks`, `ExitStatusIsChilds`, and the action
property `ConnectionsEndForTheirOwnReasons`. The assumptions are `ClientsAssumption`, `FdsAssumption`
(descriptors are naturals, there are finitely many and at least one), `OptionsAssumption` and `BoundAssumption`.
The bound `MaxStressed` may be anything, so the theorems are not about small instances of it.

- `LayoutInv` is the inductive invariant behind the first three, which need each other: the table may
  grow only because its entries are among the open descriptors, an accepted descriptor is not in the
  table because it was free, and closing frees exactly the closed connections' descriptors because no
  two sides share one. It adds that the listener's descriptor is nobody else's, that a waiting client has no connection,
  and that the table is empty before the loop. The lemmas about ranks (`RankInjective`, `RankOnto`) say that the zip
  at the end of `_closeConnections` is a bijection between the descriptors that stay and the new places.
- `PassInv` says that what `poll` found is still true of the sides that have not been served in this pass:
  only a side's own turn takes its data away, and it has one turn only.
- `ChildInv` relates the flag, the pending signal and the stored status: SIGCHLD is pending only while the flag is set
  (or has not been set yet), so a cleared flag means the status is there.
- `Reasons` says that a connection to be closed has a closed side, a side with part of a message behind another, or was interrupted by the signal.

`RequestTrackingProofs` proves all properties of the run `tracking`, for any set of connections, any number of sequence numbers, of slots and
of requests, and clients that do not wait: the invariants `TypesHold`, `AnswersFindTheirRequests`, `FaultsNeedAWrap` and `BigRequestsAreUnderstood`, and the action properties `AtomsAreMirrored` and
`DeniedStayHidden`. The assumptions are `TrackingAssumption` and `SentAssumption`.

- `Numbered`: the proxy's number is the server's count, modulo the number of sequence numbers, and what waits has consecutive numbers. It needs
  that counting with a remainder is the remainder of counting (`NextRemainder`).
- `Registered`: what waits is registered and its name stashed, and the numbers that have not been used yet are free. The second half is what makes it inductive, together with the first
  `SeqMod` numbers being different (`DifferentNumbers`).
- `Chained`: being told of the extension means that its opcode is enabled; BigReqEnable waits only for those who were told; so its reply is recognised.
- `NamesKept`: as long as no assertion has failed, each request about a name that waits has a view, no other one that waits has its number, and if its bytes are still where they were received (`origin`), its view points there
  and the place holds its name. So the reply finds it, also after a wrap. The second part is what an assertion grants: a request that gets the number of a stashed string fails.

`LifecycleProofs` proves every invariant of the runs `crashes` and `side_by_side`. The assumptions are `FilesAssumption`, `ProxiesAssumption`, `DisplaysAssumption`, `SettingsAssumption` and
`LifecycleAssumption`. For any number of proxies, any displays that they serve and connect to, any settings and restarts: `TypesHold`, `SocketsAreRemoved`, `PathsAreFree`, `ServingIsReachable` and `CursorsAreShown`. For one proxy at a time
(`Alone`): `OwnIsNeverLost`, `AuthIsRestored` and `ClientsCanConnect`. The condition is needed, as [Findings](#findings) shows.

- `TInv` adds to the types that what a proxy copies or writes is open (`Opened`).
- `SInv`: a proxy's socket is at the path of its own display only (`Owned`). From `bind` to the destructor it is there, unless a rival has removed it, and after a run that cleaned up it is not (`SocketAt`). A step of one proxy removes another's socket only
  where it has become a rival of it, and a rival stays one (`SocketsBy`, `RivalsKept`). `CursorAt` relates the cursor to the place and the handler.
- `FInv`: the backup is what the run has read from the moment it is complete, `.Xauthority` is still that until it is emptied, and it is that with the proxy's own entry from the
  moment it is written. So there is always one of the two with the user's authorization, and restoring at any of these places restores what was read. While `.Xauthority` is read and copied the backup may be incomplete or that of a
  killed run; if a handler restores it then, that is `spoiled`. What follows still holds, since a run goes on only if it finds the authorization in the file it reads.

`MessageParsingProofs` proves every invariant of the run `messages` for lists and strings of all lengths, where TLC has those at the boundaries: `ParsingTypes` (`TypeOK`),
`StopsForDefects` (`StopsOnlyForDefects`), `LoggedToTheEnd` (`LoggedWhole`) and `ReadsWithin` (`ReadsWithinMessage`). The assumptions are
`CountsAssumption` (counts and widths are naturals) and `KindsAssumption`: requests and replies are of kinds that the protocol has, and a screen of an Acceptance is a sequence
of depths, each with a number of visuals. Which counts a message can have is not assumed; `CountsFit`, `ReplyCountsFit` and `SetupFits` say it in the model, field by field.

- A walk is `Sound` up to a place if it is there, no assertion has failed and no byte behind the place was read. Each helper of `MessageWalk` keeps a walk sound if
  the message has room for what it parses: the structure, the list or the string, and its padding.
- The room is what the encodings say. Both sides are translated from different sources, so that they agree has to be shown for each kind. Most kinds have one of a few shapes: a structure
  alone, a string, a list whose count is in the message, a list up to the end, two lists, a list of strings of 8 bits. There is one lemma for each shape, and one proof for each
  kind with a shape of its own, such as ChangeProperty, the texts, QueryFont or GetImage.
- `Right(m, w)` is about the walk itself: it ends at the end of `m` if and only if `m` is not `Misled`, and if it does, everything is logged
  and nothing behind `m` was read. `Judged(m, WalkOf(m))` is what the invariants ask: the same for the walk with the assertions of formatting, and `Defect`. It follows from `Right` (`RightIsJudged`), because `Formatted` stops a walk for nothing but
  `Disordered`. `RequestsRight`, `RepliesRight` and `SetupRight` prove it of every message that can be sent, `EventsRight` and `ErrorsRight` of events and errors. The direction from the defect to the
  failed assertion takes as much care as the other one: a count that was cut or not swapped must not lead to the end by a detour.
- The items of a text that are visited are those whose place, padded, lies before the end. That they are the first ones, and how many can be left, needs a least item that is not visited.
- The sizes of an Acceptance's screens and of their depths are sums along a sequence, and so is the walk through them. `SetupMessages` writes both as recursive functions in place of folds, since the
  library's theorem about induction takes an operator as its parameter. A function with a given start and given steps is shown to exist (`Iterated`), and statements about it
  follow by taking the least place where they fail (`LeastMember`, from the well-founded order of the naturals).
- The inductive invariant `IInv` says that outside `idle` the message is judged rightly, that from `parsed` or `aborted` on the recorded walk is the message's, and that setup messages and others come in their turn (`InTurn`). What the next message may be depends on
  `status`, `initiated`, `enabled` and `byteswap` only, and a message has copies of the last two, so nothing more is needed about earlier messages.

Model-checked only: `WaitingServed` and `ClosedSidesGo` of `ClientQueue` and `Delivered` of `Relay`, since liveness is out of reach of
the proof system. Every safety property and action property of the passing runs is also a theorem.

## Not modelled

- What the prequeue clients exchange with the X server: each exchange succeeds, fails, fails an assertion or does not end. Neither are `importFetchedAtoms` and the two functions of
  `SocketBuffer` that only they use.
- Files: a write to `.Xauthority` that fails unnoticed or exceeds the stream's buffer, a malformed file, other programs that change it.
- The bodies of events of extensions: their codes are modelled as unregistered, for the only extension known, BIG-REQUESTS, has none.
- Values of single fields and how they are written to the log: names of enumerations, hex dumps. Their code walks no further than
  the fixed size of a field. Its assertions about unused bits are modelled (`Formatted`), by whether a value meets them and not by the value.
- Settings beyond the set of extensions, display names (string matching and name resolution), errors of system calls beyond their effect on a connection.
