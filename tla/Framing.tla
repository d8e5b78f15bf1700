------------------------------ MODULE Framing ------------------------------
(***************************************************************************)
(* How logClientMessages and logServerMessages (X11ProtocolParser.cpp)     *)
(* find where a message ends.                                              *)
(*                                                                         *)
(* Cells of the messages (each a group of the bytes in brackets):          *)
(*   Initiation     <<order [0-5], name_len [6-7], data_len [8-11], ...>>  *)
(*   request        <<opcodes [0-1], length [2-3], ...>>, and with         *)
(*                  length = 0 <<opcodes, 0, big length [4-7], ...>>       *)
(*   InitResponse   <<success [0-5], following [6-7], ...>>                *)
(*   server message <<prefix [0-3], extra [4-7], rest [8-31], ...>>        *)
(* Lengths count cells.  The tests compare the unsent size of the buffer   *)
(* with the header, whatever part of it is already parsed, and the header  *)
(* is read from storage at the data offset: in cells not received yet that *)
(* is stale data.                                                          *)
(***************************************************************************)
EXTENDS SocketBuffer

Dirs == {"client", "server"}   \* named after the side the data come from

(* Connection::Status.  FAILED and AUTHENTICATION are left out: the setup  *)
(* parser sets them, and the assertion that follows it stops the process.  *)
Statuses == {"UNESTABLISHED", "OPEN"}

ORDER == 1                     \* a valid byte order in an Initiation
INIT_HEADER == 3               \* sizeof( Initiation::Header )
RESPONSE_HEADER == 2           \* sizeof( InitResponse::Header )
REQUEST_HEADER == 2            \* Request::Prefix and Request::Length
BIG_HEADER == 3                \* Request::Prefix and Request::BigLength
SERVER_HEADER == 1             \* sizeof( Response::Header )
ENCODING_SZ == 3               \* the 32 bytes of an event, error or reply

ERROR_PREFIX == 0
REPLY_PREFIX == 1

SUCCESS == 1                   \* InitResponse: 0 failed, 2 authenticate

(* Cells the header test of direction d wants to see.                      *)
HeaderCells(d, status, b, off) ==
  CASE d = "client" /\ status = "UNESTABLISHED" -> INIT_HEADER
    [] d = "server" /\ status = "UNESTABLISHED" -> RESPONSE_HEADER
    [] d = "server" /\ status = "OPEN"          -> SERVER_HEADER
    [] d = "client" /\ status = "OPEN"          ->
         IF off + 2 <= Len(b.mem) /\ b.mem[off + 2] = 0
         THEN BIG_HEADER ELSE REQUEST_HEADER

(* Variant: replies have no extra units.                                   *)
Declared_FixedReply(d, status, b, off) ==
  LET cell(i) == b.mem[off + i]
  IN  CASE d = "client" /\ status = "UNESTABLISHED" ->
             INIT_HEADER + cell(2) + cell(3)
        [] d = "server" /\ status = "UNESTABLISHED" ->
             RESPONSE_HEADER + cell(2)
        [] d = "server" /\ status = "OPEN" -> ENCODING_SZ
        [] d = "client" /\ status = "OPEN" ->
             IF cell(2) = 0 THEN cell(3) ELSE cell(2)

(* The size the header at storage offset off declares.                     *)
Declared(d, status, b, off) ==
  LET cell(i) == b.mem[off + i]
  IN  CASE d = "client" /\ status = "UNESTABLISHED" ->
             INIT_HEADER + cell(2) + cell(3)
        [] d = "server" /\ status = "UNESTABLISHED" ->
             RESPONSE_HEADER + cell(2)
        [] d = "server" /\ status = "OPEN" ->
             ENCODING_SZ + (IF cell(1) = REPLY_PREFIX THEN cell(2) ELSE 0)
        [] d = "client" /\ status = "OPEN" ->
             IF cell(2) = 0 THEN cell(3) ELSE cell(2)

(* Cells that Declared reads: for a reply more than the header test saw.   *)
DeclaredCells(d, status, b, off) ==
  IF /\ d = "server" /\ status = "OPEN"
     /\ off + 1 <= Len(b.mem)
     /\ b.mem[off + 1] = REPLY_PREFIX
  THEN 2
  ELSE HeaderCells(d, status, b, off)

(* Variant: one cell of the header is enough too early.                    *)
HeaderTest_OneShort(d, status, b, off) ==
  Size(b) + 1 >= HeaderCells(d, status, b, off)

(* The header test: `buffer.size() < sizeof( ... )' fails.                 *)
HeaderTest(d, status, b, off) == Size(b) >= HeaderCells(d, status, b, off)

(* The header lies in the storage of the vector.                           *)
HeaderInStorage(d, status, b, off) ==
  off + DeclaredCells(d, status, b, off) <= Len(b.mem)

(* The parse functions walk the fields of a message and must end exactly   *)
(* where its header said; on anything that is not a message of that size   *)
(* they may assert, throw, or by chance consume the same number of cells.  *)
WellFormed(d, status, b, off) ==
  /\ HeaderInStorage(d, status, b, off)
  /\ Declared(d, status, b, off) = b.nms
  /\ d = "client" => b.nms >= REQUEST_HEADER

=============================================================================
