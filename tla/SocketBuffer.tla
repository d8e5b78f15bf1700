---------------------------- MODULE SocketBuffer ----------------------------
(***************************************************************************)
(* The byte buffer between one socket and the parser                       *)
(* (src/include/SocketBuffer.hpp, src/SocketBuffer.cpp).                    *)
(*                                                                         *)
(* A buffer is a record:                                                   *)
(*   mem      the storage `_buffer', a sequence; what `clear' leaves       *)
(*            behind stays in it, so cells past `read' hold stale data     *)
(*   read     `_bytes_read', cells stored since the last clear             *)
(*   parsed   `_bytes_parsed', unsent cells that form logged messages      *)
(*   written  `_bytes_written', cells sent since the last clear            *)
(*   nms      `_next_message_sz', UNKNOWN_SZ until a header was seen       *)
(*                                                                         *)
(* A cell stands for a group of consecutive bytes.  Every operation of the *)
(* class is an operator on such a record; the assertions it makes are      *)
(* operators of their own, because a failed assertion ends the process.    *)
(***************************************************************************)
EXTENDS Integers, Sequences

CONSTANTS
  BLOCK_SZ,   \* `_BLOCK_SZ', cells in a fresh buffer and unit of its growth
  SIZE_MAX,   \* largest size_t: arithmetic on sizes wraps past it
  CELL_MAX    \* largest value of a cell, a length field among them

ASSUME BlockAssumption   == BLOCK_SZ \in Nat \ {0}
ASSUME SizeMaxAssumption == SIZE_MAX \in Nat /\ SIZE_MAX > 2 * BLOCK_SZ
ASSUME CellMaxAssumption == CELL_MAX \in Nat /\ 2 * CELL_MAX + 3 < SIZE_MAX

Cell == 0 .. CELL_MAX

(* A sum or difference of two sizes, as size_t computes it.                *)
SizeT(x) == x % (SIZE_MAX + 1)

UNKNOWN_SZ == SIZE_MAX

Buffer == [mem : Seq(Cell), read : Nat, parsed : Nat, written : Nat,
           nms : 0 .. SIZE_MAX]

(* A sequence s continued with the k cells of m that follow position p.    *)
Continued(s, m, p, k) ==
  [i \in 1 .. (Len(s) + k) |-> IF i <= Len(s) THEN s[i] ELSE m[p + i - Len(s)]]

Fresh == [mem |-> [i \in 1 .. BLOCK_SZ |-> 0], read |-> 0, parsed |-> 0,
          written |-> 0, nms |-> UNKNOWN_SZ]

-----------------------------------------------------------------------------
(* Observers.                                                              *)

Size(b)           == b.read - b.written
Unparsed(b)       == Size(b) - b.parsed
Empty(b)          == b.read = 0
MessageSizeSet(b) == b.nms # UNKNOWN_SZ
Capacity(b)       == SizeT(Len(b.mem) - b.read)

IncompleteMessage(b) ==
  /\ Unparsed(b) > 0
  /\ MessageSizeSet(b) => Unparsed(b) < b.nms

(* Variant: a buffer that holds part of a message does not read on.        *)
ReadReady_WhenEmpty(b) == Empty(b)

ReadReady(b)  == Empty(b) \/ IncompleteMessage(b)
WriteReady(b) == ~Empty(b) /\ b.parsed > 0

-----------------------------------------------------------------------------
(* Reading.  A known message size asks for what is missing of it, counted  *)
(* from everything unsent: when messages already parsed are still in the   *)
(* buffer the difference may be zero or wrap around.                       *)

(* Variant: one cell short of the message.                                 *)
BytesToRead_OneShort(b) ==
  IF MessageSizeSet(b) THEN SizeT(b.nms - Size(b) - 1) ELSE Capacity(b)

BytesToRead(b) ==
  IF MessageSizeSet(b) THEN SizeT(b.nms - Size(b)) ELSE Capacity(b)

(* The storage after a request for n cells: resized to the next multiple   *)
(* of the block when n exceeds the capacity.  resize() may also shrink.    *)
GrownTo(b, n) ==
  LET raw == SizeT(Len(b.mem) + SizeT(n - Capacity(b)))
  IN  raw + ((BLOCK_SZ - (raw % BLOCK_SZ)) % BLOCK_SZ)

Storage(b, n) ==
  IF n > Capacity(b)
  THEN [i \in 1 .. GrownTo(b, n) |-> IF i <= Len(b.mem) THEN b.mem[i] ELSE 0]
  ELSE b.mem

(* `assert( capacity() >= bytes_to_read )' after a resize.                 *)
ReadAsserts(b, n) ==
  n > Capacity(b) => SizeT(GrownTo(b, n) - b.read) >= n

(* recv() was handed a region inside the storage.                          *)
InStorage(b, n) == b.read + n <= Len(Storage(b, n))

(* Variant: recv() at data() instead of behind what was read.              *)
Received_AtData(b, n, s, p, k) ==
  LET m == Storage(b, n)
  IN  [b EXCEPT
        !.mem  = [i \in 1 .. Len(m) |->
                    IF b.written < i /\ i <= b.written + k
                    THEN s[p + i - b.written] ELSE m[i]],
        !.read = @ + k]

(* recv() for n cells stored the k cells of s that follow position p.      *)
Received(b, n, s, p, k) ==
  LET m == Storage(b, n)
  IN  [b EXCEPT
        !.mem  = [i \in 1 .. Len(m) |->
                    IF b.read < i /\ i <= b.read + k
                    THEN s[p + i - b.read] ELSE m[i]],
        !.read = @ + k]

-----------------------------------------------------------------------------
(* Parsing marks and writing.                                              *)

MarkAsserts(b) == MessageSizeSet(b) /\ b.parsed + b.nms <= Size(b)

MessageParsed(b) == [b EXCEPT !.parsed = @ + b.nms, !.nms = UNKNOWN_SZ]

(* Variant: clear() forgets `_bytes_written', so that size() wraps.        *)
Cleared_KeepsWritten(b) == [b EXCEPT !.read = 0, !.parsed = 0,
                                     !.nms = UNKNOWN_SZ]

Cleared(b) == [b EXCEPT !.read = 0, !.parsed = 0, !.written = 0,
                        !.nms = UNKNOWN_SZ]

(* Variants: no clear() of a drained buffer, no count of what was sent.    *)
Written_NoClear(b) == [b EXCEPT !.written = @ + b.parsed, !.parsed = 0]

Written_Uncounted(b) == [b EXCEPT !.parsed = 0]

(* write( fd ) after a send() of all parsed cells.                         *)
Written(b) ==
  LET w == [b EXCEPT !.written = @ + b.parsed, !.parsed = 0]
  IN  IF w.written = w.read THEN Cleared(w) ELSE w

-----------------------------------------------------------------------------
(* The counters of a buffer agree with each other and with its storage:    *)
(* no cell is parsed or sent before it is read, and all lie in `_buffer'.  *)
Counted(b) == /\ b.written + b.parsed <= b.read
              /\ b.read <= Len(b.mem)

=============================================================================
