----------------------------- MODULE MessageWalk -----------------------------
EXTENDS WireFormat, FiniteSets

(***************************************************************************)
(* The steps by which the parse functions walk through a message. A walk   *)
(* is a record:                                                            *)
(*   at      bytes_parsed                                                  *)
(*   ok      no assertion on the way has failed                            *)
(*   reach   how far from the beginning of the message was read            *)
(*   logged  how many members of lists and characters of strings the log   *)
(*           has received                                                  *)
(* m is the message: its kind, its counts n and k, a flag opt, its size    *)
(* sz, whether its client has the other byte order (swap), whether one of  *)
(* its ids, atoms or masks has bits of its last byte set that are always   *)
(* zero in the first (stray), and for requests whether it has the length   *)
(* field of BIG-REQUESTS (big) and whether the connection has enabled that *)
(* extension (enabled).                                                    *)
(***************************************************************************)

Start(size, m) ==
  [at |-> size, ok |-> m.sz >= size, reach |-> size, logged |-> 0]

Further(w, end) == IF end > w.reach THEN end ELSE w.reach

Asserting(w, condition) == [w EXCEPT !.ok = w.ok /\ condition]

(***************************************************************************)
(* What is logged is formatted, and _formatVariable asserts that an id, an *)
(* atom or a mask has its unused bits clear. It looks at the value as it   *)
(* was received: to the parser the last byte of a client with the other    *)
(* byte order is the first.                                                *)
(***************************************************************************)
Formatted(m, w) == Asserting(w, ~(m.swap /\ m.stray))

\* Raw bytes that are skipped
Unparsed(w, len) ==
  [w EXCEPT !.at = w.at + len, !.reach = Further(w, w.at + len)]

\* A string_view of len characters, and its padding
String8(w, len) ==
  [Unparsed(w, Pad(len)) EXCEPT !.logged = w.logged + len]

(***************************************************************************)
(* _parseLISTof with a count: memb_ct is a uint16_t, whatever type the     *)
(* caller's count has. Every member asserts that it lies within sz, which  *)
(* the caller computes: below zero a size_t wraps around, and the list is  *)
(* taken to have a count that has nothing to do with the message.          *)
(***************************************************************************)
List(w, sz, ct, memb_sz) ==
  LET memb_ct == ct % 65536
      bytes == memb_ct * memb_sz
  IN [at |-> w.at + bytes,
      ok |-> w.ok /\ sz >= 0 /\ bytes <= sz,
      reach |-> Further(w, w.at + bytes),
      logged |-> w.logged + memb_ct]

PaddedList(w, sz, ct, memb_sz) ==
  LET list == List(w, sz, ct, memb_sz)
  IN [list EXCEPT !.at = w.at + Pad(list.at - w.at)]

\* A list that reaches to the end of the message
ListTillEnd(w, sz, memb_sz) ==
  PaddedList(w, sz, sz \div memb_sz, memb_sz)

\* _parseLISTofVALUE: every value takes four bytes
Values(m, w) == List(w, m.sz - w.at, m.n, VALUE)

\* _parseListMember of a STR and of a HOST
StrMember(name_len) == 1 + name_len
HostMember(address_len) == 4 + Pad(address_len)
=============================================================================
