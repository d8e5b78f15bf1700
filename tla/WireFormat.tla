----------------------------- MODULE WireFormat -----------------------------
EXTENDS Integers

(***************************************************************************)
(* Sizes in bytes of the protocol's types (all of them packed), the        *)
(* alignment of messages, and what an integer is taken for when a field of *)
(* a client of the other byte order is used without swapping its bytes.    *)
(***************************************************************************)

INT8 == 1
INT16 == 2
INT32 == 4
CARD8 == 1
CARD16 == 2
CARD32 == 4
BYTE == 1
VALUE == 4
WINDOW == 4
PIXMAP == 4
CURSOR == 4
FONT == 4
GCONTEXT == 4
COLORMAP == 4
DRAWABLE == WINDOW
FONTABLE == FONT
ATOM == 4
VISUALID == 4
TIMESTAMP == 4
BITGRAVITY == 1
WINGRAVITY == 1
BOOL == 1
SETofEVENT == 4
SETofPOINTEREVENT == 2
SETofDEVICEEVENT == 2
KEYSYM == 4
KEYCODE == 1
BUTTON == 1
SETofKEYBUTMASK == 2
SETofKEYMASK == 2
CHAR2B == 2 * CARD8
POINT == 2 * INT16
RECTANGLE == 2 * INT16 + 2 * CARD16
ARC == 4 * INT16 + 2 * CARD16

(***************************************************************************)
(* Structures that single messages repeat.                                 *)
(***************************************************************************)
SEGMENT == 4 * INT16
COLORITEM == CARD32 + 3 * CARD16 + CARD8 + 1
TIMECOORD == TIMESTAMP + 2 * INT16
FONTPROP == ATOM + CARD32
CHARINFO == 5 * INT16 + CARD16
RGB == 3 * CARD16 + 2

(***************************************************************************)
(* Every message fills a whole number of aligned units.                    *)
(***************************************************************************)
ALIGN == 4
Pad(n) == n + ((ALIGN - (n % ALIGN)) % ALIGN)
Units(n) == Pad(n) \div ALIGN
Size(units) == units * ALIGN

\* Header and length-prefixed suffix of a HOST and a STR
HOST(address_len) == 2 * CARD8 + CARD16 + Pad(address_len)
STR(name_len) == CARD8 + name_len

\* Errors and events, and replies without a suffix, have the same size.
ENCODING_SZ == 32

(***************************************************************************)
(* A 16- or 32-bit integer read with its bytes in the wrong order. Of the  *)
(* 32-bit ones only the low half is kept: they pass through a uint16_t.    *)
(***************************************************************************)
Swap16(n) == 256 * (n % 256) + ((n \div 256) % 256)
Swap32Low(n) == Swap16((n \div 65536) % 65536)
=============================================================================
