--------------------------- MODULE ReplyEncodings ---------------------------
EXTENDS WireFormat

(***************************************************************************)
(* The replies as servers encode them, header included: from the           *)
(* structures of requests.hpp and the suffixes their comments name. m.n    *)
(* and m.k count as in RequestEncodings; m.opt tells that a property has   *)
(* type STRING, or that a font's information is the last one.              *)
(***************************************************************************)

\* reply, a byte that some replies use, sequence number, extra aligned units
HEADER == 2 * CARD8 + CARD16 + CARD32

GetWindowAttributes(m) ==
  HEADER + VISUALID + CARD16 + BITGRAVITY + WINGRAVITY + 2 * CARD32
    + 3 * BOOL + CARD8 + COLORMAP + 2 * SETofEVENT + SETofDEVICEEVENT + 2
GetGeometry(m) == HEADER + WINDOW + 2 * INT16 + 3 * CARD16 + 10
QueryTree(m) == HEADER + 2 * WINDOW + CARD16 + 14 + WINDOW * m.n
InternAtom(m) == HEADER + ATOM + 20
GetAtomName(m) == HEADER + CARD16 + 22 + Pad(m.n)
GetProperty(m) == HEADER + ATOM + 2 * CARD32 + 12 + Pad(m.k * m.n)
ListProperties(m) == HEADER + CARD16 + 22 + ATOM * m.n
GetSelectionOwner(m) == HEADER + WINDOW + 20
GrabPointer(m) == HEADER + 24
GrabKeyboard(m) == HEADER + 24
QueryPointer(m) == HEADER + 2 * WINDOW + 4 * INT16 + SETofKEYBUTMASK + 6
GetMotionEvents(m) == HEADER + CARD32 + 20 + TIMECOORD * m.n
TranslateCoordinates(m) == HEADER + WINDOW + 2 * INT16 + 16
GetInputFocus(m) == HEADER + WINDOW + 20
QueryKeymap(m) == HEADER + 32 * CARD8
QueryFont(m) ==
  HEADER + 2 * CHARINFO + 4 * CARD16 + 3 * CARD8 + BOOL + 2 * INT16 + CARD32
    + 8 + FONTPROP * m.n + CHARINFO * m.k
QueryTextExtents(m) == HEADER + 4 * INT16 + 3 * INT32 + 4
ListFonts(m) == HEADER + CARD16 + 22 + Pad(STR(m.k) * m.n)
ListFontsWithInfo(m) ==
  HEADER + 2 * CHARINFO + 4 * CARD16 + 3 * CARD8 + BOOL + 2 * INT16 + CARD32
    + 8 + (IF m.opt THEN 0 ELSE FONTPROP * m.n + Pad(m.k))
GetFontPath(m) == HEADER + CARD16 + 22 + Pad(STR(m.k) * m.n)
GetImage(m) == HEADER + VISUALID + 20 + Pad(m.n)
ListInstalledColormaps(m) == HEADER + CARD16 + 22 + COLORMAP * m.n
AllocColor(m) == HEADER + 3 * CARD16 + CARD32 + 14
AllocNamedColor(m) == HEADER + CARD32 + 6 * CARD16 + 8
AllocColorCells(m) == HEADER + 2 * CARD16 + 20 + CARD32 * (m.n + m.k)
AllocColorPlanes(m) == HEADER + CARD16 + 3 * CARD32 + 10 + CARD32 * m.n
QueryColors(m) == HEADER + CARD16 + 22 + RGB * m.n
LookupColor(m) == HEADER + 6 * CARD16 + 12
QueryBestSize(m) == HEADER + 2 * CARD16 + 20
QueryExtension(m) == HEADER + BOOL + 3 * CARD8 + 20
ListExtensions(m) == HEADER + 24 + Pad(STR(m.k) * m.n)
GetKeyboardMapping(m) == HEADER + 24 + KEYSYM * m.n
GetKeyboardControl(m) == HEADER + CARD32 + 34 * CARD8 + 2 * CARD16 + 2
GetPointerControl(m) == HEADER + 3 * CARD16 + 18
GetScreenSaver(m) == HEADER + 2 * CARD16 + 2 * CARD8 + 18
ListHosts(m) == HEADER + CARD16 + 22 + HOST(m.k) * m.n
SetPointerMapping(m) == HEADER + 24
GetPointerMapping(m) == HEADER + 24 + Pad(CARD8 * m.n)
SetModifierMapping(m) == HEADER + 24
GetModifierMapping(m) == HEADER + 24 + KEYCODE * 8 * m.n

\* The reply to a request that the parser does not know
UnknownRequest(m) == ENCODING_SZ + Pad(m.n)
BigReqEnable(m) == HEADER + CARD32 + 20

ReplyKinds == {
  "UnknownRequest", "BigReqEnable", "GetWindowAttributes", "GetGeometry",
  "QueryTree", "InternAtom", "GetAtomName", "GetProperty", "ListProperties",
  "GetSelectionOwner", "GrabPointer", "GrabKeyboard", "QueryPointer",
  "GetMotionEvents", "TranslateCoordinates", "GetInputFocus", "QueryKeymap",
  "QueryFont", "QueryTextExtents", "ListFonts", "ListFontsWithInfo",
  "GetFontPath", "GetImage", "ListInstalledColormaps", "AllocColor",
  "AllocNamedColor", "AllocColorCells", "AllocColorPlanes", "QueryColors",
  "LookupColor", "QueryBestSize", "QueryExtension", "ListExtensions",
  "GetKeyboardMapping", "GetKeyboardControl", "GetPointerControl",
  "GetScreenSaver", "ListHosts", "SetPointerMapping", "GetPointerMapping",
  "SetModifierMapping", "GetModifierMapping"}

ReplySize(m) ==
  CASE m.kind = "UnknownRequest" -> UnknownRequest(m)
    [] m.kind = "BigReqEnable" -> BigReqEnable(m)
    [] m.kind = "GetWindowAttributes" -> GetWindowAttributes(m)
    [] m.kind = "GetGeometry" -> GetGeometry(m)
    [] m.kind = "QueryTree" -> QueryTree(m)
    [] m.kind = "InternAtom" -> InternAtom(m)
    [] m.kind = "GetAtomName" -> GetAtomName(m)
    [] m.kind = "GetProperty" -> GetProperty(m)
    [] m.kind = "ListProperties" -> ListProperties(m)
    [] m.kind = "GetSelectionOwner" -> GetSelectionOwner(m)
    [] m.kind = "GrabPointer" -> GrabPointer(m)
    [] m.kind = "GrabKeyboard" -> GrabKeyboard(m)
    [] m.kind = "QueryPointer" -> QueryPointer(m)
    [] m.kind = "GetMotionEvents" -> GetMotionEvents(m)
    [] m.kind = "TranslateCoordinates" -> TranslateCoordinates(m)
    [] m.kind = "GetInputFocus" -> GetInputFocus(m)
    [] m.kind = "QueryKeymap" -> QueryKeymap(m)
    [] m.kind = "QueryFont" -> QueryFont(m)
    [] m.kind = "QueryTextExtents" -> QueryTextExtents(m)
    [] m.kind = "ListFonts" -> ListFonts(m)
    [] m.kind = "ListFontsWithInfo" -> ListFontsWithInfo(m)
    [] m.kind = "GetFontPath" -> GetFontPath(m)
    [] m.kind = "GetImage" -> GetImage(m)
    [] m.kind = "ListInstalledColormaps" -> ListInstalledColormaps(m)
    [] m.kind = "AllocColor" -> AllocColor(m)
    [] m.kind = "AllocNamedColor" -> AllocNamedColor(m)
    [] m.kind = "AllocColorCells" -> AllocColorCells(m)
    [] m.kind = "AllocColorPlanes" -> AllocColorPlanes(m)
    [] m.kind = "QueryColors" -> QueryColors(m)
    [] m.kind = "LookupColor" -> LookupColor(m)
    [] m.kind = "QueryBestSize" -> QueryBestSize(m)
    [] m.kind = "QueryExtension" -> QueryExtension(m)
    [] m.kind = "ListExtensions" -> ListExtensions(m)
    [] m.kind = "GetKeyboardMapping" -> GetKeyboardMapping(m)
    [] m.kind = "GetKeyboardControl" -> GetKeyboardControl(m)
    [] m.kind = "GetPointerControl" -> GetPointerControl(m)
    [] m.kind = "GetScreenSaver" -> GetScreenSaver(m)
    [] m.kind = "ListHosts" -> ListHosts(m)
    [] m.kind = "SetPointerMapping" -> SetPointerMapping(m)
    [] m.kind = "GetPointerMapping" -> GetPointerMapping(m)
    [] m.kind = "SetModifierMapping" -> SetModifierMapping(m)
    [] m.kind = "GetModifierMapping" -> GetModifierMapping(m)

ReplyCountsOf8Bits == {"ListExtensions", "GetPointerMapping",
  "GetModifierMapping"}
ReplyCountsOf16Bits == {"QueryTree", "GetAtomName", "ListProperties",
  "QueryFont", "ListFonts", "ListFontsWithInfo", "GetFontPath",
  "ListInstalledColormaps", "AllocColorCells", "AllocColorPlanes",
  "QueryColors", "ListHosts"}
ReplyCountsOf32Bits == {"UnknownRequest", "GetProperty", "GetMotionEvents",
  "GetImage"}

(***************************************************************************)
(* k is a length of strings (8 bits), a number of planes (16 bits) or of   *)
(* characters of a font (32 bits). A keyboard has at most 255 keycodes     *)
(* with 255 symbols each, and addresses are bounded by 255 bytes.          *)
(***************************************************************************)
ReplyCountsFit(m) ==
  /\ m.n > 0 => m.kind \in {"GetKeyboardMapping"} \cup ReplyCountsOf8Bits
                  \cup ReplyCountsOf16Bits \cup ReplyCountsOf32Bits
  /\ m.kind = "GetKeyboardMapping" => m.n <= 255 * 255
  /\ m.kind \in ReplyCountsOf8Bits => m.n <= 255
  /\ m.kind \in ReplyCountsOf16Bits => m.n <= 65535
  /\ m.k > 0 => m.kind \in {"GetProperty", "ListFonts", "ListFontsWithInfo",
       "GetFontPath", "ListExtensions", "ListHosts", "AllocColorCells",
       "QueryFont"}
  /\ m.kind \in {"ListFonts", "ListFontsWithInfo", "GetFontPath",
                 "ListExtensions"} => m.k <= 255
  /\ m.kind = "AllocColorCells" => m.k <= 65535
  /\ m.kind = "ListHosts" => m.k <= 255
  /\ m.kind = "GetProperty" => m.k \in {1, 2, 4}
  /\ m.opt => m.kind \in {"GetProperty", "ListFontsWithInfo"}

\* Replies with ids, atoms or masks in their structure, and in a list
WithIds == {"GetWindowAttributes", "GetGeometry", "QueryTree", "InternAtom",
  "GetProperty", "GetSelectionOwner", "QueryPointer", "TranslateCoordinates",
  "GetInputFocus", "GetImage"}
IdLists == {"ListProperties", "QueryFont", "ListFontsWithInfo",
  "ListInstalledColormaps"}
ReplyIdsFit(m) ==
  m.stray => \/ m.kind \in WithIds
             \/ m.kind \in IdLists /\ m.n > 0 /\ ~m.opt

\* The members and characters a complete log of the reply has
ReplyMembers(m) ==
  CASE m.kind = "GetProperty" -> m.n * m.k
    [] m.kind = "GetImage" -> Pad(m.n)
    [] m.kind = "GetModifierMapping" -> 8 * m.n
    [] m.kind \in {"QueryFont", "AllocColorCells"} -> m.n + m.k
    [] m.kind = "ListFontsWithInfo" -> IF m.opt THEN 0 ELSE m.n + m.k
    [] m.kind = "UnknownRequest" -> 0
    [] OTHER -> m.n
=============================================================================
