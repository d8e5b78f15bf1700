-------------------------- MODULE RequestEncodings --------------------------
EXTENDS WireFormat

(***************************************************************************)
(* The requests as clients encode them: the bytes that follow the opcode   *)
(* and the length, field by field from the structures of requests.hpp and  *)
(* from the suffixes their comments name. m.n counts the members of the    *)
(* (first) list, m.k is the length of each string in it or the second      *)
(* factor of the count, m.opt tells that a text has a font item, that a    *)
(* property has type STRING, or that an event to be sent has a code that   *)
(* no extension has registered; m.stray is explained in MessageWalk.       *)
(***************************************************************************)

SimpleRequest(m) == 0
SimpleWindowRequest(m) == WINDOW
SimpleCmapRequest(m) == COLORMAP
ListFontsRequest(m) == 2 * CARD16 + Pad(m.n)
PolyPointRequest(m) == DRAWABLE + GCONTEXT + POINT * m.n
PolyTextRequest(m) == DRAWABLE + GCONTEXT + 2 * INT16

\* The item of a text that changes the font
FontItem(m) == IF m.opt THEN CARD8 + FONT ELSE 0

CreateWindow(m) ==
  2 * WINDOW + 2 * INT16 + 4 * CARD16 + VISUALID + CARD32 + VALUE * m.n
ChangeWindowAttributes(m) == WINDOW + CARD32 + VALUE * m.n
GetWindowAttributes(m) == SimpleWindowRequest(m)
DestroyWindow(m) == SimpleWindowRequest(m)
DestroySubwindows(m) == SimpleWindowRequest(m)
ChangeSaveSet(m) == WINDOW
ReparentWindow(m) == 2 * WINDOW + 2 * INT16
MapWindow(m) == SimpleWindowRequest(m)
MapSubwindows(m) == SimpleWindowRequest(m)
UnmapWindow(m) == SimpleWindowRequest(m)
UnmapSubwindows(m) == SimpleWindowRequest(m)
ConfigureWindow(m) == WINDOW + CARD16 + 2 + VALUE * m.n
CirculateWindow(m) == WINDOW
GetGeometry(m) == DRAWABLE
QueryTree(m) == SimpleWindowRequest(m)
InternAtom(m) == CARD16 + 2 + Pad(m.n)
GetAtomName(m) == ATOM
ChangeProperty(m) == WINDOW + 2 * ATOM + CARD8 + CARD32 + 3 + Pad(m.k * m.n)
DeleteProperty(m) == WINDOW + ATOM
GetProperty(m) == WINDOW + 2 * ATOM + 2 * CARD32
ListProperties(m) == SimpleWindowRequest(m)
SetSelectionOwner(m) == WINDOW + ATOM + TIMESTAMP
GetSelectionOwner(m) == ATOM
ConvertSelection(m) == WINDOW + 3 * ATOM + TIMESTAMP
SendEvent(m) == WINDOW + SETofEVENT + ENCODING_SZ
GrabPointer(m) ==
  2 * WINDOW + SETofPOINTEREVENT + 2 * CARD8 + CURSOR + TIMESTAMP
UngrabPointer(m) == TIMESTAMP
GrabButton(m) ==
  2 * WINDOW + SETofPOINTEREVENT + 2 * CARD8 + CURSOR + BUTTON + SETofKEYMASK
    + 1
UngrabButton(m) == WINDOW + SETofKEYMASK + 2
ChangeActivePointerGrab(m) == CURSOR + TIMESTAMP + SETofPOINTEREVENT + 2
GrabKeyboard(m) == WINDOW + TIMESTAMP + 2 * CARD8 + 2
UngrabKeyboard(m) == TIMESTAMP
GrabKey(m) == WINDOW + SETofKEYMASK + KEYCODE + 2 * CARD8 + 3
UngrabKey(m) == WINDOW + SETofKEYMASK + 2
AllowEvents(m) == TIMESTAMP
GrabServer(m) == SimpleRequest(m)
UngrabServer(m) == SimpleRequest(m)
QueryPointer(m) == SimpleWindowRequest(m)
GetMotionEvents(m) == WINDOW + 2 * TIMESTAMP
TranslateCoordinates(m) == 2 * WINDOW + 2 * INT16
WarpPointer(m) == 2 * WINDOW + 4 * INT16 + 2 * CARD16
SetInputFocus(m) == WINDOW + TIMESTAMP
GetInputFocus(m) == SimpleRequest(m)
QueryKeymap(m) == SimpleRequest(m)
OpenFont(m) == FONT + CARD16 + 2 + Pad(m.n)
CloseFont(m) == FONT
QueryFont(m) == FONTABLE
QueryTextExtents(m) == FONTABLE + Pad(CHAR2B * m.n)
ListFonts(m) == ListFontsRequest(m)
ListFontsWithInfo(m) == ListFontsRequest(m)
SetFontPath(m) == CARD16 + 2 + Pad(STR(m.k) * m.n)
GetFontPath(m) == SimpleRequest(m)
CreatePixmap(m) == PIXMAP + DRAWABLE + 2 * CARD16
FreePixmap(m) == PIXMAP
CreateGC(m) == GCONTEXT + DRAWABLE + CARD32 + VALUE * m.n
ChangeGC(m) == GCONTEXT + CARD32 + VALUE * m.n
CopyGC(m) == 2 * GCONTEXT + CARD32

SetDashes(m) == GCONTEXT + 2 * CARD16 + Pad(CARD8 * m.n)
SetClipRectangles(m) == GCONTEXT + 2 * INT16 + RECTANGLE * m.n
FreeGC(m) == GCONTEXT
ClearArea(m) == WINDOW + 2 * INT16 + 2 * CARD16
CopyArea(m) == 2 * DRAWABLE + GCONTEXT + 4 * INT16 + 2 * CARD16
CopyPlane(m) == 2 * DRAWABLE + GCONTEXT + 4 * INT16 + 2 * CARD16 + CARD32
PolyPoint(m) == PolyPointRequest(m)
PolyLine(m) == PolyPointRequest(m)
PolySegment(m) == DRAWABLE + GCONTEXT + SEGMENT * m.n
PolyRectangle(m) == DRAWABLE + GCONTEXT + RECTANGLE * m.n
PolyArc(m) == DRAWABLE + GCONTEXT + ARC * m.n
FillPoly(m) == DRAWABLE + GCONTEXT + 2 * CARD8 + 2 + POINT * m.n
PolyFillRectangle(m) == DRAWABLE + GCONTEXT + RECTANGLE * m.n
PolyFillArc(m) == DRAWABLE + GCONTEXT + ARC * m.n
PutImage(m) ==
  DRAWABLE + GCONTEXT + 2 * CARD16 + 2 * INT16 + 2 * CARD8 + 2 + Pad(m.n)
GetImage(m) == DRAWABLE + 2 * INT16 + 2 * CARD16 + CARD32
PolyText8(m) ==
  PolyTextRequest(m) + Pad(FontItem(m) + (CARD8 + INT8 + m.k) * m.n)
PolyText16(m) ==
  PolyTextRequest(m) + Pad(FontItem(m) + (CARD8 + INT8 + CHAR2B * m.k) * m.n)
ImageText8(m) == DRAWABLE + GCONTEXT + 2 * INT16 + Pad(m.n)
ImageText16(m) == DRAWABLE + GCONTEXT + 2 * INT16 + Pad(CHAR2B * m.n)
CreateColormap(m) == COLORMAP + WINDOW + VISUALID
FreeColormap(m) == SimpleCmapRequest(m)
CopyColormapAndFree(m) == 2 * COLORMAP
InstallColormap(m) == SimpleCmapRequest(m)
UninstallColormap(m) == SimpleCmapRequest(m)
ListInstalledColormaps(m) == SimpleWindowRequest(m)
AllocColor(m) == COLORMAP + 3 * CARD16 + 2
AllocNamedColor(m) == COLORMAP + CARD16 + 2 + Pad(m.n)
AllocColorCells(m) == COLORMAP + 2 * CARD16
AllocColorPlanes(m) == COLORMAP + 4 * CARD16
FreeColors(m) == COLORMAP + CARD32 + CARD32 * m.n
StoreColors(m) == COLORMAP + COLORITEM * m.n
StoreNamedColor(m) == COLORMAP + CARD32 + 2 * CARD16 + Pad(m.n)
QueryColors(m) == COLORMAP + CARD32 * m.n
LookupColor(m) == COLORMAP + CARD16 + 2 + Pad(m.n)
CreateCursor(m) == CURSOR + 2 * PIXMAP + 8 * CARD16
CreateGlyphCursor(m) == CURSOR + 2 * FONT + 8 * CARD16
FreeCursor(m) == CURSOR
RecolorCursor(m) == CURSOR + 6 * CARD16
QueryBestSize(m) == DRAWABLE + 2 * CARD16
QueryExtension(m) == CARD16 + 2 + Pad(m.n)
ListExtensions(m) == SimpleRequest(m)
ChangeKeyboardMapping(m) == KEYCODE + CARD8 + 2 + KEYSYM * m.n * m.k
GetKeyboardMapping(m) == KEYCODE + CARD8 + 2
ChangeKeyboardControl(m) == CARD32 + VALUE * m.n
GetKeyboardControl(m) == SimpleRequest(m)
Bell(m) == 0
ChangePointerControl(m) == 3 * INT16 + 2 * BOOL
GetPointerControl(m) == SimpleRequest(m)
SetScreenSaver(m) == 2 * INT16 + 2 * CARD8 + 2
GetScreenSaver(m) == SimpleRequest(m)
ChangeHosts(m) == CARD8 + CARD16 + 1 + Pad(BYTE * m.n)
ListHosts(m) == SimpleRequest(m)
SetAccessControl(m) == 0
SetCloseDownMode(m) == 0
KillClient(m) == CARD32
RotateProperties(m) == WINDOW + CARD16 + INT16 + ATOM * m.n
ForceScreenSaver(m) == 0
SetPointerMapping(m) == Pad(CARD8 * m.n)
GetPointerMapping(m) == SimpleRequest(m)
SetModifierMapping(m) == KEYCODE * 8 * m.n
GetModifierMapping(m) == SimpleRequest(m)
NoOperation(m) == SimpleRequest(m) + Pad(m.n)

\* A request of an extension that the parser does not know
UnknownRequest(m) == SimpleRequest(m) + Pad(m.n)
BigReqEnable(m) == SimpleRequest(m)

RequestKinds == {
  "UnknownRequest", "BigReqEnable", "CreateWindow", "ChangeWindowAttributes",
  "GetWindowAttributes", "DestroyWindow", "DestroySubwindows",
  "ChangeSaveSet", "ReparentWindow", "MapWindow", "MapSubwindows",
  "UnmapWindow", "UnmapSubwindows", "ConfigureWindow", "CirculateWindow",
  "GetGeometry", "QueryTree", "InternAtom", "GetAtomName", "ChangeProperty",
  "DeleteProperty", "GetProperty", "ListProperties", "SetSelectionOwner",
  "GetSelectionOwner", "ConvertSelection", "SendEvent", "GrabPointer",
  "UngrabPointer", "GrabButton", "UngrabButton", "ChangeActivePointerGrab",
  "GrabKeyboard", "UngrabKeyboard", "GrabKey", "UngrabKey", "AllowEvents",
  "GrabServer", "UngrabServer", "QueryPointer", "GetMotionEvents",
  "TranslateCoordinates", "WarpPointer", "SetInputFocus", "GetInputFocus",
  "QueryKeymap", "OpenFont", "CloseFont", "QueryFont", "QueryTextExtents",
  "ListFonts", "ListFontsWithInfo", "SetFontPath", "GetFontPath",
  "CreatePixmap", "FreePixmap", "CreateGC", "ChangeGC", "CopyGC", "SetDashes",
  "SetClipRectangles", "FreeGC", "ClearArea", "CopyArea", "CopyPlane",
  "PolyPoint", "PolyLine", "PolySegment", "PolyRectangle", "PolyArc",
  "FillPoly", "PolyFillRectangle", "PolyFillArc", "PutImage", "GetImage",
  "PolyText8", "PolyText16", "ImageText8", "ImageText16", "CreateColormap",
  "FreeColormap", "CopyColormapAndFree", "InstallColormap",
  "UninstallColormap", "ListInstalledColormaps", "AllocColor",
  "AllocNamedColor", "AllocColorCells", "AllocColorPlanes", "FreeColors",
  "StoreColors", "StoreNamedColor", "QueryColors", "LookupColor",
  "CreateCursor", "CreateGlyphCursor", "FreeCursor", "RecolorCursor",
  "QueryBestSize", "QueryExtension", "ListExtensions",
  "ChangeKeyboardMapping", "GetKeyboardMapping", "ChangeKeyboardControl",
  "GetKeyboardControl", "Bell", "ChangePointerControl", "GetPointerControl",
  "SetScreenSaver", "GetScreenSaver", "ChangeHosts", "ListHosts",
  "SetAccessControl", "SetCloseDownMode", "KillClient", "RotateProperties",
  "ForceScreenSaver", "SetPointerMapping", "GetPointerMapping",
  "SetModifierMapping", "GetModifierMapping", "NoOperation"}

Suffix(m) ==
  CASE m.kind = "UnknownRequest" -> UnknownRequest(m)
    [] m.kind = "BigReqEnable" -> BigReqEnable(m)
    [] m.kind = "CreateWindow" -> CreateWindow(m)
    [] m.kind = "ChangeWindowAttributes" -> ChangeWindowAttributes(m)
    [] m.kind = "GetWindowAttributes" -> GetWindowAttributes(m)
    [] m.kind = "DestroyWindow" -> DestroyWindow(m)
    [] m.kind = "DestroySubwindows" -> DestroySubwindows(m)
    [] m.kind = "ChangeSaveSet" -> ChangeSaveSet(m)
    [] m.kind = "ReparentWindow" -> ReparentWindow(m)
    [] m.kind = "MapWindow" -> MapWindow(m)
    [] m.kind = "MapSubwindows" -> MapSubwindows(m)
    [] m.kind = "UnmapWindow" -> UnmapWindow(m)
    [] m.kind = "UnmapSubwindows" -> UnmapSubwindows(m)
    [] m.kind = "ConfigureWindow" -> ConfigureWindow(m)
    [] m.kind = "CirculateWindow" -> CirculateWindow(m)
    [] m.kind = "GetGeometry" -> GetGeometry(m)
    [] m.kind = "QueryTree" -> QueryTree(m)
    [] m.kind = "InternAtom" -> InternAtom(m)
    [] m.kind = "GetAtomName" -> GetAtomName(m)
    [] m.kind = "ChangeProperty" -> ChangeProperty(m)
    [] m.kind = "DeleteProperty" -> DeleteProperty(m)
    [] m.kind = "GetProperty" -> GetProperty(m)
    [] m.kind = "ListProperties" -> ListProperties(m)
    [] m.kind = "SetSelectionOwner" -> SetSelectionOwner(m)
    [] m.kind = "GetSelectionOwner" -> GetSelectionOwner(m)
    [] m.kind = "ConvertSelection" -> ConvertSelection(m)
    [] m.kind = "SendEvent" -> SendEvent(m)
    [] m.kind = "GrabPointer" -> GrabPointer(m)
    [] m.kind = "UngrabPointer" -> UngrabPointer(m)
    [] m.kind = "GrabButton" -> GrabButton(m)
    [] m.kind = "UngrabButton" -> UngrabButton(m)
    [] m.kind = "ChangeActivePointerGrab" -> ChangeActivePointerGrab(m)
    [] m.kind = "GrabKeyboard" -> GrabKeyboard(m)
    [] m.kind = "UngrabKeyboard" -> UngrabKeyboard(m)
    [] m.kind = "GrabKey" -> GrabKey(m)
    [] m.kind = "UngrabKey" -> UngrabKey(m)
    [] m.kind = "AllowEvents" -> AllowEvents(m)
    [] m.kind = "GrabServer" -> GrabServer(m)
    [] m.kind = "UngrabServer" -> UngrabServer(m)
    [] m.kind = "QueryPointer" -> QueryPointer(m)
    [] m.kind = "GetMotionEvents" -> GetMotionEvents(m)
    [] m.kind = "TranslateCoordinates" -> TranslateCoordinates(m)
    [] m.kind = "WarpPointer" -> WarpPointer(m)
    [] m.kind = "SetInputFocus" -> SetInputFocus(m)
    [] m.kind = "GetInputFocus" -> GetInputFocus(m)
    [] m.kind = "QueryKeymap" -> QueryKeymap(m)
    [] m.kind = "OpenFont" -> OpenFont(m)
    [] m.kind = "CloseFont" -> CloseFont(m)
    [] m.kind = "QueryFont" -> QueryFont(m)
    [] m.kind = "QueryTextExtents" -> QueryTextExtents(m)
    [] m.kind = "ListFonts" -> ListFonts(m)
    [] m.kind = "ListFontsWithInfo" -> ListFontsWithInfo(m)
    [] m.kind = "SetFontPath" -> SetFontPath(m)
    [] m.kind = "GetFontPath" -> GetFontPath(m)
    [] m.kind = "CreatePixmap" -> CreatePixmap(m)
    [] m.kind = "FreePixmap" -> FreePixmap(m)
    [] m.kind = "CreateGC" -> CreateGC(m)
    [] m.kind = "ChangeGC" -> ChangeGC(m)
    [] m.kind = "CopyGC" -> CopyGC(m)
    [] m.kind = "SetDashes" -> SetDashes(m)
    [] m.kind = "SetClipRectangles" -> SetClipRectangles(m)
    [] m.kind = "FreeGC" -> FreeGC(m)
    [] m.kind = "ClearArea" -> ClearArea(m)
    [] m.kind = "CopyArea" -> CopyArea(m)
    [] m.kind = "CopyPlane" -> CopyPlane(m)
    [] m.kind = "PolyPoint" -> PolyPoint(m)
    [] m.kind = "PolyLine" -> PolyLine(m)
    [] m.kind = "PolySegment" -> PolySegment(m)
    [] m.kind = "PolyRectangle" -> PolyRectangle(m)
    [] m.kind = "PolyArc" -> PolyArc(m)
    [] m.kind = "FillPoly" -> FillPoly(m)
    [] m.kind = "PolyFillRectangle" -> PolyFillRectangle(m)
    [] m.kind = "PolyFillArc" -> PolyFillArc(m)
    [] m.kind = "PutImage" -> PutImage(m)
    [] m.kind = "GetImage" -> GetImage(m)
    [] m.kind = "PolyText8" -> PolyText8(m)
    [] m.kind = "PolyText16" -> PolyText16(m)
    [] m.kind = "ImageText8" -> ImageText8(m)
    [] m.kind = "ImageText16" -> ImageText16(m)
    [] m.kind = "CreateColormap" -> CreateColormap(m)
    [] m.kind = "FreeColormap" -> FreeColormap(m)
    [] m.kind = "CopyColormapAndFree" -> CopyColormapAndFree(m)
    [] m.kind = "InstallColormap" -> InstallColormap(m)
    [] m.kind = "UninstallColormap" -> UninstallColormap(m)
    [] m.kind = "ListInstalledColormaps" -> ListInstalledColormaps(m)
    [] m.kind = "AllocColor" -> AllocColor(m)
    [] m.kind = "AllocNamedColor" -> AllocNamedColor(m)
    [] m.kind = "AllocColorCells" -> AllocColorCells(m)
    [] m.kind = "AllocColorPlanes" -> AllocColorPlanes(m)
    [] m.kind = "FreeColors" -> FreeColors(m)
    [] m.kind = "StoreColors" -> StoreColors(m)
    [] m.kind = "StoreNamedColor" -> StoreNamedColor(m)
    [] m.kind = "QueryColors" -> QueryColors(m)
    [] m.kind = "LookupColor" -> LookupColor(m)
    [] m.kind = "CreateCursor" -> CreateCursor(m)
    [] m.kind = "CreateGlyphCursor" -> CreateGlyphCursor(m)
    [] m.kind = "FreeCursor" -> FreeCursor(m)
    [] m.kind = "RecolorCursor" -> RecolorCursor(m)
    [] m.kind = "QueryBestSize" -> QueryBestSize(m)
    [] m.kind = "QueryExtension" -> QueryExtension(m)
    [] m.kind = "ListExtensions" -> ListExtensions(m)
    [] m.kind = "ChangeKeyboardMapping" -> ChangeKeyboardMapping(m)
    [] m.kind = "GetKeyboardMapping" -> GetKeyboardMapping(m)
    [] m.kind = "ChangeKeyboardControl" -> ChangeKeyboardControl(m)
    [] m.kind = "GetKeyboardControl" -> GetKeyboardControl(m)
    [] m.kind = "Bell" -> Bell(m)
    [] m.kind = "ChangePointerControl" -> ChangePointerControl(m)
    [] m.kind = "GetPointerControl" -> GetPointerControl(m)
    [] m.kind = "SetScreenSaver" -> SetScreenSaver(m)
    [] m.kind = "GetScreenSaver" -> GetScreenSaver(m)
    [] m.kind = "ChangeHosts" -> ChangeHosts(m)
    [] m.kind = "ListHosts" -> ListHosts(m)
    [] m.kind = "SetAccessControl" -> SetAccessControl(m)
    [] m.kind = "SetCloseDownMode" -> SetCloseDownMode(m)
    [] m.kind = "KillClient" -> KillClient(m)
    [] m.kind = "RotateProperties" -> RotateProperties(m)
    [] m.kind = "ForceScreenSaver" -> ForceScreenSaver(m)
    [] m.kind = "SetPointerMapping" -> SetPointerMapping(m)
    [] m.kind = "GetPointerMapping" -> GetPointerMapping(m)
    [] m.kind = "SetModifierMapping" -> SetModifierMapping(m)
    [] m.kind = "GetModifierMapping" -> GetModifierMapping(m)
    [] m.kind = "NoOperation" -> NoOperation(m)

(***************************************************************************)
(* How many members a list may have: what its count field holds, or what   *)
(* the bits of a value mask name.                                          *)
(***************************************************************************)
ValueLists ==
  [CreateWindow |-> 15, ChangeWindowAttributes |-> 15, ConfigureWindow |-> 7,
   CreateGC |-> 23, ChangeGC |-> 23, ChangeKeyboardControl |-> 8]
CountsOf8Bits == {"ImageText8", "ImageText16", "SetModifierMapping",
  "SetPointerMapping", "ChangeKeyboardMapping"}
CountsOf16Bits == {"InternAtom", "OpenFont", "ListFonts", "ListFontsWithInfo",
  "AllocNamedColor", "StoreNamedColor", "LookupColor", "QueryExtension",
  "SetFontPath", "SetDashes", "ChangeHosts", "RotateProperties"}
CountsFromLength == {"UnknownRequest", "PolyPoint", "PolyLine", "PolySegment",
  "PolyRectangle", "PolyArc", "FillPoly", "PolyFillRectangle", "PolyFillArc",
  "FreeColors", "StoreColors", "QueryColors", "SetClipRectangles", "PutImage",
  "QueryTextExtents", "NoOperation", "PolyText8", "PolyText16",
  "ChangeProperty"}
Texts == {"PolyText8", "PolyText16"}

CountsFit(m) ==
  /\ m.n > 0 => m.kind \in DOMAIN ValueLists \cup CountsOf8Bits
                          \cup CountsOf16Bits \cup CountsFromLength
  /\ m.kind \in DOMAIN ValueLists => m.n <= ValueLists[m.kind]
  /\ m.kind \in CountsOf8Bits => m.n <= 255
  /\ m.kind \in CountsOf16Bits => m.n <= 65535
  /\ m.k > 0 => m.kind \in {"SetFontPath", "ChangeKeyboardMapping",
                            "ChangeProperty"} \cup Texts
  /\ m.k <= 254
  /\ m.kind = "ChangeProperty" => m.k \in {1, 2, 4}
  /\ m.opt => m.kind \in {"ChangeProperty", "SendEvent"} \cup Texts

\* No field is an id, an atom or a mask.
WithoutIds == {"UnknownRequest", "BigReqEnable", "InternAtom",
  "UngrabPointer", "UngrabKeyboard", "AllowEvents", "GrabServer",
  "UngrabServer", "GetInputFocus", "QueryKeymap", "ListFonts",
  "ListFontsWithInfo", "SetFontPath", "GetFontPath", "QueryExtension",
  "ListExtensions", "ChangeKeyboardMapping", "GetKeyboardMapping",
  "ChangeKeyboardControl", "GetKeyboardControl", "Bell",
  "ChangePointerControl", "GetPointerControl", "SetScreenSaver",
  "GetScreenSaver", "ChangeHosts", "ListHosts", "SetAccessControl",
  "SetCloseDownMode", "KillClient", "ForceScreenSaver", "SetPointerMapping",
  "GetPointerMapping", "SetModifierMapping", "GetModifierMapping",
  "NoOperation"}
IdsFit(m) == m.stray => m.kind \notin WithoutIds

LengthSize(m) == IF m.big THEN CARD16 + CARD32 ELSE CARD16
RequestSize(m) == 2 * CARD8 + LengthSize(m) + Suffix(m)

\* The length field, of 16 bits unless BIG-REQUESTS is enabled
LengthFits(m) == IF m.big THEN m.enabled ELSE Units(RequestSize(m)) <= 65535

\* The members and characters a complete log of the request has
Members(m) ==
  CASE m.kind \in {"ChangeProperty", "ChangeKeyboardMapping"} -> m.n * m.k
    [] m.kind = "SetModifierMapping" -> 8 * m.n
    [] m.kind \in Texts -> m.n + (IF m.opt THEN 1 ELSE 0)
    [] m.kind \in {"PutImage", "NoOperation", "UnknownRequest"} -> 0
    [] OTHER -> m.n
=============================================================================
