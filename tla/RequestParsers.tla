--------------------------- MODULE RequestParsers ---------------------------
EXTENDS MessageWalk

(***************************************************************************)
(* The walks of _parseRequest, one for each request. Numbers are the sizes *)
(* of the structures as compiled: what follows the length field.           *)
(***************************************************************************)

TlUnits(m) == m.sz \div ALIGN

(* Variant: the longer header of a big request is forgotten. *)
FixedSize_NoBig(m, encoding) == 4 + encoding

\* BASE_ENCODING_SZ and BASE_BIG_ENCODING_SZ
FixedSize(m, encoding) == (IF m.big THEN 8 ELSE 4) + encoding

\* _RequestFixedEncoding
FixedEncoding(m, encoding) ==
  Asserting(Start(FixedSize(m, encoding), m), m.big => m.enabled)

\* The bytes that the length field leaves for a suffix
Rest(m, encoding) == Size(TlUnits(m)) - FixedSize(m, encoding)

\* tl_aligned_units is compared with what was walked ...
Exact(m, w) == Asserting(w, TlUnits(m) = Units(w.at))

\* ... but where the comparison stands behind "big_request ? a : b == c", the
\* assertion holds of every big request.
Loose(m, w) == Asserting(w, m.big \/ TlUnits(m) = Units(w.at))

\* TEXTITEM8 and TEXTITEM16: length, delta and characters
TextItem8(m) == 2 + m.k
TextItem16(m) == 2 + 2 * m.k

(* Variant: an item may begin where the rest ends. *)
TextItems_TillEnd(m, w, item_sz) ==
  LET rest == Rest(m, 12)
      font == IF m.opt THEN 5 ELSE 0
      start(i) == font + i * item_sz
      visited == {i \in 0..(m.n - 1) : Pad(start(i)) <= rest}
      last == start(Cardinality(visited) - 1)
  IN [at |-> w.at + Pad(start(Cardinality(visited))),
      ok |-> w.ok,
      reach |-> Further(w, IF visited = {} THEN 0 ELSE w.at + last + 5),
      logged |-> w.logged + Cardinality(visited) + (IF m.opt THEN 1 ELSE 0)]

(***************************************************************************)
(* _parseLISTof without a count, of items with item_sz bytes each behind   *)
(* an optional item of 5 bytes for the font. It goes on while what it has  *)
(* walked, padded, is less than what there is; an item is read as a union  *)
(* of 5 bytes.                                                             *)
(***************************************************************************)
TextItems(m, w, item_sz) ==
  LET rest == Rest(m, 12)
      font == IF m.opt THEN 5 ELSE 0
      start(i) == font + i * item_sz
      visited == {i \in 0..(m.n - 1) : Pad(start(i)) < rest}
      last == start(Cardinality(visited) - 1)
  IN [at |-> w.at + Pad(start(Cardinality(visited))),
      ok |-> w.ok,
      reach |-> Further(w, IF visited = {} THEN 0 ELSE w.at + last + 5),
      logged |-> w.logged + Cardinality(visited) + (IF m.opt THEN 1 ELSE 0)]

SimpleRequest(m) == Loose(m, FixedEncoding(m, 0))
SimpleWindowRequest(m) == Loose(m, FixedEncoding(m, 4))
SimpleCmapRequest(m) == Loose(m, FixedEncoding(m, 4))
ListFontsRequest(m) == Loose(m, String8(FixedEncoding(m, 4), m.n))
PolyPointRequest(m) == Exact(m, ListTillEnd(FixedEncoding(m, 8), Rest(m, 8), 4))

CreateWindow(m) == Loose(m, Values(m, FixedEncoding(m, 28)))
ChangeWindowAttributes(m) == Loose(m, Values(m, FixedEncoding(m, 8)))
GetWindowAttributes(m) == SimpleWindowRequest(m)
DestroyWindow(m) == SimpleWindowRequest(m)
DestroySubwindows(m) == SimpleWindowRequest(m)
ChangeSaveSet(m) == Loose(m, FixedEncoding(m, 4))
ReparentWindow(m) == Loose(m, FixedEncoding(m, 12))
MapWindow(m) == SimpleWindowRequest(m)
MapSubwindows(m) == SimpleWindowRequest(m)
UnmapWindow(m) == SimpleWindowRequest(m)
UnmapSubwindows(m) == SimpleWindowRequest(m)
ConfigureWindow(m) == Loose(m, Values(m, FixedEncoding(m, 8)))
CirculateWindow(m) == Loose(m, FixedEncoding(m, 4))
GetGeometry(m) == Loose(m, FixedEncoding(m, 4))
QueryTree(m) == SimpleWindowRequest(m)
InternAtom(m) == Loose(m, String8(FixedEncoding(m, 4), m.n))
GetAtomName(m) == Loose(m, FixedEncoding(m, 4))
ChangeProperty(m) ==
  LET data_len == m.n * m.k
      fe == FixedEncoding(m, 20)
  IN Loose(m, IF m.opt THEN String8(fe, data_len)
              ELSE PaddedList(fe, data_len, data_len, 1))
DeleteProperty(m) == Loose(m, FixedEncoding(m, 8))
GetProperty(m) == Loose(m, FixedEncoding(m, 20))
ListProperties(m) == SimpleWindowRequest(m)
SetSelectionOwner(m) == Loose(m, FixedEncoding(m, 12))
GetSelectionOwner(m) == Loose(m, FixedEncoding(m, 4))
ConvertSelection(m) == Loose(m, FixedEncoding(m, 20))
SendEvent(m) ==
  Loose(m, Asserting(Unparsed(FixedEncoding(m, 8), ENCODING_SZ), ~m.opt))
GrabPointer(m) == Loose(m, FixedEncoding(m, 20))
UngrabPointer(m) == Loose(m, FixedEncoding(m, 4))
GrabButton(m) == Loose(m, FixedEncoding(m, 20))
UngrabButton(m) == Loose(m, FixedEncoding(m, 8))
ChangeActivePointerGrab(m) == Loose(m, FixedEncoding(m, 12))
GrabKeyboard(m) == Loose(m, FixedEncoding(m, 12))
UngrabKeyboard(m) == Loose(m, FixedEncoding(m, 4))
GrabKey(m) == Loose(m, FixedEncoding(m, 12))
UngrabKey(m) == Loose(m, FixedEncoding(m, 8))
AllowEvents(m) == Loose(m, FixedEncoding(m, 4))
GrabServer(m) == SimpleRequest(m)
UngrabServer(m) == SimpleRequest(m)
QueryPointer(m) == SimpleWindowRequest(m)
GetMotionEvents(m) == Loose(m, FixedEncoding(m, 12))
TranslateCoordinates(m) == Loose(m, FixedEncoding(m, 12))
WarpPointer(m) == Loose(m, FixedEncoding(m, 20))
SetInputFocus(m) == Loose(m, FixedEncoding(m, 8))
GetInputFocus(m) == SimpleRequest(m)
QueryKeymap(m) == SimpleRequest(m)
OpenFont(m) == Loose(m, String8(FixedEncoding(m, 8), m.n))
CloseFont(m) == Loose(m, FixedEncoding(m, 4))
QueryFont(m) == Loose(m, FixedEncoding(m, 4))

(* Variant: the odd character is not subtracted. *)
QueryTextExtents_Even(m) ==
  LET string == List(FixedEncoding(m, 4), Rest(m, 4), Rest(m, 4) \div 2, 2)
  IN Exact(m, [string EXCEPT !.at = FixedSize(m, 4) + Rest(m, 4)])

QueryTextExtents(m) ==
  LET odd == IF m.n % 2 = 1 THEN 1 ELSE 0
      chars == Rest(m, 4) \div 2 - odd
      string == List(FixedEncoding(m, 4), Rest(m, 4), chars, 2)
  IN Exact(m, [string EXCEPT !.at = FixedSize(m, 4) + Rest(m, 4)])
ListFonts(m) == ListFontsRequest(m)
ListFontsWithInfo(m) == ListFontsRequest(m)
SetFontPath(m) ==
  Loose(m, PaddedList(FixedEncoding(m, 4), m.sz - FixedSize(m, 4), m.n,
                      StrMember(m.k)))
GetFontPath(m) == SimpleRequest(m)
CreatePixmap(m) == Loose(m, FixedEncoding(m, 12))
FreePixmap(m) == Loose(m, FixedEncoding(m, 4))
CreateGC(m) == Loose(m, Values(m, FixedEncoding(m, 12)))
ChangeGC(m) == Loose(m, Values(m, FixedEncoding(m, 8)))
CopyGC(m) == Loose(m, FixedEncoding(m, 12))
SetDashes(m) ==
  Loose(m, PaddedList(FixedEncoding(m, 8), m.sz - FixedSize(m, 8), m.n, 1))
SetClipRectangles(m) ==
  Loose(m, ListTillEnd(FixedEncoding(m, 8), Rest(m, 8), 8))
FreeGC(m) == Loose(m, FixedEncoding(m, 4))
ClearArea(m) == Loose(m, FixedEncoding(m, 12))
CopyArea(m) == Loose(m, FixedEncoding(m, 24))
CopyPlane(m) == Loose(m, FixedEncoding(m, 28))
PolyPoint(m) == PolyPointRequest(m)
PolyLine(m) == PolyPointRequest(m)
PolySegment(m) == Exact(m, ListTillEnd(FixedEncoding(m, 8), Rest(m, 8), 8))
PolyRectangle(m) == Exact(m, ListTillEnd(FixedEncoding(m, 8), Rest(m, 8), 8))
PolyArc(m) ==
  Exact(m, ListTillEnd(FixedEncoding(m, 8), TlUnits(m) - FixedSize(m, 8), 12))
FillPoly(m) == Exact(m, ListTillEnd(FixedEncoding(m, 12), Rest(m, 12), 4))
PolyFillRectangle(m) ==
  Exact(m, ListTillEnd(FixedEncoding(m, 8), Size(TlUnits(m)) - 8, 8))
PolyFillArc(m) ==
  Exact(m, ListTillEnd(FixedEncoding(m, 8), Size(TlUnits(m)) - 8, 12))
PutImage(m) == Exact(m, Unparsed(FixedEncoding(m, 20), Pad(Rest(m, 20))))
GetImage(m) == Loose(m, FixedEncoding(m, 16))
PolyText8(m) == Exact(m, TextItems(m, FixedEncoding(m, 12), TextItem8(m)))
PolyText16(m) == Exact(m, TextItems(m, FixedEncoding(m, 12), TextItem16(m)))
ImageText8(m) == Loose(m, String8(FixedEncoding(m, 12), m.n))
ImageText16(m) ==
  Loose(m, PaddedList(FixedEncoding(m, 12), CHAR2B * m.n, m.n, 2))
CreateColormap(m) == Loose(m, FixedEncoding(m, 12))
FreeColormap(m) == SimpleCmapRequest(m)
CopyColormapAndFree(m) == Loose(m, FixedEncoding(m, 8))
InstallColormap(m) == SimpleCmapRequest(m)
UninstallColormap(m) == SimpleCmapRequest(m)
ListInstalledColormaps(m) == SimpleWindowRequest(m)
AllocColor(m) == Loose(m, FixedEncoding(m, 12))
AllocNamedColor(m) == Loose(m, String8(FixedEncoding(m, 8), m.n))
AllocColorCells(m) == Loose(m, FixedEncoding(m, 8))
AllocColorPlanes(m) == Loose(m, FixedEncoding(m, 12))
FreeColors(m) == Exact(m, ListTillEnd(FixedEncoding(m, 8), Rest(m, 8), 4))
StoreColors(m) == Exact(m, ListTillEnd(FixedEncoding(m, 4), Rest(m, 4), 12))
StoreNamedColor(m) == Loose(m, String8(FixedEncoding(m, 12), m.n))
QueryColors(m) == Exact(m, ListTillEnd(FixedEncoding(m, 4), Rest(m, 4), 4))
LookupColor(m) == Loose(m, String8(FixedEncoding(m, 8), m.n))
CreateCursor(m) == Loose(m, FixedEncoding(m, 28))
CreateGlyphCursor(m) == Loose(m, FixedEncoding(m, 28))
FreeCursor(m) == Loose(m, FixedEncoding(m, 4))
RecolorCursor(m) == Loose(m, FixedEncoding(m, 16))
QueryBestSize(m) == Loose(m, FixedEncoding(m, 8))
QueryExtension(m) == Loose(m, String8(FixedEncoding(m, 4), m.n))
ListExtensions(m) == SimpleRequest(m)
ChangeKeyboardMapping(m) ==
  Exact(m, Asserting(ListTillEnd(FixedEncoding(m, 4), Rest(m, 4), 4),
          (Rest(m, 4) \div 4) % 65536 = (m.n * m.k) % 65536))
GetKeyboardMapping(m) == Loose(m, FixedEncoding(m, 4))
ChangeKeyboardControl(m) == Loose(m, Values(m, FixedEncoding(m, 4)))
GetKeyboardControl(m) == SimpleRequest(m)
Bell(m) == Loose(m, FixedEncoding(m, 0))
ChangePointerControl(m) == Loose(m, FixedEncoding(m, 8))
GetPointerControl(m) == SimpleRequest(m)
SetScreenSaver(m) == Loose(m, FixedEncoding(m, 8))
GetScreenSaver(m) == SimpleRequest(m)
ChangeHosts(m) == Exact(m, PaddedList(FixedEncoding(m, 4), Rest(m, 4), m.n, 1))
ListHosts(m) == SimpleRequest(m)
SetAccessControl(m) == Loose(m, FixedEncoding(m, 0))
SetCloseDownMode(m) == Loose(m, FixedEncoding(m, 0))
KillClient(m) == Loose(m, FixedEncoding(m, 4))
RotateProperties(m) ==
  Exact(m, PaddedList(FixedEncoding(m, 8), Rest(m, 8), m.n, 4))
ForceScreenSaver(m) == Loose(m, FixedEncoding(m, 0))
SetPointerMapping(m) ==
  Exact(m, PaddedList(FixedEncoding(m, 0), Rest(m, 0), m.n, 1))
GetPointerMapping(m) == SimpleRequest(m)
SetModifierMapping(m) ==
  Exact(m, Asserting(ListTillEnd(FixedEncoding(m, 0), Rest(m, 0), 1),
          Rest(m, 0) % 65536 = 8 * m.n))
GetModifierMapping(m) == SimpleRequest(m)
NoOperation(m) == Exact(m, Unparsed(FixedEncoding(m, 0), Rest(m, 0)))

UnknownRequest(m) ==
  Exact(m, Unparsed(FixedEncoding(m, 0), Pad(Rest(m, 0))))
BigReqEnable(m) == Loose(m, FixedEncoding(m, 0))

\* The parse function that _logRequest finds under the opcode
RequestWalk(m) ==
  CASE m.kind = "UnknownRequest" -> UnknownRequest(m)
    [] m.kind = "BigReqEnable" -> BigReqEnable(m)
    [] m.kind = "CreateWindow" -> CreateWindow(m)
    [] m.kind = "ChangeWindowAttributes" -> ChangeWindowAttributes(m)
    [] m.kind = "GetWindowAttributes" -> GetWindowAttributes(m)
    [] m.kind = "DestroyWindow" -> DestroyWindow(m)
    [] m.kind = "DestroySubwindows" -> DestroySubwindows(m)
    [] m.kind = "ChangeSaveSet" -> ChangeSaveSet(m)
    [] m.kind = "ReparentWindow" -> ReparentWindow(m)
    [] m.kind = "MapWindow" -> MapWindow(m)
    [] m.kind = "MapSubwindows" -> MapSubwindows(m)
    [] m.kind = "UnmapWindow" -> UnmapWindow(m)
    [] m.kind = "UnmapSubwindows" -> UnmapSubwindows(m)
    [] m.kind = "ConfigureWindow" -> ConfigureWindow(m)
    [] m.kind = "CirculateWindow" -> CirculateWindow(m)
    [] m.kind = "GetGeometry" -> GetGeometry(m)
    [] m.kind = "QueryTree" -> QueryTree(m)
    [] m.kind = "InternAtom" -> InternAtom(m)
    [] m.kind = "GetAtomName" -> GetAtomName(m)
    [] m.kind = "ChangeProperty" -> ChangeProperty(m)
    [] m.kind = "DeleteProperty" -> DeleteProperty(m)
    [] m.kind = "GetProperty" -> GetProperty(m)
    [] m.kind = "ListProperties" -> ListProperties(m)
    [] m.kind = "SetSelectionOwner" -> SetSelectionOwner(m)
    [] m.kind = "GetSelectionOwner" -> GetSelectionOwner(m)
    [] m.kind = "ConvertSelection" -> ConvertSelection(m)
    [] m.kind = "SendEvent" -> SendEvent(m)
    [] m.kind = "GrabPointer" -> GrabPointer(m)
    [] m.kind = "UngrabPointer" -> UngrabPointer(m)
    [] m.kind = "GrabButton" -> GrabButton(m)
    [] m.kind = "UngrabButton" -> UngrabButton(m)
    [] m.kind = "ChangeActivePointerGrab" -> ChangeActivePointerGrab(m)
    [] m.kind = "GrabKeyboard" -> GrabKeyboard(m)
    [] m.kind = "UngrabKeyboard" -> UngrabKeyboard(m)
    [] m.kind = "GrabKey" -> GrabKey(m)
    [] m.kind = "UngrabKey" -> UngrabKey(m)
    [] m.kind = "AllowEvents" -> AllowEvents(m)
    [] m.kind = "GrabServer" -> GrabServer(m)
    [] m.kind = "UngrabServer" -> UngrabServer(m)
    [] m.kind = "QueryPointer" -> QueryPointer(m)
    [] m.kind = "GetMotionEvents" -> GetMotionEvents(m)
    [] m.kind = "TranslateCoordinates" -> TranslateCoordinates(m)
    [] m.kind = "WarpPointer" -> WarpPointer(m)
    [] m.kind = "SetInputFocus" -> SetInputFocus(m)
    [] m.kind = "GetInputFocus" -> GetInputFocus(m)
    [] m.kind = "QueryKeymap" -> QueryKeymap(m)
    [] m.kind = "OpenFont" -> OpenFont(m)
    [] m.kind = "CloseFont" -> CloseFont(m)
    [] m.kind = "QueryFont" -> QueryFont(m)
    [] m.kind = "QueryTextExtents" -> QueryTextExtents(m)
    [] m.kind = "ListFonts" -> ListFonts(m)
    [] m.kind = "ListFontsWithInfo" -> ListFontsWithInfo(m)
    [] m.kind = "SetFontPath" -> SetFontPath(m)
    [] m.kind = "GetFontPath" -> GetFontPath(m)
    [] m.kind = "CreatePixmap" -> CreatePixmap(m)
    [] m.kind = "FreePixmap" -> FreePixmap(m)
    [] m.kind = "CreateGC" -> CreateGC(m)
    [] m.kind = "ChangeGC" -> ChangeGC(m)
    [] m.kind = "CopyGC" -> CopyGC(m)
    [] m.kind = "SetDashes" -> SetDashes(m)
    [] m.kind = "SetClipRectangles" -> SetClipRectangles(m)
    [] m.kind = "FreeGC" -> FreeGC(m)
    [] m.kind = "ClearArea" -> ClearArea(m)
    [] m.kind = "CopyArea" -> CopyArea(m)
    [] m.kind = "CopyPlane" -> CopyPlane(m)
    [] m.kind = "PolyPoint" -> PolyPoint(m)
    [] m.kind = "PolyLine" -> PolyLine(m)
    [] m.kind = "PolySegment" -> PolySegment(m)
    [] m.kind = "PolyRectangle" -> PolyRectangle(m)
    [] m.kind = "PolyArc" -> PolyArc(m)
    [] m.kind = "FillPoly" -> FillPoly(m)
    [] m.kind = "PolyFillRectangle" -> PolyFillRectangle(m)
    [] m.kind = "PolyFillArc" -> PolyFillArc(m)
    [] m.kind = "PutImage" -> PutImage(m)
    [] m.kind = "GetImage" -> GetImage(m)
    [] m.kind = "PolyText8" -> PolyText8(m)
    [] m.kind = "PolyText16" -> PolyText16(m)
    [] m.kind = "ImageText8" -> ImageText8(m)
    [] m.kind = "ImageText16" -> ImageText16(m)
    [] m.kind = "CreateColormap" -> CreateColormap(m)
    [] m.kind = "FreeColormap" -> FreeColormap(m)
    [] m.kind = "CopyColormapAndFree" -> CopyColormapAndFree(m)
    [] m.kind = "InstallColormap" -> InstallColormap(m)
    [] m.kind = "UninstallColormap" -> UninstallColormap(m)
    [] m.kind = "ListInstalledColormaps" -> ListInstalledColormaps(m)
    [] m.kind = "AllocColor" -> AllocColor(m)
    [] m.kind = "AllocNamedColor" -> AllocNamedColor(m)
    [] m.kind = "AllocColorCells" -> AllocColorCells(m)
    [] m.kind = "AllocColorPlanes" -> AllocColorPlanes(m)
    [] m.kind = "FreeColors" -> FreeColors(m)
    [] m.kind = "StoreColors" -> StoreColors(m)
    [] m.kind = "StoreNamedColor" -> StoreNamedColor(m)
    [] m.kind = "QueryColors" -> QueryColors(m)
    [] m.kind = "LookupColor" -> LookupColor(m)
    [] m.kind = "CreateCursor" -> CreateCursor(m)
    [] m.kind = "CreateGlyphCursor" -> CreateGlyphCursor(m)
    [] m.kind = "FreeCursor" -> FreeCursor(m)
    [] m.kind = "RecolorCursor" -> RecolorCursor(m)
    [] m.kind = "QueryBestSize" -> QueryBestSize(m)
    [] m.kind = "QueryExtension" -> QueryExtension(m)
    [] m.kind = "ListExtensions" -> ListExtensions(m)
    [] m.kind = "ChangeKeyboardMapping" -> ChangeKeyboardMapping(m)
    [] m.kind = "GetKeyboardMapping" -> GetKeyboardMapping(m)
    [] m.kind = "ChangeKeyboardControl" -> ChangeKeyboardControl(m)
    [] m.kind = "GetKeyboardControl" -> GetKeyboardControl(m)
    [] m.kind = "Bell" -> Bell(m)
    [] m.kind = "ChangePointerControl" -> ChangePointerControl(m)
    [] m.kind = "GetPointerControl" -> GetPointerControl(m)
    [] m.kind = "SetScreenSaver" -> SetScreenSaver(m)
    [] m.kind = "GetScreenSaver" -> GetScreenSaver(m)
    [] m.kind = "ChangeHosts" -> ChangeHosts(m)
    [] m.kind = "ListHosts" -> ListHosts(m)
    [] m.kind = "SetAccessControl" -> SetAccessControl(m)
    [] m.kind = "SetCloseDownMode" -> SetCloseDownMode(m)
    [] m.kind = "KillClient" -> KillClient(m)
    [] m.kind = "RotateProperties" -> RotateProperties(m)
    [] m.kind = "ForceScreenSaver" -> ForceScreenSaver(m)
    [] m.kind = "SetPointerMapping" -> SetPointerMapping(m)
    [] m.kind = "GetPointerMapping" -> GetPointerMapping(m)
    [] m.kind = "SetModifierMapping" -> SetModifierMapping(m)
    [] m.kind = "GetModifierMapping" -> GetModifierMapping(m)
    [] m.kind = "NoOperation" -> NoOperation(m)
=============================================================================
