---------------------------- MODULE ReplyParsers ----------------------------
EXTENDS MessageWalk

(***************************************************************************)
(* The walks of _parseReply, one for each request that has a reply.        *)
(* Numbers are the sizes of the structures as compiled.                    *)
(***************************************************************************)

\* extra_aligned_units
ExtraUnits(m) == (m.sz - ENCODING_SZ) \div ALIGN

Encoded(m, size) == Start(size, m)

\* The header's length is compared with what was walked.
FollowedBy(m, w) ==
  Asserting(w, ExtraUnits(m) = Units(w.at - ENCODING_SZ))

\* A count that is used, or compared, in the client's byte order
Raw16(m, n) == IF m.swap THEN Swap16(n) ELSE n
Raw32(m, n) == IF m.swap THEN Swap32Low(n) ELSE n

GetWindowAttributes(m) == FollowedBy(m, Encoded(m, 44))
GetGeometry(m) == FollowedBy(m, Encoded(m, 32))
QueryTree(m) == FollowedBy(m, List(Encoded(m, 32), m.sz - 32, m.n, 4))
InternAtom(m) == FollowedBy(m, Encoded(m, 32))
GetAtomName(m) == FollowedBy(m, String8(Encoded(m, 32), m.n))
GetProperty(m) ==
  LET value_sz == m.n * m.k
      reply == Encoded(m, 32)
  IN FollowedBy(m, IF m.opt THEN String8(reply, value_sz)
                   ELSE PaddedList(reply, m.sz - 32, value_sz, 1))
ListProperties(m) ==
  FollowedBy(m, PaddedList(Encoded(m, 32), m.sz - 32, Raw16(m, m.n), 4))
GetSelectionOwner(m) == FollowedBy(m, Encoded(m, 32))
GrabPointer(m) == FollowedBy(m, Encoded(m, 32))
GrabKeyboard(m) == FollowedBy(m, Encoded(m, 32))
QueryPointer(m) == FollowedBy(m, Encoded(m, 32))
GetMotionEvents(m) ==
  FollowedBy(m, List(Encoded(m, 32), m.sz - 32, Raw32(m, m.n), 8))
TranslateCoordinates(m) == FollowedBy(m, Encoded(m, 32))
GetInputFocus(m) == FollowedBy(m, Encoded(m, 32))
QueryKeymap(m) == FollowedBy(m, Encoded(m, 40))
QueryFont(m) ==
  LET properties == List(Encoded(m, 60), m.sz - 60, m.n, 8)
  IN FollowedBy(m, List(properties, m.sz - properties.at, m.k, 12))
QueryTextExtents(m) == FollowedBy(m, Encoded(m, 32))
ListFonts(m) ==
  FollowedBy(m, PaddedList(Encoded(m, 32), m.sz - 32, m.n, StrMember(m.k)))
ListFontsWithInfo(m) ==
  LET reply == Encoded(m, 60)
      properties == List(reply, m.sz - 60, m.n, 8)
  IN IF m.opt THEN Asserting(reply, ExtraUnits(m) = 7)
     ELSE FollowedBy(m, String8(properties, m.k))
GetFontPath(m) ==
  FollowedBy(m, PaddedList(Encoded(m, 32), m.sz - 32, m.n, StrMember(m.k)))
GetImage(m) ==
  FollowedBy(m, PaddedList(Encoded(m, 32), m.sz - 32, Size(ExtraUnits(m)), 1))
ListInstalledColormaps(m) ==
  FollowedBy(m, List(Encoded(m, 32), m.sz - 32, m.n, 4))
AllocColor(m) == FollowedBy(m, Encoded(m, 32))
AllocNamedColor(m) == FollowedBy(m, Encoded(m, 32))
AllocColorCells(m) ==
  LET pixels == List(Encoded(m, 32), m.sz - 32, m.n, 4)
  IN FollowedBy(m, List(pixels, m.sz - pixels.at, m.k, 4))
AllocColorPlanes(m) == FollowedBy(m, List(Encoded(m, 32), m.sz - 32, m.n, 4))
QueryColors(m) == FollowedBy(m, List(Encoded(m, 32), m.sz - 32, m.n, 8))
LookupColor(m) == FollowedBy(m, Encoded(m, 32))
QueryBestSize(m) == FollowedBy(m, Encoded(m, 32))
QueryExtension(m) == FollowedBy(m, Encoded(m, 32))
ListExtensions(m) ==
  FollowedBy(m, PaddedList(Encoded(m, 32), m.sz - 32, m.n, StrMember(m.k)))
GetKeyboardMapping(m) ==
  FollowedBy(m, List(Encoded(m, 32), m.sz - 32, Size(ExtraUnits(m)) \div 4, 4))
GetKeyboardControl(m) == FollowedBy(m, Encoded(m, 52))
GetPointerControl(m) == FollowedBy(m, Encoded(m, 32))
GetScreenSaver(m) == FollowedBy(m, Encoded(m, 32))
ListHosts(m) ==
  FollowedBy(m, List(Encoded(m, 32), m.sz - 32, m.n, HostMember(m.k)))
SetPointerMapping(m) == FollowedBy(m, Encoded(m, 32))
\* The length is compared unswapped: fewer than 2^16 units are then only equal
\* to themselves when there are none.
GetPointerMapping(m) ==
  LET map == PaddedList(Encoded(m, 32), m.sz - 32, m.n, 1)
  IN Asserting(FollowedBy(m, map), m.swap => ExtraUnits(m) = 0)
SetModifierMapping(m) == FollowedBy(m, Encoded(m, 32))
GetModifierMapping(m) ==
  FollowedBy(m, List(Encoded(m, 32), m.sz - 32, 8 * m.n, 1))

UnknownRequest(m) ==
  FollowedBy(m, Unparsed(Encoded(m, 32), Size(ExtraUnits(m))))
BigReqEnable(m) == FollowedBy(m, Asserting(Encoded(m, 32), ~m.enabled))

\* The parse function that _logReply finds under the request's opcode
ReplyWalk(m) ==
  CASE m.kind = "UnknownRequest" -> UnknownRequest(m)
    [] m.kind = "BigReqEnable" -> BigReqEnable(m)
    [] m.kind = "GetWindowAttributes" -> GetWindowAttributes(m)
    [] m.kind = "GetGeometry" -> GetGeometry(m)
    [] m.kind = "QueryTree" -> QueryTree(m)
    [] m.kind = "InternAtom" -> InternAtom(m)
    [] m.kind = "GetAtomName" -> GetAtomName(m)
    [] m.kind = "GetProperty" -> GetProperty(m)
    [] m.kind = "ListProperties" -> ListProperties(m)
    [] m.kind = "GetSelectionOwner" -> GetSelectionOwner(m)
    [] m.kind = "GrabPointer" -> GrabPointer(m)
    [] m.kind = "GrabKeyboard" -> GrabKeyboard(m)
    [] m.kind = "QueryPointer" -> QueryPointer(m)
    [] m.kind = "GetMotionEvents" -> GetMotionEvents(m)
    [] m.kind = "TranslateCoordinates" -> TranslateCoordinates(m)
    [] m.kind = "GetInputFocus" -> GetInputFocus(m)
    [] m.kind = "QueryKeymap" -> QueryKeymap(m)
    [] m.kind = "QueryFont" -> QueryFont(m)
    [] m.kind = "QueryTextExtents" -> QueryTextExtents(m)
    [] m.kind = "ListFonts" -> ListFonts(m)
    [] m.kind = "ListFontsWithInfo" -> ListFontsWithInfo(m)
    [] m.kind = "GetFontPath" -> GetFontPath(m)
    [] m.kind = "GetImage" -> GetImage(m)
    [] m.kind = "ListInstalledColormaps" -> ListInstalledColormaps(m)
    [] m.kind = "AllocColor" -> AllocColor(m)
    [] m.kind = "AllocNamedColor" -> AllocNamedColor(m)
    [] m.kind = "AllocColorCells" -> AllocColorCells(m)
    [] m.kind = "AllocColorPlanes" -> AllocColorPlanes(m)
    [] m.kind = "QueryColors" -> QueryColors(m)
    [] m.kind = "LookupColor" -> LookupColor(m)
    [] m.kind = "QueryBestSize" -> QueryBestSize(m)
    [] m.kind = "QueryExtension" -> QueryExtension(m)
    [] m.kind = "ListExtensions" -> ListExtensions(m)
    [] m.kind = "GetKeyboardMapping" -> GetKeyboardMapping(m)
    [] m.kind = "GetKeyboardControl" -> GetKeyboardControl(m)
    [] m.kind = "GetPointerControl" -> GetPointerControl(m)
    [] m.kind = "GetScreenSaver" -> GetScreenSaver(m)
    [] m.kind = "ListHosts" -> ListHosts(m)
    [] m.kind = "SetPointerMapping" -> SetPointerMapping(m)
    [] m.kind = "GetPointerMapping" -> GetPointerMapping(m)
    [] m.kind = "SetModifierMapping" -> SetModifierMapping(m)
    [] m.kind = "GetModifierMapping" -> GetModifierMapping(m)
=============================================================================
