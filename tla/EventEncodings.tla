--------------------------- MODULE EventEncodings ---------------------------
EXTENDS MessageWalk

(***************************************************************************)
(* Events and errors, field by field from the structures of events.hpp and *)
(* errors.hpp: all are to have ENCODING_SZ bytes.                          *)
(***************************************************************************)

\* code, a byte that some events use, and the sequence number
EVENT_HEADER == 2 * CARD8 + CARD16

InputEvent ==
  EVENT_HEADER + TIMESTAMP + 3 * WINDOW + 4 * INT16 + SETofKEYBUTMASK + BOOL + 1
BoundaryEvent ==
  EVENT_HEADER + TIMESTAMP + 3 * WINDOW + 4 * INT16 + SETofKEYBUTMASK
    + 2 * CARD8
FocusEvent == EVENT_HEADER + WINDOW + CARD8 + 23
KeyPress == InputEvent
KeyRelease == InputEvent
ButtonPress == InputEvent
ButtonRelease == InputEvent
MotionNotify ==
  EVENT_HEADER + TIMESTAMP + 3 * WINDOW + 4 * INT16 + SETofKEYBUTMASK + BOOL + 1
EnterNotify == BoundaryEvent
LeaveNotify == BoundaryEvent
FocusIn == FocusEvent
FocusOut == FocusEvent
KeymapNotify == CARD8 + 31 * CARD8
Expose == EVENT_HEADER + WINDOW + 5 * CARD16 + 14
GraphicsExposure == EVENT_HEADER + DRAWABLE + 6 * CARD16 + CARD8 + 11
NoExposure == EVENT_HEADER + DRAWABLE + CARD16 + CARD8 + 21
VisibilityNotify == EVENT_HEADER + WINDOW + CARD8 + 23
CreateNotify == EVENT_HEADER + 2 * WINDOW + 2 * INT16 + 3 * CARD16 + BOOL + 9
DestroyNotify == EVENT_HEADER + 2 * WINDOW + 20
UnmapNotify == EVENT_HEADER + 2 * WINDOW + BOOL + 19
MapNotify == EVENT_HEADER + 2 * WINDOW + BOOL + 19
MapRequest == EVENT_HEADER + 2 * WINDOW + 20
ReparentNotify == EVENT_HEADER + 3 * WINDOW + 2 * INT16 + BOOL + 11
ConfigureNotify == EVENT_HEADER + 3 * WINDOW + 2 * INT16 + 3 * CARD16 + BOOL + 5
ConfigureRequest == EVENT_HEADER + 3 * WINDOW + 2 * INT16 + 4 * CARD16 + 4
GravityNotify == EVENT_HEADER + 2 * WINDOW + 2 * INT16 + 16
ResizeRequest == EVENT_HEADER + WINDOW + 2 * CARD16 + 20
CirculateNotify == EVENT_HEADER + 3 * WINDOW + CARD8 + 15
CirculateRequest == EVENT_HEADER + 2 * WINDOW + CARD32 + CARD8 + 15
PropertyNotify == EVENT_HEADER + WINDOW + ATOM + TIMESTAMP + CARD8 + 15
SelectionClear == EVENT_HEADER + TIMESTAMP + WINDOW + ATOM + 16
SelectionRequest == EVENT_HEADER + TIMESTAMP + 2 * WINDOW + 3 * ATOM + 4
SelectionNotify == EVENT_HEADER + TIMESTAMP + WINDOW + 3 * ATOM + 8
ColormapNotify == EVENT_HEADER + WINDOW + COLORMAP + BOOL + CARD8 + 18
ClientMessage == EVENT_HEADER + WINDOW + ATOM + 20
MappingNotify == EVENT_HEADER + 2 * CARD8 + KEYCODE + 25

SimpleError == EVENT_HEADER + CARD32 + CARD16 + CARD8 + 21
ResourceIdError == EVENT_HEADER + CARD32 + CARD16 + CARD8 + 21
RequestError == SimpleError
ValueError == EVENT_HEADER + CARD32 + CARD16 + CARD8 + 21
WindowError == ResourceIdError
PixmapError == ResourceIdError
AtomError == EVENT_HEADER + CARD32 + CARD16 + CARD8 + 21
CursorError == ResourceIdError
FontError == ResourceIdError
MatchError == SimpleError
DrawableError == ResourceIdError
AccessError == SimpleError
AllocError == SimpleError
ColormapError == ResourceIdError
GContextError == ResourceIdError
IDChoiceError == ResourceIdError
NameError == SimpleError
LengthError == SimpleError
ImplementationError == SimpleError

\* What _event_codes and _error_codes lead to
Events ==
  [KeyPress |-> KeyPress, KeyRelease |-> KeyRelease,
   ButtonPress |-> ButtonPress, ButtonRelease |-> ButtonRelease,
   MotionNotify |-> MotionNotify, EnterNotify |-> EnterNotify,
   LeaveNotify |-> LeaveNotify, FocusIn |-> FocusIn, FocusOut |-> FocusOut,
   KeymapNotify |-> KeymapNotify, Expose |-> Expose,
   GraphicsExposure |-> GraphicsExposure, NoExposure |-> NoExposure,
   VisibilityNotify |-> VisibilityNotify, CreateNotify |-> CreateNotify,
   DestroyNotify |-> DestroyNotify, UnmapNotify |-> UnmapNotify,
   MapNotify |-> MapNotify, MapRequest |-> MapRequest,
   ReparentNotify |-> ReparentNotify, ConfigureNotify |-> ConfigureNotify,
   ConfigureRequest |-> ConfigureRequest, GravityNotify |-> GravityNotify,
   ResizeRequest |-> ResizeRequest, CirculateNotify |-> CirculateNotify,
   CirculateRequest |-> CirculateRequest, PropertyNotify |-> PropertyNotify,
   SelectionClear |-> SelectionClear, SelectionRequest |-> SelectionRequest,
   SelectionNotify |-> SelectionNotify, ColormapNotify |-> ColormapNotify,
   ClientMessage |-> ClientMessage, MappingNotify |-> MappingNotify]

Errors ==
  [RequestError |-> RequestError, ValueError |-> ValueError,
   WindowError |-> WindowError, PixmapError |-> PixmapError,
   AtomError |-> AtomError, CursorError |-> CursorError,
   FontError |-> FontError, MatchError |-> MatchError,
   DrawableError |-> DrawableError, AccessError |-> AccessError,
   AllocError |-> AllocError, ColormapError |-> ColormapError,
   GContextError |-> GContextError, IDChoiceError |-> IDChoiceError,
   NameError |-> NameError, LengthError |-> LengthError,
   ImplementationError |-> ImplementationError]

\* Ids, atoms and masks: the values in errors are logged as numbers.
EventIdsFit(m) ==
  m.stray => m.kind \in DOMAIN Events \ {"KeymapNotify", "MappingNotify"}

\* An event or an error of an extension has a code that nobody registered, and
\* _event_codes.at() and _error_codes.at() throw std::out_of_range.
EventWalk(m, sizes) ==
  IF m.kind \in DOMAIN sizes THEN Unparsed(Start(0, m), sizes[m.kind])
  ELSE Asserting(Start(0, m), FALSE)
=============================================================================
