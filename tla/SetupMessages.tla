---------------------------- MODULE SetupMessages ----------------------------
EXTENDS MessageWalk, Sequences

(***************************************************************************)
(* The messages that open a connection, and the walks of                   *)
(* _logConnectionSetup through them. Their messages have a field screens   *)
(* instead of a flag: a sequence of screens, each of which is the sequence *)
(* of the numbers of visuals that its depths have. n is the length of the  *)
(* first string, k that of the second string or the number of formats.     *)
(***************************************************************************)

INITIATION_HEADER == 2 * CARD8 + 5 * CARD16
RESPONSE_HEADER == 2 * CARD8 + 3 * CARD16
ACCEPTANCE == 4 * CARD32 + 2 * CARD16 + 6 * CARD8 + 2 * KEYCODE + 4
FORMAT == 3 * CARD8 + 5
VISUALTYPE == VISUALID + 2 * CARD8 + CARD16 + 3 * CARD32 + 4
DEPTH_HEADER == CARD8 + 1 + CARD16 + 4
SCREEN_HEADER ==
  WINDOW + COLORMAP + 2 * CARD32 + SETofEVENT + 6 * CARD16 + VISUALID
    + 3 * CARD8 + BOOL

DEPTH(visuals_ct) == DEPTH_HEADER + VISUALTYPE * visuals_ct
SCREEN(depths) ==
  LET size[i \in 0 .. Len(depths)] ==
        IF i = 0 THEN SCREEN_HEADER ELSE size[i - 1] + DEPTH(depths[i])
  IN size[Len(depths)]
ROOTS(screens) ==
  LET size[i \in 0 .. Len(screens)] ==
        IF i = 0 THEN 0 ELSE size[i - 1] + SCREEN(screens[i])
  IN size[Len(screens)]

SetupKinds == {"Initiation", "Refusal", "RequireFurtherAuthentication",
  "Acceptance"}

SetupSize(m) ==
  CASE m.kind = "Initiation" -> INITIATION_HEADER + Pad(m.n) + Pad(m.k)
    [] m.kind = "Refusal" -> RESPONSE_HEADER + Pad(m.n)
    [] m.kind = "RequireFurtherAuthentication" -> RESPONSE_HEADER + Pad(m.n)
    [] m.kind = "Acceptance" ->
         RESPONSE_HEADER + ACCEPTANCE + Pad(m.n) + FORMAT * m.k
           + ROOTS(m.screens)

\* Lengths have 16 bits, but for a reason's (8); so has following_aligned_units.
SetupFits(m) ==
  /\ m.n <= (IF m.kind = "Refusal" THEN 255 ELSE 65535)
  /\ m.k <= (IF m.kind = "Initiation" THEN 65535 ELSE 255)
  /\ m.k > 0 => m.kind \in {"Initiation", "Acceptance"}
  /\ m.screens # << >> => m.kind = "Acceptance"
  /\ m.kind # "Initiation" => Units(SetupSize(m) - RESPONSE_HEADER) <= 65535

\* Only screens have ids and masks.
SetupIdsFit(m) == m.stray => m.screens # << >>

\* The members and characters a complete log of the message has: visuals are
\* counted, and of a request for authentication the whole padded reason.
Visuals(depths) ==
  LET ct[i \in 0 .. Len(depths)] ==
        IF i = 0 THEN 0 ELSE ct[i - 1] + depths[i]
  IN ct[Len(depths)]

SetupMembers(m) ==
  LET members[i \in 0 .. Len(m.screens)] ==
        IF i = 0 THEN m.n + m.k ELSE members[i - 1] + Visuals(m.screens[i])
  IN IF m.kind = "RequireFurtherAuthentication" THEN Pad(m.n)
     ELSE members[Len(m.screens)]

\* The header of a list member, which has to lie within what is left
MemberHeader(m, w, size) ==
  Asserting(Unparsed(w, size), w.at + size <= m.sz)

Depth(m, w, visuals_ct) ==
  LET header == MemberHeader(m, w, 8)
  IN List(header, m.sz - header.at, visuals_ct, 24)

Screen(m, w, depths) ==
  LET walk[i \in 0 .. Len(depths)] ==
        IF i = 0 THEN MemberHeader(m, w, 40)
        ELSE Depth(m, walk[i - 1], depths[i])
  IN walk[Len(depths)]

Roots(m, w) ==
  LET walk[i \in 0 .. Len(m.screens)] ==
        IF i = 0 THEN w ELSE Screen(m, walk[i - 1], m.screens[i])
  IN walk[Len(m.screens)]

\* The length in the header is compared with what was walked.
AfterHeader(m, w) == Asserting(w, Units(m.sz - 8) = Units(w.at - 8))

Initiation(m) ==
  LET name == String8(Start(12, m), m.n)
      walk == PaddedList(name, m.k, m.k, 1)
  IN Asserting(walk, walk.at = m.sz)

Refusal(m) == AfterHeader(m, String8(Start(8, m), m.n))

RequireFurtherAuthentication(m) ==
  AfterHeader(m, String8(Start(8, m), Size(Units(m.sz - 8))))

Acceptance(m) ==
  LET vendor == String8(Start(40, m), m.n)
      formats == List(vendor, m.sz - vendor.at, m.k, 8)
  IN AfterHeader(m, Roots(m, formats))

(* Variant: any answer is good enough. *)
InitResponse_Unchecked(m) ==
  CASE m.kind = "Refusal" -> Refusal(m)
    [] m.kind = "RequireFurtherAuthentication" -> RequireFurtherAuthentication(m)
    [] m.kind = "Acceptance" -> Acceptance(m)

(***************************************************************************)
(* logServerMessages asserts that the answer has opened the connection.    *)
(***************************************************************************)
InitResponse(m) ==
  CASE m.kind = "Refusal" -> Asserting(Refusal(m), FALSE)
    [] m.kind = "RequireFurtherAuthentication" ->
         Asserting(RequireFurtherAuthentication(m), FALSE)
    [] m.kind = "Acceptance" -> Acceptance(m)

SetupWalk(m) == IF m.kind = "Initiation" THEN Initiation(m) ELSE InitResponse(m)
=============================================================================
