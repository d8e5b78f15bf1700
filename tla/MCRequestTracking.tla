------------------------- MODULE MCRequestTracking -------------------------
(* Two clients, a name that is the allowed extension's, and one that is an *)
(* atom's and a denied extension's.                                        *)
EXTENDS RequestTracking, TLC

CONSTANTS big, other, c1, c2

MCNames == {big, other}
MCServerExts == {big, other}
MCAllowed == {big}
MCBig == big
MCConns == {c1, c2}
MCSent == (c1 :> Kinds) @@ (c2 :> Naming)

MCFour == (c1 :> 4) @@ (c2 :> 1)
=============================================================================
