---------------------------- MODULE MCLifecycle ----------------------------
(* One proxy with every setting, and three that listen on Unix sockets:    *)
(* two for the same display, and one that connects through them.           *)
EXTENDS Lifecycle, TLC

CONSTANTS p1, p2, p3, d1, d2, i1, i2, i3, i4

MCOne == {p1}
MCThree == {p1, p2, p3}
MCIn  == [p \in Proxies |-> IF p = p2 THEN d2 ELSE d1]
MCOut == [p \in Proxies |-> IF p = p2 THEN d1 ELSE "server"]

MCInodes == {i1, i2, i3, i4}

MCAny == [inUnix : BOOLEAN, outUnix : BOOLEAN, copyauth : BOOLEAN,
          systemtimeformat : BOOLEAN, prefetchatoms : BOOLEAN]
MCUnix == {s \in MCAny : /\ s.inUnix /\ s.outUnix /\ s.copyauth
                         /\ ~s.systemtimeformat /\ ~s.prefetchatoms}

MCSymmetry == Permutations(MCInodes)
=============================================================================
