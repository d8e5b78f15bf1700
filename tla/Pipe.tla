-------------------------------- MODULE Pipe --------------------------------
(***************************************************************************)
(* What the proxy promises for one direction of a connection: a pipe that  *)
(* delivers what it received, unchanged and in order, and delivers nothing *)
(* before it is logged.  A delivery sends everything logged so far.        *)
(***************************************************************************)
EXTENDS Naturals, Sequences

VARIABLES
  received,   \* the cells taken from the sender
  marked,     \* how many of them belong to logged messages
  sent        \* the cells delivered to the receiver

pipe == <<received, marked, sent>>

(* t continues s.                                                          *)
Continues(t, s) == Len(s) <= Len(t) /\ SubSeq(t, 1, Len(s)) = s

PipeInit == received = <<>> /\ marked = 0 /\ sent = <<>>

Receive == /\ Continues(received', received)
           /\ UNCHANGED <<marked, sent>>

Log == /\ marked' \in (marked + 1) .. Len(received)
       /\ UNCHANGED <<received, sent>>

Deliver == /\ sent' = SubSeq(received, 1, marked)
           /\ UNCHANGED <<received, marked>>

PipeNext == Receive \/ Log \/ Deliver

PipeSpec == PipeInit /\ [][PipeNext]_pipe

=============================================================================
