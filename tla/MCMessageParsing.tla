-------------------------- MODULE MCMessageParsing --------------------------
(* Lengths around the boundaries of padding and of 8- and 16-bit counts.   *)
EXTENDS MessageParsing

MCCounts == 0 .. 5 \cup {254, 255, 256, 257, 65535, 65536, 65537}
MCWidths == {0, 1, 2, 3, 4, 254, 255}
MCRequests == ReqEnc!RequestKinds
MCReplies == RepEnc!ReplyKinds

\* One screen of one depth, and two of which the first has an empty depth
MCScreens == {<< >>, << <<1>> >>, << <<3, 0, 255>>, << >>, <<2000>> >>}
=============================================================================
