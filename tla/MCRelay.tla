------------------------------ MODULE MCRelay ------------------------------
(* Scripts for the peers of one connection.                                *)
EXTENDS Relay, SequencesExt

(* The script that sends the messages of the sequence m.                   *)
Script(m) ==
  [cells |-> FlattenSeq(m),
   setup |-> Len(m[1]),
   ends  |-> {Len(FlattenSeq(SubSeq(m, 1, i))) : i \in 1 .. Len(m)}]

Initiation == <<ORDER, 1, 0, 10>>
Short      == <<11, 2>>
Big        == <<12, 0, 4, 13>>
Long       == <<14, 8, 15, 16, 17, 18, 19, 20>>   \* more than a block

Accept     == <<1, 1, 30>>
Event      == <<2, 31, 32>>
Error      == <<ERROR_PREFIX, 33, 34>>
Reply      == <<REPLY_PREFIX, 4, 35, 36, 37, 38, 39>>

MCScripts ==
  [d \in Dirs |->
    IF d = "client"
    THEN {Script(<<Initiation, Short, Big>>), Script(<<Initiation, Short, Long>>)}
    ELSE {Script(<<Accept, Error, Reply>>)}]

(* One short script each, for the liveness run.                            *)
MCOneScript ==
  [d \in Dirs |->
    IF d = "client" THEN {Script(<<Initiation, Short, Big>>)}
                    ELSE {Script(<<Accept, Reply>>)}]

(* A server that refuses the connection, or asks for authentication.       *)
MCRefusals ==
  [d \in Dirs |->
    IF d = "client" THEN {Script(<<Initiation>>)}
                    ELSE {Script(<<<<0, 1, 20>>>>), Script(<<<<2, 1, 20>>>>)}]

(* Everything a server may answer.                                         *)
MCAnyScripts ==
  [d \in Dirs |->
    IF d = "client"
    THEN MCScripts[d]
    ELSE {Script(<<Accept, Error, Event>>), Script(<<Accept, Event, Reply>>)}
           \cup MCRefusals[d]]

=============================================================================
