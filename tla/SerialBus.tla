------------------------------ MODULE SerialBus -------------------------------
(***************************************************************************)
(* What a session on the serial bus is to the program that holds it and to *)
(* the file side, with no lines, bits or timers: a byte that the computer  *)
(* sends is handed on once, in order, before the next one is sent, and a   *)
(* byte that a file gives is received once, in order, before the next one  *)
(* is fetched, with the mark of the last byte where the file had it.       *)
(***************************************************************************)
EXTENDS Integers, Sequences

CONSTANTS Byte

VARIABLES sent,     \* the bytes of data the computer began to send
          taken,    \* those the file side has been given
          gave,     \* the bytes the file side was asked for
          recv      \* those the computer received

bvars == <<sent, taken, gave, recv>>

SInit == sent = <<>> /\ taken = <<>> /\ gave = <<>> /\ recv = <<>>

Begin == sent' = <<>> /\ taken' = <<>> /\ gave' = <<>> /\ recv' = <<>>

Send(b) == /\ taken = sent
           /\ sent' = Append(sent, b)
           /\ UNCHANGED <<taken, gave, recv>>

Take == /\ Len(taken) < Len(sent)
        /\ taken' = Append(taken, sent[Len(taken) + 1])
        /\ UNCHANGED <<sent, gave, recv>>

Give(e) == /\ recv = gave
           /\ gave' = Append(gave, e)
           /\ UNCHANGED <<sent, taken, recv>>

Receive == /\ Len(recv) < Len(gave)
           /\ recv' = Append(recv, gave[Len(recv) + 1])
           /\ UNCHANGED <<sent, taken, gave>>

SNext == \/ Begin \/ Take \/ Receive
         \/ \E b \in Byte : Send(b)
         \/ \E e \in [byte : Byte, last : BOOLEAN] : Give(e)

SSpec == SInit /\ [][SNext]_bvars
=============================================================================
