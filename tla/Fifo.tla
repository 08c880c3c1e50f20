------------------------------- MODULE Fifo -------------------------------
(***************************************************************************)
(* What a pipe promises its users: a bounded queue of bytes that come out  *)
(* in the order they went in, once each.                                   *)
(***************************************************************************)
EXTENDS Naturals, Sequences

CONSTANTS Byte, Size

VARIABLES queue, got   \* the byte received last

absVars == <<queue, got>>

AbsInit == queue = <<>>

Send(b) ==
  /\ Len(queue) < Size
  /\ queue' = Append(queue, b)
  /\ UNCHANGED got

Receive ==
  /\ queue # <<>>
  /\ got' = Head(queue)
  /\ queue' = Tail(queue)

\* A reader whose buffer is not there takes a byte and does not get it.
Lose ==
  /\ queue # <<>>
  /\ queue' = Tail(queue)
  /\ UNCHANGED got

AbsNext == (\E b \in Byte : Send(b)) \/ Receive \/ Lose

AbsSpec == AbsInit /\ [][AbsNext]_absVars
=============================================================================
