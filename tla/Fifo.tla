-------------------------------- MODULE Fifo --------------------------------
(***************************************************************************)
(* What each of the two queues between the terminal and the page promises: *)
(* what goes in comes out, once and in order.                              *)
(***************************************************************************)
EXTENDS Naturals, Sequences

CONSTANT Item

VARIABLES
  put,      \* everything that went in
  taken     \* everything that came out

Init == put = <<>> /\ taken = <<>>

Put == \E item \in Item : put' = Append(put, item) /\ UNCHANGED taken

Take ==
  /\ Len(taken) < Len(put)
  /\ taken' = Append(taken, put[Len(taken) + 1])
  /\ UNCHANGED put

Spec == Init /\ [][Put \/ Take]_<<put, taken>>
=============================================================================
