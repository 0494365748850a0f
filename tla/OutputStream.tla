----------------------------- MODULE OutputStream -----------------------------
(***************************************************************************)
(* What "zadb shell CMD" and "zadb logcat" promise: the output of the      *)
(* command, all of it and in order, and then the end.  No packets, no ids, *)
(* no threads.                                                             *)
(***************************************************************************)
EXTENDS Naturals, Sequences

CONSTANT Data

VARIABLES
  produced,     \* what the command has written on the device
  printed,      \* what the program has printed
  ended         \* the program has seen the end of the output

vars == <<produced, printed, ended>>

Init == produced = <<>> /\ printed = <<>> /\ ended = FALSE

Produce ==
  /\ ~ ended
  /\ \E d \in Data : produced' = Append(produced, d)
  /\ UNCHANGED <<printed, ended>>

Emit ==
  /\ ~ ended
  /\ Len(printed) < Len(produced)
  /\ printed' = Append(printed, produced[Len(printed) + 1])
  /\ UNCHANGED <<produced, ended>>

End ==
  /\ printed = produced
  /\ ended' = TRUE
  /\ UNCHANGED <<produced, printed>>

Next == Produce \/ Emit \/ End

Spec == Init /\ [][Next]_vars
=============================================================================
