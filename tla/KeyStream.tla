------------------------------ MODULE KeyStream ------------------------------
(***************************************************************************)
(* What the keyboard mode of zadb promises about keystrokes, with no list, *)
(* no nodes and no locks: accepted keys wait in the order they were typed, *)
(* the sender takes a nonempty prefix of them at a time, and what it took  *)
(* is either written to the device in that order or, while the stream is   *)
(* not ready, thrown away.                                                 *)
(***************************************************************************)
EXTENDS Sequences, Naturals

CONSTANT Keys          \* the keystrokes

VARIABLES
  pending,             \* accepted keys not yet taken, oldest first
  hand,                \* the keys the sender holds
  delivered,           \* the keys written to the device, in order
  open                 \* TRUE once the device has accepted the stream

vars == <<pending, hand, delivered, open>>

Init ==
  /\ pending = <<>>
  /\ hand = <<>>
  /\ delivered = <<>>
  /\ open = FALSE

Type(key) ==
  /\ pending' = Append(pending, key)
  /\ UNCHANGED <<hand, delivered, open>>

Take ==
  /\ hand = <<>>
  /\ \E n \in 1 .. Len(pending) :
       /\ hand' = SubSeq(pending, 1, n)
       /\ pending' = SubSeq(pending, n + 1, Len(pending))
  /\ UNCHANGED <<delivered, open>>

Deliver ==
  /\ hand # <<>>
  /\ delivered' = IF open THEN delivered \o hand ELSE delivered
  /\ hand' = <<>>
  /\ UNCHANGED <<pending, open>>

Open ==
  /\ open' = TRUE
  /\ UNCHANGED <<pending, hand, delivered>>

Next == (\E key \in Keys : Type(key)) \/ Take \/ Deliver \/ Open

\* What may happen to the keys, and that those accepted move on.
Steps == Init /\ [][Next]_vars
Moves == WF_vars(Take) /\ WF_vars(Deliver)

Spec == Steps /\ Moves
=============================================================================
