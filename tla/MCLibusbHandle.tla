--------------------------- MODULE MCLibusbHandle --------------------------
(* Instances of LibusbHandle for TLC. *)
EXTENDS LibusbHandle

\* Two threads share a handle, or each has its own.
MCUsers == {[t1 |-> "h1", t2 |-> "h1"], [t1 |-> "h1", t2 |-> "h2"]}

\* A short configuration, a long one, and one whose value has three digits.
MCConfigs == <<[value |-> 1, total |-> 1], [value |-> 2, total |-> 3],
               [value |-> 100, total |-> 2]>>
============================================================================
