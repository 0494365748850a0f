------------------------------ MODULE MCSession ------------------------------
(***************************************************************************)
(* Session for TLC, and the refinement of OutputStream in command mode.    *)
(***************************************************************************)
EXTENDS Session

\* read_and_dump is over: send_open was called and its CLOSE has come.
DumpOver == seed > 0 /\ main \in {"close", "exit"}

Stream == INSTANCE OutputStream WITH Data <- 1 .. MaxData, ended <- DumpOver

\* A command's output is printed completely and in order before the program
\* ends, whatever the threads' interleaving; half-established streams print
\* a prefix and never end.
ImplementsOutputStream == Stream!Spec
=============================================================================
