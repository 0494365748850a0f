------------------------------ MODULE MCUsbfs ------------------------------
(* Instances of Usbfs for TLC. *)
EXTENDS Usbfs

Bulk(n, out) == [type |-> "bulk", out |-> out, length |-> n, packets |-> <<>>]
Iso(lens) == [type |-> "iso", out |-> FALSE, length |-> 0, packets |-> lens]
Control(n) == [type |-> "control", out |-> FALSE, length |-> n, packets |-> <<>>]

\* Reads of no bytes, of two URBs and of three, the last one partial; a write
\* of two; isochronous packets that share URBs and that need one each; a
\* control transfer.
MCRequests == {Bulk(0, FALSE), Bulk(4, FALSE), Bulk(5, FALSE), Bulk(3, TRUE),
               Iso(<<1, 1, 2, 1>>), Iso(<<2, 2, 1>>), Control(1)}
============================================================================
