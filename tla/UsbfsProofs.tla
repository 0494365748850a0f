---------------------------- MODULE UsbfsProofs ----------------------------
(***************************************************************************)
(* A transfer is reported as timed out or cancelled only if that was asked *)
(* for since it was last submitted, for every set of users and requests    *)
(* and every size of URB.  CancelTruly is not inductive: Complete looks at *)
(* timed_out and reap_action, which have to agree with what was asked.     *)
(*                                                                         *)
(* Then TransferOK.  Accounted counts only while nobody holds the lock:    *)
(* AllInv says how many URBs there are in the middle of a call, that the   *)
(* kernel has no URB of a block twice and none that was not submitted, and *)
(* that the handler has a URB in hand only while libusb owns the transfer. *)
(*                                                                         *)
(* Then DataInPlace.  DataInv says, while the URBs of a request are on     *)
(* their way, which bytes of it are where: those the transfer has, then    *)
(* those in the handler's hand, then those of the finished URBs, and those *)
(* of the queued ones are still to come; and in which order URBs come back *)
(* as long as nothing went wrong.                                          *)
(***************************************************************************)
EXTENDS Usbfs, TLAPS, SequenceFacts, SequenceTheorems

\* The timeout flag is set only by a timeout of this submission.
FlagAsked == timed_out \in BOOLEAN /\ (timed_out => "timeout" \in asked)

\* A transfer is being cancelled because the user or a timeout asked for it.
ReapAsked == (reap_action = "CANCELLED" /\ ~timed_out) => "user" \in asked

\* The inductive invariant.
Inv == FlagAsked /\ ReapAsked /\ CancelTruly

\* Before the first submission nothing has been asked for.
LEMMA InitInv == Init => Inv
BY DEF Init, Inv, FlagAsked, ReapAsked, CancelTruly

\* Steps that touch neither the report nor what it is made from keep it: those
\* of the kernel, and of the loops over the URBs.
LEMMA KeepInv ==
  ASSUME Inv, UNCHANGED <<timed_out, asked, status>>,
         reap_action' = "CANCELLED" => reap_action = "CANCELLED"
  PROVE  Inv'
BY DEF Inv, FlagAsked, ReapAsked, CancelTruly

\* Whatever a completion reports, a report of cancellation follows the flag and
\* the reason the URBs were reaped for (handle_bulk_completion, linux_usbfs.c).
LEMMA CompleteInv ==
  ASSUME Inv, UNCHANGED <<timed_out, asked, reap_action>>,
         \/ status' \notin {"TIMED_OUT", "CANCELLED"}
         \/ status' = Cancelled /\ reap_action = "CANCELLED"
  PROVE  Inv'
<1>1. status' = "TIMED_OUT" => timed_out
  BY DEF Cancelled
<1>2. status' = "CANCELLED" => reap_action = "CANCELLED" /\ ~timed_out
  BY DEF Cancelled
<1> QED
  BY <1>1, <1>2 DEF Inv, FlagAsked, ReapAsked, CancelTruly

\* A submission starts afresh: no flag, no reason, no report, nothing asked
\* for (libusb_submit_transfer, io.c).
LEMMA SubmitInv ==
  ASSUME NEW u \in Users, Submit(u)
  PROVE  Inv'
BY DEF Submit, ResetTransfer, Inv, FlagAsked, ReapAsked, CancelTruly

\* A cancellation sets flag and reason as it was asked for (handle_timeout and
\* libusb_cancel_transfer, io.c).
LEMMA CancelInv ==
  ASSUME Inv, NEW u \in Users, Cancel(u)
  PROVE  Inv'
<1>1. PICK why \in {"user", "timeout"} :
        /\ asked' = asked \cup {why}
        /\ timed_out' = (timed_out \/ why = "timeout")
  BY DEF Cancel
<1>2. status' = status
  BY DEF Cancel
<1>3. asked \subseteq asked' /\ why \in asked'
  BY <1>1
<1>4. FlagAsked'
  <2>1. timed_out' \in BOOLEAN
    BY <1>1
  <2>2. timed_out' => timed_out \/ why = "timeout"
    BY <1>1, Zenon DEF Inv, FlagAsked
  <2> QED
    BY <1>3, <2>1, <2>2 DEF Inv, FlagAsked
<1>5. ReapAsked'
  <2>1. why = "timeout" => timed_out'
    BY <1>1, Zenon DEF Inv, FlagAsked
  <2> QED
    BY <1>1, <1>3, <2>1 DEF ReapAsked
<1>6. CancelTruly'
  BY <1>2, <1>3 DEF Inv, CancelTruly
<1> QED
  BY <1>4, <1>5, <1>6 DEF Inv

\* The other calls of a user: none of them reports anything, and a submission
\* that failed half way is no cancellation.
LEMMA UserInv ==
  ASSUME Inv, NEW u \in Users, UserStep(u) \/ FreeTransfer(u)
  PROVE  Inv'
<1>1. CASE SubmitUrb(u)
  <2>1. UNCHANGED <<timed_out, asked, status>>
    BY <1>1 DEF SubmitUrb, transfer
  <2>2. reap_action' \in {reap_action, "SUBMIT_FAILED"}
    BY <1>1 DEF SubmitUrb, tpriv
  <2> QED
    BY <2>1, <2>2, KeepInv
<1>2. CASE UndoUrb(u)
  BY <1>2, KeepInv DEF UndoUrb, transfer, tpriv
<1>3. CASE CancelUrb(u)
  BY <1>3, KeepInv DEF CancelUrb, transfer, tpriv
<1>4. CASE FreeTransfer(u)
  BY <1>4, KeepInv DEF FreeTransfer, transfer, tpriv
<1> QED
  BY <1>1, <1>2, <1>3, <1>4 DEF UserStep

\* The event handler reports a cancellation only where the reason is one
\* (reap_for_handle and the completions, linux_usbfs.c).
LEMMA HandlerInv ==
  ASSUME Inv, HandlerStep
  PROVE  Inv'
<1>1. CASE reap_for_handle
  BY <1>1, KeepInv DEF reap_for_handle, tpriv
<1>2. CASE handle_bulk_abnormal
  <2>1. UNCHANGED <<timed_out, asked, reap_action>>
    BY <1>2 DEF handle_bulk_abnormal, HandlerOnly
  <2>2. \/ status' = status
        \/ status' \in {"COMPLETED", "ERROR"}
        \/ status' = Cancelled /\ reap_action = "CANCELLED"
    BY <1>2 DEF handle_bulk_abnormal, Complete
  <2> QED
    BY <2>1, <2>2, KeepInv, CompleteInv
<1>3. CASE handle_bulk_completion
  <2>1. UNCHANGED <<timed_out, asked>>
    BY <1>3 DEF handle_bulk_completion, HandlerOnly
  <2>2. \/ status' = status /\ reap_action' \in {reap_action, "COMPLETED_EARLY"}
        \/ /\ status' \in {"COMPLETED", "STALL", "OVERFLOW", "ERROR"}
           /\ reap_action' = reap_action
    BY <1>3 DEF handle_bulk_completion, Complete, BulkStatus
  <2> QED
    BY <2>1, <2>2, KeepInv, CompleteInv
<1>4. CASE DiscardRest
  BY <1>4, KeepInv DEF DiscardRest, transfer, tpriv
<1>5. CASE handle_iso_completion
  <2>1. UNCHANGED <<timed_out, asked, reap_action>>
    BY <1>5 DEF handle_iso_completion, HandlerOnly
  <2>2. \/ status' = status
        \/ status' \in {"COMPLETED", "ERROR"}
        \/ status' = Cancelled /\ reap_action = "CANCELLED"
    BY <1>5 DEF handle_iso_completion, Complete
  <2> QED
    BY <2>1, <2>2, KeepInv, CompleteInv
<1>6. CASE handle_control_completion
  <2>1. UNCHANGED <<timed_out, asked, reap_action>>
    BY <1>6 DEF handle_control_completion, HandlerOnly
  <2>2. \/ status' \in {"COMPLETED", "STALL", "ERROR"}
        \/ status' = Cancelled /\ reap_action = "CANCELLED"
    BY <1>6 DEF handle_control_completion, Complete
  <2> QED
    BY <2>1, <2>2, CompleteInv
<1>7. CASE handle_disconnect
  <2>1. UNCHANGED <<timed_out, asked, reap_action>>
    BY <1>7 DEF handle_disconnect
  <2>2. status' \in {status, "NO_DEVICE"}
    BY <1>7 DEF handle_disconnect, Complete
  <2> QED
    BY <2>1, <2>2, KeepInv, CompleteInv
<1>8. CASE Callback
  BY <1>8, KeepInv DEF Callback, transfer, tpriv
<1>9. CASE UnlockAgain
  BY <1>9, KeepInv DEF UnlockAgain, transfer, tpriv
<1> QED
  BY <1>1, <1>2, <1>3, <1>4, <1>5, <1>6, <1>7, <1>8, <1>9 DEF HandlerStep

\* Every step keeps the invariant.
LEMMA StepInv == Inv /\ [Next]_vars => Inv'
<1> SUFFICES ASSUME Inv, [Next]_vars PROVE Inv'
  OBVIOUS
<1>1. CASE \E u \in Users : Submit(u) \/ UserStep(u) \/ Cancel(u) \/ FreeTransfer(u)
  BY <1>1, SubmitInv, UserInv, CancelInv
<1>2. CASE HandlerStep
  BY <1>2, HandlerInv
<1>3. CASE KernelComplete
  BY <1>3, KeepInv DEF KernelComplete, transfer, tpriv
<1>4. CASE Unplug
  BY <1>4, KeepInv DEF Unplug, transfer, tpriv
<1>5. CASE UNCHANGED vars
  BY <1>5, KeepInv DEF vars, transfer, tpriv
<1> QED
  BY <1>1, <1>2, <1>3, <1>4, <1>5 DEF Next

\* A transfer is reported as timed out or cancelled only if that was asked for
\* since its last submission (libusb_submit_transfer and handle_timeout, io.c;
\* the completions of linux_usbfs.c).
THEOREM CancelledTruly == Spec => []CancelTruly
<1>1. Inv => CancelTruly
  BY DEF Inv
<1> QED
  BY InitInv, StepInv, <1>1, PTL DEF Spec

----------------------------------------------------------------------------
(* Parts of a list *)

\* Induction over a sequence that grows at its end.
LEMMA SeqInduction ==
  ASSUME NEW S, NEW T, <<>> \in T,
         \A s \in Seq(S), e \in S : s \in T => Append(s, e) \in T
  PROVE  \A s \in Seq(S) : s \in T
<1> SUFFICES ASSUME NEW q \in Seq(S) PROVE q \in T
  OBVIOUS
<1> DEFINE n == Len(q)
           part(k) == [j \in 1 .. k |-> q[j]]
           U == {k \in 0 .. n : part(k) \in T}
<1>1. n \in Nat /\ q = [j \in 1 .. n |-> q[j]] /\ \A j \in 1 .. n : q[j] \in S
  BY LenProperties, ElementOfSeq
<1>2. part(0) = <<>>
  OBVIOUS
<1>3. 0 \in U
  BY <1>1, <1>2
<1>4. ASSUME NEW k \in 0 .. n - 1, k \in U
      PROVE  k + 1 \in U
  <2>1. part(k) \in Seq(S) /\ Len(part(k)) = k /\ q[k + 1] \in S /\ k + 1 \in 0 .. n
    BY <1>1
  <2>2. part(k + 1) = Append(part(k), q[k + 1])
    BY <2>1
  <2>3. part(k) \in T
    BY <1>4
  <2> HIDE DEF part
  <2> QED
    BY <2>1, <2>2, <2>3
<1>5. n \in 0 .. n
  BY <1>1
<1>6. n \in U
  <2> HIDE DEF U, n
  <2> QED
    BY <1>1, <1>3, <1>4, <1>5, UpTo
<1> QED
  BY <1>1, <1>6

\* Nothing is kept of nothing, and an element at the end is or is not.
LEMMA KeptEmpty ==
  ASSUME NEW T
  PROVE  Kept(<<>>, T) = <<>>
<1>1. [k \in DOMAIN <<>> |-> IF <<>>[k] \in T THEN <<<<>>[k]>> ELSE <<>>] = <<>>
  OBVIOUS
<1> QED
  BY <1>1 DEF Kept, FlattenSeq

LEMMA KeptAppend ==
  ASSUME NEW S, NEW q \in Seq(S), NEW e \in S, NEW T
  PROVE  /\ Kept(q, T) \in Seq(S)
         /\ Kept(Append(q, e), T) = IF e \in T THEN Append(Kept(q, T), e) ELSE Kept(q, T)
<1> DEFINE pick(x) == IF x \in T THEN <<x>> ELSE <<>>
           parts(s) == [k \in DOMAIN s |-> pick(s[k])]
           n == Len(q)
           t == Append(q, e)
<1>0. \A x \in S : pick(x) \in Seq(S)
  OBVIOUS
<1>1. /\ n \in Nat /\ DOMAIN q = 1 .. n /\ \A k \in 1 .. n : q[k] \in S
      /\ t \in Seq(S) /\ DOMAIN t = 1 .. n + 1 /\ t[n + 1] = e
      /\ \A k \in 1 .. n : t[k] = q[k]
  BY LenProperties, ElementOfSeq, AppendProperties
<1> HIDE DEF t, pick
<1>2. parts(q) \in Seq(Seq(S)) /\ Len(parts(q)) = n
  BY <1>0, <1>1
<1>3. parts(t) = Append(parts(q), pick(e))
  BY <1>1, <1>2
<1>4. FlattenSeq(parts(t)) = Cat(FlattenSeq(parts(q)), pick(e)) /\ FlattenSeq(parts(q)) \in Seq(S)
  <2>1. pick(e) \in Seq(S)
    BY <1>0
  <2> HIDE DEF parts
  <2> QED
    BY <1>2, <1>3, <2>1, FlattenAppend, FlattenType
<1>5. Kept(q, T) = FlattenSeq(parts(q)) /\ Kept(t, T) = FlattenSeq(parts(t))
  BY DEF Kept, pick
<1>6. Cat(Kept(q, T), pick(e)) = IF e \in T THEN Append(Kept(q, T), e) ELSE Kept(q, T)
  <2>1. Kept(q, T) \in Seq(S)
    BY <1>4, <1>5
  <2> QED
    BY <2>1 DEF Cat, pick
<1> QED
  BY <1>4, <1>5, <1>6 DEF t

\* What is kept was in the list, and is what was asked for.
LEMMA KeptType ==
  ASSUME NEW S, NEW q \in Seq(S), NEW T
  PROVE  Kept(q, T) \in Seq(S \cap T)
<1> DEFINE G == {s \in Seq(S) : Kept(s, T) \in Seq(S \cap T)}
<1>1. <<>> \in G
  <2>1. <<>> \in Seq(S) /\ <<>> \in Seq(S \cap T)
    OBVIOUS
  <2>2. Kept(<<>>, T) \in Seq(S \cap T)
    BY <2>1, KeptEmpty
  <2> QED
    BY <2>1, <2>2
<1>2. ASSUME NEW s \in Seq(S), NEW e \in S, s \in G
      PROVE  Append(s, e) \in G
  <2>1. Append(s, e) \in Seq(S) /\ Kept(s, T) \in Seq(S \cap T)
    BY <1>2
  <2>2. Kept(Append(s, e), T) = IF e \in T THEN Append(Kept(s, T), e) ELSE Kept(s, T)
    BY KeptAppend
  <2>3. Kept(Append(s, e), T) \in Seq(S \cap T)
    <3>1. CASE e \in T
      <4>1. e \in S \cap T
        BY <3>1
      <4>2. Append(Kept(s, T), e) \in Seq(S \cap T)
        BY <2>1, <4>1, AppendProperties
      <4> QED
        BY <2>2, <3>1, <4>2
    <3> QED
      BY <2>1, <2>2, <3>1
  <2> QED
    BY <2>1, <2>3
<1> HIDE DEF G
<1>3. \A s \in Seq(S) : s \in G
  BY <1>1, <1>2, SeqInduction
<1> QED
  BY <1>3 DEF G

\* How many there are of them.
Count(q, T) == Len(Kept(q, T))

One(e, T) == IF e \in T THEN 1 ELSE 0

LEMMA CountAppend ==
  ASSUME NEW S, NEW q \in Seq(S), NEW e \in S, NEW T
  PROVE  /\ Count(q, T) \in Nat /\ Count(<<>>, T) = 0
         /\ Count(Append(q, e), T) = Count(q, T) + One(e, T)
<1>1. /\ Kept(q, T) \in Seq(S) /\ Kept(<<>>, T) = <<>>
      /\ Kept(Append(q, e), T) = IF e \in T THEN Append(Kept(q, T), e) ELSE Kept(q, T)
  BY KeptAppend, KeptEmpty
<1>2. Len(Append(Kept(q, T), e)) = Len(Kept(q, T)) + 1 /\ Len(Kept(q, T)) \in Nat
  BY <1>1
<1>3. Len(<<>>) = 0
  OBVIOUS
<1> QED
  BY <1>1, <1>2, <1>3 DEF Count, One

LEMMA CountType ==
  ASSUME NEW S, NEW q \in Seq(S), NEW T
  PROVE  Count(q, T) \in Nat
<1>1. Kept(q, T) \in Seq(S \cap T)
  BY KeptType
<1> QED
  BY <1>1 DEF Count

\* Those in one part and those in the other are all of them.
Splits(q, T, U) == Count(q, T) = Count(q, T \cap U) + Count(q, T \ U)

LEMMA CountSplit ==
  ASSUME NEW S, NEW q \in Seq(S), NEW T, NEW U
  PROVE  Splits(q, T, U)
<1> DEFINE G == {s \in Seq(S) : Count(s, T) = Count(s, T \cap U) + Count(s, T \ U)}
<1>1. <<>> \in G
  BY KeptEmpty DEF Count
<1>2. ASSUME NEW s \in Seq(S), NEW e \in S, s \in G
      PROVE  Append(s, e) \in G
  <2>1. One(e, T) = One(e, T \cap U) + One(e, T \ U) /\ One(e, T) \in Nat
        /\ One(e, T \cap U) \in Nat /\ One(e, T \ U) \in Nat
    BY DEF One
  <2>2. /\ Count(s, T) \in Nat /\ Count(s, T \cap U) \in Nat /\ Count(s, T \ U) \in Nat
        /\ Count(Append(s, e), T) = Count(s, T) + One(e, T)
        /\ Count(Append(s, e), T \cap U) = Count(s, T \cap U) + One(e, T \cap U)
        /\ Count(Append(s, e), T \ U) = Count(s, T \ U) + One(e, T \ U)
    BY CountAppend
  <2>3. Count(s, T) = Count(s, T \cap U) + Count(s, T \ U)
    BY <1>2
  <2>4. Append(s, e) \in Seq(S)
    OBVIOUS
  <2> QED
    BY <2>1, <2>2, <2>3, <2>4
<1> HIDE DEF G
<1>3. \A s \in Seq(S) : s \in G
  BY <1>1, <1>2, SeqInduction
<1> QED
  BY <1>3 DEF G, Splits

\* Those of two lists, one behind the other.
LEMMA CountCat ==
  ASSUME NEW S, NEW p \in Seq(S), NEW q \in Seq(S), NEW T
  PROVE  Count(p \o q, T) = Count(p, T) + Count(q, T)
<1> DEFINE G == {s \in Seq(S) : Count(p \o s, T) = Count(p, T) + Count(s, T)}
<1>1. <<>> \in G
  <2>1. p \o <<>> = p /\ Count(<<>>, T) = 0 /\ Count(p, T) \in Nat
    BY KeptEmpty, CountType, ConcatEmptySeq DEF Count
  <2> QED
    BY <2>1
<1>2. ASSUME NEW s \in Seq(S), NEW e \in S, s \in G
      PROVE  Append(s, e) \in G
  <2> DEFINE ps == p \o s
             se == Append(s, e)
  <2>1. ps \in Seq(S) /\ se \in Seq(S) /\ p \o se = Append(ps, e)
    <3>1. ps \in Seq(S) /\ se \in Seq(S) /\ <<e>> \in Seq(S)
      BY ConcatProperties, AppendProperties
    <3>2. se = s \o <<e>> /\ Append(ps, e) = ps \o <<e>>
      <4> HIDE DEF ps
      <4> QED
        BY <3>1, AppendIsConcat
    <3>3. ps \o <<e>> = p \o (s \o <<e>>)
      BY <3>1, ConcatAssociative
    <3> QED
      BY <3>1, <3>2, <3>3
  <2>2. /\ Count(p, T) \in Nat /\ Count(s, T) \in Nat /\ One(e, T) \in Nat
        /\ Count(se, T) = Count(s, T) + One(e, T)
        /\ Count(Append(ps, e), T) = Count(ps, T) + One(e, T)
    <3>1. One(e, T) \in Nat
      BY DEF One
    <3> HIDE DEF ps
    <3> QED
      BY <2>1, <3>1, CountAppend
  <2>3. Count(ps, T) = Count(p, T) + Count(s, T)
    BY <1>2
  <2>4. Count(p \o se, T) = Count(p, T) + Count(se, T)
    <3> HIDE DEF ps, se
    <3> QED
      BY <2>1, <2>2, <2>3
  <2> QED
    BY <2>1, <2>4
<1> HIDE DEF G
<1>3. \A s \in Seq(S) : s \in G
  BY <1>1, <1>2, SeqInduction
<1> QED
  BY <1>3 DEF G

\* None, if the list has nothing of the kind.
LEMMA CountNone ==
  ASSUME NEW S, NEW q \in Seq(S), NEW T
  PROVE  /\ S \cap T = {} => Count(q, T) = 0
         /\ \A k \in DOMAIN q : q[k] \in T => Count(q, T) # 0
<1> DEFINE G == {s \in Seq(S) : /\ S \cap T = {} => Count(s, T) = 0
                                /\ \A k \in 1 .. Len(s) : s[k] \in T => Count(s, T) # 0}
<1>1. <<>> \in G
  BY KeptEmpty DEF Count
<1>2. ASSUME NEW s \in Seq(S), NEW e \in S, s \in G
      PROVE  Append(s, e) \in G
  <2>1. /\ Count(s, T) \in Nat
        /\ Count(Append(s, e), T) = Count(s, T) + One(e, T)
    BY CountAppend
  <2>2. /\ Append(s, e) \in Seq(S) /\ Len(Append(s, e)) = Len(s) + 1 /\ Len(s) \in Nat
        /\ \A k \in 1 .. Len(s) : Append(s, e)[k] = s[k]
        /\ Append(s, e)[Len(s) + 1] = e
    BY AppendProperties
  <2>3. S \cap T = {} => Count(Append(s, e), T) = 0
    BY <1>2, <2>1 DEF One
  <2>4. ASSUME NEW k \in 1 .. Len(Append(s, e)), Append(s, e)[k] \in T
        PROVE  Count(Append(s, e), T) # 0
    <3>1. CASE k \in 1 .. Len(s)
      BY <1>2, <2>1, <2>2, <2>4, <3>1 DEF One
    <3>2. CASE k = Len(s) + 1
      BY <2>1, <2>2, <2>4, <3>2 DEF One
    <3> QED
      BY <2>2, <3>1, <3>2
  <2> QED
    BY <2>2, <2>3, <2>4
<1> HIDE DEF G
<1>3. \A s \in Seq(S) : s \in G
  BY <1>1, <1>2, SeqInduction
<1> QED
  BY <1>3, LenProperties DEF G

\* Those of what is kept.
LEMMA CountKept ==
  ASSUME NEW S, NEW q \in Seq(S), NEW T, NEW U
  PROVE  Count(Kept(q, U), T) = Count(q, T \cap U)
<1> DEFINE G == {s \in Seq(S) : Count(Kept(s, U), T) = Count(s, T \cap U)}
<1>1. <<>> \in G
  BY KeptEmpty DEF Count
<1>2. ASSUME NEW s \in Seq(S), NEW e \in S, s \in G
      PROVE  Append(s, e) \in G
  <2>1. /\ Kept(s, U) \in Seq(S)
        /\ Kept(Append(s, e), U) = IF e \in U THEN Append(Kept(s, U), e) ELSE Kept(s, U)
    BY KeptAppend
  <2>2. /\ Count(s, T \cap U) \in Nat
        /\ Count(Append(s, e), T \cap U) = Count(s, T \cap U) + One(e, T \cap U)
        /\ Count(Append(Kept(s, U), e), T) = Count(Kept(s, U), T) + One(e, T)
    BY <2>1, CountAppend
  <2>3. Count(Kept(s, U), T) = Count(s, T \cap U)
    BY <1>2
  <2>4. Append(s, e) \in Seq(S)
    OBVIOUS
  <2>5. Count(Kept(Append(s, e), U), T) = Count(Append(s, e), T \cap U)
    BY <2>1, <2>2, <2>3 DEF One
  <2> QED
    BY <2>4, <2>5
<1> HIDE DEF G
<1>3. \A s \in Seq(S) : s \in G
  BY <1>1, <1>2, SeqInduction
<1> QED
  BY <1>3 DEF G

\* The first, and those behind it.
LEMMA CountHead ==
  ASSUME NEW S, NEW q \in Seq(S), q # <<>>, NEW T
  PROVE  Count(q, T) = One(Head(q), T) + Count(Tail(q), T)
<1>1. Head(q) \in S /\ Tail(q) \in Seq(S) /\ <<Head(q)>> \in Seq(S) /\ q = <<Head(q)>> \o Tail(q)
  BY HeadTailProperties
<1>2. Count(<<Head(q)>>, T) = One(Head(q), T)
  <2>1. <<Head(q)>> = Append(<<>>, Head(q)) /\ <<>> \in Seq(S)
    OBVIOUS
  <2>2. Count(Append(<<>>, Head(q)), T) = Count(<<>>, T) + One(Head(q), T) /\ Count(<<>>, T) = 0
    BY <1>1, <2>1, CountAppend
  <2> QED
    BY <2>1, <2>2 DEF One
<1>3. Count(<<Head(q)>> \o Tail(q), T) = Count(<<Head(q)>>, T) + Count(Tail(q), T)
  BY <1>1, CountCat
<1> QED
  BY <1>1, <1>2, <1>3

\* Those of a list whose elements were rewritten one by one.
Mapped(q, g) == [k \in DOMAIN q |-> g[q[k]]]
Carries(S, g, T, U) == \A x \in S : x \in T <=> g[x] \in U

LEMMA CountMap ==
  ASSUME NEW S, NEW R, NEW g \in [S -> R], NEW q \in Seq(S), NEW T, NEW U,
         Carries(S, g, T, U)
  PROVE  Mapped(q, g) \in Seq(R) /\ Count(Mapped(q, g), U) = Count(q, T)
<1> DEFINE map(s) == [k \in 1 .. Len(s) |-> g[s[k]]]
           G == {s \in Seq(S) : map(s) \in Seq(R) /\ Count(map(s), U) = Count(s, T)}
<1>1. <<>> \in G
  <2>1. map(<<>>) = <<>> /\ <<>> \in Seq(R) /\ <<>> \in Seq(S)
    OBVIOUS
  <2>2. Count(<<>>, T) = 0 /\ Count(<<>>, U) = 0
    BY KeptEmpty DEF Count
  <2> HIDE DEF map
  <2> QED
    BY <2>1, <2>2
<1>2. ASSUME NEW s \in Seq(S), NEW e \in S, s \in G
      PROVE  Append(s, e) \in G
  <2> DEFINE t == Append(s, e)
  <2>1. /\ t \in Seq(S) /\ Len(t) = Len(s) + 1 /\ Len(s) \in Nat /\ t[Len(s) + 1] = e
        /\ \A k \in 1 .. Len(s) : t[k] = s[k]
    BY AppendProperties
  <2>2. map(s) \in Seq(R) /\ g[e] \in R /\ Count(map(s), U) = Count(s, T) /\ Len(map(s)) = Len(s)
    BY <1>2, LenProperties
  <2> HIDE DEF t
  <2>3. map(t) = Append(map(s), g[e])
    BY <2>1, <2>2
  <2>4. /\ Count(Append(map(s), g[e]), U) = Count(map(s), U) + One(g[e], U)
        /\ Append(map(s), g[e]) \in Seq(R)
    <3> HIDE DEF map
    <3> QED
      BY <2>2, CountAppend, AppendProperties
  <2>5. Count(t, T) = Count(s, T) + One(e, T)
    BY CountAppend DEF t
  <2>6. One(g[e], U) = One(e, T)
    BY DEF One, Carries
  <2> HIDE DEF map
  <2>7. t \in G
    BY <2>1, <2>2, <2>3, <2>4, <2>5, <2>6
  <2> QED
    BY <2>7 DEF t
<1> HIDE DEF G
<1>3. \A s \in Seq(S) : s \in G
  BY <1>1, <1>2, SeqInduction
<1> QED
  BY <1>3, LenProperties DEF G, Mapped
----------------------------------------------------------------------------
(* The URBs of a request *)

Urb == [offset : Nat, length : Nat, cont : BOOLEAN]
Request == [type : {"bulk", "iso", "control"}, out : BOOLEAN, length : Nat, packets : Seq(Nat)]

\* As many pieces as cover the length, the last of which is not empty.
LEMMA Pieces ==
  ASSUME NEW n \in Nat \ {0}, NEW m \in Nat \ {0}
  PROVE  LET pieces == (n + m - 1) \div m
         IN  pieces \in Nat \ {0} /\ \A i \in 1 .. pieces : n - (i - 1) * m \in Nat \ {0}
<1> DEFINE x == n + m - 1
           p == x \div m
<1>1. x \in Nat /\ m \in Nat \ {0} /\ x >= m
  OBVIOUS
<1>2. p \in Nat /\ x = m * p + (x % m) /\ x % m \in 0 .. m - 1
  <2> HIDE DEF x
  <2> QED
    BY <1>1
<1>3. p # 0
  BY <1>1, <1>2
<1> QED
  BY <1>2, <1>3

LEMMA BulkType ==
  ASSUME NEW r \in Request, continuation \in BOOLEAN
  PROVE  /\ BulkUrbs(r) \in Seq(Urb) /\ Len(BulkUrbs(r)) \in Nat \ {0}
         /\ \A i \in 1 .. Len(BulkUrbs(r)) :
              BulkUrbs(r)[i].offset + BulkUrbs(r)[i].length <= r.length
<1> DEFINE pieces == IF r.length = 0 THEN 1 ELSE (r.length + MaxBulk - 1) \div MaxBulk
           left(i) == r.length - (i - 1) * MaxBulk
           urb(i) == [offset |-> (i - 1) * MaxBulk, length |-> Min2(MaxBulk, left(i)),
                      cont |-> i > 1 /\ continuation]
<1>1. r.length \in Nat /\ MaxBulk \in Nat \ {0}
  BY SizesAssumption DEF Request
<1>2. pieces \in Nat \ {0} /\ \A i \in 1 .. pieces : left(i) \in Nat
  <2>1. CASE r.length = 0
    BY <1>1, <2>1
  <2>2. CASE r.length # 0
    BY <1>1, <2>2, Pieces
  <2> QED
    BY <2>1, <2>2
<1>3. BulkUrbs(r) = [i \in 1 .. pieces |-> urb(i)]
  BY DEF BulkUrbs
<1>4. ASSUME NEW i \in 1 .. pieces
      PROVE  urb(i) \in Urb /\ urb(i).offset + urb(i).length <= r.length
  <2> DEFINE o == (i - 1) * MaxBulk
             l == Min2(MaxBulk, left(i))
  <2>1. i - 1 \in Nat
    <3> HIDE DEF pieces
    <3> QED
      BY <1>2
  <2>2. o \in Nat
    BY <1>1, <2>1
  <2>3. left(i) = r.length - o /\ left(i) \in Nat
    <3> HIDE DEF pieces
    <3> QED
      BY <1>2
  <2>4. l \in Nat /\ l <= left(i)
    <3> HIDE DEF left
    <3> QED
      BY <1>1, <2>3 DEF Min2
  <2>5. o + l <= r.length
    <3> HIDE DEF o, l, left
    <3> QED
      BY <1>1, <2>2, <2>3, <2>4
  <2>6. urb(i).offset = o /\ urb(i).length = l /\ urb(i) \in Urb
    BY <2>2, <2>4 DEF Urb
  <2> QED
    BY <2>5, <2>6
<1> HIDE DEF urb, pieces
<1>5. Len(BulkUrbs(r)) = pieces /\ \A i \in 1 .. pieces : BulkUrbs(r)[i] = urb(i)
  BY <1>2, <1>3
<1> QED
  BY <1>2, <1>3, <1>4, <1>5

\* The first loop of submit_iso_transfer counts at least one URB.
Tally == [urbs : Nat \ {0}, used : Nat]
Count1(lens, k, acc) ==
  LET room == MaxIso - acc.used
  IN  IF room >= 0 /\ lens[k] > room THEN [urbs |-> acc.urbs + 1, used |-> lens[k]]
                                     ELSE [acc EXCEPT !.used = @ + lens[k]]
Loops(lens, loop) ==
  /\ IsoCount(lens) = loop[Len(lens)].urbs
  /\ loop[0] = [urbs |-> 1, used |-> 0]
  /\ \A k \in 0 .. Len(lens) : loop[k] \in Tally
  /\ \A k \in 0 .. Len(lens) - 1 : loop[k + 1] = Count1(lens, k + 1, loop[k])

LEMMA IsoCountLoop ==
  ASSUME NEW lens \in Seq(Nat)
  PROVE  \E loop : Loops(lens, loop)
<1> DEFINE n == Len(lens)
           V == [urbs : Nat \ {0}, used : Nat]
           a == [urbs |-> 1, used |-> 0]
           next(k, acc) == LET room == MaxIso - acc.used
                           IN  IF room >= 0 /\ lens[k] > room
                               THEN [urbs |-> acc.urbs + 1, used |-> lens[k]]
                               ELSE [acc EXCEPT !.used = @ + lens[k]]
           rec(f) == [k \in 0 .. n |-> IF k = 0 THEN a ELSE next(k, f[k - 1])]
           loop == CHOOSE f : f = rec(f)
           step == [x \in (1 .. n) \X V |-> next(x[1], x[2])]
<1>1. n \in Nat /\ \A k \in 1 .. n : lens[k] \in Nat
  BY LenProperties, ElementOfSeq
<1>2. a \in V
  OBVIOUS
<1>3. ASSUME NEW k \in 1 .. n, NEW acc \in V
      PROVE  next(k, acc) \in V
  <2>1. lens[k] \in Nat /\ acc.urbs \in Nat \ {0} /\ acc.used \in Nat
    BY <1>1
  <2>2. [urbs |-> acc.urbs + 1, used |-> lens[k]] \in V
    BY <2>1
  <2>3. [acc EXCEPT !.used = @ + lens[k]] \in V
    BY <2>1
  <2> HIDE DEF V
  <2> QED
    BY <2>2, <2>3
<1>4. step \in [(1 .. n) \X V -> V]
  <2> HIDE DEF next, V
  <2> QED
    BY <1>3
<1>5. PICK f \in [0 .. n -> V] : Iterates(f, n, a, step)
  <2> HIDE DEF n, V, step, a
  <2> QED
    BY <1>1, <1>2, <1>4, Recursion
<1>6. ASSUME NEW k \in 0 .. n
      PROVE  f[k] = IF k = 0 THEN a ELSE next(k, f[k - 1])
  <2>1. CASE k = 0
    BY <1>5, <2>1 DEF Iterates
  <2>2. CASE k # 0
    <3>1. k \in 1 .. n /\ k - 1 \in 0 .. n
      BY <1>1, <2>2
    <3>2. f[k] = step[<<k, f[k - 1]>>] /\ f[k - 1] \in V
      <4> HIDE DEF step, n, V
      <4> QED
        BY <1>5, <3>1 DEF Iterates
    <3>3. step[<<k, f[k - 1]>>] = next(k, f[k - 1])
      <4> HIDE DEF n, V, next
      <4> QED
        BY <3>1, <3>2
    <3> HIDE DEF next, step, a
    <3> QED
      BY <2>2, <3>2, <3>3
  <2> QED
    BY <2>1, <2>2
<1>7. f = rec(f)
  <2> HIDE DEF n, next, a, V
  <2> QED
    BY <1>6
<1>8. loop = rec(loop)
  <2> HIDE DEF rec
  <2> QED
    BY <1>7
<1>9. IsoCount(lens) = loop[n].urbs
  BY DEF IsoCount
<1>10. \A k \in 0 .. n : loop[k] = IF k = 0 THEN a ELSE next(k, loop[k - 1])
  <2> HIDE DEF loop, next, a, n
  <2> QED
    BY <1>8
<1> HIDE DEF loop
<1>11. \A k \in 0 .. n : loop[k] \in V
  <2> DEFINE T == {k \in 0 .. n : loop[k] \in V}
  <2> HIDE DEF next, V, a, n
  <2>1. 0 \in T
    BY <1>1, <1>2, <1>10
  <2>2. ASSUME NEW k \in 0 .. n - 1, k \in T
        PROVE  k + 1 \in T
    <3>1. k + 1 \in 1 .. n /\ k + 1 \in 0 .. n /\ k + 1 # 0 /\ (k + 1) - 1 = k
      BY <1>1
    <3>2. loop[k + 1] = next(k + 1, loop[k])
      BY <1>10, <3>1
    <3> QED
      BY <1>3, <2>2, <3>1, <3>2
  <2> HIDE DEF T
  <2>3. \A k \in 0 .. n : k \in T
    BY <1>1, <2>1, <2>2, UpTo
  <2> QED
    BY <2>3 DEF T
<1>12. \A k \in 0 .. n - 1 : loop[k + 1] = next(k + 1, loop[k])
  <2> SUFFICES ASSUME NEW k \in 0 .. n - 1 PROVE loop[k + 1] = next(k + 1, loop[k])
    OBVIOUS
  <2> HIDE DEF next, V, a, n
  <2>1. k + 1 \in 0 .. n /\ k + 1 # 0 /\ (k + 1) - 1 = k
    BY <1>1
  <2> QED
    BY <1>10, <2>1
<1>13. loop[0] = a
  <2> HIDE DEF next, V, a, n
  <2>1. 0 \in 0 .. n
    BY <1>1
  <2> QED
    BY <1>10, <2>1
<1> HIDE DEF n
<1>14. Loops(lens, loop)
  BY <1>9, <1>11, <1>12, <1>13 DEF Loops, Count1, Tally, n
<1> QED
  BY <1>14

LEMMA IsoCountType ==
  ASSUME NEW lens \in Seq(Nat)
  PROVE  IsoCount(lens) \in Nat \ {0}
<1>1. PICK loop : Loops(lens, loop)
  BY IsoCountLoop
<1>2. Len(lens) \in 0 .. Len(lens)
  BY LenProperties
<1>3. loop[Len(lens)] \in Tally
  BY <1>1, <1>2 DEF Loops
<1> QED
  BY <1>1, <1>3 DEF Loops, Tally

\* The second loop cuts the packets into consecutive runs.
\* and, if none is longer than a URB, into as many as the first has counted.
Runs(lens, start) ==
  LET c == IsoCount(lens)
  IN  /\ start \in [1 .. c + 1 -> 1 .. Len(lens) + 1]
      /\ start[1] = 1 /\ \A i \in 1 .. c : start[i] <= start[i + 1]
      /\ IsoFill(lens) = [i \in 1 .. c |-> [first |-> start[i],
                                            count |-> start[i + 1] - start[i]]]
      /\ (\A k \in 1 .. Len(lens) : lens[k] <= MaxIso) => start[c + 1] = Len(lens) + 1

LEMMA IsoFillRuns ==
  ASSUME NEW lens \in Seq(Nat)
  PROVE  \E start : Runs(lens, start)
<1> DEFINE n == Len(lens)
           c == IsoCount(lens)
           add == [x \in (1 .. n) \X Nat |-> x[2] + lens[x[1]]]
           recT(f) == [k \in 0 .. n |-> IF k = 0 THEN 0 ELSE f[k - 1] + lens[k]]
           total == CHOOSE f : f = recT(f)
           Fits(from, to) == total[to - 1] - total[from - 1] <= MaxIso
           Good(from, to) == /\ Fits(from, to)
                             /\ to < n + 1 => ~Fits(from, to + 1)
           Behind(from) == CHOOSE to \in from .. (n + 1) : Good(from, to)
           recS(f) == [i \in 1 .. (c + 1) |-> IF i = 1 THEN 1 ELSE Behind(f[i - 1])]
           start == CHOOSE f : f = recS(f)
<1>1. n \in Nat /\ (\A k \in 1 .. n : lens[k] \in Nat) /\ c \in Nat \ {0} /\ MaxIso \in Nat
  BY LenProperties, ElementOfSeq, IsoCountType, SizesAssumption
<1>2. IsoFill(lens) = [i \in 1 .. c |-> [first |-> start[i], count |-> start[i + 1] - start[i]]]
  BY DEF IsoFill
<1>3. \E f \in [0 .. n -> Nat] : f = recT(f)
  <2>1. add \in [(1 .. n) \X Nat -> Nat]
    BY <1>1
  <2>2. PICK f \in [0 .. n -> Nat] : Iterates(f, n, 0, add)
    <3> HIDE DEF n, add
    <3> QED
      BY <1>1, <2>1, Recursion
  <2>3. ASSUME NEW k \in 0 .. n
        PROVE  f[k] = IF k = 0 THEN 0 ELSE f[k - 1] + lens[k]
    <3>1. CASE k = 0
      BY <2>2, <3>1 DEF Iterates
    <3>2. CASE k # 0
      <4>1. k \in 1 .. n /\ k - 1 \in 0 .. n
        BY <1>1, <3>2
      <4>2. f[k] = add[<<k, f[k - 1]>>] /\ f[k - 1] \in Nat
        <5> HIDE DEF add, n
        <5> QED
          BY <2>2, <4>1 DEF Iterates
      <4>3. add[<<k, f[k - 1]>>] = f[k - 1] + lens[k]
        <5> HIDE DEF n
        <5> QED
          BY <4>1, <4>2
      <4> QED
        BY <3>2, <4>2, <4>3
    <3> QED
      BY <3>1, <3>2
  <2>4. f = recT(f)
    <3> HIDE DEF n
    <3> QED
      BY <2>3
  <2> QED
    BY <2>4
<1>4. total = recT(total)
  <2> HIDE DEF recT
  <2> QED
    BY <1>3
<1>5. total[0] = 0 /\ \A k \in 0 .. n - 1 : total[k + 1] = total[k] + lens[k + 1]
  <2> HIDE DEF total, n
  <2>1. \A k \in 0 .. n : total[k] = IF k = 0 THEN 0 ELSE total[k - 1] + lens[k]
    BY <1>4
  <2>2. ASSUME NEW k \in 0 .. n - 1
        PROVE  total[k + 1] = total[k] + lens[k + 1]
    <3>1. k + 1 \in 0 .. n /\ k + 1 # 0 /\ (k + 1) - 1 = k
      BY <1>1
    <3> QED
      BY <2>1, <3>1
  <2> QED
    BY <1>1, <2>1, <2>2
<1> HIDE DEF total
<1>6. \A k \in 0 .. n : total[k] \in Nat
  <2> DEFINE T == {k \in 0 .. n : total[k] \in Nat}
  <2>1. 0 \in T
    BY <1>1, <1>5
  <2>2. ASSUME NEW k \in 0 .. n - 1, k \in T
        PROVE  k + 1 \in T
    <3>1. k + 1 \in 1 .. n /\ k + 1 \in 0 .. n
      BY <1>1
    <3>2. lens[k + 1] \in Nat /\ total[k] \in Nat
      BY <1>1, <2>2, <3>1
    <3> QED
      BY <1>5, <3>1, <3>2
  <2> HIDE DEF T
  <2>3. \A k \in 0 .. n : k \in T
    BY <1>1, <2>1, <2>2, UpTo
  <2> QED
    BY <2>3 DEF T
<1>7. ASSUME NEW from \in 1 .. n + 1
      PROVE  Behind(from) \in from .. n + 1 /\ Good(from, Behind(from))
  <2>1. \E to \in from .. n + 1 : Good(from, to)
    <3> SUFFICES ASSUME \A to \in from .. n + 1 : ~Good(from, to)
                 PROVE  FALSE
      OBVIOUS
    <3> HIDE DEF n
    <3> DEFINE m == n + 1 - from
               T == {k \in 0 .. m : Fits(from, from + k)}
    <3>1. m \in Nat /\ from \in Nat /\ from - 1 \in 0 .. n
      BY <1>1
    <3>2. 0 \in T
      <4>1. total[from - 1] - total[from - 1] <= MaxIso /\ from + 0 = from
        BY <1>1, <1>6, <3>1
      <4> QED
        BY <3>1, <4>1
    <3>3. ASSUME NEW k \in 0 .. m - 1, k \in T
          PROVE  k + 1 \in T
      <4>1. from + k \in from .. n + 1 /\ from + k < n + 1 /\ k + 1 \in 0 .. m
        BY <1>1, <3>1
      <4>2. Fits(from, from + k + 1)
        <5>1. ~Good(from, from + k) /\ Fits(from, from + k)
          BY <3>3, <4>1
        <5> HIDE DEF Fits
        <5> QED
          BY <4>1, <5>1
      <4>3. from + k + 1 = from + (k + 1)
        BY <3>1
      <4> HIDE DEF Fits, m
      <4> QED
        BY <4>1, <4>2, <4>3
    <3>4. m \in T
      <4>1. m \in 0 .. m
        BY <3>1
      <4> HIDE DEF T, m
      <4> QED
        BY <3>1, <3>2, <3>3, <4>1, UpTo
    <3>5. Good(from, n + 1)
      <4>1. from + m = n + 1 /\ ~(n + 1 < n + 1)
        BY <1>1, <3>1
      <4>2. Fits(from, from + m)
        BY <3>4
      <4> HIDE DEF Fits, m
      <4> QED
        BY <4>1, <4>2
    <3>6. n + 1 \in from .. n + 1
      BY <1>1
    <3> HIDE DEF Good
    <3> QED
      BY <3>5, <3>6
  <2> HIDE DEF Good, n
  <2> QED
    BY <2>1
<1> HIDE DEF Good
<1> HIDE DEF Behind
<1> DEFINE V == 1 .. n + 1
           next == [x \in (1 .. c) \X V |-> Behind(x[2])]
<1>8. \A from \in V : Behind(from) \in V /\ from <= Behind(from)
  <2> HIDE DEF n
  <2> QED
    BY <1>1, <1>7
<1>9. 1 \in V
  BY <1>1
<1> HIDE DEF V
<1>10. \E f : f = recS(f)
  <2>1. next \in [(1 .. c) \X V -> V]
    BY <1>8
  <2>2. PICK g \in [0 .. c -> V] : Iterates(g, c, 1, next)
    <3> HIDE DEF next, c
    <3> QED
      BY <1>1, <1>9, <2>1, Recursion
  <2> HIDE DEF c
  <2> DEFINE f == [i \in 1 .. c + 1 |-> g[i - 1]]
  <2>3. ASSUME NEW i \in 1 .. c + 1
        PROVE  f[i] = IF i = 1 THEN 1 ELSE Behind(f[i - 1])
    <3>1. CASE i = 1
      BY <2>2, <3>1 DEF Iterates
    <3>2. CASE i # 1
      <4>1. i - 1 \in 1 .. c /\ i - 1 - 1 \in 0 .. c /\ i - 1 \in 1 .. c + 1
        BY <1>1, <3>2
      <4>2. g[i - 1] = next[<<i - 1, g[i - 1 - 1]>>] /\ g[i - 1 - 1] \in V
        <5> HIDE DEF next
        <5> QED
          BY <2>2, <4>1 DEF Iterates
      <4>3. next[<<i - 1, g[i - 1 - 1]>>] = Behind(g[i - 1 - 1])
        BY <4>1, <4>2
      <4>4. f[i] = g[i - 1] /\ f[i - 1] = g[i - 1 - 1]
        BY <4>1
      <4> HIDE DEF f, next
      <4> QED
        BY <3>2, <4>2, <4>3, <4>4
    <3> QED
      BY <3>1, <3>2
  <2>4. f = [i \in 1 .. c + 1 |-> IF i = 1 THEN 1 ELSE Behind(f[i - 1])]
    BY <2>3
  <2> HIDE DEF f
  <2> QED
    BY <2>4 DEF c
<1>11. start = recS(start)
  <2> HIDE DEF recS
  <2> QED
    BY <1>10
<1> HIDE DEF start, c
<1>12. /\ start[1] = 1
       /\ \A i \in 1 .. c : start[i + 1] = Behind(start[i])
  <2>1. \A i \in 1 .. c + 1 : start[i] = IF i = 1 THEN 1 ELSE Behind(start[i - 1])
    BY <1>11 DEF c
  <2>2. ASSUME NEW i \in 1 .. c
        PROVE  start[i + 1] = Behind(start[i])
    <3>1. i + 1 \in 1 .. c + 1 /\ i + 1 # 1 /\ i + 1 - 1 = i
      BY <1>1
    <3> QED
      BY <2>1, <3>1
  <2> QED
    BY <1>1, <2>1, <2>2
<1>13. \A i \in 1 .. c + 1 : start[i] \in V
  <2> DEFINE T == {k \in 0 .. c : start[k + 1] \in V}
  <2>1. 0 \in T
    BY <1>1, <1>9, <1>12
  <2>2. ASSUME NEW k \in 0 .. c - 1, k \in T
        PROVE  k + 1 \in T
    <3>1. k + 1 \in 1 .. c /\ k + 1 \in 0 .. c
      BY <1>1
    <3>2. start[k + 1 + 1] = Behind(start[k + 1])
      BY <1>12, <3>1
    <3> QED
      BY <1>8, <2>2, <3>1, <3>2
  <2>3. \A k \in 0 .. c : k \in T
    <3> HIDE DEF T
    <3> QED
      BY <1>1, <2>1, <2>2, UpTo
  <2>4. ASSUME NEW i \in 1 .. c + 1
        PROVE  start[i] \in V
    <3>1. i - 1 \in 0 .. c /\ i - 1 + 1 = i
      BY <1>1
    <3> QED
      BY <2>3, <3>1
  <2> QED
    BY <2>4
<1>14. \A i \in 1 .. c : start[i] <= start[i + 1]
  <2>1. \A i \in 1 .. c : i \in 1 .. c + 1
    BY <1>1
  <2> QED
    BY <1>8, <1>12, <1>13, <2>1
<1>15. start \in [1 .. c + 1 -> V]
  <2>1. start = [i \in 1 .. c + 1 |-> start[i]]
    <3>1. start = [i \in 1 .. c + 1 |-> IF i = 1 THEN 1 ELSE Behind(start[i - 1])]
      BY <1>11 DEF c
    <3> QED
      BY <3>1
  <2> QED
    BY <1>13, <2>1
<1>16. ASSUME NEW j \in 0 .. n
       PROVE  \A k \in j .. n : total[j] <= total[k]
  <2> DEFINE T == {k \in 0 .. n - j : total[j] <= total[j + k]}
  <2>1. 0 \in T
    <3>1. j + 0 = j /\ total[j] \in Nat /\ 0 \in 0 .. n - j
      BY <1>1, <1>6
    <3> QED
      BY <3>1
  <2>2. ASSUME NEW k \in 0 .. n - j - 1, k \in T
        PROVE  k + 1 \in T
    <3>1. j + k \in 0 .. n - 1 /\ j + (k + 1) = (j + k) + 1 /\ j + k + 1 \in 1 .. n
          /\ k + 1 \in 0 .. n - j /\ j + k \in 0 .. n
      BY <1>1
    <3>2. total[j + k + 1] = total[j + k] + lens[j + k + 1] /\ lens[j + k + 1] \in Nat
      BY <1>1, <1>5, <3>1
    <3>3. total[j] \in Nat /\ total[j + k] \in Nat /\ total[j] <= total[j + k]
      BY <1>6, <2>2, <3>1
    <3> HIDE DEF n
    <3> QED
      BY <3>1, <3>2, <3>3
  <2>3. n - j \in Nat
    BY <1>1
  <2> HIDE DEF T, n
  <2>4. \A k \in 0 .. n - j : k \in T
    BY <2>1, <2>2, <2>3, UpTo
  <2>5. ASSUME NEW k \in j .. n
        PROVE  total[j] <= total[k]
    <3>1. k - j \in 0 .. n - j /\ j + (k - j) = k
      BY <1>1
    <3> QED
      BY <2>4, <3>1 DEF T
  <2> QED
    BY <2>5
<1>17. ASSUME NEW from \in 1 .. n + 1, NEW k \in 0 .. n, from <= k + 1,
              total[k] - total[from - 1] <= MaxIso,
              k = n \/ total[k + 1] - total[from - 1] > MaxIso
       PROVE  Behind(from) = k + 1
  <2> DEFINE to == Behind(from)
  <2>1. /\ to \in from .. n + 1 /\ total[to - 1] - total[from - 1] <= MaxIso
        /\ to < n + 1 => ~(total[to + 1 - 1] - total[from - 1] <= MaxIso)
    BY <1>7, SMTT(60) DEF Good
  <2> HIDE DEF to, n
  <2>2. total[from - 1] \in Nat /\ from - 1 \in 0 .. n
    BY <1>1, <1>6
  <2>3. CASE to > k + 1
    <3>1. k + 1 \in 0 .. n /\ to - 1 \in (k + 1) .. n /\ to - 1 \in 0 .. n /\ k # n
      BY <1>1, <2>1, <2>3
    <3>2. total[k + 1] <= total[to - 1]
      BY <1>16, <3>1
    <3>3. total[k + 1] \in Nat /\ total[to - 1] \in Nat
      BY <1>6, <3>1
    <3> QED
      BY <1>1, <1>17, <2>1, <2>2, <3>1, <3>2, <3>3
  <2>4. CASE to < k + 1
    <3>1. to \in 0 .. n /\ k \in to .. n /\ to + 1 - 1 = to /\ to < n + 1
      BY <1>1, <2>1, <2>4
    <3>2. total[to] <= total[k]
      BY <1>16, <3>1
    <3>3. total[k] \in Nat /\ total[to] \in Nat
      BY <1>6, <3>1
    <3>4. ~(total[to] - total[from - 1] <= MaxIso)
      BY <2>1, <3>1
    <3> QED
      BY <1>1, <1>17, <2>2, <3>2, <3>3, <3>4
  <2>5. to = k + 1
    <3>1. to \in Int /\ k \in Int
      BY <1>1, <2>1
    <3>2. Behind(from) = k + 1 => to = k + 1
      BY DEF to
    <3>3. to > k + 1 \/ to < k + 1 \/ to = k + 1
      BY <3>1
    <3> QED
      BY <2>3, <2>4, <3>2, <3>3
  <2> QED
    BY <2>5 DEF to
<1>18. ASSUME \A k \in 1 .. n : lens[k] <= MaxIso
       PROVE  start[c + 1] = n + 1
  <2>1. PICK loop : Loops(lens, loop)
    BY IsoCountLoop
  <2>2. /\ c = loop[n].urbs /\ loop[0] = [urbs |-> 1, used |-> 0]
        /\ \A k \in 0 .. n : loop[k].urbs \in Nat \ {0} /\ loop[k].used \in Nat
        /\ \A k \in 0 .. n - 1 : loop[k + 1] = Count1(lens, k + 1, loop[k])
    BY <2>1 DEF Loops, Tally, c
  <2> HIDE DEF n, V
  <2>3. ASSUME NEW k \in 0 .. n - 1
        PROVE  loop[k].urbs <= loop[k + 1].urbs
    <3>1. k \in 0 .. n
      BY <1>1
    <3>2. loop[k] \in Tally /\ loop[k + 1] = Count1(lens, k + 1, loop[k])
      BY <2>1, <2>2, <3>1 DEF Loops, n
    <3>3. loop[k + 1].urbs = loop[k].urbs \/ loop[k + 1].urbs = loop[k].urbs + 1
      BY <3>2 DEF Count1, Tally
    <3> QED
      BY <3>2, <3>3 DEF Tally
  <2>4. \A k \in 0 .. n : loop[n - k].urbs <= c
    <3> DEFINE T == {k \in 0 .. n : loop[n - k].urbs <= c}
    <3>1. 0 \in T
      <4>1. n - 0 = n /\ 0 \in 0 .. n
        BY <1>1
      <4> QED
        BY <1>1, <2>2, <4>1
    <3>2. ASSUME NEW k \in 0 .. n - 1, k \in T
          PROVE  k + 1 \in T
      <4>1. n - (k + 1) \in 0 .. n - 1 /\ n - (k + 1) + 1 = n - k /\ k + 1 \in 0 .. n
            /\ n - k \in 0 .. n /\ n - (k + 1) \in 0 .. n
        BY <1>1
      <4>2. loop[n - (k + 1)].urbs <= loop[n - k].urbs
        <5>1. loop[n - (k + 1)].urbs <= loop[n - (k + 1) + 1].urbs
          BY <2>3, <4>1
        <5> QED
          BY <4>1, <5>1
      <4>3. loop[n - (k + 1)].urbs \in Nat /\ loop[n - k].urbs \in Nat
        BY <2>2, <4>1
      <4>4. loop[n - k].urbs <= c
        BY <3>2
      <4> QED
        BY <1>1, <4>1, <4>2, <4>3, <4>4, SMTT(30)
    <3> HIDE DEF T
    <3>3. \A k \in 0 .. n : k \in T
      BY <1>1, <3>1, <3>2, UpTo
    <3> QED
      BY <3>3 DEF T
  <2>5. \A k \in 0 .. n : loop[k].urbs \in 1 .. c
    <3> SUFFICES ASSUME NEW k \in 0 .. n PROVE loop[k].urbs \in 1 .. c
      OBVIOUS
    <3>1. n - k \in 0 .. n /\ n - (n - k) = k
      BY <1>1
    <3>2. loop[k].urbs <= c /\ loop[k].urbs \in Nat \ {0}
      BY <2>2, <2>4, <3>1
    <3> QED
      BY <1>1, <3>2
  <2> DEFINE Fill(k) == LET s == start[loop[k].urbs]
                        IN  /\ s <= k + 1 /\ loop[k].used = total[k] - total[s - 1]
                            /\ loop[k].used <= MaxIso
             T == {k \in 0 .. n : Fill(k)}
  <2>6. 0 \in T
    <3>1. loop[0].urbs = 1 /\ loop[0].used = 0 /\ start[1] = 1 /\ total[0] = 0
          /\ 1 - 1 = 0 /\ 0 \in 0 .. n
      BY <1>1, <1>5, <1>12, <2>2
    <3> QED
      BY <1>1, <3>1
  <2>7. ASSUME NEW k \in 0 .. n - 1, k \in T
        PROVE  k + 1 \in T
    <3> DEFINE u == loop[k].urbs
               s == start[u]
               used == loop[k].used
               l == lens[k + 1]
               un == loop[k + 1].urbs
    <3>1. k + 1 \in 0 .. n /\ k \in 0 .. n /\ k + 1 \in 1 .. n /\ k + 1 - 1 = k
      BY <1>1
    <3>2. l \in Nat /\ l <= MaxIso /\ total[k + 1] = total[k] + l
          /\ total[k] \in Nat /\ total[k + 1] \in Nat
      BY <1>1, <1>5, <1>6, <1>18, <3>1
    <3>3. u \in 1 .. c /\ used \in Nat /\ un \in 1 .. c
      BY <2>2, <2>5, <3>1
    <3>4. s <= k + 1 /\ used = total[k] - total[s - 1] /\ used <= MaxIso
      BY <2>7
    <3>5. s \in 1 .. n + 1 /\ s - 1 \in 0 .. n /\ total[s - 1] \in Nat
      <4>1. u \in 1 .. c + 1
        BY <1>1, <3>3
      <4>2. s \in 1 .. n + 1
        BY <1>13, <4>1 DEF V
      <4> HIDE DEF s
      <4>3. s - 1 \in 0 .. n
        BY <1>1, <4>2
      <4> QED
        BY <1>6, <4>2, <4>3
    <3>6. loop[k + 1] = IF MaxIso - used >= 0 /\ l > MaxIso - used
                        THEN [urbs |-> u + 1, used |-> l] ELSE [loop[k] EXCEPT !.used = @ + l]
      BY <2>2 DEF Count1
    <3>7. CASE MaxIso - used >= 0 /\ l > MaxIso - used
      <4>1. un = u + 1 /\ loop[k + 1].used = l
        BY <3>6, <3>7
      <4>2. total[k + 1] - total[s - 1] > MaxIso
        <5> HIDE DEF s, l, used
        <5> QED
          BY <1>1, <3>2, <3>3, <3>4, <3>5, <3>7, SMTT(60)
      <4>3. Behind(s) = k + 1
        <5>1. total[k] - total[s - 1] <= MaxIso
          BY <3>4
        <5> HIDE DEF s
        <5> QED
          BY <1>17, <3>1, <3>4, <3>5, <4>2, <5>1
      <4>4. start[un] = k + 1
        BY <1>12, <3>3, <4>1, <4>3
      <4>5. l = total[k + 1] - total[k]
        <5> HIDE DEF l
        <5> QED
          BY <3>2
      <4>6. start[un] <= k + 1 + 1
        BY <3>1, <4>4
      <4> HIDE DEF un, l
      <4> QED
        BY <3>1, <3>2, <4>1, <4>4, <4>5, <4>6, SMTT(60) DEF un
    <3>8. CASE ~(MaxIso - used >= 0 /\ l > MaxIso - used)
      <4>1. un = u /\ loop[k + 1].used = used + l
        BY <2>2, <3>1, <3>6, <3>8
      <4>2. used + l <= MaxIso /\ used + l = total[k + 1] - total[s - 1] /\ s <= k + 1 + 1
        <5> DEFINE a == total[k]
                   b == total[k + 1]
                   d == total[s - 1]
        <5>1. /\ used \in Nat /\ l \in Nat /\ a \in Nat /\ b \in Nat /\ d \in Nat /\ MaxIso \in Nat
              /\ s \in Nat /\ k \in Nat
          BY <1>1, <3>1, <3>2, <3>3, <3>5, SMTT(60)
        <5>2. used <= MaxIso /\ used = a - d /\ b = a + l /\ s <= k + 1
          BY <3>2, <3>4
        <5> HIDE DEF s, l, used, a, b, d
        <5>3. used + l <= MaxIso
          BY <3>8, <5>1, <5>2
        <5>4. used + l = b - d /\ s <= k + 1 + 1
          BY <5>1, <5>2
        <5> QED
          BY <5>3, <5>4 DEF b, d
      <4> QED
        BY <3>1, <4>1, <4>2
    <3> QED
      BY <3>7, <3>8
  <2> HIDE DEF Fill
  <2>8. \A k \in 0 .. n : k \in T
    <3> HIDE DEF T
    <3> QED
      BY <1>1, <2>6, <2>7, UpTo
  <2>9. Fill(n) /\ n \in 0 .. n /\ c \in 1 .. c /\ c \in 1 .. c + 1
    BY <1>1, <2>8
  <2>10. start[c] <= n + 1 /\ total[n] - total[start[c] - 1] <= MaxIso /\ start[c] \in 1 .. n + 1
    BY <1>13, <2>2, <2>9 DEF Fill, V
  <2>11. Behind(start[c]) = n + 1
    BY <1>17, <2>9, <2>10
  <2> QED
    BY <1>12, <2>9, <2>11
<1> HIDE DEF n
<1>19. Runs(lens, start)
  BY <1>2, <1>12, <1>14, <1>15, <1>18 DEF Runs, V, c, n
<1> QED
  BY <1>19

\* Every request is cut into URBs, at least one.
LEMMA UrbsType ==
  ASSUME NEW r \in Request, continuation \in BOOLEAN
  PROVE  UrbsOf(r) \in Seq(Urb) /\ Len(UrbsOf(r)) \in Nat \ {0}
<1>1. CASE r.type = "bulk"
  BY <1>1, BulkType DEF UrbsOf
<1>2. CASE r.type = "control"
  <2>1. [offset |-> 0, length |-> r.length, cont |-> FALSE] \in Urb
    BY DEF Urb, Request
  <2> HIDE DEF Urb
  <2>2. ControlUrbs(r) \in Seq(Urb) /\ Len(ControlUrbs(r)) = 1
    BY <2>1 DEF ControlUrbs
  <2> QED
    BY <1>2, <2>2 DEF UrbsOf
<1>3. CASE r.type = "iso"
  <2> DEFINE lens == r.packets
             c == IsoCount(lens)
             fill == IsoFill(lens)
             urb(i) == [offset |-> fill[i].first, length |-> fill[i].count, cont |-> FALSE]
  <2>1. lens \in Seq(Nat)
    BY DEF Request
  <2>2. c \in Nat \ {0} /\ Len(lens) \in Nat
    BY <2>1, IsoCountType
  <2>3. PICK start \in [1 .. c + 1 -> 1 .. Len(lens) + 1] :
          /\ \A i \in 1 .. c : start[i] <= start[i + 1]
          /\ fill = [i \in 1 .. c |-> [first |-> start[i], count |-> start[i + 1] - start[i]]]
    <3>1. PICK start : Runs(lens, start)
      <4> HIDE DEF lens
      <4> QED
        BY <2>1, IsoFillRuns
    <3> QED
      BY <3>1 DEF Runs
  <2> HIDE DEF c, lens
  <2>4. ASSUME NEW i \in 1 .. c
        PROVE  urb(i) \in Urb
    <3>1. i \in 1 .. c + 1 /\ i + 1 \in 1 .. c + 1
      BY <2>2
    <3>2. start[i] \in Nat /\ start[i + 1] \in Nat /\ start[i] <= start[i + 1]
      BY <2>2, <2>3, <3>1
    <3>3. fill[i].first = start[i] /\ fill[i].count = start[i + 1] - start[i]
      BY <2>3
    <3> HIDE DEF fill
    <3> QED
      BY <3>2, <3>3 DEF Urb
  <2>5. IsoUrbs(r) = [i \in 1 .. c |-> urb(i)]
    <3>1. DOMAIN fill = 1 .. c
      BY <2>3
    <3> QED
      BY <3>1 DEF IsoUrbs, lens
  <2> HIDE DEF urb
  <2>6. IsoUrbs(r) \in Seq(Urb) /\ Len(IsoUrbs(r)) = c
    BY <2>2, <2>4, <2>5
  <2> QED
    BY <1>3, <2>2, <2>6 DEF UrbsOf
<1> QED
  BY <1>1, <1>2, <1>3 DEF Request
----------------------------------------------------------------------------
(* The inductive invariant of TransferOK *)

\* TypeOK, by what the actions change together.
RequestType == /\ request \in Requests /\ continuation \in BOOLEAN
               /\ submits \in 0 .. MaxSubmits /\ alloc \in {0, submits} /\ urbs \in Seq(Urb)
StateType == /\ connected \in BOOLEAN /\ polled \in BOOLEAN /\ halted \in BOOLEAN
             /\ owner \in {"user", "libusb", "freed"}
             /\ lock \in Users \cup {"none", "handler"}
PrivType == /\ reap_action \in {"NORMAL", "SUBMIT_FAILED", "CANCELLED", "COMPLETED_EARLY"}
            /\ num_retired \in Nat /\ iso_packet_offset \in Nat
TransferType ==
  /\ timed_out \in BOOLEAN /\ transferred \in Nat /\ buffer \in Seq(Nat) /\ results \in Seq(Nat)
  /\ status \in {"none", "COMPLETED", "CANCELLED", "TIMED_OUT", "ERROR",
                 "STALL", "OVERFLOW", "NO_DEVICE"}
KernelType == pending \in Seq(Queued) /\ finished \in Seq(Entries) /\ delivered \in Nat
ThreadType ==
  /\ asked \subseteq {"user", "timeout"} /\ cur \in Entries
  /\ pc \in [Users -> {"idle", "submit", "undo", "cancel"}] /\ at \in [Users -> Nat]
  /\ hpc \in {"idle", "bulk", "iso", "control", "discard", "callback", "unlock"}

\* The loops stay inside the block.
Inside ==
  /\ hpc \in {"bulk", "iso", "discard"} => cur.i \in 1 .. num_urbs
  /\ \A u \in Users : pc[u] = "submit" /\ alloc = submits => at[u] \in 1 .. num_urbs

TypeInv == /\ RequestType /\ StateType /\ PrivType /\ TransferType /\ KernelType /\ ThreadType
           /\ Inside

\* The transfer is under way, and the handler has one of its URBs in hand.
Flies == alloc # 0
Hand == IF hpc \in {"bulk", "iso", "control"} THEN 1 ELSE 0

\* The URBs of the block the kernel has been asked for, or will not be.
Issued == IF Flies /\ lock \in Users /\ pc[lock] = "submit" THEN at[lock] - 1 ELSE num_urbs

\* Who is in a call holds the lock, and the handler while it discards.
LockInv ==
  /\ lock = "handler" <=> hpc = "discard"
  /\ \A u \in Users : (pc[u] # "idle" <=> lock = u) /\ (pc[u] = "submit" => submits > 0)

\* While the transfer is under way libusb owns it, and until the callback. What
\* the handler has in hand is one of its URBs.
OwnerInv ==
  /\ Flies => owner = "libusb"
  /\ owner = "libusb" /\ ~Flies => hpc = "callback"
  /\ hpc = "callback" => owner = "libusb" /\ ~Flies
  /\ hpc = "discard" => Flies
  /\ Hand = 1 => /\ Flies /\ hpc = request.type
                 /\ cur.i \in 1 .. Issued /\ cur.n <= urbs[cur.i].length

\* Every URB of a bulk transfer is a part of the buffer.
Reach ==
  Flies /\ request.type = "bulk" =>
    \A i \in 1 .. num_urbs : urbs[i].offset + urbs[i].length <= Len(buffer)

\* What the kernel has was submitted, and what it has of the latest submission
\* is one of the URBs of the block.
OfQueue == {p \in Queued : /\ p.alloc \in 1 .. submits
                           /\ Flies /\ p.alloc = submits =>
                                p.i \in 1 .. Issued /\ p.len = urbs[p.i].length}
OfFinished == {e \in Entries : /\ e.alloc \in 1 .. submits
                               /\ Flies /\ e.alloc = submits =>
                                    e.i \in 1 .. Issued /\ e.n <= urbs[e.i].length}

\* Those of the latest submission, and those of one URB of it.
Ours == {p \in Queued : p.alloc = submits}
OursDone == {e \in Entries : e.alloc = submits}
Our(i) == {p \in Queued : p.alloc = submits /\ p.i = i}

\* No URB is queued twice.
QueueInv == /\ pending \in Seq(OfQueue) /\ finished \in Seq(OfFinished)
            /\ Flies => \A i \in Nat : Count(pending, Our(i)) <= 1

\* Every URB is retired, in the kernel, in hand, or still to be submitted; some
\* are lost when the device is unplugged.
Held == num_retired + Count(pending, Ours) + Count(finished, OursDone) + Hand
CountInv == Flies => Held <= Issued /\ (connected => Held = Issued)

FlightInv == LockInv /\ OwnerInv /\ Reach /\ QueueInv /\ CountInv

\* The inductive invariant.
AllInv == TypeInv /\ (Running => FlightInv)

\* The groups above are TypeOK.
LEMMA TypeSplit == TypeInv => TypeOK
BY DEF TypeInv, TypeOK, RequestType, StateType, PrivType, TransferType, KernelType, ThreadType,
   Inside, Urb

\* All requests are of one kind or another.
LEMMA RequestsType == Requests \subseteq Request
BY RequestsAssumption DEF Request

\* The locks of users are not those of others.
LEMMA Locks == "none" \notin Users /\ "handler" \notin Users
BY UsersAssumption

IssuedOK == Issued \in 0 .. num_urbs /\ num_urbs \in Nat

LEMMA IssuedType == TypeInv => IssuedOK
<1> SUFFICES ASSUME TypeInv PROVE Issued \in 0 .. num_urbs /\ num_urbs \in Nat
  BY DEF IssuedOK
<1>1. num_urbs \in Nat
  BY LenProperties DEF TypeInv, RequestType, num_urbs
<1>2. CASE Flies /\ lock \in Users /\ pc[lock] = "submit"
  <2>1. at[lock] \in 1 .. num_urbs
    BY <1>2 DEF TypeInv, Inside, Flies, RequestType
  <2> QED
    BY <1>1, <1>2, <2>1 DEF Issued
<1>3. CASE ~(Flies /\ lock \in Users /\ pc[lock] = "submit")
  <2>1. Issued = num_urbs
    BY <1>3 DEF Issued
  <2> QED
    BY <1>1, <2>1
<1> QED
  BY <1>2, <1>3

LEMMA IssuedNext == TypeInv' => IssuedOK'
BY IssuedType, PTL

\* Of the same block, the kernel may have more as more is submitted.
LEMMA SetsGrow ==
  ASSUME UNCHANGED <<alloc, urbs, submits>>, Issued \in Int, Issued' \in Int, Issued <= Issued'
  PROVE  /\ OfQueue \subseteq OfQueue' /\ OfFinished \subseteq OfFinished'
         /\ Ours' = Ours /\ OursDone' = OursDone /\ \A i : Our(i)' = Our(i)
<1>1. \A j : j \in 1 .. Issued => j \in 1 .. Issued'
  OBVIOUS
<1>2. OfQueue \subseteq OfQueue' /\ OfFinished \subseteq OfFinished'
  <2> HIDE DEF Issued
  <2> QED
    BY <1>1 DEF OfQueue, OfFinished, Flies
<1> QED
  BY <1>2 DEF Ours, OursDone, Our

\* How many there are of the latest submission.
HeldOK == Held \in Nat /\ Count(pending, Ours) \in Nat /\ Count(finished, OursDone) \in Nat

LEMMA HeldType == TypeInv => HeldOK
<1> SUFFICES ASSUME TypeInv PROVE HeldOK
  OBVIOUS
<1>1. Count(pending, Ours) \in Nat /\ Count(finished, OursDone) \in Nat /\ num_retired \in Nat
  BY CountType DEF TypeInv, KernelType, PrivType
<1>2. Hand \in Nat
  BY DEF Hand
<1> QED
  BY <1>1, <1>2 DEF HeldOK, Held

LEMMA HeldNext == TypeInv' => HeldOK'
BY HeldType, PTL

\* While the block stays, a step keeps the invariant if what it takes away in
\* one place it adds in another.
LEMMA SameBlock ==
  ASSUME TypeInv, TypeInv', FlightInv, UNCHANGED <<alloc, urbs, submits, request>>,
         Len(buffer') = Len(buffer), LockInv', OwnerInv', connected' => connected,
         pending' \in Seq(OfQueue'), finished' \in Seq(OfFinished'),
         Flies => \A i \in Nat : Count(pending', Our(i)) <= 1,
         Flies => (Held <= Issued => Held' <= Issued'),
         Flies /\ connected' => (Held = Issued => Held' = Issued')
  PROVE  FlightInv'
<1>1. \A i : Our(i)' = Our(i)
  BY DEF Our
<1>2. Reach'
  BY DEF FlightInv, Reach, Flies, num_urbs
<1>3. QueueInv'
  BY <1>1 DEF QueueInv, Flies
<1>4. CountInv'
  BY DEF FlightInv, CountInv, Flies
<1> QED
  BY <1>2, <1>3, <1>4 DEF FlightInv

\* Once the block is gone, nothing is asked of what the kernel has.
LEMMA BlockGone ==
  ASSUME TypeInv, FlightInv, alloc' = 0, UNCHANGED <<submits, pending, finished>>,
         LockInv', OwnerInv'
  PROVE  FlightInv'
<1>1. ~Flies'
  BY DEF Flies
<1>2. OfQueue \subseteq OfQueue' /\ OfFinished \subseteq OfFinished'
  BY <1>1 DEF OfQueue, OfFinished
<1>3. QueueInv'
  BY <1>1, <1>2, SeqMonotonic DEF FlightInv, QueueInv
<1> QED
  BY <1>1, <1>3 DEF FlightInv, Reach, CountInv

\* Of a list some are taken out, and the others stay.
Outs(q, T, U) ==
  /\ Count(q, T) = Count(Kept(q, U), T) + Count(q, T \ U)
  /\ Count(q, T) \in Nat /\ Count(Kept(q, U), T) \in Nat /\ Count(q, T \ U) \in Nat

LEMMA CountOut ==
  ASSUME NEW S, NEW q \in Seq(S), NEW T, NEW U
  PROVE  Outs(q, T, U)
<1>1. Count(q, T) = Count(q, T \cap U) + Count(q, T \ U)
  <2>1. Splits(q, T, U)
    BY CountSplit
  <2> QED
    BY <2>1 DEF Splits
<1>2. Count(Kept(q, U), T) = Count(q, T \cap U)
  BY CountKept
<1>3. Count(q, T) \in Nat /\ Count(q, T \cap U) \in Nat /\ Count(q, T \ U) \in Nat
  BY CountType
<1> QED
  BY <1>1, <1>2, <1>3 DEF Outs


\* A URB is discarded, or nothing changes: it goes from one list to the other.
LEMMA Discarded ==
  ASSUME TypeInv, FlightInv, NEW i \in Nat, Discard(i)
  PROVE  /\ UNCHANGED <<connected, halted>> /\ KernelType'
         /\ pending' \in Seq(OfQueue) /\ finished' \in Seq(OfFinished)
         /\ Flies => \A j \in Nat : Count(pending', Our(j)) <= 1
         /\ Flies => Count(pending', Ours) + Count(finished', OursDone)
                       = Count(pending, Ours) + Count(finished, OursDone)
<1> DEFINE Is(p) == p.alloc = alloc /\ p.i = i
           found == connected /\ Flies /\ \E k \in DOMAIN pending : Is(pending[k])
           other == {p \in Queued : ~Is(p)}
           entry(n) == Done([alloc |-> alloc, i |-> i], "noent", n)
<1>1. CASE ~found
  <2>1. UNCHANGED kernel
    BY <1>1 DEF Discard, Flies
  <2> QED
    BY <2>1 DEF kernel, TypeInv, KernelType, FlightInv, QueueInv
<1>2. CASE found
  <2>1. PICK n \in 0 .. (IF Is(Head(pending)) /\ request.type = "bulk"
                         THEN Head(pending).len ELSE 0) :
          finished' = Append(finished, entry(n)) /\ delivered' = delivered + n
    BY <1>2 DEF Discard, Flies
  <2>2. pending' = Kept(pending, other) /\ UNCHANGED <<connected, halted>>
    BY <1>2 DEF Discard, Flies
  <2>3. PICK k \in DOMAIN pending : Is(pending[k])
    BY <1>2
  <2>4. /\ pending \in Seq(Queued) /\ pending \in Seq(OfQueue) /\ pending # <<>>
        /\ finished \in Seq(Entries) /\ finished \in Seq(OfFinished)
        /\ pending[k] \in Queued /\ pending[k] \in OfQueue
    <3>1. pending \in Seq(Queued) /\ pending \in Seq(OfQueue)
      BY DEF TypeInv, KernelType, FlightInv, QueueInv
    <3>2. k \in 1 .. Len(pending)
      BY <2>3, <3>1, LenProperties
    <3>3. pending[k] \in Queued /\ pending[k] \in OfQueue
      BY <3>1, <3>2, ElementOfSeq
    <3> QED
      BY <2>3, <3>1, <3>3 DEF TypeInv, KernelType, FlightInv, QueueInv
  <2>5. alloc = submits /\ alloc \in Nat /\ alloc # 0
    BY <1>2 DEF Flies, TypeInv, RequestType
  <2>6. i \in 1 .. Issued
    BY <2>3, <2>4, <2>5 DEF OfQueue, Flies
  <2>7. n \in Nat /\ n <= urbs[i].length
    <3>1. urbs[i].length \in Nat
      <4>1. i \in 1 .. Len(urbs)
        BY <2>6, IssuedType DEF IssuedOK, num_urbs
      <4>2. urbs[i] \in Urb
        BY <4>1, ElementOfSeq DEF TypeInv, RequestType
      <4> QED
        BY <4>2 DEF Urb
    <3>2. Head(pending) \in OfQueue
      BY <2>4, HeadTailProperties
    <3>3. Is(Head(pending)) => Head(pending).len = urbs[i].length
      BY <2>5, <3>2 DEF OfQueue, Flies
    <3> QED
      BY <2>1, <3>1, <3>3
  <2>8. entry(n) \in OfFinished /\ entry(n) \in Entries /\ entry(n) \in OursDone
    <3>1. entry(n) = [alloc |-> alloc, i |-> i, status |-> "noent", n |-> n, first |-> delivered]
      BY DEF Done
    <3>2. delivered \in Nat
      BY DEF TypeInv, KernelType
    <3>3. entry(n) \in Entries
      BY <2>5, <2>7, <3>1, <3>2 DEF Entries
    <3>4. alloc \in 1 .. submits
      BY <2>5
    <3> QED
      BY <2>5, <2>6, <2>7, <3>1, <3>3, <3>4 DEF OfFinished, OursDone
  <2> HIDE DEF entry
  <2>9. /\ pending' \in Seq(Queued) /\ pending' \in Seq(OfQueue)
    <3>1. pending' \in Seq(Queued \cap other) /\ pending' \in Seq(OfQueue \cap other)
      <4> HIDE DEF other
      <4> QED
        BY <2>2, <2>4, KeptType
    <3> QED
      BY <3>1, SeqMonotonic
  <2>10. finished' \in Seq(Entries) /\ finished' \in Seq(OfFinished)
    BY <2>1, <2>4, <2>8, AppendProperties
  <2>11. KernelType'
    <3>1. delivered' \in Nat
      BY <2>1, <2>7 DEF TypeInv, KernelType
    <3> QED
      BY <2>9, <2>10, <3>1 DEF KernelType
  <2>12. ASSUME NEW j \in Nat
         PROVE  Count(pending', Our(j)) <= 1
    <3>1. Count(pending, Our(j)) <= 1
      BY <2>5 DEF FlightInv, QueueInv, Flies
    <3>2. /\ Count(pending, Our(j)) = Count(pending', Our(j)) + Count(pending, Our(j) \ other)
          /\ Count(pending, Our(j)) \in Nat /\ Count(pending', Our(j)) \in Nat
          /\ Count(pending, Our(j) \ other) \in Nat
      <4>1. Outs(pending, Our(j), other)
        <5> HIDE DEF other
        <5> QED
          BY <2>4, CountOut
      <4> HIDE DEF other
      <4> QED
        BY <2>2, <4>1 DEF Outs
    <3> HIDE DEF other
    <3> QED
      BY <3>1, <3>2
  <2>13. Count(pending', Ours) + Count(finished', OursDone)
           = Count(pending, Ours) + Count(finished, OursDone)
    <3>2. /\ Count(pending, Ours) = Count(pending', Ours) + Count(pending, Ours \ other)
          /\ Count(pending', Ours) \in Nat
      <4>1. Outs(pending, Ours, other)
        <5> HIDE DEF other
        <5> QED
          BY <2>4, CountOut
      <4> HIDE DEF other
      <4> QED
        BY <2>2, <4>1 DEF Outs
    <3>3. Ours \ other = Our(i)
      BY <2>5 DEF Ours, Our
    <3>4. Count(pending, Our(i)) = 1
      <4>1. pending[k] \in Our(i)
        BY <2>3, <2>4, <2>5 DEF Our
      <4>2. Count(pending, Our(i)) # 0
        BY <2>3, <2>4, <4>1, CountNone
      <4>3. Count(pending, Our(i)) \in Nat
        BY <2>4, CountType
      <4>4. Count(pending, Our(i)) <= 1
        BY <2>5 DEF FlightInv, QueueInv, Flies
      <4> QED
        BY <4>2, <4>3, <4>4
    <3>5. Count(finished', OursDone) = Count(finished, OursDone) + 1
      <4>1. Count(Append(finished, entry(n)), OursDone)
              = Count(finished, OursDone) + One(entry(n), OursDone)
        BY <2>4, <2>8, CountAppend
      <4> QED
        BY <2>1, <2>8, <4>1 DEF One
    <3>6. Count(finished, OursDone) \in Nat
      BY <2>4, CountType
    <3> HIDE DEF other
    <3> QED
      BY <3>2, <3>3, <3>4, <3>5, <3>6
  <2> QED
    BY <2>2, <2>9, <2>10, <2>11, <2>12, <2>13
<1> QED
  BY <1>1, <1>2

\* The same for steps that submit nothing.
Back(q, f, r, h) == Count(q, Ours) + Count(f, OursDone) + r + h

LEMMA SameSum ==
  ASSUME TypeInv, TypeInv', FlightInv, UNCHANGED <<alloc, urbs, submits, request>>,
         Len(buffer') = Len(buffer), LockInv', OwnerInv', connected' => connected,
         Issued' = Issued, pending' \in Seq(OfQueue), finished' \in Seq(OfFinished),
         Flies => \A j \in Nat : Count(pending', Our(j)) <= 1,
         Flies => Back(pending', finished', num_retired', Hand')
                    = Back(pending, finished, num_retired, Hand)
  PROVE  FlightInv'
<1>1. Issued \in Int /\ Issued' \in Int /\ Issued <= Issued'
  <2>1. IssuedOK
    BY IssuedType
  <2> HIDE DEF Issued
  <2> QED
    BY <2>1 DEF IssuedOK, num_urbs
<1>2. /\ OfQueue \subseteq OfQueue' /\ OfFinished \subseteq OfFinished'
      /\ Ours' = Ours /\ OursDone' = OursDone
  BY <1>1, SetsGrow
<1>3. pending' \in Seq(OfQueue') /\ finished' \in Seq(OfFinished')
  BY <1>2, SeqMonotonic
<1>4. Flies => Held' = Held
  <2> DEFINE p == Count(pending, Ours)
             f == Count(finished, OursDone)
             pn == Count(pending', Ours')
             fn == Count(finished', OursDone')
             r == num_retired
             rn == num_retired'
             h == Hand
             hn == Hand'
  <2>1. /\ p \in Nat /\ f \in Nat /\ pn \in Nat /\ fn \in Nat
        /\ r \in Nat /\ rn \in Nat /\ h \in Nat /\ hn \in Nat
    BY HeldType, HeldNext DEF HeldOK, TypeInv, PrivType, Hand
  <2>2. Held = r + p + f + h /\ Held' = rn + pn + fn + hn
    BY DEF Held
  <2>3. Flies => pn + fn + rn + hn = p + f + r + h
    BY <1>2 DEF Back
  <2> HIDE DEF p, f, pn, fn, r, rn, h, hn
  <2>4. Flies => rn + pn + fn + hn = r + p + f + h
    BY <2>1, <2>3
  <2> QED
    BY <2>2, <2>4
<1> QED
  BY <1>3, <1>4, SameBlock

----------------------------------------------------------------------------
(* The steps of the users *)

\* What the steps that leave the block and the kernel's lists alone keep.
LEMMA SameLists ==
  ASSUME TypeInv, TypeInv', FlightInv, UNCHANGED <<alloc, urbs, submits, request>>,
         Len(buffer') = Len(buffer), LockInv', OwnerInv',
         UNCHANGED <<connected, pending, finished>>, Issued' = Issued,
         Flies => num_retired' + Hand' = num_retired + Hand
  PROVE  FlightInv'
<1>1. Issued \in Int /\ Issued' \in Int /\ Issued <= Issued'
  <2>1. IssuedOK
    BY IssuedType
  <2> HIDE DEF Issued
  <2> QED
    BY <2>1 DEF IssuedOK, num_urbs
<1>2. /\ OfQueue \subseteq OfQueue' /\ OfFinished \subseteq OfFinished'
      /\ Ours' = Ours /\ OursDone' = OursDone
  BY <1>1, SetsGrow
<1>3. pending' \in Seq(OfQueue') /\ finished' \in Seq(OfFinished')
  BY <1>2, SeqMonotonic DEF FlightInv, QueueInv
<1>4. Flies => \A i \in Nat : Count(pending', Our(i)) <= 1
  BY DEF FlightInv, QueueInv
<1>5. Flies => Held' = Held
  <2>1. /\ Count(pending', Ours') = Count(pending, Ours)
        /\ Count(finished', OursDone') = Count(finished, OursDone)
    BY <1>2
  <2> DEFINE p == Count(pending, Ours)
             f == Count(finished, OursDone)
             r == num_retired
             rn == num_retired'
             h == Hand
             hn == Hand'
  <2>2. p \in Nat /\ f \in Nat /\ r \in Nat /\ rn \in Nat /\ h \in Nat /\ hn \in Nat
    BY HeldType DEF HeldOK, TypeInv, PrivType, Hand
  <2>3. Held = r + p + f + h /\ Held' = rn + p + f + hn
    BY <2>1 DEF Held
  <2>4. Flies => rn + hn = r + h
    OBVIOUS
  <2> HIDE DEF p, f, r, rn, h, hn
  <2>5. Flies => rn + p + f + hn = r + p + f + h
    BY <2>2, <2>4
  <2> QED
    BY <2>3, <2>5
<1> QED
  BY <1>3, <1>4, <1>5, SameBlock

LEMMA CancelInflight ==
  ASSUME TypeInv, FlightInv, NEW u \in Users, Cancel(u)
  PROVE  TypeInv' /\ FlightInv'
<1>1. lock = "none" /\ lock' = u /\ pc' = [pc EXCEPT ![u] = "cancel"] /\ pc[u] = "idle"
  BY DEF Cancel
<1>2. pc'[u] = "cancel" /\ \A v \in Users : v # u => pc'[v] = pc[v] /\ pc[v] = "idle"
  BY <1>1, Locks DEF TypeInv, ThreadType, FlightInv, LockInv
<1>3. TypeInv'
  <2>1. RequestType' /\ KernelType' /\ PrivType'
    BY DEF Cancel, kernel, TypeInv, RequestType, KernelType, PrivType
  <2>2. StateType' /\ TransferType'
    BY DEF Cancel, kernel, TypeInv, StateType, TransferType
  <2>3. ThreadType'
    BY DEF Cancel, TypeInv, ThreadType
  <2>4. Inside'
    BY <1>2 DEF Cancel, TypeInv, Inside, num_urbs
  <2> QED
    BY <2>1, <2>2, <2>3, <2>4 DEF TypeInv
<1>4. Issued' = Issued
  <2>1. Issued = num_urbs
    BY <1>1, Locks DEF Issued
  <2>2. Issued' = num_urbs'
    BY <1>1, <1>2 DEF Issued
  <2> QED
    BY <2>1, <2>2 DEF Cancel, num_urbs
<1>5. LockInv'
  BY <1>1, <1>2, Locks DEF Cancel, FlightInv, LockInv
<1>6. OwnerInv' /\ Hand' = Hand /\ num_retired' = num_retired
  <2> HIDE DEF Issued
  <2> QED
    BY <1>4 DEF Cancel, FlightInv, OwnerInv, Flies, Hand
<1> QED
  BY <1>3, <1>4, <1>5, <1>6, SameLists DEF Cancel, kernel

LEMMA FreeInflight ==
  ASSUME TypeInv, FlightInv, NEW u \in Users, FreeTransfer(u)
  PROVE  TypeInv' /\ FlightInv'
<1>1. TypeInv'
  <2>1. RequestType' /\ KernelType' /\ PrivType' /\ StateType' /\ TransferType' /\ ThreadType'
    BY DEF FreeTransfer, kernel, tpriv, transfer, threads, TypeInv, RequestType, KernelType,
       PrivType, StateType, TransferType, ThreadType
  <2>2. Inside'
    BY DEF FreeTransfer, tpriv, threads, TypeInv, Inside, num_urbs
  <2> QED
    BY <2>1, <2>2 DEF TypeInv
<1>2. Issued' = Issued
  BY DEF FreeTransfer, tpriv, threads, Issued, Flies, num_urbs
<1>3. LockInv'
  BY DEF FreeTransfer, threads, FlightInv, LockInv
<1>4. OwnerInv' /\ Hand' = Hand
  <2> HIDE DEF Issued
  <2> QED
    BY <1>2 DEF FreeTransfer, tpriv, threads, FlightInv, OwnerInv, Flies, Hand
<1> QED
  BY <1>1, <1>2, <1>3, <1>4, SameLists DEF FreeTransfer, kernel, tpriv, transfer, threads

\* One turn of a loop that discards URBs under the lock.
LEMMA DiscardTurn ==
  ASSUME TypeInv, FlightInv, NEW u \in Users, pc[u] \in {"undo", "cancel"}, Discard(at[u]),
         Return(u) \/ (at' = [at EXCEPT ![u] = @ + 1] /\ UNCHANGED <<pc, lock>>),
         UNCHANGED <<request, continuation, polled, owner, submits, asked, tpriv, transfer,
                     hpc, cur>>
  PROVE  TypeInv' /\ FlightInv'
<1>1. lock = u /\ pc[u] # "submit"
  BY DEF FlightInv, LockInv
<1>2. at[u] \in Nat
  BY DEF TypeInv, ThreadType
<1>3. /\ UNCHANGED <<connected, halted>> /\ KernelType'
      /\ pending' \in Seq(OfQueue) /\ finished' \in Seq(OfFinished)
      /\ Flies => \A j \in Nat : Count(pending', Our(j)) <= 1
      /\ Flies => Count(pending', Ours) + Count(finished', OursDone)
                    = Count(pending, Ours) + Count(finished, OursDone)
  BY <1>2, Discarded
<1>4. \/ lock' = "none" /\ pc' = [pc EXCEPT ![u] = "idle"] /\ at' \in [Users -> Nat]
      \/ lock' = u /\ pc' = pc /\ at' \in [Users -> Nat]
  BY <1>1 DEF Return, TypeInv, ThreadType
<1>5. /\ \A v \in Users : v # u => pc'[v] = pc[v] /\ pc[v] = "idle"
      /\ pc'[u] # "submit" /\ (pc'[u] # "idle" <=> lock' = u)
      /\ pc' \in [Users -> {"idle", "submit", "undo", "cancel"}]
  BY <1>1, <1>4, Locks DEF TypeInv, ThreadType, FlightInv, LockInv
<1>6. TypeInv'
  <2>1. RequestType' /\ PrivType' /\ TransferType'
    BY DEF tpriv, transfer, TypeInv, RequestType, PrivType, TransferType
  <2>2. StateType'
    BY <1>3, <1>4 DEF TypeInv, StateType
  <2>3. ThreadType'
    BY <1>4, <1>5 DEF TypeInv, ThreadType
  <2>4. Inside'
    BY <1>5 DEF tpriv, TypeInv, Inside, num_urbs
  <2> QED
    BY <1>3, <2>1, <2>2, <2>3, <2>4 DEF TypeInv
<1>7. Issued' = Issued /\ Issued = num_urbs
  <2>1. Issued = num_urbs
    BY <1>1 DEF Issued
  <2>2. Issued' = num_urbs'
    BY <1>4, <1>5, Locks DEF Issued
  <2> QED
    BY <2>1, <2>2 DEF tpriv, num_urbs
<1>8. LockInv'
  BY <1>1, <1>4, <1>5, Locks DEF FlightInv, LockInv
<1>9. OwnerInv' /\ Hand' = Hand
  <2> HIDE DEF Issued
  <2> QED
    BY <1>7 DEF tpriv, FlightInv, OwnerInv, Flies, Hand
<1>10. /\ OfQueue \subseteq OfQueue' /\ OfFinished \subseteq OfFinished'
       /\ Ours' = Ours /\ OursDone' = OursDone
  <2>1. IssuedOK
    BY <1>6, IssuedType
  <2>2. Issued \in Int /\ Issued' \in Int /\ Issued <= Issued'
    <3> HIDE DEF Issued
    <3> QED
      BY <1>7, <2>1 DEF IssuedOK, num_urbs
  <2> QED
    BY <2>2, SetsGrow DEF tpriv
<1>11. pending' \in Seq(OfQueue') /\ finished' \in Seq(OfFinished')
  BY <1>3, <1>10, SeqMonotonic
<1>12. Flies => Held' = Held
  <2> DEFINE p == Count(pending, Ours)
             f == Count(finished, OursDone)
             pn == Count(pending', Ours')
             fn == Count(finished', OursDone')
  <2>1. Flies => pn + fn = p + f
    BY <1>3, <1>10
  <2>2. /\ p \in Nat /\ f \in Nat /\ pn \in Nat /\ fn \in Nat
        /\ num_retired \in Nat /\ Hand \in Nat
    BY <1>6, HeldType, HeldNext DEF HeldOK, TypeInv, PrivType, Hand
  <2>3. Held = num_retired + p + f + Hand /\ Held' = num_retired + pn + fn + Hand
    BY <1>9 DEF Held, tpriv
  <2> HIDE DEF p, f, pn, fn, Hand, Held
  <2> QED
    BY <2>1, <2>2, <2>3
<1> HIDE DEF Issued
<1> QED
  BY <1>3, <1>6, <1>7, <1>8, <1>9, <1>11, <1>12, SameBlock DEF tpriv, transfer

\* The loop met freed memory: nothing else changes.
LEMMA LoopStops ==
  ASSUME TypeInv, UNCHANGED <<request, continuation, polled, owner, lock, submits, asked,
                              tpriv, transfer, kernel, threads>>
  PROVE  TypeInv'
<1>1. RequestType' /\ KernelType' /\ PrivType' /\ StateType' /\ TransferType' /\ ThreadType'
  BY DEF kernel, tpriv, transfer, threads, TypeInv, RequestType, KernelType,
     PrivType, StateType, TransferType, ThreadType
<1>2. Inside'
  BY DEF tpriv, threads, TypeInv, Inside, num_urbs
<1> QED
  BY <1>1, <1>2 DEF TypeInv

LEMMA UndoInflight ==
  ASSUME TypeInv, FlightInv, NEW u \in Users, UndoUrb(u) \/ CancelUrb(u)
  PROVE  TypeInv' /\ (Running' => FlightInv')
<1>1. CASE Gone
  BY <1>1, LoopStops DEF UndoUrb, CancelUrb, Running, threads
<1>2. CASE ~Gone
  BY <1>2, DiscardTurn DEF UndoUrb, CancelUrb
<1> QED
  BY <1>1, <1>2

LEMMA SubmitInflight ==
  ASSUME TypeInv, FlightInv, NEW u \in Users, Submit(u)
  PROVE  TypeInv' /\ FlightInv'
<1>1. PICK r \in Requests : /\ request' = r /\ urbs' = UrbsOf(r)
                            /\ buffer' = [b \in 1 .. r.length |-> 0]
                            /\ results' = [k \in DOMAIN r.packets |-> 0]
  BY DEF Submit
<1>2. r \in Request /\ continuation \in BOOLEAN
  BY RequestsType DEF TypeInv, RequestType
<1>3. urbs' \in Seq(Urb) /\ Len(urbs') \in Nat \ {0}
  BY <1>1, <1>2, UrbsType
<1>4. submits \in Nat /\ submits' = submits + 1 /\ alloc' = submits' /\ submits' \in 1 .. MaxSubmits
  BY BoundsAssumption DEF Submit, TypeInv, RequestType
<1>5. /\ pc' = [pc EXCEPT ![u] = "submit"] /\ at' = [at EXCEPT ![u] = 1] /\ lock' = u
      /\ pc[u] = "idle" /\ lock = "none" /\ owner = "user" /\ alloc = 0 /\ owner' = "libusb"
      /\ UNCHANGED <<hpc, cur, pending, finished, connected>>
  BY DEF Submit
<1>6. /\ pc'[u] = "submit" /\ at'[u] = 1
      /\ \A v \in Users : v # u => pc'[v] = "idle"
      /\ hpc \in {"idle", "unlock"}
  <2>1. /\ pc'[u] = "submit" /\ at'[u] = 1
        /\ \A v \in Users : v # u => pc'[v] = "idle"
    BY <1>5, Locks DEF TypeInv, ThreadType, FlightInv, LockInv
  <2>2. hpc \in {"idle", "unlock"}
    BY <1>5 DEF TypeInv, ThreadType, FlightInv, OwnerInv, Hand, Flies
  <2> QED
    BY <2>1, <2>2
<1>7. TypeInv'
  <2>1. RequestType'
    BY <1>1, <1>3, <1>4 DEF Submit, TypeInv, RequestType
  <2>2. StateType' /\ PrivType' /\ ThreadType'
    <3>1. StateType' /\ PrivType'
      BY DEF Submit, TypeInv, StateType, PrivType
    <3>2. ThreadType'
      BY DEF Submit, TypeInv, ThreadType
    <3> QED
      BY <3>1, <3>2
  <2>3. TransferType'
    <3>1. buffer' \in Seq(Nat) /\ results' \in Seq(Nat)
      <4>1. r.length \in Nat /\ r.packets \in Seq(Nat)
        BY <1>2 DEF Request
      <4>2. DOMAIN r.packets = 1 .. Len(r.packets) /\ Len(r.packets) \in Nat
        BY <4>1, LenProperties
      <4> QED
        BY <1>1, <4>1, <4>2
    <3> QED
      BY <3>1 DEF Submit, ResetTransfer, TypeInv, TransferType
  <2>4. KernelType'
    BY DEF Submit, TypeInv, KernelType
  <2>5. Inside'
    BY <1>3, <1>5, <1>6 DEF Inside, num_urbs
  <2> QED
    BY <2>1, <2>2, <2>3, <2>4, <2>5 DEF TypeInv
<1>8. Issued' = 0 /\ Flies' /\ Hand' = 0
  <2>1. Flies'
    BY <1>4 DEF Flies
  <2>2. Issued' = 0
    BY <1>5, <1>6, <2>1 DEF Issued
  <2>3. Hand' = 0
    BY <1>5, <1>6 DEF Hand
  <2> QED
    BY <2>1, <2>2, <2>3
<1>9. LockInv'
  <2>1. submits' > 0
    BY <1>4
  <2> QED
    BY <1>5, <1>6, <2>1, Locks DEF LockInv
<1>10. OwnerInv'
  BY <1>5, <1>6, <1>8 DEF OwnerInv
<1>11. Reach'
  <2>1. SUFFICES ASSUME r.type = "bulk"
                 PROVE  \A i \in 1 .. num_urbs' : urbs'[i].offset + urbs'[i].length <= Len(buffer')
    BY <1>1 DEF Reach
  <2>2. urbs' = BulkUrbs(r)
    BY <1>1, <2>1 DEF UrbsOf
  <2>3. Len(buffer') = r.length
    BY <1>1, <1>2 DEF Request
  <2> QED
    BY <1>2, <2>2, <2>3, BulkType DEF num_urbs
<1>12. OfQueue \subseteq OfQueue' /\ OfFinished \subseteq OfFinished'
  <2>1. \A a : a \in 1 .. submits => a \in 1 .. submits' /\ a # submits'
    BY <1>4
  <2> HIDE DEF Issued
  <2> QED
    BY <2>1 DEF OfQueue, OfFinished
<1>13. /\ OfQueue \cap Ours' = {} /\ OfFinished \cap OursDone' = {}
       /\ \A i : OfQueue \cap Our(i)' = {}
  <2>1. \A a : a \in 1 .. submits => a # submits'
    BY <1>4
  <2> QED
    BY <2>1 DEF OfQueue, OfFinished, Ours, OursDone, Our
<1>14. pending \in Seq(OfQueue) /\ finished \in Seq(OfFinished)
  BY DEF FlightInv, QueueInv
<1>15. QueueInv'
  <2>1. pending' \in Seq(OfQueue') /\ finished' \in Seq(OfFinished')
    BY <1>5, <1>12, <1>14, SeqMonotonic
  <2>2. ASSUME NEW i \in Nat PROVE Count(pending', Our(i)') <= 1
    <3>1. Count(pending, Our(i)') = 0
      BY <1>13, <1>14, CountNone
    <3> QED
      BY <1>5, <3>1
  <2> QED
    BY <2>1, <2>2 DEF QueueInv
<1>16. CountInv'
  <2>1. Count(pending, Ours') = 0 /\ Count(finished, OursDone') = 0
    BY <1>13, <1>14, CountNone
  <2>2. num_retired' = 0
    BY DEF Submit
  <2>3. Held' = 0
    BY <1>5, <1>8, <2>1, <2>2 DEF Held
  <2> QED
    BY <1>8, <2>3 DEF CountInv
<1> QED
  BY <1>7, <1>9, <1>10, <1>11, <1>15, <1>16 DEF FlightInv

\* What a thread that submits finds while its block is there.
LEMMA SubmitFacts ==
  ASSUME TypeInv, FlightInv, NEW u \in Users, pc[u] = "submit", alloc = submits
  PROVE  /\ lock = u /\ Flies /\ submits \in Nat \ {0} /\ num_urbs \in Nat
         /\ at[u] \in 1 .. num_urbs /\ Issued = at[u] - 1 /\ urbs[at[u]] \in Urb
         /\ hpc \notin {"callback", "discard"} /\ owner = "libusb"
         /\ \A v \in Users : v # u => pc[v] = "idle"
<1>1. lock = u /\ submits > 0 /\ \A v \in Users : v # u => pc[v] = "idle"
  BY Locks DEF TypeInv, ThreadType, FlightInv, LockInv
<1>2. submits \in Nat \ {0} /\ Flies
  BY <1>1 DEF TypeInv, RequestType, Flies
<1>3. at[u] \in 1 .. num_urbs /\ num_urbs \in Nat
  BY LenProperties DEF TypeInv, RequestType, Inside, num_urbs
<1>4. urbs[at[u]] \in Urb
  BY <1>3, ElementOfSeq DEF TypeInv, RequestType, num_urbs
<1>5. Issued = at[u] - 1
  BY <1>1, <1>2 DEF Issued
<1>6. hpc \notin {"callback", "discard"} /\ owner = "libusb"
  BY <1>1, <1>2, Locks DEF FlightInv, OwnerInv, LockInv
<1> QED
  BY <1>1, <1>2, <1>3, <1>4, <1>5, <1>6

\* Where the submitting thread is after a URB was taken.
LEMMA TakenNext ==
  ASSUME TypeInv, FlightInv, NEW u \in Users, pc[u] = "submit", alloc = submits,
         IF at[u] = num_urbs THEN Return(u)
                             ELSE at' = [at EXCEPT ![u] = at[u] + 1] /\ UNCHANGED <<pc, lock>>,
         UNCHANGED <<tpriv, submits>>
  PROVE  /\ UNCHANGED <<alloc, urbs>> /\ num_urbs' = num_urbs /\ Flies'
         /\ pc' \in [Users -> {"idle", "submit", "undo", "cancel"}] /\ at' \in [Users -> Nat]
         /\ at[u] = num_urbs => lock' = "none" /\ pc'[u] = "idle"
         /\ at[u] # num_urbs => lock' = u /\ pc'[u] = "submit" /\ at'[u] = at[u] + 1
         /\ \A v \in Users : v # u => pc'[v] = "idle"
         /\ Issued' = Issued + 1 /\ Issued \in Nat
<1>1. /\ lock = u /\ Flies /\ submits \in Nat \ {0} /\ num_urbs \in Nat
      /\ at[u] \in 1 .. num_urbs /\ Issued = at[u] - 1 /\ urbs[at[u]] \in Urb
      /\ hpc \notin {"callback", "discard"} /\ owner = "libusb"
      /\ \A v \in Users : v # u => pc[v] = "idle"
  BY SubmitFacts
<1>2. UNCHANGED <<alloc, urbs>> /\ num_urbs' = num_urbs /\ Flies'
  BY <1>1 DEF tpriv, num_urbs, Flies
<1>3. /\ pc' \in [Users -> {"idle", "submit", "undo", "cancel"}] /\ at' \in [Users -> Nat]
      /\ at[u] = num_urbs => lock' = "none" /\ pc'[u] = "idle"
      /\ at[u] # num_urbs => lock' = u /\ pc'[u] = "submit" /\ at'[u] = at[u] + 1
      /\ \A v \in Users : v # u => pc'[v] = "idle"
  <2>1. /\ at \in [Users -> Nat] /\ pc \in [Users -> {"idle", "submit", "undo", "cancel"}]
        /\ at[u] \in Nat /\ \A v \in Users : v # u => pc[v] = "idle"
    BY <1>1 DEF TypeInv, ThreadType
  <2>2. CASE at[u] = num_urbs
    <3>1. pc' = [pc EXCEPT ![u] = "idle"] /\ at' = [at EXCEPT ![u] = 1] /\ lock' = "none"
      BY <2>2 DEF Return
    <3> QED
      BY <2>1, <2>2, <3>1
  <2>3. CASE at[u] # num_urbs
    <3>1. at' = [at EXCEPT ![u] = at[u] + 1] /\ UNCHANGED <<pc, lock>>
      BY <2>3
    <3> QED
      BY <1>1, <2>1, <2>3, <3>1
  <2> QED
    BY <2>2, <2>3
<1>4. Issued' = Issued + 1 /\ Issued \in Nat
  <2>1. CASE at[u] = num_urbs
    <3>1. Issued' = num_urbs'
      BY <1>3, <2>1, Locks DEF Issued
    <3> QED
      BY <1>1, <1>2, <2>1, <3>1
  <2>2. CASE at[u] # num_urbs
    <3>1. Issued' = at'[u] - 1 /\ at'[u] = at[u] + 1
      BY <1>2, <1>3, <2>2 DEF Issued
    <3> QED
      BY <1>1, <3>1
  <2> QED
    BY <2>1, <2>2
<1> QED
  BY <1>2, <1>3, <1>4

\* The kernel takes the URB.
LEMMA TakenInflight ==
  ASSUME TypeInv, FlightInv, NEW u \in Users, pc[u] = "submit", alloc = submits,
         NEW p, p = [alloc |-> alloc, i |-> at[u], len |-> urbs[at[u]].length,
                     cont |-> urbs[at[u]].cont],
         pending' = Append(pending, p), halted' \in BOOLEAN,
         IF at[u] = num_urbs THEN Return(u)
                             ELSE at' = [at EXCEPT ![u] = at[u] + 1] /\ UNCHANGED <<pc, lock>>,
         UNCHANGED <<owner, tpriv, connected, finished, delivered, request, continuation,
                     polled, submits, asked, transfer, hpc, cur>>
  PROVE  TypeInv' /\ FlightInv'
<1>1. /\ lock = u /\ Flies /\ submits \in Nat \ {0} /\ num_urbs \in Nat
      /\ at[u] \in 1 .. num_urbs /\ Issued = at[u] - 1 /\ urbs[at[u]] \in Urb
      /\ hpc \notin {"callback", "discard"} /\ owner = "libusb"
      /\ \A v \in Users : v # u => pc[v] = "idle"
  BY SubmitFacts
<1>2. UNCHANGED <<alloc, urbs>> /\ num_urbs' = num_urbs /\ Flies'
  BY TakenNext
<1>3. /\ pc' \in [Users -> {"idle", "submit", "undo", "cancel"}] /\ at' \in [Users -> Nat]
      /\ at[u] = num_urbs => lock' = "none" /\ pc'[u] = "idle"
      /\ at[u] # num_urbs => lock' = u /\ pc'[u] = "submit" /\ at'[u] = at[u] + 1
      /\ \A v \in Users : v # u => pc'[v] = "idle"
  BY TakenNext
<1>4. Issued' = Issued + 1 /\ Issued \in Nat
  BY TakenNext
<1>5. /\ OfQueue \subseteq OfQueue' /\ OfFinished \subseteq OfFinished'
      /\ Ours' = Ours /\ OursDone' = OursDone
  <2>1. Issued \in Int /\ Issued' \in Int /\ Issued <= Issued'
    <3> HIDE DEF Issued
    <3> QED
      BY <1>4
  <2> QED
    BY <1>2, <2>1, SetsGrow
<1>6. p \in Queued /\ p \in OfQueue' /\ p \in Ours
  <2>1. /\ p.alloc = submits /\ p.i = at[u] /\ p.len = urbs[at[u]].length /\ p \in Queued
    BY <1>1 DEF Queued, Urb
  <2>2. p.i \in 1 .. Issued' /\ p.alloc \in 1 .. submits
    <3> HIDE DEF Issued
    <3> QED
      BY <1>1, <1>4, <2>1
  <2> QED
    BY <1>2, <2>1, <2>2 DEF OfQueue, Ours
<1>7. /\ pending \in Seq(Queued) /\ pending \in Seq(OfQueue) /\ finished \in Seq(OfFinished)
      /\ finished \in Seq(Entries)
  BY DEF TypeInv, KernelType, FlightInv, QueueInv
<1>8. /\ pending' \in Seq(OfQueue') /\ finished' \in Seq(OfFinished')
      /\ pending' \in Seq(Queued)
  <2>1. pending \in Seq(OfQueue') /\ finished \in Seq(OfFinished')
    BY <1>5, <1>7, SeqMonotonic
  <2> QED
    BY <1>6, <1>7, <2>1, AppendProperties
<1>9. TypeInv'
  <2>1. RequestType' /\ PrivType' /\ TransferType'
    BY DEF tpriv, transfer, TypeInv, RequestType, PrivType, TransferType
  <2>2. StateType'
    BY <1>3 DEF TypeInv, StateType
  <2>3. ThreadType'
    BY <1>3 DEF TypeInv, ThreadType
  <2>4. KernelType'
    BY <1>8 DEF TypeInv, KernelType
  <2>5. Inside'
    <3>1. at[u] # num_urbs => at[u] + 1 \in 1 .. num_urbs
      BY <1>1
    <3>2. hpc' \in {"bulk", "iso", "discard"} => cur'.i \in 1 .. num_urbs'
      BY <1>2 DEF TypeInv, Inside
    <3>3. ASSUME NEW v \in Users, pc'[v] = "submit"
          PROVE  at'[v] \in 1 .. num_urbs'
      BY <1>2, <1>3, <3>1, <3>3
    <3> QED
      BY <3>2, <3>3 DEF Inside
  <2> QED
    BY <2>1, <2>2, <2>3, <2>4, <2>5 DEF TypeInv
<1>10. LockInv'
  BY <1>1, <1>3, Locks DEF FlightInv, LockInv
<1>11. OwnerInv' /\ Hand' = Hand
  <2>1. \A j : j \in 1 .. Issued => j \in 1 .. Issued'
    <3> HIDE DEF Issued
    <3> QED
      BY <1>4
  <2> HIDE DEF Issued
  <2> QED
    BY <1>1, <1>2, <2>1 DEF FlightInv, OwnerInv, Flies, Hand
<1>12. ASSUME NEW j \in Nat
       PROVE  Count(pending', Our(j)) <= 1
  <2>1. /\ Count(pending', Our(j)) = Count(pending, Our(j)) + One(p, Our(j))
        /\ Count(pending, Our(j)) \in Nat
    BY <1>6, <1>7, CountAppend
  <2>2. Count(pending, Our(j)) <= 1
    BY <1>1 DEF FlightInv, QueueInv
  <2>3. CASE j = at[u]
    <3>1. ~(at[u] \in 1 .. Issued)
      <4> HIDE DEF Issued
      <4> QED
        BY <1>1
    <3>2. OfQueue \cap Our(j) = {}
      <4> HIDE DEF Issued
      <4> QED
        BY <1>1, <2>3, <3>1 DEF OfQueue, Our
    <3>3. Count(pending, Our(j)) = 0
      BY <1>7, <3>2, CountNone
    <3>4. One(p, Our(j)) \in {0, 1}
      BY DEF One
    <3> HIDE DEF One, Our
    <3> QED
      BY <2>1, <3>3, <3>4
  <2>4. CASE j # at[u]
    <3>1. One(p, Our(j)) = 0
      BY <2>4 DEF One, Our
    <3> QED
      BY <2>1, <2>2, <3>1
  <2> QED
    BY <2>3, <2>4
<1>13. (Held = Issued => Held' = Issued') /\ (Held <= Issued => Held' <= Issued')
  <2> DEFINE q == Count(pending, Ours)
             qn == Count(pending', Ours')
             f == Count(finished, OursDone)
             h == Hand
             r == num_retired
             n == Issued
             nn == Issued'
  <2>1. qn = q + 1
    <3>1. Count(Append(pending, p), Ours) = Count(pending, Ours) + One(p, Ours)
      BY <1>6, <1>7, CountAppend
    <3>2. One(p, Ours) = 1
      BY <1>6 DEF One
    <3> QED
      BY <1>5, <3>1, <3>2
  <2>2. q \in Nat /\ f \in Nat /\ r \in Nat /\ h \in Nat
    BY HeldType DEF HeldOK, TypeInv, PrivType, Hand
  <2>3. Held = r + q + f + h /\ Held' = r + qn + f + h
    BY <1>5, <1>11 DEF Held, tpriv
  <2>4. nn = n + 1 /\ n \in Nat
    BY <1>4
  <2> HIDE DEF q, qn, f, h, r, n, nn
  <2>5. /\ r + q + f + h = n => r + qn + f + h = nn
        /\ r + q + f + h <= n => r + qn + f + h <= nn
    BY <2>1, <2>2, <2>4
  <2> QED
    BY <2>3, <2>5 DEF n, nn
<1> HIDE DEF Issued
<1> QED
  BY <1>2, <1>8, <1>9, <1>10, <1>11, <1>12, <1>13, SameBlock DEF tpriv, transfer

\* The kernel refuses the first URB: the block is freed again.
LEMMA FirstRefused ==
  ASSUME TypeInv, FlightInv, NEW u \in Users, pc[u] = "submit", alloc = submits, at[u] = 1,
         alloc' = 0, urbs' = <<>>, owner' = "user", Return(u),
         UNCHANGED <<reap_action, num_retired, iso_packet_offset, kernel, request, continuation,
                     polled, submits, asked, transfer, hpc, cur>>
  PROVE  TypeInv' /\ FlightInv'
<1>1. /\ lock = u /\ Flies /\ submits \in Nat \ {0} /\ Issued = 0
      /\ hpc \notin {"callback", "discard"} /\ \A v \in Users : v # u => pc[v] = "idle"
  <2>1. Issued = at[u] - 1
    BY SubmitFacts
  <2>2. Issued = 0
    <3> HIDE DEF Issued
    <3> QED
      BY <2>1
  <2> QED
    BY <2>2, SubmitFacts
<1>2. hpc \in {"idle", "unlock"}
  <2>1. Hand # 1
    <3> HIDE DEF Issued
    <3>1. ~(cur.i \in 1 .. Issued)
      BY <1>1
    <3> QED
      BY <3>1 DEF FlightInv, OwnerInv
  <2> QED
    BY <1>1, <2>1 DEF Hand, TypeInv, ThreadType
<1>3. /\ pc' \in [Users -> {"idle", "submit", "undo", "cancel"}] /\ at' \in [Users -> Nat]
      /\ lock' = "none" /\ \A v \in Users : pc'[v] = "idle"
  BY <1>1 DEF Return, TypeInv, ThreadType
<1>4. TypeInv'
  <2>1. urbs' \in Seq(Urb)
    OBVIOUS
  <2>2. RequestType'
    BY <2>1 DEF TypeInv, RequestType
  <2>3. PrivType' /\ TransferType' /\ KernelType'
    BY DEF transfer, kernel, TypeInv, PrivType, TransferType, KernelType
  <2>4. StateType' /\ ThreadType'
    BY <1>3 DEF kernel, TypeInv, StateType, ThreadType
  <2>5. Inside'
    BY <1>2, <1>3 DEF Inside
  <2> QED
    BY <2>2, <2>3, <2>4, <2>5 DEF TypeInv
<1>5. LockInv'
  BY <1>2, <1>3, Locks DEF LockInv
<1>6. OwnerInv'
  <2>1. ~Flies' /\ Hand' = 0 /\ hpc' # "callback" /\ hpc' # "discard"
    BY <1>2 DEF Flies, Hand
  <2> QED
    BY <2>1 DEF OwnerInv
<1> QED
  BY <1>4, <1>5, <1>6, BlockGone DEF kernel

\* The kernel refuses a later one: the rest counts as retired.
LEMMA LaterRefused ==
  ASSUME TypeInv, FlightInv, NEW u \in Users, pc[u] = "submit", alloc = submits, at[u] > 1,
         reap_action' = "SUBMIT_FAILED", num_retired' = num_retired + NotSubmitted(at[u]),
         pc' = [pc EXCEPT ![u] = "undo"], at' = [at EXCEPT ![u] = 1],
         UNCHANGED <<alloc, urbs, iso_packet_offset, owner, lock, kernel, request, continuation,
                     polled, submits, asked, transfer, hpc, cur>>
  PROVE  TypeInv' /\ FlightInv'
<1>1. /\ lock = u /\ Flies /\ submits \in Nat \ {0} /\ num_urbs \in Nat
      /\ at[u] \in 1 .. num_urbs /\ Issued = at[u] - 1
      /\ hpc \notin {"callback", "discard"} /\ owner = "libusb"
      /\ \A v \in Users : v # u => pc[v] = "idle"
  BY SubmitFacts
<1>2. /\ pc' \in [Users -> {"idle", "submit", "undo", "cancel"}] /\ at' \in [Users -> Nat]
      /\ pc'[u] = "undo" /\ \A v \in Users : v # u => pc'[v] = "idle"
  BY <1>1 DEF TypeInv, ThreadType
<1>3. Issued' = num_urbs /\ num_urbs' = num_urbs
  <2>1. Issued' = num_urbs'
    BY <1>1, <1>2 DEF Issued
  <2> QED
    BY <2>1 DEF num_urbs
<1>4. /\ NotSubmitted(at[u]) \in Nat /\ NotSubmitted(at[u]) = num_urbs - Issued
      /\ Issued <= num_urbs /\ Issued \in Nat
  <2> HIDE DEF Issued
  <2>1. at[u] - 1 \in Nat /\ at[u] - 1 <= num_urbs
    BY <1>1
  <2>2. NotSubmitted(at[u]) = num_urbs - (at[u] - 1)
    BY DEF NotSubmitted
  <2> QED
    BY <1>1, <2>1, <2>2
<1>5. TypeInv'
  <2>1. num_retired' \in Nat
    BY <1>4 DEF TypeInv, PrivType
  <2>2. RequestType' /\ TransferType' /\ KernelType' /\ StateType'
    BY DEF transfer, kernel, TypeInv, RequestType, TransferType, KernelType, StateType
  <2>3. PrivType' /\ ThreadType'
    BY <1>2, <2>1 DEF TypeInv, PrivType, ThreadType
  <2>4. Inside'
    BY <1>2, <1>3 DEF TypeInv, Inside
  <2> QED
    BY <2>2, <2>3, <2>4 DEF TypeInv
<1>6. LockInv'
  BY <1>1, <1>2, Locks DEF FlightInv, LockInv
<1>7. OwnerInv' /\ Hand' = Hand
  <2>1. \A j : j \in 1 .. Issued => j \in 1 .. Issued'
    <3> HIDE DEF Issued
    <3> QED
      BY <1>1, <1>3, <1>4
  <2> HIDE DEF Issued
  <2> QED
    BY <1>1, <2>1 DEF FlightInv, OwnerInv, Flies, Hand
<1>8. /\ OfQueue \subseteq OfQueue' /\ OfFinished \subseteq OfFinished'
      /\ Ours' = Ours /\ OursDone' = OursDone
  <2>1. Issued \in Int /\ Issued' \in Int /\ Issued <= Issued'
    <3> HIDE DEF Issued
    <3> QED
      BY <1>1, <1>3, <1>4
  <2> QED
    BY <2>1, SetsGrow
<1>9. pending' \in Seq(OfQueue') /\ finished' \in Seq(OfFinished')
  BY <1>8, SeqMonotonic DEF kernel, FlightInv, QueueInv
<1>10. Flies => \A i \in Nat : Count(pending', Our(i)) <= 1
  BY DEF kernel, FlightInv, QueueInv
<1>11. (Held = Issued => Held' = Issued') /\ (Held <= Issued => Held' <= Issued')
  <2> DEFINE q == Count(pending, Ours)
             f == Count(finished, OursDone)
             h == Hand
             r == num_retired
             rn == num_retired'
             n == Issued
             m == num_urbs
  <2>1. q \in Nat /\ f \in Nat /\ r \in Nat /\ h \in Nat /\ n \in Nat /\ m \in Nat
    BY <1>1, <1>4, HeldType DEF HeldOK, TypeInv, PrivType, Hand
  <2>2. Held = r + q + f + h /\ Held' = rn + q + f + h
    BY <1>7, <1>8 DEF Held, kernel
  <2>3. rn = r + (m - n)
    BY <1>4
  <2> HIDE DEF q, f, h, r, rn, n, m
  <2>4. /\ r + q + f + h = n => rn + q + f + h = m
        /\ r + q + f + h <= n => rn + q + f + h <= m
    BY <2>1, <2>3
  <2> QED
    BY <1>3, <2>2, <2>4 DEF n, m
<1> HIDE DEF Issued
<1> QED
  BY <1>5, <1>6, <1>7, <1>9, <1>10, <1>11, SameBlock DEF transfer, kernel

LEMMA SubmitUrbInflight ==
  ASSUME TypeInv, FlightInv, NEW u \in Users, SubmitUrb(u)
  PROVE  TypeInv' /\ (Running' => FlightInv')
<1>1. CASE alloc # submits
  BY <1>1, LoopStops DEF SubmitUrb, Running, threads
<1>2. CASE alloc = submits
  <2>1. pc[u] = "submit"
    BY DEF SubmitUrb
  <2>2. at[u] \in Nat
    BY DEF TypeInv, ThreadType
  <2> DEFINE rest == UNCHANGED <<request, continuation, polled, submits, asked,
                                 transfer, hpc, cur>>
             p == [alloc |-> alloc, i |-> at[u], len |-> urbs[at[u]].length,
                   cont |-> urbs[at[u]].cont]
             taken == /\ pending' = Append(pending, p)
                      /\ halted' = (halted /\ urbs[at[u]].cont)
                      /\ IF at[u] = num_urbs
                         THEN Return(u)
                         ELSE at' = [at EXCEPT ![u] = at[u] + 1] /\ UNCHANGED <<pc, lock>>
                      /\ UNCHANGED <<owner, tpriv, connected, finished, delivered>>
             first == /\ at[u] = 1
                      /\ alloc' = 0 /\ urbs' = <<>>
                      /\ owner' = "user" /\ Return(u)
                      /\ UNCHANGED <<reap_action, num_retired, iso_packet_offset, kernel>>
             later == /\ at[u] > 1
                      /\ reap_action' = "SUBMIT_FAILED"
                      /\ num_retired' = num_retired + NotSubmitted(at[u])
                      /\ pc' = [pc EXCEPT ![u] = "undo"] /\ at' = [at EXCEPT ![u] = 1]
                      /\ UNCHANGED <<alloc, urbs, iso_packet_offset, owner, lock, kernel>>
  <2>3. rest /\ (taken \/ first \/ later)
    BY <1>2 DEF SubmitUrb
  <2>4. CASE taken
    <3>1. urbs[at[u]] \in Urb
      BY <1>2, <2>1, SubmitFacts
    <3>2. halted' \in BOOLEAN
      BY <2>4, <3>1 DEF TypeInv, StateType, Urb
    <3> QED
      BY <1>2, <2>1, <2>3, <2>4, <3>2, TakenInflight
  <2>5. CASE first
    BY <1>2, <2>1, <2>3, <2>5, FirstRefused
  <2>6. CASE later
    BY <1>2, <2>1, <2>3, <2>6, LaterRefused
  <2> QED
    BY <2>3, <2>4, <2>5, <2>6
<1> QED
  BY <1>1, <1>2

----------------------------------------------------------------------------
(* The steps of the kernel *)

LEMMA UnplugInflight ==
  ASSUME TypeInv, FlightInv, Unplug
  PROVE  TypeInv' /\ FlightInv'
<1>1. /\ connected' = FALSE /\ pending' = <<>> /\ finished' = <<>>
      /\ UNCHANGED <<alloc, urbs, submits, request, buffer, num_retired, lock, pc, at, hpc, cur,
                     owner, delivered>>
  BY DEF Unplug, tpriv, transfer, threads
<1>2. TypeInv'
  <2>1. pending' \in Seq(Queued) /\ finished' \in Seq(Entries)
    BY <1>1
  <2>2. RequestType' /\ KernelType' /\ PrivType'
    <3>1. RequestType' /\ PrivType'
      BY DEF Unplug, tpriv, TypeInv, RequestType, PrivType
    <3>2. delivered' \in Nat
      BY <1>1 DEF TypeInv, KernelType
    <3>3. KernelType'
      BY <2>1, <3>2 DEF KernelType
    <3> QED
      BY <3>1, <3>3
  <2>3. StateType' /\ TransferType' /\ ThreadType'
    <3>1. StateType' /\ TransferType'
      BY DEF Unplug, transfer, TypeInv, StateType, TransferType
    <3>2. ThreadType'
      BY DEF Unplug, threads, TypeInv, ThreadType
    <3> QED
      BY <3>1, <3>2
  <2>4. Inside'
    BY <1>1 DEF TypeInv, Inside, num_urbs
  <2> QED
    BY <2>2, <2>3, <2>4 DEF TypeInv
<1>3. Issued' = Issued
  BY <1>1 DEF Issued, Flies, num_urbs
<1>4. LockInv'
  BY <1>1 DEF FlightInv, LockInv
<1>5. OwnerInv'
  <2> HIDE DEF Issued
  <2> QED
    BY <1>1, <1>3 DEF FlightInv, OwnerInv, Flies, Hand
<1>6. pending' \in Seq(OfQueue') /\ finished' \in Seq(OfFinished')
  BY <1>1
<1>7. \A i \in Nat : Count(pending', Our(i)) <= 1
  BY <1>1, KeptEmpty DEF Count
<1>8. Flies => (Held <= Issued => Held' <= Issued')
  <2> DEFINE p == Count(pending, Ours)
             f == Count(finished, OursDone)
             r == num_retired
             h == Hand
             n == Issued
  <2>1. p \in Nat /\ f \in Nat /\ r \in Nat /\ h \in Nat /\ n \in Int
    <3>1. IssuedOK
      BY IssuedType
    <3>2. n \in Int
      BY <3>1 DEF IssuedOK, num_urbs
    <3> HIDE DEF n
    <3> QED
      BY <3>2, HeldType DEF HeldOK, TypeInv, PrivType, Hand
  <2>2. Held = r + p + f + h /\ Held' = r + 0 + 0 + h
    <3>1. Count(pending', Ours') = 0 /\ Count(finished', OursDone') = 0
      BY <1>1, KeptEmpty DEF Count
    <3>2. Hand' = Hand
      BY <1>1 DEF Hand
    <3> QED
      BY <1>1, <3>1, <3>2 DEF Held
  <2> HIDE DEF p, f, r, h, n
  <2>3. r + p + f + h <= n => r + 0 + 0 + h <= n
    BY <2>1
  <2> QED
    BY <1>3, <2>2, <2>3 DEF n
<1> QED
  BY <1>1, <1>2, <1>4, <1>5, <1>6, <1>7, <1>8, SameBlock

\* The URBs behind the one that failed come back unused.
LEMMA SweptOff ==
  ASSUME TypeInv, FlightInv, NEW goes, NEW swept \in Seq(OfQueue \cap goes)
  PROVE  LET back == [k \in DOMAIN swept |-> Done(swept[k], "unlinked", 0)]
         IN  /\ back \in Seq(OfFinished)
             /\ Count(back, OursDone) = Count(swept, Ours)
<1> DEFINE g == [x \in OfQueue |-> Done(x, "unlinked", 0)]
           back == [k \in DOMAIN swept |-> Done(swept[k], "unlinked", 0)]
<1>1. ASSUME NEW x \in OfQueue
      PROVE  Done(x, "unlinked", 0) \in OfFinished /\ (x \in Ours <=> Done(x, "unlinked", 0) \in OursDone)
  <2> DEFINE d == Done(x, "unlinked", 0)
  <2>1. d.alloc = x.alloc /\ d.i = x.i /\ d.n = 0 /\ d \in Entries /\ x \in Queued
    BY DEF Done, Entries, OfQueue, Queued, TypeInv, KernelType
  <2>2. x.i \in 1 .. Issued /\ Flies => 0 <= urbs[x.i].length
    <3>1. SUFFICES ASSUME x.i \in 1 .. Issued PROVE 0 <= urbs[x.i].length
      OBVIOUS
    <3>2. IssuedOK
      BY IssuedType
    <3>3. x.i \in 1 .. Len(urbs)
      <4> HIDE DEF Issued
      <4> QED
        BY <3>1, <3>2 DEF IssuedOK, num_urbs
    <3>4. urbs[x.i] \in Urb
      BY <3>3, ElementOfSeq DEF TypeInv, RequestType
    <3> QED
      BY <3>4 DEF Urb
  <2> HIDE DEF d
  <2>3. d \in OfFinished
    BY <2>1, <2>2 DEF OfQueue, OfFinished
  <2>4. x \in Ours <=> d \in OursDone
    BY <2>1 DEF Ours, OursDone
  <2> QED
    BY <2>3, <2>4 DEF d
<1>2. g \in [OfQueue -> OfFinished] /\ Carries(OfQueue, g, Ours, OursDone)
  BY <1>1 DEF Carries
<1>3. swept \in Seq(OfQueue)
  BY SeqMonotonic
<1>4. back = Mapped(swept, g)
  <2>1. DOMAIN swept = 1 .. Len(swept)
    BY LenProperties
  <2>2. \A k \in DOMAIN swept : swept[k] \in OfQueue
    BY <1>3, <2>1, ElementOfSeq
  <2> QED
    BY <2>2 DEF Mapped
<1> HIDE DEF g, back
<1>5. Mapped(swept, g) \in Seq(OfFinished) /\ Count(Mapped(swept, g), OursDone) = Count(swept, Ours)
  BY <1>2, <1>3, CountMap
<1> QED
  BY <1>4, <1>5 DEF back

\* What an outcome says of the URB at the head.
LEMMA OutcomeType ==
  ASSUME TypeInv, FlightInv, pending # <<>>,
         NEW out \in IF request.type = "iso" THEN {[st |-> "ok", n |-> 0]}
                     ELSE Outcomes(Head(pending).len)
  PROVE  LET d == Done(Head(pending), out.st, out.n)
         IN  /\ d \in OfFinished /\ (Head(pending) \in Ours <=> d \in OursDone)
             /\ out.n \in Nat /\ out.n <= Head(pending).len
<1> DEFINE x == Head(pending)
           d == Done(x, out.st, out.n)
<1>1. x \in OfQueue /\ x \in Queued
  BY HeadTailProperties DEF TypeInv, KernelType, FlightInv, QueueInv
<1>2. x.len \in Nat /\ x.alloc \in Nat /\ x.i \in Nat
  BY <1>1 DEF Queued
<1> HIDE DEF x
<1>3. /\ out.n \in Nat /\ out.n <= x.len
      /\ out.st \in {"ok", "pipe", "proto", "remoteio", "overflow"}
  <2>1. out \in {[st |-> "ok", n |-> 0]} \/ out \in Outcomes(x.len)
    BY DEF x
  <2>2. CASE out = [st |-> "ok", n |-> 0]
    BY <1>2, <2>2
  <2>3. CASE out \in Outcomes(x.len)
    BY <1>2, <2>3 DEF Outcomes
  <2> QED
    BY <2>1, <2>2, <2>3
<1>4. d.alloc = x.alloc /\ d.i = x.i /\ d.n = out.n /\ d \in Entries
  BY <1>2, <1>3 DEF Done, Entries, TypeInv, KernelType
<1> HIDE DEF d
<1>5. d \in OfFinished
  BY <1>1, <1>3, <1>4 DEF OfQueue, OfFinished
<1>6. x \in Ours <=> d \in OursDone
  BY <1>1, <1>4 DEF Ours, OursDone
<1> QED
  BY <1>3, <1>5, <1>6 DEF x, d

\* The URB at the head completes: it goes over to the other list, and with it
\* those behind it that the kernel sweeps off.
LEMMA Moved ==
  ASSUME TypeInv, FlightInv, pending # <<>>, NEW d \in OfFinished, NEW goes,
         Head(pending) \in Ours <=> d \in OursDone, NEW back \in Seq(OfFinished),
         Count(back, OursDone) = Count(Kept(Tail(pending), goes), Ours),
         pending' = Kept(Tail(pending), Queued \ goes),
         finished' = Append(finished, d) \o back
  PROVE  /\ pending' \in Seq(OfQueue) /\ finished' \in Seq(OfFinished)
         /\ Flies => \A j \in Nat : Count(pending', Our(j)) <= 1
         /\ Count(pending', Ours) + Count(finished', OursDone)
              = Count(pending, Ours) + Count(finished, OursDone)
<1> DEFINE x == Head(pending)
           rest == Tail(pending)
           stay == Queued \ goes
<1>1. /\ pending \in Seq(OfQueue) /\ finished \in Seq(OfFinished)
      /\ x \in OfQueue /\ rest \in Seq(OfQueue)
  BY HeadTailProperties DEF FlightInv, QueueInv
<1> HIDE DEF x, rest, stay
<1>2. pending' = Kept(rest, stay)
  BY DEF rest, stay
<1>3. pending' \in Seq(OfQueue)
  <2>1. pending' \in Seq(OfQueue \cap stay)
    BY <1>1, <1>2, KeptType
  <2> QED
    BY <2>1, SeqMonotonic
<1>4. Append(finished, d) \in Seq(OfFinished) /\ finished' \in Seq(OfFinished)
  BY <1>1, AppendProperties, ConcatProperties
<1>5. ASSUME NEW T
      PROVE  /\ Count(pending, T) = One(x, T) + Count(pending', T) + Count(rest, T \ stay)
             /\ One(x, T) \in Nat /\ Count(pending', T) \in Nat /\ Count(rest, T \ stay) \in Nat
  <2>1. Count(pending, T) = One(x, T) + Count(rest, T)
    BY <1>1, CountHead DEF x, rest
  <2>2. /\ Count(rest, T) = Count(pending', T) + Count(rest, T \ stay)
        /\ Count(rest, T) \in Nat /\ Count(pending', T) \in Nat /\ Count(rest, T \ stay) \in Nat
    <3>1. Outs(rest, T, stay)
      BY <1>1, CountOut
    <3> QED
      BY <1>2, <3>1 DEF Outs
  <2>3. One(x, T) \in Nat
    BY DEF One
  <2> QED
    BY <2>1, <2>2, <2>3
<1>6. ASSUME Flies, NEW j \in Nat
      PROVE  Count(pending', Our(j)) <= 1
  <2>1. Count(pending, Our(j)) <= 1
    BY <1>6 DEF FlightInv, QueueInv
  <2> DEFINE T == Our(j)
  <2> HIDE DEF T
  <2>2. /\ Count(pending, T) = One(x, T) + Count(pending', T) + Count(rest, T \ stay)
        /\ One(x, T) \in Nat /\ Count(pending', T) \in Nat /\ Count(rest, T \ stay) \in Nat
    BY <1>5
  <2>3. Count(pending, T) <= 1
    BY <2>1 DEF T
  <2>4. Count(pending', T) <= 1
    BY <2>2, <2>3
  <2> QED
    BY <2>4 DEF T
<1>7. Count(back, OursDone) = Count(rest, Ours \ stay)
  <2>1. Count(Kept(rest, goes), Ours) = Count(rest, Ours \cap goes)
    BY <1>1, CountKept
  <2>2. Ours \ stay = Ours \cap goes
    BY DEF Ours, stay
  <2> QED
    BY <2>1, <2>2 DEF rest
<1>8. /\ Count(finished', OursDone) = Count(finished, OursDone) + One(d, OursDone) + Count(back, OursDone)
      /\ Count(finished, OursDone) \in Nat
  <2>1. Count(finished', OursDone) = Count(Append(finished, d), OursDone) + Count(back, OursDone)
    BY <1>4, CountCat, ZenonT(60)
  <2>2. /\ Count(Append(finished, d), OursDone) = Count(finished, OursDone) + One(d, OursDone)
        /\ Count(finished, OursDone) \in Nat
    BY <1>1, CountAppend
  <2> QED
    BY <2>1, <2>2
<1>9. One(d, OursDone) = One(x, Ours)
  BY DEF One, x
<1>10. Count(pending', Ours) + Count(finished', OursDone)
         = Count(pending, Ours) + Count(finished, OursDone)
  <2> DEFINE T == Ours
             U == OursDone
             a == Count(rest, T \ stay)
             b == Count(finished, U)
             o == One(x, T)
             pn == Count(pending', T)
  <2>1. Count(pending, T) = o + pn + a /\ o \in Nat /\ pn \in Nat /\ a \in Nat
    BY <1>5
  <2>2. Count(finished', U) = b + o + a /\ b \in Nat
    BY <1>7, <1>8, <1>9
  <2> HIDE DEF T, U, a, b, o, pn
  <2>3. pn + (b + o + a) = (o + pn + a) + b
    BY <2>1, <2>2
  <2>4. pn + Count(finished', U) = Count(pending, T) + b
    BY <2>1, <2>2, <2>3
  <2> QED
    BY <2>4 DEF T, U, b, pn
<1> QED
  BY <1>3, <1>4, <1>6, <1>10

LEMMA KernelInflight ==
  ASSUME TypeInv, FlightInv, KernelComplete
  PROVE  TypeInv' /\ FlightInv'
<1>1. PICK out \in IF request.type = "iso" THEN {[st |-> "ok", n |-> 0]}
                   ELSE Outcomes(Head(pending).len) :
        LET stop == out.st # "ok" /\ continuation /\ request.type = "bulk"
            rest == Tail(pending)
            goes == {p \in Queued : stop /\ p.cont}
            swept == Kept(rest, goes)
        IN  /\ finished' = Append(finished, Done(Head(pending), out.st, out.n))
                             \o [k \in DOMAIN swept |-> Done(swept[k], "unlinked", 0)]
            /\ pending' = Kept(rest, Queued \ goes)
            /\ halted' = (halted \/ stop)
            /\ delivered' = IF Head(pending).alloc = submits
                            THEN delivered + out.n ELSE delivered
  BY DEF KernelComplete
<1> DEFINE stop == out.st # "ok" /\ continuation /\ request.type = "bulk"
           goes == {p \in Queued : stop /\ p.cont}
           swept == Kept(Tail(pending), goes)
           d == Done(Head(pending), out.st, out.n)
           back == [k \in DOMAIN swept |-> Done(swept[k], "unlinked", 0)]
<1>2. /\ pending # <<>>
      /\ UNCHANGED <<connected, alloc, urbs, submits, request, buffer, num_retired, lock, pc, at,
                     hpc, cur, owner>>
  BY DEF KernelComplete, tpriv, transfer, threads
<1>3. d \in OfFinished /\ (Head(pending) \in Ours <=> d \in OursDone) /\ out.n \in Nat
  BY <1>2, OutcomeType
<1>4. /\ finished' = Append(finished, d) \o back /\ pending' = Kept(Tail(pending), Queued \ goes)
      /\ halted' = (halted \/ stop) /\ delivered' \in {delivered, delivered + out.n}
  BY <1>1
<1>5. swept \in Seq(OfQueue \cap goes)
  <2>1. Tail(pending) \in Seq(OfQueue)
    BY <1>2, HeadTailProperties DEF FlightInv, QueueInv
  <2> HIDE DEF goes
  <2> QED
    BY <2>1, KeptType
<1>6. back \in Seq(OfFinished) /\ Count(back, OursDone) = Count(swept, Ours)
  <2> HIDE DEF swept, goes
  <2> QED
    BY <1>5, SweptOff
<1>7. /\ pending' \in Seq(OfQueue) /\ finished' \in Seq(OfFinished)
      /\ Flies => \A j \in Nat : Count(pending', Our(j)) <= 1
      /\ Count(pending', Ours) + Count(finished', OursDone)
           = Count(pending, Ours) + Count(finished, OursDone)
  <2> HIDE DEF goes, back, d
  <2> QED
    BY <1>2, <1>3, <1>4, <1>6, Moved
<1>8. KernelType' /\ halted' \in BOOLEAN
  <2>1. OfQueue \subseteq Queued /\ OfFinished \subseteq Entries
    BY DEF OfQueue, OfFinished
  <2>2. pending' \in Seq(Queued) /\ finished' \in Seq(Entries)
    BY <1>7, <2>1, SeqMonotonic
  <2>3. delivered' \in Nat
    BY <1>3, <1>4 DEF TypeInv, KernelType
  <2>4. halted' \in BOOLEAN
    BY <1>4 DEF TypeInv, StateType
  <2> QED
    BY <2>2, <2>3, <2>4 DEF KernelType
<1> HIDE DEF stop, goes, swept, d, back
<1>9. TypeInv'
  <2>1. RequestType' /\ PrivType' /\ TransferType' /\ ThreadType'
    BY DEF KernelComplete, tpriv, transfer, threads, TypeInv, RequestType, PrivType, TransferType,
       ThreadType
  <2>2. StateType'
    BY <1>8 DEF KernelComplete, TypeInv, StateType
  <2>3. Inside'
    BY <1>2 DEF TypeInv, Inside, num_urbs
  <2> QED
    BY <1>8, <2>1, <2>2, <2>3 DEF TypeInv
<1>10. Issued' = Issued
  BY <1>2 DEF Issued, Flies, num_urbs
<1>11. LockInv'
  BY <1>2 DEF FlightInv, LockInv
<1>12. OwnerInv' /\ Hand' = Hand
  <2> HIDE DEF Issued
  <2> QED
    BY <1>2, <1>10 DEF FlightInv, OwnerInv, Flies, Hand
<1>13. Back(pending', finished', num_retired', Hand') = Back(pending, finished, num_retired, Hand)
  BY <1>2, <1>7, <1>12 DEF Back
<1> HIDE DEF Issued
<1> QED
  BY <1>2, <1>7, <1>9, <1>10, <1>11, <1>12, <1>13, SameSum

----------------------------------------------------------------------------
(* The steps of the event handler *)

\* What the handler has in hand is a URB of the block.
LEMMA InHand ==
  ASSUME TypeInv, FlightInv, hpc \in {"bulk", "iso", "control"}
  PROVE  /\ Hand = 1 /\ Flies /\ owner = "libusb" /\ alloc = submits /\ hpc = request.type
         /\ cur.i \in 1 .. num_urbs /\ num_urbs \in Nat /\ urbs[cur.i] \in Urb
         /\ cur.n <= urbs[cur.i].length /\ cur.n \in Nat /\ cur \in Entries
<1>1. Hand = 1
  BY DEF Hand
<1>2. /\ Flies /\ owner = "libusb" /\ hpc = request.type /\ cur.i \in 1 .. Issued
      /\ cur.n <= urbs[cur.i].length
  <2> HIDE DEF Issued
  <2> QED
    BY <1>1 DEF FlightInv, OwnerInv
<1>3. alloc = submits
  BY <1>2 DEF Flies, TypeInv, RequestType
<1>4. cur.i \in 1 .. num_urbs /\ num_urbs \in Nat
  <2>1. IssuedOK
    BY IssuedType
  <2> HIDE DEF Issued
  <2> QED
    BY <1>2, <2>1 DEF IssuedOK
<1>5. urbs[cur.i] \in Urb
  BY <1>4, ElementOfSeq DEF TypeInv, RequestType, num_urbs
<1>6. cur.n \in Nat /\ cur \in Entries
  BY DEF TypeInv, ThreadType, Entries
<1> QED
  BY <1>1, <1>2, <1>3, <1>4, <1>5, <1>6

LEMMA ReapInflight ==
  ASSUME TypeInv, FlightInv, reap_for_handle
  PROVE  TypeInv' /\ (Running' => FlightInv')
<1> DEFINE e == Head(finished)
<1>1. /\ finished # <<>> /\ finished' = Tail(finished) /\ cur' = e /\ hpc = "idle"
      /\ UNCHANGED <<connected, alloc, urbs, submits, request, num_retired, lock, pc, at,
                     pending, owner, delivered, results>>
  BY DEF reap_for_handle, tpriv
<1>2. /\ finished \in Seq(OfFinished) /\ finished \in Seq(Entries) /\ pending \in Seq(OfQueue)
      /\ e \in OfFinished /\ e \in Entries
      /\ finished' \in Seq(OfFinished) /\ finished' \in Seq(Entries)
  BY <1>1, HeadTailProperties DEF TypeInv, KernelType, FlightInv, QueueInv
<1> HIDE DEF e
<1>3. e.n \in Nat /\ e.first \in Nat /\ e.alloc \in 1 .. submits
  BY <1>2 DEF Entries, OfFinished
<1>4. RequestType' /\ StateType' /\ PrivType' /\ KernelType'
  BY <1>1, <1>2 DEF reap_for_handle, tpriv, TypeInv, RequestType, StateType, PrivType, KernelType
<1>5. Issued' = Issued
  BY <1>1 DEF Issued, Flies, num_urbs
<1>6. CASE e.alloc = alloc /\ owner = "libusb"
  <2>1. hpc' = request.type /\ buffer' \in {buffer, CopyIn(e)}
    BY <1>6 DEF reap_for_handle, e
  <2>2. request.type \in {"bulk", "iso", "control"}
    BY RequestsType DEF TypeInv, RequestType, Request
  <2>3. Flies /\ alloc = submits /\ e \in OursDone
    <3>1. Flies
      BY <1>3, <1>6 DEF Flies, TypeInv, RequestType
    <3>2. alloc = submits
      BY <3>1 DEF Flies, TypeInv, RequestType
    <3> QED
      BY <1>2, <1>6, <3>1, <3>2 DEF OursDone
  <2>4. e.i \in 1 .. Issued /\ e.n <= urbs[e.i].length
    BY <1>2, <1>6, <2>3 DEF OfFinished
  <2>5. e.i \in 1 .. num_urbs /\ urbs[e.i] \in Urb
    <3>1. IssuedOK
      BY IssuedType
    <3>2. e.i \in 1 .. num_urbs
      <4> HIDE DEF Issued
      <4> QED
        BY <2>4, <3>1 DEF IssuedOK
    <3> QED
      BY <3>2, ElementOfSeq DEF TypeInv, RequestType, num_urbs
  <2>6. buffer' \in Seq(Nat) /\ Len(buffer') = Len(buffer)
    <3>1. buffer \in Seq(Nat) /\ DOMAIN buffer = 1 .. Len(buffer) /\ Len(buffer) \in Nat
      BY LenProperties DEF TypeInv, TransferType
    <3>2. CopyIn(e) \in Seq(Nat) /\ Len(CopyIn(e)) = Len(buffer)
      <4> DEFINE o == urbs[e.i].offset
                 f(b) == IF b - o \in 1 .. e.n THEN e.first + (b - o) ELSE buffer[b]
      <4>1. CopyIn(e) = [b \in 1 .. Len(buffer) |-> f(b)]
        BY <3>1 DEF CopyIn
      <4>2. o \in Nat
        BY <2>5 DEF Urb
      <4>3. ASSUME NEW b \in 1 .. Len(buffer) PROVE f(b) \in Nat
        <5>1. buffer[b] \in Nat
          BY <3>1
        <5> HIDE DEF o
        <5> QED
          BY <1>3, <4>2, <5>1
      <4> HIDE DEF f
      <4> QED
        BY <3>1, <4>1, <4>3
    <3> QED
      BY <2>1, <3>1, <3>2
  <2>7. TypeInv'
    <3>1. TransferType'
      BY <2>6 DEF reap_for_handle, TypeInv, TransferType
    <3>2. ThreadType'
      BY <1>1, <1>2, <2>1, <2>2 DEF reap_for_handle, TypeInv, ThreadType
    <3>3. Inside'
      BY <1>1, <2>5 DEF TypeInv, Inside, num_urbs
    <3> QED
      BY <1>4, <3>1, <3>2, <3>3 DEF TypeInv
  <2>8. LockInv'
    BY <1>1, <2>1, <2>2 DEF FlightInv, LockInv
  <2>9. Hand' = 1 /\ Hand = 0
    BY <1>1, <2>1, <2>2 DEF Hand
  <2>10. OwnerInv'
    <3> HIDE DEF Issued
    <3> QED
      BY <1>1, <1>5, <1>6, <2>1, <2>2, <2>3, <2>4, <2>9 DEF OwnerInv, Flies
  <2>11. Back(pending', finished', num_retired', Hand') = Back(pending, finished, num_retired, Hand)
    <3>1. Count(finished, OursDone) = One(e, OursDone) + Count(finished', OursDone)
      BY <1>1, <1>2, CountHead DEF e
    <3>2. One(e, OursDone) = 1
      BY <2>3 DEF One
    <3>3. Count(finished', OursDone) \in Nat /\ Count(pending, Ours) \in Nat
      BY <1>2, CountType
    <3>4. num_retired \in Nat
      BY DEF TypeInv, PrivType
    <3> DEFINE p == Count(pending, Ours)
               f == Count(finished, OursDone)
               fn == Count(finished', OursDone)
               r == num_retired
               h == Hand
               hn == Hand'
    <3>5. p \in Nat /\ fn \in Nat /\ r \in Nat /\ f = 1 + fn /\ h = 0 /\ hn = 1
      BY <2>9, <3>1, <3>2, <3>3, <3>4
    <3>6. /\ Back(pending', finished', num_retired', Hand') = p + fn + r + hn
          /\ Back(pending, finished, num_retired, Hand) = p + f + r + h
      BY <1>1 DEF Back
    <3> HIDE DEF p, f, fn, r, h, hn
    <3>7. p + fn + r + hn = p + f + r + h
      BY <3>5
    <3> QED
      BY <3>6, <3>7
  <2>12. \A j \in Nat : Count(pending', Our(j)) <= 1
    BY <1>1, <2>3 DEF FlightInv, QueueInv
  <2> HIDE DEF Issued
  <2> QED
    BY <1>1, <1>2, <1>5, <2>6, <2>7, <2>8, <2>10, <2>11, <2>12, SameSum
<1>7. CASE ~(e.alloc = alloc /\ owner = "libusb")
  <2>1. ~Running' /\ UNCHANGED <<hpc, buffer>>
    BY <1>7 DEF reap_for_handle, e, Running
  <2>2. TransferType' /\ ThreadType'
    BY <1>1, <1>2, <2>1 DEF reap_for_handle, TypeInv, TransferType, ThreadType
  <2>3. Inside'
    BY <1>1, <2>1 DEF TypeInv, Inside, num_urbs
  <2> QED
    BY <1>4, <2>1, <2>2, <2>3 DEF TypeInv
<1> QED
  BY <1>6, <1>7

\* A completion keeps the types if it leaves typed values in the transfer.
LEMMA CompletionTypes ==
  ASSUME TypeInv, FlightInv, hpc \in {"bulk", "iso", "control"}, lock = "none",
         UNCHANGED <<request, continuation, polled, owner, submits, asked, kernel, pc, at, lock>>,
         PrivType', TransferType',
         \/ alloc' = 0 /\ urbs' = <<>> /\ hpc' = "callback"
         \/ UNCHANGED <<alloc, urbs>> /\ hpc' = "idle",
         cur' = NoUrb
  PROVE  TypeInv'
<1>1. RequestType'
  <2>1. <<>> \in Seq(Urb)
    OBVIOUS
  <2> QED
    BY <2>1 DEF TypeInv, RequestType
<1>2. StateType' /\ KernelType'
  BY DEF kernel, TypeInv, StateType, KernelType
<1>3. ThreadType'
  <2>1. cur' \in Entries
    BY DEF NoUrb, Entries
  <2> QED
    BY <2>1 DEF TypeInv, ThreadType
<1>4. Inside'
  <2>1. \A u \in Users : pc[u] = "idle"
    BY Locks DEF FlightInv, LockInv
  <2> QED
    BY <2>1 DEF Inside
<1> QED
  BY <1>1, <1>2, <1>3, <1>4 DEF TypeInv

\* The last URB: the block is freed and the callback follows.
LEMMA LastRetired ==
  ASSUME TypeInv, FlightInv, hpc \in {"bulk", "iso", "control"}, lock = "none",
         UNCHANGED <<submits, kernel, owner, pc, at, lock>>,
         alloc' = 0, hpc' = "callback"
  PROVE  FlightInv'
<1>1. owner = "libusb"
  BY InHand
<1>2. LockInv'
  BY Locks DEF FlightInv, LockInv
<1>3. OwnerInv'
  <2>1. ~Flies' /\ Hand' = 0
    BY DEF Flies, Hand
  <2> QED
    BY <1>1, <2>1 DEF OwnerInv
<1> QED
  BY <1>2, <1>3, BlockGone DEF kernel

\* Another URB: it is retired, and the handler has none in hand.
LEMMA OneRetired ==
  ASSUME TypeInv, TypeInv', FlightInv, hpc \in {"bulk", "iso", "control"}, lock = "none",
         UNCHANGED <<request, submits, kernel, owner, alloc, urbs, pc, at>>,
         Len(buffer') = Len(buffer), num_retired' = num_retired + 1,
         \/ hpc' = "idle" /\ lock' = "none"
         \/ hpc' = "discard" /\ lock' = "handler"
  PROVE  FlightInv'
<1>1. Hand = 1 /\ Flies /\ owner = "libusb"
  BY InHand
<1>2. \A u \in Users : pc[u] = "idle"
  BY Locks DEF FlightInv, LockInv
<1>3. Issued' = Issued
  BY Locks DEF Issued, num_urbs
<1>4. LockInv'
  BY <1>2, Locks DEF FlightInv, LockInv
<1>5. Hand' = 0
  BY DEF Hand
<1>6. OwnerInv'
  BY <1>1, <1>5 DEF OwnerInv, Flies
<1>7. Back(pending', finished', num_retired', Hand') = Back(pending, finished, num_retired, Hand)
  <2> DEFINE p == Count(pending, Ours)
             f == Count(finished, OursDone)
             r == num_retired
  <2>1. p \in Nat /\ f \in Nat /\ r \in Nat
    BY HeldType DEF HeldOK, TypeInv, PrivType
  <2>2. /\ Back(pending, finished, num_retired, Hand) = p + f + r + 1
        /\ Back(pending', finished', num_retired', Hand') = p + f + (r + 1) + 0
    BY <1>1, <1>5 DEF Back, kernel
  <2> HIDE DEF p, f, r
  <2>3. p + f + r + 1 = p + f + (r + 1) + 0
    BY <2>1
  <2> QED
    BY <2>2, <2>3
<1>8. /\ pending' \in Seq(OfQueue) /\ finished' \in Seq(OfFinished) /\ connected' = connected
      /\ \A j \in Nat : Count(pending', Our(j)) <= 1
  BY <1>1 DEF kernel, FlightInv, QueueInv
<1> HIDE DEF Issued
<1> QED
  BY <1>3, <1>4, <1>6, <1>7, <1>8, SameSum

\* Surplus data stays within the buffer.
LEMMA MoveUpType ==
  ASSUME TypeInv, FlightInv, hpc = "bulk"
  PROVE  MoveUp(cur) \in Seq(Nat) /\ Len(MoveUp(cur)) = Len(buffer)
<1>1. /\ Flies /\ request.type = "bulk" /\ cur.i \in 1 .. num_urbs /\ urbs[cur.i] \in Urb
      /\ cur.n <= urbs[cur.i].length /\ cur.n \in Nat
  BY InHand
<1>2. buffer \in Seq(Nat) /\ DOMAIN buffer = 1 .. Len(buffer) /\ Len(buffer) \in Nat
  BY LenProperties DEF TypeInv, TransferType
<1> DEFINE o == urbs[cur.i].offset
           l == urbs[cur.i].length
           f(b) == IF b - transferred \in 1 .. cur.n THEN buffer[o + (b - transferred)] ELSE buffer[b]
<1>3. o \in Nat /\ l \in Nat /\ transferred \in Nat
  BY <1>1 DEF Urb, TypeInv, TransferType
<1>4. o + l <= Len(buffer)
  BY <1>1 DEF FlightInv, Reach
<1>5. MoveUp(cur) = [b \in 1 .. Len(buffer) |-> f(b)]
  BY <1>2 DEF MoveUp
<1>6. ASSUME NEW b \in 1 .. Len(buffer)
      PROVE  f(b) \in Nat
  <2>1. CASE b - transferred \in 1 .. cur.n
    <3> DEFINE k == b - transferred
    <3>1. k \in 1 .. cur.n /\ cur.n <= l
      BY <1>1, <2>1
    <3> HIDE DEF k, o, l
    <3>2. o + k \in 1 .. Len(buffer)
      BY <1>1, <1>2, <1>3, <1>4, <3>1, SMTT(30)
    <3>3. buffer[o + k] \in Nat
      BY <1>2, <3>2
    <3> QED
      BY <2>1, <3>3 DEF k
  <2>2. CASE ~(b - transferred \in 1 .. cur.n)
    BY <1>2, <2>2
  <2> QED
    BY <2>1, <2>2
<1> HIDE DEF f
<1> QED
  BY <1>2, <1>5, <1>6

LEMMA AbnormalInflight ==
  ASSUME TypeInv, FlightInv, handle_bulk_abnormal
  PROVE  TypeInv' /\ (Running' => FlightInv')
<1>1. /\ hpc = "bulk" /\ lock = "none" /\ num_retired' = num_retired + 1
      /\ transferred' = transferred + cur.n /\ buffer' \in {buffer, MoveUp(cur)} /\ cur' = NoUrb
      /\ UNCHANGED <<request, continuation, polled, owner, submits, asked, kernel, pc, at, lock,
                     reap_action, iso_packet_offset, timed_out, results>>
  BY DEF handle_bulk_abnormal, HandlerOnly
<1>2. \/ alloc' = 0 /\ urbs' = <<>> /\ hpc' = "callback" /\ num_retired + 1 = num_urbs
      \/ UNCHANGED <<alloc, urbs>> /\ hpc' = "idle"
  BY DEF handle_bulk_abnormal, Complete
<1>3. buffer' \in Seq(Nat) /\ Len(buffer') = Len(buffer)
  BY <1>1, MoveUpType DEF TypeInv, TransferType
<1>4. status' \in {"none", "COMPLETED", "CANCELLED", "TIMED_OUT", "ERROR",
                   "STALL", "OVERFLOW", "NO_DEVICE"}
  BY DEF handle_bulk_abnormal, Complete, Cancelled, TypeInv, TransferType
<1>5. cur.n \in Nat
  BY <1>1, InHand
<1>6. PrivType' /\ TransferType'
  BY <1>1, <1>3, <1>4, <1>5 DEF TypeInv, PrivType, TransferType
<1>7. TypeInv'
  BY <1>1, <1>2, <1>6, CompletionTypes
<1>8. FlightInv'
  BY <1>1, <1>2, <1>3, <1>7, LastRetired, OneRetired
<1> QED
  BY <1>7, <1>8

LEMMA ControlInflight ==
  ASSUME TypeInv, FlightInv, handle_control_completion
  PROVE  TypeInv' /\ (Running' => FlightInv')
<1>1. /\ hpc = "control" /\ lock = "none" /\ transferred' \in {transferred, cur.n} /\ cur' = NoUrb
      /\ alloc' = 0 /\ urbs' = <<>> /\ hpc' = "callback"
      /\ UNCHANGED <<request, continuation, polled, owner, submits, asked, kernel, pc, at, lock,
                     reap_action, num_retired, iso_packet_offset, timed_out, buffer, results>>
  BY DEF handle_control_completion, HandlerOnly, Complete
<1>2. status' \in {"none", "COMPLETED", "CANCELLED", "TIMED_OUT", "ERROR",
                   "STALL", "OVERFLOW", "NO_DEVICE"}
  BY DEF handle_control_completion, Complete, Cancelled
<1>3. cur.n \in Nat
  BY <1>1, InHand
<1>4. PrivType' /\ TransferType'
  BY <1>1, <1>2, <1>3 DEF TypeInv, PrivType, TransferType
<1>5. TypeInv'
  BY <1>1, <1>4, CompletionTypes
<1>6. FlightInv'
  BY <1>1, LastRetired
<1> QED
  BY <1>5, <1>6

LEMMA IsoInflight ==
  ASSUME TypeInv, FlightInv, handle_iso_completion
  PROVE  TypeInv' /\ (Running' => FlightInv')
<1> DEFINE urb == urbs[cur.i]
           place == [k \in DOMAIN results |->
                       LET j == k - iso_packet_offset
                       IN  IF j \in 1 .. urb.length THEN urb.offset + j - 1 ELSE results[k]]
<1>1. /\ hpc = "iso" /\ lock = "none" /\ num_retired' = num_retired + 1 /\ cur' = NoUrb
      /\ UNCHANGED <<request, continuation, polled, owner, submits, asked, kernel, pc, at, lock,
                     reap_action, timed_out, transferred, buffer>>
  BY DEF handle_iso_completion, HandlerOnly
<1>2. \/ alloc' = 0 /\ urbs' = <<>> /\ hpc' = "callback"
      \/ UNCHANGED <<alloc, urbs>> /\ hpc' = "idle"
  BY DEF handle_iso_completion, Complete
<1>3. \/ results' = place /\ iso_packet_offset' = iso_packet_offset + urb.length
      \/ UNCHANGED <<results, iso_packet_offset>>
  BY DEF handle_iso_completion, NextPacket
<1>4. urb.length \in Nat /\ urb.offset \in Nat /\ iso_packet_offset \in Nat
  <2>1. urb \in Urb
    BY <1>1, InHand
  <2> HIDE DEF urb
  <2> QED
    BY <2>1 DEF Urb, TypeInv, PrivType
<1>5. place \in Seq(Nat)
  <2>1. results \in Seq(Nat) /\ DOMAIN results = 1 .. Len(results) /\ Len(results) \in Nat
    BY LenProperties DEF TypeInv, TransferType
  <2> DEFINE f(k) == LET j == k - iso_packet_offset
                     IN  IF j \in 1 .. urb.length THEN urb.offset + j - 1 ELSE results[k]
  <2> HIDE DEF urb
  <2>2. ASSUME NEW k \in 1 .. Len(results) PROVE f(k) \in Nat
    <3>1. results[k] \in Nat
      BY <2>1
    <3> QED
      BY <1>4, <3>1
  <2>3. place = [k \in 1 .. Len(results) |-> f(k)]
    BY <2>1
  <2> HIDE DEF f, place
  <2> QED
    BY <2>1, <2>2, <2>3
<1> HIDE DEF place, urb
<1>6. status' \in {"none", "COMPLETED", "CANCELLED", "TIMED_OUT", "ERROR",
                   "STALL", "OVERFLOW", "NO_DEVICE"}
  BY DEF handle_iso_completion, Complete, Cancelled, TypeInv, TransferType
<1>7. PrivType' /\ TransferType'
  BY <1>1, <1>3, <1>4, <1>5, <1>6 DEF TypeInv, PrivType, TransferType
<1>8. TypeInv'
  BY <1>1, <1>2, <1>7, CompletionTypes
<1>9. FlightInv'
  BY <1>1, <1>2, <1>8, LastRetired, OneRetired
<1> QED
  BY <1>8, <1>9

\* A short URB: the handler goes on to discard those behind it.
LEMMA ShortRetired ==
  ASSUME TypeInv, FlightInv, hpc = "bulk", lock = "none", cur.i < num_urbs,
         UNCHANGED <<request, continuation, polled, owner, submits, asked, kernel, pc, at,
                     alloc, urbs, buffer>>,
         num_retired' = num_retired + 1, PrivType', TransferType',
         hpc' = "discard", lock' = "handler", cur' = [cur EXCEPT !.i = @ + 1]
  PROVE  TypeInv' /\ FlightInv'
<1>1. cur.i \in 1 .. num_urbs /\ num_urbs \in Nat /\ cur \in Entries
  BY InHand
<1>2. cur' \in Entries /\ cur'.i = cur.i + 1 /\ cur'.i \in 1 .. num_urbs
  <2>1. cur.i + 1 \in Nat /\ cur.i + 1 \in 1 .. num_urbs
    BY <1>1
  <2>2. cur' \in Entries /\ cur'.i = cur.i + 1
    BY <1>1, <2>1 DEF Entries
  <2> QED
    BY <2>1, <2>2
<1>3. TypeInv'
  <2>1. RequestType' /\ StateType' /\ KernelType' /\ ThreadType'
    BY <1>2 DEF kernel, TypeInv, RequestType, StateType, KernelType, ThreadType
  <2>2. Inside'
    <3>1. \A u \in Users : pc[u] = "idle"
      BY Locks DEF FlightInv, LockInv
    <3> QED
      BY <1>2, <3>1 DEF Inside, num_urbs
  <2> QED
    BY <2>1, <2>2 DEF TypeInv
<1> QED
  BY <1>3, OneRetired

LEMMA BulkInflight ==
  ASSUME TypeInv, FlightInv, handle_bulk_completion
  PROVE  TypeInv' /\ (Running' => FlightInv')
<1>1. /\ hpc = "bulk" /\ lock = "none" /\ num_retired' = num_retired + 1
      /\ transferred' \in {transferred, transferred + cur.n}
      /\ UNCHANGED <<request, continuation, polled, owner, submits, asked, kernel, pc, at,
                     iso_packet_offset, timed_out, buffer, results>>
  BY DEF handle_bulk_completion, HandlerOnly
<1>2. \/ /\ alloc' = 0 /\ urbs' = <<>> /\ hpc' = "callback" /\ cur' = NoUrb
         /\ UNCHANGED <<reap_action, lock>>
      \/ /\ UNCHANGED <<alloc, urbs, reap_action, lock>> /\ hpc' = "idle" /\ cur' = NoUrb
      \/ /\ UNCHANGED <<alloc, urbs>> /\ cur.i < num_urbs /\ reap_action' = "COMPLETED_EARLY"
         /\ hpc' = "discard" /\ lock' = "handler" /\ cur' = [cur EXCEPT !.i = @ + 1]
  BY DEF handle_bulk_completion, Complete
<1>3. status' \in {"none", "COMPLETED", "CANCELLED", "TIMED_OUT", "ERROR",
                   "STALL", "OVERFLOW", "NO_DEVICE"}
  BY DEF handle_bulk_completion, Complete, BulkStatus, TypeInv, TransferType
<1>4. cur.n \in Nat
  BY <1>1, InHand
<1>5. PrivType' /\ TransferType'
  BY <1>1, <1>2, <1>3, <1>4 DEF TypeInv, PrivType, TransferType
<1>6. CASE /\ alloc' = 0 /\ urbs' = <<>> /\ hpc' = "callback" /\ cur' = NoUrb
           /\ UNCHANGED <<reap_action, lock>>
  <2>1. TypeInv'
    BY <1>1, <1>5, <1>6, CompletionTypes
  <2>2. FlightInv'
    BY <1>1, <1>6, LastRetired
  <2> QED
    BY <2>1, <2>2
<1>7. CASE /\ UNCHANGED <<alloc, urbs, reap_action, lock>> /\ hpc' = "idle" /\ cur' = NoUrb
  <2>1. TypeInv'
    BY <1>1, <1>5, <1>7, CompletionTypes
  <2>2. FlightInv'
    BY <1>1, <1>7, <2>1, OneRetired
  <2> QED
    BY <2>1, <2>2
<1>8. CASE /\ UNCHANGED <<alloc, urbs>> /\ cur.i < num_urbs /\ reap_action' = "COMPLETED_EARLY"
           /\ hpc' = "discard" /\ lock' = "handler" /\ cur' = [cur EXCEPT !.i = @ + 1]
  BY <1>1, <1>5, <1>8, ShortRetired
<1> QED
  BY <1>2, <1>6, <1>7, <1>8

LEMMA DiscardRestInflight ==
  ASSUME TypeInv, FlightInv, DiscardRest
  PROVE  TypeInv' /\ (Running' => FlightInv')
<1>1. /\ hpc = "discard"
      /\ \/ cur.i = num_urbs /\ hpc' = "idle" /\ lock' = "none" /\ cur' = NoUrb
         \/ cur.i # num_urbs /\ cur' = [cur EXCEPT !.i = @ + 1] /\ hpc' = hpc /\ lock' = lock
      /\ UNCHANGED <<request, continuation, polled, owner, submits, asked, alloc, urbs,
                     num_retired, tpriv, transfer, buffer, pc, at>>
  BY DEF DiscardRest, tpriv, transfer
<1>2. /\ lock = "handler" /\ Flies /\ owner = "libusb" /\ cur.i \in 1 .. num_urbs /\ num_urbs \in Nat
      /\ cur \in Entries
  BY <1>1, LenProperties DEF FlightInv, LockInv, OwnerInv, TypeInv, ThreadType, Inside,
     RequestType, num_urbs
<1>3. \A u \in Users : pc[u] = "idle"
  BY <1>2, Locks DEF FlightInv, LockInv
<1>4. /\ UNCHANGED connected /\ halted' \in BOOLEAN /\ KernelType'
      /\ pending' \in Seq(OfQueue) /\ finished' \in Seq(OfFinished)
      /\ \A j \in Nat : Count(pending', Our(j)) <= 1
      /\ Count(pending', Ours) + Count(finished', OursDone)
           = Count(pending, Ours) + Count(finished, OursDone)
  <2>1. CASE UNCHANGED kernel
    BY <1>2, <2>1 DEF kernel, TypeInv, StateType, KernelType, FlightInv, QueueInv
  <2>2. CASE Discard(cur.i)
    <3>1. cur.i \in Nat
      BY <1>2
    <3>2. UNCHANGED <<connected, halted>>
      BY <2>2, <3>1, Discarded
    <3> QED
      BY <1>2, <2>2, <3>1, <3>2, Discarded DEF TypeInv, StateType
  <2> QED
    BY <2>1, <2>2 DEF DiscardRest
<1>5. /\ cur' \in Entries
      /\ hpc' = "discard" => cur'.i \in 1 .. num_urbs
      /\ \/ hpc' = "idle" /\ lock' = "none"
         \/ hpc' = "discard" /\ lock' = "handler"
  <2>1. CASE cur.i = num_urbs
    <3>1. cur' = NoUrb /\ hpc' = "idle" /\ lock' = "none"
      BY <1>1, <2>1
    <3>2. NoUrb \in Entries
      BY DEF NoUrb, Entries
    <3> QED
      BY <3>1, <3>2
  <2>2. CASE cur.i # num_urbs
    <3>1. cur.i + 1 \in Nat /\ cur.i + 1 \in 1 .. num_urbs
      BY <1>2, <2>2
    <3>2. cur' = [cur EXCEPT !.i = @ + 1] /\ hpc' = "discard" /\ lock' = "handler"
      BY <1>1, <1>2, <2>2
    <3>3. cur' \in Entries /\ cur'.i = cur.i + 1
      BY <1>2, <3>1, <3>2 DEF Entries
    <3> QED
      BY <3>1, <3>2, <3>3
  <2> QED
    BY <2>1, <2>2
<1>6. TypeInv'
  <2>1. RequestType' /\ PrivType' /\ TransferType'
    BY <1>1 DEF tpriv, transfer, TypeInv, RequestType, PrivType, TransferType
  <2>2. StateType' /\ ThreadType'
    BY <1>1, <1>4, <1>5 DEF TypeInv, StateType, ThreadType
  <2>3. Inside'
    BY <1>1, <1>3, <1>5 DEF Inside, num_urbs
  <2> QED
    BY <1>4, <2>1, <2>2, <2>3 DEF TypeInv
<1>7. Issued' = Issued
  BY <1>1, <1>2, <1>5, Locks DEF Issued, num_urbs
<1>8. LockInv'
  BY <1>1, <1>3, <1>5, Locks DEF FlightInv, LockInv
<1>9. OwnerInv' /\ Hand' = Hand
  BY <1>1, <1>2, <1>5 DEF OwnerInv, Hand, Flies
<1>10. Back(pending', finished', num_retired', Hand') = Back(pending, finished, num_retired, Hand)
  BY <1>1, <1>4, <1>9 DEF Back
<1> HIDE DEF Issued
<1> QED
  BY <1>1, <1>4, <1>6, <1>7, <1>8, <1>9, <1>10, SameSum

LEMMA DisconnectInflight ==
  ASSUME TypeInv, FlightInv, handle_disconnect
  PROVE  TypeInv' /\ (Running' => FlightInv')
<1>1. /\ hpc = "idle" /\ polled' = FALSE
      /\ UNCHANGED <<request, continuation, owner, lock, submits, asked, reap_action, num_retired,
                     iso_packet_offset, timed_out, transferred, buffer, results, kernel, pc, at, cur>>
      /\ \/ /\ owner = "libusb" /\ alloc' = 0 /\ urbs' = <<>> /\ status' = "NO_DEVICE"
            /\ hpc' = "callback"
         \/ UNCHANGED <<alloc, urbs, status, hpc>>
  BY DEF handle_disconnect, Complete
<1>2. StateType' /\ PrivType' /\ TransferType' /\ KernelType' /\ ThreadType'
  <2>1. StateType' /\ PrivType'
    BY <1>1 DEF kernel, TypeInv, StateType, PrivType
  <2>2. TransferType'
    BY <1>1 DEF TypeInv, TransferType
  <2>3. KernelType' /\ ThreadType'
    BY <1>1 DEF kernel, TypeInv, KernelType, ThreadType
  <2> QED
    BY <2>1, <2>2, <2>3
<1>3. CASE owner = "libusb" /\ alloc' = 0 /\ urbs' = <<>> /\ hpc' = "callback"
  <2>1. <<>> \in Seq(Urb)
    OBVIOUS
  <2>2. RequestType'
    BY <1>1, <1>3, <2>1 DEF TypeInv, RequestType
  <2>3. Inside'
    <3>1. \A u \in Users : pc[u] = "submit" => submits # 0
      BY DEF FlightInv, LockInv, TypeInv, RequestType
    <3> QED
      BY <1>1, <1>3, <3>1 DEF Inside
  <2>4. LockInv'
    BY <1>1, <1>3 DEF FlightInv, LockInv
  <2>5. OwnerInv'
    <3>1. ~Flies' /\ Hand' = 0
      BY <1>3 DEF Flies, Hand
    <3> QED
      BY <1>1, <1>3, <3>1 DEF OwnerInv
  <2>6. FlightInv'
    BY <1>1, <1>3, <2>4, <2>5, BlockGone DEF kernel
  <2> QED
    BY <1>2, <2>2, <2>3, <2>6 DEF TypeInv
<1>4. CASE UNCHANGED <<alloc, urbs, hpc>>
  <2>1. RequestType' /\ Inside'
    BY <1>1, <1>4 DEF TypeInv, RequestType, Inside, num_urbs
  <2>2. TypeInv'
    BY <1>2, <2>1 DEF TypeInv
  <2>3. Issued' = Issued
    BY <1>1, <1>4 DEF Issued, Flies, num_urbs
  <2>4. LockInv'
    BY <1>1, <1>4 DEF FlightInv, LockInv
  <2>5. OwnerInv' /\ Hand' = Hand
    <3> HIDE DEF Issued
    <3> QED
      BY <1>1, <1>4, <2>3 DEF FlightInv, OwnerInv, Flies, Hand
  <2> QED
    BY <1>1, <1>4, <2>2, <2>3, <2>4, <2>5, SameLists DEF kernel
<1> QED
  BY <1>1, <1>3, <1>4

LEMMA CallbackInflight ==
  ASSUME TypeInv, FlightInv, Callback
  PROVE  TypeInv' /\ (Running' => FlightInv')
<1>1. /\ hpc = "callback" /\ owner' \in {"user", "freed"} /\ hpc' \in {"idle", "unlock"}
      /\ UNCHANGED <<request, continuation, polled, lock, submits, asked, tpriv, transfer, kernel,
                     pc, at, cur>>
  BY DEF Callback
<1>2. ~Flies /\ alloc' = 0
  BY <1>1 DEF FlightInv, OwnerInv, Flies, tpriv
<1>3. TypeInv'
  <2>1. RequestType' /\ PrivType' /\ TransferType' /\ KernelType'
    BY <1>1 DEF tpriv, transfer, kernel, TypeInv, RequestType, PrivType, TransferType, KernelType
  <2>2. StateType' /\ ThreadType'
    BY <1>1 DEF kernel, TypeInv, StateType, ThreadType
  <2>3. Inside'
    BY <1>1 DEF tpriv, TypeInv, Inside, num_urbs
  <2> QED
    BY <2>1, <2>2, <2>3 DEF TypeInv
<1>4. LockInv'
  BY <1>1 DEF FlightInv, LockInv
<1>5. OwnerInv'
  <2>1. ~Flies' /\ Hand' = 0
    BY <1>1, <1>2 DEF Flies, Hand
  <2> QED
    BY <1>1, <2>1 DEF OwnerInv
<1> QED
  BY <1>1, <1>2, <1>3, <1>4, <1>5, BlockGone DEF kernel

LEMMA UnlockInflight ==
  ASSUME TypeInv, FlightInv, UnlockAgain
  PROVE  TypeInv' /\ (Running' => FlightInv')
<1>1. /\ hpc = "unlock" /\ hpc' = "idle" /\ lock' = "none"
      /\ UNCHANGED <<request, continuation, polled, owner, submits, asked, tpriv, transfer, kernel,
                     pc, at, cur>>
  BY DEF UnlockAgain
<1>2. TypeInv'
  <2>1. RequestType' /\ PrivType' /\ TransferType' /\ KernelType'
    BY <1>1 DEF tpriv, transfer, kernel, TypeInv, RequestType, PrivType, TransferType, KernelType
  <2>2. StateType' /\ ThreadType'
    BY <1>1 DEF kernel, TypeInv, StateType, ThreadType
  <2>3. Inside'
    BY <1>1 DEF tpriv, TypeInv, Inside, num_urbs
  <2> QED
    BY <2>1, <2>2, <2>3 DEF TypeInv
<1>3. ASSUME Running'
      PROVE  FlightInv'
  <2>1. lock = "none"
    BY <1>3 DEF UnlockAgain, Running
  <2>2. Issued' = Issued
    BY <1>1, <2>1 DEF tpriv, Issued, Flies, num_urbs
  <2>3. LockInv'
    BY <1>1, <2>1 DEF FlightInv, LockInv
  <2>4. OwnerInv' /\ Hand' = Hand
    <3> HIDE DEF Issued
    <3> QED
      BY <1>1, <2>2 DEF tpriv, FlightInv, OwnerInv, Flies, Hand
  <2> QED
    BY <1>1, <1>2, <2>2, <2>3, <2>4, SameLists DEF tpriv, transfer, kernel
<1> QED
  BY <1>2, <1>3

----------------------------------------------------------------------------
(* TransferOK *)

LEMMA InitAll == Init => AllInv
<1> SUFFICES ASSUME Init PROVE AllInv
  OBVIOUS
<1>1. RequestType
  <2>1. request \in Requests
    BY RequestsAssumption DEF Init
  <2>2. <<>> \in Seq(Urb)
    OBVIOUS
  <2> QED
    BY <2>1, <2>2, BoundsAssumption DEF Init, RequestType
<1>2. StateType /\ PrivType
  BY DEF Init, StateType, PrivType
<1>3. TransferType /\ KernelType
  <2>1. buffer \in Seq(Nat) /\ results \in Seq(Nat) /\ pending \in Seq(Queued) /\ finished \in Seq(Entries)
    BY DEF Init
  <2> QED
    BY <2>1 DEF Init, TransferType, KernelType
<1>4. ThreadType /\ Inside
  <2>1. cur \in Entries
    BY DEF Init, NoUrb, Entries
  <2> QED
    BY <2>1 DEF Init, ThreadType, Inside
<1>5. LockInv
  BY Locks DEF Init, LockInv
<1>6. OwnerInv
  BY DEF Init, OwnerInv, Flies, Hand
<1>7. Reach /\ QueueInv /\ CountInv
  <2>1. ~Flies
    BY DEF Init, Flies
  <2>2. pending \in Seq(OfQueue) /\ finished \in Seq(OfFinished)
    BY DEF Init
  <2> QED
    BY <2>1, <2>2 DEF Reach, QueueInv, CountInv
<1> QED
  BY <1>1, <1>2, <1>3, <1>4, <1>5, <1>6, <1>7 DEF AllInv, TypeInv, FlightInv

LEMMA HandlerInflight ==
  ASSUME TypeInv, FlightInv, HandlerStep
  PROVE  TypeInv' /\ (Running' => FlightInv')
BY ReapInflight, AbnormalInflight, BulkInflight, DiscardRestInflight, IsoInflight, ControlInflight,
   DisconnectInflight, CallbackInflight, UnlockInflight DEF HandlerStep

LEMMA StepAll == AllInv /\ [Next]_vars => AllInv'
<1> SUFFICES ASSUME AllInv, [Next]_vars PROVE AllInv'
  OBVIOUS
<1>1. CASE Next
  <2>1. Running
    BY <1>1, Zenon DEF Next, Submit, UserStep, SubmitUrb, UndoUrb, CancelUrb, Cancel, FreeTransfer,
       HandlerStep, reap_for_handle, handle_bulk_abnormal, handle_bulk_completion, DiscardRest,
       handle_iso_completion, handle_control_completion, handle_disconnect, Callback, UnlockAgain,
       KernelComplete, Unplug
  <2>2. TypeInv /\ FlightInv
    BY <2>1 DEF AllInv
  <2>3. TypeInv' /\ (Running' => FlightInv')
    <3>1. CASE \E u \in Users : Submit(u) \/ UserStep(u) \/ Cancel(u) \/ FreeTransfer(u)
      BY <2>2, <3>1, SubmitInflight, SubmitUrbInflight, UndoInflight, CancelInflight, FreeInflight
         DEF UserStep
    <3>2. CASE HandlerStep
      BY <2>2, <3>2, HandlerInflight
    <3>3. CASE KernelComplete
      BY <2>2, <3>3, KernelInflight
    <3>4. CASE Unplug
      BY <2>2, <3>4, UnplugInflight
    <3> QED
      BY <1>1, <3>1, <3>2, <3>3, <3>4 DEF Next
  <2> QED
    BY <2>3 DEF AllInv
<1>2. CASE UNCHANGED vars
  <2>1. UNCHANGED <<request, continuation, polled, owner, lock, submits, asked, health, tpriv,
                    transfer, kernel, threads>>
    BY <1>2 DEF vars
  <2>2. TypeInv'
    BY <2>1, LoopStops DEF AllInv
  <2>3. ASSUME Running'
        PROVE  FlightInv'
    <3>1. FlightInv
      BY <2>1, <2>3 DEF AllInv, Running
    <3>2. Issued' = Issued
      BY <2>1 DEF tpriv, threads, Issued, Flies, num_urbs
    <3>3. LockInv'
      BY <2>1, <3>1 DEF threads, FlightInv, LockInv
    <3>4. OwnerInv' /\ Hand' = Hand
      <4> HIDE DEF Issued
      <4> QED
        BY <2>1, <3>1, <3>2 DEF tpriv, threads, FlightInv, OwnerInv, Flies, Hand
    <3>5. UNCHANGED <<alloc, urbs, submits, request, connected, pending, finished, buffer, num_retired>>
      BY <2>1 DEF tpriv, transfer, kernel
    <3> QED
      BY <2>2, <3>1, <3>2, <3>3, <3>4, <3>5, SameLists DEF AllInv
  <2> QED
    BY <2>2, <2>3 DEF AllInv
<1> QED
  BY <1>1, <1>2

\* The inductive invariant says what TransferOK promises.
LEMMA AllTransfer == AllInv => TransferOK
<1> SUFFICES ASSUME AllInv PROVE TransferOK
  OBVIOUS
<1>1. TypeOK
  BY TypeSplit DEF AllInv
<1>2. ASSUME Running, alloc # 0, lock = "none", request.type # "control", connected
      PROVE  num_retired + Len(Kept(pending, {p \in Queued : p.alloc = alloc}))
               + Len(Kept(finished, {e \in Entries : e.alloc = alloc}))
               + (IF hpc \in {"bulk", "iso"} THEN 1 ELSE 0) = num_urbs
  <2>1. TypeInv /\ FlightInv
    BY <1>2 DEF AllInv
  <2>2. alloc = submits /\ Flies
    BY <1>2, <2>1 DEF TypeInv, RequestType, Flies
  <2>3. Held = Issued /\ Issued = num_urbs
    <3>1. Issued = num_urbs
      BY <1>2, Locks DEF Issued
    <3> QED
      BY <1>2, <2>1, <2>2, <3>1 DEF FlightInv, CountInv
  <2>4. hpc # "control"
    BY <1>2, <2>1, InHand
  <2>5. (IF hpc \in {"bulk", "iso"} THEN 1 ELSE 0) = Hand
    BY <2>4 DEF Hand
  <2>6. /\ Count(pending, Ours) = Len(Kept(pending, {p \in Queued : p.alloc = alloc}))
        /\ Count(finished, OursDone) = Len(Kept(finished, {e \in Entries : e.alloc = alloc}))
    BY <2>2 DEF Count, Ours, OursDone
  <2>7. Held = num_retired + Len(Kept(pending, {p \in Queued : p.alloc = alloc}))
                 + Len(Kept(finished, {e \in Entries : e.alloc = alloc})) + Hand
    BY <2>6 DEF Held
  <2> QED
    BY <2>3, <2>5, <2>7
<1>3. Accounted
  BY <1>2 DEF Accounted
<1> QED
  BY <1>1, <1>3 DEF TransferOK

\* No loop over the URBs of a transfer leaves its block, and while nobody holds
\* the lock each of its URBs is retired, in the kernel or in the handler's hands,
\* whatever was refused, cancelled, completed early or unplugged, for every kind
\* and length of request (num_retired in submit_bulk_transfer,
\* submit_iso_transfer and the completion handlers of linux_usbfs.c).
THEOREM TransferCorrect == Spec => []TransferOK
<1>1. Init => AllInv
  BY InitAll
<1>2. AllInv /\ [Next]_vars => AllInv'
  BY StepAll
<1>3. AllInv => TransferOK
  BY AllTransfer
<1> QED
  BY <1>1, <1>2, <1>3, PTL DEF Spec
----------------------------------------------------------------------------
(* The inductive invariant of DataInPlace *)

\* Where the URBs of a request begin and end.
Off(i) == (i - 1) * MaxBulk
BulkPart(i, n, urb) == /\ urb.offset = Off(i) /\ urb.length <= MaxBulk
                       /\ i < n => urb.length = MaxBulk
                       /\ urb.cont = (i > 1 /\ continuation)
BulkShape ==
  Flies /\ request.type = "bulk" => \A i \in 1 .. num_urbs : BulkPart(i, num_urbs, urbs[i])

\* No packet is longer than a URB. (The room for the packets is counted with
\* an unsigned length: a longer one would be counted with the next.)
Short == \A r \in Requests : \A k \in DOMAIN r.packets : r.packets[k] <= MaxIso
IsoPart(us, n) ==
  /\ us[1].offset = 1
  /\ \A i \in 1 .. Len(us) : us[i].offset + us[i].length =
       IF i = Len(us) THEN n + 1 ELSE us[i + 1].offset
IsoShape == Short /\ Flies /\ request.type = "iso" => IsoPart(urbs, Len(results))
ShapeInv == BulkShape /\ IsoShape

\* The URBs of a submission are queued in their order.
Sorted(q, R) == \A k, l \in DOMAIN q : k < l => <<q[k], q[l]>> \in R
Rising == {x \in Queued \X Queued : x[1] \in Ours /\ x[2] \in Ours => x[1].i < x[2].i}
Flagged == {p \in Queued : Flies /\ p \in Ours => p.cont = urbs[p.i].cont}
OrderInv == Sorted(pending, Rising) /\ pending \in Seq(Flagged)

\* As long as none was cut short, refused or discarded, the URBs come back in
\* their order, unless one of an earlier submission comes first.
From(q, T, m) == \A k \in 1 .. Len(q) : q[k] \in T /\ q[k].i = m + k
StaleFirst == \/ finished # <<>> /\ Head(finished) \notin OursDone
              \/ finished = <<>> /\ pending # <<>> /\ Head(pending) \notin Ours
InLine == /\ From(finished, OursDone, num_retired + Hand)
          /\ From(pending, Ours, num_retired + Hand + Len(finished))
Calm == hpc # "discard" /\ \A u \in Users : pc[u] \notin {"undo", "cancel"}
NormalInv == Flies /\ reap_action = "NORMAL" => /\ Calm /\ (StaleFirst \/ InLine)
                                                /\ Hand = 1 => cur.i = num_retired + 1

\* The bytes of a read: behind those the transfer has and those in the
\* handler's hand come those of the finished URBs, one after the other, and all
\* are before the URBs that are still queued.
Reads == Flies /\ request.type = "bulk" /\ ~request.out
Got == transferred + (IF hpc = "bulk" THEN cur.n ELSE 0)
Later == {p \in Queued : p \in Ours => delivered <= Off(p.i)}
Placed == {e \in Entries : e \in OursDone /\ e.n > 0 => e.first <= Off(e.i)}
Full == {e \in OursDone : e.n > 0}
Line(q, a, b) ==
  /\ q = <<>> => a = b
  /\ q # <<>> => q[1].first = a /\ q[Len(q)].first + q[Len(q)].n = b
  /\ \A k \in 1 .. Len(q) - 1 : q[k + 1].first = q[k].first + q[k].n
Chain(q) == q # <<>> \/ Held = Issued => Line(q, Got, delivered)
BytesInv ==
  Reads => /\ delivered <= Off(Issued + 1)
           /\ pending \in Seq(Later) /\ finished \in Seq(Placed)
           /\ Chain(Kept(finished, Full))
           /\ reap_action = "NORMAL" => transferred = Off(num_retired + 1)

\* What the transfer has is in place, and what is in hand is where its URB is.
InPlace(m) == m <= Len(buffer) /\ \A b \in 1 .. m : buffer[b] = b
BufferInv ==
  Reads =>
    /\ InPlace(transferred)
    /\ hpc = "bulk" /\ cur.n > 0 =>
         /\ transferred <= Off(cur.i)
         /\ \A k \in 1 .. cur.n : buffer[Off(cur.i) + k] = transferred + k

\* After a completion nothing more arrives.
Ends == /\ hpc = "callback" /\ request.type = "bulk" /\ ~request.out
        /\ status \in {"COMPLETED", "CANCELLED", "TIMED_OUT"}
DoneInv == Ends => /\ transferred = delivered /\ InPlace(transferred)
                   /\ Count(pending, Ours) = 0

\* Isochronous URBs that come back in their order put the results in place.
Fine == {e \in Entries : e \in OursDone => e.status = "ok"}
Filled == \A k \in DOMAIN results : k <= iso_packet_offset => results[k] = k
IsoInv ==
  Short /\ Flies /\ request.type = "iso" /\ reap_action = "NORMAL" =>
    /\ num_retired < num_urbs => iso_packet_offset + 1 = urbs[num_retired + 1].offset
    /\ Filled
    /\ finished \in Seq(Fine) /\ (Hand = 1 => cur.status = "ok")
IsoDone == Short => IsoInPlace

DataInv == /\ ShapeInv /\ OrderInv /\ NormalInv /\ BytesInv /\ BufferInv
           /\ DoneInv /\ IsoInv /\ IsoDone
\* What is kept of two lists one after the other, of the first element and of
\* those behind it, and of a list that is all or not at all in the set.
LEMMA KeptIn ==
  ASSUME NEW S, NEW q \in Seq(S), NEW T
  PROVE  Kept(q, T) \in Seq(S)
<1>1. Kept(q, T) \in Seq(S \cap T)
  BY KeptType
<1> QED
  BY <1>1, SeqMonotonic

Joined(p, q, T) == Kept(p \o q, T) = Kept(p, T) \o Kept(q, T)
LEMMA KeptCat ==
  ASSUME NEW S, NEW p \in Seq(S), NEW q \in Seq(S), NEW T
  PROVE  Joined(p, q, T)
<1> DEFINE G == {s \in Seq(S) : Joined(p, s, T)}
<1>0. Kept(p, T) \in Seq(S) /\ \A s \in Seq(S) : Kept(s, T) \in Seq(S)
  BY KeptIn
<1>1. <<>> \in G
  <2>1. p \o <<>> = p /\ Kept(p, T) \o <<>> = Kept(p, T) /\ Kept(<<>>, T) = <<>>
    BY <1>0, KeptEmpty, ConcatEmptySeq
  <2>2. Joined(p, <<>>, T)
    BY <2>1 DEF Joined
  <2>3. <<>> \in Seq(S)
    OBVIOUS
  <2> QED
    BY <2>2, <2>3
<1>2. ASSUME NEW s \in Seq(S), NEW e \in S, s \in G
      PROVE  Append(s, e) \in G
  <2> DEFINE ps == p \o s
             se == Append(s, e)
             kp == Kept(p, T)
             ks == Kept(s, T)
  <2>1. ps \in Seq(S) /\ se \in Seq(S) /\ p \o se = Append(ps, e)
    <3>1. ps \in Seq(S) /\ se \in Seq(S) /\ <<e>> \in Seq(S)
      BY ConcatProperties, AppendProperties
    <3>2. se = s \o <<e>> /\ Append(ps, e) = ps \o <<e>>
      <4> HIDE DEF ps
      <4> QED
        BY <3>1, AppendIsConcat
    <3>3. ps \o <<e>> = p \o (s \o <<e>>)
      BY <3>1, ConcatAssociative
    <3> QED
      BY <3>1, <3>2, <3>3
  <2>2. /\ Kept(Append(ps, e), T) = IF e \in T THEN Append(Kept(ps, T), e) ELSE Kept(ps, T)
        /\ Kept(se, T) = IF e \in T THEN Append(ks, e) ELSE ks
    <3>1. Kept(se, T) = IF e \in T THEN Append(ks, e) ELSE ks
      BY KeptAppend
    <3>2. ps \in Seq(S)
      BY <2>1
    <3> HIDE DEF ps
    <3>3. Kept(Append(ps, e), T) = IF e \in T THEN Append(Kept(ps, T), e) ELSE Kept(ps, T)
      BY <3>2, KeptAppend, SMTT(60)
    <3> QED
      BY <3>1, <3>3
  <2>3. Kept(ps, T) = kp \o ks
    BY <1>2 DEF Joined
  <2>4. kp \in Seq(S) /\ ks \in Seq(S)
    BY <1>0
  <2>5. Append(kp \o ks, e) = kp \o Append(ks, e)
    <3> HIDE DEF kp, ks
    <3>1. <<e>> \in Seq(S) /\ kp \o ks \in Seq(S)
      BY <2>4, ConcatProperties
    <3>2. Append(kp \o ks, e) = (kp \o ks) \o <<e>> /\ Append(ks, e) = ks \o <<e>>
      BY <2>4, <3>1, AppendIsConcat
    <3>3. (kp \o ks) \o <<e>> = kp \o (ks \o <<e>>)
      BY <2>4, <3>1, ConcatAssociative, SMTT(30)
    <3> QED
      BY <3>2, <3>3
  <2>6. Kept(p \o se, T) = kp \o Kept(se, T)
    <3> HIDE DEF ps, se, kp, ks
    <3> QED
      BY <2>1, <2>2, <2>3, <2>5
  <2>7. Joined(p, se, T)
    BY <2>6 DEF Joined
  <2> QED
    BY <2>1, <2>7
<1> HIDE DEF G
<1>3. \A s \in Seq(S) : s \in G
  BY <1>1, <1>2, SeqInduction
<1> QED
  BY <1>3 DEF G

LEMMA KeptOne ==
  ASSUME NEW S, NEW e \in S, NEW T
  PROVE  Kept(<<e>>, T) = IF e \in T THEN <<e>> ELSE <<>>
<1>1. PICK z \in Seq(S) : z = <<>>
  <2>1. <<>> \in Seq(S)
    OBVIOUS
  <2> QED
    BY <2>1
<1>2. Kept(Append(z, e), T) = IF e \in T THEN Append(Kept(z, T), e) ELSE Kept(z, T)
  BY KeptAppend
<1>3. Append(z, e) = <<e>> /\ Kept(z, T) = <<>>
  BY <1>1, KeptEmpty
<1> QED
  BY <1>1, <1>2, <1>3

LEMMA KeptHead ==
  ASSUME NEW S, NEW q \in Seq(S), q # <<>>, NEW T
  PROVE  IF Head(q) \in T
         THEN Kept(q, T) # <<>> /\ Head(Kept(q, T)) = Head(q) /\ Tail(Kept(q, T)) = Kept(Tail(q), T)
         ELSE Kept(q, T) = Kept(Tail(q), T)
<1> DEFINE one == <<Head(q)>>
<1>1. Head(q) \in S /\ Tail(q) \in Seq(S) /\ one \in Seq(S) /\ q = one \o Tail(q)
  BY HeadTailProperties
<1>2. Kept(one, T) = IF Head(q) \in T THEN one ELSE <<>>
  <2>1. PICK h \in S : h = Head(q)
    BY <1>1
  <2>2. Kept(<<h>>, T) = IF h \in T THEN <<h>> ELSE <<>>
    BY KeptOne
  <2> QED
    BY <2>1, <2>2
<1>3. Kept(one \o Tail(q), T) = Kept(one, T) \o Kept(Tail(q), T)
  <2>1. Joined(one, Tail(q), T)
    <3> HIDE DEF one
    <3> QED
      BY <1>1, KeptCat
  <2> QED
    BY <2>1 DEF Joined
<1>4. Kept(Tail(q), T) \in Seq(S)
  BY <1>1, KeptIn
<1>5. CASE Head(q) \in T
  <2>1. Kept(q, T) = one \o Kept(Tail(q), T)
    BY <1>1, <1>2, <1>3, <1>5
  <2> DEFINE t == Kept(Tail(q), T)
  <2>2. one \o t # <<>> /\ Head(one \o t) = Head(q) /\ Tail(one \o t) = t
    <3>1. t \in Seq(S)
      BY <1>4
    <3> HIDE DEF t
    <3> QED
      BY <1>1, <3>1
  <2> QED
    BY <1>5, <2>1, <2>2
<1>6. CASE Head(q) \notin T
  <2>1. Kept(q, T) = <<>> \o Kept(Tail(q), T)
    BY <1>1, <1>2, <1>3, <1>6
  <2> QED
    BY <1>4, <1>6, <2>1, ConcatEmptySeq
<1> QED
  BY <1>5, <1>6

LEMMA KeptAll ==
  ASSUME NEW S, NEW q \in Seq(S), NEW T, S \subseteq T
  PROVE  Kept(q, T) = q
<1> DEFINE G == {s \in Seq(S) : Kept(s, T) = s}
<1>1. <<>> \in G
  BY KeptEmpty
<1>2. ASSUME NEW s \in Seq(S), NEW e \in S, s \in G
      PROVE  Append(s, e) \in G
  <2>1. Kept(Append(s, e), T) = IF e \in T THEN Append(Kept(s, T), e) ELSE Kept(s, T)
    BY KeptAppend
  <2> QED
    BY <1>2, <2>1
<1> HIDE DEF G
<1>3. \A s \in Seq(S) : s \in G
  BY <1>1, <1>2, SeqInduction
<1> QED
  BY <1>3 DEF G

LEMMA KeptNone ==
  ASSUME NEW S, NEW q \in Seq(S), NEW T
  PROVE  /\ S \cap T = {} => Kept(q, T) = <<>>
         /\ Count(q, T) = 0 => Kept(q, T) = <<>>
<1>1. Kept(q, T) \in Seq(S \cap T) /\ Len(Kept(q, T)) = Count(q, T)
  BY KeptType DEF Count
<1>2. S \cap T = {} => Count(q, T) = 0
  BY CountNone
<1> QED
  BY <1>1, <1>2, EmptySeq

\* A list whose elements are all in a set.
LEMMA AllIn ==
  ASSUME NEW S, NEW q \in Seq(S), NEW T, \A k \in 1 .. Len(q) : q[k] \in T
  PROVE  q \in Seq(S \cap T)
<1>1. Len(q) \in Nat /\ q \in [1 .. Len(q) -> S]
  BY LenProperties
<1>2. q \in [1 .. Len(q) -> S \cap T]
  BY <1>1
<1> QED
  BY <1>1, <1>2

Ahead(S, e, R) == {x \in S : <<x, e>> \in R}
Behind(S, e, R) == {x \in S : <<e, x>> \in R}
LEMMA SortedAppend ==
  ASSUME NEW S, NEW q \in Seq(S), NEW e \in S, NEW R
  PROVE  /\ Sorted(q, R) /\ q \in Seq(Ahead(S, e, R)) => Sorted(Append(q, e), R)
         /\ Sorted(Append(q, e), R) => Sorted(q, R) /\ q \in Seq(Ahead(S, e, R))
<1> DEFINE n == Len(q)
           t == Append(q, e)
           L == Ahead(S, e, R)
<1>1. /\ n \in Nat /\ DOMAIN q = 1 .. n /\ q \in [1 .. n -> S]
      /\ DOMAIN t = 1 .. n + 1 /\ t[n + 1] = e /\ \A k \in 1 .. n : t[k] = q[k]
  BY LenProperties, AppendProperties
<1>2. ASSUME Sorted(q, R), q \in Seq(L)
      PROVE  Sorted(t, R)
  <2>1. \A k \in 1 .. n : <<q[k], e>> \in R
    BY <1>2, ElementOfSeq DEF Ahead
  <2> HIDE DEF t, n, L
  <2>2. \A k \in 1 .. n + 1, l \in 1 .. n + 1 : k < l => k \in 1 .. n /\ (l \in 1 .. n \/ l = n + 1)
    BY <1>1
  <2>3. \A k, l \in 1 .. n : k < l => <<q[k], q[l]>> \in R
    BY <1>1, <1>2 DEF Sorted
  <2>4. ASSUME NEW k \in 1 .. n + 1, NEW l \in 1 .. n + 1, k < l
        PROVE  <<t[k], t[l]>> \in R
    BY <1>1, <2>1, <2>2, <2>3, <2>4
  <2> QED
    BY <1>1, <2>4 DEF Sorted
<1>3. ASSUME Sorted(t, R)
      PROVE  Sorted(q, R) /\ q \in Seq(L)
  <2>1. \A k, l \in 1 .. n + 1 : k < l => <<t[k], t[l]>> \in R
    BY <1>1, <1>3 DEF Sorted
  <2> HIDE DEF t, n
  <2>2. \A k \in 1 .. n : k \in 1 .. n + 1 /\ n + 1 \in 1 .. n + 1 /\ k < n + 1
    BY <1>1
  <2>3. \A k, l \in 1 .. n : k < l => <<q[k], q[l]>> \in R
    BY <1>1, <2>1, <2>2
  <2>4. \A k \in 1 .. n : q[k] \in L
    BY <1>1, <2>1, <2>2 DEF Ahead
  <2>5. q \in Seq(S \cap L)
    BY <2>4, AllIn DEF n
  <2>6. q \in Seq(L)
    BY <2>5, SeqMonotonic
  <2> QED
    BY <1>1, <2>3, <2>6 DEF Sorted
<1> QED
  BY <1>2, <1>3

LEMMA SortedTail ==
  ASSUME NEW S, NEW q \in Seq(S), q # <<>>, NEW R, Sorted(q, R)
  PROVE  Sorted(Tail(q), R) /\ Tail(q) \in Seq(Behind(S, Head(q), R))
<1> DEFINE n == Len(q)
           t == Tail(q)
           L == Behind(S, Head(q), R)
<1>1. /\ n \in Nat \ {0} /\ DOMAIN q = 1 .. n /\ t \in Seq(S) /\ Len(t) = n - 1 /\ DOMAIN t = 1 .. n - 1
      /\ Head(q) = q[1] /\ \A k \in 1 .. n - 1 : t[k] = q[k + 1] /\ t[k] \in S
  BY LenProperties, EmptySeq, HeadTailProperties, ElementOfSeq
<1>2. \A k, l \in 1 .. n : k < l => <<q[k], q[l]>> \in R
  BY <1>1 DEF Sorted
<1> HIDE DEF t, n
<1>3. \A k \in 1 .. n - 1 : t[k] \in L
  <2>1. \A k \in 1 .. n - 1 : 1 \in 1 .. n /\ k + 1 \in 1 .. n /\ 1 < k + 1
    BY <1>1
  <2> QED
    BY <1>1, <1>2, <2>1 DEF Behind
<1>4. \A k, l \in 1 .. n - 1 : k < l => <<t[k], t[l]>> \in R
  <2>1. \A k, l \in 1 .. n - 1 : k < l => k + 1 \in 1 .. n /\ l + 1 \in 1 .. n /\ k + 1 < l + 1
    BY <1>1
  <2> QED
    BY <1>1, <1>2, <2>1
<1>5. t \in Seq(S \cap L)
  BY <1>1, <1>3, AllIn
<1>6. t \in Seq(L)
  BY <1>5, SeqMonotonic
<1> QED
  BY <1>1, <1>4, <1>6 DEF Sorted, t

\* What is kept stays in its order.
LEMMA KeptSorted ==
  ASSUME NEW S, NEW q \in Seq(S), NEW T, NEW R, Sorted(q, R)
  PROVE  Sorted(Kept(q, T), R)
<1> DEFINE G == {s \in Seq(S) : Sorted(s, R) => Sorted(Kept(s, T), R)}
<1>1. <<>> \in G
  BY KeptEmpty
<1>2. ASSUME NEW s \in Seq(S), NEW e \in S, s \in G
      PROVE  Append(s, e) \in G
  <2> DEFINE L == Ahead(S, e, R)
             t == Append(s, e)
             k == Kept(s, T)
  <2>1. t \in Seq(S) /\ Kept(t, T) = IF e \in T THEN Append(k, e) ELSE k
    BY KeptAppend, AppendProperties
  <2>2. Sorted(t, R) => Sorted(s, R) /\ s \in Seq(L)
    BY SortedAppend
  <2> HIDE DEF L, t
  <2>3. s \in Seq(L) => k \in Seq(L)
    <3>1. s \in Seq(L) => k \in Seq(L \cap T)
      BY KeptType
    <3> QED
      BY <3>1, SeqMonotonic
  <2>4. k \in Seq(S)
    <3>1. k \in Seq(S \cap T)
      BY KeptType
    <3> QED
      BY <3>1, SeqMonotonic
  <2>5. Sorted(k, R) /\ k \in Seq(L) => Sorted(Append(k, e), R)
    <3> HIDE DEF k
    <3> QED
      BY <2>4, SortedAppend DEF L
  <2>6. Sorted(s, R) => Sorted(k, R)
    BY <1>2
  <2>7. Sorted(t, R) => Sorted(Kept(t, T), R)
    <3> HIDE DEF k
    <3> QED
      BY <2>1, <2>2, <2>3, <2>5, <2>6
  <2> QED
    BY <2>1, <2>7 DEF t
<1> HIDE DEF G
<1>3. \A s \in Seq(S) : s \in G
  BY <1>1, <1>2, SeqInduction
<1> QED
  BY <1>3 DEF G

\* A list of URBs that follow each other.
LEMMA FromTail ==
  ASSUME NEW S, NEW q \in Seq(S), q # <<>>, NEW T, NEW m \in Nat, From(q, T, m)
  PROVE  Head(q) \in T /\ Head(q).i = m + 1 /\ From(Tail(q), T, m + 1)
<1> DEFINE n == Len(q)
           t == Tail(q)
<1>1. /\ n \in Nat \ {0} /\ Len(t) = n - 1
      /\ Head(q) = q[1] /\ \A k \in 1 .. n - 1 : t[k] = q[k + 1]
  BY LenProperties, EmptySeq, HeadTailProperties
<1>2. \A k \in 1 .. n : q[k] \in T /\ q[k].i = m + k
  BY DEF From
<1> HIDE DEF n, t
<1>3. 1 \in 1 .. n /\ \A k \in 1 .. n - 1 : k + 1 \in 1 .. n /\ m + (k + 1) = m + 1 + k
  BY <1>1
<1>4. \A k \in 1 .. n - 1 : t[k] \in T /\ t[k].i = m + 1 + k
  BY <1>1, <1>2, <1>3
<1> QED
  BY <1>1, <1>2, <1>3, <1>4 DEF From, t

LEMMA FromAppend ==
  ASSUME NEW S, NEW q \in Seq(S), NEW e \in S, NEW T, NEW m \in Nat, From(q, T, m),
         e \in T, e.i = m + Len(q) + 1
  PROVE  From(Append(q, e), T, m)
<1> DEFINE n == Len(q)
           t == Append(q, e)
<1>1. /\ n \in Nat /\ Len(t) = n + 1 /\ t[n + 1] = e /\ \A k \in 1 .. n : t[k] = q[k]
  BY LenProperties, AppendProperties
<1>2. \A k \in 1 .. n : q[k] \in T /\ q[k].i = m + k
  BY DEF From
<1>3. e.i = m + n + 1
  OBVIOUS
<1> HIDE DEF n, t
<1>4. m + n + 1 = m + (n + 1)
  BY <1>1
<1>5. \A k \in 1 .. n + 1 : k \in 1 .. n \/ k = n + 1
  BY <1>1
<1>6. \A k \in 1 .. n + 1 : t[k] \in T /\ t[k].i = m + k
  BY <1>1, <1>2, <1>3, <1>4, <1>5
<1> QED
  BY <1>1, <1>6 DEF From, t

LEMMA FromCat ==
  ASSUME NEW S, NEW p \in Seq(S), NEW q \in Seq(S), NEW T, NEW m \in Nat, From(p, T, m),
         From(q, T, m + Len(p))
  PROVE  From(p \o q, T, m)
<1> DEFINE n == Len(p)
           l == Len(q)
           t == p \o q
<1>1. /\ n \in Nat /\ l \in Nat /\ Len(t) = n + l
      /\ \A k \in 1 .. n + l : t[k] = IF k <= n THEN p[k] ELSE q[k - n]
  BY LenProperties, ConcatProperties
<1>2. \A k \in 1 .. n : p[k] \in T /\ p[k].i = m + k
  BY DEF From
<1>3. \A k \in 1 .. l : q[k] \in T /\ q[k].i = m + n + k
  BY DEF From
<1> HIDE DEF n, l, t
<1>4. ASSUME NEW k \in 1 .. n + l
      PROVE  t[k] \in T /\ t[k].i = m + k
  <2>1. CASE k <= n
    <3>1. k \in 1 .. n
      BY <1>1, <2>1
    <3> QED
      BY <1>1, <1>2, <2>1, <3>1
  <2>2. CASE k > n
    <3>1. k - n \in 1 .. l /\ m + n + (k - n) = m + k /\ ~(k <= n)
      BY <1>1, <2>2
    <3> QED
      BY <1>1, <1>3, <3>1
  <2> QED
    BY <1>1, <2>1, <2>2
<1> QED
  BY <1>1, <1>4 DEF From, t

\* Bytes that follow each other.
LEMMA LineAppend ==
  ASSUME NEW q \in Seq(Entries), NEW e \in Entries, NEW a, NEW b \in Nat, Line(q, a, b),
         e.first = b
  PROVE  Line(Append(q, e), a, b + e.n)
<1> DEFINE n == Len(q)
           t == Append(q, e)
<1>1. /\ n \in Nat /\ Len(t) = n + 1 /\ t[n + 1] = e /\ \A k \in 1 .. n : t[k] = q[k]
      /\ t # <<>> /\ (q # <<>> => n # 0) /\ (q = <<>> => n = 0)
  BY LenProperties, AppendProperties, EmptySeq
<1>2. /\ q = <<>> => a = b
      /\ q # <<>> => q[1].first = a /\ q[n].first + q[n].n = b
      /\ \A k \in 1 .. n - 1 : q[k + 1].first = q[k].first + q[k].n
  BY DEF Line
<1> HIDE DEF n, t
<1>3. t[1].first = a
  <2>1. CASE q = <<>>
    BY <1>1, <1>2, <2>1
  <2>2. CASE q # <<>>
    <3>1. 1 \in 1 .. n
      BY <1>1, <2>2
    <3> QED
      BY <1>1, <1>2, <2>2, <3>1
  <2> QED
    BY <2>1, <2>2
<1>4. ASSUME NEW k \in 1 .. n
      PROVE  t[k + 1].first = t[k].first + t[k].n
  <2>1. CASE k = n
    <3>1. q # <<>> /\ t[k] = q[n] /\ t[k + 1] = e
      BY <1>1, <2>1
    <3> QED
      BY <1>2, <3>1
  <2>2. CASE k # n
    <3>1. k \in 1 .. n - 1 /\ k + 1 \in 1 .. n
      BY <1>1, <2>2
    <3> QED
      BY <1>1, <1>2, <3>1
  <2> QED
    BY <2>1, <2>2
<1>5. n + 1 - 1 = n
  BY <1>1
<1> QED
  BY <1>1, <1>3, <1>4, <1>5 DEF Line, t

LEMMA LineTail ==
  ASSUME NEW q \in Seq(Entries), q # <<>>, NEW a, NEW b, Line(q, a, b)
  PROVE  Head(q).first = a /\ Line(Tail(q), a + Head(q).n, b)
<1> DEFINE n == Len(q)
           t == Tail(q)
<1>1. /\ n \in Nat \ {0} /\ Len(t) = n - 1 /\ t \in Seq(Entries)
      /\ Head(q) = q[1] /\ \A k \in 1 .. n - 1 : t[k] = q[k + 1]
      /\ (t = <<>> => n - 1 = 0)
  <2>1. n \in Nat \ {0}
    BY EmptySeq
  <2>2. t \in Seq(Entries) /\ Len(t) = n - 1 /\ \A k \in 1 .. Len(t) : t[k] = q[k + 1]
    BY HeadTailProperties
  <2>3. Len(<<>>) = 0 /\ Head(q) = q[1]
    BY EmptySeq
  <2> QED
    BY <2>1, <2>2, <2>3
<1>2. /\ q[1].first = a /\ q[n].first + q[n].n = b
      /\ \A k \in 1 .. n - 1 : q[k + 1].first = q[k].first + q[k].n
  BY DEF Line
<1> HIDE DEF n, t
<1>3. CASE n = 1
  <2>1. t = <<>>
    BY <1>1, <1>3
  <2>2. a + Head(q).n = b
    BY <1>1, <1>2, <1>3
  <2>3. \A k \in 1 .. n - 1 - 1 : FALSE
    BY <1>3
  <2> QED
    BY <1>1, <1>2, <2>1, <2>2, <2>3 DEF Line, t
<1>4. CASE n # 1
  <2>1. 1 \in 1 .. n - 1 /\ n - 1 \in 1 .. n - 1 /\ n - 1 + 1 = n
    BY <1>1, <1>4
  <2>2. t[1].first = a + Head(q).n
    BY <1>1, <1>2, <2>1
  <2>3. t[n - 1].first + t[n - 1].n = b
    BY <1>1, <1>2, <2>1
  <2>4. ASSUME NEW k \in 1 .. n - 1 - 1
        PROVE  t[k + 1].first = t[k].first + t[k].n
    <3>1. k \in 1 .. n - 1 /\ k + 1 \in 1 .. n - 1
      BY <1>1
    <3> QED
      BY <1>1, <1>2, <3>1
  <2>5. t # <<>>
    BY <1>1, <1>4, EmptySeq
  <2> QED
    BY <1>1, <1>2, <2>2, <2>3, <2>4, <2>5 DEF Line, t
<1> QED
  BY <1>3, <1>4
----------------------------------------------------------------------------
(* How a request is cut *)

LEMMA OffStep ==
  ASSUME NEW i \in Nat \ {0}
  PROVE  Off(i) \in Nat /\ Off(i + 1) = Off(i) + MaxBulk
<1>1. i - 1 \in Nat /\ MaxBulk \in Nat
  BY SizesAssumption
<1>2. (i - 1) * MaxBulk \in Nat
  BY <1>1
<1>3. (i + 1 - 1) * MaxBulk = (i - 1) * MaxBulk + MaxBulk
  BY <1>1
<1> QED
  BY <1>2, <1>3 DEF Off

LEMMA OffRises ==
  ASSUME NEW i \in Nat \ {0}, NEW j \in Nat \ {0}
  PROVE  /\ i <= j => Off(i) <= Off(j)
         /\ i < j => Off(i) + MaxBulk <= Off(j)
<1> DEFINE a == i - 1
<1>1. a \in Nat /\ MaxBulk \in Nat /\ a * MaxBulk \in Nat
  BY SizesAssumption
<1>2. ASSUME i <= j
      PROVE  Off(i) <= Off(j)
  <2> DEFINE d == j - i
  <2>1. d \in Nat /\ d * MaxBulk \in Nat /\ j - 1 = a + d
    BY <1>1, <1>2
  <2> HIDE DEF a, d
  <2>2. (a + d) * MaxBulk = a * MaxBulk + d * MaxBulk
    BY <1>1, <2>1
  <2>3. a * MaxBulk <= a * MaxBulk + d * MaxBulk
    BY <1>1, <2>1
  <2> QED
    BY <2>1, <2>2, <2>3 DEF Off, a
<1>3. ASSUME i < j
      PROVE  Off(i) + MaxBulk <= Off(j)
  <2> DEFINE d == j - i - 1
  <2>1. d \in Nat /\ d * MaxBulk \in Nat /\ j - 1 = (a + d) + 1
    BY <1>1, <1>3
  <2> HIDE DEF a, d
  <2>2. ((a + d) + 1) * MaxBulk = (a * MaxBulk + d * MaxBulk) + MaxBulk
    BY <1>1, <2>1
  <2>3. a * MaxBulk + MaxBulk <= (a * MaxBulk + d * MaxBulk) + MaxBulk
    BY <1>1, <2>1
  <2> QED
    BY <2>1, <2>2, <2>3 DEF Off, a
<1> QED
  BY <1>2, <1>3

\* A bulk URB begins where the one before it, a full one, ends.
LEMMA BulkCut ==
  ASSUME NEW r \in Request, continuation \in BOOLEAN
  PROVE  \A i \in 1 .. Len(BulkUrbs(r)) : BulkPart(i, Len(BulkUrbs(r)), BulkUrbs(r)[i])
<1> DEFINE pieces == IF r.length = 0 THEN 1 ELSE (r.length + MaxBulk - 1) \div MaxBulk
           left(i) == r.length - (i - 1) * MaxBulk
           urb(i) == [offset |-> (i - 1) * MaxBulk, length |-> Min2(MaxBulk, left(i)),
                      cont |-> i > 1 /\ continuation]
<1>1. r.length \in Nat /\ MaxBulk \in Nat \ {0}
  BY SizesAssumption DEF Request
<1>2. pieces \in Nat \ {0} /\ \A i \in 1 .. pieces : left(i) \in Nat
  <2>1. CASE r.length = 0
    BY <1>1, <2>1
  <2>2. CASE r.length # 0
    BY <1>1, <2>2, Pieces
  <2> QED
    BY <2>1, <2>2
<1>3. BulkUrbs(r) = [i \in 1 .. pieces |-> urb(i)]
  BY DEF BulkUrbs
<1> HIDE DEF pieces
<1>4. ASSUME NEW i \in 1 .. pieces
      PROVE  BulkPart(i, pieces, urb(i))
  <2> DEFINE o == (i - 1) * MaxBulk
             l == Min2(MaxBulk, left(i))
             on == i * MaxBulk
  <2>1. i - 1 \in Nat
    BY <1>2
  <2>2. o \in Nat /\ on = o + MaxBulk
    BY <1>1, <2>1
  <2>3. left(i) = r.length - o /\ left(i) \in Nat
    BY <1>2
  <2>4. i < pieces => r.length - on \in Nat
    <3>1. i < pieces => i + 1 \in 1 .. pieces /\ (i + 1) - 1 = i
      BY <1>2
    <3>2. i < pieces => r.length - ((i + 1) - 1) * MaxBulk \in Nat
      BY <1>2, <3>1
    <3> QED
      BY <3>1, <3>2
  <2>5. l <= MaxBulk
    <3> HIDE DEF left
    <3> QED
      BY <1>1, <2>3 DEF Min2
  <2>6. i < pieces => l = MaxBulk
    <3>1. i < pieces => left(i) >= MaxBulk
      <4> HIDE DEF o, left, on
      <4> QED
        BY <1>1, <2>2, <2>3, <2>4
    <3> HIDE DEF left
    <3> QED
      BY <1>1, <2>3, <3>1 DEF Min2
  <2>7. urb(i).offset = o /\ urb(i).length = l /\ urb(i).cont = (i > 1 /\ continuation)
    OBVIOUS
  <2>8. o = Off(i)
    BY DEF Off
  <2> HIDE DEF o, l, urb
  <2> QED
    BY <2>5, <2>6, <2>7, <2>8 DEF BulkPart
<1> HIDE DEF urb
<1>5. Len(BulkUrbs(r)) = pieces /\ \A i \in 1 .. pieces : BulkUrbs(r)[i] = urb(i)
  BY <1>2, <1>3
<1> QED
  BY <1>4, <1>5

\* An isochronous URB begins where the one before it ends, and the last one
\* ends with the packets.
LEMMA IsoCut ==
  ASSUME NEW r \in Request, \A k \in DOMAIN r.packets : r.packets[k] <= MaxIso
  PROVE  IsoPart(IsoUrbs(r), Len(r.packets))
<1> DEFINE lens == r.packets
           c == IsoCount(lens)
           fill == IsoFill(lens)
           urb(i) == [offset |-> fill[i].first, length |-> fill[i].count, cont |-> FALSE]
<1>1. lens \in Seq(Nat)
  BY DEF Request
<1>2. c \in Nat \ {0} /\ Len(lens) \in Nat /\ \A k \in 1 .. Len(lens) : lens[k] <= MaxIso
  BY <1>1, IsoCountType, LenProperties
<1>3. PICK start : Runs(lens, start)
  <2> HIDE DEF lens
  <2> QED
    BY <1>1, IsoFillRuns
<1>4. /\ start \in [1 .. c + 1 -> 1 .. Len(lens) + 1] /\ start[1] = 1
      /\ fill = [i \in 1 .. c |-> [first |-> start[i], count |-> start[i + 1] - start[i]]]
      /\ start[c + 1] = Len(lens) + 1
  <2> HIDE DEF lens
  <2> QED
    BY <1>2, <1>3 DEF Runs
<1>5. IsoUrbs(r) = [i \in 1 .. c |-> urb(i)]
  <2>1. DOMAIN fill = 1 .. c
    BY <1>4
  <2> QED
    BY <2>1 DEF IsoUrbs
<1> HIDE DEF c, lens
<1>6. \A i \in 1 .. c : fill[i].first = start[i] /\ fill[i].count = start[i + 1] - start[i]
  BY <1>4
<1> HIDE DEF fill
<1>7. \A i \in 1 .. c : urb(i).offset = start[i] /\ urb(i).length = start[i + 1] - start[i]
  BY <1>6
<1> HIDE DEF urb
<1>8. Len(IsoUrbs(r)) = c /\ \A i \in 1 .. c : IsoUrbs(r)[i] = urb(i)
  BY <1>2, <1>5
<1>9. ASSUME NEW i \in 1 .. c
      PROVE  urb(i).offset + urb(i).length = IF i = c THEN Len(lens) + 1 ELSE urb(i + 1).offset
  <2>1. i \in 1 .. c + 1 /\ i + 1 \in 1 .. c + 1 /\ (i # c => i + 1 \in 1 .. c)
    BY <1>2
  <2>2. start[i] \in Int /\ start[i + 1] \in Int
    BY <1>2, <1>4, <2>1
  <2>3. urb(i).offset + urb(i).length = start[i + 1]
    BY <1>7, <2>2
  <2> QED
    BY <1>4, <1>7, <2>1, <2>3
<1>10. 1 \in 1 .. c /\ \A i \in 1 .. c : i # c => i + 1 \in 1 .. c
  BY <1>2
<1> QED
  BY <1>4, <1>7, <1>8, <1>9, <1>10 DEF IsoPart, lens
----------------------------------------------------------------------------
(* What keeps the data in place *)

\* A step that changes nothing the invariant is about.
LEMMA SameData ==
  ASSUME TypeInv, DataInv,
         UNCHANGED <<request, continuation, alloc, submits, urbs, iso_packet_offset,
                     transferred, buffer, results, pending, finished, delivered>>,
         Hand' = Hand, Hand' = 1 => cur' = cur, hpc = "bulk" <=> hpc' = "bulk",
         hpc' = "callback" => hpc = "callback" /\ status' = status,
         reap_action' = "NORMAL" => reap_action = "NORMAL" /\ num_retired' = num_retired,
         reap_action' = "NORMAL" /\ Flies => Calm',
         Flies => Issued \in Nat /\ Issued' \in Nat /\ Issued <= Issued',
         Flies => (Held' = Issued' => Held = Issued)
  PROVE  DataInv'
<1>1. ShapeInv'
  BY DEF DataInv, ShapeInv, BulkShape, BulkPart, IsoShape, IsoPart, Flies, num_urbs
<1>2. Ours' = Ours /\ OursDone' = OursDone /\ Rising' = Rising /\ Flagged' = Flagged
  BY DEF Ours, OursDone, Rising, Flagged, Flies
<1>3. OrderInv'
  BY <1>2 DEF DataInv, OrderInv, Sorted
<1>4. NormalInv'
  <2> SUFFICES ASSUME Flies', reap_action' = "NORMAL"
               PROVE  Calm' /\ (StaleFirst' \/ InLine') /\ (Hand' = 1 => cur'.i = num_retired' + 1)
    BY DEF NormalInv
  <2>1. Flies /\ reap_action = "NORMAL" /\ num_retired' = num_retired /\ Calm'
    BY DEF Flies
  <2>2. (StaleFirst \/ InLine) /\ (Hand = 1 => cur.i = num_retired + 1)
    BY <2>1 DEF DataInv, NormalInv
  <2>3. (StaleFirst => StaleFirst') /\ (InLine => InLine')
    BY <1>2, <2>1 DEF StaleFirst, InLine, From
  <2> QED
    BY <2>1, <2>2, <2>3
<1>5. Got' = Got
  BY DEF Got, Hand
<1>6. BytesInv'
  <2> SUFFICES ASSUME Reads'
               PROVE  /\ delivered' <= Off(Issued' + 1)
                      /\ pending' \in Seq(Later') /\ finished' \in Seq(Placed')
                      /\ Chain(Kept(finished, Full))'
                      /\ reap_action' = "NORMAL" => transferred' = Off(num_retired' + 1)
    BY DEF BytesInv
  <2>1. Reads /\ Flies
    BY DEF Reads, Flies
  <2>2. /\ delivered <= Off(Issued + 1) /\ pending \in Seq(Later) /\ finished \in Seq(Placed)
        /\ Chain(Kept(finished, Full))
        /\ reap_action = "NORMAL" => transferred = Off(num_retired + 1)
    BY <2>1 DEF DataInv, BytesInv
  <2>3. Later' = Later /\ Placed' = Placed /\ Full' = Full
    BY <1>2 DEF Later, Placed, Full
  <2>4. Chain(Kept(finished, Full))'
    <3> DEFINE k == Kept(finished, Full)
    <3>1. k' = k /\ delivered' = delivered
      BY <2>3
    <3>2. k # <<>> \/ Held = Issued => Line(k, Got, delivered)
      BY <2>2 DEF Chain
    <3>3. Line(k, Got, delivered)' <=> Line(k, Got, delivered)
      BY <1>5, <3>1 DEF Line
    <3> HIDE DEF k
    <3>4. k' # <<>> \/ Held' = Issued' => Line(k, Got, delivered)'
      BY <2>1, <3>1, <3>2, <3>3
    <3> QED
      BY <3>4 DEF Chain, k
  <2>5. delivered' <= Off(Issued' + 1)
    <3> DEFINE a == Issued
               b == Issued'
    <3>1. a \in Nat /\ b \in Nat /\ a <= b
      BY <2>1
    <3> HIDE DEF a, b
    <3>2. a + 1 \in Nat \ {0} /\ b + 1 \in Nat \ {0} /\ a + 1 <= b + 1
      BY <3>1
    <3>3. Off(a + 1) <= Off(b + 1) /\ Off(a + 1) \in Nat /\ Off(b + 1) \in Nat
      BY <3>2, OffRises, OffStep
    <3>4. delivered <= Off(a + 1)
      BY <2>2 DEF a
    <3>6. delivered \in Nat
      BY DEF TypeInv, KernelType
    <3>5. delivered' <= Off(b + 1)
      BY <3>3, <3>4, <3>6
    <3> QED
      BY <3>5 DEF b
  <2> QED
    BY <2>2, <2>3, <2>4, <2>5
<1>7. BufferInv'
  <2>1. hpc' = "bulk" => cur' = cur /\ hpc = "bulk"
    BY DEF Hand
  <2> QED
    BY <2>1 DEF DataInv, BufferInv, Reads, Flies, InPlace, Off
<1>8. DoneInv'
  BY <1>2 DEF DataInv, DoneInv, Ends, InPlace
<1>9. IsoInv'
  <2>1. Fine' = Fine
    BY <1>2 DEF Fine
  <2> QED
    BY <2>1 DEF DataInv, IsoInv, Flies, num_urbs, Filled
<1>10. IsoDone'
  BY DEF DataInv, IsoDone, IsoInPlace
<1> QED
  BY <1>1, <1>3, <1>4, <1>6, <1>7, <1>8, <1>9, <1>10 DEF DataInv

\* Without a block only the completed transfer matters.
LEMMA GroundedData ==
  ASSUME DataInv, alloc' = 0, UNCHANGED <<submits, pending>>, DoneInv', IsoDone'
  PROVE  DataInv'
<1>1. ShapeInv' /\ NormalInv' /\ BytesInv' /\ BufferInv' /\ IsoInv'
  <2>1. ~Flies'
    BY DEF Flies
  <2> QED
    BY <2>1 DEF ShapeInv, BulkShape, IsoShape, NormalInv, BytesInv, Reads, BufferInv, IsoInv
<1>2. OrderInv'
  <2>1. Rising' = Rising /\ Flagged' = Queued
    BY DEF Rising, Flagged, Ours, Flies
  <2>2. pending \in Seq(Queued)
    <3>1. pending \in Seq(Flagged) /\ Flagged \subseteq Queued
      BY DEF DataInv, OrderInv, Flagged
    <3> QED
      BY <3>1, SeqMonotonic
  <2> QED
    BY <2>1, <2>2 DEF DataInv, OrderInv, Sorted
<1> QED
  BY <1>1, <1>2 DEF DataInv

\* The URBs behind the first one that are still queued get later bytes.
LEMMA LaterRest ==
  ASSUME TypeInv, Reads, OrderInv, pending \in Seq(Later), pending # <<>>, UNCHANGED submits,
         FlightInv, BulkShape, NEW n \in Nat, n <= Head(pending).len,
         delivered' = IF Head(pending) \in Ours THEN delivered + n ELSE delivered
  PROVE  /\ Tail(pending) \in Seq(Later')
         /\ Head(pending) \in Ours => /\ delivered <= Off(Head(pending).i)
                                      /\ Head(pending).i \in 1 .. Issued
                                      /\ delivered + n <= Off(Issued + 1)
<1> DEFINE p == Head(pending)
           L == Behind(Queued, p, Rising)
<1>1. pending \in Seq(Queued) /\ p \in Queued /\ p \in Later /\ p \in OfQueue
  BY HeadTailProperties DEF TypeInv, KernelType, FlightInv, QueueInv
<1>2. Tail(pending) \in Seq(Later) /\ Tail(pending) \in Seq(L) /\ Tail(pending) \in Seq(OfQueue)
  <2>1. Sorted(pending, Rising)
    BY DEF OrderInv
  <2>2. Tail(pending) \in Seq(L)
    BY <1>1, <2>1, SortedTail
  <2> QED
    BY <2>2, HeadTailProperties DEF FlightInv, QueueInv
<1>3. Ours' = Ours /\ delivered \in Nat
  BY DEF Ours, TypeInv, KernelType
<1>4. ASSUME p \notin Ours
      PROVE  Later' = Later
  BY <1>3, <1>4 DEF Later
<1> HIDE DEF p
<1>5. ASSUME p \in Ours
      PROVE  /\ delivered <= Off(p.i) /\ p.i \in 1 .. Issued /\ Issued \in Nat
             /\ delivered + n <= Off(p.i) + MaxBulk /\ Off(p.i) \in Nat
             /\ delivered + n <= Off(Issued + 1)
  <2>1. Flies /\ p.alloc = submits
    BY <1>5 DEF Ours, Reads
  <2>2. p.i \in 1 .. Issued /\ p.len = urbs[p.i].length
    BY <1>1, <2>1 DEF OfQueue
  <2>3. Issued \in 0 .. num_urbs /\ num_urbs \in Nat
    BY IssuedType DEF IssuedOK
  <2> HIDE DEF Issued
  <2>4. p.i \in 1 .. num_urbs /\ p.i \in Nat \ {0} /\ Issued + 1 \in Nat \ {0} /\ p.i + 1 <= Issued + 1
        /\ p.i < Issued + 1
    BY <2>2, <2>3
  <2>5. urbs[p.i].length <= MaxBulk /\ urbs[p.i].length \in Nat /\ MaxBulk \in Nat
    <3>1. BulkPart(p.i, num_urbs, urbs[p.i])
      BY <2>1, <2>4 DEF BulkShape, Reads
    <3>2. urbs[p.i] \in Urb
      BY <2>4, ElementOfSeq DEF TypeInv, RequestType, num_urbs
    <3> QED
      BY <3>1, <3>2, SizesAssumption DEF BulkPart, Urb
  <2>6. delivered <= Off(p.i)
    BY <1>1, <1>5 DEF Later
  <2>7. Off(p.i) \in Nat /\ Off(p.i) + MaxBulk <= Off(Issued + 1) /\ Off(Issued + 1) \in Nat
    BY <2>4, OffRises, OffStep
  <2>8. n <= urbs[p.i].length
    BY <2>2 DEF p
  <2> QED
    BY <1>3, <2>2, <2>3, <2>5, <2>6, <2>7, <2>8, SMTT(30)
<1>6. ASSUME p \in Ours
      PROVE  Tail(pending) \in Seq(Later')
  <2>1. ASSUME NEW q \in Queued, q \in L, q \in OfQueue
        PROVE  q \in Later'
    <3>1. CASE q \in Ours
      <4>1. p.i < q.i
        BY <1>1, <1>6, <2>1, <3>1 DEF Behind, Rising
      <4>2. p.i \in Nat \ {0} /\ q.i \in Nat \ {0}
        <5>1. p.i \in Nat /\ q.i \in Nat /\ p.i \in 1 .. Issued
          BY <1>1, <1>5, <1>6 DEF Queued
        <5> HIDE DEF Issued
        <5> QED
          BY <4>1, <5>1
      <4>3. Off(p.i) + MaxBulk <= Off(q.i) /\ Off(q.i) \in Nat
        BY <4>1, <4>2, OffRises, OffStep
      <4>4. delivered' = delivered + n
        BY <1>6 DEF p
      <4>5. delivered' <= Off(q.i)
        <5>1. delivered + n <= Off(p.i) + MaxBulk /\ Off(p.i) \in Nat /\ MaxBulk \in Nat
          BY <1>5, <1>6, SizesAssumption
        <5> QED
          BY <1>3, <4>3, <4>4, <5>1
      <4> QED
        BY <4>5 DEF Later
    <3>2. CASE q \notin Ours
      BY <1>3, <3>2 DEF Later
    <3> QED
      BY <3>1, <3>2
  <2>2. Tail(pending) \in Seq(L \cap OfQueue)
    <3>1. \A k \in 1 .. Len(Tail(pending)) : Tail(pending)[k] \in OfQueue
      BY <1>2, ElementOfSeq
    <3> HIDE DEF L
    <3> QED
      BY <1>2, <3>1, AllIn
  <2>3. L \cap OfQueue \subseteq Later'
    BY <2>1 DEF OfQueue
  <2> QED
    BY <2>2, <2>3, SeqMonotonic
<1> QED
  BY <1>2, <1>4, <1>5, <1>6 DEF p
\* A URB finishes, and others behind it that have no data.
Empty == {e \in Entries : e.n = 0}
LEMMA BytesStep ==
  ASSUME TypeInv, FlightInv, BytesInv, connected, Reads,
         UNCHANGED <<request, alloc, submits, transferred>>, Got' = Got, Issued' = Issued,
         reap_action' = "NORMAL" => reap_action = "NORMAL" /\ num_retired' = num_retired,
         NEW d \in Entries, d.first = delivered, NEW back \in Seq(Empty),
         finished' = Append(finished, d) \o back,
         delivered' = IF d \in OursDone THEN delivered + d.n ELSE delivered,
         d \in OursDone /\ d.n > 0 => delivered <= Off(d.i) /\ delivered' <= Off(Issued + 1),
         pending' \in Seq(Later')
  PROVE  BytesInv'
<1> DEFINE f == Append(finished, d)
           k == Kept(finished, Full)
           kn == Kept(f \o back, Full)
<1>1. /\ delivered <= Off(Issued + 1) /\ finished \in Seq(Placed) /\ Chain(k)
      /\ reap_action = "NORMAL" => transferred = Off(num_retired + 1)
  BY DEF BytesInv
<1>2. /\ finished \in Seq(Entries) /\ delivered \in Nat /\ d.n \in Nat
      /\ Placed' = Placed /\ Full' = Full /\ Empty \subseteq Entries /\ Empty \subseteq Placed
      /\ Placed \subseteq Entries
  <2>1. d.n \in Nat
    BY DEF Entries
  <2>2. Empty \subseteq Placed
    <3>1. \A e \in Empty : ~(e.n > 0)
      BY DEF Empty
    <3> QED
      BY <3>1 DEF Empty, Placed
  <2> QED
    BY <2>1, <2>2 DEF TypeInv, KernelType, Placed, Full, OursDone, Empty
<1>3. finished' \in Seq(Placed)
  <2>1. d \in Placed
    BY DEF Placed
  <2>2. f \in Seq(Placed)
    BY <1>1, <2>1, AppendProperties
  <2>3. back \in Seq(Placed)
    BY <1>2, SeqMonotonic
  <2> HIDE DEF f
  <2>4. f \o back \in Seq(Placed)
    BY <2>2, <2>3, ConcatProperties
  <2> QED
    BY <2>4 DEF f
<1>4. kn = IF d \in Full THEN Append(k, d) ELSE k
  <2>1. f \in Seq(Entries) /\ Kept(f, Full) = IF d \in Full THEN Append(k, d) ELSE k
    <3>1. Kept(f, Full) = IF d \in Full THEN Append(k, d) ELSE k
      BY <1>2, KeptAppend, SMTT(60)
    <3>2. f \in Seq(Entries)
      BY <1>2, AppendProperties
    <3> QED
      BY <3>1, <3>2
  <2> HIDE DEF f
  <2>2. Kept(back, Full) = <<>>
    <3>1. Empty \cap Full = {}
      BY DEF Empty, Full
    <3> QED
      BY <3>1, KeptNone
  <2>3. back \in Seq(Entries)
    BY <1>2, SeqMonotonic
  <2>4. Joined(f, back, Full)
    BY <2>1, <2>3, KeptCat
  <2>5. Kept(f \o back, Full) = Kept(f, Full) \o <<>>
    BY <2>2, <2>4 DEF Joined
  <2>6. Kept(f, Full) \o <<>> = Kept(f, Full)
    <3> DEFINE z == Kept(f, Full)
    <3>1. z \in Seq(Entries)
      BY <2>1, KeptIn
    <3> HIDE DEF z
    <3>2. z \o <<>> = z
      BY <3>1, ConcatEmptySeq
    <3> QED
      BY <3>2 DEF z
  <2> HIDE DEF k
  <2> QED
    BY <2>1, <2>5, <2>6
<1>5. Line(k, Got, delivered)
  <2>1. Held = Issued
    BY DEF FlightInv, CountInv, Reads
  <2> HIDE DEF k, Held, Issued
  <2> QED
    BY <1>1, <2>1 DEF Chain
<1>6. Line(kn, Got, delivered')
  <2>1. k \in Seq(Entries)
    BY <1>2, KeptIn
  <2> HIDE DEF k
  <2>2. CASE d \in Full
    <3>1. Line(Append(k, d), Got, delivered + d.n)
      BY <1>2, <1>5, <2>1, LineAppend
    <3>2. delivered' = delivered + d.n
      BY <2>2 DEF Full
    <3> QED
      BY <1>4, <2>2, <3>1, <3>2
  <2>3. CASE d \notin Full
    <3>1. d \in OursDone => d.n = 0
      BY <1>2, <2>3 DEF Full
    <3>2. delivered' = delivered
      BY <1>2, <3>1
    <3> QED
      BY <1>4, <1>5, <2>3, <3>2
  <2> QED
    BY <2>2, <2>3
<1>7. Chain(Kept(finished, Full))'
  <2> DEFINE v == Kept(finished, Full)
  <2>1. v' = kn
    BY <1>2
  <2> HIDE DEF v, kn
  <2>2. Line(v, Got, delivered)'
    BY <1>6, <2>1 DEF Line
  <2> QED
    BY <2>2 DEF Chain, v
<1>8. delivered' <= Off(Issued' + 1)
  <2>1. (d \in OursDone /\ d.n > 0) \/ delivered' = delivered
    BY <1>2
  <2> HIDE DEF Issued
  <2> QED
    BY <1>1, <2>1
<1> HIDE DEF k, f
<1>9. reap_action' = "NORMAL" => transferred' = Off(num_retired' + 1)
  BY <1>1
<1> HIDE DEF kn
<1> QED
  BY <1>2, <1>3, <1>7, <1>8, <1>9 DEF BytesInv

\* A URB is discarded when the transfer no longer counts on their order.
LEMMA DiscardData ==
  ASSUME TypeInv, TypeInv', FlightInv, FlightInv', DataInv, NEW i \in Nat, Discard(i),
         UNCHANGED <<request, continuation, alloc, submits, urbs, iso_packet_offset,
                     transferred, buffer, results, num_retired, reap_action, status>>,
         Hand' = Hand, Hand' = 1 => cur' = cur, hpc = "bulk" <=> hpc' = "bulk",
         hpc' = "callback" => hpc = "callback",
         Flies => reap_action # "NORMAL", Issued' = Issued
  PROVE  DataInv'
<1> DEFINE Is(p) == p.alloc = alloc /\ p.i = i
           found == connected /\ Flies /\ \E k \in DOMAIN pending : Is(pending[k])
           other == {p \in Queued : ~Is(p)}
           d(n) == Done([alloc |-> alloc, i |-> i], "noent", n)
<1>0. Ours' = Ours /\ OursDone' = OursDone /\ Flies' = Flies
  BY DEF Ours, OursDone, Flies
<1>1. CASE ~found
  <2>1. UNCHANGED kernel
    BY <1>1 DEF Discard, Flies
  <2>2. Held' = Held
    BY <1>0, <2>1 DEF Held, kernel
  <2>3. Issued \in Nat
    BY IssuedType DEF IssuedOK
  <2>4. Flies => Issued \in Nat /\ Issued' \in Nat /\ Issued <= Issued'
    <3> HIDE DEF Issued
    <3> QED
      BY <2>3
  <2>5. UNCHANGED <<pending, finished, delivered>>
    BY <2>1 DEF kernel
  <2> HIDE DEF Held, Issued, Hand
  <2> QED
    BY <2>2, <2>4, <2>5, SameData
<1>2. CASE found
  <2>1. PICK n \in 0 .. (IF Is(Head(pending)) /\ request.type = "bulk"
                         THEN Head(pending).len ELSE 0) :
          finished' = Append(finished, d(n)) /\ delivered' = delivered + n
    BY <1>2 DEF Discard, Flies
  <2>2. pending' = Kept(pending, other) /\ UNCHANGED <<connected, halted>>
    BY <1>2 DEF Discard, Flies
  <2>3. /\ Flies /\ connected /\ alloc = submits /\ reap_action # "NORMAL" /\ pending # <<>>
        /\ pending \in Seq(Queued)
    <3>1. pending \in Seq(Queued)
      BY DEF TypeInv, KernelType
    <3>2. DOMAIN <<>> = {}
      OBVIOUS
    <3> QED
      BY <1>2, <3>1, <3>2 DEF Flies, TypeInv, RequestType
  <2>11. n \in Nat /\ Head(pending) \in Queued
    <3>1. Head(pending) \in Queued
      BY <2>3, HeadTailProperties
    <3>2. Head(pending).len \in Nat
      BY <3>1 DEF Queued
    <3> QED
      BY <2>1, <3>1, <3>2
  <2>4. Rising' = Rising /\ Flagged' = Flagged
    BY <1>0 DEF Rising, Flagged, Flies
  <2>5. OrderInv'
    <3>1. Sorted(pending, Rising) /\ pending \in Seq(Flagged)
      BY DEF DataInv, OrderInv
    <3> HIDE DEF other
    <3>2. Sorted(pending', Rising)
      BY <2>2, <2>3, <3>1, KeptSorted
    <3>3. pending' \in Seq(Flagged)
      BY <2>2, <3>1, KeptIn
    <3> QED
      BY <2>4, <3>2, <3>3 DEF OrderInv, Sorted
  <2>6. ShapeInv'
    BY DEF DataInv, ShapeInv, BulkShape, BulkPart, IsoShape, IsoPart, Flies, num_urbs
  <2>7. NormalInv' /\ IsoInv'
    BY <2>3 DEF NormalInv, IsoInv
  <2>8. BufferInv'
    <3>1. hpc' = "bulk" => cur' = cur /\ hpc = "bulk"
      BY DEF Hand
    <3> QED
      BY <3>1 DEF DataInv, BufferInv, Reads, Flies, InPlace, Off
  <2>9. DoneInv' /\ IsoDone'
    <3>1. hpc' # "callback"
      BY <1>0, <2>3 DEF FlightInv, OwnerInv
    <3> QED
      BY <3>1 DEF DoneInv, Ends, IsoDone, IsoInPlace
  <2>10. BytesInv'
    <3> SUFFICES ASSUME Reads PROVE BytesInv'
      BY DEF BytesInv, Reads, Flies
    <3>1. d(n) \in OursDone /\ d(n) \in Entries /\ d(n).first = delivered /\ d(n).n = n /\ d(n).i = i
      <4>1. d(n) = [alloc |-> alloc, i |-> i, status |-> "noent", n |-> n, first |-> delivered]
        BY DEF Done
      <4>2. alloc \in Nat /\ delivered \in Nat /\ n \in Nat
        BY <2>11 DEF TypeInv, RequestType, KernelType
      <4>3. d(n) \in Entries
        BY <4>1, <4>2 DEF Entries
      <4> QED
        BY <2>3, <4>1, <4>3 DEF OursDone
    <3> HIDE DEF d
    <3>2. /\ pending \in Seq(Later) /\ OrderInv /\ BytesInv /\ BulkShape /\ n \in Nat
          /\ delivered \in Nat
      BY <2>11 DEF DataInv, ShapeInv, BytesInv, TypeInv, KernelType
    <3>3. CASE n = 0
      <4>1. delivered' = delivered
        BY <2>1, <3>2, <3>3
      <4>2. Later' = Later
        BY <1>0, <4>1 DEF Later
      <4>3. pending' \in Seq(Later')
        <5> HIDE DEF other
        <5> QED
          BY <2>2, <3>2, <4>2, KeptIn
      <4>4. d(n).n = 0
        BY <3>1, <3>3
      <4> QED
        <5>1. <<>> \in Seq(Empty) /\ Append(finished, d(n)) \o <<>> = Append(finished, d(n))
          <6>1. Append(finished, d(n)) \in Seq(Entries)
            BY <3>1, AppendProperties DEF TypeInv, KernelType
          <6> QED
            BY <6>1, ConcatEmptySeq
        <5>2. Got' = Got
          BY DEF Got, Hand
        <5>3. PICK e \in Entries : e = d(n)
          BY <3>1
        <5>4. PICK back \in Seq(Empty) : back = <<>>
          BY <5>1
        <5>5. finished' = Append(finished, e) \o back
          BY <2>1, <5>1, <5>3, <5>4
        <5>6. e.first = delivered /\ ~(e.n > 0)
          <6>1. e.first = delivered /\ e.n = 0
            BY <3>1, <4>4, <5>3
          <6> HIDE DEF d
          <6> QED
            BY <6>1
        <5>7. delivered' = IF e \in OursDone THEN delivered + e.n ELSE delivered
          BY <2>1, <3>1, <5>3
        <5> HIDE DEF Got, Issued
        <5> QED
          BY <2>3, <3>2, <4>3, <5>2, <5>5, <5>6, <5>7, BytesStep
    <3>4. CASE n # 0
      <4>1. Is(Head(pending)) /\ n <= Head(pending).len
        BY <2>1, <3>2, <3>4
      <4>2. Head(pending) \in Ours /\ Head(pending).i = i
        BY <2>3, <2>11, <4>1 DEF Ours
      <4>3. /\ Tail(pending) \in Seq(Later') /\ delivered <= Off(i)
            /\ delivered + n <= Off(Issued + 1)
        <5>1. delivered' = IF Head(pending) \in Ours THEN delivered + n ELSE delivered
          BY <2>1, <4>2
        <5> HIDE DEF Issued
        <5> QED
          BY <2>3, <3>2, <4>1, <4>2, <5>1, LaterRest
      <4>4. pending' \in Seq(Later')
        <5>1. Head(pending) \notin other
          BY <4>1
        <5> HIDE DEF other
        <5>2. Kept(pending, other) = Kept(Tail(pending), other)
          BY <2>3, <5>1, KeptHead
        <5>3. Kept(Tail(pending), other) \in Seq(Later')
          BY <4>3, KeptIn
        <5> QED
          BY <2>2, <5>2, <5>3
      <4> QED
        <5>1. <<>> \in Seq(Empty) /\ Append(finished, d(n)) \o <<>> = Append(finished, d(n))
          <6>1. Append(finished, d(n)) \in Seq(Entries)
            BY <3>1, AppendProperties DEF TypeInv, KernelType
          <6> QED
            BY <6>1, ConcatEmptySeq
        <5>2. Got' = Got
          BY DEF Got, Hand
        <5>3. PICK e \in Entries : e = d(n)
          BY <3>1
        <5>4. PICK back \in Seq(Empty) : back = <<>>
          BY <5>1
        <5>5. finished' = Append(finished, e) \o back
          BY <2>1, <5>1, <5>3, <5>4
        <5>6. e.first = delivered /\ delivered <= Off(e.i) /\ delivered' <= Off(Issued + 1)
          BY <2>1, <3>1, <4>3, <5>3
        <5>7. delivered' = IF e \in OursDone THEN delivered + e.n ELSE delivered
          BY <2>1, <3>1, <5>3
        <5> HIDE DEF Got, Issued
        <5> QED
          BY <2>3, <3>2, <4>4, <5>2, <5>5, <5>6, <5>7, BytesStep
    <3> QED
      BY <3>3, <3>4
  <2> QED
    BY <2>5, <2>6, <2>7, <2>8, <2>9, <2>10 DEF DataInv
<1> QED
  BY <1>1, <1>2

\* The head of two lists one after the other.
LEMMA CatHead ==
  ASSUME NEW S, NEW q \in Seq(S), NEW d \in S, NEW b \in Seq(S), NEW t, t = Append(q, d) \o b
  PROVE  t # <<>> /\ Head(t) = IF q = <<>> THEN d ELSE Head(q)
<1> DEFINE f == Append(q, d)
<1>1. /\ f \in Seq(S) /\ Len(f) = Len(q) + 1 /\ Len(q) \in Nat /\ f[Len(q) + 1] = d
      /\ \A k \in 1 .. Len(q) : f[k] = q[k]
  BY AppendProperties, LenProperties
<1> HIDE DEF f
<1>2. /\ Len(f \o b) = Len(f) + Len(b) /\ Len(b) \in Nat
      /\ \A k \in 1 .. Len(f) + Len(b) : (f \o b)[k] = IF k <= Len(f) THEN f[k] ELSE b[k - Len(f)]
  BY <1>1, ConcatProperties, LenProperties
<1>3. Len(t) = Len(f) + Len(b) /\ t = f \o b
  BY <1>2 DEF f
<1>4. t # <<>> /\ t \in Seq(S)
  <2>1. t \in Seq(S)
    BY <1>1, <1>3, ConcatProperties
  <2>2. Len(t) # 0
    BY <1>1, <1>2, <1>3
  <2> QED
    BY <2>1, <2>2, EmptySeq
<1>5. Head(t) = t[1] /\ t[1] = f[1]
  <2>1. 1 \in 1 .. Len(f) + Len(b) /\ 1 <= Len(f)
    BY <1>1, <1>2
  <2>2. t[1] = f[1]
    BY <1>2, <1>3, <2>1
  <2> QED
    BY <1>4, <2>2, HeadTailProperties
<1>6. CASE q = <<>>
  <2>1. Len(q) = 0
    BY <1>6
  <2>2. f[1] = d
    BY <1>1, <2>1
  <2> QED
    BY <1>4, <1>5, <1>6, <2>2
<1>7. CASE q # <<>>
  <2>1. Len(q) # 0 /\ Head(q) = q[1]
    BY <1>7, EmptySeq, HeadTailProperties
  <2>2. 1 \in 1 .. Len(q)
    BY <1>1, <2>1
  <2> QED
    BY <1>1, <1>4, <1>5, <1>7, <2>1, <2>2
<1> QED
  BY <1>6, <1>7

\* The URBs swept off keep their places and bring no data.
LEMMA SweptData ==
  ASSUME TypeInv, NEW swept \in Seq(Queued), NEW back,
         back = [k \in DOMAIN swept |-> Done(swept[k], "unlinked", 0)]
  PROVE  /\ back \in Seq(Empty) /\ Len(back) = Len(swept)
         /\ \A k \in 1 .. Len(swept) : /\ back[k].i = swept[k].i
                                       /\ swept[k] \in Ours => back[k] \in OursDone
<1>1. DOMAIN swept = 1 .. Len(swept) /\ Len(swept) \in Nat
  BY LenProperties
<1>2. ASSUME NEW k \in 1 .. Len(swept)
      PROVE  /\ Done(swept[k], "unlinked", 0) \in Empty
             /\ Done(swept[k], "unlinked", 0).i = swept[k].i
             /\ swept[k] \in Ours => Done(swept[k], "unlinked", 0) \in OursDone
  <2>1. PICK p \in Queued : p = swept[k]
    BY ElementOfSeq
  <2> DEFINE d == Done(p, "unlinked", 0)
  <2>2. d = [alloc |-> p.alloc, i |-> p.i, status |-> "unlinked", n |-> 0, first |-> delivered]
    BY DEF Done
  <2>3. p.alloc \in Nat /\ p.i \in Nat /\ delivered \in Nat
    BY DEF Queued, TypeInv, KernelType
  <2>4. d \in Entries /\ d.n = 0 /\ d.i = p.i /\ d.alloc = p.alloc
    BY <2>2, <2>3 DEF Entries
  <2> HIDE DEF d
  <2>5. d \in Empty /\ d.i = p.i /\ (p \in Ours => d \in OursDone)
    BY <2>4 DEF Empty, Ours, OursDone
  <2> QED
    BY <2>1, <2>5 DEF d
<1>3. \A k \in 1 .. Len(swept) : back[k] = Done(swept[k], "unlinked", 0)
  BY <1>1
<1>4. back \in Seq(Empty) /\ Len(back) = Len(swept)
  <2> DEFINE n == Len(swept)
             g(k) == Done(swept[k], "unlinked", 0)
  <2>1. back = [k \in 1 .. n |-> g(k)] /\ n \in Nat
    BY <1>1
  <2>2. \A k \in 1 .. n : g(k) \in Empty
    BY <1>2
  <2> HIDE DEF n, g
  <2>3. back \in Seq(Empty) /\ Len(back) = n
    BY <2>1, <2>2
  <2> QED
    BY <2>3 DEF n
<1> QED
  BY <1>2, <1>3, <1>4

\* What a completion or a discard leaves alone.
LEMMA KernelKeeps ==
  ASSUME DataInv,
         UNCHANGED <<request, continuation, alloc, submits, urbs, iso_packet_offset, transferred,
                     buffer, results, num_retired, reap_action, status, hpc, cur>>
  PROVE  /\ ShapeInv' /\ BufferInv' /\ IsoDone'
         /\ Got' = Got /\ Hand' = Hand /\ Ours' = Ours /\ OursDone' = OursDone
         /\ Rising' = Rising /\ Flagged' = Flagged /\ Fine' = Fine
<1>1. ShapeInv'
  BY DEF DataInv, ShapeInv, BulkShape, BulkPart, IsoShape, IsoPart, Flies, num_urbs
<1>2. BufferInv' /\ IsoDone'
  BY DEF DataInv, BufferInv, Reads, Flies, InPlace, Off, IsoDone, IsoInPlace
<1>3. Got' = Got /\ Hand' = Hand
  BY DEF Got, Hand
<1>4. Ours' = Ours /\ OursDone' = OursDone
  BY DEF Ours, OursDone
<1>5. Rising' = Rising /\ Flagged' = Flagged /\ Fine' = Fine
  BY <1>4 DEF Rising, Flagged, Fine, Flies
<1> QED
  BY <1>1, <1>2, <1>3, <1>4, <1>5

\* The URB at the head completes, and in the normal course the kernel sweeps
\* off all those behind it or none.
LEMMA CompleteInLine ==
  ASSUME TypeInv, FlightInv, BulkShape, OrderInv, Flies, pending # <<>>, NEW m \in Nat,
         From(finished, OursDone, m), From(pending, Ours, m + Len(finished)),
         NEW d \in Entries, d.i = Head(pending).i, Head(pending) \in Ours => d \in OursDone,
         NEW stop, stop => continuation /\ request.type = "bulk",
         NEW goes, goes = {p \in Queued : stop /\ p.cont},
         NEW back, back = [k \in DOMAIN Kept(Tail(pending), goes) |->
                             Done(Kept(Tail(pending), goes)[k], "unlinked", 0)],
         NEW f, f = Append(finished, d) \o back,
         NEW q, q = Kept(Tail(pending), Queued \ goes)
  PROVE  From(f, OursDone, m) /\ From(q, Ours, m + Len(f))
<1> DEFINE n == Len(finished)
           a == Append(finished, d)
           rest == Tail(pending)
<1>1. /\ finished \in Seq(Entries) /\ n \in Nat /\ pending \in Seq(Queued)
      /\ pending \in Seq(OfQueue) /\ rest \in Seq(Queued) /\ rest \in Seq(OfQueue)
      /\ rest \in Seq(Flagged)
  BY LenProperties, HeadTailProperties DEF TypeInv, KernelType, FlightInv, QueueInv, OrderInv
<1>2. Head(pending) \in Ours /\ Head(pending).i = m + n + 1 /\ From(rest, Ours, m + n + 1)
  <2>1. m + n \in Nat
    BY <1>1
  <2> HIDE DEF n
  <2>2. From(pending, Ours, m + n)
    BY DEF n
  <2> QED
    BY <1>1, <2>1, <2>2, FromTail
<1>3. a \in Seq(Entries) /\ Len(a) = n + 1 /\ From(a, OursDone, m)
  <2>1. a \in Seq(Entries) /\ Len(a) = n + 1
    BY <1>1, AppendProperties
  <2>2. d \in OursDone /\ d.i = m + Len(finished) + 1
    BY <1>2
  <2>3. From(a, OursDone, m)
    BY <1>1, <2>2, FromAppend
  <2> QED
    BY <2>1, <2>3
<1> HIDE DEF a, n, rest
<1>4. CASE ~stop
  <2>1. goes = {} /\ Queued \ goes = Queued
    BY <1>4
  <2>2. Kept(rest, {}) = <<>>
    <3>1. Queued \cap {} = {}
      OBVIOUS
    <3> QED
      BY <1>1, <3>1, KeptNone
  <2>3. back = <<>>
    <3>1. PICK swept \in Seq(Queued) : swept = Kept(rest, {})
      <4>1. <<>> \in Seq(Queued)
        OBVIOUS
      <4> QED
        BY <2>2, <4>1
    <3>2. back = [k \in DOMAIN swept |-> Done(swept[k], "unlinked", 0)]
      BY <2>1, <3>1 DEF rest
    <3>3. back \in Seq(Empty) /\ Len(back) = Len(swept)
      BY <3>2, SweptData
    <3>4. Len(swept) = 0
      BY <2>2, <3>1
    <3> QED
      BY <3>3, <3>4, EmptySeq
  <2>4. f = a
    <3>1. a \o <<>> = a
      BY <1>3, ConcatEmptySeq
    <3> QED
      BY <2>3, <3>1 DEF a
  <2>5. q = rest
    <3>1. Kept(rest, Queued) = rest
      BY <1>1, KeptAll
    <3> QED
      BY <2>1, <3>1 DEF rest
  <2>6. m + n + 1 = m + Len(f)
    <3>1. Len(f) = n + 1
      BY <1>3, <2>4
    <3>2. m + n + 1 = m + (n + 1)
      BY <1>1
    <3> QED
      BY <3>1, <3>2
  <2> QED
    BY <1>2, <1>3, <2>4, <2>5, <2>6
<1>5. CASE stop
  <2>1. ASSUME NEW k \in 1 .. Len(rest)
        PROVE  rest[k] \in goes /\ rest[k] \in Ours /\ rest[k].i = m + n + 1 + k
    <3>1. rest[k] \in Ours /\ rest[k].i = m + n + 1 + k
      BY <1>2 DEF From
    <3>2. PICK p \in OfQueue : p = rest[k] /\ p \in Flagged
      BY <1>1, ElementOfSeq
    <3>3. p.i \in 1 .. Issued /\ p \in Queued /\ p.cont = urbs[p.i].cont
      BY <3>1, <3>2 DEF OfQueue, Ours, Flagged
    <3>4. p.i \in 1 .. num_urbs
      <4>1. IssuedOK
        BY IssuedType
      <4> HIDE DEF Issued
      <4> QED
        BY <3>3, <4>1 DEF IssuedOK
    <3>5. urbs[p.i].cont = (p.i > 1 /\ continuation)
      BY <1>5, <3>4 DEF BulkShape, BulkPart
    <3>6. Len(rest) \in Nat
      BY <1>1, LenProperties
    <3>7. p.i = m + n + 1 + k
      BY <3>1, <3>2
    <3> HIDE DEF Issued
    <3>8. p.i > 1
      BY <1>1, <3>6, <3>7
    <3>9. p.cont
      BY <1>5, <3>3, <3>5, <3>8
    <3>10. p \in goes
      BY <1>5, <3>3, <3>9
    <3> QED
      BY <3>1, <3>2, <3>10
  <2>2. rest \in Seq(Queued \cap goes)
    BY <1>1, <2>1, AllIn
  <2>3. Kept(rest, goes) = rest
    <3>1. Queued \cap goes \subseteq goes
      OBVIOUS
    <3> QED
      BY <2>2, <3>1, KeptAll
  <2>4. q = <<>>
    <3>1. (Queued \cap goes) \cap (Queued \ goes) = {}
      OBVIOUS
    <3> QED
      BY <2>2, <3>1, KeptNone DEF rest
  <2>5. back = [k \in DOMAIN rest |-> Done(rest[k], "unlinked", 0)]
    BY <2>3 DEF rest
  <2>6. /\ back \in Seq(Empty) /\ Len(back) = Len(rest)
        /\ \A k \in 1 .. Len(rest) : /\ back[k].i = rest[k].i
                                     /\ rest[k] \in Ours => back[k] \in OursDone
    BY <1>1, <2>5, SweptData
  <2>7. From(back, OursDone, m + n + 1)
    BY <2>1, <2>6 DEF From
  <2>8. back \in Seq(Entries) /\ m + n + 1 = m + Len(a)
    <3>1. Empty \subseteq Entries
      BY DEF Empty
    <3>2. back \in Seq(Entries)
      BY <2>6, <3>1, SeqMonotonic
    <3> QED
      BY <1>1, <1>3, <3>2
  <2>9. From(f, OursDone, m)
    <3>1. From(back, OursDone, m + Len(a))
      BY <2>7, <2>8
    <3>2. From(a \o back, OursDone, m)
      BY <1>3, <2>8, <3>1, FromCat
    <3> QED
      BY <3>2 DEF a
  <2>10. From(q, Ours, m + Len(f))
    BY <2>4 DEF From
  <2> QED
    BY <2>9, <2>10
<1> QED
  BY <1>4, <1>5

\* A URB completes.
LEMMA KernelData ==
  ASSUME TypeInv, FlightInv, TypeInv', DataInv, KernelComplete
  PROVE  DataInv'
<1>1. PICK out \in IF request.type = "iso" THEN {[st |-> "ok", n |-> 0]}
                   ELSE Outcomes(Head(pending).len) :
        LET stop == out.st # "ok" /\ continuation /\ request.type = "bulk"
            rest == Tail(pending)
            goes == {p \in Queued : stop /\ p.cont}
            swept == Kept(rest, goes)
        IN  /\ finished' = Append(finished, Done(Head(pending), out.st, out.n))
                             \o [k \in DOMAIN swept |-> Done(swept[k], "unlinked", 0)]
            /\ pending' = Kept(rest, Queued \ goes)
            /\ halted' = (halted \/ stop)
            /\ delivered' = IF Head(pending).alloc = submits
                            THEN delivered + out.n ELSE delivered
  BY DEF KernelComplete
<1> DEFINE x == Head(pending)
           stop == out.st # "ok" /\ continuation /\ request.type = "bulk"
           goes == {p \in Queued : stop /\ p.cont}
           stay == Queued \ goes
           swept == Kept(Tail(pending), goes)
           back == [k \in DOMAIN swept |-> Done(swept[k], "unlinked", 0)]
<1>2. PICK d : d = Done(x, out.st, out.n)
  OBVIOUS
<1>3. /\ pending # <<>> /\ connected
      /\ UNCHANGED <<request, continuation, connected, alloc, submits, urbs, iso_packet_offset,
                     transferred, buffer, results, num_retired, reap_action, status, hpc, cur,
                     lock, pc, at>>
  BY DEF KernelComplete, tpriv, transfer, threads
<1>4. /\ finished' = Append(finished, d) \o back /\ pending' = Kept(Tail(pending), stay)
      /\ delivered' = IF x.alloc = submits THEN delivered + out.n ELSE delivered
  BY <1>1, <1>2
<1>5. /\ d \in OfFinished /\ d \in Entries /\ (x \in Ours <=> d \in OursDone)
      /\ out.n \in Nat /\ out.n <= x.len
  <2>1. /\ d \in OfFinished /\ (x \in Ours <=> d \in OursDone)
        /\ out.n \in Nat /\ out.n <= x.len
    BY <1>2, <1>3, OutcomeType
  <2> QED
    BY <2>1 DEF OfFinished
<1>6. /\ pending \in Seq(Queued) /\ finished \in Seq(Entries) /\ x \in Queued
      /\ Tail(pending) \in Seq(Queued)
  BY <1>3, HeadTailProperties DEF TypeInv, KernelType
<1>7. d.i = x.i /\ d.alloc = x.alloc /\ d.n = out.n /\ d.first = delivered /\ d.status = out.st
  BY <1>2 DEF Done
<1>8. swept \in Seq(Queued) /\ back \in Seq(Empty) /\ back \in Seq(Entries)
  <2> HIDE DEF goes
  <2>1. swept \in Seq(Queued)
    BY <1>6, KeptIn
  <2>2. PICK s \in Seq(Queued) : s = swept
    BY <2>1
  <2>3. back = [k \in DOMAIN s |-> Done(s[k], "unlinked", 0)]
    BY <2>2
  <2>4. back \in Seq(Empty)
    <3> HIDE DEF back, swept
    <3> QED
      BY <2>3, SweptData
  <2>5. Empty \subseteq Entries
    BY DEF Empty
  <2> QED
    BY <2>1, <2>4, <2>5, SeqMonotonic
<1>9. /\ ShapeInv' /\ BufferInv' /\ IsoDone'
      /\ Got' = Got /\ Hand' = Hand /\ Ours' = Ours /\ OursDone' = OursDone
      /\ Rising' = Rising /\ Flagged' = Flagged /\ Fine' = Fine
  BY <1>3, KernelKeeps
<1>10. Issued' = Issued
  BY <1>3 DEF Issued, Flies, num_urbs
<1>11. x \in Ours <=> x.alloc = submits
  BY <1>6 DEF Ours
<1> HIDE DEF x, goes, stay, swept, back
<1>12. OrderInv'
  <2>1. Sorted(pending, Rising) /\ pending \in Seq(Flagged)
    BY DEF DataInv, OrderInv
  <2>2. Sorted(Tail(pending), Rising) /\ Tail(pending) \in Seq(Flagged)
    <3>1. Sorted(Tail(pending), Rising)
      BY <1>3, <1>6, <2>1, SortedTail
    <3> QED
      BY <1>3, <2>1, <3>1, HeadTailProperties
  <2>3. Sorted(pending', Rising) /\ pending' \in Seq(Flagged)
    <3>1. Sorted(Kept(Tail(pending), stay), Rising)
      BY <1>6, <2>2, KeptSorted
    <3>2. Kept(Tail(pending), stay) \in Seq(Flagged)
      BY <2>2, KeptIn
    <3> QED
      BY <1>4, <3>1, <3>2
  <2> QED
    BY <1>9, <2>3 DEF OrderInv, Sorted
<1>13. NormalInv'
  <2> SUFFICES ASSUME Flies', reap_action' = "NORMAL"
               PROVE  Calm' /\ (StaleFirst' \/ InLine') /\ (Hand' = 1 => cur'.i = num_retired' + 1)
    BY DEF NormalInv
  <2>1. Flies /\ reap_action = "NORMAL"
    BY <1>3 DEF Flies
  <2>2. Calm /\ (StaleFirst \/ InLine) /\ (Hand = 1 => cur.i = num_retired + 1)
    BY <2>1 DEF DataInv, NormalInv
  <2>3. Calm' /\ (Hand' = 1 => cur'.i = num_retired' + 1)
    BY <1>3, <1>9, <2>2 DEF Calm
  <2>4. finished' # <<>> /\ Head(finished') = IF finished = <<>> THEN d ELSE Head(finished)
    <3>1. PICK t : t = Append(finished, d) \o back
      OBVIOUS
    <3>2. t # <<>> /\ Head(t) = IF finished = <<>> THEN d ELSE Head(finished)
      BY <1>5, <1>6, <1>8, <3>1, CatHead
    <3> QED
      BY <1>4, <3>1, <3>2
  <2>5. CASE StaleFirst
    <3>1. Head(finished') \notin OursDone
      BY <1>5, <2>4, <2>5 DEF StaleFirst, x
    <3> QED
      BY <1>9, <2>3, <2>4, <3>1 DEF StaleFirst
  <2>6. CASE InLine
    <3> DEFINE m == num_retired + Hand
    <3>1. m \in Nat
      BY DEF TypeInv, PrivType, Hand
    <3>2. m' = m
      BY <1>3, <1>9
    <3>3. From(finished, OursDone, m) /\ From(pending, Ours, m + Len(finished))
      BY <2>6 DEF InLine
    <3> HIDE DEF m
    <3>4. From(finished', OursDone, m) /\ From(pending', Ours, m + Len(finished'))
      <4>1. PICK e \in Entries : e = d
        BY <1>5
      <4>2. PICK s : s = stop
        OBVIOUS
      <4>3. e.i = Head(pending).i /\ (Head(pending) \in Ours => e \in OursDone)
        BY <1>5, <1>7, <4>1 DEF x
      <4>4. goes = {p \in Queued : s /\ p.cont} /\ (s => continuation /\ request.type = "bulk")
        BY <4>2 DEF goes
      <4>5. back = [k \in DOMAIN Kept(Tail(pending), goes) |->
                      Done(Kept(Tail(pending), goes)[k], "unlinked", 0)]
        BY DEF back, swept
      <4>6. finished' = Append(finished, e) \o back /\ pending' = Kept(Tail(pending), Queued \ goes)
        BY <1>4, <4>1 DEF stay
      <4>7. BulkShape /\ OrderInv
        BY DEF DataInv, ShapeInv
      <4> HIDE DEF stop
      <4> QED
        BY <1>3, <2>1, <3>1, <3>3, <4>3, <4>4, <4>5, <4>6, <4>7, CompleteInLine
    <3>5. InLine'
      <4>1. From(finished, OursDone, m)' <=> From(finished', OursDone, m)
        BY <1>9, <3>2 DEF From
      <4>2. From(pending, Ours, m + Len(finished))' <=> From(pending', Ours, m + Len(finished'))
        BY <1>9, <3>2 DEF From
      <4> QED
        BY <3>4, <4>1, <4>2 DEF InLine, m
    <3> QED
      BY <2>3, <3>5
  <2> QED
    BY <2>2, <2>5, <2>6
<1>14. BytesInv'
  <2> SUFFICES ASSUME Reads PROVE BytesInv'
    BY <1>3 DEF BytesInv, Reads, Flies
  <2>1. BytesInv /\ OrderInv /\ BulkShape /\ pending \in Seq(Later)
    BY DEF DataInv, ShapeInv, BytesInv
  <2>2. /\ Tail(pending) \in Seq(Later')
        /\ x \in Ours => /\ delivered <= Off(x.i) /\ delivered + out.n <= Off(Issued + 1)
    <3>1. delivered' = IF Head(pending) \in Ours THEN delivered + out.n ELSE delivered
      BY <1>4, <1>11 DEF x
    <3>2. PICK n \in Nat : n = out.n
      BY <1>5
    <3>3. n <= Head(pending).len /\ delivered' = IF Head(pending) \in Ours THEN delivered + n ELSE delivered
      BY <1>5, <3>1, <3>2 DEF x
    <3> HIDE DEF Issued
    <3> QED
      BY <1>3, <2>1, <3>2, <3>3, LaterRest DEF x
  <2>3. pending' \in Seq(Later')
    BY <1>4, <2>2, KeptIn
  <2>4. delivered' = IF d \in OursDone THEN delivered + d.n ELSE delivered
    BY <1>4, <1>5, <1>7, <1>11
  <2>5. d \in OursDone /\ d.n > 0 => delivered <= Off(d.i) /\ delivered' <= Off(Issued + 1)
    <3> HIDE DEF Issued
    <3> QED
      BY <1>5, <1>7, <2>2, <2>4
  <2> HIDE DEF Issued, Got
  <2> QED
    BY <1>3, <1>4, <1>5, <1>7, <1>8, <1>9, <1>10, <2>1, <2>3, <2>4, <2>5, BytesStep
<1>15. DoneInv'
  <2> SUFFICES ASSUME Ends PROVE transferred' = delivered' /\ InPlace(transferred)'
                                 /\ Count(pending, Ours)' = 0
    BY <1>3 DEF DoneInv, Ends
  <2>1. transferred = delivered /\ InPlace(transferred) /\ Count(pending, Ours) = 0
    BY DEF DataInv, DoneInv
  <2> DEFINE rest == Tail(pending)
  <2>2. /\ Count(pending, Ours) = One(x, Ours) + Count(rest, Ours)
        /\ One(x, Ours) \in Nat
    BY <1>3, <1>6, CountHead DEF x, One
  <2>3. /\ Count(rest, Ours) = Count(pending', Ours) + Count(rest, Ours \ stay)
        /\ Count(pending', Ours) \in Nat /\ Count(rest, Ours \ stay) \in Nat
    <3>1. Outs(rest, Ours, stay)
      BY <1>6, CountOut
    <3> QED
      BY <1>4, <3>1 DEF Outs
  <2> HIDE DEF rest
  <2>4. One(x, Ours) = 0 /\ Count(pending', Ours) = 0
    <3> DEFINE o == One(x, Ours)
               b == Count(rest, Ours)
               c == Count(pending', Ours)
               e == Count(rest, Ours \ stay)
    <3>1. 0 = o + b /\ b = c + e /\ o \in Nat /\ c \in Nat /\ e \in Nat
      BY <2>1, <2>2, <2>3
    <3> HIDE DEF o, b, c, e
    <3>2. o = 0 /\ c = 0
      BY <3>1
    <3> QED
      BY <3>2 DEF o, c
  <2>5. x \notin Ours
    BY <2>4 DEF One
  <2>6. delivered' = delivered
    BY <1>4, <1>11, <2>5
  <2>7. Count(pending, Ours)' = 0
    BY <1>9, <2>4
  <2> QED
    BY <1>3, <2>1, <2>6, <2>7 DEF InPlace
<1>16. IsoInv'
  <2> SUFFICES ASSUME Short, Flies', request.type = "iso", reap_action = "NORMAL" PROVE IsoInv'
    BY <1>3 DEF IsoInv
  <2>1. /\ num_retired < num_urbs => iso_packet_offset + 1 = urbs[num_retired + 1].offset
        /\ Filled /\ finished \in Seq(Fine) /\ (Hand = 1 => cur.status = "ok")
    BY <1>3 DEF DataInv, IsoInv, Flies
  <2>2. out.st = "ok" /\ stop = FALSE
    BY <1>1
  <2>3. d \in Fine
    BY <1>5, <1>7, <2>2 DEF Fine
  <2>4. back \in Seq(Fine)
    <3>1. goes = {}
      BY <2>2 DEF goes
    <3>2. swept = <<>>
      <4>1. Queued \cap {} = {}
        OBVIOUS
      <4>2. Kept(Tail(pending), {}) = <<>>
        BY <1>6, <4>1, KeptNone
      <4> QED
        BY <3>1, <4>2 DEF swept
    <3>3. PICK s \in Seq(Queued) : s = swept
      BY <1>8
    <3>4. back = [k \in DOMAIN s |-> Done(s[k], "unlinked", 0)]
      BY <3>3 DEF back
    <3>5. Len(back) = Len(s)
      BY <3>4, SweptData
    <3>6. back = <<>>
      BY <1>8, <3>2, <3>3, <3>5, EmptySeq
    <3> QED
      BY <3>6
  <2>5. finished' \in Seq(Fine)
    <3>1. Append(finished, d) \in Seq(Fine)
      BY <2>1, <2>3, AppendProperties
    <3>2. Append(finished, d) \o back \in Seq(Fine)
      BY <2>4, <3>1, ConcatProperties
    <3> QED
      BY <1>4, <3>2
  <2> QED
    BY <1>3, <1>9, <2>1, <2>5 DEF IsoInv, Filled, num_urbs
<1> QED
  BY <1>9, <1>12, <1>13, <1>14, <1>15, <1>16 DEF DataInv

\* Without finished URBs of the latest submission there are none with data.
LEMMA NoneFull ==
  ASSUME TypeInv, Count(finished, OursDone) = 0
  PROVE  Kept(finished, Full) = <<>>
<1>1. finished \in Seq(Entries)
  BY DEF TypeInv, KernelType
<1>2. OursDone \cap Full = Full
  BY DEF Full
<1>3. Count(finished, OursDone) = Count(finished, OursDone \cap Full) + Count(finished, OursDone \ Full)
  <2>1. Splits(finished, OursDone, Full)
    BY <1>1, CountSplit
  <2> QED
    BY <2>1 DEF Splits
<1>4. Count(finished, Full) \in Nat /\ Count(finished, OursDone \ Full) \in Nat
  BY <1>1, CountType
<1>5. Count(finished, Full) = 0
  <2> DEFINE a == Count(finished, Full)
             b == Count(finished, OursDone \ Full)
  <2>1. 0 = a + b /\ a \in Nat /\ b \in Nat
    BY <1>2, <1>3, <1>4
  <2> HIDE DEF a, b
  <2>2. a = 0
    BY <2>1
  <2> QED
    BY <2>2 DEF a
<1> QED
  BY <1>1, <1>5, KeptNone

\* The device is unplugged.
LEMMA UnplugData ==
  ASSUME TypeInv, FlightInv, DataInv, Unplug
  PROVE  DataInv'
<1>1. /\ pending' = <<>> /\ finished' = <<>>
      /\ UNCHANGED <<request, continuation, alloc, submits, urbs, iso_packet_offset, transferred,
                     buffer, results, num_retired, reap_action, status, hpc, cur, lock, pc, at,
                     delivered>>
  BY DEF Unplug, tpriv, transfer, threads
<1>2. /\ ShapeInv' /\ BufferInv' /\ IsoDone'
      /\ Got' = Got /\ Hand' = Hand
  BY <1>1, KernelKeeps
<1>3. Issued' = Issued
  BY <1>1 DEF Issued, Flies, num_urbs
<1>4. OrderInv'
  <2>1. DOMAIN pending' = {} /\ pending' \in Seq(Flagged')
    BY <1>1
  <2> QED
    BY <2>1 DEF OrderInv, Sorted
<1>5. NormalInv'
  <2> SUFFICES ASSUME Flies', reap_action' = "NORMAL"
               PROVE  Calm' /\ InLine' /\ (Hand' = 1 => cur'.i = num_retired' + 1)
    BY DEF NormalInv
  <2>1. Calm /\ (Hand = 1 => cur.i = num_retired + 1)
    BY <1>1 DEF DataInv, NormalInv, Flies
  <2>2. InLine'
    <3>1. Len(pending') = 0 /\ Len(finished') = 0
      BY <1>1
    <3>2. \A k : k \notin 1 .. 0
      OBVIOUS
    <3> QED
      BY <3>1, <3>2 DEF InLine, From
  <2> QED
    BY <1>1, <1>2, <2>1, <2>2 DEF Calm
<1>6. BytesInv'
  <2> SUFFICES ASSUME Reads PROVE BytesInv'
    BY <1>1 DEF BytesInv, Reads, Flies
  <2>1. /\ delivered <= Off(Issued + 1) /\ Chain(Kept(finished, Full))
        /\ reap_action = "NORMAL" => transferred = Off(num_retired + 1)
    BY DEF DataInv, BytesInv
  <2>2. pending' \in Seq(Later') /\ finished' \in Seq(Placed')
    BY <1>1
  <2>3. ASSUME Held' = Issued'
        PROVE  Got = delivered
    <3> DEFINE p == Count(pending, Ours)
               f == Count(finished, OursDone)
               r == num_retired
               h == Hand
               n == Issued
    <3>1. p \in Nat /\ f \in Nat /\ r \in Nat /\ h \in Nat /\ n \in Int
      <4>1. IssuedOK
        BY IssuedType
      <4>2. n \in Int
        BY <4>1 DEF IssuedOK, num_urbs
      <4> HIDE DEF n
      <4> QED
        BY <4>2, HeldType DEF HeldOK, TypeInv, PrivType, Hand
    <3>2. Held = r + p + f + h /\ Held' = r + 0 + 0 + h
      <4>1. Count(pending', Ours') = 0 /\ Count(finished', OursDone') = 0
        BY <1>1, KeptEmpty DEF Count
      <4> QED
        BY <1>1, <1>2, <4>1 DEF Held
    <3>3. Held <= Issued
      BY DEF FlightInv, CountInv, Reads
    <3>4. r + p + f + h <= n /\ r + 0 + 0 + h = n
      BY <1>3, <2>3, <3>2, <3>3
    <3>5. Held = Issued /\ f = 0
      <4> HIDE DEF p, f, r, h, n
      <4>1. p = 0 /\ f = 0 /\ r + p + f + h = n
        BY <3>1, <3>4
      <4> QED
        BY <3>2, <4>1 DEF n
    <3>6. Kept(finished, Full) = <<>>
      BY <3>5, NoneFull
    <3> HIDE DEF p, f, r, h, n, Held, Issued
    <3> QED
      BY <2>1, <3>5, <3>6 DEF Chain, Line
  <2>4. Chain(Kept(finished, Full))'
    <3> DEFINE v == Kept(finished, Full)
    <3>1. v' = <<>>
      BY <1>1, KeptEmpty
    <3>2. Held' = Issued' => Got' = delivered'
      <4> HIDE DEF Held, Issued, Got
      <4> QED
        BY <1>1, <1>2, <2>3
    <3>3. Len(<<>>) = 0 /\ \A k : k \notin 1 .. 0 - 1
      OBVIOUS
    <3> HIDE DEF v
    <3>4. v' # <<>> \/ Held' = Issued' => Line(v, Got, delivered)'
      <4> HIDE DEF Held, Issued, Got
      <4> QED
        BY <3>1, <3>2, <3>3 DEF Line
    <3> QED
      BY <3>4 DEF Chain, v
  <2>5. delivered' <= Off(Issued' + 1)
    BY <1>1, <1>3, <2>1 DEF Off
  <2>6. reap_action' = "NORMAL" => transferred' = Off(num_retired' + 1)
    BY <1>1, <2>1 DEF Off
  <2> QED
    BY <2>2, <2>4, <2>5, <2>6 DEF BytesInv
<1>7. DoneInv'
  <2>1. Count(pending', Ours') = 0
    BY <1>1, KeptEmpty DEF Count
  <2> QED
    BY <1>1, <2>1 DEF DataInv, DoneInv, Ends, InPlace
<1>8. IsoInv'
  <2>1. finished' \in Seq(Fine')
    BY <1>1
  <2> QED
    BY <1>1, <1>2, <2>1 DEF DataInv, IsoInv, Filled, Flies, num_urbs
<1> QED
  BY <1>2, <1>4, <1>5, <1>6, <1>7, <1>8 DEF DataInv

\* A submission: what the kernel still has is of earlier ones.
LEMMA SubmitData ==
  ASSUME TypeInv, FlightInv, TypeInv', FlightInv', DataInv, NEW u \in Users, Submit(u)
  PROVE  DataInv'
<1>1. PICK r \in Requests : /\ request' = r /\ urbs' = UrbsOf(r)
                            /\ buffer' = [b \in 1 .. r.length |-> 0]
                            /\ results' = [k \in DOMAIN r.packets |-> 0]
  BY DEF Submit
<1>2. /\ pc' = [pc EXCEPT ![u] = "submit"] /\ at' = [at EXCEPT ![u] = 1] /\ lock' = u
      /\ pc[u] = "idle" /\ lock = "none" /\ owner = "user" /\ alloc = 0
      /\ alloc' = submits + 1 /\ submits' = submits + 1
      /\ reap_action' = "NORMAL" /\ num_retired' = 0 /\ iso_packet_offset' = 0
      /\ transferred' = 0 /\ delivered' = 0
      /\ UNCHANGED <<continuation, hpc, cur, pending, finished>>
  BY DEF Submit, ResetTransfer
<1>3. r \in Request /\ continuation \in BOOLEAN /\ submits \in Nat /\ alloc' # 0 /\ Flies'
  BY <1>2, RequestsType, BoundsAssumption DEF TypeInv, RequestType, Flies
<1>4. /\ pc'[u] = "submit" /\ at'[u] = 1 /\ \A v \in Users : v # u => pc'[v] = "idle"
      /\ hpc \in {"idle", "unlock"}
  <2>1. /\ pc'[u] = "submit" /\ at'[u] = 1
        /\ \A v \in Users : v # u => pc'[v] = "idle"
    BY <1>2, Locks DEF TypeInv, ThreadType, FlightInv, LockInv
  <2>2. hpc \in {"idle", "unlock"}
    BY <1>2 DEF TypeInv, ThreadType, FlightInv, OwnerInv, Hand, Flies
  <2> QED
    BY <2>1, <2>2
<1>5. Issued' = 0 /\ Hand' = 0
  <2>1. Issued' = at'[u] - 1
    BY <1>2, <1>3, <1>4 DEF Issued
  <2>2. 1 - 1 = 0
    OBVIOUS
  <2> QED
    BY <1>2, <1>4, <2>1, <2>2 DEF Hand
<1>6. /\ pending \in Seq(OfQueue) /\ finished \in Seq(OfFinished)
      /\ OfQueue \subseteq Queued /\ OfFinished \subseteq Entries
  BY DEF FlightInv, QueueInv, OfQueue, OfFinished
<1>7. OfQueue \cap Ours' = {} /\ OfFinished \cap OursDone' = {}
  <2>1. \A a : a \in 1 .. submits => a # submits'
    BY <1>2, <1>3
  <2> QED
    BY <2>1 DEF OfQueue, OfFinished, Ours, OursDone
<1> HIDE DEF Issued
<1>8. ShapeInv'
  <2>1. BulkShape'
    <3> SUFFICES ASSUME r.type = "bulk"
                 PROVE  \A i \in 1 .. num_urbs' : BulkPart(i, num_urbs, urbs[i])'
      BY <1>1 DEF BulkShape
    <3>1. urbs' = BulkUrbs(r)
      BY <1>1 DEF UrbsOf
    <3>2. \A i \in 1 .. num_urbs' : BulkPart(i, num_urbs', urbs'[i])
      BY <1>3, <3>1, BulkCut DEF num_urbs
    <3> QED
      BY <1>2, <3>2 DEF BulkPart, Off
  <2>2. IsoShape'
    <3> SUFFICES ASSUME Short, r.type = "iso"
                 PROVE  IsoPart(urbs, Len(results))'
      BY <1>1 DEF IsoShape, Short
    <3>1. urbs' = IsoUrbs(r)
      BY <1>1 DEF UrbsOf
    <3>2. Len(results') = Len(r.packets)
      <4>1. r.packets \in Seq(Nat)
        BY <1>3 DEF Request
      <4> QED
        BY <1>1, <4>1, LenProperties
    <3>3. IsoPart(IsoUrbs(r), Len(r.packets))
      <4>1. \A k \in DOMAIN r.packets : r.packets[k] <= MaxIso
        BY DEF Short
      <4> QED
        BY <1>3, <4>1, IsoCut
    <3>4. IsoPart(urbs', Len(results'))
      BY <3>1, <3>2, <3>3
    <3> QED
      BY <3>4 DEF IsoPart
  <2> QED
    BY <2>1, <2>2 DEF ShapeInv
<1>9. OrderInv'
  <2>1. OfQueue \subseteq Flagged'
    BY <1>6, <1>7 DEF Flagged
  <2>2. pending' \in Seq(Flagged')
    BY <1>2, <1>6, <2>1, SeqMonotonic
  <2>3. ASSUME NEW k \in DOMAIN pending, NEW l \in DOMAIN pending
        PROVE  <<pending[k], pending[l]>> \in Rising'
    <3>1. pending[k] \in OfQueue /\ pending[l] \in OfQueue
      BY <1>6, LenProperties, ElementOfSeq
    <3> QED
      BY <1>6, <1>7, <3>1 DEF Rising
  <2> QED
    BY <1>2, <2>2, <2>3 DEF OrderInv, Sorted
<1>10. NormalInv'
  <2>1. Calm'
    BY <1>2, <1>4 DEF Calm
  <2>2. StaleFirst' \/ InLine'
    <3>1. CASE finished # <<>>
      <4>1. Head(finished) \in OfFinished
        BY <1>6, <3>1, HeadTailProperties
      <4> QED
        BY <1>2, <1>7, <3>1, <4>1 DEF StaleFirst
    <3>2. CASE finished = <<>> /\ pending # <<>>
      <4>1. Head(pending) \in OfQueue
        BY <1>6, <3>2, HeadTailProperties
      <4> QED
        BY <1>2, <1>7, <3>2, <4>1 DEF StaleFirst
    <3>3. CASE finished = <<>> /\ pending = <<>>
      <4>1. Len(pending') = 0 /\ Len(finished') = 0
        BY <1>2, <3>3
      <4>2. \A k : k \notin 1 .. 0
        OBVIOUS
      <4> QED
        BY <4>1, <4>2 DEF InLine, From
    <3> QED
      BY <3>1, <3>2, <3>3
  <2> QED
    BY <1>5, <2>1, <2>2 DEF NormalInv
<1>11. BytesInv'
  <2>1. Off(1) = 0
    BY SizesAssumption DEF Off
  <2>2. pending' \in Seq(Later')
    <3>1. OfQueue \subseteq Later'
      BY <1>6, <1>7 DEF Later
    <3> QED
      BY <1>2, <1>6, <3>1, SeqMonotonic
  <2>3. finished' \in Seq(Placed')
    <3>1. OfFinished \subseteq Placed'
      BY <1>6, <1>7 DEF Placed
    <3> QED
      BY <1>2, <1>6, <3>1, SeqMonotonic
  <2>4. Kept(finished', Full') = <<>>
    <3>1. OfFinished \cap Full' = {}
      BY <1>7 DEF Full
    <3> DEFINE T == Full'
    <3> HIDE DEF T
    <3>2. OfFinished \cap T = {}
      BY <3>1 DEF T
    <3>3. Kept(finished, T) = <<>>
      BY <1>6, <3>2, KeptNone
    <3> QED
      BY <1>2, <3>3 DEF T
  <2>5. Got' = 0
    BY <1>2, <1>4 DEF Got
  <2>6. Chain(Kept(finished, Full))'
    <3> DEFINE v == Kept(finished, Full)
    <3>1. v' = <<>>
      BY <2>4
    <3>2. Len(<<>>) = 0 /\ \A k : k \notin 1 .. 0 - 1
      OBVIOUS
    <3> HIDE DEF v
    <3>3. Line(v, Got, delivered)'
      <4> HIDE DEF Got
      <4> QED
        BY <1>2, <2>5, <3>1, <3>2 DEF Line
    <3> QED
      BY <3>3 DEF Chain, v
  <2>7. delivered' <= Off(Issued' + 1) /\ transferred' = Off(num_retired' + 1)
    <3>1. 0 + 1 = 1 /\ 0 <= 0
      OBVIOUS
    <3> QED
      BY <1>2, <1>5, <2>1, <3>1 DEF Off
  <2> QED
    BY <2>2, <2>3, <2>6, <2>7 DEF BytesInv
<1>12. BufferInv'
  <2>1. InPlace(transferred)'
    <3>1. Len(buffer') \in Nat
      BY LenProperties DEF TypeInv, TransferType
    <3> QED
      BY <1>2, <3>1 DEF InPlace
  <2> QED
    BY <1>2, <1>4, <2>1 DEF BufferInv
<1>13. DoneInv' /\ IsoDone'
  BY <1>2, <1>4 DEF DoneInv, Ends, IsoDone, IsoInPlace
<1>14. IsoInv'
  <2>1. Short' /\ request'.type = "iso" => iso_packet_offset' + 1 = urbs'[num_retired' + 1].offset
    <3>1. Short' /\ request'.type = "iso" => urbs'[1].offset = 1
      BY <1>3, <1>8 DEF ShapeInv, IsoShape, IsoPart
    <3>2. 0 + 1 = 1
      OBVIOUS
    <3> QED
      BY <1>2, <3>1, <3>2
  <2>2. Filled'
    <3>1. results' \in Seq(Nat)
      BY DEF TypeInv, TransferType
    <3>2. \A k \in DOMAIN results' : ~(k <= 0)
      BY <3>1, LenProperties
    <3> QED
      BY <1>2, <3>2 DEF Filled
  <2>3. finished' \in Seq(Fine')
    <3>1. OfFinished \subseteq Fine'
      BY <1>6, <1>7 DEF Fine
    <3> QED
      BY <1>2, <1>6, <3>1, SeqMonotonic
  <2> QED
    BY <1>5, <2>1, <2>2, <2>3 DEF IsoInv
<1> QED
  BY <1>8, <1>9, <1>10, <1>11, <1>12, <1>13, <1>14 DEF DataInv

\* The kernel takes the next URB: it goes behind all that are queued.
LEMMA TakenData ==
  ASSUME TypeInv, FlightInv, DataInv, NEW u \in Users, pc[u] = "submit", alloc = submits,
         connected,
         NEW p, p = [alloc |-> alloc, i |-> at[u], len |-> urbs[at[u]].length,
                     cont |-> urbs[at[u]].cont],
         pending' = Append(pending, p),
         IF at[u] = num_urbs THEN Return(u)
                             ELSE at' = [at EXCEPT ![u] = at[u] + 1] /\ UNCHANGED <<pc, lock>>,
         UNCHANGED <<tpriv, finished, delivered, request, continuation, submits, transfer,
                     hpc, cur>>
  PROVE  DataInv'
<1>1. /\ Flies /\ submits \in Nat \ {0} /\ num_urbs \in Nat
      /\ at[u] \in 1 .. num_urbs /\ Issued = at[u] - 1 /\ urbs[at[u]] \in Urb
      /\ hpc # "callback"
  BY SubmitFacts
<1>2. UNCHANGED <<alloc, urbs, reap_action, num_retired, iso_packet_offset, transferred, buffer,
                  results, status, request, continuation, submits, finished, delivered, hpc, cur>>
  BY DEF tpriv, transfer
<1>3. /\ \A v \in Users : pc'[v] \in {"idle", "submit"}
      /\ Issued' = Issued + 1 /\ Issued \in Nat /\ Issued' \in Nat
  <2>1. /\ at[u] = num_urbs => lock' = "none" /\ pc'[u] = "idle"
        /\ at[u] # num_urbs => lock' = u /\ pc'[u] = "submit" /\ at'[u] = at[u] + 1
        /\ \A v \in Users : v # u => pc'[v] = "idle"
        /\ Issued' = Issued + 1 /\ Issued \in Nat
    BY TakenNext
  <2>2. \A v \in Users : pc'[v] \in {"idle", "submit"}
    BY <2>1
  <2> HIDE DEF Issued
  <2> QED
    BY <2>1, <2>2
<1>4. /\ ShapeInv' /\ BufferInv' /\ IsoDone'
      /\ Got' = Got /\ Hand' = Hand /\ Ours' = Ours /\ OursDone' = OursDone
      /\ Rising' = Rising /\ Flagged' = Flagged /\ Fine' = Fine
  BY <1>2, KernelKeeps
<1>5. p \in Queued /\ p \in Ours /\ p.i = at[u] /\ p.cont = urbs[p.i].cont /\ p.i = Issued + 1
  <2>1. p \in Queued /\ p.i = at[u] /\ p.alloc = submits /\ p.cont = urbs[p.i].cont
    BY <1>1 DEF Queued, Urb
  <2>2. p.i = Issued + 1
    <3> HIDE DEF Issued
    <3> QED
      BY <1>1, <2>1
  <2> QED
    BY <2>1, <2>2 DEF Ours
<1>6. /\ pending \in Seq(Queued) /\ pending \in Seq(OfQueue) /\ finished \in Seq(Entries)
      /\ Held = Issued
  BY <1>1 DEF TypeInv, KernelType, FlightInv, QueueInv, CountInv
<1> HIDE DEF Issued
<1>7. OrderInv'
  <2>1. Sorted(pending, Rising) /\ pending \in Seq(Flagged)
    BY DEF DataInv, OrderInv
  <2>2. OfQueue \subseteq Ahead(Queued, p, Rising)
    <3>1. SUFFICES ASSUME NEW q \in OfQueue, q \in Ours PROVE q.i < p.i
      BY <1>5 DEF Ahead, Rising, OfQueue
    <3>2. q.i \in 1 .. Issued
      BY <1>1, <3>1 DEF OfQueue, Ours
    <3> QED
      BY <1>3, <1>5, <3>2
  <2>3. Sorted(pending', Rising)
    <3>1. pending \in Seq(Ahead(Queued, p, Rising))
      BY <1>6, <2>2, SeqMonotonic
    <3> QED
      BY <1>5, <1>6, <2>1, <3>1, SortedAppend
  <2>4. pending' \in Seq(Flagged)
    <3>1. p \in Flagged
      BY <1>5 DEF Flagged
    <3> QED
      BY <2>1, <3>1, AppendProperties
  <2> QED
    BY <1>4, <2>3, <2>4 DEF OrderInv, Sorted
<1>8. NormalInv'
  <2> SUFFICES ASSUME reap_action' = "NORMAL"
               PROVE  Calm' /\ (StaleFirst' \/ InLine') /\ (Hand' = 1 => cur'.i = num_retired' + 1)
    BY DEF NormalInv
  <2>1. Calm /\ (StaleFirst \/ InLine) /\ (Hand = 1 => cur.i = num_retired + 1)
    BY <1>1, <1>2 DEF DataInv, NormalInv
  <2>2. Calm'
    BY <1>2, <1>3, <2>1 DEF Calm
  <2>3. CASE StaleFirst
    <3>1. pending # <<>> => pending' # <<>> /\ Head(pending') = Head(pending)
      <4>1. /\ pending' \in Seq(Queued) /\ Len(pending') = Len(pending) + 1
            /\ \A k \in 1 .. Len(pending) : pending'[k] = pending[k]
        BY <1>5, <1>6, AppendProperties
      <4>2. SUFFICES ASSUME pending # <<>> PROVE pending' # <<>> /\ Head(pending') = Head(pending)
        OBVIOUS
      <4>3. Len(pending) \in Nat \ {0} /\ Head(pending) = pending[1]
        BY <1>6, <4>2, EmptySeq, HeadTailProperties
      <4>4. pending' # <<>>
        <5>1. Len(pending') # 0
          BY <4>1, <4>3
        <5> QED
          BY <4>1, <5>1, EmptySeq
      <4>5. Head(pending') = pending'[1] /\ 1 \in 1 .. Len(pending)
        BY <4>1, <4>3, <4>4, HeadTailProperties
      <4> QED
        BY <4>1, <4>3, <4>4, <4>5
    <3> QED
      BY <1>2, <1>4, <2>1, <2>2, <2>3, <3>1 DEF StaleFirst
  <2>4. CASE InLine
    <3> DEFINE m == num_retired + Hand
               l == Len(finished)
               n == Len(pending)
    <3>1. m \in Nat /\ l \in Nat /\ n \in Nat /\ num_retired \in Nat /\ Hand \in Nat
      BY <1>6, LenProperties DEF TypeInv, PrivType, Hand
    <3>2. From(finished, OursDone, m) /\ From(pending, Ours, m + l)
      BY <2>4 DEF InLine
    <3>3. Count(pending, Ours) = n /\ Count(finished, OursDone) = l
      <4>1. pending \in Seq(Queued \cap Ours)
        BY <1>6, <3>2, AllIn DEF From
      <4>2. finished \in Seq(Entries \cap OursDone)
        BY <1>6, <3>2, AllIn DEF From
      <4>3. Kept(pending, Ours) = pending /\ Kept(finished, OursDone) = finished
        <5>1. Queued \cap Ours \subseteq Ours /\ Entries \cap OursDone \subseteq OursDone
          OBVIOUS
        <5> QED
          BY <4>1, <4>2, <5>1, KeptAll
      <4> QED
        BY <4>3 DEF Count
    <3>4. num_retired + n + l + Hand = Issued
      BY <1>6, <3>3 DEF Held
    <3> HIDE DEF l, n, Hand
    <3>5. p.i = m + l + n + 1
      BY <1>5, <3>1, <3>4
    <3>6. m + l \in Nat
      BY <3>1
    <3> HIDE DEF m
    <3>7. From(Append(pending, p), Ours, m + l)
      <4>1. PICK e \in Queued : e = p
        BY <1>5
      <4>2. PICK k \in Nat : k = m + l
        BY <3>6
      <4>3. From(pending, Ours, k) /\ e \in Ours /\ e.i = k + Len(pending) + 1
        BY <1>5, <3>2, <3>5, <4>1, <4>2 DEF n
      <4>4. From(Append(pending, e), Ours, k)
        BY <1>6, <4>3, FromAppend
      <4> QED
        BY <4>1, <4>2, <4>4
    <3>8. m' = m /\ l' = l
      BY <1>2, <1>4 DEF m, l
    <3>9. InLine'
      BY <1>2, <1>4, <3>2, <3>7, <3>8 DEF InLine, From, m, l
    <3> QED
      BY <1>2, <1>4, <2>1, <2>2, <3>9
  <2> QED
    BY <2>1, <2>3, <2>4
<1>9. BytesInv'
  <2> SUFFICES ASSUME Reads PROVE BytesInv'
    BY <1>2 DEF BytesInv, Reads, Flies
  <2>1. /\ delivered <= Off(Issued + 1) /\ pending \in Seq(Later) /\ finished \in Seq(Placed)
        /\ Chain(Kept(finished, Full))
        /\ reap_action = "NORMAL" => transferred = Off(num_retired + 1)
    BY DEF DataInv, BytesInv
  <2>2. Later' = Later /\ Placed' = Placed /\ Full' = Full
    BY <1>2, <1>4 DEF Later, Placed, Full
  <2>3. pending' \in Seq(Later')
    <3>1. p \in Later
      BY <1>5, <2>1 DEF Later
    <3> QED
      BY <2>1, <2>2, <3>1, AppendProperties
  <2>4. delivered' <= Off(Issued' + 1)
    <3>1. Issued + 1 \in Nat \ {0} /\ Issued' = Issued + 1
      BY <1>3
    <3>2. Off(Issued + 1) \in Nat /\ Off(Issued' + 1) = Off(Issued + 1) + MaxBulk /\ MaxBulk \in Nat
      <4>1. PICK k \in Nat \ {0} : k = Issued + 1
        BY <3>1
      <4>2. Off(k) \in Nat /\ Off(k + 1) = Off(k) + MaxBulk
        BY OffStep
      <4> QED
        BY <3>1, <4>1, <4>2, SizesAssumption
    <3>3. delivered \in Nat
      BY DEF TypeInv, KernelType
    <3> QED
      BY <1>2, <2>1, <3>2, <3>3
  <2>5. Chain(Kept(finished, Full))'
    <3> DEFINE k == Kept(finished, Full)
    <3>1. k' = k
      BY <1>2, <2>2
    <3>2. Line(k, Got, delivered)
      <4> HIDE DEF k, Held
      <4> QED
        BY <1>6, <2>1 DEF Chain, k
    <3> HIDE DEF k
    <3>3. Line(k, Got, delivered)'
      <4> HIDE DEF Got
      <4> QED
        BY <1>2, <1>4, <3>1, <3>2 DEF Line
    <3> QED
      BY <3>3 DEF Chain, k
  <2> QED
    BY <1>2, <2>1, <2>2, <2>3, <2>4, <2>5 DEF BytesInv, Off
<1>10. DoneInv'
  BY <1>1, <1>2 DEF DoneInv, Ends
<1>11. IsoInv'
  BY <1>2, <1>4 DEF DataInv, IsoInv, Filled, Flies, num_urbs
<1> QED
  BY <1>4, <1>7, <1>8, <1>9, <1>10, <1>11 DEF DataInv

\* The kernel refuses the first URB.
LEMMA FirstRefusedData ==
  ASSUME TypeInv, FlightInv, DataInv, NEW u \in Users, pc[u] = "submit", alloc = submits,
         alloc' = 0, UNCHANGED <<kernel, submits, hpc>>
  PROVE  DataInv'
<1>1. hpc' # "callback"
  BY SubmitFacts
<1>2. DoneInv' /\ IsoDone'
  BY <1>1 DEF DoneInv, Ends, IsoDone, IsoInPlace
<1> QED
  BY <1>2, GroundedData DEF kernel

\* The kernel refuses a later one.
LEMMA LaterRefusedData ==
  ASSUME TypeInv, FlightInv, DataInv, NEW u \in Users, pc[u] = "submit", alloc = submits, at[u] > 1,
         reap_action' = "SUBMIT_FAILED", num_retired' = num_retired + NotSubmitted(at[u]),
         pc' = [pc EXCEPT ![u] = "undo"],
         UNCHANGED <<alloc, urbs, iso_packet_offset, lock, kernel, request, continuation,
                     submits, transfer, hpc, cur>>
  PROVE  DataInv'
<1>1. /\ lock = u /\ num_urbs \in Nat /\ at[u] \in 1 .. num_urbs /\ Issued = at[u] - 1
  BY SubmitFacts
<1>2. Issued' = num_urbs
  <2>1. pc'[u] = "undo"
    BY DEF TypeInv, ThreadType
  <2>2. Issued' = num_urbs'
    BY <1>1, <2>1 DEF Issued
  <2> QED
    BY <2>2 DEF num_urbs
<1>3. Issued \in Nat /\ Issued <= num_urbs /\ NotSubmitted(at[u]) = num_urbs - Issued
  <2> HIDE DEF Issued
  <2>1. at[u] - 1 \in Nat /\ at[u] - 1 <= num_urbs
    BY <1>1
  <2>2. NotSubmitted(at[u]) = num_urbs - (at[u] - 1)
    BY DEF NotSubmitted
  <2> QED
    BY <1>1, <2>1, <2>2
<1>4. /\ UNCHANGED <<pending, finished, delivered, transferred, buffer, results, status>>
      /\ Hand' = Hand /\ Ours' = Ours /\ OursDone' = OursDone
  BY DEF kernel, transfer, Hand, Ours, OursDone
<1>5. Held' = Issued' => Held = Issued
  <2> DEFINE q == Count(pending, Ours)
             f == Count(finished, OursDone)
             h == Hand
             r == num_retired
             rn == num_retired'
             n == Issued
             m == num_urbs
  <2>1. q \in Nat /\ f \in Nat /\ r \in Nat /\ h \in Nat /\ n \in Nat /\ m \in Nat
    BY <1>1, <1>3, HeldType DEF HeldOK, TypeInv, PrivType, Hand
  <2>2. Held = r + q + f + h /\ Held' = rn + q + f + h
    BY <1>4 DEF Held
  <2>3. rn = r + (m - n)
    BY <1>3
  <2> HIDE DEF q, f, h, r, rn, n, m
  <2>4. rn + q + f + h = m => r + q + f + h = n
    BY <2>1, <2>3
  <2> QED
    BY <1>2, <2>2, <2>4 DEF n, m
<1>6. Issued' \in Nat /\ Issued <= Issued'
  <2> HIDE DEF Issued
  <2> QED
    BY <1>1, <1>2, <1>3
<1> HIDE DEF Issued, Held, Hand
<1> QED
  BY <1>3, <1>4, <1>5, <1>6, SameData

LEMMA SubmitUrbData ==
  ASSUME TypeInv, FlightInv, DataInv, NEW u \in Users, SubmitUrb(u), alloc = submits
  PROVE  DataInv'
<1>1. pc[u] = "submit"
  BY DEF SubmitUrb
<1>2. at[u] \in Nat
  BY DEF TypeInv, ThreadType
<1> DEFINE rest == UNCHANGED <<request, continuation, polled, submits, asked,
                               transfer, hpc, cur>>
           p == [alloc |-> alloc, i |-> at[u], len |-> urbs[at[u]].length,
                 cont |-> urbs[at[u]].cont]
           taken == /\ connected
                    /\ pending' = Append(pending, p)
                    /\ IF at[u] = num_urbs
                       THEN Return(u)
                       ELSE at' = [at EXCEPT ![u] = at[u] + 1] /\ UNCHANGED <<pc, lock>>
                    /\ UNCHANGED <<owner, tpriv, connected, finished, delivered>>
           first == alloc' = 0 /\ UNCHANGED kernel
           later == /\ at[u] > 1
                    /\ reap_action' = "SUBMIT_FAILED"
                    /\ num_retired' = num_retired + NotSubmitted(at[u])
                    /\ pc' = [pc EXCEPT ![u] = "undo"]
                    /\ UNCHANGED <<alloc, urbs, iso_packet_offset, owner, lock, kernel>>
<1>3. rest /\ (taken \/ first \/ later)
  BY DEF SubmitUrb
<1>4. CASE taken
  <2>1. PICK e : e = p
    OBVIOUS
  <2> QED
    BY <1>1, <1>3, <1>4, <2>1, TakenData
<1>5. CASE first
  BY <1>1, <1>3, <1>5, FirstRefusedData
<1>6. CASE later
  BY <1>1, <1>3, <1>6, LaterRefusedData
<1> QED
  BY <1>3, <1>4, <1>5, <1>6

\* Without URBs in hand and with the same ones issued, nothing else matters.
LEMMA QuietData ==
  ASSUME TypeInv, DataInv, Issued' = Issued,
         UNCHANGED <<request, continuation, alloc, submits, urbs, num_retired, iso_packet_offset,
                     transferred, buffer, results, pending, finished, delivered>>,
         Hand' = Hand, Hand' = 1 => cur' = cur, hpc = "bulk" <=> hpc' = "bulk",
         hpc' = "callback" => hpc = "callback" /\ status' = status,
         reap_action' = "NORMAL" => reap_action = "NORMAL",
         reap_action' = "NORMAL" /\ Flies => Calm'
  PROVE  DataInv'
<1>1. Issued \in Nat /\ Issued <= Issued'
  <2>1. IssuedOK
    BY IssuedType
  <2>2. Issued \in Nat
    BY <2>1 DEF IssuedOK
  <2> HIDE DEF Issued
  <2> QED
    BY <2>2
<1>2. Held' = Held
  BY DEF Held, Ours, OursDone
<1> HIDE DEF Issued, Held, Hand
<1> QED
  BY <1>1, <1>2, SameData

LEMMA UndoData ==
  ASSUME TypeInv, FlightInv, TypeInv', FlightInv', DataInv, NEW u \in Users,
         UndoUrb(u) \/ CancelUrb(u), ~Gone
  PROVE  DataInv'
<1>1. /\ pc[u] \in {"undo", "cancel"} /\ Discard(at[u])
      /\ Return(u) \/ UNCHANGED <<pc, lock>>
      /\ UNCHANGED <<request, continuation, submits, tpriv, transfer, hpc, cur>>
  BY DEF UndoUrb, CancelUrb
<1>2. lock = u /\ pc[u] # "submit" /\ at[u] \in Nat
  BY <1>1 DEF FlightInv, LockInv, TypeInv, ThreadType
<1>3. Issued' = Issued
  <2>1. Issued = num_urbs
    BY <1>2 DEF Issued
  <2>2. lock' \in Users => lock' = u /\ pc' = pc
    BY <1>1, <1>2, Locks DEF Return
  <2>3. Issued' = num_urbs'
    BY <1>2, <2>2 DEF Issued
  <2> QED
    BY <1>1, <2>1, <2>3 DEF tpriv, num_urbs
<1>4. UNCHANGED <<alloc, urbs, reap_action, num_retired, iso_packet_offset, transferred, buffer,
                  results, status>>
  BY <1>1 DEF tpriv, transfer
<1>5. Hand' = Hand
  BY <1>1 DEF Hand
<1>6. Flies => reap_action # "NORMAL"
  BY <1>1 DEF DataInv, NormalInv, Calm
<1> HIDE DEF Issued, Hand
<1> QED
  BY <1>1, <1>2, <1>3, <1>4, <1>5, <1>6, DiscardData

LEMMA CancelData ==
  ASSUME TypeInv, FlightInv, DataInv, NEW u \in Users, Cancel(u)
  PROVE  DataInv'
<1>1. lock = "none" /\ lock' = u /\ pc' = [pc EXCEPT ![u] = "cancel"]
  BY DEF Cancel
<1>2. Issued' = Issued
  <2>1. Issued = num_urbs
    BY <1>1, Locks DEF Issued
  <2>2. pc'[u] = "cancel"
    BY <1>1 DEF TypeInv, ThreadType
  <2>3. Issued' = num_urbs'
    BY <1>1, <2>2 DEF Issued
  <2> QED
    BY <2>1, <2>3 DEF Cancel, num_urbs
<1>3. reap_action' # "NORMAL"
  BY DEF Cancel
<1>4. Hand' = Hand /\ UNCHANGED <<hpc, status>>
  BY DEF Cancel, Hand
<1>5. UNCHANGED <<request, continuation, alloc, submits, urbs, num_retired, iso_packet_offset,
                  transferred, buffer, results, pending, finished, delivered, cur>>
  BY DEF Cancel, kernel
<1> HIDE DEF Issued, Hand
<1> QED
  BY <1>2, <1>3, <1>4, <1>5, QuietData

\* Steps after which nothing but the owner or the history is new.
LEMMA StutterData ==
  ASSUME TypeInv, DataInv,
         UNCHANGED <<request, continuation, lock, submits, tpriv, transfer, kernel, threads>>
  PROVE  DataInv'
<1>1. UNCHANGED <<alloc, urbs, reap_action, num_retired, iso_packet_offset, transferred, buffer,
                  results, status, pending, finished, delivered, hpc, cur, pc, at>>
  BY DEF tpriv, transfer, kernel, threads
<1>2. Issued' = Issued /\ Hand' = Hand
  BY <1>1 DEF Issued, Hand, Flies, num_urbs
<1>3. reap_action' = "NORMAL" /\ Flies => Calm'
  BY <1>1 DEF DataInv, NormalInv, Calm
<1> HIDE DEF Issued, Hand
<1> QED
  BY <1>1, <1>2, <1>3, QuietData

LEMMA CallbackData ==
  ASSUME TypeInv, FlightInv, DataInv, Callback
  PROVE  DataInv'
<1>1. hpc = "callback" /\ hpc' \in {"idle", "unlock"} /\ UNCHANGED <<submits, tpriv, kernel>>
  BY DEF Callback
<1>2. alloc' = 0 /\ UNCHANGED pending
  BY <1>1 DEF FlightInv, OwnerInv, Flies, tpriv, kernel
<1>3. DoneInv' /\ IsoDone'
  BY <1>1 DEF DoneInv, Ends, IsoDone, IsoInPlace
<1> QED
  BY <1>1, <1>2, <1>3, GroundedData

LEMMA UnlockData ==
  ASSUME TypeInv, DataInv, UnlockAgain, Running'
  PROVE  DataInv'
<1>1. hpc = "unlock" /\ hpc' = "idle" /\ lock = "none" /\ lock' = "none"
  BY DEF UnlockAgain, Running
<1>2. UNCHANGED <<request, continuation, alloc, submits, urbs, reap_action, num_retired,
                  iso_packet_offset, transferred, buffer, results, status, pending, finished,
                  delivered, cur, pc, at>>
  BY DEF UnlockAgain, tpriv, transfer, kernel
<1>3. Issued' = Issued /\ Hand' = Hand
  BY <1>1, <1>2 DEF Issued, Hand, Flies, num_urbs
<1>4. reap_action' = "NORMAL" /\ Flies => Calm'
  BY <1>1, <1>2 DEF DataInv, NormalInv, Calm
<1> HIDE DEF Issued, Hand
<1> QED
  BY <1>1, <1>2, <1>3, <1>4, QuietData

LEMMA DisconnectData ==
  ASSUME TypeInv, FlightInv, DataInv, handle_disconnect
  PROVE  DataInv'
<1>1. /\ hpc = "idle"
      /\ UNCHANGED <<request, continuation, lock, submits, reap_action, num_retired,
                     iso_packet_offset, timed_out, transferred, buffer, results, kernel, pc, at, cur>>
      /\ \/ alloc' = 0 /\ status' = "NO_DEVICE" /\ hpc' = "callback"
         \/ UNCHANGED <<alloc, urbs, status, hpc>>
  BY DEF handle_disconnect, Complete
<1>2. CASE alloc' = 0 /\ status' = "NO_DEVICE" /\ hpc' = "callback"
  <2>1. DoneInv' /\ IsoDone'
    BY <1>2 DEF DoneInv, Ends, IsoDone, IsoInPlace
  <2> QED
    BY <1>1, <1>2, <2>1, GroundedData DEF kernel
<1>3. CASE UNCHANGED <<alloc, urbs, status, hpc>>
  BY <1>1, <1>3, StutterData DEF tpriv, transfer, threads
<1> QED
  BY <1>1, <1>2, <1>3

LEMMA DiscardRestData ==
  ASSUME TypeInv, FlightInv, TypeInv', FlightInv', DataInv, DiscardRest
  PROVE  DataInv'
<1>1. /\ hpc = "discard" /\ hpc' \in {"idle", "discard"}
      /\ UNCHANGED kernel \/ Discard(cur.i)
      /\ lock' \in {lock, "none"}
      /\ UNCHANGED <<request, continuation, alloc, submits, urbs, iso_packet_offset, transferred,
                     buffer, results, num_retired, reap_action, status, pc, at>>
  BY DEF DiscardRest, tpriv, transfer
<1>2. lock = "handler" /\ Flies /\ cur.i \in Nat
  BY <1>1 DEF FlightInv, LockInv, OwnerInv, TypeInv, ThreadType, Entries
<1>3. Issued' = Issued
  BY <1>1, <1>2, Locks DEF Issued, num_urbs
<1>4. Hand' = Hand /\ Hand = 0 /\ hpc # "bulk" /\ hpc' # "bulk" /\ hpc' # "callback"
  BY <1>1 DEF Hand
<1>5. reap_action # "NORMAL"
  BY <1>1, <1>2 DEF DataInv, NormalInv, Calm
<1>6. CASE UNCHANGED kernel
  <2>1. UNCHANGED <<pending, finished, delivered>>
    BY <1>6 DEF kernel
  <2> HIDE DEF Issued, Hand
  <2> QED
    BY <1>1, <1>3, <1>4, <1>5, <2>1, QuietData
<1>7. CASE Discard(cur.i)
  <2> HIDE DEF Issued, Hand
  <2> QED
    BY <1>1, <1>2, <1>3, <1>4, <1>5, <1>7, DiscardData
<1> QED
  BY <1>1, <1>6, <1>7

----------------------------------------------------------------------------
(* What the handler does with the data *)

\* A URB that is reaped brings its data to its own part of the buffer.
LEMMA CopyPlace ==
  ASSUME NEW e \in Entries, NEW o \in Nat, o = urbs[e.i].offset, NEW m \in Nat, InPlace(m),
         buffer \in Seq(Nat), e.n > 0 => m <= o, o + e.n <= Len(buffer),
         NEW c, c = CopyIn(e)
  PROVE  /\ Len(c) = Len(buffer)
         /\ \A b \in 1 .. m : c[b] = b
         /\ \A k \in 1 .. e.n : c[o + k] = e.first + k
<1> DEFINE l == Len(buffer)
           f(b) == IF b - o \in 1 .. e.n THEN e.first + (b - o) ELSE buffer[b]
<1>1. l \in Nat /\ DOMAIN buffer = 1 .. l /\ e.n \in Nat /\ e.first \in Nat
  BY LenProperties DEF Entries
<1>2. c = [b \in 1 .. l |-> f(b)]
  BY <1>1 DEF CopyIn
<1> HIDE DEF f
<1>3. Len(c) = l /\ \A b \in 1 .. l : c[b] = f(b)
  BY <1>1, <1>2
<1>4. ASSUME NEW b \in 1 .. m
      PROVE  c[b] = b
  <2>1. b \in 1 .. l /\ buffer[b] = b
    BY <1>1 DEF InPlace
  <2>2. b - o \notin 1 .. e.n
    <3> HIDE DEF l
    <3> QED
      BY <1>1, SMTT(30)
  <2>3. f(b) = buffer[b]
    BY <2>2 DEF f
  <2> QED
    BY <1>3, <2>1, <2>3
<1>5. ASSUME NEW k \in 1 .. e.n
      PROVE  c[o + k] = e.first + k
  <2>1. o + k \in 1 .. l /\ (o + k) - o = k
    <3>1. o + e.n <= l
      OBVIOUS
    <3> HIDE DEF l
    <3> QED
      BY <1>1, <3>1, SMTT(60)
  <2>2. f(o + k) = e.first + k
    BY <2>1 DEF f
  <2> QED
    BY <1>3, <2>1, <2>2
<1> QED
  BY <1>3, <1>4, <1>5

\* The next finished URB goes to the handler.
LEMMA ReapData ==
  ASSUME TypeInv, FlightInv, TypeInv', DataInv, reap_for_handle, Running'
  PROVE  DataInv'
<1>1. PICK e : e = Head(finished)
  OBVIOUS
<1>2. /\ finished # <<>> /\ finished' = Tail(finished) /\ cur' = e /\ hpc = "idle"
      /\ e.alloc = alloc /\ owner = "libusb" /\ hpc' = request.type
      /\ buffer' = IF request.type = "bulk" /\ ~request.out THEN CopyIn(e) ELSE buffer
      /\ UNCHANGED <<request, continuation, alloc, submits, urbs, reap_action, num_retired,
                     iso_packet_offset, transferred, results, status, pending, delivered,
                     lock, pc, at>>
  BY <1>1 DEF reap_for_handle, Running, tpriv
<1>3. /\ finished \in Seq(Entries) /\ finished \in Seq(OfFinished) /\ e \in OfFinished
      /\ e \in Entries /\ e.n \in Nat /\ e.i \in Nat /\ e.first \in Nat
  <2>1. finished \in Seq(Entries) /\ finished \in Seq(OfFinished)
    BY DEF TypeInv, KernelType, FlightInv, QueueInv
  <2>2. e \in Entries /\ e \in OfFinished
    BY <1>1, <1>2, <2>1, HeadTailProperties
  <2> QED
    BY <2>1, <2>2 DEF Entries
<1>4. request.type \in {"bulk", "iso", "control"} /\ hpc' \notin {"discard", "callback"}
  <2>1. request.type \in {"bulk", "iso", "control"}
    BY RequestsType DEF TypeInv, RequestType, Request
  <2> QED
    BY <1>2, <2>1
<1>5. Flies /\ alloc = submits /\ e \in OursDone
  <2>1. e.alloc \in 1 .. submits
    BY <1>3 DEF OfFinished
  <2>2. submits \in Nat /\ alloc \in {0, submits}
    BY BoundsAssumption DEF TypeInv, RequestType
  <2>3. alloc # 0
    BY <1>2, <2>1, <2>2
  <2> QED
    BY <1>2, <1>3, <2>2, <2>3 DEF Flies, OursDone
<1>6. e.i \in 1 .. Issued /\ e.n <= urbs[e.i].length
  BY <1>3, <1>5 DEF OfFinished, OursDone
<1>7. e.i \in 1 .. num_urbs /\ urbs[e.i] \in Urb /\ num_urbs \in Nat
  <2>1. IssuedOK
    BY IssuedType
  <2>2. e.i \in 1 .. num_urbs /\ num_urbs \in Nat
    <3> HIDE DEF Issued
    <3> QED
      BY <1>6, <2>1 DEF IssuedOK
  <2> QED
    BY <2>2, ElementOfSeq DEF TypeInv, RequestType, num_urbs
<1>8. Issued' = Issued
  BY <1>2 DEF Issued, Flies, num_urbs
<1>9. Hand = 0 /\ Hand' = 1 /\ Ours' = Ours /\ OursDone' = OursDone
  BY <1>2, <1>4 DEF Hand, Ours, OursDone
<1> HIDE DEF Issued
<1>10. ShapeInv'
  BY <1>2 DEF DataInv, ShapeInv, BulkShape, BulkPart, IsoShape, IsoPart, Flies, num_urbs
<1>11. OrderInv'
  <2>1. Rising' = Rising /\ Flagged' = Flagged
    BY <1>2, <1>9 DEF Rising, Flagged, Flies
  <2> QED
    BY <1>2, <2>1 DEF DataInv, OrderInv, Sorted
<1>12. NormalInv'
  <2> SUFFICES ASSUME reap_action = "NORMAL"
               PROVE  Calm' /\ InLine' /\ cur'.i = num_retired' + 1
    BY <1>2, <1>9 DEF NormalInv
  <2>1. Calm /\ InLine
    BY <1>1, <1>2, <1>5 DEF DataInv, NormalInv, StaleFirst
  <2> DEFINE r == num_retired
             n == Len(finished)
             l == Len(Tail(finished))
  <2>2. r \in Nat /\ n \in Nat /\ n # 0 /\ l = n - 1
    BY <1>2, <1>3, EmptySeq, LenProperties, HeadTailProperties DEF TypeInv, PrivType
  <2>3. From(finished, OursDone, r) /\ From(pending, Ours, r + n)
    <3>1. r + Hand = r
      BY <1>9, <2>2
    <3> HIDE DEF r, n, Hand
    <3> QED
      BY <2>1, <3>1 DEF InLine, r, n
  <2>4. e.i = r + 1 /\ From(Tail(finished), OursDone, r + 1)
    <3> HIDE DEF r
    <3> QED
      BY <1>1, <1>2, <1>3, <2>2, <2>3, FromTail
  <2>5. r + Hand' = r + 1 /\ r + n = r + 1 + l
    BY <1>9, <2>2
  <2>6. InLine'
    <3> DEFINE m == num_retired + Hand
    <3>1. m' = r + 1 /\ (m + Len(finished))' = r + n
      <4>1. m' = r + 1
        BY <1>2, <2>5
      <4>2. (m + Len(finished))' = m' + l
        BY <1>2
      <4> QED
        BY <2>5, <4>1, <4>2
    <3>2. From(finished, OursDone, m)' /\ From(pending, Ours, m + Len(finished))'
      <4>1. From(finished', OursDone', m')
        BY <1>2, <1>9, <2>4, <3>1
      <4>2. From(pending', Ours', (m + Len(finished))')
        BY <1>2, <1>9, <2>3, <3>1
      <4> HIDE DEF m
      <4> QED
        BY <4>1, <4>2 DEF From
    <3> QED
      BY <3>2 DEF InLine
  <2> QED
    BY <1>2, <1>4, <2>1, <2>4, <2>6 DEF Calm
<1>13. IsoInv'
  <2> SUFFICES ASSUME Short, request.type = "iso", reap_action = "NORMAL" PROVE IsoInv'
    BY <1>2 DEF IsoInv, Short
  <2>1. /\ num_retired < num_urbs => iso_packet_offset + 1 = urbs[num_retired + 1].offset
        /\ Filled /\ finished \in Seq(Fine)
    BY <1>5 DEF DataInv, IsoInv
  <2>2. Fine' = Fine
    BY <1>9 DEF Fine
  <2>3. finished' \in Seq(Fine) /\ e \in Fine
    BY <1>1, <1>2, <2>1, HeadTailProperties
  <2>4. e.status = "ok"
    BY <1>5, <2>3 DEF Fine
  <2> QED
    BY <1>2, <2>1, <2>2, <2>3, <2>4 DEF IsoInv, Filled, num_urbs
<1>14. DoneInv' /\ IsoDone'
  BY <1>4 DEF DoneInv, Ends, IsoDone, IsoInPlace
<1>15. Reads /\ e.n > 0 => e.first = transferred /\ transferred <= Off(e.i)
  <2> SUFFICES ASSUME Reads, e.n > 0 PROVE e.first = transferred /\ transferred <= Off(e.i)
    OBVIOUS
  <2> DEFINE K == Kept(finished, Full)
  <2>1. finished \in Seq(Placed) /\ Chain(K)
    BY DEF DataInv, BytesInv
  <2>2. e \in Full
    BY <1>5 DEF Full
  <2>3. K # <<>> /\ Head(K) = e /\ K \in Seq(Entries)
    BY <1>1, <1>2, <1>3, <2>2, KeptHead, KeptIn
  <2>4. Line(K, Got, delivered)
    <3> HIDE DEF K, Held, Got
    <3> QED
      BY <2>1, <2>3 DEF Chain
  <2>5. e.first = Got
    <3> HIDE DEF K, Got
    <3> QED
      BY <2>3, <2>4, LineTail
  <2>6. Got = transferred
    <3>1. Got = transferred + 0 /\ transferred \in Nat
      BY <1>2 DEF Got, TypeInv, TransferType
    <3> HIDE DEF Got
    <3> QED
      BY <3>1
  <2>7. e.first <= Off(e.i)
    <3>1. e \in Placed
      BY <1>1, <1>2, <2>1, HeadTailProperties
    <3> QED
      BY <1>5, <3>1 DEF Placed
  <2> QED
    BY <2>5, <2>6, <2>7
<1>16. BytesInv'
  <2> SUFFICES ASSUME Reads PROVE BytesInv'
    BY <1>2 DEF BytesInv, Reads, Flies
  <2>1. /\ delivered <= Off(Issued + 1) /\ pending \in Seq(Later) /\ finished \in Seq(Placed)
        /\ Chain(Kept(finished, Full))
        /\ reap_action = "NORMAL" => transferred = Off(num_retired + 1)
    BY DEF DataInv, BytesInv
  <2>2. Later' = Later /\ Placed' = Placed /\ Full' = Full
    BY <1>2, <1>9 DEF Later, Placed, Full
  <2>3. finished' \in Seq(Placed)
    BY <1>2, <2>1, HeadTailProperties
  <2>4. Got = transferred /\ Got' = transferred + e.n
    <3>1. Got = transferred + 0 /\ transferred \in Nat /\ Got' = transferred' + cur'.n
      BY <1>2 DEF Got, Reads, TypeInv, TransferType
    <3> HIDE DEF Got
    <3> QED
      BY <1>2, <3>1
  <2>5. Chain(Kept(finished, Full))'
    <3> DEFINE K == Kept(finished, Full)
               t == Kept(Tail(finished), Full)
    <3>1. K' = t /\ K \in Seq(Entries)
      BY <1>2, <1>3, <2>2, KeptIn
    <3>2. IF e \in Full THEN K # <<>> /\ Head(K) = e /\ Tail(K) = t ELSE K = t
      BY <1>1, <1>2, <1>3, KeptHead
    <3>3. K # <<>> \/ Held = Issued => Line(K, Got, delivered)
      BY <2>1 DEF Chain
    <3>4. Held' = Held
      <4> DEFINE p == Count(pending, Ours)
                 f == Count(finished, OursDone)
                 fn == Count(Tail(finished), OursDone)
                 r == num_retired
                 h == Hand
                 hn == Hand'
      <4>1. f = One(e, OursDone) + fn /\ One(e, OursDone) = 1
        BY <1>1, <1>2, <1>3, <1>5, CountHead DEF One
      <4>2. p \in Nat /\ fn \in Nat /\ r \in Nat /\ h = 0 /\ hn = 1
        <5>1. Tail(finished) \in Seq(Entries) /\ pending \in Seq(Queued)
          BY <1>2, <1>3, HeadTailProperties DEF TypeInv, KernelType
        <5> QED
          BY <1>9, <5>1, CountType DEF TypeInv, PrivType
      <4>3. Held = r + p + f + h /\ Held' = r + p + fn + hn
        BY <1>2, <1>9 DEF Held
      <4> HIDE DEF p, f, fn, r, h, hn, Held
      <4> QED
        BY <4>1, <4>2, <4>3
    <3> HIDE DEF Held, Got, K, t
    <3>5. K' # <<>> \/ Held' = Issued' => Line(t, Got', delivered)
      <4>1. CASE e \in Full
        <5>1. Line(Tail(K), Got + Head(K).n, delivered)
          BY <3>1, <3>2, <3>3, <4>1, LineTail
        <5> QED
          BY <2>4, <3>2, <4>1, <5>1
      <4>2. CASE e \notin Full
        <5>1. e.n = 0
          BY <1>3, <1>5, <4>2 DEF Full
        <5>2. Got' = Got /\ K = t
          BY <2>4, <3>2, <4>2, <5>1 DEF TypeInv, TransferType
        <5> QED
          BY <1>8, <3>1, <3>3, <3>4, <5>2
      <4> QED
        BY <4>1, <4>2
    <3>6. Line(t, Got', delivered) => Line(K, Got, delivered)'
      BY <1>2, <3>1 DEF Line
    <3> QED
      BY <3>5, <3>6 DEF Chain, K
  <2>6. delivered' <= Off(Issued' + 1) /\ (reap_action' = "NORMAL" => transferred' = Off(num_retired' + 1))
    BY <1>2, <1>8, <2>1 DEF Off
  <2> QED
    BY <1>2, <2>1, <2>2, <2>3, <2>5, <2>6 DEF BytesInv
<1>17. BufferInv'
  <2> SUFFICES ASSUME Reads
               PROVE  /\ InPlace(transferred)'
                      /\ cur'.n > 0 =>
                           /\ transferred' <= Off(cur'.i)
                           /\ \A k \in 1 .. cur'.n : buffer'[Off(cur'.i) + k] = transferred' + k
    BY <1>2 DEF BufferInv, Reads, Flies, Off
  <2> DEFINE o == Off(e.i)
  <2>1. o \in Nat /\ o = urbs[e.i].offset /\ o + e.n <= Len(buffer)
    <3>1. o = urbs[e.i].offset
      BY <1>5, <1>7 DEF DataInv, ShapeInv, BulkShape, BulkPart, Reads
    <3>2. urbs[e.i].offset \in Nat /\ urbs[e.i].length \in Nat
      BY <1>7 DEF Urb
    <3>3. urbs[e.i].offset + urbs[e.i].length <= Len(buffer)
      BY <1>7 DEF FlightInv, Reach, Reads
    <3>4. Len(buffer) \in Nat
      BY LenProperties DEF TypeInv, TransferType
    <3> HIDE DEF o
    <3> QED
      BY <1>3, <1>6, <3>1, <3>2, <3>3, <3>4
  <2>2. transferred \in Nat /\ InPlace(transferred) /\ buffer \in Seq(Nat)
    BY DEF DataInv, BufferInv, TypeInv, TransferType
  <2>3. buffer' = CopyIn(e)
    BY <1>2 DEF Reads
  <2>4. PICK c : c = CopyIn(e)
    OBVIOUS
  <2>5. e.n > 0 => e.first = transferred /\ transferred <= o
    BY <1>15
  <2> HIDE DEF o
  <2>6. PICK x \in Entries : x = e
    BY <1>3
  <2>7. /\ Len(c) = Len(buffer)
        /\ \A b \in 1 .. transferred : c[b] = b
        /\ \A k \in 1 .. e.n : c[o + k] = e.first + k
    <3>1. /\ o = urbs[x.i].offset /\ (x.n > 0 => transferred <= o) /\ o + x.n <= Len(buffer)
          /\ c = CopyIn(x)
      BY <2>1, <2>4, <2>5, <2>6
    <3>2. /\ Len(c) = Len(buffer)
          /\ \A b \in 1 .. transferred : c[b] = b
          /\ \A k \in 1 .. x.n : c[o + k] = x.first + k
      BY <2>1, <2>2, <3>1, CopyPlace
    <3> QED
      BY <2>6, <3>2
  <2>8. InPlace(transferred)'
    BY <1>2, <2>2, <2>3, <2>4, <2>7 DEF InPlace
  <2>9. cur' = e /\ transferred' = transferred /\ buffer' = c
    BY <1>2, <2>3, <2>4
  <2> QED
    BY <2>5, <2>7, <2>8, <2>9 DEF o
<1> QED
  BY <1>10, <1>11, <1>12, <1>13, <1>14, <1>16, <1>17 DEF DataInv

\* A control transfer has neither a buffer to fill nor packets.
LEMMA ControlData ==
  ASSUME TypeInv, FlightInv, DataInv, handle_control_completion
  PROVE  DataInv'
<1>1. hpc = "control" /\ alloc' = 0 /\ UNCHANGED <<request, submits, kernel>>
  BY DEF handle_control_completion, Complete, HandlerOnly
<1>2. request.type = "control"
  BY <1>1, InHand
<1>3. DoneInv' /\ IsoDone'
  BY <1>1, <1>2 DEF DoneInv, Ends, IsoDone, IsoInPlace
<1> QED
  BY <1>1, <1>3, GroundedData DEF kernel

\* A URB is done with and others are to come.
LEMMA RetireData ==
  ASSUME TypeInv, FlightInv, DataInv, hpc \in {"bulk", "iso"}, lock = "none",
         lock' \in {"none", "handler"}, hpc' \in {"idle", "discard"},
         UNCHANGED <<request, continuation, alloc, submits, urbs, pending, finished, delivered,
                     pc, at>>,
         num_retired' = num_retired + 1, Len(results') = Len(results),
         reap_action' = "NORMAL" => reap_action = "NORMAL" /\ hpc' = "idle",
         BytesInv', BufferInv', IsoInv'
  PROVE  DataInv'
<1>1. Hand = 1 /\ Hand' = 0 /\ num_retired \in Nat
  BY DEF Hand, TypeInv, PrivType
<1>2. ShapeInv'
  BY DEF DataInv, ShapeInv, BulkShape, BulkPart, IsoShape, IsoPart, Flies, num_urbs
<1>3. Ours' = Ours /\ OursDone' = OursDone /\ Rising' = Rising /\ Flagged' = Flagged
  BY DEF Ours, OursDone, Rising, Flagged, Flies
<1>4. OrderInv'
  BY <1>3 DEF DataInv, OrderInv, Sorted
<1>5. NormalInv'
  <2> SUFFICES ASSUME Flies, reap_action' = "NORMAL"
               PROVE  Calm' /\ (StaleFirst' \/ InLine')
    BY <1>1 DEF NormalInv, Flies
  <2>1. Calm /\ (StaleFirst \/ InLine) /\ hpc' = "idle"
    BY DEF DataInv, NormalInv
  <2> DEFINE m == num_retired + Hand
  <2>2. m' = m
    <3>1. m' = num_retired' + 0 /\ m = num_retired + 1
      BY <1>1
    <3> HIDE DEF m
    <3> QED
      BY <1>1, <3>1
  <2>3. InLine => InLine'
    <3>1. InLine <=> From(finished, OursDone, m) /\ From(pending, Ours, m + Len(finished))
      BY DEF InLine
    <3>2. InLine' <=> From(finished, OursDone, m)' /\ From(pending, Ours, m + Len(finished))'
      BY DEF InLine
    <3> HIDE DEF m
    <3> QED
      BY <1>3, <2>2, <3>1, <3>2 DEF From
  <2>4. StaleFirst => StaleFirst'
    BY <1>3 DEF StaleFirst
  <2> QED
    BY <2>1, <2>3, <2>4 DEF Calm
<1>6. DoneInv' /\ IsoDone'
  BY DEF DoneInv, Ends, IsoDone, IsoInPlace
<1> QED
  BY <1>2, <1>4, <1>5, <1>6 DEF DataInv

\* The results of a URB that comes back in its turn go where they belong.
LEMMA FillOn ==
  ASSUME TypeInv, IsoShape, IsoInv, Short, Flies, request.type = "iso", reap_action = "NORMAL",
         cur.i \in 1 .. num_urbs, num_urbs \in Nat, urbs[cur.i] \in Urb, cur.i = num_retired + 1,
         results' = [k \in DOMAIN results |->
                      LET j == k - iso_packet_offset
                      IN  IF j \in 1..urbs[cur.i].length THEN urbs[cur.i].offset + j - 1
                          ELSE results[k]],
         iso_packet_offset' = NextPacket(urbs[cur.i])
  PROVE  /\ Filled' /\ Len(results') = Len(results)
         /\ iso_packet_offset' + 1 = IF cur.i = num_urbs THEN Len(results) + 1
                                     ELSE urbs[cur.i + 1].offset
<1> DEFINE o == urbs[cur.i].offset
           l == urbs[cur.i].length
           p == iso_packet_offset
           n == Len(results)
           f(k) == IF k - p \in 1 .. l THEN o + (k - p) - 1 ELSE results[k]
<1>1. /\ o \in Nat /\ l \in Nat /\ p \in Nat /\ n \in Nat /\ results \in Seq(Nat)
      /\ DOMAIN results = 1 .. n
  BY LenProperties DEF Urb, TypeInv, PrivType, TransferType
<1>2. p + 1 = o /\ \A k \in DOMAIN results : k <= p => results[k] = k
  <2>1. num_retired < num_urbs
    BY DEF TypeInv, PrivType
  <2> QED
    BY <2>1 DEF IsoInv, Filled
<1>3. o + l = IF cur.i = num_urbs THEN n + 1 ELSE urbs[cur.i + 1].offset
  BY DEF IsoShape, IsoPart, num_urbs
<1>4. iso_packet_offset' = p + l
  BY DEF NextPacket
<1>5. results' = [k \in 1 .. n |-> f(k)]
  BY <1>1
<1> HIDE DEF f
<1>6. DOMAIN results' = 1 .. n /\ Len(results') = n /\ \A k \in 1 .. n : results'[k] = f(k)
  BY <1>1, <1>5
<1>7. ASSUME NEW k \in 1 .. n, k <= p + l
      PROVE  f(k) = k
  <2> HIDE DEF o, l, p
  <2>1. CASE k <= p
    <3>1. k - p \notin 1 .. l
      <4> HIDE DEF n
      <4> QED
        BY <1>1, <2>1
    <3>2. f(k) = results[k]
      BY <3>1 DEF f
    <3> QED
      BY <1>1, <1>2, <2>1, <3>2
  <2>2. CASE ~(k <= p)
    <3>1. k - p \in 1 .. l /\ o + (k - p) - 1 = k
      <4> HIDE DEF n
      <4> QED
        BY <1>1, <1>2, <1>7, <2>2
    <3> QED
      BY <3>1 DEF f
  <2> QED
    BY <2>1, <2>2
<1>8. Filled'
  BY <1>4, <1>6, <1>7 DEF Filled
<1>9. p + l + 1 = o + l
  <2> HIDE DEF o, l, p
  <2> QED
    BY <1>1, <1>2
<1> QED
  BY <1>3, <1>4, <1>6, <1>8, <1>9

LEMMA IsoData ==
  ASSUME TypeInv, FlightInv, DataInv, handle_iso_completion
  PROVE  DataInv'
<1> DEFINE last == IF reap_action = "NORMAL" THEN cur.i = num_urbs
                   ELSE num_retired + 1 = num_urbs
           filled == [k \in DOMAIN results |->
                       LET j == k - iso_packet_offset
                       IN  IF j \in 1..urbs[cur.i].length THEN urbs[cur.i].offset + j - 1
                           ELSE results[k]]
<1>1. /\ hpc = "iso" /\ lock = "none" /\ num_retired' = num_retired + 1
      /\ IF cur.status = "ok"
         THEN results' = filled /\ iso_packet_offset' = NextPacket(urbs[cur.i])
         ELSE UNCHANGED <<results, iso_packet_offset>>
      /\ UNCHANGED <<request, continuation, submits, pending, finished, delivered, pc, at,
                     lock, reap_action, transferred, buffer>>
  BY DEF handle_iso_completion, HandlerOnly, kernel
<1>2. \/ /\ last /\ alloc' = 0 /\ hpc' = "callback"
         /\ status' = "COMPLETED" => reap_action = "NORMAL"
      \/ ~last /\ hpc' = "idle" /\ UNCHANGED <<alloc, urbs>>
  BY DEF handle_iso_completion, Complete, Cancelled
<1>3. /\ Hand = 1 /\ Flies /\ request.type = "iso" /\ cur.i \in 1 .. num_urbs /\ num_urbs \in Nat
      /\ urbs[cur.i] \in Urb
  BY <1>1, InHand
<1>4. ASSUME Short, reap_action = "NORMAL"
      PROVE  /\ Filled' /\ Len(results') = Len(results) /\ cur.i = num_retired + 1
             /\ iso_packet_offset' + 1 = IF cur.i = num_urbs THEN Len(results) + 1
                                         ELSE urbs[cur.i + 1].offset
  <2>1. cur.i = num_retired + 1
    BY <1>3, <1>4 DEF DataInv, NormalInv
  <2>2. cur.status = "ok" /\ IsoShape /\ IsoInv
    BY <1>3, <1>4 DEF DataInv, ShapeInv, IsoInv
  <2>3. results' = filled /\ iso_packet_offset' = NextPacket(urbs[cur.i])
    BY <1>1, <2>2
  <2> QED
    BY <1>3, <1>4, <2>1, <2>2, <2>3, FillOn
<1>5. Len(results') = Len(results)
  <2>1. results \in Seq(Nat) /\ DOMAIN results = 1 .. Len(results) /\ Len(results) \in Nat
    BY LenProperties DEF TypeInv, TransferType
  <2> DEFINE n == Len(results)
             f(k) == LET j == k - iso_packet_offset
                     IN  IF j \in 1..urbs[cur.i].length THEN urbs[cur.i].offset + j - 1
                         ELSE results[k]
  <2>2. results' = results \/ results' = [k \in 1 .. n |-> f(k)]
    BY <1>1, <2>1
  <2> HIDE DEF f
  <2> QED
    BY <2>1, <2>2
<1>6. CASE /\ last /\ alloc' = 0 /\ hpc' = "callback"
           /\ status' = "COMPLETED" => reap_action = "NORMAL"
  <2>1. DoneInv'
    BY <1>1, <1>3 DEF DoneInv, Ends
  <2>2. IsoDone'
    <3> SUFFICES ASSUME Short, status' = "COMPLETED" PROVE \A k \in DOMAIN results' : results'[k] = k
      BY DEF IsoDone, IsoInPlace, Short
    <3>1. reap_action = "NORMAL" /\ cur.i = num_urbs
      BY <1>6
    <3>2. Filled' /\ iso_packet_offset' + 1 = Len(results') + 1
      BY <1>4, <1>5, <3>1
    <3>3. iso_packet_offset' \in Nat
      <4>1. urbs[cur.i].length \in Nat /\ iso_packet_offset \in Nat
        BY <1>3 DEF Urb, TypeInv, PrivType
      <4> QED
        BY <1>1, <4>1 DEF NextPacket
    <3>4. DOMAIN results' = 1 .. Len(results') /\ Len(results') \in Nat
      <4>1. results \in Seq(Nat) /\ Len(results) \in Nat
        BY LenProperties DEF TypeInv, TransferType
      <4>2. DOMAIN results' = DOMAIN results
        BY <1>1
      <4> QED
        BY <1>5, <4>1, <4>2
    <3>5. \A k \in DOMAIN results' : k <= iso_packet_offset'
      BY <3>2, <3>3, <3>4
    <3> QED
      BY <3>2, <3>5 DEF Filled
  <2> QED
    BY <1>1, <1>6, <2>1, <2>2, GroundedData
<1>7. CASE ~last /\ hpc' = "idle" /\ UNCHANGED <<alloc, urbs>>
  <2>1. BytesInv' /\ BufferInv'
    BY <1>1, <1>3 DEF BytesInv, BufferInv, Reads
  <2>2. IsoInv'
    <3> SUFFICES ASSUME Short, reap_action = "NORMAL" PROVE IsoInv'
      BY <1>1 DEF IsoInv, Short
    <3>1. Filled' /\ cur.i = num_retired + 1 /\ cur.i # num_urbs
          /\ iso_packet_offset' + 1 = urbs[cur.i + 1].offset
      BY <1>4, <1>7
    <3>2. finished' \in Seq(Fine')
      <4>1. finished \in Seq(Fine)
        BY <1>3 DEF DataInv, IsoInv
      <4>2. Fine' = Fine
        BY <1>1 DEF Fine, OursDone
      <4> QED
        BY <1>1, <4>1, <4>2
    <3>3. iso_packet_offset' + 1 = urbs'[num_retired' + 1].offset
      BY <1>1, <1>7, <3>1
    <3>4. Hand' # 1
      BY <1>7 DEF Hand
    <3> QED
      BY <3>1, <3>2, <3>3, <3>4 DEF IsoInv
  <2> QED
    BY <1>1, <1>5, <1>7, <2>1, <2>2, RetireData
<1> QED
  BY <1>2, <1>6, <1>7

\* The bytes in the handler's hand go behind those the transfer has.
LEMMA GotPlace ==
  ASSUME TypeInv, FlightInv, DataInv, hpc = "bulk", ~request.out,
         transferred' = transferred + cur.n,
         \/ buffer' = IF cur.n > 0 THEN MoveUp(cur) ELSE buffer
         \/ reap_action = "NORMAL" /\ buffer' = buffer
  PROVE  InPlace(transferred)'
<1> DEFINE o == Off(cur.i)
           t == transferred
           c == cur.n
           l == urbs[cur.i].length
           n == Len(buffer)
           f(b) == IF b - t \in 1 .. c THEN buffer[o + (b - t)] ELSE buffer[b]
<1>1. /\ Reads /\ cur.i \in 1 .. num_urbs /\ num_urbs \in Nat /\ urbs[cur.i] \in Urb
      /\ c <= l /\ c \in Nat /\ Hand = 1
  BY InHand DEF Reads
<1>2. /\ t \in Nat /\ l \in Nat /\ n \in Nat /\ DOMAIN buffer = 1 .. n
  BY <1>1, LenProperties DEF Urb, TypeInv, TransferType
<1>3. urbs[cur.i].offset = o /\ o \in Nat /\ o + l <= n
  <2>1. urbs[cur.i].offset = o
    BY <1>1 DEF DataInv, ShapeInv, BulkShape, BulkPart, Reads
  <2>2. urbs[cur.i].offset + l <= n
    BY <1>1 DEF FlightInv, Reach, Reads
  <2>3. o \in Nat
    BY <1>1, OffStep
  <2> QED
    BY <2>1, <2>2, <2>3
<1>4. /\ t <= n /\ \A b \in 1 .. t : buffer[b] = b
      /\ c > 0 => t <= o /\ \A k \in 1 .. c : buffer[o + k] = t + k
  BY <1>1 DEF DataInv, BufferInv, InPlace
<1>5. t + c <= n
  <2> HIDE DEF o, t, c, l, n
  <2> QED
    BY <1>1, <1>2, <1>3, <1>4
<1>6. CASE c = 0
  <2>1. buffer' = buffer /\ transferred' = t
    BY <1>2, <1>6
  <2> QED
    BY <1>4, <2>1 DEF InPlace
<1>7. CASE c > 0 /\ buffer' = MoveUp(cur)
  <2>1. buffer' = [b \in 1 .. n |-> f(b)]
    BY <1>2, <1>3, <1>7 DEF MoveUp
  <2>2. ASSUME NEW b \in 1 .. t + c
        PROVE  f(b) = b
    <3> HIDE DEF o, t, c, l, n
    <3>1. CASE b <= t
      <4>1. b - t \notin 1 .. c /\ b \in 1 .. t
        BY <1>1, <1>2, <3>1
      <4>2. f(b) = buffer[b]
        BY <4>1
      <4> QED
        BY <1>4, <4>1, <4>2
    <3>2. CASE ~(b <= t)
      <4>1. PICK k : k = b - t
        OBVIOUS
      <4>2. k \in 1 .. c /\ t + k = b
        BY <1>1, <1>2, <3>2, <4>1
      <4>3. buffer[o + k] = t + k
        BY <1>4, <1>7, <4>2
      <4> QED
        BY <4>1, <4>2, <4>3
    <3> QED
      BY <3>1, <3>2
  <2> HIDE DEF f
  <2>3. Len(buffer') = n /\ \A b \in 1 .. n : buffer'[b] = f(b)
    BY <1>2, <2>1
  <2>4. \A b \in 1 .. t + c : b \in 1 .. n
    BY <1>1, <1>2, <1>5
  <2> QED
    BY <1>5, <2>2, <2>3, <2>4 DEF InPlace
<1>8. CASE c > 0 /\ reap_action = "NORMAL" /\ buffer' = buffer
  <2>1. cur.i = num_retired + 1 /\ t = Off(num_retired + 1)
    BY <1>1, <1>8 DEF DataInv, NormalInv, BytesInv, Reads
  <2>2. t = o
    BY <2>1
  <2>3. ASSUME NEW b \in 1 .. t + c
        PROVE  buffer[b] = b
    <3> HIDE DEF o, t, c, l, n
    <3>1. CASE b <= t
      <4>1. b \in 1 .. t
        BY <1>1, <1>2, <3>1
      <4> QED
        BY <1>4, <4>1
    <3>2. CASE ~(b <= t)
      <4>1. PICK k : k = b - t
        OBVIOUS
      <4>2. k \in 1 .. c /\ t + k = b
        BY <1>1, <1>2, <3>2, <4>1
      <4>3. buffer[o + k] = t + k
        BY <1>4, <1>8, <4>2
      <4> QED
        BY <2>2, <4>2, <4>3
    <3> QED
      BY <3>1, <3>2
  <2> QED
    BY <1>5, <1>8, <2>3 DEF InPlace
<1> QED
  BY <1>1, <1>6, <1>7, <1>8

\* The last URB is in hand: no other has bytes that are still to come.
LEMMA LastBytes ==
  ASSUME TypeInv, FlightInv, DataInv, hpc = "bulk", ~request.out, lock = "none",
         num_retired + 1 = num_urbs
  PROVE  transferred + cur.n = delivered /\ Count(pending, Ours) = 0
<1> DEFINE p == Count(pending, Ours)
           f == Count(finished, OursDone)
           r == num_retired
<1>1. Reads /\ Hand = 1 /\ num_urbs \in Nat
  BY InHand DEF Reads
<1>2. p \in Nat /\ f \in Nat /\ r \in Nat
  BY HeldType DEF HeldOK, TypeInv, PrivType
<1>3. Issued = num_urbs
  BY Locks DEF Issued
<1>4. Held = r + p + f + 1 /\ Held <= num_urbs
  <2>1. Held <= Issued
    BY <1>1 DEF FlightInv, CountInv, Reads
  <2> HIDE DEF Issued
  <2> QED
    BY <1>1, <1>3, <2>1 DEF Held
<1>5. p = 0 /\ f = 0 /\ Held = num_urbs
  <2> HIDE DEF p, f, r, Held
  <2>1. r + 1 = num_urbs
    BY DEF r
  <2> QED
    BY <1>2, <1>4, <2>1
<1>6. Kept(finished, Full) = <<>>
  BY <1>5, NoneFull
<1>7. Line(<<>>, Got, delivered)
  <2>1. Chain(Kept(finished, Full)) /\ Held = Issued
    BY <1>1, <1>3, <1>5 DEF DataInv, BytesInv
  <2> HIDE DEF Held, Issued, Got
  <2> QED
    BY <1>6, <2>1 DEF Chain
<1>8. Got = delivered
  <2> HIDE DEF Got
  <2> QED
    BY <1>7 DEF Line
<1> QED
  BY <1>5, <1>8 DEF Got

\* A URB of a bulk transfer is done with and others are to come.
LEMMA RetireBulk ==
  ASSUME TypeInv, FlightInv, DataInv, hpc = "bulk", lock = "none",
         lock' \in {"none", "handler"}, hpc' \in {"idle", "discard"},
         UNCHANGED <<request, continuation, alloc, submits, urbs, pending, finished, delivered,
                     pc, at, results>>,
         num_retired' = num_retired + 1, transferred' = transferred + cur.n,
         \/ buffer' = IF cur.n > 0 THEN MoveUp(cur) ELSE buffer
         \/ reap_action = "NORMAL" /\ buffer' = buffer,
         reap_action' = "NORMAL" =>
           /\ reap_action = "NORMAL" /\ hpc' = "idle"
           /\ cur.i < num_urbs /\ cur.n = urbs[cur.i].length
  PROVE  DataInv'
<1>1. /\ Hand = 1 /\ Flies /\ request.type = "bulk" /\ num_retired \in Nat
      /\ cur.i \in 1 .. num_urbs /\ num_urbs \in Nat /\ cur.n \in Nat
  BY InHand DEF TypeInv, PrivType
<1>2. IsoInv'
  BY <1>1 DEF IsoInv
<1>3. ASSUME Reads
      PROVE  BytesInv' /\ BufferInv'
  <2>1. InPlace(transferred)'
    BY <1>3, GotPlace DEF Reads
  <2>2. BufferInv'
    BY <2>1 DEF BufferInv
  <2>3. /\ delivered <= Off(Issued + 1)
        /\ pending \in Seq(Later) /\ finished \in Seq(Placed)
        /\ Chain(Kept(finished, Full))
        /\ reap_action = "NORMAL" => transferred = Off(num_retired + 1)
    BY <1>3 DEF DataInv, BytesInv
  <2>4. Issued' = Issued
    BY Locks DEF Issued, Flies, num_urbs
  <2>5. Ours' = Ours /\ OursDone' = OursDone /\ Full' = Full /\ Later' = Later /\ Placed' = Placed
    BY DEF Ours, OursDone, Full, Later, Placed
  <2>6. Held' = Held
    <3> DEFINE p == Count(pending, Ours)
               f == Count(finished, OursDone)
               r == num_retired
    <3>1. p \in Nat /\ f \in Nat /\ r \in Nat /\ p' = p /\ f' = f /\ r' = r + 1
      BY <2>5, HeldType DEF HeldOK, TypeInv, PrivType
    <3>2. Hand' = 0
      BY DEF Hand
    <3>3. Held = r + p + f + 1 /\ Held' = (r + 1) + p + f + 0
      BY <1>1, <3>1, <3>2 DEF Held
    <3> HIDE DEF p, f, r, Held
    <3> QED
      BY <3>1, <3>3
  <2>7. Got' = Got
    <3>1. Got = transferred + cur.n /\ Got' = transferred' + 0
      BY DEF Got
    <3>2. transferred \in Nat
      BY DEF TypeInv, TransferType
    <3> QED
      BY <1>1, <3>1, <3>2
  <2>8. Chain(Kept(finished, Full))'
    <3> DEFINE v == Kept(finished, Full)
    <3>1. v' = v
      BY <2>5
    <3>2. v # <<>> \/ Held = Issued => Line(v, Got, delivered)
      BY <2>3 DEF Chain
    <3> HIDE DEF Held, Issued, Got, v
    <3>3. v' # <<>> \/ Held' = Issued' => Line(v', Got', delivered')
      BY <2>4, <2>6, <2>7, <3>1, <3>2
    <3>4. Chain(v)'
      BY <3>3 DEF Chain, Line
    <3> QED
      BY <3>4 DEF v
  <2>9. reap_action' = "NORMAL" => transferred' = Off(num_retired' + 1)
    <3> SUFFICES ASSUME reap_action' = "NORMAL" PROVE transferred' = Off(num_retired' + 1)
      OBVIOUS
    <3>1. cur.i < num_urbs /\ cur.n = MaxBulk
      BY <1>1, <1>3 DEF DataInv, ShapeInv, BulkShape, BulkPart, Reads
    <3>2. PICK i \in Nat \ {0} : i = num_retired + 1
      BY <1>1
    <3>3. Off(i + 1) = Off(i) + MaxBulk
      BY OffStep
    <3> QED
      BY <2>3, <3>1, <3>2, <3>3
  <2>10. delivered' <= Off(Issued + 1)'
    <3> HIDE DEF Issued
    <3> QED
      BY <2>3, <2>4 DEF Off
  <2>11. pending' \in Seq(Later') /\ finished' \in Seq(Placed')
    BY <2>3, <2>5
  <2> HIDE DEF Issued
  <2> QED
    BY <2>2, <2>8, <2>9, <2>10, <2>11 DEF BytesInv
<1>4. ASSUME ~Reads
      PROVE  BytesInv' /\ BufferInv'
  BY <1>4 DEF BytesInv, BufferInv, Reads, Flies
<1> QED
  BY <1>2, <1>3, <1>4, RetireData

LEMMA AbnormalData ==
  ASSUME TypeInv, FlightInv, DataInv, handle_bulk_abnormal
  PROVE  DataInv'
<1>1. /\ hpc = "bulk" /\ lock = "none" /\ reap_action # "NORMAL"
      /\ num_retired' = num_retired + 1 /\ transferred' = transferred + cur.n
      /\ buffer' = IF cur.n > 0 THEN MoveUp(cur) ELSE buffer
      /\ UNCHANGED <<request, continuation, submits, pending, finished, delivered, pc, at,
                     lock, reap_action, results>>
  BY DEF handle_bulk_abnormal, HandlerOnly, kernel
<1>2. \/ num_retired + 1 = num_urbs /\ alloc' = 0 /\ hpc' = "callback"
      \/ hpc' = "idle" /\ UNCHANGED <<alloc, urbs>>
  BY DEF handle_bulk_abnormal, Complete
<1>3. CASE num_retired + 1 = num_urbs /\ alloc' = 0 /\ hpc' = "callback"
  <2>1. request.type = "bulk"
    BY <1>1, InHand
  <2>2. DoneInv'
    <3> SUFFICES ASSUME ~request.out
                 PROVE  transferred' = delivered' /\ InPlace(transferred)' /\ Count(pending, Ours)' = 0
      BY <1>1 DEF DoneInv, Ends
    <3>1. transferred + cur.n = delivered /\ Count(pending, Ours) = 0
      BY <1>1, <1>3, LastBytes
    <3>2. InPlace(transferred)'
      BY <1>1, GotPlace
    <3> QED
      BY <1>1, <3>1, <3>2 DEF Ours
  <2>3. IsoDone'
    BY <1>1, <2>1 DEF IsoDone, IsoInPlace
  <2> QED
    BY <1>1, <1>3, <2>2, <2>3, GroundedData
<1>4. CASE hpc' = "idle" /\ UNCHANGED <<alloc, urbs>>
  BY <1>1, <1>4, RetireBulk
<1> QED
  BY <1>2, <1>3, <1>4

LEMMA BulkData ==
  ASSUME TypeInv, FlightInv, DataInv, handle_bulk_completion
  PROVE  DataInv'
<1> DEFINE good == cur.status \in {"ok", "remoteio"}
<1>1. /\ hpc = "bulk" /\ lock = "none" /\ reap_action = "NORMAL"
      /\ num_retired' = num_retired + 1 /\ (good => transferred' = transferred + cur.n)
      /\ UNCHANGED <<request, continuation, submits, pending, finished, delivered, pc, at,
                     buffer, results>>
  BY DEF handle_bulk_completion, HandlerOnly, kernel
<1>2. \/ ~good /\ alloc' = 0 /\ status' \in {"STALL", "OVERFLOW", "ERROR"}
      \/ good /\ cur.i = num_urbs /\ alloc' = 0 /\ hpc' = "callback"
      \/ /\ good /\ reap_action' = "COMPLETED_EARLY" /\ lock' = "handler" /\ hpc' = "discard"
         /\ UNCHANGED <<alloc, urbs>>
      \/ /\ good /\ cur.i < num_urbs /\ cur.n = urbs[cur.i].length
         /\ hpc' = "idle" /\ UNCHANGED <<alloc, urbs, reap_action, lock>>
  BY DEF handle_bulk_completion, Complete, BulkStatus
<1>3. request.type = "bulk" /\ Flies /\ Hand = 1
  BY <1>1, InHand
<1>4. IsoDone'
  BY <1>1, <1>3 DEF IsoDone, IsoInPlace
<1>5. CASE ~good /\ alloc' = 0 /\ status' \in {"STALL", "OVERFLOW", "ERROR"}
  <2>1. DoneInv'
    BY <1>5 DEF DoneInv, Ends
  <2> QED
    BY <1>1, <1>4, <1>5, <2>1, GroundedData
<1>6. CASE good /\ cur.i = num_urbs /\ alloc' = 0 /\ hpc' = "callback"
  <2>1. num_retired + 1 = num_urbs
    BY <1>1, <1>3, <1>6 DEF DataInv, NormalInv
  <2>2. DoneInv'
    <3> SUFFICES ASSUME ~request.out
                 PROVE  transferred' = delivered' /\ InPlace(transferred)' /\ Count(pending, Ours)' = 0
      BY <1>1 DEF DoneInv, Ends
    <3>1. transferred + cur.n = delivered /\ Count(pending, Ours) = 0
      BY <1>1, <2>1, LastBytes
    <3>2. InPlace(transferred)'
      BY <1>1, <1>6, GotPlace
    <3> QED
      BY <1>1, <1>6, <3>1, <3>2 DEF Ours
  <2> QED
    BY <1>1, <1>4, <1>6, <2>2, GroundedData
<1>7. CASE /\ good /\ reap_action' = "COMPLETED_EARLY" /\ lock' = "handler" /\ hpc' = "discard"
           /\ UNCHANGED <<alloc, urbs>>
  BY <1>1, <1>7, RetireBulk
<1>8. CASE /\ good /\ cur.i < num_urbs /\ cur.n = urbs[cur.i].length
           /\ hpc' = "idle" /\ UNCHANGED <<alloc, urbs, reap_action, lock>>
  BY <1>1, <1>8, RetireBulk
<1> QED
  BY <1>2, <1>5, <1>6, <1>7, <1>8
----------------------------------------------------------------------------
(* DataInPlace *)

\* The inductive invariant: after a step that met freed memory, what was in
\* place still is.
PlaceInv == AllInv /\ (Running => DataInv) /\ DataKept /\ IsoDone

LEMMA InitData == Init => PlaceInv
<1> SUFFICES ASSUME Init PROVE PlaceInv
  OBVIOUS
<1>1. ~Flies /\ hpc = "idle" /\ pending = <<>>
  BY DEF Init, Flies
<1>2. ShapeInv /\ NormalInv /\ BytesInv /\ BufferInv /\ IsoInv
  BY <1>1 DEF ShapeInv, BulkShape, IsoShape, NormalInv, BytesInv, Reads, BufferInv, IsoInv
<1>3. DoneInv /\ IsoDone /\ DataKept
  BY <1>1 DEF DoneInv, Ends, IsoDone, IsoInPlace, DataKept
<1>4. OrderInv
  <2>1. DOMAIN pending = {} /\ pending \in Seq(Flagged)
    BY <1>1
  <2> QED
    BY <2>1 DEF OrderInv, Sorted
<1> QED
  BY <1>2, <1>3, <1>4, InitAll DEF PlaceInv, DataInv

\* While no freed memory is met, every step keeps the data in place.
LEMMA UserData ==
  ASSUME TypeInv, FlightInv, TypeInv', FlightInv', DataInv, Running', NEW u \in Users,
         Submit(u) \/ UserStep(u) \/ Cancel(u) \/ FreeTransfer(u)
  PROVE  DataInv'
<1>1. CASE Submit(u)
  BY <1>1, SubmitData
<1>2. CASE SubmitUrb(u)
  <2>1. alloc = submits
    BY <1>2 DEF SubmitUrb, Running
  <2> QED
    BY <1>2, <2>1, SubmitUrbData
<1>3. CASE UndoUrb(u) \/ CancelUrb(u)
  <2>1. ~Gone
    BY <1>3 DEF UndoUrb, CancelUrb, Running
  <2> QED
    BY <1>3, <2>1, UndoData
<1>4. CASE Cancel(u)
  BY <1>4, CancelData
<1>5. CASE FreeTransfer(u)
  BY <1>5, StutterData DEF FreeTransfer
<1> QED
  BY <1>1, <1>2, <1>3, <1>4, <1>5 DEF UserStep

LEMMA HandlerData ==
  ASSUME TypeInv, FlightInv, TypeInv', FlightInv', DataInv, Running', HandlerStep
  PROVE  DataInv'
BY ReapData, AbnormalData, BulkData, DiscardRestData, IsoData, ControlData, DisconnectData,
   CallbackData, UnlockData DEF HandlerStep

\* A step that meets freed memory reports nothing.
LEMMA FreedKeeps ==
  ASSUME DataKept, IsoDone, Next, Running, ~Running'
  PROVE  DataKept' /\ IsoDone'
<1>1. \/ hpc' = "idle"
      \/ hpc' = hpc /\ UNCHANGED <<request, status, transferred, delivered, buffer, results>>
  <2>1. CASE \E u \in Users : Submit(u) \/ Cancel(u) \/ FreeTransfer(u)
    BY <2>1 DEF Submit, Cancel, FreeTransfer, Running
  <2>2. ASSUME NEW u \in Users, UserStep(u)
        PROVE  hpc' = hpc /\ UNCHANGED <<request, status, transferred, delivered, buffer, results>>
    <3>1. CASE SubmitUrb(u)
      BY <3>1 DEF SubmitUrb, Running, transfer, kernel
    <3>2. CASE UndoUrb(u)
      BY <3>2 DEF UndoUrb, Running, transfer, kernel
    <3>3. CASE CancelUrb(u)
      BY <3>3 DEF CancelUrb, Running, transfer, kernel
    <3> QED
      BY <2>2, <3>1, <3>2, <3>3 DEF UserStep
  <2>3. CASE reap_for_handle
    BY <2>3 DEF reap_for_handle, Running
  <2>4. CASE UnlockAgain
    BY <2>4 DEF UnlockAgain
  <2>5. CASE \/ handle_bulk_abnormal \/ handle_bulk_completion \/ handle_iso_completion
             \/ handle_control_completion
    BY <2>5 DEF handle_bulk_abnormal, handle_bulk_completion, handle_iso_completion,
       handle_control_completion, HandlerOnly, Running
  <2>6. CASE DiscardRest \/ handle_disconnect \/ Callback \/ KernelComplete \/ Unplug
    BY <2>6 DEF DiscardRest, handle_disconnect, Callback, KernelComplete, Unplug, Running
  <2> QED
    BY <2>1, <2>2, <2>3, <2>4, <2>5, <2>6 DEF Next, HandlerStep
<1>2. CASE hpc' = "idle"
  BY <1>2 DEF DataKept, IsoDone, IsoInPlace
<1>3. CASE hpc' = hpc /\ UNCHANGED <<request, status, transferred, delivered, buffer, results>>
  BY <1>3 DEF DataKept, IsoDone, IsoInPlace, Short
<1> QED
  BY <1>1, <1>2, <1>3

LEMMA DataReported == DataInv => DataKept /\ IsoDone
BY DEF DataInv, DoneInv, Ends, InPlace, DataKept

LEMMA ReportedNext == DataInv' => DataKept' /\ IsoDone'
BY DataReported, PTL

LEMMA StepData == PlaceInv /\ [Next]_vars => PlaceInv'
<1> SUFFICES ASSUME PlaceInv, [Next]_vars PROVE PlaceInv'
  OBVIOUS
<1>1. AllInv /\ AllInv'
  BY StepAll DEF PlaceInv
<1>2. TypeInv /\ TypeInv' /\ (Running => FlightInv /\ DataInv) /\ (Running' => FlightInv')
  BY <1>1 DEF AllInv, PlaceInv
<1>3. CASE Next
  <2>1. Running
    BY <1>3 DEF Next, Submit, UserStep, SubmitUrb, UndoUrb, CancelUrb, Cancel, FreeTransfer,
       HandlerStep, reap_for_handle, handle_bulk_abnormal, handle_bulk_completion, DiscardRest,
       handle_iso_completion, handle_control_completion, handle_disconnect, Callback, UnlockAgain,
       KernelComplete, Unplug
  <2>2. CASE Running'
    <3>1. FlightInv /\ FlightInv' /\ DataInv
      BY <1>2, <2>1, <2>2
    <3>2. DataInv'
      <4>1. CASE \E u \in Users : Submit(u) \/ UserStep(u) \/ Cancel(u) \/ FreeTransfer(u)
        BY <1>2, <2>2, <3>1, <4>1, UserData
      <4>2. CASE HandlerStep
        BY <1>2, <2>2, <3>1, <4>2, HandlerData
      <4>3. CASE KernelComplete
        BY <1>2, <3>1, <4>3, KernelData
      <4>4. CASE Unplug
        BY <1>2, <3>1, <4>4, UnplugData
      <4> QED
        BY <1>3, <4>1, <4>2, <4>3, <4>4 DEF Next
    <3> QED
      BY <1>1, <3>2, ReportedNext DEF PlaceInv
  <2>3. CASE ~Running'
    BY <1>1, <1>3, <2>1, <2>3, FreedKeeps DEF PlaceInv
  <2> QED
    BY <2>2, <2>3
<1>4. CASE UNCHANGED vars
  <2>1. UNCHANGED <<request, continuation, lock, submits, health, tpriv, transfer, kernel, threads>>
    BY <1>4 DEF vars
  <2>2. DataKept' /\ IsoDone'
    BY <2>1 DEF PlaceInv, DataKept, IsoDone, IsoInPlace, Short, transfer, kernel, threads
  <2>3. Running' => DataInv'
    BY <1>2, <2>1, StutterData DEF Running
  <2> QED
    BY <1>1, <2>2, <2>3 DEF PlaceInv
<1> QED
  BY <1>3, <1>4

\* A read that completes, early or not, or is cancelled reports all the bytes
\* its URBs received, contiguous from the start of the buffer, however long it
\* is and however its URBs and the calls of its users interleave
\* (handle_bulk_completion, linux_usbfs.c).
THEOREM DataKeptCorrect == Spec => []DataKept
<1>1. PlaceInv => DataKept
  BY DEF PlaceInv
<1> QED
  BY InitData, StepData, <1>1, PTL DEF Spec

\* With the results of the isochronous packets at their places, provided that
\* no packet is longer than a URB (submit_iso_transfer, linux_usbfs.c).
THEOREM DataCorrect == Short => (Spec => []DataInPlace)
<1> SUFFICES ASSUME Short PROVE Spec => []DataInPlace
  OBVIOUS
<1>1. PlaceInv => DataInPlace
  BY DEF PlaceInv, IsoDone, DataInPlace
<1> QED
  BY InitData, StepData, <1>1, PTL DEF Spec
============================================================================
