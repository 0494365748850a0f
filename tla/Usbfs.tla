------------------------------- MODULE Usbfs -------------------------------
(***************************************************************************)
(* One transfer of libusb 1.0.8 on Linux: how os/linux_usbfs.c splits it   *)
(* into URBs, submits, cancels and reaps them, and hands it back to its    *)
(* owner (usbi_handle_transfer_completion in io.c).  User threads submit   *)
(* and cancel, one thread handles events, the kernel and the device act in *)
(* between.  The life of the whole event loop is in LibusbIo.              *)
(*                                                                         *)
(* Bytes are numbered in the order the device sends them, so that the      *)
(* buffer shows which byte went where.  Sizes are scaled: MaxBulk stands   *)
(* for MAX_BULK_BUFFER_LENGTH (16384), MaxIso for MAX_ISO_BUFFER_LENGTH    *)
(* (32768).                                                                *)
(***************************************************************************)
EXTENDS Integers, Sequences, FiniteSets, SequencesExt

CONSTANTS Users,      \* threads that submit and cancel
          Requests,   \* transfers the user may fill in
          MaxBulk,    \* MAX_BULK_BUFFER_LENGTH, scaled
          MaxIso,     \* MAX_ISO_BUFFER_LENGTH, scaled
          MaxSubmits  \* bound: submissions

ASSUME UsersAssumption == Users # {} /\ {"none", "handler"} \cap Users = {}
ASSUME SizesAssumption == MaxBulk \in Nat \ {0} /\ MaxIso \in Nat \ {0}
ASSUME BoundsAssumption == MaxSubmits \in Nat
ASSUME RequestsAssumption ==
    /\ Requests # {}
    /\ Requests \subseteq [type : {"bulk", "iso", "control"}, out : BOOLEAN,
                           length : Nat, packets : Seq(Nat)]

VARIABLES
    request,      \* the libusb_transfer its owner filled in
    continuation, \* supports_flag_bulk_continuation
    connected,    \* the device is plugged in
    polled,       \* the handle's pollfd is in the poll set
    owner,        \* who may use the transfer: "user", "libusb", "freed"
    lock,         \* holder of itransfer->lock
    alloc,        \* the block tpriv->urbs points to; 0 is NULL
    submits,      \* blocks allocated so far
    urbs,         \* the URBs in that block
    reap_action, num_retired, iso_packet_offset,  \* linux_transfer_priv
    timed_out,    \* USBI_TRANSFER_TIMED_OUT in itransfer->flags
    transferred,  \* itransfer->transferred
    buffer,       \* transfer->buffer, by position: number of the byte there
    results,      \* iso_packet_desc, by packet: whose result is there
    pending,      \* kernel: URBs queued at the endpoint
    finished,     \* kernel: URBs ready to be reaped
    halted,       \* kernel: continuation URBs are refused (disabled_bulk_eps)
    delivered,    \* bytes moved by the URBs of the latest submission
    asked,        \* history: cancellations asked for since the submission
    pc, at,       \* where each user thread is, and at which URB
    hpc, cur,     \* where the event handler is, and the URB it reaped
    status,       \* transfer->status
    health        \* "ok", or what undefined behaviour was met

tpriv == <<alloc, urbs, reap_action, num_retired, iso_packet_offset>>
transfer == <<timed_out, transferred, buffer, results, status>>
kernel == <<connected, pending, finished, halted, delivered>>
threads == <<pc, at, hpc, cur>>
vars == <<request, continuation, polled, owner, lock, submits, asked,
          health, tpriv, transfer, kernel, threads>>

Running == health = "ok"
Min2(a, b) == IF a < b THEN a ELSE b
num_urbs == Len(urbs)
NoUrb == [alloc |-> 0, i |-> 0, status |-> "ok", n |-> 0, first |-> 0]
----------------------------------------------------------------------------
(* The URBs of a request *)

\* Bulk and interrupt requests are cut into pieces of MaxBulk; a request of
\* length 0 is one empty URB.
BulkUrbs(r) ==
    LET pieces == IF r.length = 0 THEN 1
                  ELSE (r.length + MaxBulk - 1) \div MaxBulk
    IN  [i \in 1..pieces |->
            [offset |-> (i - 1) * MaxBulk,
             length |-> Min2(MaxBulk, r.length - (i - 1) * MaxBulk),
             cont   |-> i > 1 /\ continuation]]

\* How many URBs the first loop of submit_iso_transfer counts.  The room left
\* is an int compared with an unsigned length: below zero it is huge.
IsoCount(lens) ==
    LET loop[k \in 0..Len(lens)] ==
          IF k = 0 THEN [urbs |-> 1, used |-> 0]
          ELSE LET acc == loop[k - 1]
                   room == MaxIso - acc.used
               IN  IF room >= 0 /\ lens[k] > room
                   THEN [urbs |-> acc.urbs + 1, used |-> lens[k]]
                   ELSE [acc EXCEPT !.used = @ + lens[k]]
    IN  loop[Len(lens)].urbs

\* The packets the second loop puts into each of them, as many as fit.
IsoFill(lens) ==
    LET total[k \in 0..Len(lens)] == IF k = 0 THEN 0 ELSE total[k - 1] + lens[k]
        Fits(from, to) == total[to - 1] - total[from - 1] <= MaxIso
        Behind(from) == CHOOSE to \in from..(Len(lens) + 1) :
                        /\ Fits(from, to)
                        /\ to < Len(lens) + 1 => ~Fits(from, to + 1)
        start[i \in 1..(IsoCount(lens) + 1)] ==
            IF i = 1 THEN 1 ELSE Behind(start[i - 1])
    IN  [i \in 1..IsoCount(lens) |->
            [first |-> start[i], count |-> start[i + 1] - start[i]]]

IsoUrbs(r) ==
    LET fill == IsoFill(r.packets)
    IN  [i \in DOMAIN fill |->
            [offset |-> fill[i].first, length |-> fill[i].count, cont |-> FALSE]]

ControlUrbs(r) == <<[offset |-> 0, length |-> r.length, cont |-> FALSE]>>

UrbsOf(r) == CASE r.type = "bulk" -> BulkUrbs(r)
               [] r.type = "iso" -> IsoUrbs(r)
               [] r.type = "control" -> ControlUrbs(r)
----------------------------------------------------------------------------
(* The kernel: a queue per endpoint, a list of finished URBs per file *)

\* Entries of the two lists, and those of a list that are in T, in their order.
Queued == [alloc : Nat, i : Nat, len : Nat, cont : BOOLEAN]
Entries == [alloc : Nat, i : Nat, n : Nat, first : Nat,
            status : {"ok", "pipe", "proto", "remoteio", "overflow", "noent", "unlinked"}]
Kept(q, T) == FlattenSeq([k \in DOMAIN q |-> IF q[k] \in T THEN <<q[k]>> ELSE <<>>])

Done(p, st, n) == [alloc |-> p.alloc, i |-> p.i, status |-> st, n |-> n, first |-> delivered]

\* Outcomes of the first URB at the endpoint.  A read may be short: with
\* SHORT_NOT_OK the kernel calls that EREMOTEIO.
Outcomes(len) ==
    {[st |-> "ok", n |-> len]}
      \cup {[st |-> e, n |-> 0] : e \in {"pipe", "proto"}}
      \cup (IF request.out \/ request.type # "bulk" THEN {}
            ELSE [st : {IF continuation THEN "remoteio" ELSE "ok"}, n : 0..(len - 1)]
                   \cup [st : {"overflow"}, n : {len}])

\* The first URB completes.  After an error the kernel cancels the
\* continuation URBs behind it and refuses further ones.
KernelComplete ==
    /\ Running /\ connected /\ pending # <<>>
    /\ \E out \in IF request.type = "iso" THEN {[st |-> "ok", n |-> 0]}
                  ELSE Outcomes(Head(pending).len) :
         LET stop == out.st # "ok" /\ continuation /\ request.type = "bulk"
             rest == Tail(pending)
             goes == {p \in Queued : stop /\ p.cont}
             swept == Kept(rest, goes)
         IN  /\ finished' = Append(finished, Done(Head(pending), out.st, out.n))
                              \o [k \in DOMAIN swept |-> Done(swept[k], "unlinked", 0)]
             /\ pending' = Kept(rest, Queued \ goes)
             /\ halted' = (halted \/ stop)
             /\ delivered' = IF Head(pending).alloc = submits
                             THEN delivered + out.n ELSE delivered
    /\ UNCHANGED <<request, continuation, connected, polled, owner, lock,
                   submits, asked, health, tpriv, transfer, threads>>

\* IOCTL_USBFS_DISCARDURB of URB i: still queued, it finishes as cancelled,
\* the first one perhaps with some data; else the call changes nothing
\* (EINVAL, or ENODEV once the device is gone).
Discard(i) ==
    LET Is(p) == p.alloc = alloc /\ p.i = i
        found == connected /\ alloc # 0 /\ \E k \in DOMAIN pending : Is(pending[k])
    IN  IF ~found THEN UNCHANGED kernel
        ELSE /\ \E n \in 0..(IF Is(Head(pending)) /\ request.type = "bulk"
                             THEN Head(pending).len ELSE 0) :
                  /\ finished' = Append(finished,
                       Done([alloc |-> alloc, i |-> i], "noent", n))
                  /\ delivered' = delivered + n
             /\ pending' = Kept(pending, {p \in Queued : ~Is(p)})
             /\ UNCHANGED <<connected, halted>>

\* The device is unplugged: the kernel drops its URBs and answers ENODEV.
Unplug ==
    /\ Running /\ connected
    /\ connected' = FALSE /\ pending' = <<>> /\ finished' = <<>>
    /\ UNCHANGED <<request, continuation, polled, owner, lock, submits,
                   asked, health, halted, delivered, tpriv, transfer, threads>>
----------------------------------------------------------------------------
(* User threads *)

\* itransfer->transferred = 0, itransfer->flags = 0
ResetTransfer_FlagsKept == transferred' = 0 /\ status' = "none" /\ UNCHANGED timed_out
ResetTransfer == transferred' = 0 /\ status' = "none" /\ timed_out' = FALSE

\* The owner fills the transfer in; libusb_submit_transfer takes the lock,
\* resets what the last submission left, and the backend builds the URBs.
\* The ioctls follow one by one, under the lock.
Submit(u) ==
    /\ Running /\ pc[u] = "idle" /\ owner = "user" /\ lock = "none"
    /\ alloc = 0 /\ submits < MaxSubmits
    /\ \E r \in Requests :
         /\ request' = r
         /\ urbs' = UrbsOf(r)
         /\ buffer' = [b \in 1..r.length |-> 0]
         /\ results' = [k \in DOMAIN r.packets |-> 0]
    /\ lock' = u /\ owner' = "libusb"
    /\ submits' = submits + 1 /\ alloc' = submits + 1
    /\ reap_action' = "NORMAL" /\ num_retired' = 0 /\ iso_packet_offset' = 0
    /\ ResetTransfer
    /\ delivered' = 0 /\ asked' = {}
    /\ pc' = [pc EXCEPT ![u] = "submit"] /\ at' = [at EXCEPT ![u] = 1]
    /\ UNCHANGED <<continuation, connected, polled, health, pending,
                   finished, halted, hpc, cur>>

\* The call ends and the lock is released.
Return(u) == /\ pc' = [pc EXCEPT ![u] = "idle"] /\ at' = [at EXCEPT ![u] = 1]
             /\ lock' = "none"

\* The URBs from the refused one on count as retired.
NotSubmitted_OffByOne(i) == num_urbs - i
NotSubmitted_Forgotten(i) == 0
NotSubmitted(i) == num_urbs - (i - 1)

\* One IOCTL_USBFS_SUBMITURB.  The kernel refuses it if the device is gone
\* or a continuation URB comes too late, and may refuse any.  A refused
\* first URB fails the submission; a later one counts the rest as retired
\* and has the earlier ones discarded, and the caller is told of success.
SubmitUrb(u) ==
    LET i == at[u]
        urb == urbs[i]
        refusable == ~connected \/ (halted /\ urb.cont)
    IN
    /\ Running /\ pc[u] = "submit"
    /\ IF alloc # submits   \* the block was freed by usbi_handle_disconnect
       THEN /\ health' = "urbs used after free"
            /\ UNCHANGED <<owner, lock, tpriv, kernel, pc, at>>
       ELSE
       /\ health' = health
       /\ \/ /\ ~refusable
             /\ pending' = Append(pending, [alloc |-> alloc, i |-> i,
                                            len |-> urb.length, cont |-> urb.cont])
             /\ halted' = (halted /\ urb.cont)
             /\ IF i = num_urbs
                THEN Return(u)
                ELSE at' = [at EXCEPT ![u] = i + 1] /\ UNCHANGED <<pc, lock>>
             /\ UNCHANGED <<owner, tpriv, connected, finished, delivered>>
          \/ /\ i = 1
             /\ alloc' = 0 /\ urbs' = <<>>
             /\ owner' = "user" /\ Return(u)
             /\ UNCHANGED <<reap_action, num_retired, iso_packet_offset, kernel>>
          \/ /\ i > 1
             /\ reap_action' = "SUBMIT_FAILED"
             /\ num_retired' = num_retired + NotSubmitted(i)
             /\ pc' = [pc EXCEPT ![u] = "undo"]
             /\ at' = [at EXCEPT ![u] = 1]
             /\ UNCHANGED <<alloc, urbs, iso_packet_offset, owner, lock, kernel>>
    /\ UNCHANGED <<request, continuation, polled, submits, asked,
                   transfer, hpc, cur>>

\* Memory a discarding loop still needs: the transfer with its lock, and the
\* array of pointers of an isochronous transfer.
Gone == owner = "freed" \/ (alloc = 0 /\ request.type = "iso")

\* The URBs before the refused one are discarded: those that are neither
\* retired ahead of time nor submitted late are the first num_urbs minus
\* num_retired ones, the lock being held since the first ioctl.
UndoUrb(u) ==
    /\ Running /\ pc[u] = "undo"
    /\ IF Gone
       THEN health' = "urbs used after free" /\ UNCHANGED <<kernel, pc, at, lock>>
       ELSE /\ health' = health
            /\ Discard(at[u])
            /\ IF at[u] >= num_urbs - num_retired
               THEN Return(u)
               ELSE at' = [at EXCEPT ![u] = @ + 1] /\ UNCHANGED <<pc, lock>>
    /\ UNCHANGED <<request, continuation, polled, owner, submits, asked,
                   tpriv, transfer, hpc, cur>>

\* libusb_cancel_transfer, called by a user or, after setting the flag, by
\* handle_timeout.  Without URBs it returns NOT_FOUND.
Cancel(u) ==
    /\ Running /\ pc[u] = "idle" /\ owner = "libusb" /\ lock = "none" /\ alloc # 0
    /\ reap_action # "CANCELLED"   \* bound: a transfer is cancelled once
    /\ \E why \in {"user", "timeout"} :
         /\ asked' = asked \cup {why}
         /\ timed_out' = (timed_out \/ why = "timeout")
    /\ reap_action' = "CANCELLED"
    /\ lock' = u
    /\ pc' = [pc EXCEPT ![u] = "cancel"] /\ at' = [at EXCEPT ![u] = 1]
    /\ UNCHANGED <<request, continuation, polled, owner, submits, health,
                   alloc, urbs, num_retired, iso_packet_offset, transferred,
                   buffer, results, status, kernel, hpc, cur>>

CancelUrb(u) ==
    /\ Running /\ pc[u] = "cancel"
    /\ IF Gone
       THEN health' = "urbs used after free" /\ UNCHANGED <<kernel, pc, at, lock>>
       ELSE /\ health' = health
            /\ Discard(at[u])
            /\ IF at[u] >= num_urbs
               THEN Return(u)
               ELSE at' = [at EXCEPT ![u] = @ + 1] /\ UNCHANGED <<pc, lock>>
    /\ UNCHANGED <<request, continuation, polled, owner, submits, asked,
                   tpriv, transfer, hpc, cur>>

\* libusb_free_transfer by the owner.
FreeTransfer(u) ==
    /\ Running /\ pc[u] = "idle" /\ owner = "user" /\ submits > 0
    /\ owner' = "freed"
    /\ UNCHANGED <<request, continuation, polled, lock, submits, asked,
                   health, tpriv, transfer, kernel, threads>>
----------------------------------------------------------------------------
(* The event handler *)

\* Bytes of an IN URB reach the buffer when it is reaped.
CopyIn(e) ==
    [b \in DOMAIN buffer |->
        LET k == b - urbs[e.i].offset
        IN  IF k \in 1..e.n THEN e.first + k ELSE buffer[b]]

\* reap_for_handle, the handle's fd being ready.  The URB leads back to its
\* transfer: if its block is gone, freed memory is used from here on.
reap_for_handle ==
    /\ Running /\ hpc = "idle" /\ polled /\ connected /\ finished # <<>>
    /\ LET e == Head(finished) IN
       /\ finished' = Tail(finished)
       /\ cur' = e
       /\ IF e.alloc = alloc /\ owner = "libusb"
          THEN /\ hpc' = request.type
               /\ buffer' = IF request.type = "bulk" /\ ~request.out
                            THEN CopyIn(e) ELSE buffer
               /\ health' = health
          ELSE /\ health' = "urb reaped after free"
               /\ UNCHANGED <<hpc, buffer>>
    /\ UNCHANGED <<request, continuation, polled, owner, lock, submits,
                   asked, tpriv, timed_out, transferred, results, status,
                   connected, pending, halted, delivered, pc, at>>

\* The block is freed, the lock released, and the transfer goes back with st.
Complete(st) ==
    /\ alloc' = 0 /\ urbs' = <<>>
    /\ status' = st
    /\ hpc' = "callback"

Cancelled == IF timed_out THEN "TIMED_OUT" ELSE "CANCELLED"

\* Surplus data of an abnormal reap is moved behind the data already there.
MoveUp_Hole(e) == buffer
MoveUp(e) ==
    [b \in DOMAIN buffer |->
        LET k == b - transferred
        IN  IF k \in 1..e.n THEN buffer[urbs[e.i].offset + k] ELSE buffer[b]]

BulkStatus(e) == CASE e.status = "pipe" -> "STALL"
                   [] e.status = "overflow" -> "OVERFLOW"
                   [] OTHER -> "ERROR"

HandlerOnly == UNCHANGED <<request, continuation, polled, owner, submits,
                           asked, health, kernel, pc, at>>

\* handle_bulk_completion once cancelled, failed or completed early: the URB
\* only adds its data, and the last one reports.
handle_bulk_abnormal ==
    /\ Running /\ hpc = "bulk" /\ lock = "none" /\ reap_action # "NORMAL"
    /\ num_retired' = num_retired + 1
    /\ transferred' = transferred + cur.n
    /\ buffer' = IF cur.n > 0 THEN MoveUp(cur) ELSE buffer
    /\ IF num_retired + 1 = num_urbs
       THEN Complete(CASE reap_action = "CANCELLED" -> Cancelled
                       [] reap_action = "COMPLETED_EARLY" -> "COMPLETED"
                       [] OTHER -> "ERROR")
       ELSE hpc' = "idle" /\ UNCHANGED <<alloc, urbs, status>>
    /\ cur' = NoUrb
    /\ UNCHANGED <<lock, reap_action, iso_packet_offset, timed_out, results>>
    /\ HandlerOnly

\* handle_bulk_completion in the normal course: an error ends the transfer at
\* once, so does the last URB; a short one has the rest discarded.
handle_bulk_completion ==
    LET good == cur.status \in {"ok", "remoteio"}
        keeps == good \/ (cur.status = "overflow" /\ cur.n > 0)
    IN
    /\ Running /\ hpc = "bulk" /\ lock = "none" /\ reap_action = "NORMAL"
    /\ num_retired' = num_retired + 1
    /\ transferred' = IF keeps THEN transferred + cur.n ELSE transferred
    /\ \/ /\ ~good
          /\ Complete(BulkStatus(cur))
          /\ cur' = NoUrb
          /\ UNCHANGED <<reap_action, lock>>
       \/ /\ good /\ cur.i = num_urbs
          /\ Complete("COMPLETED")
          /\ cur' = NoUrb
          /\ UNCHANGED <<reap_action, lock>>
       \/ /\ good /\ cur.i < num_urbs /\ cur.n < urbs[cur.i].length
          /\ reap_action' = "COMPLETED_EARLY"
          /\ lock' = "handler" /\ hpc' = "discard"
          /\ cur' = [cur EXCEPT !.i = @ + 1]
          /\ UNCHANGED <<alloc, urbs, status>>
       \/ /\ good /\ cur.i < num_urbs /\ cur.n = urbs[cur.i].length
          /\ hpc' = "idle" /\ cur' = NoUrb
          /\ UNCHANGED <<alloc, urbs, status, reap_action, lock>>
    /\ UNCHANGED <<iso_packet_offset, timed_out, buffer, results>>
    /\ HandlerOnly

\* The loop of the short case, under the lock; the kernel has already
\* cancelled the URBs that carry the continuation flag.
DiscardRest ==
    /\ Running /\ hpc = "discard"
    /\ IF urbs[cur.i].cont THEN UNCHANGED kernel ELSE Discard(cur.i)
    /\ IF cur.i = num_urbs
       THEN hpc' = "idle" /\ lock' = "none" /\ cur' = NoUrb
       ELSE cur' = [cur EXCEPT !.i = @ + 1] /\ UNCHANGED <<hpc, lock>>
    /\ UNCHANGED <<request, continuation, polled, owner, submits, asked,
                   health, tpriv, transfer, pc, at>>

\* The next packet of the transfer to get a result.
NextPacket(urb) == iso_packet_offset + urb.length

\* handle_iso_completion: results are copied in the order of arrival, and
\* only from URBs that were not cancelled.
handle_iso_completion ==
    LET urb == urbs[cur.i]
        copied == cur.status = "ok"
        last == IF reap_action = "NORMAL" THEN cur.i = num_urbs
                ELSE num_retired + 1 = num_urbs
    IN
    /\ Running /\ hpc = "iso" /\ lock = "none"
    /\ num_retired' = num_retired + 1
    /\ IF copied
       THEN /\ results' = [k \in DOMAIN results |->
                  LET j == k - iso_packet_offset
                  IN  IF j \in 1..urb.length THEN urb.offset + j - 1 ELSE results[k]]
            /\ iso_packet_offset' = NextPacket(urb)
       ELSE UNCHANGED <<results, iso_packet_offset>>
    /\ IF last
       THEN Complete(CASE reap_action = "NORMAL" -> "COMPLETED"
                       [] reap_action = "CANCELLED" -> Cancelled
                       [] OTHER -> "ERROR")
       ELSE hpc' = "idle" /\ UNCHANGED <<alloc, urbs, status>>
    /\ cur' = NoUrb
    /\ UNCHANGED <<lock, reap_action, timed_out, transferred, buffer>>
    /\ HandlerOnly

\* handle_control_completion: one URB, one report.
handle_control_completion ==
    /\ Running /\ hpc = "control" /\ lock = "none"
    /\ transferred' = IF cur.status = "ok" THEN cur.n ELSE transferred
    /\ Complete(CASE reap_action = "CANCELLED" -> Cancelled
                  [] cur.status = "ok" -> "COMPLETED"
                  [] cur.status = "pipe" -> "STALL"
                  [] OTHER -> "ERROR")
    /\ cur' = NoUrb
    /\ UNCHANGED <<lock, reap_action, num_retired, iso_packet_offset, timed_out,
                   buffer, results>>
    /\ HandlerOnly

\* op_handle_events on POLLERR: the pollfd goes, and usbi_handle_disconnect
\* frees the URBs of the transfers in flight, without their lock.
handle_disconnect ==
    /\ Running /\ hpc = "idle" /\ polled /\ ~connected
    /\ polled' = FALSE
    /\ IF owner = "libusb" THEN Complete("NO_DEVICE")
       ELSE UNCHANGED <<alloc, urbs, status, hpc>>
    /\ UNCHANGED <<request, continuation, owner, lock, submits, asked,
                   health, reap_action, num_retired, iso_packet_offset,
                   timed_out, transferred, buffer, results, kernel, pc, at, cur>>

\* usbi_handle_transfer_completion: the callback owns the transfer again; it
\* may free it (so does LIBUSB_TRANSFER_FREE_TRANSFER) or submit it again.
\* A cancelled bulk transfer goes on to out_unlock.
Callback ==
    /\ Running /\ hpc = "callback"
    /\ owner' \in {"user", "freed"}
    /\ hpc' = IF request.type = "bulk" /\ reap_action = "CANCELLED" /\ status # "NO_DEVICE"
              THEN "unlock" ELSE "idle"
    /\ UNCHANGED <<request, continuation, polled, lock, submits, asked,
                   health, tpriv, transfer, kernel, pc, at, cur>>

\* handle_bulk_completion unlocks a second time after the callback.
UnlockAgain ==
    /\ Running /\ hpc = "unlock"
    /\ hpc' = "idle"
    /\ health' = CASE owner = "freed" -> "lock used after free"
                   [] lock # "none" -> "lock of another thread released"
                   [] OTHER -> health
    /\ lock' = "none"
    /\ UNCHANGED <<request, continuation, polled, owner, submits, asked,
                   tpriv, transfer, kernel, pc, at, cur>>
----------------------------------------------------------------------------
Init ==
    /\ request = CHOOSE r \in Requests : TRUE   \* not filled in yet
    /\ continuation \in BOOLEAN
    /\ connected = TRUE /\ polled = TRUE /\ owner = "user" /\ lock = "none"
    /\ alloc = 0 /\ submits = 0 /\ urbs = <<>>
    /\ reap_action = "NORMAL" /\ num_retired = 0 /\ iso_packet_offset = 0
    /\ timed_out = FALSE /\ transferred = 0 /\ status = "none"
    /\ buffer = <<>> /\ results = <<>>
    /\ pending = <<>> /\ finished = <<>> /\ halted = FALSE /\ delivered = 0
    /\ asked = {}
    /\ pc = [u \in Users |-> "idle"] /\ at = [u \in Users |-> 1]
    /\ hpc = "idle" /\ cur = NoUrb
    /\ health = "ok"

UserStep(u) == SubmitUrb(u) \/ UndoUrb(u) \/ CancelUrb(u)
HandlerStep == \/ reap_for_handle \/ handle_bulk_abnormal
               \/ handle_bulk_completion \/ DiscardRest
               \/ handle_iso_completion \/ handle_control_completion
               \/ handle_disconnect \/ Callback \/ UnlockAgain
Next == \/ \E u \in Users : \/ Submit(u) \/ UserStep(u)
                            \/ Cancel(u) \/ FreeTransfer(u)
        \/ HandlerStep \/ KernelComplete \/ Unplug

\* A thread inside a call goes on, and the event handler reaps what is ready.
\* Nothing forces the device to answer or the user to call.
Fairness == WF_vars(HandlerStep) /\ \A u \in Users : WF_vars(UserStep(u))
Spec == Init /\ [][Next]_vars /\ Fairness
----------------------------------------------------------------------------
(* Properties *)

\* Types of all variables; the loops over the URBs stay inside the block.
TypeOK ==
    /\ request \in Requests /\ continuation \in BOOLEAN
    /\ connected \in BOOLEAN /\ polled \in BOOLEAN /\ halted \in BOOLEAN
    /\ owner \in {"user", "libusb", "freed"}
    /\ lock \in Users \cup {"none", "handler"}
    /\ submits \in 0..MaxSubmits /\ alloc \in {0, submits}
    /\ urbs \in Seq([offset : Nat, length : Nat, cont : BOOLEAN])
    /\ reap_action \in {"NORMAL", "SUBMIT_FAILED", "CANCELLED", "COMPLETED_EARLY"}
    /\ num_retired \in Nat /\ iso_packet_offset \in Nat
    /\ timed_out \in BOOLEAN /\ transferred \in Nat /\ delivered \in Nat
    /\ buffer \in Seq(Nat) /\ results \in Seq(Nat)
    /\ pending \in Seq(Queued) /\ finished \in Seq(Entries) /\ cur \in Entries
    /\ status \in {"none", "COMPLETED", "CANCELLED", "TIMED_OUT", "ERROR",
                   "STALL", "OVERFLOW", "NO_DEVICE"}
    /\ asked \subseteq {"user", "timeout"}
    /\ pc \in [Users -> {"idle", "submit", "undo", "cancel"}]
    /\ at \in [Users -> Nat]
    /\ hpc \in {"idle", "bulk", "iso", "control", "discard", "callback", "unlock"}
    /\ hpc \in {"bulk", "iso", "discard"} => cur.i \in 1..num_urbs
    /\ \A u \in Users : pc[u] = "submit" /\ alloc = submits => at[u] \in 1..num_urbs

\* While a transfer flies and nobody holds its lock, each of its URBs is
\* retired, or in the kernel, or the one in the handler's hands: the last URB
\* to come back is always recognised as the last.  (num_retired against the
\* submission that failed half way, cancellation and early completion.)
Accounted ==
    (Running /\ alloc # 0 /\ lock = "none" /\ request.type # "control" /\ connected)
      => LET inHand == IF hpc \in {"bulk", "iso"} THEN 1 ELSE 0
         IN  num_retired + Len(Kept(pending, {p \in Queued : p.alloc = alloc}))
               + Len(Kept(finished, {e \in Entries : e.alloc = alloc})) + inHand = num_urbs

\* No loop over the URBs leaves the block, and none of them is forgotten.
TransferOK == TypeOK /\ Accounted

\* A read that completes, early or not, or is cancelled reports all the bytes
\* its URBs received, contiguous from the start of the buffer: surplus data of
\* URBs that were cancelled too late is neither lost nor left behind a hole.
DataKept ==
    ( /\ hpc = "callback" /\ request.type = "bulk" /\ ~request.out
      /\ status \in {"COMPLETED", "CANCELLED", "TIMED_OUT"} )
      => /\ transferred = delivered
         /\ \A b \in 1..transferred : buffer[b] = b

\* A completed isochronous transfer has every packet's result at that packet,
\* however many URBs they were spread over.
IsoInPlace ==
    (hpc = "callback" /\ request.type = "iso" /\ status = "COMPLETED")
      => \A k \in DOMAIN results : results[k] = k

\* What the caller finds in the buffer and in the packets is what the device
\* sent, where it belongs, however the request was split into URBs.
DataInPlace == DataKept /\ IsoInPlace

\* A transfer is reported as timed out or cancelled only if that was asked for
\* since it was last submitted: nothing of an earlier use of the same
\* libusb_transfer shows.
CancelTruly ==
    /\ status = "TIMED_OUT" => "timeout" \in asked
    /\ status = "CANCELLED" => "user" \in asked

\* A cancelled transfer comes back to its owner, whatever the device does:
\* every URB is discarded or was finished, and reaping them all reports it.
CancelEnds ==
    (Running /\ reap_action = "CANCELLED" /\ owner = "libusb")
      ~> (owner # "libusb" \/ ~Running)

\* No URB is reaped after its transfer was handed back (the comments of
\* submit_bulk_transfer and usbi_handle_transfer_completion).
ReapedAlive == health # "urb reaped after free"

\* The lock of a transfer is released by its holder and never after the
\* callback, which may free it (comment of usbi_handle_transfer_completion).
LockAlive == health \notin {"lock used after free", "lock of another thread released"}
============================================================================
