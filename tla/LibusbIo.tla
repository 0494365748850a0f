----------------------------- MODULE LibusbIo ------------------------------
(***************************************************************************)
(* The event handling of libusb 1.0.8 (io.c), the synchronous transfers    *)
(* built on it (sync.c) and opening and closing of handles (core.c), for   *)
(* several threads of one context.  Every thread opens a handle of its     *)
(* own, makes synchronous transfers on it and closes it; whoever finds     *)
(* events_lock free polls for all of them, the others wait.  What a        *)
(* backend does with a transfer is reduced to queued / ready / reaped; the *)
(* Linux backend is the subject of Usbfs.                                  *)
(*                                                                         *)
(* Places of a thread (pc), with the function they belong to:              *)
(*   closed idle                 between calls                             *)
(*   modify write lock read      libusb_open, libusb_close                 *)
(*   add backend unadd arm       libusb_submit_transfer                    *)
(*   loop cancel                 do_sync_bulk_transfer, control_transfer   *)
(*   try trylock wait waiting    libusb_handle_events_timeout              *)
(*   fds poll                    handle_events                             *)
(*   trigger timeouts expire victim  handle_timerfd_trigger, ..._timeouts  *)
(*   reap complete disarm callback   completion of a transfer              *)
(*   unlock broadcast            libusb_unlock_events                      *)
(***************************************************************************)
EXTENDS Integers, Sequences, FiniteSets, SequencesExt

CONSTANTS Threads,
          Builds,       \* subset of {"used", "absent", "unavailable"}: timerfd
          Timeouts,     \* timeouts of transfers, in ticks; 0 is none
          Reuse,        \* may a transfer be submitted again as it is?
          SlowSubmit,   \* may the clock tick during a submission?
          Watched,      \* the thread the liveness property is about
          MaxTime,      \* bound: ticks of the clock
          MaxCalls,     \* bound: opens and transfers of a thread
          MaxErrors     \* bound: failures of poll

ASSUME ThreadsAssumption == IsFiniteSet(Threads) /\ "none" \notin Threads /\ Watched \in Threads
ASSUME BuildsAssumption == Builds \subseteq {"used", "absent", "unavailable"}
ASSUME BoundsAssumption == /\ Timeouts \subseteq Nat /\ MaxTime \in Nat
                           /\ MaxCalls \in Nat /\ MaxErrors \in Nat
                           /\ Reuse \in BOOLEAN /\ SlowSubmit \in BOOLEAN

VARIABLES
    timerfd,   \* how timeouts are watched: see Builds
    now,       \* CLOCK_MONOTONIC
    timer,     \* absolute time the timerfd is armed for, 0 is disarmed
    \* libusb_context
    events_lock, event_handler_active, pollfd_modify,
    ctrl_pipe, \* bytes in the control pipe
    pollfds,   \* threads whose handle's fd is in the poll set
    flying_transfers, flying_lock,
    waiters,   \* threads blocked on event_waiters_cond
    \* per thread: its transfer
    lock,      \* holder of itransfer->lock
    timeout,   \* absolute timeout of the transfer, 0 is infinite
    timed_out, \* USBI_TRANSFER_TIMED_OUT
    kernel,    \* "none", "queued", "ready"
    cancelled, \* the backend's reap_action
    completed, status,
    wanted,    \* the timeout the caller asked for at this submission
    \* per thread: its locals
    pc, op, first, limit, fds, todo, xfer, then, failed, used,
    errors

ctx == <<events_lock, event_handler_active, pollfd_modify, ctrl_pipe, pollfds>>
list == <<flying_transfers, flying_lock>>
clock == <<timerfd, now, errors>>
itransfer == <<lock, timeout, timed_out, kernel, cancelled, completed, status, wanted>>
locals == <<op, first, limit, fds, todo, xfer, then, failed, used>>
vars == <<ctx, list, clock, timer, waiters, itransfer, locals, pc>>

Goto(t, place) == pc' = [pc EXCEPT ![t] = place]
Set(f, t, v) == [f EXCEPT ![t] = v]

Submitting == {"add", "backend", "unadd", "arm"}
Opening == {"modify", "write", "lock", "read"}
Handling == {"fds", "poll", "trigger", "reap", "complete", "disarm", "callback"}
----------------------------------------------------------------------------
(* libusb_open and libusb_close *)

\* The backend's open adds the fd to the poll set; close removes it later,
\* under the events lock.
libusb_open(t) ==
    /\ pc[t] = "closed" /\ used[t] < MaxCalls
    /\ used' = [used EXCEPT ![t] = @ + 1]
    /\ pollfds' = pollfds \cup {t}
    /\ op' = Set(op, t, "open")
    /\ Goto(t, "modify")
    /\ UNCHANGED <<events_lock, event_handler_active, pollfd_modify, ctrl_pipe, list,
                   clock, timer, waiters, itransfer, first, limit, fds, todo, xfer,
                   then, failed>>

libusb_close(t) ==
    /\ pc[t] = "idle"
    /\ op' = Set(op, t, "close")
    /\ Goto(t, "modify")
    /\ UNCHANGED <<ctx, list, clock, timer, waiters, itransfer, first, limit, fds,
                   todo, xfer, then, failed, used>>

\* pollfd_modify keeps others from starting to handle events, the byte in the
\* control pipe makes the one that does stop.
AnnounceModify(t) ==
    /\ pc[t] = "modify"
    /\ pollfd_modify' = pollfd_modify + 1
    /\ Goto(t, "write")
    /\ UNCHANGED <<events_lock, event_handler_active, ctrl_pipe, pollfds, list, clock,
                   timer, waiters, itransfer, locals>>

WritePipe(t) ==
    /\ pc[t] = "write"
    /\ ctrl_pipe' = ctrl_pipe + 1
    /\ Goto(t, "lock")
    /\ UNCHANGED <<events_lock, event_handler_active, pollfd_modify, pollfds, list,
                   clock, timer, waiters, itransfer, locals>>

\* Mutant: the events lock is not waited for.
libusb_lock_events_Now(t) ==
    /\ pc[t] = "lock"
    /\ events_lock' = t /\ event_handler_active' = TRUE
    /\ Goto(t, "read")
    /\ UNCHANGED <<pollfd_modify, ctrl_pipe, pollfds, list, clock, timer, waiters,
                   itransfer, locals>>

libusb_lock_events(t) ==
    /\ pc[t] = "lock" /\ events_lock = "none"
    /\ events_lock' = t /\ event_handler_active' = TRUE
    /\ Goto(t, "read")
    /\ UNCHANGED <<pollfd_modify, ctrl_pipe, pollfds, list, clock, timer, waiters,
                   itransfer, locals>>

\* libusb_unlock_events: the waiters are told after the lock was released.
ReleaseEvents(t) == /\ events_lock' = "none" /\ event_handler_active' = FALSE
                    /\ Goto(t, "broadcast")

\* Mutant: pollfd_modify stays up.
FinishModify_Counted(t) ==
    /\ pc[t] = "read"
    /\ ctrl_pipe' = ctrl_pipe - 1
    /\ pollfds' = IF op[t] = "close" THEN pollfds \ {t} ELSE pollfds
    /\ then' = Set(then, t, IF op[t] = "close" THEN "closed" ELSE "idle")
    /\ op' = Set(op, t, "none")
    /\ ReleaseEvents(t)
    /\ UNCHANGED <<pollfd_modify, list, clock, timer, waiters, itransfer, first, limit,
                   fds, todo, xfer, failed, used>>
\* Reading the byte, closing, lowering pollfd_modify and unlocking: nothing of
\* it is seen before the lock is free.
FinishModify(t) ==
    /\ pc[t] = "read"
    /\ ctrl_pipe' = ctrl_pipe - 1
    /\ pollfd_modify' = pollfd_modify - 1
    /\ pollfds' = IF op[t] = "close" THEN pollfds \ {t} ELSE pollfds
    /\ then' = Set(then, t, IF op[t] = "close" THEN "closed" ELSE "idle")
    /\ op' = Set(op, t, "none")
    /\ ReleaseEvents(t)
    /\ UNCHANGED <<list, clock, timer, waiters, itransfer, first, limit, fds, todo,
                   xfer, failed, used>>

libusb_unlock_events(t) ==
    /\ pc[t] = "unlock"
    /\ ReleaseEvents(t)
    /\ UNCHANGED <<pollfd_modify, ctrl_pipe, pollfds, list, clock, timer, waiters,
                   itransfer, locals>>

\* pthread_cond_broadcast: every waiter returns to the caller's loop.
Woken(t, place) == [x \in Threads |-> IF x = t THEN place
                                      ELSE IF x \in waiters THEN "loop" ELSE pc[x]]

Broadcast(t) ==
    /\ pc[t] = "broadcast"
    /\ waiters' = {}
    /\ pc' = Woken(t, then[t])
    /\ then' = Set(then, t, "none")
    /\ UNCHANGED <<ctx, list, clock, timer, itransfer, op, first, limit, fds, todo,
                   xfer, failed, used>>
----------------------------------------------------------------------------
(* The list of transfers in flight and the timer *)

Later(a, b) == a = 0 \/ (b # 0 /\ a > b)     \* timeouts; 0 is infinite

\* add_to_flying_list keeps the list sorted, infinite timeouts last.
SortedPlace(t) ==
    LET s == flying_transfers
    IN  IF timeout[t] = 0 THEN Len(s) + 1
        ELSE CHOOSE i \in 1..(Len(s) + 1) :
               /\ i <= Len(s) => Later(timeout[s[i]], timeout[t])
               /\ \A j \in 1..(i - 1) : ~Later(timeout[s[j]], timeout[t])

\* The entry of a transfer is taken out of the list.
list_del(s, x) == IF x \in Range(s) THEN RemoveAt(s, CHOOSE i \in DOMAIN s : s[i] = x)
                                    ELSE s

\* The next timeout that is not being handled yet: the list is walked up to
\* the first infinite one.  0 if there is none.
NextTimeout(s) ==
    LET Pending(i) == /\ timeout[s[i]] # 0 /\ ~timed_out[s[i]]
                      /\ \A j \in 1..(i - 1) : timeout[s[j]] # 0
        live == {i \in DOMAIN s : Pending(i)}
    IN  IF live = {} THEN 0
        ELSE timeout[s[CHOOSE i \in live : \A j \in live : i <= j]]
----------------------------------------------------------------------------
(* Synchronous transfers *)

\* The transfer is freed, or kept for the next submission.
Free(t) ==
    /\ timeout' = Set(timeout, t, IF Reuse THEN timeout[t] ELSE 0)
    /\ wanted' = Set(wanted, t, 0)
    /\ timed_out' = Set(timed_out, t, FALSE) /\ cancelled' = Set(cancelled, t, FALSE)
    /\ completed' = Set(completed, t, FALSE) /\ status' = Set(status, t, "none")
    /\ failed' = Set(failed, t, FALSE)
    /\ Goto(t, "idle")

\* do_sync_bulk_transfer and libusb_control_transfer allocate a transfer with
\* all fields zero; an application that reuses one keeps the fields.
\* calculate_timeout sets the timeout only if there is one.
calculate_timeout(d, old) == IF d = 0 THEN old ELSE now + d

BeginTransfer(t) ==
    /\ pc[t] = "idle" /\ used[t] < MaxCalls
    /\ \E d \in Timeouts, old \in {0} \cup (IF Reuse THEN {timeout[t]} ELSE {}) :
         /\ now + d <= MaxTime
         /\ timeout' = Set(timeout, t, calculate_timeout(d, old))
         /\ wanted' = Set(wanted, t, IF d = 0 THEN 0 ELSE now + d)
    /\ used' = [used EXCEPT ![t] = @ + 1]
    /\ lock' = Set(lock, t, t)
    /\ Goto(t, "add")
    /\ UNCHANGED <<ctx, list, clock, timer, waiters, kernel, timed_out, cancelled,
                   completed, status, op, first, limit, fds, todo, xfer, then, failed>>

add_to_flying_list(t) ==
    /\ pc[t] = "add" /\ flying_lock = "none"
    /\ flying_transfers' = InsertAt(flying_transfers, SortedPlace(t), t)
    /\ first' = Set(first, t, timeout[t] # 0 /\ SortedPlace(t) = 1)
    /\ Goto(t, "backend")
    /\ UNCHANGED <<ctx, flying_lock, clock, timer, waiters, itransfer, op, limit, fds,
                   todo, xfer, then, failed, used>>

\* The backend takes the transfer or refuses it.
BackendSubmit(t) ==
    /\ pc[t] = "backend"
    /\ \/ kernel' = Set(kernel, t, "queued") /\ Goto(t, "arm")
       \/ kernel' = kernel /\ Goto(t, "unadd")
    /\ UNCHANGED <<ctx, list, clock, timer, waiters, lock, timeout, timed_out,
                   cancelled, completed, status, wanted, locals>>

\* list_del under flying_lock, itransfer->lock still held.
Unadd(t) ==
    /\ pc[t] = "unadd" /\ flying_lock = "none"
    /\ flying_transfers' = list_del(flying_transfers, t)
    /\ lock' = Set(lock, t, "none") /\ first' = Set(first, t, FALSE)
    /\ Free(t)
    /\ UNCHANGED <<ctx, flying_lock, clock, timer, waiters, kernel, op, limit, fds, todo,
                   xfer, then, used>>

\* The timer is armed for a transfer that went to the head of the list.
ArmFirst(t) ==
    /\ pc[t] = "arm"
    /\ timer' = IF first[t] /\ timerfd = "used" THEN timeout[t] ELSE timer
    /\ lock' = Set(lock, t, "none")
    /\ first' = Set(first, t, FALSE)
    /\ Goto(t, "loop")
    /\ UNCHANGED <<ctx, list, clock, waiters, timeout, timed_out, kernel, cancelled,
                   completed, status, wanted, op, limit, fds, todo, xfer, then, failed, used>>

\* while (!completed) libusb_handle_events(ctx); then the call returns.
SyncReturn(t) ==
    /\ pc[t] = "loop" /\ completed[t]
    /\ Free(t)
    /\ UNCHANGED <<ctx, list, clock, timer, waiters, lock, kernel, op, first, limit,
                   fds, todo, xfer, then, used>>

\* Mutant: the cancelled transfer is not waited for.
SyncError_Hasty(t) ==
    /\ pc[t] = "cancel" /\ lock[t] = "none"
    /\ kernel' = Set(kernel, t, IF kernel[t] = "none" THEN "none" ELSE "ready")
    /\ Free(t)
    /\ UNCHANGED <<ctx, list, clock, timer, waiters, lock, op, first, limit, fds, todo,
                   xfer, then, used>>

\* libusb_handle_events failed: the transfer is cancelled and waited for; at a
\* second failure it is freed as it is.
SyncError(t) ==
    /\ pc[t] = "cancel"
    /\ \/ /\ ~failed[t] /\ lock[t] = "none"
          /\ failed' = Set(failed, t, TRUE)
          /\ IF kernel[t] = "none" THEN UNCHANGED <<kernel, cancelled>>
             ELSE /\ kernel' = Set(kernel, t, "ready")
                  /\ cancelled' = Set(cancelled, t, TRUE)
          /\ Goto(t, "loop")
          /\ UNCHANGED <<timeout, wanted, timed_out, completed, status>>
       \/ failed[t] /\ Free(t) /\ UNCHANGED kernel
    /\ UNCHANGED <<ctx, list, clock, timer, waiters, lock, op, first, limit, fds, todo,
                   xfer, then, used>>
----------------------------------------------------------------------------
(* libusb_handle_events_timeout *)

\* get_next_timeout: without a timerfd the next timeout limits the wait, and
\* one that has passed is handled at once.  limit 0 is the 60 seconds.
get_next_timeout(t) ==
    LET nt == IF timerfd = "used" THEN 0 ELSE NextTimeout(flying_transfers)
    IN
    /\ pc[t] = "loop" /\ ~completed[t] /\ flying_lock = "none"
    /\ limit' = Set(limit, t, nt)
    /\ IF nt # 0 /\ nt <= now
       THEN Goto(t, "timeouts") /\ then' = Set(then, t, "loop")
       ELSE Goto(t, "try") /\ then' = then
    /\ UNCHANGED <<ctx, list, clock, timer, waiters, itransfer, op, first, fds, todo,
                   xfer, failed, used>>

\* libusb_try_lock_events reads pollfd_modify first.
TryModify(t) ==
    /\ pc[t] = "try"
    /\ Goto(t, IF pollfd_modify > 0 THEN "wait" ELSE "trylock")
    /\ UNCHANGED <<ctx, list, clock, timer, waiters, itransfer, locals>>

libusb_try_lock_events(t) ==
    /\ pc[t] = "trylock"
    /\ IF events_lock = "none"
       THEN /\ events_lock' = t /\ event_handler_active' = TRUE
            /\ Goto(t, "fds")
       ELSE Goto(t, "wait") /\ UNCHANGED <<events_lock, event_handler_active>>
    /\ UNCHANGED <<pollfd_modify, ctrl_pipe, pollfds, list, clock, timer, waiters,
                   itransfer, locals>>

\* With event_waiters_lock held: if somebody handles events or is about to
\* modify the poll set, wait to be told; else try again.
libusb_wait_for_event(t) ==
    /\ pc[t] = "wait"
    /\ IF pollfd_modify > 0 \/ event_handler_active
       THEN Goto(t, "waiting") /\ waiters' = waiters \cup {t}
       ELSE Goto(t, "try") /\ waiters' = waiters
    /\ UNCHANGED <<ctx, list, clock, timer, itransfer, locals>>

\* The 60 seconds pass only while no other thread is in the middle of a call;
\* those of a wait not while another thread polls, whose 60 seconds began
\* before: unlocking the events wakes all that waited until then.
Resting == {"closed", "idle", "waiting"}
Elapsed(t) == IF limit[t] = 0 THEN \A x \in Threads \ {t} : pc[x] \in Resting
              ELSE limit[t] <= now

WaitTimeout(t) ==
    /\ pc[t] = "waiting" /\ Elapsed(t)
    /\ waiters' = waiters \ {t}
    /\ then' = Set(then, t, "loop") /\ limit' = Set(limit, t, 0)
    /\ Goto(t, "timeouts")
    /\ UNCHANGED <<ctx, list, clock, timer, itransfer, op, first, fds, todo, xfer,
                   failed, used>>
----------------------------------------------------------------------------
(* handle_events *)

\* The fds are copied out of the list before poll.
CopyFds(t) ==
    /\ pc[t] = "fds"
    /\ fds' = Set(fds, t, pollfds)
    /\ Goto(t, "poll")
    /\ UNCHANGED <<ctx, list, clock, timer, waiters, itransfer, op, first, limit, todo,
                   xfer, then, failed, used>>

TimerFired == timerfd = "used" /\ timer # 0 /\ timer <= now
Ready(t) == {x \in fds[t] : kernel[x] = "ready"}

\* poll returns: first the timer is served, then the handles; a byte in the
\* control pipe alone ends the call.
PollReturns(t) ==
    /\ pc[t] = "poll" /\ (ctrl_pipe > 0 \/ TimerFired \/ Ready(t) # {})
    /\ todo' = Set(todo, t, Ready(t))
    /\ then' = Set(then, t, "loop")
    /\ fds' = Set(fds, t, {}) /\ limit' = Set(limit, t, 0)
    /\ Goto(t, IF TimerFired THEN "trigger" ELSE "reap")
    /\ UNCHANGED <<ctx, list, clock, timer, waiters, itransfer, op, first, xfer,
                   failed, used>>

\* It times out: timeouts of transfers are looked at.
PollTimeout(t) ==
    /\ pc[t] = "poll" /\ ctrl_pipe = 0 /\ ~TimerFired /\ Ready(t) = {} /\ Elapsed(t)
    /\ then' = Set(then, t, "unlock")
    /\ fds' = Set(fds, t, {}) /\ limit' = Set(limit, t, 0)
    /\ Goto(t, "timeouts")
    /\ UNCHANGED <<ctx, list, clock, timer, waiters, itransfer, op, first, todo, xfer,
                   failed, used>>

\* It fails: the caller of libusb_handle_events gets an error; where it is only
\* a signal, a caller that did not cancel yet goes on.
PollFails(t) ==
    /\ pc[t] = "poll" /\ errors < MaxErrors
    /\ errors' = errors + 1
    /\ \E place \in {"cancel"} \cup (IF failed[t] THEN {} ELSE {"loop"}) :
         then' = Set(then, t, place)
    /\ fds' = Set(fds, t, {}) /\ limit' = Set(limit, t, 0)
    /\ Goto(t, "unlock")
    /\ UNCHANGED <<ctx, list, timerfd, now, timer, waiters, itransfer, op, first, todo,
                   xfer, failed, used>>

\* handle_timerfd_trigger: disarmed before the lock is taken.
TimerTrigger(t) ==
    /\ pc[t] = "trigger"
    /\ timer' = 0
    /\ then' = Set(then, t, "reap")
    /\ Goto(t, "timeouts")
    /\ UNCHANGED <<ctx, list, clock, waiters, itransfer, op, first, limit, fds, todo,
                   xfer, failed, used>>

\* Mutant: a tick too early.
Expired_Early == LET nt == NextTimeout(flying_transfers)
                 IN  {x \in Range(flying_transfers) :
                        ~timed_out[x] /\ timeout[x] = nt /\ nt # 0 /\ nt <= now + 1}
\* The next transfer on the list whose time has come.
Expired == LET nt == NextTimeout(flying_transfers)
           IN  {x \in Range(flying_transfers) :
                  ~timed_out[x] /\ timeout[x] = nt /\ nt # 0 /\ nt <= now}

\* The flag is set before libusb_cancel_transfer takes itransfer->lock, and
\* flying_lock is held all the time.
ExpireNext(t) ==
    /\ pc[t] = "expire" /\ Expired # {}
    /\ \E x \in Expired :
         timed_out' = Set(timed_out, x, TRUE) /\ xfer' = Set(xfer, t, x)
    /\ Goto(t, "victim")
    /\ UNCHANGED <<ctx, list, clock, timer, waiters, lock, timeout, kernel, cancelled,
                   completed, status, wanted, op, first, limit, fds, todo, then, failed,
                   used>>

CancelExpired(t) ==
    LET x == xfer[t] IN
    /\ pc[t] = "victim" /\ lock[x] = "none"
    /\ IF kernel[x] = "none" THEN UNCHANGED <<kernel, cancelled>>
       ELSE kernel' = Set(kernel, x, "ready") /\ cancelled' = Set(cancelled, x, TRUE)
    /\ xfer' = Set(xfer, t, "none")
    /\ Goto(t, "expire")
    /\ UNCHANGED <<ctx, list, clock, timer, waiters, lock, timeout, timed_out, completed,
                   status, wanted, op, first, limit, fds, todo, then, failed, used>>

\* The walk is over; after a timer event the next timeout is armed.
WalkDone(t) ==
    LET nt == NextTimeout(flying_transfers)
        place == [reap |-> "loop", unlock |-> "loop", loop |-> "none"]
    IN
    /\ Expired = {}
    /\ flying_lock' = "none"
    /\ timer' = IF then[t] = "reap" /\ nt # 0 THEN nt ELSE timer
    /\ Goto(t, then[t]) /\ then' = Set(then, t, place[then[t]])

TimeoutsDone(t) ==
    /\ pc[t] = "expire" /\ WalkDone(t)
    /\ UNCHANGED <<ctx, flying_transfers, clock, waiters, itransfer, op, first, limit,
                   fds, todo, xfer, failed, used>>

\* Nobody sees the lock held by a walk that finds nothing to do.
handle_timeouts(t) ==
    /\ pc[t] = "timeouts" /\ flying_lock = "none"
    /\ \/ WalkDone(t)
       \/ /\ Expired # {} /\ flying_lock' = t /\ Goto(t, "expire")
          /\ UNCHANGED <<timer, then>>
    /\ UNCHANGED <<ctx, flying_transfers, clock, waiters, itransfer, op, first, limit,
                   fds, todo, xfer, failed, used>>

\* op_handle_events reaps one URB per ready handle, under itransfer->lock.
Reap(t) ==
    /\ pc[t] = "reap"
    /\ IF todo[t] = {}
       THEN Goto(t, "unlock") /\ UNCHANGED <<todo, xfer, kernel>>
       ELSE \E x \in todo[t] :
              /\ lock[x] = "none"
              /\ todo' = Set(todo, t, todo[t] \ {x})
              /\ IF kernel[x] = "ready"
                 THEN /\ xfer' = Set(xfer, t, x)
                      /\ kernel' = Set(kernel, x, "none")
                      /\ Goto(t, "complete")
                 ELSE UNCHANGED <<xfer, kernel, pc>>
    /\ UNCHANGED <<ctx, list, clock, timer, waiters, lock, timeout, timed_out, cancelled,
                   completed, status, wanted, op, first, limit, fds, then, failed, used>>

\* usbi_handle_transfer_completion takes the transfer off the list and arms
\* the timer for the next.  If no timeout is left, the timer is disarmed, but
\* after the lock was released.  Where the timerfd could not be created, the
\* call fails and the transfer's callback is not called.
TakeOff(t) ==
    LET rest == list_del(flying_transfers, xfer[t])
        nt == NextTimeout(rest)
    IN
    /\ pc[t] = "complete" /\ flying_lock = "none"
    /\ flying_transfers' = rest
    /\ timer' = IF nt # 0 /\ timerfd = "used" THEN nt ELSE timer
    /\ IF timerfd = "unavailable"
       THEN /\ Goto(t, "unlock")
            /\ then' = Set(then, t, "cancel") /\ xfer' = Set(xfer, t, "none")
            /\ todo' = Set(todo, t, {})
       ELSE /\ Goto(t, IF timerfd = "used" /\ nt = 0 THEN "disarm" ELSE "callback")
            /\ UNCHANGED <<then, xfer, todo>>
    /\ UNCHANGED <<ctx, flying_lock, clock, waiters, itransfer, op, first, limit, fds,
                   failed, used>>

Disarm(t) ==
    /\ pc[t] = "disarm"
    /\ timer' = 0
    /\ Goto(t, "callback")
    /\ UNCHANGED <<ctx, list, clock, waiters, itransfer, locals>>

\* The callback sets completed; the waiters are told after it.
Callback(t) ==
    LET x == xfer[t] IN
    /\ pc[t] = "callback" /\ x # "none"
    /\ completed' = Set(completed, x, TRUE)
    /\ status' = Set(status, x, IF cancelled[x] /\ timed_out[x] THEN "TIMED_OUT"
                                ELSE IF cancelled[x] THEN "CANCELLED" ELSE "COMPLETED")
    /\ xfer' = Set(xfer, t, "none")
    /\ UNCHANGED <<ctx, list, clock, timer, waiters, lock, timeout, timed_out, kernel,
                   cancelled, wanted, op, first, limit, fds, todo, then, failed, used, pc>>

AfterCallback(t) ==
    /\ pc[t] = "callback" /\ xfer[t] = "none"
    /\ waiters' = {}
    /\ pc' = Woken(t, "reap")
    /\ UNCHANGED <<ctx, list, clock, timer, itransfer, locals>>
----------------------------------------------------------------------------
(* The kernel and the clock *)

DeviceAnswers(t) ==
    /\ kernel[t] = "queued"
    /\ kernel' = Set(kernel, t, "ready")
    /\ UNCHANGED <<ctx, list, clock, timer, waiters, lock, timeout, timed_out, cancelled,
                   completed, status, wanted, locals, pc>>

Tick ==
    /\ now < MaxTime
    /\ SlowSubmit \/ \A t \in Threads : pc[t] \notin Submitting
    /\ now' = now + 1
    /\ UNCHANGED <<ctx, list, timerfd, errors, timer, waiters, itransfer, locals, pc>>
----------------------------------------------------------------------------
Init ==
    /\ timerfd \in Builds
    /\ now = 0 /\ timer = 0 /\ errors = 0
    /\ events_lock = "none" /\ event_handler_active = FALSE
    /\ pollfd_modify = 0 /\ ctrl_pipe = 0 /\ pollfds = {}
    /\ flying_transfers = <<>> /\ flying_lock = "none" /\ waiters = {}
    /\ lock = [t \in Threads |-> "none"]
    /\ timeout = [t \in Threads |-> 0] /\ wanted = [t \in Threads |-> 0]
    /\ timed_out = [t \in Threads |-> FALSE] /\ cancelled = [t \in Threads |-> FALSE]
    /\ kernel = [t \in Threads |-> "none"]
    /\ completed = [t \in Threads |-> FALSE] /\ status = [t \in Threads |-> "none"]
    /\ pc = [t \in Threads |-> "closed"] /\ op = [t \in Threads |-> "none"]
    /\ first = [t \in Threads |-> FALSE] /\ limit = [t \in Threads |-> 0]
    /\ fds = [t \in Threads |-> {}] /\ todo = [t \in Threads |-> {}]
    /\ xfer = [t \in Threads |-> "none"] /\ then = [t \in Threads |-> "none"]
    /\ failed = [t \in Threads |-> FALSE] /\ used = [t \in Threads |-> 0]

\* What a thread does once it is inside a call.
Inside(t) ==
    \/ AnnounceModify(t) \/ WritePipe(t) \/ libusb_lock_events(t) \/ FinishModify(t)
    \/ libusb_unlock_events(t) \/ Broadcast(t)
    \/ add_to_flying_list(t) \/ BackendSubmit(t) \/ Unadd(t) \/ ArmFirst(t)
    \/ SyncReturn(t) \/ SyncError(t)
    \/ get_next_timeout(t) \/ TryModify(t) \/ libusb_try_lock_events(t)
    \/ libusb_wait_for_event(t) \/ WaitTimeout(t)
    \/ CopyFds(t) \/ PollReturns(t) \/ PollTimeout(t) \/ TimerTrigger(t)
    \/ handle_timeouts(t) \/ ExpireNext(t) \/ CancelExpired(t) \/ TimeoutsDone(t)
    \/ Reap(t) \/ TakeOff(t) \/ Disarm(t) \/ Callback(t) \/ AfterCallback(t)

Next == \/ \E t \in Threads : \/ libusb_open(t) \/ libusb_close(t) \/ BeginTransfer(t)
                              \/ Inside(t) \/ PollFails(t) \/ DeviceAnswers(t)
        \/ Tick

\* A thread inside a call goes on, waits of 60 seconds end, time passes.
\* Nothing forces a thread to call or a device to answer.
Fairness == WF_vars(Tick) /\ \A t \in Threads : WF_vars(Inside(t))
Spec == Init /\ [][Next]_vars /\ Fairness
----------------------------------------------------------------------------
(* Properties *)

Places == {"closed", "idle", "loop", "cancel", "try", "trylock", "wait",
           "waiting", "timeouts", "expire", "victim", "unlock", "broadcast"}
            \cup Submitting \cup Opening \cup Handling

\* Types of all variables.
TypeOK ==
    /\ timerfd \in Builds /\ now \in Nat /\ timer \in Nat /\ errors \in 0..MaxErrors
    /\ events_lock \in Threads \cup {"none"} /\ event_handler_active \in BOOLEAN
    /\ pollfd_modify \in Nat /\ ctrl_pipe \in Nat
    /\ pollfds \subseteq Threads /\ waiters \subseteq Threads
    /\ flying_transfers \in Seq(Threads) /\ flying_lock \in Threads \cup {"none"}
    /\ lock \in [Threads -> Threads \cup {"none"}]
    /\ timeout \in [Threads -> Nat] /\ wanted \in [Threads -> Nat]
    /\ timed_out \in [Threads -> BOOLEAN] /\ cancelled \in [Threads -> BOOLEAN]
    /\ kernel \in [Threads -> {"none", "queued", "ready"}]
    /\ completed \in [Threads -> BOOLEAN]
    /\ status \in [Threads -> {"none", "COMPLETED", "CANCELLED", "TIMED_OUT"}]
    /\ pc \in [Threads -> Places] /\ op \in [Threads -> {"none", "open", "close"}]
    /\ first \in [Threads -> BOOLEAN] /\ limit \in [Threads -> Nat]
    /\ fds \in [Threads -> SUBSET Threads] /\ todo \in [Threads -> SUBSET Threads]
    /\ xfer \in [Threads -> Threads \cup {"none"}]
    /\ then \in [Threads -> {"none", "closed", "idle", "loop", "cancel", "unlock", "reap"}]
    /\ failed \in [Threads -> BOOLEAN] /\ used \in [Threads -> 0..MaxCalls]

\* The thread that polls watches every handle whose libusb_open has returned,
\* and no handle that is closed: pollfd_modify, the control pipe and the
\* events lock together keep the copy of the poll set current.
OpenHandles == {x \in Threads : pc[x] # "closed" /\ op[x] # "open"
                                  /\ ~(pc[x] \in {"unlock", "broadcast"} /\ then[x] = "closed")}
PollMatchesHandles ==
    \A t \in Threads : pc[t] = "poll" => OpenHandles \subseteq fds[t] /\ fds[t] \subseteq pollfds

\* The control pipe holds one byte for each call of libusb_open and
\* libusb_close that wrote one and did not get the events lock yet: nobody
\* finds it empty, and no byte is left to wake pollers for ever.
PipeBalanced == ctrl_pipe = Cardinality({x \in Threads : pc[x] \in {"lock", "read"}})

\* The hand-over of the poll set: what the poller watches, the control pipe and
\* the two locks never disagree, however opening and closing threads interleave.
HandoverOK == TypeOK /\ PollMatchesHandles /\ PipeBalanced

\* The list of flying transfers is sorted, infinite timeouts last: the walks
\* that stop at the first transfer whose time has not come miss nothing.
FlyingSorted ==
    \A i, j \in DOMAIN flying_transfers :
        i < j => ~(Later(timeout[flying_transfers[i]], timeout[flying_transfers[j]])
                     /\ timeout[flying_transfers[i]] # timeout[flying_transfers[j]])

\* A transfer times out only after the time its caller gave, and never if it
\* gave none (libusb.h: a timeout of 0 indicates no timeout).
TimesOutTruly ==
    \A t \in Threads : status[t] = "TIMED_OUT" => wanted[t] # 0 /\ wanted[t] <= now

\* A synchronous call returns, and frees its transfer, only when neither the
\* kernel nor the list of flying transfers still refers to it.
FreedNotFlying ==
    \A t \in Threads : pc[t] \in {"idle", "closed"} =>
        kernel[t] = "none" /\ t \notin Range(flying_transfers)

\* The list of flying transfers is in order and nothing on it was freed.
FlyingOK == FlyingSorted /\ FreedNotFlying

\* libusb_open and libusb_close get the events lock from whoever polls, and a
\* synchronous transfer that has a timeout or an answer is completed by
\* whoever polls: the call returns (at the latest after the 60 seconds of a
\* poll).  Threads are interchangeable: one is watched.
Returning(t) == \/ pc[t] \in Opening
                \/ pc[t] # "idle" /\ kernel[t] = "ready"
                \/ pc[t] # "idle" /\ kernel[t] = "queued" /\ timeout[t] # 0
CallReturns == Returning(Watched) ~> pc[Watched] \in {"idle", "closed"}

\* While a transfer with a timeout flies, the timerfd is armed for it or for
\* an earlier one (libusb_pollfds_handle_timeouts: all timeout events are
\* handled through activity on the file descriptors).
TimerCovers ==
    (timerfd = "used" /\ NextTimeout(flying_transfers) # 0
      /\ \A t \in Threads : pc[t] \notin Submitting \cup {"timeouts", "expire", "victim", "trigger"})
      => timer # 0 /\ timer <= NextTimeout(flying_transfers)

\* A thread whose transfer was completed does not wait for events any more
\* (libusb_wait_for_event: unblocks when a transfer completes).
NoIdlePoll == \A t \in Threads : pc[t] = "poll" => ~completed[t]
============================================================================
