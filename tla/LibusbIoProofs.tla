--------------------------- MODULE LibusbIoProofs ---------------------------
(***************************************************************************)
(* The event loop of libusb for every number of threads, calls, errors and *)
(* ticks: the hand-over of the poll set is right (HandoverOK); where       *)
(* transfers are not submitted a second time, no transfer times out early  *)
(* or without a timeout (TimesOutTruly); and, with the limits named there, *)
(* the list of flying transfers is in order (FlyingOK).                    *)
(***************************************************************************)
EXTENDS LibusbIo, TLAPS, FiniteSetTheorems, SequenceTheorems, WellFoundedInduction

\* The walk over the timeouts, which is called with the events lock held
\* (handle_events) and without it (get_next_timeout, libusb_wait_for_event).
Walking == {"timeouts", "expire", "victim"}
\* Places of a thread that has the events lock.
Holding == {"fds", "poll", "trigger", "reap", "complete", "disarm", "callback",
            "unlock", "read"}
Held(t) == pc[t] \in Holding \/ (pc[t] \in Walking /\ then[t] # "loop")

\* Where a thread goes on after a walk or after unlocking.
ThenOK ==
  \A t \in Threads :
    /\ pc[t] \in Walking => then[t] \in {"loop", "unlock", "reap"}
    /\ pc[t] \in {"trigger", "reap", "complete", "disarm", "callback"} => then[t] = "loop"
    /\ pc[t] = "unlock" => then[t] \in {"loop", "cancel"}
    /\ pc[t] = "broadcast" => then[t] \in {"idle", "closed", "loop", "cancel"}
    /\ then[t] \in {"idle", "closed"} => pc[t] = "broadcast"

\* A thread is in libusb_open or libusb_close as long as op says so, and
\* blocked as long as it is among the waiters.
PlacesOK == /\ \A t \in Threads : op[t] # "none" <=> pc[t] \in Opening
            /\ \A t \in waiters : pc[t] = "waiting"

\* Who is in the code that the events lock protects has it, and no one else.
LockOK == \A t \in Threads : Held(t) <=> events_lock = t

\* Every handle that is not closed is in the poll set.
InPollSet == \A t \in Threads : pc[t] = "closed" \/ then[t] = "closed" \/ t \in pollfds

\* pollfd_modify counts those that announced a change and have not made it, the
\* control pipe those of them that have written their byte.
Modifiers == {x \in Threads : pc[x] \in {"write", "lock", "read"}}
Writers == {x \in Threads : pc[x] \in {"lock", "read"}}
ModifyBalanced == pollfd_modify = Cardinality(Modifiers)
Counted == PipeBalanced /\ ModifyBalanced

\* The types, in groups.
CtxType ==
  /\ events_lock \in Threads \cup {"none"} /\ event_handler_active \in BOOLEAN
  /\ pollfds \subseteq Threads /\ waiters \subseteq Threads
  /\ flying_lock \in Threads \cup {"none"}
ClockType ==
  /\ timerfd \in Builds /\ now \in Nat /\ timer \in Nat /\ errors \in 0 .. MaxErrors
  /\ flying_transfers \in Seq(Threads)
  /\ timeout \in [Threads -> Nat] /\ limit \in [Threads -> Nat]
PlaceType ==
  /\ pc \in [Threads -> Places] /\ op \in [Threads -> {"none", "open", "close"}]
  /\ then \in [Threads -> {"none", "closed", "idle", "loop", "cancel", "unlock", "reap"}]
TransferType ==
  /\ lock \in [Threads -> Threads \cup {"none"}] /\ wanted \in [Threads -> Nat]
  /\ timed_out \in [Threads -> BOOLEAN] /\ cancelled \in [Threads -> BOOLEAN]
  /\ kernel \in [Threads -> {"none", "queued", "ready"}]
  /\ completed \in [Threads -> BOOLEAN]
  /\ status \in [Threads -> {"none", "COMPLETED", "CANCELLED", "TIMED_OUT"}]
LocalType ==
  /\ first \in [Threads -> BOOLEAN]
  /\ fds \in [Threads -> SUBSET Threads] /\ todo \in [Threads -> SUBSET Threads]
  /\ xfer \in [Threads -> Threads \cup {"none"}]
  /\ failed \in [Threads -> BOOLEAN] /\ used \in [Threads -> 0 .. MaxCalls]

\* Where every thread is and what it holds there; what else the variables are.
Where == PlaceType /\ ThenOK /\ PlacesOK /\ LockOK /\ InPollSet
Data == CtxType /\ TransferType /\ LocalType

\* The inductive invariant of the hand-over.
Inv == /\ Where /\ Data /\ ClockType
       /\ PollMatchesHandles /\ Counted

\* A thread that has no transfer.
Idle(t) == pc[t] \in {"closed", "idle"} \cup Opening \/ then[t] \in {"idle", "closed"}

\* The inductive invariant of the timeouts: the timeout is the one that was
\* asked for, the flag is set only when it has passed, and the status comes
\* from the flag.
TimesInv ==
  \A t \in Threads :
    /\ timeout[t] = wanted[t]
    /\ timed_out[t] => timeout[t] # 0 /\ timeout[t] <= now
    /\ status[t] = "TIMED_OUT" => timed_out[t]
    /\ Idle(t) => timeout[t] = 0

\* Every set of natural numbers that is not empty has a least element.
LEMMA Least ==
  ASSUME NEW T, T \subseteq Nat, T # {}
  PROVE  \E m \in T : \A k \in T : m <= k
<1>1. IsWellFoundedOn(OpToRel(<, Nat), Nat)
  BY NatLessThanWellFounded
<1>2. PICK m \in T : \A k \in T : ~ (<<k, m>> \in OpToRel(<, Nat))
  BY <1>1, WFMin
<1>3. \A k \in T : ~ (k < m)
  <2> SUFFICES ASSUME NEW k \in T, k < m  PROVE FALSE
    OBVIOUS
  <2>1. <<k, m>> \in OpToRel(<, Nat)
    BY Zenon DEF OpToRel
  <2> QED
    BY <2>1, <1>2
<1> QED
  BY <1>3

\* Taking a transfer off the list leaves a list of transfers (list_del).
LEMMA DelType ==
  ASSUME NEW s \in Seq(Threads), NEW x
  PROVE  list_del(s, x) \in Seq(Threads)
<1>1. CASE x \in Range(s)
  <2>1. PICK i \in 1 .. Len(s) : i = CHOOSE j \in DOMAIN s : s[j] = x
    BY <1>1 DEF Range
  <2>2. list_del(s, x) = SubSeq(s, 1, i - 1) \o SubSeq(s, i + 1, Len(s))
    BY <1>1, <2>1 DEF list_del, RemoveAt
  <2>3. SubSeq(s, 1, i - 1) \in Seq(Threads)
    <3>1. \A j \in 1 .. (i - 1) : s[j] \in Threads
      BY <2>1
    <3> QED
      BY <3>1, SubSeqProperties
  <2>4. SubSeq(s, i + 1, Len(s)) \in Seq(Threads)
    <3>1. \A j \in (i + 1) .. Len(s) : s[j] \in Threads
      BY <2>1
    <3> QED
      BY <3>1, SubSeqProperties
  <2> QED
    BY <2>2, <2>3, <2>4, ConcatProperties
<1> QED
  BY <1>1 DEF list_del

\* There is a place for every transfer: after those that end before it or when it
\* does, and before one that ends later (add_to_flying_list).
LEMMA PlaceFits ==
  ASSUME ClockType, NEW t \in Threads
  PROVE  LET s == flying_transfers
             p == SortedPlace(t)
         IN  /\ p \in 1 .. (Len(s) + 1)
             /\ p <= Len(s) => Later(timeout[s[p]], timeout[t])
             /\ \A j \in 1 .. (p - 1) : Later(timeout[s[j]], timeout[t])
                                          => timeout[s[j]] = timeout[t]
<1> DEFINE s == flying_transfers
           Fits(i) == i <= Len(s) => Later(timeout[s[i]], timeout[t])
           fitting == {i \in 1 .. (Len(s) + 1) : Fits(i)}
<1>0. s \in Seq(Threads) /\ Len(s) \in Nat
  BY DEF ClockType
<1>1. CASE timeout[t] = 0
  BY <1>0, <1>1 DEF SortedPlace, Later
<1>2. CASE timeout[t] # 0
  <2>1. PICK m \in fitting : \A k \in fitting : m <= k
    <3>1. Len(s) + 1 \in fitting
      BY <1>0
    <3>2. fitting \subseteq Nat
      BY <1>0
    <3> QED
      BY <3>1, <3>2, Least
  <2>2. \A j \in 1 .. (m - 1) : ~ Later(timeout[s[j]], timeout[t])
    BY <1>0, <2>1
  <2>3. \E i \in 1 .. (Len(s) + 1) :
           /\ i <= Len(s) => Later(timeout[s[i]], timeout[t])
           /\ \A j \in 1 .. (i - 1) : ~ Later(timeout[s[j]], timeout[t])
    BY <2>1, <2>2
  <2>4. /\ SortedPlace(t) \in 1 .. (Len(s) + 1)
        /\ SortedPlace(t) <= Len(s) => Later(timeout[s[SortedPlace(t)]], timeout[t])
        /\ \A j \in 1 .. (SortedPlace(t) - 1) : ~ Later(timeout[s[j]], timeout[t])
    <3> HIDE DEF s
    <3> QED
      BY <2>3, <1>2, Zenon DEF SortedPlace, s
  <2> QED
    BY <2>4
<1> QED
  BY <1>1, <1>2

\* Putting a transfer there leaves a list of transfers (add_to_flying_list).
LEMMA AddType ==
  ASSUME ClockType, NEW t \in Threads
  PROVE  InsertAt(flying_transfers, SortedPlace(t), t) \in Seq(Threads)
<1> DEFINE s == flying_transfers
<1>1. s \in Seq(Threads) /\ Len(s) \in Nat
  BY DEF ClockType
<1>2. PICK p \in 1 .. (Len(s) + 1) : p = SortedPlace(t)
  BY PlaceFits
<1>3. /\ SubSeq(s, 1, p - 1) \in Seq(Threads)
      /\ SubSeq(s, p, Len(s)) \in Seq(Threads)
  BY <1>1, SubSeqProperties
<1>4. <<t>> \in Seq(Threads)
  OBVIOUS
<1> QED
  BY <1>2, <1>3, <1>4, ConcatProperties DEF InsertAt

\* The next timeout is a timeout of the list, or 0.
LEMMA NextTimeoutType ==
  ASSUME ClockType, NEW s \in Seq(Threads)
  PROVE  NextTimeout(s) \in Nat
<1> DEFINE Pending(i) == /\ timeout[s[i]] # 0 /\ ~timed_out[s[i]]
                         /\ \A j \in 1 .. (i - 1) : timeout[s[j]] # 0
           waiting == {i \in DOMAIN s : Pending(i)}
           k == CHOOSE i \in waiting : \A j \in waiting : i <= j
<1>1. NextTimeout(s) = IF waiting = {} THEN 0 ELSE timeout[s[k]]
  BY Zenon DEF NextTimeout
<1>2. CASE waiting # {}
  <2>1. waiting \subseteq Nat
    OBVIOUS
  <2>2. \E m \in waiting : \A j \in waiting : m <= j
    BY <2>1, <1>2, Least
  <2>3. k \in DOMAIN s
    BY <2>2
  <2> HIDE DEF k, waiting
  <2> QED
    BY <1>1, <2>3, <1>2 DEF ClockType
<1> QED
  BY <1>1, <1>2

\* Threads stay in step with the locks.  What decides it: nobody but a thread
\* itself moves it on, except for waiters, who only go back to the caller's loop.
LEMMA WhereStep ==
  ASSUME Inv, Next
  PROVE  Where'
<1> USE ThreadsAssumption DEF Inv, Where, PlaceType, ThenOK, PlacesOK, LockOK,
        InPollSet, Held, Holding, Opening, Walking, Places, Submitting, Handling, Data,
        CtxType, ctx, list, clock, itransfer, locals, Goto, Set
<1>1. CASE Tick
  BY <1>1 DEF Tick
<1>2. ASSUME NEW t \in Threads, libusb_open(t)  PROVE Where'
  BY <1>2 DEF libusb_open
<1>3. ASSUME NEW t \in Threads, libusb_close(t)  PROVE Where'
  BY <1>3 DEF libusb_close
<1>4. ASSUME NEW t \in Threads, BeginTransfer(t)  PROVE Where'
  BY <1>4 DEF BeginTransfer
<1>5. ASSUME NEW t \in Threads, AnnounceModify(t)  PROVE Where'
  BY <1>5 DEF AnnounceModify
<1>6. ASSUME NEW t \in Threads, WritePipe(t)  PROVE Where'
  BY <1>6 DEF WritePipe
<1>7. ASSUME NEW t \in Threads, libusb_lock_events(t)  PROVE Where'
  BY <1>7 DEF libusb_lock_events
<1>8. ASSUME NEW t \in Threads, FinishModify(t)  PROVE Where'
  BY <1>8 DEF FinishModify, ReleaseEvents
<1>9. ASSUME NEW t \in Threads, libusb_unlock_events(t)  PROVE Where'
  BY <1>9 DEF libusb_unlock_events, ReleaseEvents
<1>10. ASSUME NEW t \in Threads, Broadcast(t)  PROVE Where'
  BY <1>10 DEF Broadcast, Woken
<1>11. ASSUME NEW t \in Threads, add_to_flying_list(t)  PROVE Where'
  BY <1>11 DEF add_to_flying_list
<1>12. ASSUME NEW t \in Threads, BackendSubmit(t)  PROVE Where'
  BY <1>12 DEF BackendSubmit
<1>13. ASSUME NEW t \in Threads, Unadd(t)  PROVE Where'
  BY <1>13 DEF Unadd, Free
<1>14. ASSUME NEW t \in Threads, ArmFirst(t)  PROVE Where'
  BY <1>14 DEF ArmFirst
<1>15. ASSUME NEW t \in Threads, SyncReturn(t)  PROVE Where'
  BY <1>15 DEF SyncReturn, Free
<1>16. ASSUME NEW t \in Threads, SyncError(t)  PROVE Where'
  BY <1>16 DEF SyncError, Free
<1>17. ASSUME NEW t \in Threads, get_next_timeout(t)  PROVE Where'
  BY <1>17 DEF get_next_timeout
<1>18. ASSUME NEW t \in Threads, TryModify(t)  PROVE Where'
  BY <1>18 DEF TryModify
<1>19. ASSUME NEW t \in Threads, libusb_try_lock_events(t)  PROVE Where'
  BY <1>19 DEF libusb_try_lock_events
<1>20. ASSUME NEW t \in Threads, libusb_wait_for_event(t)  PROVE Where'
  BY <1>20 DEF libusb_wait_for_event
<1>21. ASSUME NEW t \in Threads, WaitTimeout(t)  PROVE Where'
  BY <1>21 DEF WaitTimeout
<1>22. ASSUME NEW t \in Threads, CopyFds(t)  PROVE Where'
  BY <1>22 DEF CopyFds
<1>23. ASSUME NEW t \in Threads, PollReturns(t)  PROVE Where'
  BY <1>23 DEF PollReturns
<1>24. ASSUME NEW t \in Threads, PollTimeout(t)  PROVE Where'
  BY <1>24 DEF PollTimeout
<1>25. ASSUME NEW t \in Threads, TimerTrigger(t)  PROVE Where'
  BY <1>25 DEF TimerTrigger
<1>26. ASSUME NEW t \in Threads, handle_timeouts(t)  PROVE Where'
  BY <1>26 DEF handle_timeouts, WalkDone
<1>27. ASSUME NEW t \in Threads, ExpireNext(t)  PROVE Where'
  BY <1>27 DEF ExpireNext
<1>28. ASSUME NEW t \in Threads, CancelExpired(t)  PROVE Where'
  BY <1>28 DEF CancelExpired
<1>29. ASSUME NEW t \in Threads, TimeoutsDone(t)  PROVE Where'
  BY <1>29 DEF TimeoutsDone, WalkDone
<1>30. ASSUME NEW t \in Threads, Reap(t)  PROVE Where'
  BY <1>30 DEF Reap
<1>31. ASSUME NEW t \in Threads, TakeOff(t)  PROVE Where'
  BY <1>31 DEF TakeOff
<1>32. ASSUME NEW t \in Threads, Disarm(t)  PROVE Where'
  BY <1>32 DEF Disarm
<1>33. ASSUME NEW t \in Threads, Callback(t)  PROVE Where'
  BY <1>33 DEF Callback
<1>34. ASSUME NEW t \in Threads, AfterCallback(t)  PROVE Where'
  BY <1>34 DEF AfterCallback, Woken
<1>35. ASSUME NEW t \in Threads, PollFails(t)  PROVE Where'
  BY <1>35 DEF PollFails
<1>36. ASSUME NEW t \in Threads, DeviceAnswers(t)  PROVE Where'
  BY <1>36 DEF DeviceAnswers
<1>37. QED
  BY <1>1, <1>2, <1>3, <1>4, <1>5, <1>6, <1>7, <1>8, <1>9, <1>10, <1>11, <1>12, <1>13,
    <1>14, <1>15, <1>16, <1>17, <1>18, <1>19, <1>20, <1>21, <1>22, <1>23, <1>24, <1>25,
    <1>26, <1>27, <1>28, <1>29, <1>30, <1>31, <1>32, <1>33, <1>34, <1>35, <1>36, Zenon
    DEF Next, Inside

\* The types of the context, the transfers and the locals.
LEMMA DataStep ==
  ASSUME Inv, Next
  PROVE  Data'
<1> USE BoundsAssumption DEF Inv, Data, CtxType, TransferType, LocalType, ClockType,
        Ready, calculate_timeout, ctx, list, clock, itransfer, locals, Goto, Set
<1>1. CASE Tick
  BY <1>1 DEF Tick
<1>2. ASSUME NEW t \in Threads, libusb_open(t)  PROVE Data'
  BY <1>2 DEF libusb_open
<1>3. ASSUME NEW t \in Threads, libusb_close(t)  PROVE Data'
  BY <1>3 DEF libusb_close
<1>4. ASSUME NEW t \in Threads, BeginTransfer(t)  PROVE Data'
  BY <1>4 DEF BeginTransfer
<1>5. ASSUME NEW t \in Threads, AnnounceModify(t)  PROVE Data'
  BY <1>5 DEF AnnounceModify
<1>6. ASSUME NEW t \in Threads, WritePipe(t)  PROVE Data'
  BY <1>6 DEF WritePipe
<1>7. ASSUME NEW t \in Threads, libusb_lock_events(t)  PROVE Data'
  BY <1>7 DEF libusb_lock_events
<1>8. ASSUME NEW t \in Threads, FinishModify(t)  PROVE Data'
  BY <1>8 DEF FinishModify, ReleaseEvents
<1>9. ASSUME NEW t \in Threads, libusb_unlock_events(t)  PROVE Data'
  BY <1>9 DEF libusb_unlock_events, ReleaseEvents
<1>10. ASSUME NEW t \in Threads, Broadcast(t)  PROVE Data'
  BY <1>10 DEF Broadcast, Woken
<1>11. ASSUME NEW t \in Threads, add_to_flying_list(t)  PROVE Data'
  BY <1>11 DEF add_to_flying_list
<1>12. ASSUME NEW t \in Threads, BackendSubmit(t)  PROVE Data'
  BY <1>12 DEF BackendSubmit
<1>13. ASSUME NEW t \in Threads, Unadd(t)  PROVE Data'
  BY <1>13 DEF Unadd, Free
<1>14. ASSUME NEW t \in Threads, ArmFirst(t)  PROVE Data'
  BY <1>14 DEF ArmFirst
<1>15. ASSUME NEW t \in Threads, SyncReturn(t)  PROVE Data'
  BY <1>15 DEF SyncReturn, Free
<1>16. ASSUME NEW t \in Threads, SyncError(t)  PROVE Data'
  <2>1. CASE ~failed[t]
    BY <1>16, <2>1 DEF SyncError, ctx, list, Set, Inv, Data, CtxType, TransferType,
       LocalType
  <2>2. CASE failed[t]
    <3>1. /\ Free(t) /\ UNCHANGED <<kernel, lock, first, fds, todo, xfer, used>>
          /\ UNCHANGED <<ctx, list, waiters>>
      BY <1>16, <2>2 DEF SyncError
    <3> QED
      BY <3>1 DEF Free, ctx, list, Set, Inv, Data, CtxType, TransferType, LocalType
  <2> QED
    BY <2>1, <2>2
<1>17. ASSUME NEW t \in Threads, get_next_timeout(t)  PROVE Data'
  BY <1>17 DEF get_next_timeout
<1>18. ASSUME NEW t \in Threads, TryModify(t)  PROVE Data'
  BY <1>18 DEF TryModify
<1>19. ASSUME NEW t \in Threads, libusb_try_lock_events(t)  PROVE Data'
  BY <1>19 DEF libusb_try_lock_events
<1>20. ASSUME NEW t \in Threads, libusb_wait_for_event(t)  PROVE Data'
  BY <1>20, ZenonT(60) DEF libusb_wait_for_event
<1>21. ASSUME NEW t \in Threads, WaitTimeout(t)  PROVE Data'
  BY <1>21 DEF WaitTimeout
<1>22. ASSUME NEW t \in Threads, CopyFds(t)  PROVE Data'
  BY <1>22 DEF CopyFds
<1>23. ASSUME NEW t \in Threads, PollReturns(t)  PROVE Data'
  BY <1>23 DEF PollReturns
<1>24. ASSUME NEW t \in Threads, PollTimeout(t)  PROVE Data'
  BY <1>24 DEF PollTimeout
<1>25. ASSUME NEW t \in Threads, TimerTrigger(t)  PROVE Data'
  BY <1>25 DEF TimerTrigger
<1>26. ASSUME NEW t \in Threads, handle_timeouts(t)  PROVE Data'
  BY <1>26 DEF handle_timeouts, WalkDone
<1>27. ASSUME NEW t \in Threads, ExpireNext(t)  PROVE Data'
  <2>1. \A x \in Expired : x \in Threads
    BY DEF Expired, Range, Inv, ClockType
  <2> QED
    BY <1>27, <2>1 DEF ExpireNext, ctx, list, Set, Inv, Data, CtxType, TransferType,
       LocalType
<1>28. ASSUME NEW t \in Threads, CancelExpired(t)  PROVE Data'
  BY <1>28 DEF CancelExpired
<1>29. ASSUME NEW t \in Threads, TimeoutsDone(t)  PROVE Data'
  BY <1>29 DEF TimeoutsDone, WalkDone
<1>30. ASSUME NEW t \in Threads, Reap(t)  PROVE Data'
  <2> HIDE BoundsAssumption DEF CtxType, TransferType, ClockType, Ready, ctx, list
  <2>1. /\ todo' \in [Threads -> SUBSET Threads]
        /\ xfer' \in [Threads -> Threads \cup {"none"}]
    BY <1>30 DEF Reap, Set, Inv, Data, LocalType
  <2>2. kernel' \in [Threads -> {"none", "queued", "ready"}]
    BY <1>30 DEF Reap, Set, Inv, Data, TransferType
  <2> QED
    BY <1>30, <2>1, <2>2 DEF Reap, ctx, list, Inv, Data, CtxType, TransferType, LocalType
<1>31. ASSUME NEW t \in Threads, TakeOff(t)  PROVE Data'
  BY <1>31 DEF TakeOff
<1>32. ASSUME NEW t \in Threads, Disarm(t)  PROVE Data'
  BY <1>32 DEF Disarm
<1>33. ASSUME NEW t \in Threads, Callback(t)  PROVE Data'
  BY <1>33 DEF Callback
<1>34. ASSUME NEW t \in Threads, AfterCallback(t)  PROVE Data'
  BY <1>34 DEF AfterCallback, Woken
<1>35. ASSUME NEW t \in Threads, PollFails(t)  PROVE Data'
  BY <1>35 DEF PollFails
<1>36. ASSUME NEW t \in Threads, DeviceAnswers(t)  PROVE Data'
  BY <1>36 DEF DeviceAnswers
<1>37. QED
  BY <1>1, <1>2, <1>3, <1>4, <1>5, <1>6, <1>7, <1>8, <1>9, <1>10, <1>11, <1>12, <1>13,
    <1>14, <1>15, <1>16, <1>17, <1>18, <1>19, <1>20, <1>21, <1>22, <1>23, <1>24, <1>25,
    <1>26, <1>27, <1>28, <1>29, <1>30, <1>31, <1>32, <1>33, <1>34, <1>35, <1>36, Zenon
    DEF Next, Inside

\* The types of the clock, the timeouts and the list: timer and limit are
\* timeouts that were found in the list.
LEMMA ClockStep ==
  ASSUME Inv, Next
  PROVE  ClockType'
<1> USE BoundsAssumption, BuildsAssumption DEF Inv, ClockType, calculate_timeout, ctx,
        list, clock, itransfer, locals, Goto, Set
<1>1. CASE Tick
  BY <1>1 DEF Tick
<1>2. ASSUME NEW t \in Threads, libusb_open(t)  PROVE ClockType'
  BY <1>2 DEF libusb_open
<1>3. ASSUME NEW t \in Threads, libusb_close(t)  PROVE ClockType'
  BY <1>3 DEF libusb_close
<1>4. ASSUME NEW t \in Threads, BeginTransfer(t)  PROVE ClockType'
  BY <1>4 DEF BeginTransfer
<1>5. ASSUME NEW t \in Threads, AnnounceModify(t)  PROVE ClockType'
  BY <1>5 DEF AnnounceModify
<1>6. ASSUME NEW t \in Threads, WritePipe(t)  PROVE ClockType'
  BY <1>6 DEF WritePipe
<1>7. ASSUME NEW t \in Threads, libusb_lock_events(t)  PROVE ClockType'
  BY <1>7 DEF libusb_lock_events
<1>8. ASSUME NEW t \in Threads, FinishModify(t)  PROVE ClockType'
  BY <1>8 DEF FinishModify, ReleaseEvents
<1>9. ASSUME NEW t \in Threads, libusb_unlock_events(t)  PROVE ClockType'
  BY <1>9 DEF libusb_unlock_events, ReleaseEvents
<1>10. ASSUME NEW t \in Threads, Broadcast(t)  PROVE ClockType'
  BY <1>10 DEF Broadcast, Woken
<1>11. ASSUME NEW t \in Threads, add_to_flying_list(t)  PROVE ClockType'
  <2>1. flying_transfers' \in Seq(Threads)
    BY <1>11, AddType DEF add_to_flying_list, Inv
  <2> QED
    BY <1>11, <2>1 DEF add_to_flying_list, clock, itransfer, Inv, ClockType
<1>12. ASSUME NEW t \in Threads, BackendSubmit(t)  PROVE ClockType'
  BY <1>12 DEF BackendSubmit
<1>13. ASSUME NEW t \in Threads, Unadd(t)  PROVE ClockType'
  <2>1. flying_transfers' \in Seq(Threads)
    BY <1>13, DelType DEF Unadd, Inv, ClockType
  <2> QED
    BY <1>13, <2>1 DEF Unadd, Free, Set, clock, Inv, ClockType
<1>14. ASSUME NEW t \in Threads, ArmFirst(t)  PROVE ClockType'
  BY <1>14 DEF ArmFirst
<1>15. ASSUME NEW t \in Threads, SyncReturn(t)  PROVE ClockType'
  BY <1>15 DEF SyncReturn, Free
<1>16. ASSUME NEW t \in Threads, SyncError(t)  PROVE ClockType'
  <2>1. timeout' = timeout \/ timeout' =
         [timeout EXCEPT ![t] = IF Reuse THEN timeout[t] ELSE 0]
    BY <1>16, Zenon DEF SyncError, Free
  <2>2. UNCHANGED <<list, clock, timer, limit>>
    BY <1>16 DEF SyncError
  <2> QED
    BY <2>1, <2>2
<1>17. ASSUME NEW t \in Threads, get_next_timeout(t)  PROVE ClockType'
  <2>1. NextTimeout(flying_transfers) \in Nat
    BY NextTimeoutType DEF Inv, ClockType
  <2>2. limit' \in [Threads -> Nat]
    BY <1>17, <2>1 DEF get_next_timeout, Set, Inv, ClockType
  <2> QED
    BY <1>17, <2>2 DEF get_next_timeout, clock, list, itransfer, Inv, ClockType
<1>18. ASSUME NEW t \in Threads, TryModify(t)  PROVE ClockType'
  BY <1>18 DEF TryModify
<1>19. ASSUME NEW t \in Threads, libusb_try_lock_events(t)  PROVE ClockType'
  BY <1>19 DEF libusb_try_lock_events
<1>20. ASSUME NEW t \in Threads, libusb_wait_for_event(t)  PROVE ClockType'
  BY <1>20 DEF libusb_wait_for_event
<1>21. ASSUME NEW t \in Threads, WaitTimeout(t)  PROVE ClockType'
  BY <1>21 DEF WaitTimeout
<1>22. ASSUME NEW t \in Threads, CopyFds(t)  PROVE ClockType'
  BY <1>22 DEF CopyFds
<1>23. ASSUME NEW t \in Threads, PollReturns(t)  PROVE ClockType'
  BY <1>23 DEF PollReturns
<1>24. ASSUME NEW t \in Threads, PollTimeout(t)  PROVE ClockType'
  BY <1>24 DEF PollTimeout
<1>25. ASSUME NEW t \in Threads, TimerTrigger(t)  PROVE ClockType'
  BY <1>25 DEF TimerTrigger
<1>26. ASSUME NEW t \in Threads, handle_timeouts(t)  PROVE ClockType'
  <2>1. NextTimeout(flying_transfers) \in Nat
    BY NextTimeoutType DEF Inv, ClockType
  <2>2. timer' \in Nat
    BY <1>26, <2>1 DEF handle_timeouts, WalkDone, Inv, ClockType
  <2> QED
    BY <1>26, <2>2 DEF handle_timeouts, clock, itransfer, Inv, ClockType
<1>27. ASSUME NEW t \in Threads, ExpireNext(t)  PROVE ClockType'
  BY <1>27 DEF ExpireNext
<1>28. ASSUME NEW t \in Threads, CancelExpired(t)  PROVE ClockType'
  BY <1>28 DEF CancelExpired
<1>29. ASSUME NEW t \in Threads, TimeoutsDone(t)  PROVE ClockType'
  <2>1. NextTimeout(flying_transfers) \in Nat
    BY NextTimeoutType DEF Inv, ClockType
  <2>2. timer' \in Nat
    BY <1>29, <2>1 DEF TimeoutsDone, WalkDone, Inv, ClockType
  <2> QED
    BY <1>29, <2>2 DEF TimeoutsDone, clock, itransfer, Inv, ClockType
<1>30. ASSUME NEW t \in Threads, Reap(t)  PROVE ClockType'
  BY <1>30 DEF Reap
<1>31. ASSUME NEW t \in Threads, TakeOff(t)  PROVE ClockType'
  <2>1. flying_transfers' \in Seq(Threads)
    BY <1>31, DelType DEF TakeOff, Inv, ClockType
  <2>2. NextTimeout(flying_transfers') \in Nat
    BY <2>1, NextTimeoutType DEF Inv
  <2>3. timer' \in Nat
    BY <1>31, <2>2 DEF TakeOff, Inv, ClockType
  <2> QED
    BY <1>31, <2>1, <2>3 DEF TakeOff, clock, itransfer, Inv, ClockType
<1>32. ASSUME NEW t \in Threads, Disarm(t)  PROVE ClockType'
  BY <1>32 DEF Disarm
<1>33. ASSUME NEW t \in Threads, Callback(t)  PROVE ClockType'
  BY <1>33 DEF Callback
<1>34. ASSUME NEW t \in Threads, AfterCallback(t)  PROVE ClockType'
  BY <1>34 DEF AfterCallback, Woken
<1>35. ASSUME NEW t \in Threads, PollFails(t)  PROVE ClockType'
  BY <1>35 DEF PollFails
<1>36. ASSUME NEW t \in Threads, DeviceAnswers(t)  PROVE ClockType'
  BY <1>36 DEF DeviceAnswers
<1>37. QED
  BY <1>1, <1>2, <1>3, <1>4, <1>5, <1>6, <1>7, <1>8, <1>9, <1>10, <1>11, <1>12, <1>13,
    <1>14, <1>15, <1>16, <1>17, <1>18, <1>19, <1>20, <1>21, <1>22, <1>23, <1>24, <1>25,
    <1>26, <1>27, <1>28, <1>29, <1>30, <1>31, <1>32, <1>33, <1>34, <1>35, <1>36, Zenon
    DEF Next, Inside

\* The copy of the poll set stays current while somebody polls: the set changes
\* under the events lock only, or by a handle whose libusb_open has not returned.
LEMMA PollStep ==
  ASSUME Inv, Next
  PROVE  PollMatchesHandles'
<1> USE DEF Inv, Where, PlaceType, ThenOK, PlacesOK, LockOK, InPollSet, Held, Holding,
        Opening, Walking, Data, CtxType, LocalType, PollMatchesHandles, OpenHandles, ctx,
        list, clock, itransfer, locals, Goto, Set
<1>1. CASE Tick
  BY <1>1 DEF Tick
<1>2. ASSUME NEW t \in Threads, libusb_open(t)  PROVE PollMatchesHandles'
  BY <1>2 DEF libusb_open
<1>3. ASSUME NEW t \in Threads, libusb_close(t)  PROVE PollMatchesHandles'
  BY <1>3 DEF libusb_close
<1>4. ASSUME NEW t \in Threads, BeginTransfer(t)  PROVE PollMatchesHandles'
  BY <1>4 DEF BeginTransfer
<1>5. ASSUME NEW t \in Threads, AnnounceModify(t)  PROVE PollMatchesHandles'
  BY <1>5 DEF AnnounceModify
<1>6. ASSUME NEW t \in Threads, WritePipe(t)  PROVE PollMatchesHandles'
  BY <1>6 DEF WritePipe
<1>7. ASSUME NEW t \in Threads, libusb_lock_events(t)  PROVE PollMatchesHandles'
  BY <1>7 DEF libusb_lock_events
<1>8. ASSUME NEW t \in Threads, FinishModify(t)  PROVE PollMatchesHandles'
  BY <1>8 DEF FinishModify, ReleaseEvents
<1>9. ASSUME NEW t \in Threads, libusb_unlock_events(t)  PROVE PollMatchesHandles'
  BY <1>9 DEF libusb_unlock_events, ReleaseEvents
<1>10. ASSUME NEW t \in Threads, Broadcast(t)  PROVE PollMatchesHandles'
  BY <1>10 DEF Broadcast, Woken
<1>11. ASSUME NEW t \in Threads, add_to_flying_list(t)  PROVE PollMatchesHandles'
  BY <1>11 DEF add_to_flying_list
<1>12. ASSUME NEW t \in Threads, BackendSubmit(t)  PROVE PollMatchesHandles'
  BY <1>12 DEF BackendSubmit
<1>13. ASSUME NEW t \in Threads, Unadd(t)  PROVE PollMatchesHandles'
  BY <1>13 DEF Unadd, Free
<1>14. ASSUME NEW t \in Threads, ArmFirst(t)  PROVE PollMatchesHandles'
  BY <1>14 DEF ArmFirst
<1>15. ASSUME NEW t \in Threads, SyncReturn(t)  PROVE PollMatchesHandles'
  BY <1>15 DEF SyncReturn, Free
<1>16. ASSUME NEW t \in Threads, SyncError(t)  PROVE PollMatchesHandles'
  BY <1>16 DEF SyncError, Free
<1>17. ASSUME NEW t \in Threads, get_next_timeout(t)  PROVE PollMatchesHandles'
  <2>1. PICK nt : /\ limit' = Set(limit, t, nt)
                  /\ IF nt # 0 /\ nt <= now
                     THEN Goto(t, "timeouts") /\ then' = Set(then, t, "loop")
                     ELSE Goto(t, "try") /\ then' = then
    BY <1>17 DEF get_next_timeout
  <2>2. /\ pc[t] = "loop" /\ UNCHANGED <<op, fds, pollfds>>
        /\ pc' = [pc EXCEPT ![t] = "timeouts"] \/ pc' = [pc EXCEPT ![t] = "try"]
        /\ then' = [then EXCEPT ![t] = "loop"] \/ then' = then
    BY <1>17, <2>1, Zenon DEF get_next_timeout, ctx, locals, Goto, Set
  <2> QED
    BY <2>2 DEF Inv, Where, PlaceType, PollMatchesHandles, OpenHandles
<1>18. ASSUME NEW t \in Threads, TryModify(t)  PROVE PollMatchesHandles'
  BY <1>18 DEF TryModify
<1>19. ASSUME NEW t \in Threads, libusb_try_lock_events(t)  PROVE PollMatchesHandles'
  BY <1>19 DEF libusb_try_lock_events
<1>20. ASSUME NEW t \in Threads, libusb_wait_for_event(t)  PROVE PollMatchesHandles'
  BY <1>20 DEF libusb_wait_for_event
<1>21. ASSUME NEW t \in Threads, WaitTimeout(t)  PROVE PollMatchesHandles'
  BY <1>21 DEF WaitTimeout
<1>22. ASSUME NEW t \in Threads, CopyFds(t)  PROVE PollMatchesHandles'
  BY <1>22 DEF CopyFds
<1>23. ASSUME NEW t \in Threads, PollReturns(t)  PROVE PollMatchesHandles'
  BY <1>23 DEF PollReturns
<1>24. ASSUME NEW t \in Threads, PollTimeout(t)  PROVE PollMatchesHandles'
  BY <1>24 DEF PollTimeout
<1>25. ASSUME NEW t \in Threads, TimerTrigger(t)  PROVE PollMatchesHandles'
  BY <1>25 DEF TimerTrigger
<1>26. ASSUME NEW t \in Threads, handle_timeouts(t)  PROVE PollMatchesHandles'
  <2>1. UNCHANGED <<op, fds, pollfds>> /\ pc[t] = "timeouts"
    BY <1>26 DEF handle_timeouts, ctx
  <2>2. CASE WalkDone(t)
    BY <2>1, <2>2 DEF WalkDone, Goto, Set, Inv, Where, PlaceType, ThenOK, Walking,
       PollMatchesHandles, OpenHandles
  <2>3. CASE Goto(t, "expire") /\ then' = then
    BY <2>1, <2>3 DEF Goto, Inv, Where, PlaceType, PollMatchesHandles, OpenHandles
  <2> QED
    BY <1>26, <2>2, <2>3, Zenon DEF handle_timeouts
<1>27. ASSUME NEW t \in Threads, ExpireNext(t)  PROVE PollMatchesHandles'
  BY <1>27 DEF ExpireNext
<1>28. ASSUME NEW t \in Threads, CancelExpired(t)  PROVE PollMatchesHandles'
  BY <1>28 DEF CancelExpired
<1>29. ASSUME NEW t \in Threads, TimeoutsDone(t)  PROVE PollMatchesHandles'
  BY <1>29 DEF TimeoutsDone, WalkDone
<1>30. ASSUME NEW t \in Threads, Reap(t)  PROVE PollMatchesHandles'
  BY <1>30 DEF Reap
<1>31. ASSUME NEW t \in Threads, TakeOff(t)  PROVE PollMatchesHandles'
  BY <1>31 DEF TakeOff
<1>32. ASSUME NEW t \in Threads, Disarm(t)  PROVE PollMatchesHandles'
  BY <1>32 DEF Disarm
<1>33. ASSUME NEW t \in Threads, Callback(t)  PROVE PollMatchesHandles'
  BY <1>33 DEF Callback
<1>34. ASSUME NEW t \in Threads, AfterCallback(t)  PROVE PollMatchesHandles'
  BY <1>34 DEF AfterCallback, Woken
<1>35. ASSUME NEW t \in Threads, PollFails(t)  PROVE PollMatchesHandles'
  BY <1>35 DEF PollFails
<1>36. ASSUME NEW t \in Threads, DeviceAnswers(t)  PROVE PollMatchesHandles'
  BY <1>36 DEF DeviceAnswers
<1>37. QED
  BY <1>1, <1>2, <1>3, <1>4, <1>5, <1>6, <1>7, <1>8, <1>9, <1>10, <1>11, <1>12, <1>13,
    <1>14, <1>15, <1>16, <1>17, <1>18, <1>19, <1>20, <1>21, <1>22, <1>23, <1>24, <1>25,
    <1>26, <1>27, <1>28, <1>29, <1>30, <1>31, <1>32, <1>33, <1>34, <1>35, <1>36, Zenon
    DEF Next, Inside

\* Announcing and writing add the thread to those counted, finishing takes it
\* out, and no other step has to do with them.
LEMMA CountStep ==
  ASSUME Inv, Next
  PROVE  Counted'
<1> DEFINE Quiet == /\ UNCHANGED <<ctrl_pipe, pollfd_modify>>
                    /\ Writers' = Writers /\ Modifiers' = Modifiers
<1>a. IsFiniteSet(Writers) /\ IsFiniteSet(Modifiers)
  BY ThreadsAssumption, FS_Subset DEF Writers, Modifiers
<1>b. ctrl_pipe = Cardinality(Writers) /\ pollfd_modify = Cardinality(Modifiers)
  BY DEF Inv, Counted, PipeBalanced, ModifyBalanced, Writers
<1>c. /\ Quiet => Counted'
      /\ (ctrl_pipe = Cardinality(Writers))' <=> PipeBalanced'
      /\ (pollfd_modify = Cardinality(Modifiers))' <=> ModifyBalanced'
  BY <1>b DEF Counted, PipeBalanced, ModifyBalanced, Writers
<1> USE DEF Inv, Where, PlaceType, ThenOK, PlacesOK, Data, CtxType, Writers, Modifiers,
        ctx, list, clock, itransfer, locals, Goto, Set
<1>1. CASE Tick
  <2>1. Quiet
    BY <1>1 DEF Tick
  <2> QED
    BY <2>1, <1>c
<1>2. ASSUME NEW t \in Threads, libusb_open(t)  PROVE Counted'
  <2>1. Quiet
    BY <1>2 DEF libusb_open
  <2> QED
    BY <2>1, <1>c
<1>3. ASSUME NEW t \in Threads, libusb_close(t)  PROVE Counted'
  <2>1. Quiet
    BY <1>3 DEF libusb_close
  <2> QED
    BY <2>1, <1>c
<1>4. ASSUME NEW t \in Threads, BeginTransfer(t)  PROVE Counted'
  <2>1. Quiet
    BY <1>4 DEF BeginTransfer
  <2> QED
    BY <2>1, <1>c
<1>5. ASSUME NEW t \in Threads, AnnounceModify(t)  PROVE Counted'
  <2>1. /\ Writers' = Writers /\ ctrl_pipe' = ctrl_pipe
        /\ Modifiers' = Modifiers \cup {t} /\ t \notin Modifiers
        /\ pollfd_modify' = pollfd_modify + 1
    BY <1>5 DEF AnnounceModify
  <2>2. Cardinality(Modifiers') = Cardinality(Modifiers) + 1
    <3> HIDE DEF Writers, Modifiers, Inv
    <3> QED
      BY <2>1, <1>a, FS_AddElement
  <2> QED
    BY <2>1, <2>2, <1>b, <1>c DEF Counted
<1>6. ASSUME NEW t \in Threads, WritePipe(t)  PROVE Counted'
  <2>1. /\ Writers' = Writers \cup {t} /\ t \notin Writers
        /\ ctrl_pipe' = ctrl_pipe + 1
        /\ Modifiers' = Modifiers /\ pollfd_modify' = pollfd_modify
    BY <1>6 DEF WritePipe
  <2>2. Cardinality(Writers') = Cardinality(Writers) + 1
    <3> HIDE DEF Writers, Modifiers, Inv
    <3> QED
      BY <2>1, <1>a, FS_AddElement
  <2> QED
    BY <2>1, <2>2, <1>b, <1>c DEF Counted
<1>7. ASSUME NEW t \in Threads, libusb_lock_events(t)  PROVE Counted'
  <2>1. Quiet
    BY <1>7 DEF libusb_lock_events
  <2> QED
    BY <2>1, <1>c
<1>8. ASSUME NEW t \in Threads, FinishModify(t)  PROVE Counted'
  <2>1. /\ Writers' = Writers \ {t} /\ t \in Writers /\ ctrl_pipe' = ctrl_pipe - 1
        /\ Modifiers' = Modifiers \ {t} /\ t \in Modifiers
        /\ pollfd_modify' = pollfd_modify - 1
    BY <1>8 DEF FinishModify, ReleaseEvents
  <2>2. /\ Cardinality(Writers') = Cardinality(Writers) - 1
        /\ Cardinality(Modifiers') = Cardinality(Modifiers) - 1
    <3> HIDE DEF Writers, Modifiers, Inv
    <3> QED
      BY <2>1, <1>a, FS_RemoveElement
  <2> QED
    BY <2>1, <2>2, <1>b, <1>c DEF Counted
<1>9. ASSUME NEW t \in Threads, libusb_unlock_events(t)  PROVE Counted'
  <2>1. Quiet
    BY <1>9 DEF libusb_unlock_events, ReleaseEvents
  <2> QED
    BY <2>1, <1>c
<1>10. ASSUME NEW t \in Threads, Broadcast(t)  PROVE Counted'
  <2>1. Quiet
    BY <1>10 DEF Broadcast, Woken
  <2> QED
    BY <2>1, <1>c
<1>11. ASSUME NEW t \in Threads, add_to_flying_list(t)  PROVE Counted'
  <2>1. Quiet
    BY <1>11 DEF add_to_flying_list
  <2> QED
    BY <2>1, <1>c
<1>12. ASSUME NEW t \in Threads, BackendSubmit(t)  PROVE Counted'
  <2>1. Quiet
    BY <1>12 DEF BackendSubmit
  <2> QED
    BY <2>1, <1>c
<1>13. ASSUME NEW t \in Threads, Unadd(t)  PROVE Counted'
  <2>1. Quiet
    BY <1>13 DEF Unadd, Free
  <2> QED
    BY <2>1, <1>c
<1>14. ASSUME NEW t \in Threads, ArmFirst(t)  PROVE Counted'
  <2>1. Quiet
    BY <1>14 DEF ArmFirst
  <2> QED
    BY <2>1, <1>c
<1>15. ASSUME NEW t \in Threads, SyncReturn(t)  PROVE Counted'
  <2>1. Quiet
    BY <1>15 DEF SyncReturn, Free
  <2> QED
    BY <2>1, <1>c
<1>16. ASSUME NEW t \in Threads, SyncError(t)  PROVE Counted'
  <2>1. Quiet
    BY <1>16 DEF SyncError, Free
  <2> QED
    BY <2>1, <1>c
<1>17. ASSUME NEW t \in Threads, get_next_timeout(t)  PROVE Counted'
  <2>1. Quiet
    BY <1>17 DEF get_next_timeout
  <2> QED
    BY <2>1, <1>c
<1>18. ASSUME NEW t \in Threads, TryModify(t)  PROVE Counted'
  <2>1. Quiet
    BY <1>18 DEF TryModify
  <2> QED
    BY <2>1, <1>c
<1>19. ASSUME NEW t \in Threads, libusb_try_lock_events(t)  PROVE Counted'
  <2>1. Quiet
    BY <1>19 DEF libusb_try_lock_events
  <2> QED
    BY <2>1, <1>c
<1>20. ASSUME NEW t \in Threads, libusb_wait_for_event(t)  PROVE Counted'
  <2>1. Quiet
    BY <1>20 DEF libusb_wait_for_event
  <2> QED
    BY <2>1, <1>c
<1>21. ASSUME NEW t \in Threads, WaitTimeout(t)  PROVE Counted'
  <2>1. Quiet
    BY <1>21 DEF WaitTimeout
  <2> QED
    BY <2>1, <1>c
<1>22. ASSUME NEW t \in Threads, CopyFds(t)  PROVE Counted'
  <2>1. Quiet
    BY <1>22 DEF CopyFds
  <2> QED
    BY <2>1, <1>c
<1>23. ASSUME NEW t \in Threads, PollReturns(t)  PROVE Counted'
  <2>1. Quiet
    BY <1>23 DEF PollReturns
  <2> QED
    BY <2>1, <1>c
<1>24. ASSUME NEW t \in Threads, PollTimeout(t)  PROVE Counted'
  <2>1. Quiet
    BY <1>24 DEF PollTimeout
  <2> QED
    BY <2>1, <1>c
<1>25. ASSUME NEW t \in Threads, TimerTrigger(t)  PROVE Counted'
  <2>1. Quiet
    BY <1>25 DEF TimerTrigger
  <2> QED
    BY <2>1, <1>c
<1>26. ASSUME NEW t \in Threads, handle_timeouts(t)  PROVE Counted'
  <2>1. Quiet
    BY <1>26 DEF handle_timeouts, WalkDone
  <2> QED
    BY <2>1, <1>c
<1>27. ASSUME NEW t \in Threads, ExpireNext(t)  PROVE Counted'
  <2>1. Quiet
    BY <1>27 DEF ExpireNext
  <2> QED
    BY <2>1, <1>c
<1>28. ASSUME NEW t \in Threads, CancelExpired(t)  PROVE Counted'
  <2>1. Quiet
    BY <1>28 DEF CancelExpired
  <2> QED
    BY <2>1, <1>c
<1>29. ASSUME NEW t \in Threads, TimeoutsDone(t)  PROVE Counted'
  <2>1. Quiet
    BY <1>29 DEF TimeoutsDone, WalkDone
  <2> QED
    BY <2>1, <1>c
<1>30. ASSUME NEW t \in Threads, Reap(t)  PROVE Counted'
  <2>1. Quiet
    BY <1>30 DEF Reap
  <2> QED
    BY <2>1, <1>c
<1>31. ASSUME NEW t \in Threads, TakeOff(t)  PROVE Counted'
  <2>1. Quiet
    BY <1>31, ZenonT(60) DEF TakeOff
  <2> QED
    BY <2>1, <1>c
<1>32. ASSUME NEW t \in Threads, Disarm(t)  PROVE Counted'
  <2>1. Quiet
    BY <1>32 DEF Disarm
  <2> QED
    BY <2>1, <1>c
<1>33. ASSUME NEW t \in Threads, Callback(t)  PROVE Counted'
  <2>1. Quiet
    BY <1>33 DEF Callback
  <2> QED
    BY <2>1, <1>c
<1>34. ASSUME NEW t \in Threads, AfterCallback(t)  PROVE Counted'
  <2>1. Quiet
    BY <1>34 DEF AfterCallback, Woken
  <2> QED
    BY <2>1, <1>c
<1>35. ASSUME NEW t \in Threads, PollFails(t)  PROVE Counted'
  <2>1. Quiet
    BY <1>35 DEF PollFails
  <2> QED
    BY <2>1, <1>c
<1>36. ASSUME NEW t \in Threads, DeviceAnswers(t)  PROVE Counted'
  <2>1. Quiet
    BY <1>36 DEF DeviceAnswers
  <2> QED
    BY <2>1, <1>c
<1>37. QED
  BY <1>1, <1>2, <1>3, <1>4, <1>5, <1>6, <1>7, <1>8, <1>9, <1>10, <1>11, <1>12, <1>13,
    <1>14, <1>15, <1>16, <1>17, <1>18, <1>19, <1>20, <1>21, <1>22, <1>23, <1>24, <1>25,
    <1>26, <1>27, <1>28, <1>29, <1>30, <1>31, <1>32, <1>33, <1>34, <1>35, <1>36, Zenon
    DEF Next, Inside

\* Flags follow the clock: a transfer gets its flag when its timeout has passed,
\* and an idle thread has no timeout, so that a new transfer begins without one.
LEMMA TimesStep ==
  ASSUME Inv, TimesInv, ~Reuse, Next
  PROVE  TimesInv'
<1> USE DEF Inv, Where, ClockType, PlaceType, Data, TransferType, ThenOK, PlacesOK,
        TimesInv, Idle, Opening, Walking, calculate_timeout, Expired, ctx, list, clock,
        itransfer, locals, Goto, Set
<1>1. CASE Tick
  BY <1>1 DEF Tick
<1>2. ASSUME NEW t \in Threads, libusb_open(t)  PROVE TimesInv'
  BY <1>2 DEF libusb_open
<1>3. ASSUME NEW t \in Threads, libusb_close(t)  PROVE TimesInv'
  BY <1>3 DEF libusb_close
<1>4. ASSUME NEW t \in Threads, BeginTransfer(t)  PROVE TimesInv'
  BY <1>4 DEF BeginTransfer
<1>5. ASSUME NEW t \in Threads, AnnounceModify(t)  PROVE TimesInv'
  BY <1>5 DEF AnnounceModify
<1>6. ASSUME NEW t \in Threads, WritePipe(t)  PROVE TimesInv'
  BY <1>6 DEF WritePipe
<1>7. ASSUME NEW t \in Threads, libusb_lock_events(t)  PROVE TimesInv'
  BY <1>7 DEF libusb_lock_events
<1>8. ASSUME NEW t \in Threads, FinishModify(t)  PROVE TimesInv'
  BY <1>8 DEF FinishModify, ReleaseEvents
<1>9. ASSUME NEW t \in Threads, libusb_unlock_events(t)  PROVE TimesInv'
  BY <1>9 DEF libusb_unlock_events, ReleaseEvents
<1>10. ASSUME NEW t \in Threads, Broadcast(t)  PROVE TimesInv'
  <2> HIDE DEF TimesInv, ClockType, TransferType, Data, Expired, itransfer,
           clock, ctx, list
  <2>1. \A x \in Threads : Idle(x)' => Idle(x)
    BY <1>10 DEF Broadcast, Woken, Set, Idle, Opening, Inv, Where, PlaceType
  <2>2. UNCHANGED <<timeout, wanted, timed_out, status, now>>
    BY <1>10 DEF Broadcast, itransfer, clock
  <2> QED
    BY <2>1, <2>2 DEF TimesInv
<1>11. ASSUME NEW t \in Threads, add_to_flying_list(t)  PROVE TimesInv'
  BY <1>11 DEF add_to_flying_list
<1>12. ASSUME NEW t \in Threads, BackendSubmit(t)  PROVE TimesInv'
  BY <1>12 DEF BackendSubmit
<1>13. ASSUME NEW t \in Threads, Unadd(t)  PROVE TimesInv'
  BY <1>13 DEF Unadd, Free
<1>14. ASSUME NEW t \in Threads, ArmFirst(t)  PROVE TimesInv'
  BY <1>14 DEF ArmFirst
<1>15. ASSUME NEW t \in Threads, SyncReturn(t)  PROVE TimesInv'
  BY <1>15 DEF SyncReturn, Free
<1>16. ASSUME NEW t \in Threads, SyncError(t)  PROVE TimesInv'
  <2>1. CASE ~failed[t]
    BY <1>16, <2>1 DEF SyncError, clock, Goto, Set, Inv, Where, PlaceType, TimesInv, Idle,
       Opening
  <2>2. CASE failed[t]
    <3>1. Free(t) /\ UNCHANGED <<now, then>> /\ pc[t] = "cancel"
      BY <1>16, <2>2 DEF SyncError, clock
    <3> QED
      BY <3>1 DEF Free, Goto, Set, Inv, Where, ClockType, PlaceType, Data, TransferType,
         TimesInv, Idle, Opening
  <2> QED
    BY <2>1, <2>2
<1>17. ASSUME NEW t \in Threads, get_next_timeout(t)  PROVE TimesInv'
  BY <1>17 DEF get_next_timeout
<1>18. ASSUME NEW t \in Threads, TryModify(t)  PROVE TimesInv'
  BY <1>18 DEF TryModify
<1>19. ASSUME NEW t \in Threads, libusb_try_lock_events(t)  PROVE TimesInv'
  BY <1>19 DEF libusb_try_lock_events
<1>20. ASSUME NEW t \in Threads, libusb_wait_for_event(t)  PROVE TimesInv'
  BY <1>20 DEF libusb_wait_for_event
<1>21. ASSUME NEW t \in Threads, WaitTimeout(t)  PROVE TimesInv'
  BY <1>21 DEF WaitTimeout
<1>22. ASSUME NEW t \in Threads, CopyFds(t)  PROVE TimesInv'
  BY <1>22 DEF CopyFds
<1>23. ASSUME NEW t \in Threads, PollReturns(t)  PROVE TimesInv'
  BY <1>23 DEF PollReturns
<1>24. ASSUME NEW t \in Threads, PollTimeout(t)  PROVE TimesInv'
  BY <1>24 DEF PollTimeout
<1>25. ASSUME NEW t \in Threads, TimerTrigger(t)  PROVE TimesInv'
  BY <1>25 DEF TimerTrigger
<1>26. ASSUME NEW t \in Threads, handle_timeouts(t)  PROVE TimesInv'
  BY <1>26 DEF handle_timeouts, WalkDone
<1>27. ASSUME NEW t \in Threads, ExpireNext(t)  PROVE TimesInv'
  BY <1>27 DEF ExpireNext
<1>28. ASSUME NEW t \in Threads, CancelExpired(t)  PROVE TimesInv'
  BY <1>28 DEF CancelExpired
<1>29. ASSUME NEW t \in Threads, TimeoutsDone(t)  PROVE TimesInv'
  BY <1>29 DEF TimeoutsDone, WalkDone
<1>30. ASSUME NEW t \in Threads, Reap(t)  PROVE TimesInv'
  BY <1>30 DEF Reap
<1>31. ASSUME NEW t \in Threads, TakeOff(t)  PROVE TimesInv'
  BY <1>31 DEF TakeOff
<1>32. ASSUME NEW t \in Threads, Disarm(t)  PROVE TimesInv'
  BY <1>32 DEF Disarm
<1>33. ASSUME NEW t \in Threads, Callback(t)  PROVE TimesInv'
  BY <1>33 DEF Callback
<1>34. ASSUME NEW t \in Threads, AfterCallback(t)  PROVE TimesInv'
  BY <1>34 DEF AfterCallback, Woken
<1>35. ASSUME NEW t \in Threads, PollFails(t)  PROVE TimesInv'
  BY <1>35 DEF PollFails
<1>36. ASSUME NEW t \in Threads, DeviceAnswers(t)  PROVE TimesInv'
  BY <1>36 DEF DeviceAnswers
<1>37. QED
  BY <1>1, <1>2, <1>3, <1>4, <1>5, <1>6, <1>7, <1>8, <1>9, <1>10, <1>11, <1>12, <1>13,
    <1>14, <1>15, <1>16, <1>17, <1>18, <1>19, <1>20, <1>21, <1>22, <1>23, <1>24, <1>25,
    <1>26, <1>27, <1>28, <1>29, <1>30, <1>31, <1>32, <1>33, <1>34, <1>35, <1>36, Zenon
    DEF Next, Inside

\* At the start all threads are closed and nothing is counted (libusb_init).
LEMMA InitInv == Init => Inv /\ TimesInv
<1> SUFFICES ASSUME Init  PROVE Inv /\ TimesInv
  OBVIOUS
<1>1. Where
  BY ThreadsAssumption DEF Init, Where, PlaceType, ThenOK, PlacesOK, LockOK, InPollSet,
     Held, Holding, Walking, Opening, Places
<1>2. Data
  <2>1. CtxType
    BY DEF Init, CtxType
  <2>2. TransferType
    BY DEF Init, TransferType
  <2>3. LocalType
    BY BoundsAssumption DEF Init, LocalType
  <2> QED
    BY <2>1, <2>2, <2>3 DEF Data
<1>3. ClockType
  BY BoundsAssumption, BuildsAssumption DEF Init, ClockType
<1>4. PollMatchesHandles
  BY DEF Init, PollMatchesHandles
<1>5. Counted
  <2>1. Writers = {} /\ Modifiers = {}
    BY DEF Init, Writers, Modifiers
  <2> QED
    BY <2>1, FS_EmptySet DEF Init, Counted, PipeBalanced, ModifyBalanced, Writers
<1>6. TimesInv
  BY DEF Init, TimesInv
<1> QED
  BY <1>1, <1>2, <1>3, <1>4, <1>5, <1>6 DEF Inv

\* A step that changes nothing keeps both invariants.
LEMMA Stutter ==
  ASSUME Inv, UNCHANGED vars
  PROVE  Inv' /\ (TimesInv => TimesInv')
<1>1. UNCHANGED <<ctx, list, clock, timer, waiters, itransfer, locals, pc>>
  BY DEF vars
<1>2. /\ UNCHANGED <<events_lock, event_handler_active, pollfd_modify, ctrl_pipe>>
      /\ UNCHANGED <<pollfds, flying_transfers, flying_lock, timerfd, now, errors>>
      /\ UNCHANGED <<timer, waiters, lock, timeout, timed_out, kernel, cancelled>>
      /\ UNCHANGED <<completed, status, wanted, op, first, limit, fds, todo, xfer>>
      /\ UNCHANGED <<then, failed, used, pc>>
  BY <1>1 DEF ctx, list, clock, itransfer, locals
<1>3. Where'
  BY <1>2 DEF Inv, Where, PlaceType, ThenOK, PlacesOK, LockOK, InPollSet, Held
<1>4. Data' /\ ClockType'
  BY <1>2 DEF Inv, Data, CtxType, TransferType, LocalType, ClockType
<1>5. PollMatchesHandles' /\ Counted'
  BY <1>2 DEF Inv, PollMatchesHandles, OpenHandles, Counted, PipeBalanced,
     ModifyBalanced, Modifiers
<1>6. TimesInv => TimesInv'
  BY <1>2 DEF TimesInv, Idle
<1> QED
  BY <1>3, <1>4, <1>5, <1>6 DEF Inv

\* Each step keeps the invariant of the hand-over.
LEMMA InvStep == Inv /\ [Next]_vars => Inv'
<1> SUFFICES ASSUME Inv, [Next]_vars  PROVE Inv'
  OBVIOUS
<1>1. CASE Next
  BY <1>1, WhereStep, DataStep, ClockStep, PollStep, CountStep DEF Inv
<1>2. CASE UNCHANGED vars
  BY <1>2, Stutter
<1> QED
  BY <1>1, <1>2

\* The counts are numbers, and with them the types are those of the module.
LEMMA InvHandover == Inv => HandoverOK
<1> SUFFICES ASSUME Inv  PROVE HandoverOK
  OBVIOUS
<1>1. pollfd_modify \in Nat /\ ctrl_pipe \in Nat
  <2>1. IsFiniteSet(Writers) /\ IsFiniteSet(Modifiers)
    BY ThreadsAssumption, FS_Subset DEF Writers, Modifiers
  <2>2. ctrl_pipe = Cardinality(Writers) /\ pollfd_modify = Cardinality(Modifiers)
    BY DEF Inv, Counted, PipeBalanced, ModifyBalanced, Writers
  <2> QED
    BY <2>1, <2>2, FS_CardinalityType
<1>2. TypeOK
  BY <1>1 DEF TypeOK, Inv, Where, PlaceType, Data, CtxType, TransferType, LocalType,
     ClockType
<1> QED
  BY <1>2 DEF HandoverOK, Inv, Counted

\* Whoever polls watches all open handles and no closed one, and the control
\* pipe has exactly the bytes of those who wait for the events lock, for every
\* number of threads, each opening, closing and polling when it likes (HandoverOK:
\* libusb_open, libusb_close, handle_events).
THEOREM HandoverCorrect == Spec => []HandoverOK
<1>1. Init => Inv
  BY InitInv
<1> QED
  BY <1>1, InvStep, InvHandover, PTL DEF Spec

\* No transfer that is submitted once times out before its time, or has none and
\* times out, however slow submissions are, whatever the kernel supports, and even
\* where a transfer was freed while it was on the list (TimesOutTruly:
\* handle_timeouts, usbi_handle_transfer_cancellation).
THEOREM TimeoutsCorrect == ~Reuse => (Spec => []TimesOutTruly)
<1> SUFFICES ASSUME ~Reuse  PROVE Spec => []TimesOutTruly
  OBVIOUS
<1>1. Init => Inv /\ TimesInv
  BY InitInv
<1>2. (Inv /\ TimesInv) /\ [Next]_vars => (Inv /\ TimesInv)'
  <2> SUFFICES ASSUME Inv, TimesInv, [Next]_vars  PROVE (Inv /\ TimesInv)'
    OBVIOUS
  <2>1. Inv'
    BY InvStep
  <2>2. CASE Next
    BY <2>1, <2>2, TimesStep
  <2>3. CASE UNCHANGED vars
    BY <2>1, <2>3, Stutter
  <2> QED
    BY <2>2, <2>3
<1>3. Inv /\ TimesInv => TimesOutTruly
  BY DEF TimesInv, TimesOutTruly
<1> QED
  BY <1>1, <1>2, <1>3, PTL DEF Spec
-----------------------------------------------------------------------------
(***************************************************************************)
(* The list of flying transfers: what is on it was not freed, and it is in *)
(* the order of the timeouts (FlyingOK), for every number of threads and   *)
(* calls.  At most one failure of poll is allowed, and a kernel that has   *)
(* the timerfd libusb was built for: with two failures, or without it, a   *)
(* transfer may be freed while it flies.                                   *)
(***************************************************************************)

\* What the theorem is about: the limits of the failures it allows.
Limits == MaxErrors <= 1 /\ "unavailable" \notin Builds

\* The transfers on the list, each of which is there once.
Listed == Range(flying_transfers)
Once == \A i, j \in DOMAIN flying_transfers :
          flying_transfers[i] = flying_transfers[j] => i = j

\* Before a transfer is put on the list, and after it has been completed, it is
\* neither there nor with the kernel; what the kernel has is on the list.
Stages ==
  \A t \in Threads :
    /\ Idle(t) \/ pc[t] = "add" => ~completed[t] /\ kernel[t] = "none" /\ t \notin Listed
    /\ pc[t] \in {"backend", "unadd"} =>
         ~completed[t] /\ kernel[t] = "none" /\ t \in Listed
    /\ completed[t] => kernel[t] = "none" /\ t \notin Listed
    /\ kernel[t] # "none" => t \in Listed

\* The transfer that the handler of events completes is still its owner's, who
\* has not been told, and leaves the list before the callback.
InHand(h) == pc[h] \in {"complete", "disarm"} \/ (pc[h] = "callback" /\ xfer[h] # "none")
Reaped ==
  \A h \in Threads : InHand(h) =>
    /\ xfer[h] \in Threads /\ ~completed[xfer[h]] /\ kernel[xfer[h]] = "none"
    /\ xfer[h] \in Listed <=> pc[h] = "complete"
    /\ ~Idle(xfer[h]) /\ pc[xfer[h]] \notin {"add", "backend", "unadd"}

\* The one failure that is allowed has a caller cancel once.
CancelledOnce ==
  \A t \in Threads :
    /\ errors = 0 => ~failed[t] /\ then[t] # "cancel" /\ pc[t] # "cancel"
    /\ then[t] = "cancel" \/ pc[t] = "cancel" => ~failed[t]
    /\ then[t] = "cancel" => pc[t] \in {"unlock", "broadcast"}

\* The inductive invariant of the list.
Ordered == Once /\ FlyingSorted
Staged == Stages /\ Reaped /\ CancelledOnce
ListInv == Ordered /\ Staged

\* What inserting does to the entries of a list.
LEMMA InsertEffect ==
  ASSUME NEW s \in Seq(Threads), NEW t \in Threads, NEW p \in 1 .. (Len(s) + 1)
  PROVE  /\ Len(InsertAt(s, p, t)) = Len(s) + 1
         /\ \A i \in 1 .. (Len(s) + 1) :
              InsertAt(s, p, t)[i] = IF i < p THEN s[i] ELSE IF i = p THEN t ELSE s[i - 1]
<1> DEFINE a == SubSeq(s, 1, p - 1)
           b == SubSeq(s, p, Len(s))
<1>1. /\ a \in Seq(Threads) /\ Len(a) = p - 1
      /\ \A i \in 1 .. (p - 1) : a[i] = s[i]
  BY SubSeqProperties
<1>2. /\ b \in Seq(Threads) /\ Len(b) = Len(s) - p + 1
      /\ \A i \in 1 .. (Len(s) - p + 1) : b[i] = s[p + i - 1]
  BY SubSeqProperties
<1> HIDE DEF a, b
<1>3. /\ a \o <<t>> \in Seq(Threads) /\ Len(a \o <<t>>) = p
      /\ \A i \in 1 .. p : (a \o <<t>>)[i] = IF i < p THEN s[i] ELSE t
  BY <1>1, ConcatProperties
<1> DEFINE c == a \o <<t>>
<1> HIDE DEF c
<1>4. /\ Len(c \o b) = Len(s) + 1
      /\ \A i \in 1 .. (Len(s) + 1) :
           (c \o b)[i] = IF i <= p THEN c[i] ELSE b[i - p]
  <2>1. c \in Seq(Threads) /\ Len(c) = p
    BY <1>3 DEF c
  <2>2. Len(c) + Len(b) = Len(s) + 1
    BY <1>2, <2>1
  <2> QED
    BY <1>2, <2>1, <2>2, ConcatProperties
<1>5. InsertAt(s, p, t) = c \o b
  BY DEF InsertAt, a, b, c
<1>6. \A i \in 1 .. (Len(s) + 1) : i > p => b[i - p] = s[i - 1]
  BY <1>2
<1> QED
  BY <1>3, <1>4, <1>5, <1>6 DEF c

\* What taking a transfer off does to a list that has it at place i.
LEMMA DeleteEffect ==
  ASSUME NEW s \in Seq(Threads), NEW i \in 1 .. Len(s),
         \A j, k \in DOMAIN s : s[j] = s[k] => j = k
  PROVE  /\ Len(list_del(s, s[i])) = Len(s) - 1
         /\ \A j \in 1 .. (Len(s) - 1) :
              list_del(s, s[i])[j] = IF j < i THEN s[j] ELSE s[j + 1]
<1> DEFINE a == SubSeq(s, 1, i - 1)
           b == SubSeq(s, i + 1, Len(s))
<1>1. /\ a \in Seq(Threads) /\ Len(a) = i - 1
      /\ \A j \in 1 .. (i - 1) : a[j] = s[j]
  BY SubSeqProperties
<1>2. /\ b \in Seq(Threads) /\ Len(b) = Len(s) - i
      /\ \A j \in 1 .. (Len(s) - i) : b[j] = s[i + j]
  BY SubSeqProperties
<1>3. list_del(s, s[i]) = a \o b
  <2>1. s[i] \in Range(s)
    BY DEF Range
  <2>2. (CHOOSE j \in DOMAIN s : s[j] = s[i]) = i
    OBVIOUS
  <2> QED
    BY <2>1, <2>2 DEF list_del, RemoveAt
<1> HIDE DEF a, b
<1>4. /\ Len(a \o b) = Len(s) - 1
      /\ \A j \in 1 .. (Len(s) - 1) : (a \o b)[j] = IF j < i THEN a[j] ELSE b[j - i + 1]
  <2>1. Len(a) + Len(b) = Len(s) - 1
    BY <1>1, <1>2
  <2>2. \A j \in 1 .. (Len(s) - 1) :
          (a \o b)[j] = IF j <= i - 1 THEN a[j] ELSE b[j - (i - 1)]
    BY <1>1, <1>2, <2>1, ConcatProperties
  <2>3. Len(a \o b) = Len(s) - 1
    BY <1>1, <1>2, <2>1, ConcatProperties
  <2> QED
    BY <2>2, <2>3
<1>5. \A j \in 1 .. (Len(s) - 1) : ~ (j < i) => b[j - i + 1] = s[j + 1]
  BY <1>2
<1> QED
  BY <1>1, <1>3, <1>4, <1>5

\* If b is not before a, c not before b and a not before c, then a and c are the
\* same timeout.
LEMMA LaterOrder ==
  ASSUME NEW a \in Nat, NEW b \in Nat, NEW c \in Nat,
         Later(b, a), Later(b, c) => b = c, Later(a, c)
  PROVE  a = c
BY DEF Later

\* A transfer that is put on the list is the only new one there, and the list
\* stays sorted.
LEMMA Added ==
  ASSUME Inv, Once, FlyingSorted, NEW t \in Threads, t \notin Listed,
         flying_transfers' = InsertAt(flying_transfers, SortedPlace(t), t),
         UNCHANGED timeout
  PROVE  Listed' = Listed \cup {t} /\ Once' /\ FlyingSorted'
<1> DEFINE s == flying_transfers
           p == SortedPlace(t)
<1>1. /\ s \in Seq(Threads) /\ timeout \in [Threads -> Nat] /\ ClockType
      /\ Len(s) \in Nat
  BY DEF Inv, ClockType
<1>2. /\ p \in 1 .. (Len(s) + 1)
      /\ p <= Len(s) => Later(timeout[s[p]], timeout[t])
      /\ \A j \in 1 .. (p - 1) : Later(timeout[s[j]], timeout[t])
                                   => timeout[s[j]] = timeout[t]
  BY <1>1, PlaceFits
<1>3. /\ s' \in Seq(Threads) /\ Len(s') = Len(s) + 1
      /\ \A i \in 1 .. (Len(s) + 1) :
           s'[i] = IF i < p THEN s[i] ELSE IF i = p THEN t ELSE s[i - 1]
  <2>1. s' = InsertAt(s, p, t)
    OBVIOUS
  <2>2. s' \in Seq(Threads)
    BY <1>1, <2>1, AddType
  <2> HIDE DEF s, p
  <2> QED
    BY <1>1, <1>2, <2>1, <2>2, InsertEffect
<1> HIDE DEF s, p
<1>4. \A i \in 1 .. Len(s) : s[i] \in Threads /\ s[i] # t
  BY <1>1 DEF Listed, Range, s
<1>a. \A i \in DOMAIN s' :
        \/ i < p /\ i \in DOMAIN s /\ s'[i] = s[i]
        \/ i = p /\ s'[i] = t
        \/ i > p /\ i - 1 \in DOMAIN s /\ s'[i] = s[i - 1]
  <2> SUFFICES ASSUME NEW i \in 1 .. (Len(s) + 1)
               PROVE  \/ i < p /\ i \in 1 .. Len(s) /\ s'[i] = s[i]
                      \/ i = p /\ s'[i] = t
                      \/ i > p /\ i - 1 \in 1 .. Len(s) /\ s'[i] = s[i - 1]
    BY <1>1, <1>3
  <2>1. CASE i < p
    BY <2>1, <1>1, <1>2, <1>3
  <2>2. CASE i = p
    BY <2>2, <1>3
  <2>3. CASE i > p
    <3>1. ~ (i < p) /\ i # p /\ i - 1 \in 1 .. Len(s)
      BY <2>3, <1>1, <1>2
    <3> QED
      BY <2>3, <3>1, <1>3
  <2> QED
    BY <2>1, <2>2, <2>3, <1>2
<1>b. \A i \in DOMAIN s : i \in Int
  BY <1>1
<1>c. \A i \in DOMAIN s' : i \in Int
  BY <1>3
<1>5. Listed' = Listed \cup {t}
  <2>1. \A i \in DOMAIN s' : s'[i] \in Listed \cup {t}
    BY <1>a DEF Listed, Range, s
  <2>2. \A i \in DOMAIN s : \E j \in DOMAIN s' : s'[j] = s[i]
    <3> SUFFICES ASSUME NEW i \in DOMAIN s  PROVE \E j \in DOMAIN s' : s'[j] = s[i]
      OBVIOUS
    <3>1. CASE i < p
      <4>1. i \in DOMAIN s' /\ s'[i] = s[i]
        BY <3>1, <1>1, <1>2, <1>3
      <4> QED
        BY <4>1
    <3>2. CASE ~ (i < p)
      <4>1. i + 1 \in DOMAIN s' /\ s'[i + 1] = s[i]
        BY <3>2, <1>1, <1>2, <1>3, SMTT(30)
      <4> QED
        BY <4>1
    <3> QED
      BY <3>1, <3>2
  <2>3. p \in DOMAIN s' /\ s'[p] = t
    BY <1>1, <1>2, <1>3
  <2> QED
    BY <2>1, <2>2, <2>3 DEF Listed, Range, s
<1>6. Once'
  <2>1. \A i, j \in DOMAIN s : s[i] = s[j] => i = j
    BY DEF Once, s
  <2>2. \A i, j \in DOMAIN s' : s'[i] = s'[j] => i = j
    <3> SUFFICES ASSUME NEW i \in DOMAIN s', NEW j \in DOMAIN s', s'[i] = s'[j]
                 PROVE  i = j
      OBVIOUS
    <3>1. CASE i = p \/ j = p
      <4>1. \A k \in DOMAIN s' : k # p => s'[k] # t
        BY <1>a, <1>c, <1>1, <1>2, <1>4
      <4>2. \A k \in DOMAIN s' : k = p => s'[k] = t
        BY <1>a, <1>c, <1>2
      <4> QED
        BY <3>1, <4>1, <4>2
    <3>2. CASE i # p /\ j # p
      <4>1. PICK k \in DOMAIN s : s'[i] = s[k] /\ k = IF i < p THEN i ELSE i - 1
        BY <3>2, <1>a, <1>c, <1>2
      <4>2. PICK l \in DOMAIN s : s'[j] = s[l] /\ l = IF j < p THEN j ELSE j - 1
        BY <3>2, <1>a, <1>c, <1>2
      <4>3. k = l
        BY <4>1, <4>2, <2>1
      <4> QED
        BY <3>2, <4>1, <4>2, <4>3, <1>c, <1>2
    <3> QED
      BY <3>1, <3>2
  <2> QED
    BY <2>2 DEF Once, s
<1>7. FlyingSorted'
  <2>1. \A i, j \in DOMAIN s : i < j => ~ (Later(timeout[s[i]], timeout[s[j]])
                                            /\ timeout[s[i]] # timeout[s[j]])
    BY DEF FlyingSorted, s
  <2>2. \A i, j \in DOMAIN s' : i < j => ~ (Later(timeout[s'[i]], timeout[s'[j]])
                                             /\ timeout[s'[i]] # timeout[s'[j]])
    <3> SUFFICES ASSUME NEW i \in DOMAIN s', NEW j \in DOMAIN s', i < j,
                        Later(timeout[s'[i]], timeout[s'[j]])
                 PROVE  timeout[s'[i]] = timeout[s'[j]]
      OBVIOUS
    <3>1. CASE i # p /\ j # p
      <4>1. PICK k \in DOMAIN s : s'[i] = s[k] /\ k = IF i < p THEN i ELSE i - 1
        BY <3>1, <1>a, <1>c, <1>2
      <4>2. PICK l \in DOMAIN s : s'[j] = s[l] /\ l = IF j < p THEN j ELSE j - 1
        BY <3>1, <1>a, <1>c, <1>2
      <4>3. k < l
        BY <3>1, <4>1, <4>2, <1>b, <1>c, <1>2
      <4> QED
        BY <4>1, <4>2, <4>3, <2>1
    <3>2. CASE j = p
      BY <3>2, <1>a, <1>b, <1>c, <1>2
    <3>3. CASE i = p
      <4>1. s'[i] = t /\ s'[j] = s[j - 1] /\ j - 1 \in p .. Len(s)
        BY <3>3, <1>1, <1>2, <1>3, SMTT(30)
      <4>2. /\ s[p] \in Threads /\ s[j - 1] \in Threads
            /\ Later(timeout[s[p]], timeout[t])
        BY <4>1, <1>1, <1>2, <1>4
      <4>3. Later(timeout[s[p]], timeout[s[j - 1]]) => timeout[s[p]] = timeout[s[j - 1]]
        <5>1. p \in DOMAIN s /\ j - 1 \in DOMAIN s /\ (p = j - 1 \/ p < j - 1)
          BY <4>1, <1>1, <1>2
        <5> QED
          BY <5>1, <2>1
      <4>4. timeout[s[p]] \in Nat /\ timeout[s[j - 1]] \in Nat /\ timeout[t] \in Nat
        BY <4>2, <1>1
      <4>5. timeout[t] = timeout[s[j - 1]]
        BY <4>1, <4>2, <4>3, <4>4, LaterOrder
      <4> QED
        BY <4>1, <4>5
    <3> QED
      BY <3>1, <3>2, <3>3
  <2> QED
    BY <2>2 DEF FlyingSorted, s
<1> QED
  BY <1>5, <1>6, <1>7

\* A transfer that is taken off the list is not there any more, the others are,
\* and the list stays sorted, whatever happens to the timeout of the one.
LEMMA TakenOff ==
  ASSUME Inv, Once, FlyingSorted, NEW x \in Listed,
         flying_transfers' = list_del(flying_transfers, x),
         \A y \in Threads : y # x => timeout'[y] = timeout[y]
  PROVE  Listed' = Listed \ {x} /\ Once' /\ FlyingSorted'
<1> DEFINE s == flying_transfers
<1>1. /\ s \in Seq(Threads) /\ Len(s) \in Nat
      /\ \A i \in 1 .. Len(s) : s[i] \in Threads
  BY DEF Inv, ClockType
<1>2. PICK p \in 1 .. Len(s) : s[p] = x
  BY <1>1 DEF Listed, Range
<1>3. \A i, j \in DOMAIN s : s[i] = s[j] => i = j
  BY DEF Once
<1>4. /\ s' \in Seq(Threads) /\ Len(s') = Len(s) - 1
      /\ \A i \in 1 .. (Len(s) - 1) : s'[i] = IF i < p THEN s[i] ELSE s[i + 1]
  BY <1>1, <1>2, <1>3, DeleteEffect, DelType
<1> HIDE DEF s
<1>a. \A i \in DOMAIN s' :
        \/ i < p /\ i \in DOMAIN s /\ s'[i] = s[i]
        \/ i >= p /\ i + 1 \in DOMAIN s /\ s'[i] = s[i + 1]
  <2> SUFFICES ASSUME NEW i \in 1 .. (Len(s) - 1)
               PROVE  \/ i < p /\ i \in 1 .. Len(s) /\ s'[i] = s[i]
                      \/ i >= p /\ i + 1 \in 1 .. Len(s) /\ s'[i] = s[i + 1]
    BY <1>1, <1>4
  <2>1. CASE i < p
    BY <2>1, <1>1, <1>2, <1>4
  <2>2. CASE i >= p
    BY <2>2, <1>1, <1>2, <1>4
  <2> QED
    BY <2>1, <2>2, <1>2
<1>b. \A i \in DOMAIN s : i \in Int
  BY <1>1
<1>c. \A i \in DOMAIN s' : i \in Int
  BY <1>4
<1>5. Listed' = Listed \ {x}
  <2>1. \A i \in DOMAIN s' : s'[i] \in Listed \ {x}
    BY <1>1, <1>2, <1>3, <1>4 DEF Listed, Range, s
  <2>2. \A i \in DOMAIN s : s[i] # x => \E j \in DOMAIN s' : s'[j] = s[i]
    <3> SUFFICES ASSUME NEW i \in DOMAIN s, s[i] # x
                 PROVE  \E j \in DOMAIN s' : s'[j] = s[i]
      OBVIOUS
    <3>1. CASE i < p
      BY <3>1, <1>1, <1>2, <1>4
    <3>2. CASE i > p
      <4>1. i - 1 \in DOMAIN s' /\ s'[i - 1] = s[i]
        BY <3>2, <1>1, <1>2, <1>4
      <4> QED
        BY <4>1
    <3> QED
      BY <3>1, <3>2, <1>1, <1>2
  <2> QED
    BY <2>1, <2>2 DEF Listed, Range, s
<1>6. Once'
  <2>1. \A i, j \in DOMAIN s' : s'[i] = s'[j] => i = j
    BY <1>a, <1>b, <1>c, <1>2, <1>3
  <2> QED
    BY <2>1 DEF Once, s
<1>7. FlyingSorted'
  <2>1. \A i, j \in DOMAIN s : i < j => ~ (Later(timeout[s[i]], timeout[s[j]])
                                            /\ timeout[s[i]] # timeout[s[j]])
    BY DEF FlyingSorted, s
  <2>2. \A i \in DOMAIN s' : s'[i] \in Threads /\ s'[i] # x
    BY <1>1, <1>2, <1>3, <1>4
  <2>3. \A i, j \in DOMAIN s' : i < j => ~ (Later(timeout[s'[i]], timeout[s'[j]])
                                             /\ timeout[s'[i]] # timeout[s'[j]])
    BY <2>1, <1>a, <1>b, <1>c, <1>2
  <2>4. \A i \in DOMAIN s' : timeout'[s'[i]] = timeout[s'[i]]
    BY <2>2
  <2> QED
    BY <2>3, <2>4 DEF FlyingSorted, Later, s
<1> QED
  BY <1>5, <1>6, <1>7

\* A step that neither changes the list nor the timeouts of what is on it.
LEMMA SameList ==
  ASSUME Inv, Once, FlyingSorted, flying_transfers' = flying_transfers,
         \A x \in Listed : timeout'[x] = timeout[x]
  PROVE  Listed' = Listed /\ Once' /\ FlyingSorted'
<1>1. \A i \in DOMAIN flying_transfers : flying_transfers[i] \in Listed
  BY DEF Listed, Range
<1> QED
  BY <1>1 DEF Listed, Once, FlyingSorted, Later

\* The list stays sorted: whose timeout changes is not on it.
LEMMA OrderStep ==
  ASSUME Limits, Inv, ListInv, Next
  PROVE  Ordered'
<1> USE DEF Inv, ListInv, Ordered, Staged, ctx, list, clock, itransfer, locals, Goto,
        Set
<1>1. CASE Tick
  BY <1>1, SameList DEF Tick
<1>2. ASSUME NEW t \in Threads, libusb_open(t)  PROVE Ordered'
  BY <1>2, SameList DEF libusb_open
<1>3. ASSUME NEW t \in Threads, libusb_close(t)  PROVE Ordered'
  BY <1>3, SameList DEF libusb_close
<1>4. ASSUME NEW t \in Threads, BeginTransfer(t)  PROVE Ordered'
  <2>1. t \notin Listed
    BY <1>4 DEF BeginTransfer, Stages, Idle
  <2>2. \A y \in Threads : y # t => timeout'[y] = timeout[y]
    BY <1>4 DEF BeginTransfer, ClockType
  <2>3. Listed \subseteq Threads
    BY DEF Listed, Range, ClockType
  <2> QED
    BY <1>4, <2>1, <2>2, <2>3, SameList DEF BeginTransfer
<1>5. ASSUME NEW t \in Threads, AnnounceModify(t)  PROVE Ordered'
  BY <1>5, SameList DEF AnnounceModify
<1>6. ASSUME NEW t \in Threads, WritePipe(t)  PROVE Ordered'
  BY <1>6, SameList DEF WritePipe
<1>7. ASSUME NEW t \in Threads, libusb_lock_events(t)  PROVE Ordered'
  BY <1>7, SameList DEF libusb_lock_events
<1>8. ASSUME NEW t \in Threads, FinishModify(t)  PROVE Ordered'
  BY <1>8, SameList DEF FinishModify, ReleaseEvents
<1>9. ASSUME NEW t \in Threads, libusb_unlock_events(t)  PROVE Ordered'
  BY <1>9, SameList DEF libusb_unlock_events, ReleaseEvents
<1>10. ASSUME NEW t \in Threads, Broadcast(t)  PROVE Ordered'
  BY <1>10, SameList DEF Broadcast, Woken
<1>11. ASSUME NEW t \in Threads, add_to_flying_list(t)  PROVE Ordered'
  <2>1. t \notin Listed /\ UNCHANGED timeout
    BY <1>11 DEF add_to_flying_list, Stages
  <2> QED
    BY <1>11, <2>1, Added DEF add_to_flying_list
<1>12. ASSUME NEW t \in Threads, BackendSubmit(t)  PROVE Ordered'
  BY <1>12, SameList DEF BackendSubmit
<1>13. ASSUME NEW t \in Threads, Unadd(t)  PROVE Ordered'
  <2>1. t \in Listed
    BY <1>13 DEF Unadd, Stages
  <2>2. \A y \in Threads : y # t => timeout'[y] = timeout[y]
    BY <1>13 DEF Unadd, Free, ClockType
  <2> QED
    BY <1>13, <2>1, <2>2, TakenOff DEF Unadd
<1>14. ASSUME NEW t \in Threads, ArmFirst(t)  PROVE Ordered'
  BY <1>14, SameList DEF ArmFirst
<1>15. ASSUME NEW t \in Threads, SyncReturn(t)  PROVE Ordered'
  <2>1. t \notin Listed
    BY <1>15 DEF SyncReturn, Stages
  <2>2. \A y \in Threads : y # t => timeout'[y] = timeout[y]
    BY <1>15 DEF SyncReturn, Free, ClockType
  <2>3. Listed \subseteq Threads
    BY DEF Listed, Range, ClockType
  <2> QED
    BY <1>15, <2>1, <2>2, <2>3, SameList DEF SyncReturn
<1>16. ASSUME NEW t \in Threads, SyncError(t)  PROVE Ordered'
  <2>1. ~failed[t]
    BY <1>16 DEF SyncError, CancelledOnce
  <2>2. flying_transfers' = flying_transfers /\ timeout' = timeout
    BY <1>16, <2>1 DEF SyncError
  <2> QED
    BY <2>2, SameList
<1>17. ASSUME NEW t \in Threads, get_next_timeout(t)  PROVE Ordered'
  BY <1>17, SameList DEF get_next_timeout
<1>18. ASSUME NEW t \in Threads, TryModify(t)  PROVE Ordered'
  BY <1>18, SameList DEF TryModify
<1>19. ASSUME NEW t \in Threads, libusb_try_lock_events(t)  PROVE Ordered'
  BY <1>19, SameList DEF libusb_try_lock_events
<1>20. ASSUME NEW t \in Threads, libusb_wait_for_event(t)  PROVE Ordered'
  BY <1>20, SameList DEF libusb_wait_for_event
<1>21. ASSUME NEW t \in Threads, WaitTimeout(t)  PROVE Ordered'
  BY <1>21, SameList DEF WaitTimeout
<1>22. ASSUME NEW t \in Threads, CopyFds(t)  PROVE Ordered'
  BY <1>22, SameList DEF CopyFds
<1>23. ASSUME NEW t \in Threads, PollReturns(t)  PROVE Ordered'
  BY <1>23, SameList DEF PollReturns
<1>24. ASSUME NEW t \in Threads, PollTimeout(t)  PROVE Ordered'
  BY <1>24, SameList DEF PollTimeout
<1>25. ASSUME NEW t \in Threads, TimerTrigger(t)  PROVE Ordered'
  BY <1>25, SameList DEF TimerTrigger
<1>26. ASSUME NEW t \in Threads, handle_timeouts(t)  PROVE Ordered'
  BY <1>26, SameList DEF handle_timeouts, WalkDone
<1>27. ASSUME NEW t \in Threads, ExpireNext(t)  PROVE Ordered'
  BY <1>27, SameList DEF ExpireNext
<1>28. ASSUME NEW t \in Threads, CancelExpired(t)  PROVE Ordered'
  BY <1>28, SameList DEF CancelExpired
<1>29. ASSUME NEW t \in Threads, TimeoutsDone(t)  PROVE Ordered'
  BY <1>29, SameList DEF TimeoutsDone, WalkDone
<1>30. ASSUME NEW t \in Threads, Reap(t)  PROVE Ordered'
  BY <1>30, SameList DEF Reap
<1>31. ASSUME NEW t \in Threads, TakeOff(t)  PROVE Ordered'
  <2>1. xfer[t] \in Listed /\ UNCHANGED timeout
    BY <1>31 DEF TakeOff, Reaped, InHand
  <2> QED
    BY <1>31, <2>1, TakenOff DEF TakeOff
<1>32. ASSUME NEW t \in Threads, Disarm(t)  PROVE Ordered'
  BY <1>32, SameList DEF Disarm
<1>33. ASSUME NEW t \in Threads, Callback(t)  PROVE Ordered'
  BY <1>33, SameList DEF Callback
<1>34. ASSUME NEW t \in Threads, AfterCallback(t)  PROVE Ordered'
  BY <1>34, SameList DEF AfterCallback, Woken
<1>35. ASSUME NEW t \in Threads, PollFails(t)  PROVE Ordered'
  BY <1>35, SameList DEF PollFails
<1>36. ASSUME NEW t \in Threads, DeviceAnswers(t)  PROVE Ordered'
  BY <1>36, SameList DEF DeviceAnswers
<1>37. QED
  BY <1>1, <1>2, <1>3, <1>4, <1>5, <1>6, <1>7, <1>8, <1>9, <1>10, <1>11, <1>12, <1>13,
    <1>14, <1>15, <1>16, <1>17, <1>18, <1>19, <1>20, <1>21, <1>22, <1>23, <1>24, <1>25,
    <1>26, <1>27, <1>28, <1>29, <1>30, <1>31, <1>32, <1>33, <1>34, <1>35, <1>36, Zenon
    DEF Next, Inside

\* A transfer goes through its stages in order: whoever holds the events lock has
\* at most one in hand, and tells its owner when the list and the kernel are done
\* with it.
LEMMA StageStep ==
  ASSUME Limits, Inv, ListInv, Next
  PROVE  Staged'
<1> USE ThreadsAssumption, BoundsAssumption DEF Inv, ListInv, Where, PlaceType, ThenOK,
        PlacesOK, LockOK, Held, Holding, Walking, Opening, Idle, Data, CtxType,
        TransferType, LocalType, Stages, Reaped, InHand, CancelledOnce, Listed, ctx, list,
        clock, itransfer, locals, Goto, Set, Limits, Staged, Ordered
<1>1. CASE Tick
  BY <1>1 DEF Tick
<1>2. ASSUME NEW t \in Threads, libusb_open(t)  PROVE Staged'
  BY <1>2 DEF libusb_open
<1>3. ASSUME NEW t \in Threads, libusb_close(t)  PROVE Staged'
  BY <1>3 DEF libusb_close
<1>4. ASSUME NEW t \in Threads, BeginTransfer(t)  PROVE Staged'
  BY <1>4 DEF BeginTransfer
<1>5. ASSUME NEW t \in Threads, AnnounceModify(t)  PROVE Staged'
  BY <1>5 DEF AnnounceModify
<1>6. ASSUME NEW t \in Threads, WritePipe(t)  PROVE Staged'
  BY <1>6 DEF WritePipe
<1>7. ASSUME NEW t \in Threads, libusb_lock_events(t)  PROVE Staged'
  BY <1>7 DEF libusb_lock_events
<1>8. ASSUME NEW t \in Threads, FinishModify(t)  PROVE Staged'
  BY <1>8 DEF FinishModify, ReleaseEvents
<1>9. ASSUME NEW t \in Threads, libusb_unlock_events(t)  PROVE Staged'
  BY <1>9 DEF libusb_unlock_events, ReleaseEvents
<1>10. ASSUME NEW t \in Threads, Broadcast(t)  PROVE Staged'
  BY <1>10 DEF Broadcast, Woken
<1>11. ASSUME NEW t \in Threads, add_to_flying_list(t)  PROVE Staged'
  <2>1. t \notin Listed /\ UNCHANGED timeout
    BY <1>11 DEF add_to_flying_list
  <2>2. Listed' = Listed \cup {t}
    BY <1>11, <2>1, Added DEF add_to_flying_list
  <2> QED
    BY <1>11, <2>2 DEF add_to_flying_list
<1>12. ASSUME NEW t \in Threads, BackendSubmit(t)  PROVE Staged'
  BY <1>12 DEF BackendSubmit
<1>13. ASSUME NEW t \in Threads, Unadd(t)  PROVE Staged'
  <2>1. t \in Listed
    BY <1>13 DEF Unadd
  <2>2. \A y \in Threads : y # t => timeout'[y] = timeout[y]
    BY <1>13 DEF Unadd, Free, ClockType
  <2>3. Listed' = Listed \ {t}
    BY <1>13, <2>1, <2>2, TakenOff DEF Unadd
  <2> QED
    BY <1>13, <2>3 DEF Unadd, Free
<1>14. ASSUME NEW t \in Threads, ArmFirst(t)  PROVE Staged'
  BY <1>14 DEF ArmFirst
<1>15. ASSUME NEW t \in Threads, SyncReturn(t)  PROVE Staged'
  BY <1>15 DEF SyncReturn, Free
<1>16. ASSUME NEW t \in Threads, SyncError(t)  PROVE Staged'
  <2>1. ~failed[t] /\ pc[t] = "cancel"
    BY <1>16 DEF SyncError
  <2>2. /\ pc' = [pc EXCEPT ![t] = "loop"] /\ failed' = [failed EXCEPT ![t] = TRUE]
        /\ \/ kernel' = kernel
           \/ kernel[t] # "none" /\ kernel' = [kernel EXCEPT ![t] = "ready"]
        /\ UNCHANGED <<flying_transfers, completed, xfer, then, errors>>
    BY <1>16, <2>1 DEF SyncError
  <2>3. Stages'
    BY <2>1, <2>2
  <2>4. Reaped'
    BY <2>1, <2>2
  <2>5. CancelledOnce'
    BY <2>1, <2>2
  <2> QED
    BY <2>3, <2>4, <2>5
<1>17. ASSUME NEW t \in Threads, get_next_timeout(t)  PROVE Staged'
  <2>1. /\ pc[t] = "loop"
        /\ UNCHANGED <<flying_transfers, completed, kernel, xfer, failed, errors>>
    BY <1>17 DEF get_next_timeout
  <2>2. \/ pc' = [pc EXCEPT ![t] = "timeouts"] /\ then' = [then EXCEPT ![t] = "loop"]
        \/ pc' = [pc EXCEPT ![t] = "try"] /\ then' = then
    BY <1>17, Zenon DEF get_next_timeout
  <2> QED
    BY <2>1, <2>2
<1>18. ASSUME NEW t \in Threads, TryModify(t)  PROVE Staged'
  BY <1>18 DEF TryModify
<1>19. ASSUME NEW t \in Threads, libusb_try_lock_events(t)  PROVE Staged'
  BY <1>19 DEF libusb_try_lock_events
<1>20. ASSUME NEW t \in Threads, libusb_wait_for_event(t)  PROVE Staged'
  BY <1>20 DEF libusb_wait_for_event
<1>21. ASSUME NEW t \in Threads, WaitTimeout(t)  PROVE Staged'
  BY <1>21 DEF WaitTimeout
<1>22. ASSUME NEW t \in Threads, CopyFds(t)  PROVE Staged'
  BY <1>22 DEF CopyFds
<1>23. ASSUME NEW t \in Threads, PollReturns(t)  PROVE Staged'
  BY <1>23 DEF PollReturns
<1>24. ASSUME NEW t \in Threads, PollTimeout(t)  PROVE Staged'
  BY <1>24 DEF PollTimeout
<1>25. ASSUME NEW t \in Threads, TimerTrigger(t)  PROVE Staged'
  BY <1>25 DEF TimerTrigger
<1>26. ASSUME NEW t \in Threads, handle_timeouts(t)  PROVE Staged'
  BY <1>26 DEF handle_timeouts, WalkDone
<1>27. ASSUME NEW t \in Threads, ExpireNext(t)  PROVE Staged'
  BY <1>27 DEF ExpireNext
<1>28. ASSUME NEW t \in Threads, CancelExpired(t)  PROVE Staged'
  BY <1>28 DEF CancelExpired
<1>29. ASSUME NEW t \in Threads, TimeoutsDone(t)  PROVE Staged'
  BY <1>29 DEF TimeoutsDone, WalkDone
<1>30. ASSUME NEW t \in Threads, Reap(t)  PROVE Staged'
  BY <1>30 DEF Reap
<1>31. ASSUME NEW t \in Threads, TakeOff(t)  PROVE Staged'
  <2>1. xfer[t] \in Listed /\ UNCHANGED timeout
    BY <1>31 DEF TakeOff
  <2>2. Listed' = Listed \ {xfer[t]}
    BY <1>31, <2>1, TakenOff DEF TakeOff
  <2>3. timerfd # "unavailable"
    BY DEF ClockType
  <2>4. /\ pc' = [pc EXCEPT ![t] = "disarm"] \/ pc' = [pc EXCEPT ![t] = "callback"]
        /\ UNCHANGED <<then, xfer, completed, kernel, failed, errors>>
    BY <1>31, <2>3 DEF TakeOff
  <2> QED
    <3>1. Stages'
      BY <1>31, <2>2, <2>4 DEF TakeOff
    <3>2. \A h \in Threads : InHand(h) => h = t
      BY <1>31 DEF TakeOff
    <3>3. \A h \in Threads : InHand(h)' => h = t
      BY <3>2, <2>4
    <3>4. Reaped'
      <4>1. /\ xfer[t] \in Threads /\ ~completed[xfer[t]] /\ kernel[xfer[t]] = "none"
            /\ ~Idle(xfer[t]) /\ pc[xfer[t]] \notin {"add", "backend", "unadd"}
        BY <1>31 DEF TakeOff
      <4>2. ~Idle(xfer[t])' /\ pc'[xfer[t]] \notin {"add", "backend", "unadd"}
        BY <4>1, <2>4
      <4>3. xfer[t] \notin Listed' /\ pc'[t] # "complete"
        BY <2>2, <2>4
      <4> QED
        BY <3>3, <2>4, <4>1, <4>2, <4>3
    <3>5. CancelledOnce'
      BY <1>31, <2>4 DEF TakeOff
    <3> QED
      BY <3>1, <3>4, <3>5
<1>32. ASSUME NEW t \in Threads, Disarm(t)  PROVE Staged'
  BY <1>32 DEF Disarm
<1>33. ASSUME NEW t \in Threads, Callback(t)  PROVE Staged'
  BY <1>33 DEF Callback
<1>34. ASSUME NEW t \in Threads, AfterCallback(t)  PROVE Staged'
  BY <1>34 DEF AfterCallback, Woken
<1>35. ASSUME NEW t \in Threads, PollFails(t)  PROVE Staged'
  <2>1. errors = 0 /\ errors' = 1
    BY <1>35 DEF PollFails, ClockType
  <2>2. /\ pc[t] = "poll" /\ pc' = [pc EXCEPT ![t] = "unlock"]
        /\ UNCHANGED <<flying_transfers, completed, kernel, xfer, failed>>
    BY <1>35 DEF PollFails
  <2>3. \E place \in {"cancel", "loop"} : then' = [then EXCEPT ![t] = place]
    <3>1. PICK place \in {"cancel"} \cup (IF failed[t] THEN {} ELSE {"loop"}) :
             then' = [then EXCEPT ![t] = place]
      BY <1>35, Zenon DEF PollFails
    <3>2. place \in {"cancel", "loop"}
      OBVIOUS
    <3> QED
      BY <3>1, <3>2
  <2>4. Stages'
    BY <2>2, <2>3
  <2>5. Reaped'
    BY <2>2, <2>3
  <2>6. CancelledOnce'
    BY <2>1, <2>2, <2>3
  <2> QED
    BY <2>4, <2>5, <2>6
<1>36. ASSUME NEW t \in Threads, DeviceAnswers(t)  PROVE Staged'
  BY <1>36 DEF DeviceAnswers
<1>37. QED
  BY <1>1, <1>2, <1>3, <1>4, <1>5, <1>6, <1>7, <1>8, <1>9, <1>10, <1>11, <1>12, <1>13,
    <1>14, <1>15, <1>16, <1>17, <1>18, <1>19, <1>20, <1>21, <1>22, <1>23, <1>24, <1>25,
    <1>26, <1>27, <1>28, <1>29, <1>30, <1>31, <1>32, <1>33, <1>34, <1>35, <1>36, Zenon
    DEF Next, Inside

\* At the start the list is empty and nobody has a transfer (usbi_io_init).
LEMMA ListInit == Init => ListInv
<1> SUFFICES ASSUME Init  PROVE ListInv
  OBVIOUS
<1>1. Once /\ FlyingSorted
  BY DEF Init, Once, FlyingSorted
<1>2. Listed = {}
  BY DEF Init, Listed, Range
<1>3. Stages /\ Reaped /\ CancelledOnce
  BY <1>2 DEF Init, Stages, Reaped, InHand, CancelledOnce
<1> QED
  BY <1>1, <1>3 DEF ListInv, Ordered, Staged

\* A step that changes nothing keeps the list as it is.
LEMMA ListStutter == ListInv /\ UNCHANGED vars => ListInv'
<1> SUFFICES ASSUME ListInv, UNCHANGED vars  PROVE ListInv'
  OBVIOUS
<1>1. /\ UNCHANGED <<flying_transfers, timeout, completed, kernel, pc, xfer, then>>
      /\ UNCHANGED <<failed, errors>>
  BY DEF vars, list, itransfer, locals, clock
<1>2. Once' /\ FlyingSorted'
  BY <1>1 DEF ListInv, Ordered, Once, FlyingSorted, Later
<1>3. Stages' /\ Reaped' /\ CancelledOnce'
  BY <1>1 DEF ListInv, Staged, Stages, Listed, Idle, Reaped, InHand, CancelledOnce
<1> QED
  BY <1>2, <1>3 DEF ListInv, Ordered, Staged

\* The list of flying transfers is in the order of the timeouts, and a call that
\* has returned has left neither the list nor the kernel a transfer that was freed,
\* for every number of threads and calls and one failure of poll (FlyingOK:
\* libusb_submit_transfer, usbi_handle_transfer_completion, do_sync_bulk_transfer).
THEOREM FlyingCorrect == Limits => (Spec => []FlyingOK)
<1> SUFFICES ASSUME Limits  PROVE Spec => []FlyingOK
  OBVIOUS
<1>1. Init => Inv /\ ListInv
  BY InitInv, ListInit
<1>2. (Inv /\ ListInv) /\ [Next]_vars => (Inv /\ ListInv)'
  <2> SUFFICES ASSUME Inv, ListInv, [Next]_vars  PROVE (Inv /\ ListInv)'
    OBVIOUS
  <2>1. Inv'
    BY InvStep
  <2>2. CASE Next
    BY <2>1, <2>2, OrderStep, StageStep DEF ListInv
  <2>3. CASE UNCHANGED vars
    BY <2>1, <2>3, ListStutter
  <2> QED
    BY <2>2, <2>3
<1>3. Inv /\ ListInv => FlyingOK
  BY DEF ListInv, Ordered, Staged, Stages, Listed, Idle, FlyingOK, FreedNotFlying
<1> QED
  BY <1>1, <1>2, <1>3, PTL DEF Spec
=============================================================================
