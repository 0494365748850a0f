---------------------------- MODULE HotplugProofs ----------------------------
(***************************************************************************)
(* Hotplug: the global transport never names a handle that was freed, for  *)
(* every number of devices, handles and failures.  No lock sees to that: a *)
(* handle is unregistered before it is freed, and nobody registers it a    *)
(* second time.  And what libusb holds for the program is what the handles *)
(* account for, through every failure and every kick.                      *)
(*                                                                         *)
(* LibusbDevices, on which Hotplug's polls rest: every reference to a      *)
(* device is somebody's, however many threads and failures there are, a    *)
(* list that is handed out is complete and, as long as only one thread     *)
(* asks for lists, every device of it has a descriptor.                    *)
(***************************************************************************)
EXTENDS Hotplug, LibusbDevices, SequenceFacts, FiniteSetTheorems, TLAPS

\* Places of usb_kick, and those of it at which the transport is not the
\* handle's any more.
Kicking == {"unregister", "reset", "unlink next", "unlink prev", "free"}
Unregistered == {"unlink next", "unlink prev", "free"}
Linking == {"link", "link next", "link prev", "register"}
Places == Kicking \cup Linking \cup {"off", "read", "done", "sleep", "check", "next",
                                     "list", "device", "find", "open", "ref"}

Types ==
  /\ used \in 0 .. N /\ live \subseteq 1 .. used
  /\ transport \in Handles \cup {NULL}
  /\ at \in [0 .. N -> Places]

\* Handles that were never allocated have no thread, and the one that is being
\* linked is allocated and has none yet.
Fresh ==
  /\ \A h \in Handles : h > used => at[h] = "off"
  /\ at[Poll] \in Linking => used \in live /\ at[used] = "off"

\* What poll kicks is a handle.
PollKicks == at[Poll] \in Kicking => usb \in Handles

\* Who has unregistered its handle will not find it registered again.
Past == \A k \in 0 .. N : at[k] \in Unregistered => transport # Target(k)

\* The inductive invariant; nothing is claimed of what follows undefined
\* behaviour or the end of the program.
Inv == Types /\ (Running => Fresh /\ PollKicks /\ Past /\ TransportLive)

\* The bounds are natural numbers, so places and handles are intervals of them.
LEMMA Numbers == N \in Nat /\ MaxPlugs \in Nat /\ MaxFaults \in Nat
BY HotplugAssumption DEF N

\* At the start nothing is allocated, registered or kicked (adb_main).
LEMMA InitInv == Init => Inv
<1> SUFFICES ASSUME Init PROVE Inv
  OBVIOUS
<1>1. at = [k \in 0 .. N |-> IF k = Poll THEN "list" ELSE "off"] /\ 0 \in 0 .. N
  BY Numbers DEF Init
<1>2. Types
  BY <1>1, Numbers DEF Init, Types, Places, Handles, NULL, Poll
<1>3. Fresh /\ PollKicks /\ Past /\ TransportLive
  BY <1>1, Numbers DEF Init, Fresh, PollKicks, Past, TransportLive, Linking,
     Kicking, Unregistered, Handles, Poll, NULL
<1> QED
  BY <1>2, <1>3 DEF Inv

\* What all steps of usb_kick have in common: k moves, the rest of the places
\* and what poll looks at stay.
LEMMA KickInv ==
  ASSUME Inv, Running, NEW k \in 0 .. N, usb_kick(k), UNCHANGED <<used, usb>>
  PROVE  Inv'
<1> DEFINE h == Target(k)
<1>1. /\ N \in Nat /\ Poll \in 0 .. N
      /\ Types /\ Fresh /\ PollKicks /\ Past /\ TransportLive
  BY Numbers DEF Inv, Poll
<1>2. at[k] \in Kicking => h \in Handles
  BY <1>1 DEF PollKicks, Target, Handles, Poll
<1>3. \A j \in 0 .. N : Target(j)' = Target(j)
  BY DEF Target
\* A step to place, with transport and live as they are or with less of each.
<1>4. ASSUME NEW place \in Kicking \cup {"next", "done"}, Goto(k, place),
             at[k] \in Kicking,
             \/ transport' = transport /\ (place \in Unregistered => transport # h)
             \/ transport' = NULL,
             \/ live' = live
             \/ live' = live \ {h} /\ transport # h /\ transport' = transport,
             place \in Kicking \/ k # Poll \/ place = "next"
      PROVE  Inv'
  <2>1. /\ at' = [at EXCEPT ![k] = place] /\ at'[k] = place
        /\ \A j \in 0 .. N : j # k => at'[j] = at[j]
    BY <1>1, <1>4 DEF Goto, Types
  <2>2. Types'
    BY <1>1, <1>4, <2>1 DEF Types, Kicking, Places
  <2>3. h \in Handles /\ place \notin Linking /\ at[k] # "off"
    BY <1>2, <1>4 DEF Kicking, Linking
  <2>4. at[Poll] \in Linking => k # Poll /\ h = k /\ k # used
    BY <1>1, <1>4, <2>3 DEF Fresh, Target, Kicking, Linking
  <2>5. Fresh'
    <3>1. \A g \in Handles : g > used => at'[g] = "off"
      BY <1>1, <2>1, <2>3 DEF Fresh, Handles, Types
    <3>2. at'[Poll] \in Linking => used \in live' /\ at'[used] = "off"
      BY <1>1, <1>4, <2>1, <2>3, <2>4 DEF Fresh, Types
    <3> QED
      BY <3>1, <3>2 DEF Fresh
  <2>6. PollKicks'
    BY <1>1, <1>4, <2>1, <2>3 DEF PollKicks, Target
  <2>7. Past'
    <3> SUFFICES ASSUME NEW j \in 0 .. N, at'[j] \in Unregistered
                 PROVE  transport' # Target(j)'
      BY DEF Past
    <3>1. Target(j) \in Handles
      <4>1. CASE j = k
        BY <2>3, <4>1
      <4>2. CASE j # k
        <5>1. at[j] \in Unregistered
          BY <2>1, <4>2
        <5>2. j = Poll => Target(j) = usb /\ usb \in Handles
          BY <1>1, <5>1 DEF PollKicks, Target, Unregistered, Kicking
        <5>3. j # Poll => Target(j) = j /\ j \in Handles
          BY <1>1 DEF Target, Handles, Poll
        <5> QED
          BY <5>2, <5>3
      <4> QED
        BY <4>1, <4>2
    <3>2. NULL \notin Handles
      BY DEF Handles, NULL
    <3>3. j # k => transport # Target(j)
      BY <1>1, <2>1 DEF Past
    <3> QED
      BY <1>3, <1>4, <2>1, <3>1, <3>2, <3>3
  <2>8. TransportLive'
    BY <1>1, <1>4 DEF TransportLive
  <2> QED
    BY <2>2, <2>5, <2>6, <2>7, <2>8 DEF Inv
\* Undefined behaviour.
<1>5. ASSUME Undefined, UNCHANGED <<at, transport, live>> PROVE Inv'
  BY <1>1, <1>5 DEF Undefined, Inv, Running, Types
<1>6. CASE Unregister(k) /\ UNCHANGED <<usbVars, live, next, prev>>
  <2>1. CASE at[k] = "unregister" /\ h \in live /\ UNCHANGED transport
             /\ Goto(k, IF transport = h THEN "reset" ELSE "unlink next")
    BY <2>1, <1>6, <1>4 DEF Kicking, Unregistered
  <2>2. CASE at[k] = "reset" /\ transport' = NULL /\ Goto(k, "unlink next")
    BY <2>2, <1>6, <1>4 DEF Kicking, Unregistered
  <2> QED
    BY <1>5, <1>6, <2>1, <2>2 DEF Unregister
<1>7. CASE Unlink(k) /\ UNCHANGED <<usbVars, live, transport>>
  <2>0. at[k] \in Unregistered => transport # h
    BY <1>1 DEF Past
  <2>1. CASE at[k] = "unlink next" /\ Goto(k, "unlink prev")
    BY <2>0, <2>1, <1>7, <1>4 DEF Kicking, Unregistered
  <2>2. CASE at[k] = "unlink prev" /\ Goto(k, "free")
    BY <2>0, <2>2, <1>7, <1>4 DEF Kicking, Unregistered
  <2> QED
    BY <1>5, <1>7, <2>1, <2>2 DEF Unlink
<1>8. CASE Free(k) /\ UNCHANGED <<next, prev, transport>>
  <2>0. at[k] = "free" /\ transport # h
    BY <1>1, <1>8 DEF Past, Free, Unregistered
  <2>1. CASE live' = live \ {h} /\ Goto(k, IF k = Poll THEN "next" ELSE "done")
    BY <2>0, <2>1, <1>8, <1>4 DEF Kicking, Unregistered
  <2> QED
    BY <1>5, <1>8, <2>1 DEF Free
<1> QED
  BY <1>6, <1>7, <1>8 DEF usb_kick

\* The steps that leave handles, transport and places alone.
LEMMA OtherInv ==
  ASSUME Inv, UNCHANGED <<live, used, transport, at, usb>>,
         Running' => Running
  PROVE  Inv'
BY DEF Inv, Types, Fresh, PollKicks, Past, TransportLive, Target

\* Poll goes to a place outside usb_kick and register_device; or to the kick of
\* a handle that is allocated.
LEMMA PollMoves ==
  ASSUME Inv, Running, NEW place \in Places, Goto(Poll, place),
         UNCHANGED <<live, used, transport>>,
         place \notin Linking \cup Unregistered,
         place \in Kicking => usb' \in live
  PROVE  Inv'
<1>1. N \in Nat /\ Poll \in 0 .. N /\ Types /\ Fresh /\ Past /\ TransportLive
  BY Numbers DEF Inv, Poll
<1>2. /\ at'[Poll] = place /\ at' \in [0 .. N -> Places]
      /\ \A j \in 0 .. N : j # Poll => at'[j] = at[j] /\ Target(j)' = Target(j)
  BY <1>1 DEF Goto, Types, Target
<1>3. Types' /\ TransportLive'
  BY <1>1, <1>2 DEF Types, TransportLive, Running
<1>4. Fresh'
  BY <1>1, <1>2 DEF Fresh, Handles, Poll
<1>5. PollKicks'
  <2>1. live \subseteq Handles
    BY <1>1 DEF Types, Handles
  <2> QED
    BY <1>2, <2>1 DEF PollKicks
<1>6. Past'
  BY <1>1, <1>2 DEF Past
<1> QED
  BY <1>3, <1>4, <1>5, <1>6 DEF Inv

\* kick_disconnected_devices walks the handles and kicks those not found again:
\* the one poll is about to kick is on the list, hence a handle.
LEMMA KickDisconnectedInv ==
  ASSUME Inv, Running, kick_disconnected
  PROVE  Inv'
<1>1. CASE Wake /\ UNCHANGED <<usbVars, live, next, prev, transport>>
  BY <1>1, PollMoves DEF Wake, kick_disconnected, Places, Linking, Unregistered, Kicking
<1>2. CASE CheckConnected /\ UNCHANGED <<usbVars, live, next, prev, transport>>
  <2>1. CASE usb \notin live /\ usb # handle_list
    BY <1>2, <2>1, OtherInv DEF CheckConnected, Undefined, Running, kick_disconnected
  <2>2. CASE usb = handle_list
    BY <1>2, <2>2, PollMoves DEF CheckConnected, kick_disconnected, Places,
       Linking, Unregistered, Kicking
  <2>3. CASE usb # handle_list /\ usb \in live
    <3> DEFINE place == IF addr[usb] \in bus THEN "next" ELSE "unregister"
    <3>1. Goto(Poll, place) /\ usb' = usb
      BY <1>2, <2>3 DEF CheckConnected
    <3> QED
      BY <1>2, <2>3, <3>1, PollMoves DEF kick_disconnected, Places, Linking,
         Unregistered, Kicking
  <2> QED
    BY <2>1, <2>2, <2>3
<1>3. CASE NextHandle /\ UNCHANGED <<usbVars, live, next, prev, transport>>
  <2>1. CASE usb \in live
    BY <1>3, <2>1, PollMoves DEF NextHandle, kick_disconnected, Places,
       Linking, Unregistered, Kicking
  <2>2. CASE usb \notin live
    BY <1>3, <2>2, OtherInv DEF NextHandle, Undefined, Running, kick_disconnected
  <2> QED
    BY <2>1, <2>2
<1>4. CASE usb_kick(Poll) /\ UNCHANGED usb
  BY <1>4, KickInv, Numbers DEF kick_disconnected, Poll
<1> QED
  BY <1>1, <1>2, <1>3, <1>4 DEF kick_disconnected

\* The list of devices, and the walk over it, touch no handle.
LEMMA ScanInv ==
  ASSUME Inv, Running, Scan
  PROVE  Inv'
<1>1. UNCHANGED <<live, used, transport>>
  BY DEF Scan, handleVars
<1>2. CASE GetList
  BY <1>1, <1>2, PollMoves DEF GetList, Places, Linking, Unregistered, Kicking
<1>3. CASE NextDevice
  BY <1>1, <1>3, PollMoves DEF NextDevice, Places, Linking, Unregistered, Kicking
<1>4. CASE FreeList
  BY <1>1, <1>4, PollMoves DEF FreeList, Places, Linking, Unregistered, Kicking
<1>5. CASE already_registered
  <2>1. CASE Goto(Poll, "open") \/ Goto(Poll, "device")
    BY <1>1, <1>5, <2>1, PollMoves DEF Places, Linking, Unregistered, Kicking
  <2>2. CASE Undefined /\ UNCHANGED <<usb, at>>
    BY <1>1, <2>2, OtherInv DEF Undefined, Running
  <2>3. CASE at[Poll] = "find" /\ UNCHANGED <<at, status>>
    <3>1. /\ N \in Nat /\ Poll \in 0 .. N
          /\ Types /\ Fresh /\ Past /\ TransportLive
          /\ \A j \in 0 .. N : j # Poll => Target(j)' = Target(j)
      BY Numbers DEF Inv, Poll, Target
    <3>2. Past'
      BY <1>1, <2>3, <3>1 DEF Past, Unregistered
    <3>3. Types' /\ Fresh' /\ PollKicks' /\ TransportLive'
      BY <1>1, <2>3, <3>1 DEF Types, Fresh, PollKicks, TransportLive, Kicking, Running
    <3> QED
      BY <3>2, <3>3 DEF Inv
  <2> QED
    BY <1>5, <2>1, <2>2, <2>3 DEF already_registered
<1> QED
  BY <1>2, <1>3, <1>4, <1>5 DEF Scan

\* Inside register_device: poll goes to one of its places with a handle that
\* was just allocated or is in hand already.
LEMMA PollLinks ==
  ASSUME Inv, Running, NEW place \in Linking, Goto(Poll, place),
         UNCHANGED <<transport, usb>>,
         \/ at[Poll] \in Linking /\ UNCHANGED <<live, used>>
         \/ used < N /\ used' = used + 1 /\ live' = live \cup {used'}
  PROVE  Inv'
<1>1. N \in Nat /\ Poll \in 0 .. N /\ Types /\ Fresh /\ Past /\ TransportLive
  BY Numbers DEF Inv, Poll
<1>2. /\ at'[Poll] = place /\ place \in Places /\ at' \in [0 .. N -> Places]
      /\ \A j \in 0 .. N : j # Poll => at'[j] = at[j] /\ Target(j)' = Target(j)
  BY <1>1 DEF Goto, Types, Target, Linking, Places
<1>3. Types' /\ TransportLive'
  <2>1. used' \in 0 .. N /\ live' \subseteq 1 .. used' /\ live \subseteq live'
    <3>1. CASE UNCHANGED <<live, used>>
      BY <1>1, <3>1 DEF Types
    <3>2. CASE used < N /\ used' = used + 1 /\ live' = live \cup {used'}
      BY <1>1, <3>2 DEF Types
    <3> QED
      BY <3>1, <3>2
  <2> QED
    BY <1>1, <1>2, <2>1 DEF Types, TransportLive, Running
<1>4. used' \in live' /\ used' \in Handles /\ at'[used'] = "off"
  BY <1>1, <1>2 DEF Types, Fresh, Handles, Poll
<1>5. Fresh'
  BY <1>1, <1>2, <1>4 DEF Fresh, Handles, Poll, Types
<1>6. PollKicks' /\ Past'
  BY <1>1, <1>2 DEF PollKicks, Past, Linking, Kicking, Unregistered
<1> QED
  BY <1>3, <1>5, <1>6 DEF Inv

\* register_device allocates a handle no thread works on, links it and makes it
\* the transport.
LEMMA RegisterInv ==
  ASSUME Inv, Running, register_usb_transport, UNCHANGED usb
  PROVE  Inv'
<1>1. N \in Nat /\ Poll \in 0 .. N /\ Types /\ Fresh /\ Past /\ TransportLive
  BY Numbers DEF Inv, Poll
<1>2. /\ at[Poll] = "register" /\ transport' = used /\ used \in live
      /\ at[used] = "off" /\ used \in Handles /\ used # Poll
      /\ UNCHANGED <<used, live, status>>
  BY <1>1 DEF register_usb_transport, Fresh, Linking, Types, Handles, handleVars, Poll
<1>3. /\ at' \in [0 .. N -> Places] /\ at'[Poll] = "ref" /\ at'[used] = "read"
      /\ \A j \in 0 .. N : j # Poll /\ j # used => at'[j] = at[j]
      /\ \A j \in 0 .. N : Target(j)' = Target(j)
  BY <1>1, <1>2 DEF register_usb_transport, Types, Handles, Target, Places
<1>4. Types' /\ TransportLive'
  BY <1>1, <1>2, <1>3 DEF Types, TransportLive
<1>5. Fresh' /\ PollKicks'
  BY <1>1, <1>2, <1>3 DEF Fresh, PollKicks, Linking, Kicking, Handles, Types
<1>6. Past'
  BY <1>2, <1>3 DEF Past, Unregistered, Target
<1> QED
  BY <1>4, <1>5, <1>6 DEF Inv

\* One probing of a device by the poll thread, whatever it finds.
LEMMA ProbeInv ==
  ASSUME Inv, Running, Probe
  PROVE  Inv'
<1>0. UNCHANGED usb
  BY DEF Probe, pollVars
<1>1. CASE ProbeFails \/ ProbeOdd
  BY <1>0, <1>1, PollMoves DEF ProbeFails, ProbeOdd, handleVars, Places,
     Linking, Unregistered, Kicking
<1>2. CASE ProbeAdb
  BY <1>0, <1>2, PollLinks DEF ProbeAdb, Linking
<1>3. CASE Link
  <2>1. CASE Undefined /\ UNCHANGED at
    BY <1>0, <1>3, <2>1, OtherInv DEF Link, Undefined, Running
  <2>2. CASE at[Poll] \in Linking
             /\ (Goto(Poll, "link next") \/ Goto(Poll, "link prev") \/ Goto(Poll, "register"))
    BY <1>0, <1>3, <2>2, PollLinks DEF Link, Linking
  <2> QED
    BY <1>3, <2>1, <2>2 DEF Link, Linking
<1>4. CASE register_usb_transport
  BY <1>0, <1>4, RegisterInv
<1>5. CASE RefDevice
  <2>1. CASE Goto(Poll, "device")
    BY <1>0, <1>5, <2>1, PollMoves DEF RefDevice, handleVars, Places,
       Linking, Unregistered, Kicking
  <2>2. CASE Undefined /\ UNCHANGED at
    <3>1. UNCHANGED <<live, used, transport, at, usb>>
      BY <1>0, <1>5, <2>2 DEF RefDevice, handleVars
    <3> QED
      BY <3>1, OtherInv
  <2> QED
    BY <1>5, <2>1, <2>2 DEF RefDevice
<1> QED
  BY <1>1, <1>2, <1>3, <1>4, <1>5 DEF Probe

\* The output thread of a handle reads from it and kicks it when a read fails.
LEMMA OutputInv ==
  ASSUME Inv, NEW h \in Handles, OutputStep(h)
  PROVE  Inv'
<1>0. Running /\ UNCHANGED <<used, usb>> /\ N \in Nat /\ h \in 0 .. N /\ h # Poll
  BY Numbers DEF OutputStep, pollVars, Handles, Poll
<1>1. CASE usb_kick(h)
  BY <1>0, <1>1, KickInv
<1>2. CASE ReadFails(h)
  <2>1. /\ Poll \in 0 .. N /\ Types /\ Fresh /\ PollKicks /\ Past /\ TransportLive
        /\ at[h] = "read" /\ UNCHANGED <<live, transport, status>>
    BY <1>0, <1>2 DEF Inv, Poll, ReadFails
  <2>2. /\ at' \in [0 .. N -> Places] /\ at'[h] = "unregister"
        /\ \A j \in 0 .. N : j # h => at'[j] = at[j]
        /\ \A j \in 0 .. N : Target(j)' = Target(j)
    BY <1>0, <1>2, <2>1 DEF ReadFails, Goto, Types, Target, Places, Kicking
  <2>3. Types' /\ Fresh' /\ TransportLive'
    BY <1>0, <2>1, <2>2 DEF Types, Fresh, TransportLive, Handles, Running
  <2>4. PollKicks' /\ Past'
    BY <1>0, <2>1, <2>2 DEF PollKicks, Past, Unregistered
  <2> QED
    BY <2>3, <2>4 DEF Inv
<1> QED
  BY <1>1, <1>2 DEF OutputStep

\* Every step of every thread, of the user and of the bus keeps the invariant.
LEMMA StepInv == Inv /\ [Next]_vars => Inv'
<1> SUFFICES ASSUME Inv, [Next]_vars PROVE Inv'
  OBVIOUS
<1>1. CASE World \/ WatchStep \/ MainStep \/ StdinStep
  BY <1>1, OtherInv DEF World, WatchStep, MainStep, StdinStep, handleVars, pollVars
<1>2. CASE PollStep
  BY <1>2, KickDisconnectedInv, ScanInv, ProbeInv DEF PollStep
<1>3. CASE \E h \in Handles : OutputStep(h)
  BY <1>3, OutputInv
<1>4. CASE UNCHANGED vars
  BY <1>4, OtherInv DEF vars, handleVars, pollVars, Running
<1> QED
  BY <1>1, <1>2, <1>3, <1>4 DEF Next

\* The global transport never names a handle that was freed, whichever threads
\* kick and register (transport_z.c 128-158, usb_libusb.c 230-247).
THEOREM TransportIsLive == Spec => []TransportLive
<1>1. Inv => TransportLive
  BY DEF Inv, TransportLive
<1> QED
  BY <1>1, InitInv, StepInv, PTL DEF Spec
-----------------------------------------------------------------------------
(* What libusb holds for the program: opens, claims and references.         *)

\* Each claimed device has one handle, and an adb device is open once while it
\* is claimed; the list of devices is given back before poll sleeps.
Owned ==
  /\ \A h \in live : addr[h] \in claimed
  /\ \A g, h \in live : addr[g] = addr[h] => g = h
  /\ \A d \in claimed : d \in Adb /\ \E h \in live : addr[h] = d
  /\ \A d \in Adb : opens[d] = IF d \in claimed THEN 1 ELSE 0
  /\ at[Poll] \in Kicking \cup {"sleep", "check", "next", "list"} => listed = {}

HInv == TypeOK /\ (Running => Owned /\ RefsBalanced)

\* A device that can be opened once more is within the limit of open devices.
LEMMA RoomLeft ==
  ASSUME TypeOK, Openable
  PROVE  dev \in Devices /\ opens[dev] + 1 \in 0 .. MaxOpen
<1>1. /\ MaxPlugs \in Nat /\ MaxOpen \in Nat
      /\ dev \in Devices /\ opens[dev] \in 0 .. MaxOpen
  <2>1. /\ MaxPlugs \in Nat /\ plugs \in 0 .. MaxPlugs /\ dev \in 1 .. plugs
        /\ opens \in [Devices -> 0 .. MaxOpen]
    BY HotplugAssumption DEF TypeOK, Openable
  <2> QED
    BY <2>1, HotplugAssumption DEF Devices
<1> DEFINE All == Devices \X (1 .. MaxOpen)
           Open == {o \in All : o[2] <= opens[o[1]]}
           One == {dev} \X (1 .. MaxOpen)
<1>2. TotalOpen = Cardinality(Open)
  BY DEF TotalOpen
<1>3. IsFiniteSet(Open)
  <2>1. IsFiniteSet(Devices) /\ IsFiniteSet(1 .. MaxOpen)
    BY <1>1, FS_Interval DEF Devices
  <2>2. IsFiniteSet(All)
    BY <2>1, FS_Product
  <2> QED
    BY <2>2, FS_Subset
<1>4. Cardinality(One) = MaxOpen
  <2>1. IsFiniteSet({dev}) /\ Cardinality({dev}) = 1
    BY FS_Singleton
  <2>2. IsFiniteSet(1 .. MaxOpen) /\ Cardinality(1 .. MaxOpen) = MaxOpen
    BY <1>1, FS_Interval
  <2>3. Cardinality(One) = Cardinality({dev}) * Cardinality(1 .. MaxOpen)
    BY <2>1, <2>2, FS_Product
  <2> HIDE DEF One
  <2> QED
    BY <1>1, <2>1, <2>2, <2>3
<1>5. ASSUME opens[dev] = MaxOpen PROVE FALSE
  <2>1. One \subseteq Open
    BY <1>1, <1>5
  <2>2. Cardinality(One) <= Cardinality(Open)
    BY <1>3, <2>1, FS_Subset
  <2>3. Cardinality(Open) \in Nat
    BY <1>3, FS_CardinalityType
  <2>4. Cardinality(Open) < MaxOpen
    BY <1>2 DEF Openable
  <2> HIDE DEF One, Open
  <2> QED
    BY <1>1, <1>4, <2>2, <2>3, <2>4
<1> QED
  BY <1>1, <1>5

\* At the start libusb holds nothing for the program (adb_main).
LEMMA InitHInv == Init => HInv
<1> SUFFICES ASSUME Init PROVE HInv
  OBVIOUS
<1>1. N \in Nat /\ MaxPlugs \in Nat /\ MaxFaults \in Nat /\ MaxOpen \in Nat
  BY Numbers, HotplugAssumption
<1>2. TypeOK
  <2>1. prev = next /\ next \in [0 .. N -> NULL .. N]
    BY <1>1 DEF Init, NULL, handle_list
  <2>2. at \in [0 .. N -> {"list", "off"}]
    BY DEF Init, Poll
  <2>3. current_state \in BOOLEAN /\ device_found \in BOOLEAN
    BY Zenon DEF Init
  <2>4. arg \in [{"watch", "main", "stdin"} -> Handles \cup {NULL}]
    BY DEF Init
  <2> QED
    BY <1>1, <2>1, <2>2, <2>3, <2>4 DEF Init, TypeOK, Devices, Handles, NULL, handle_list
<1>3. Owned /\ RefsBalanced
  BY <1>1, HotplugAssumption DEF Init, Owned, RefsBalanced, Registering, Poll, Devices
<1> QED
  BY <1>2, <1>3 DEF HInv

\* The conjuncts of TypeOK that Types does not have, by what they are about.
Counts ==
  /\ bus \subseteq 1 .. plugs /\ plugs \in 0 .. MaxPlugs /\ faults \in 0 .. MaxFaults
  /\ opens \in [Devices -> 0 .. MaxOpen] /\ refs \in [Devices -> Nat]
  /\ claimed \subseteq Devices
  /\ listed \subseteq Devices /\ devs \subseteq Devices /\ dev \in 0 .. MaxPlugs

Links ==
  /\ addr \in [Handles -> 0 .. MaxPlugs]
  /\ next \in [0 .. N -> NULL .. N] /\ prev \in [0 .. N -> NULL .. N]
  /\ usb \in NULL .. N

Clients ==
  /\ watch \in {"off", "test", "connect", "write", "settle"}
  /\ current_state \in BOOLEAN /\ device_found \in BOOLEAN
  /\ main \in {"init", "wait", "open", "write open", "dump", "close", "write close"}
  /\ stdin \in {"off", "read", "write"}
  /\ arg \in [{"watch", "main", "stdin"} -> Handles \cup {NULL}]
  /\ connected \subseteq Handles
  /\ status \in {"running", "ended", "undefined"}

\* What is allocated are handles.
LEMMA LiveAreHandles ==
  ASSUME Types
  PROVE  live \subseteq Handles /\ transport \in Handles \cup {NULL}
<1> SUFFICES ASSUME NEW h \in live PROVE h \in Handles
  BY DEF Types
<1>1. N \in Nat /\ used \in 0 .. N /\ h \in 1 .. used
  BY Numbers DEF Types
<1> QED
  BY <1>1 DEF Handles

\* The client's threads change nothing but their own variables, and pass on
\* the transport they read.
LEMMA ClientTypes ==
  ASSUME Clients, Types, WatchStep \/ MainStep \/ StdinStep
  PROVE  Clients'
<1> USE DEF Clients, Types, Undefined, PassTransport, WriteRemote, clientVars
<1>0. live \subseteq Handles /\ transport \in Handles \cup {NULL}
  BY LiveAreHandles
<1>1. CASE WatchStep
  <2>1. main' \in {"init", "wait", "open", "write open", "dump", "close", "write close"}
        /\ stdin' \in {"off", "read", "write"}
    BY <1>1 DEF WatchStep
  <2>2. current_state' \in BOOLEAN /\ device_found' \in BOOLEAN
    BY <1>1, Zenon DEF WatchStep, DeviceConnected, DeviceDisconnected
  <2>3. arg' \in [{"watch", "main", "stdin"} -> Handles \cup {NULL}]
    BY <1>0, <1>1 DEF WatchStep, DeviceConnected, DeviceDisconnected
  <2>4. connected' \subseteq Handles
    BY <1>0, <1>1 DEF WatchStep, DeviceConnected, DeviceDisconnected
  <2>5. /\ status' \in {"running", "ended", "undefined"}
        /\ watch' \in {"off", "test", "connect", "write", "settle"}
    BY <1>1 DEF WatchStep, DeviceConnected, DeviceDisconnected
  <2> QED
    BY <2>1, <2>2, <2>3, <2>4, <2>5
<1>2. CASE MainStep \/ StdinStep
  <2>1. current_state' \in BOOLEAN /\ device_found' \in BOOLEAN /\ connected' \subseteq Handles
    BY <1>2 DEF MainStep, StdinStep, watchVars
  <2>2. arg' \in [{"watch", "main", "stdin"} -> Handles \cup {NULL}]
    BY <1>0, <1>2 DEF MainStep, StdinStep, init_and_wait_device, SendPacket, StreamCloses
  <2>3. watch' \in {"off", "test", "connect", "write", "settle"}
    BY <1>2 DEF MainStep, StdinStep, watchVars
  <2>4. /\ status' \in {"running", "ended", "undefined"}
        /\ main' \in {"init", "wait", "open", "write open", "dump", "close", "write close"}
        /\ stdin' \in {"off", "read", "write"}
    BY <1>2 DEF MainStep, StdinStep, init_and_wait_device, SendPacket, StreamCloses
  <2> QED
    BY <2>1, <2>2, <2>3, <2>4
<1> QED
  BY <1>1, <1>2

\* Poll and the output threads leave the client alone, except that the first
\* scan starts it; the world leaves all threads alone.
LEMMA OtherClients ==
  ASSUME Clients, World \/ PollStep \/ \E h \in Handles : OutputStep(h)
  PROVE  Clients'
<1> USE DEF Clients, Undefined
<1>1. UNCHANGED <<current_state, device_found, stdin, arg, connected>>
  BY DEF World, PollStep, OutputStep, watchVars, clientVars
<1>2. main' \in {main, "wait"} /\ watch' \in {watch, "test"}
  BY DEF World, PollStep, OutputStep, watchVars, clientVars, kick_disconnected, Scan,
     Probe, GetList, NextDevice, FreeList, already_registered
<1>3. status' \in {status, "undefined"}
  <2>1. CASE World
    BY <2>1 DEF World
  <2>2. CASE PollStep
    BY <2>2 DEF PollStep, kick_disconnected, Scan, Probe, GetList, NextDevice, FreeList,
       already_registered, Wake, CheckConnected, NextHandle, usb_kick, Unregister, Unlink,
       Free, ProbeFails, ProbeOdd, ProbeAdb, Link, register_usb_transport, RefDevice
  <2>3. CASE \E h \in Handles : OutputStep(h)
    BY <2>3 DEF OutputStep, ReadFails, usb_kick, Unregister, Unlink, Free
  <2> QED
    BY <2>1, <2>2, <2>3
<1> QED
  BY <1>1, <1>2, <1>3

\* Links are set to other links, to a handle just allocated or to the list.
LEMMA LinkTypes ==
  ASSUME Links, Types, Counts, Next
  PROVE  Links'
<1> USE DEF Links
<1>0. /\ N \in Nat /\ MaxPlugs \in Nat /\ used \in 0 .. N /\ live \subseteq 0 .. N
      /\ NULL = -1 /\ handle_list = 0 /\ Poll = 0 /\ Devices = 1 .. MaxPlugs
      /\ dev \in 0 .. MaxPlugs
  BY Numbers DEF Types, Counts, NULL, handle_list, Poll, Devices
<1>1. CASE World \/ WatchStep \/ MainStep \/ StdinStep
  BY <1>1 DEF World, WatchStep, MainStep, StdinStep, handleVars, pollVars
<1>2. ASSUME NEW k \in 0 .. N, usb_kick(k), UNCHANGED <<addr, usb>> PROVE Links'
  <2>1. Target(k) \in NULL .. N
    BY <1>0, <1>2 DEF Target
  <2>2. CASE Unlink(k)
    <3> DEFINE h == Target(k)
    <3>1. UNCHANGED <<next, prev>> \/ (h \in 0 .. N /\ h \in live)
      BY <1>0, <2>2 DEF Unlink
    <3>2. CASE at[k] = "unlink next" /\ h \in live /\ h \in 0 .. N
      BY <1>2, <2>2, <3>2 DEF Unlink
    <3>3. CASE at[k] = "unlink prev" /\ h \in live /\ h \in 0 .. N
      <4>1. next[h] \in NULL .. N /\ NULL \in NULL .. N
        <5>1. NULL \in NULL .. N
          BY <1>0
        <5> HIDE DEF h
        <5>2. next[h] \in NULL .. N
          BY <3>3
        <5> QED
          BY <5>1, <5>2
      <4>2. \/ UNCHANGED <<next, prev>>
            \/ /\ next' = [next EXCEPT ![prev[h]] = next[h], ![h] = NULL]
               /\ prev' = [prev EXCEPT ![h] = NULL]
        BY <2>2, <3>3 DEF Unlink
      <4> QED
        BY <1>2, <4>1, <4>2
    <3> QED
      BY <1>2, <2>2, <3>1, <3>2, <3>3 DEF Unlink
  <2>3. CASE UNCHANGED <<next, prev>>
    BY <1>2, <2>3
  <2> QED
    BY <1>2, <2>2, <2>3 DEF usb_kick
<1>3. CASE \E h \in Handles : OutputStep(h)
  <2>1. PICK h \in Handles : OutputStep(h)
    BY <1>3
  <2>2. h \in 0 .. N
    BY <1>0 DEF Handles
  <2>3. CASE usb_kick(h)
    BY <1>2, <2>1, <2>2, <2>3 DEF OutputStep, pollVars
  <2>4. CASE ReadFails(h)
    BY <2>1, <2>4 DEF OutputStep, ReadFails, pollVars
  <2> QED
    BY <2>1, <2>3, <2>4 DEF OutputStep
<1>4. CASE PollStep
  <2>1. CASE kick_disconnected
    <3>1. CASE usb_kick(Poll) /\ UNCHANGED usb
      BY <1>0, <1>2, <2>1, <3>1 DEF kick_disconnected
    <3>2. CASE UNCHANGED <<next, prev>> /\ (Wake \/ CheckConnected \/ NextHandle)
      <4>1. UNCHANGED <<addr, next, prev>>
        BY <2>1, <3>2 DEF kick_disconnected
      <4>2. CASE Wake
        BY <1>0, <4>1, <4>2 DEF Wake
      <4>3. CASE CheckConnected
        BY <4>1, <4>3 DEF CheckConnected
      <4>4. CASE NextHandle
        BY <1>0, <4>1, <4>4 DEF NextHandle
      <4> QED
        BY <3>2, <4>2, <4>3, <4>4
    <3> QED
      BY <2>1, <3>1, <3>2 DEF kick_disconnected
  <2>2. CASE Scan
    BY <1>0, <2>2, SMTT(30) DEF Scan, GetList, NextDevice, FreeList, already_registered, handleVars
  <2>3. CASE Probe
    <3>1. usb' = usb
      BY <2>3 DEF Probe, pollVars
    <3>2. CASE ProbeAdb
      BY <1>0, <3>1, <3>2 DEF ProbeAdb, Handles
    <3>3. CASE Link
      <4>1. used \in NULL .. N /\ handle_list \in NULL .. N /\ prev[handle_list] \in NULL .. N
        BY <1>0
      <4>2. /\ next' \in {next, [next EXCEPT ![used] = handle_list],
                          [next EXCEPT ![prev[used]] = used]}
            /\ prev' \in {prev, [prev EXCEPT ![used] = prev[handle_list]],
                          [prev EXCEPT ![handle_list] = used]}
            /\ addr' = addr
        BY <3>3 DEF Link
      <4>3. next' \in [0 .. N -> NULL .. N]
        BY <4>1, <4>2
      <4>4. prev' \in [0 .. N -> NULL .. N]
        BY <4>1, <4>2
      <4> QED
        BY <3>1, <4>2, <4>3, <4>4
    <3>4. CASE ProbeFails \/ ProbeOdd \/ register_usb_transport \/ RefDevice
      BY <3>1, <3>4 DEF ProbeFails, ProbeOdd, register_usb_transport, RefDevice, handleVars
    <3> QED
      BY <2>3, <3>2, <3>3, <3>4 DEF Probe
  <2> QED
    BY <1>4, <2>1, <2>2, <2>3 DEF PollStep
<1> QED
  BY <1>1, <1>3, <1>4 DEF Next

\* What is counted is changed by the bus, the list of devices, probing and
\* closing; an open device is counted in time to be closed.
LEMMA CountTypes ==
  ASSUME Counts, Types, TypeOK, Owned, Links, Inv, Running, Next
  PROVE  Counts'
<1> USE DEF Counts
<1>0. /\ N \in Nat /\ MaxPlugs \in Nat /\ MaxFaults \in Nat /\ MaxOpen \in Nat
      /\ Devices = 1 .. MaxPlugs /\ Poll = 0 /\ bus \subseteq Devices
  BY Numbers, HotplugAssumption DEF Devices, Poll
<1>1. CASE World
  <2>1. UNCHANGED <<faults, opens, refs, claimed, listed, devs, dev>>
    BY <1>1 DEF World, usbVars, pollVars
  <2>2. plugs' \in 0 .. MaxPlugs /\ bus' \subseteq 1 .. plugs'
    <3>1. CASE PlugIn
      <4>1. plugs \in Nat /\ plugs' = plugs + 1 /\ plugs < MaxPlugs
        BY <1>0, <3>1 DEF PlugIn
      <4>2. \A d \in bus' : d \in 1 .. plugs'
        BY <3>1, <4>1 DEF PlugIn
      <4> QED
        BY <1>0, <4>1, <4>2
    <3>2. CASE Unplug
      BY <3>2 DEF Unplug
    <3> QED
      BY <1>1, <3>1, <3>2 DEF World
  <2> QED
    BY <2>1, <2>2
<1>2. CASE WatchStep \/ MainStep \/ StdinStep
  BY <1>2 DEF WatchStep, MainStep, StdinStep, worldVars, usbVars, pollVars
<1>3. ASSUME NEW k \in 0 .. N, usb_kick(k),
             UNCHANGED <<bus, plugs, faults, listed, devs, dev>>
      PROVE  Counts'
  <2>1. CASE UNCHANGED <<opens, refs, claimed>>
    BY <1>3, <2>1
  <2>2. CASE Free(k) /\ ~ UNCHANGED <<opens, refs, claimed>>
    <3> DEFINE h == Target(k)
               d == addr[h]
    <3>1. /\ h \in live /\ refs[d] >= 2
          /\ opens' = [opens EXCEPT ![d] = @ - 1]
          /\ refs' = [refs EXCEPT ![d] = @ - 2]
          /\ claimed' = claimed \ {d}
      BY <2>2 DEF Free
    <3>2. d \in Devices /\ opens[d] = 1
      BY <3>1, HotplugAssumption DEF Owned
    <3> HIDE DEF h, d
    <3>3. refs[d] - 2 \in Nat /\ opens[d] - 1 \in 0 .. MaxOpen
      BY <1>0, <3>1, <3>2
    <3> QED
      BY <1>3, <3>1, <3>3
  <2> QED
    BY <1>3, <2>1, <2>2 DEF usb_kick, usbVars
<1>4. CASE \E h \in Handles : OutputStep(h)
  <2>1. PICK h \in Handles : OutputStep(h)
    BY <1>4
  <2>2. h \in 0 .. N
    BY <1>0 DEF Handles
  <2>3. CASE usb_kick(h) /\ UNCHANGED faults
    BY <1>3, <2>1, <2>2, <2>3 DEF OutputStep, pollVars
  <2>4. CASE ReadFails(h)
    BY <1>0, <2>1, <2>4 DEF OutputStep, ReadFails, Fault, usbVars, pollVars
  <2> QED
    BY <2>1, <2>3, <2>4 DEF OutputStep
<1>5. CASE PollStep
  <2>0. UNCHANGED <<bus, plugs>>
    BY <1>5 DEF PollStep
  <2>1. CASE kick_disconnected
    <3>1. CASE usb_kick(Poll)
      <4>1. UNCHANGED <<faults, listed, devs, dev>>
        BY <2>1 DEF kick_disconnected
      <4>2. Poll \in 0 .. N
        BY <1>0
      <4> QED
        BY <1>3, <2>0, <3>1, <4>1, <4>2
    <3>2. CASE UNCHANGED usbVars
      BY <2>0, <2>1, <3>2 DEF kick_disconnected, usbVars
    <3> QED
      BY <2>1, <3>1, <3>2 DEF kick_disconnected
  <2>2. CASE Scan
    <3>1. UNCHANGED <<faults, opens, claimed>>
      BY <2>2 DEF Scan
    <3>2. refs' \in [Devices -> Nat]
      <4>1. \A d \in Devices : refs[d] \in Nat /\ refs[d] + 1 \in Nat
                               /\ (refs[d] > 0 => refs[d] - 1 \in Nat)
        OBVIOUS
      <4>2. CASE GetList
        BY <4>1, <4>2 DEF GetList
      <4>3. CASE FreeList
        BY <4>1, <4>3 DEF FreeList
      <4>4. CASE NextDevice \/ already_registered
        BY <4>4 DEF NextDevice, already_registered
      <4> QED
        BY <2>2, <4>2, <4>3, <4>4 DEF Scan
    <3>3. listed' \subseteq Devices /\ devs' \subseteq Devices /\ dev' \in 0 .. MaxPlugs
      <4>1. CASE NextDevice
        <5>1. listed' = listed /\ dev' \in devs /\ devs' \subseteq devs
          BY <4>1 DEF NextDevice
        <5> QED
          BY <1>0, <5>1
      <4>2. CASE GetList
        BY <1>0, <4>2 DEF GetList
      <4>3. CASE FreeList
        BY <1>0, <4>3 DEF FreeList
      <4>4. CASE already_registered
        BY <4>4 DEF already_registered
      <4> QED
        BY <2>2, <4>1, <4>2, <4>3, <4>4 DEF Scan
    <3> QED
      BY <2>0, <3>1, <3>2, <3>3
  <2>3. CASE Probe
    <3>1. UNCHANGED <<listed, devs, dev>>
      BY <2>3 DEF Probe, pollVars
    <3>2. CASE ProbeFails
      BY <1>0, <2>0, <3>1, <3>2, SMTT(30) DEF ProbeFails, Fault, usbVars
    <3>3. CASE ProbeOdd \/ ProbeAdb
      <4>1. dev \in Devices /\ opens[dev] + 1 \in 0 .. MaxOpen /\ refs[dev] + 1 \in Nat
        BY <3>3, RoomLeft DEF ProbeOdd, ProbeAdb
      <4>2. /\ faults' = faults
            /\ opens' = [opens EXCEPT ![dev] = @ + 1]
            /\ refs' = [refs EXCEPT ![dev] = @ + 1]
            /\ claimed' \in {claimed, claimed \cup {dev}}
        BY <3>3 DEF ProbeOdd, ProbeAdb
      <4> QED
        BY <2>0, <3>1, <4>1, <4>2
    <3>4. CASE Link \/ register_usb_transport
      BY <2>0, <3>1, <3>4 DEF Link, register_usb_transport, usbVars
    <3>5. CASE RefDevice
      <4>1. UNCHANGED <<faults, opens, claimed>>
        BY <3>5 DEF RefDevice
      <4>2. refs' \in {refs, [refs EXCEPT ![dev] = @ + 1]}
        BY <3>5 DEF RefDevice
      <4>3. \A d \in Devices : refs[d] + 1 \in Nat
        OBVIOUS
      <4> QED
        BY <2>0, <3>1, <4>1, <4>2, <4>3
    <3> QED
      BY <2>3, <3>2, <3>3, <3>4, <3>5 DEF Probe
  <2> QED
    BY <1>5, <2>1, <2>2, <2>3 DEF PollStep
<1> QED
  BY <1>1, <1>2, <1>4, <1>5 DEF Next

\* Every step keeps the type invariant of Hotplug.
LEMMA TypeStep ==
  ASSUME Inv, HInv, Running, Next
  PROVE  TypeOK'
<1>1. Types /\ Counts /\ Links /\ Clients
  BY DEF HInv, Inv, TypeOK, Counts, Links, Clients
<1>2. Types'
  BY StepInv DEF Inv
<1>3. Counts' /\ Links'
  BY <1>1, CountTypes, LinkTypes DEF HInv
<1>4. Clients'
  BY <1>1, ClientTypes, OtherClients DEF Next
<1> QED
  BY <1>2, <1>3, <1>4 DEF TypeOK, Types, Counts, Links, Clients, Places, Kicking, Linking

\* Places of poll at which it has no list of devices.
Unlisted == Kicking \cup {"sleep", "check", "next", "list"}

\* A step that moves poll at most, and not into a list or a registration.
LEMMA OwnKept ==
  ASSUME Owned, RefsBalanced, Running,
         UNCHANGED <<live, addr, opens, refs, claimed, listed, dev>>,
         at'[Poll] \in Registering <=> at[Poll] \in Registering,
         at'[Poll] \in Unlisted => at[Poll] \in Unlisted
  PROVE  Owned' /\ RefsBalanced'
<1>1. Owned'
  BY DEF Owned, Unlisted
<1>2. RefsBalanced'
  BY DEF RefsBalanced
<1> QED
  BY <1>1, <1>2

\* usb_kick gives back what its handle owns, whoever calls it.
LEMMA OwnKicked ==
  ASSUME HInv, Inv, Running, NEW k \in 0 .. N, usb_kick(k),
         UNCHANGED <<used, addr, listed, dev>>
  PROVE  Owned' /\ RefsBalanced'
<1>1. TypeOK /\ Owned /\ RefsBalanced /\ Types /\ Poll \in 0 .. N
  BY Numbers DEF HInv, Inv, Poll
<1>0. /\ MaxOpen \in Nat /\ Adb \subseteq Devices
      /\ opens \in [Devices -> 0 .. MaxOpen] /\ refs \in [Devices -> Nat]
  BY <1>1, HotplugAssumption DEF TypeOK
<1>2. ASSUME NEW place \in Kicking \cup {"next"}, Goto(k, place), at[k] \in Kicking
      PROVE  /\ at'[Poll] \in Registering <=> at[Poll] \in Registering
             /\ at'[Poll] \in Unlisted => at[Poll] \in Unlisted
  BY <1>1, <1>2 DEF Goto, Types, Registering, Unlisted, Kicking
<1>3. CASE UNCHANGED <<at, live, opens, refs, claimed>>
  BY <1>1, <1>3, OwnKept
<1>4. CASE Unregister(k) /\ UNCHANGED <<live, opens, refs, claimed>> /\ ~ UNCHANGED at
  <2>1. PICK place \in Kicking : Goto(k, place) /\ at[k] \in Kicking
    BY <1>4 DEF Unregister, Kicking
  <2> QED
    BY <1>1, <1>2, <1>4, <2>1, OwnKept
<1>5. CASE Unlink(k) /\ UNCHANGED <<live, opens, refs, claimed>> /\ ~ UNCHANGED at
  <2>1. PICK place \in Kicking : Goto(k, place) /\ at[k] \in Kicking
    BY <1>5 DEF Unlink, Kicking
  <2> QED
    BY <1>1, <1>2, <1>5, <2>1, OwnKept
<1>6. CASE Free(k) /\ ~ UNCHANGED <<at, live, opens, refs, claimed>>
  <2> DEFINE h == Target(k)
             d == addr[h]
  <2>1. /\ h \in live /\ refs[d] >= 2 /\ live' = live \ {h}
        /\ opens' = [opens EXCEPT ![d] = @ - 1]
        /\ refs' = [refs EXCEPT ![d] = @ - 2]
        /\ claimed' = claimed \ {d}
        /\ at[k] = "free" /\ Goto(k, IF k = Poll THEN "next" ELSE "done")
    BY <1>6 DEF Free
  <2>2. /\ at'[Poll] \in Registering <=> at[Poll] \in Registering
        /\ at'[Poll] \in Unlisted => at[Poll] \in Unlisted
    BY <1>1, <2>1 DEF Goto, Types, Registering, Unlisted, Kicking
  <2>3. /\ d \in claimed /\ d \in Adb /\ opens[d] = 1 /\ d \in Devices
        /\ \A g \in live : addr[g] = d => g = h
    BY <1>1, <2>1, HotplugAssumption DEF Owned
  <2> HIDE DEF h, d
  <2>4. /\ opens'[d] = 0 /\ refs'[d] = refs[d] - 2
        /\ \A e \in Devices : e # d => opens'[e] = opens[e] /\ refs'[e] = refs[e]
    BY <1>0, <2>1, <2>3
  <2>5. Owned'
    <3>1. \A g \in live' : addr[g] \in claimed'
      BY <1>1, <2>1, <2>3 DEF Owned
    <3>2. \A e \in claimed' : e \in Adb /\ \E g \in live' : addr[g] = e
      <4>1. addr[h] = d
        BY DEF h, d
      <4> QED
        BY <1>1, <2>1, <2>3, <4>1 DEF Owned
    <3>3. \A e \in Adb : opens'[e] = IF e \in claimed' THEN 1 ELSE 0
      BY <1>1, <2>1, <2>3, <2>4, HotplugAssumption DEF Owned
    <3>4. at'[Poll] \in Unlisted => listed' = {}
      BY <1>1, <2>2 DEF Owned, Unlisted
    <3> QED
      BY <1>1, <2>1, <3>1, <3>2, <3>3, <3>4 DEF Owned, Unlisted
  <2>6. RefsBalanced'
    <3> SUFFICES ASSUME NEW e \in Adb
                 PROVE  refs'[e] + (IF dev = e /\ at[Poll] \in Registering THEN 1 ELSE 0)
                          = 2 * opens'[e] + (IF e \in listed THEN 1 ELSE 0)
      BY <2>2 DEF RefsBalanced
    <3>1. refs[e] + (IF dev = e /\ at[Poll] \in Registering THEN 1 ELSE 0)
            = 2 * opens[e] + (IF e \in listed THEN 1 ELSE 0)
      BY <1>1 DEF RefsBalanced
    <3>2. e \in Devices /\ refs[e] \in Nat
      BY <1>1, HotplugAssumption DEF TypeOK
    <3> QED
      BY <2>3, <2>4, <3>1, <3>2
  <2> QED
    BY <2>5, <2>6
<1> QED
  BY <1>3, <1>4, <1>5, <1>6 DEF usb_kick, usbVars

\* The list of devices counts a reference for each while poll walks it.
LEMMA OwnScanned ==
  ASSUME HInv, Inv, Running, Scan
  PROVE  Owned' /\ RefsBalanced'
<1>1. TypeOK /\ Owned /\ RefsBalanced /\ Types /\ Poll \in 0 .. N
  BY Numbers DEF HInv, Inv, Poll
<1>0. /\ MaxOpen \in Nat /\ Adb \subseteq Devices
      /\ opens \in [Devices -> 0 .. MaxOpen] /\ refs \in [Devices -> Nat]
  BY <1>1, HotplugAssumption DEF TypeOK
<1>2. UNCHANGED <<live, addr, opens, claimed>>
  BY DEF Scan, handleVars
<1>3. CASE GetList
  <2>1. /\ listed = {} /\ listed' = bus /\ at[Poll] = "list" /\ at'[Poll] = "device"
        /\ dev' = dev
    BY <1>1, <1>3 DEF GetList, Owned, Goto, Types
  <2>2. Owned'
    BY <1>1, <1>2, <2>1 DEF Owned, Kicking
  <2>3. \A d \in Adb : /\ refs'[d] = IF d \in bus THEN refs[d] + 1 ELSE refs[d]
                       /\ refs[d] \in Nat /\ refs[d] = 2 * opens[d]
    <3> SUFFICES ASSUME NEW d \in Adb
                 PROVE  /\ refs'[d] = IF d \in bus THEN refs[d] + 1 ELSE refs[d]
                        /\ refs[d] \in Nat /\ refs[d] = 2 * opens[d]
      OBVIOUS
    <3>1. refs[d] \in Nat /\ opens[d] \in Nat /\ d \in Devices
      BY <1>0
    <3>2. refs[d] + 0 = 2 * opens[d] + 0
      BY <1>1, <2>1 DEF RefsBalanced, Registering
    <3>3. refs'[d] = IF d \in bus THEN refs[d] + 1 ELSE refs[d]
      BY <1>3, <3>1 DEF GetList
    <3> QED
      BY <3>1, <3>2, <3>3
  <2>4. RefsBalanced'
    BY <1>2, <2>1, <2>3 DEF RefsBalanced, Registering
  <2> QED
    BY <2>2, <2>4
<1>4. CASE NextDevice
  <2>1. /\ at[Poll] = "device" /\ at'[Poll] = "find" /\ UNCHANGED <<refs, listed>>
    BY <1>1, <1>4 DEF NextDevice, Goto, Types
  <2>2. Owned'
    BY <1>1, <1>2, <2>1 DEF Owned, Kicking
  <2>3. RefsBalanced'
    BY <1>1, <1>2, <2>1 DEF RefsBalanced, Registering
  <2> QED
    BY <2>2, <2>3
<1>5. CASE FreeList
  <2>1. /\ at[Poll] = "device" /\ at'[Poll] = "sleep" /\ listed' = {}
    BY <1>1, <1>5 DEF FreeList, Goto, Types
  <2>2. Owned'
    BY <1>1, <1>2, <2>1 DEF Owned
  <2>3. ASSUME NEW d \in Adb, \A e \in listed : refs[e] > 0,
               refs' = [e \in Devices |-> IF e \in listed THEN refs[e] - 1 ELSE refs[e]]
        PROVE  refs'[d] = 2 * opens'[d]
    <3>1. refs[d] \in Nat /\ opens[d] \in Nat /\ d \in Devices
      BY <1>0
    <3>2. refs[d] + 0 = 2 * opens[d] + (IF d \in listed THEN 1 ELSE 0)
      BY <1>1, <2>1 DEF RefsBalanced, Registering
    <3>3. refs'[d] = IF d \in listed THEN refs[d] - 1 ELSE refs[d]
      BY <2>3, <3>1
    <3> QED
      BY <1>2, <3>1, <3>2, <3>3
  <2>4. Running' => RefsBalanced'
    <3> SUFFICES ASSUME Running', NEW d \in Adb PROVE refs'[d] + 0 = 2 * opens'[d] + 0
      BY <2>1 DEF RefsBalanced, Registering
    <3>1. refs'[d] = 2 * opens'[d]
      BY <1>5, <2>3 DEF FreeList, Undefined, Running
    <3>2. opens'[d] \in Nat
      BY <1>0, <1>2
    <3> QED
      BY <3>1, <3>2
  <2> QED
    BY <2>2, <2>4 DEF RefsBalanced
<1>6. CASE already_registered
  <2>1. /\ UNCHANGED <<refs, listed, dev>> /\ at[Poll] = "find"
        /\ at'[Poll] \in {"find", "open", "device"}
    BY <1>1, <1>6 DEF already_registered, Goto, Types
  <2> QED
    BY <1>1, <1>2, <2>1, OwnKept DEF Registering, Unlisted, Kicking
<1> QED
  BY <1>3, <1>4, <1>5, <1>6 DEF Scan

\* Probing takes two references for the handle it registers, the second one
\* late; what fails gives everything back.
LEMMA OwnProbed ==
  ASSUME HInv, Inv, Running, Probe
  PROVE  Owned' /\ RefsBalanced'
<1>1. TypeOK /\ Owned /\ RefsBalanced /\ Types /\ Fresh /\ Poll \in 0 .. N
  BY Numbers DEF HInv, Inv, Poll
<1>0. /\ MaxOpen \in Nat /\ Adb \subseteq Devices /\ addr \in [Handles -> 0 .. MaxPlugs]
      /\ opens \in [Devices -> 0 .. MaxOpen] /\ refs \in [Devices -> Nat]
  BY <1>1, HotplugAssumption DEF TypeOK
<1>2. UNCHANGED <<listed, dev>>
  BY DEF Probe, pollVars
<1>3. CASE ProbeFails
  <2>1. at[Poll] = "open" /\ at'[Poll] = "device"
    BY <1>1, <1>3 DEF ProbeFails, Goto, Types
  <2> QED
    BY <1>1, <1>2, <1>3, <2>1, OwnKept DEF ProbeFails, usbVars, handleVars,
       Registering, Unlisted, Kicking
<1>4. CASE ProbeOdd
  <2>1. at[Poll] = "open" /\ at'[Poll] = "device" /\ dev \notin Adb
    BY <1>1, <1>4 DEF ProbeOdd, Goto, Types
  <2>2. /\ UNCHANGED <<live, addr, claimed>>
        /\ \A d \in Adb : opens'[d] = opens[d] /\ refs'[d] = refs[d]
    BY <1>0, <1>4, <2>1 DEF ProbeOdd, handleVars
  <2>3. Owned'
    BY <1>1, <2>1, <2>2 DEF Owned, Kicking
  <2>4. RefsBalanced'
    BY <1>1, <1>2, <2>1, <2>2 DEF RefsBalanced, Registering
  <2> QED
    BY <2>3, <2>4
<1>5. CASE ProbeAdb
  <2>1. /\ at[Poll] = "open" /\ at'[Poll] = "link"
        /\ dev \in Adb /\ dev \notin claimed /\ dev \in Devices
    BY <1>0, <1>1, <1>5 DEF ProbeAdb, Goto, Types
  <2>2. /\ used' \in Handles /\ used' \notin live /\ live \subseteq Handles
        /\ live' = live \cup {used'} /\ claimed' = claimed \cup {dev}
    <3>1. N \in Nat /\ used \in 0 .. N /\ used < N /\ used' = used + 1
      BY <1>1, <1>5, Numbers DEF ProbeAdb, Types
    <3>2. used' \notin live
      BY <1>1, <3>1 DEF Types
    <3> QED
      BY <1>1, <1>5, <3>1, <3>2, LiveAreHandles DEF ProbeAdb, Handles
  <2>3. addr'[used'] = dev /\ \A g \in live : addr'[g] = addr[g]
    BY <1>0, <1>5, <2>2 DEF ProbeAdb
  <2>4. /\ opens'[dev] = opens[dev] + 1 /\ refs'[dev] = refs[dev] + 1
        /\ \A d \in Adb : d # dev => opens'[d] = opens[d] /\ refs'[d] = refs[d]
        /\ refs[dev] \in Nat /\ opens[dev] = 0
    BY <1>0, <1>1, <1>5, <2>1 DEF ProbeAdb, Owned
  <2>5. Owned'
    <3>1. \A h \in live' : addr'[h] \in claimed'
      BY <1>1, <2>2, <2>3 DEF Owned
    <3>2. \A g, h \in live' : addr'[g] = addr'[h] => g = h
      BY <1>1, <2>1, <2>2, <2>3 DEF Owned
    <3>3. \A d \in claimed' : d \in Adb /\ \E h \in live' : addr'[h] = d
      BY <1>1, <2>1, <2>2, <2>3 DEF Owned
    <3>4. \A d \in Adb : opens'[d] = IF d \in claimed' THEN 1 ELSE 0
      BY <1>1, <2>1, <2>2, <2>4 DEF Owned
    <3> QED
      BY <2>1, <3>1, <3>2, <3>3, <3>4 DEF Owned, Kicking
  <2>6. RefsBalanced'
    <3> SUFFICES ASSUME NEW d \in Adb
                 PROVE  refs'[d] + (IF dev = d THEN 1 ELSE 0)
                          = 2 * opens'[d] + (IF d \in listed THEN 1 ELSE 0)
      BY <1>2, <2>1 DEF RefsBalanced, Registering
    <3>1. refs[d] + 0 = 2 * opens[d] + (IF d \in listed THEN 1 ELSE 0)
      BY <1>1, <2>1 DEF RefsBalanced, Registering
    <3>2. refs[d] \in Nat /\ opens[d] \in Nat
      BY <1>0
    <3> QED
      BY <2>1, <2>4, <3>1, <3>2
  <2> QED
    BY <2>5, <2>6
<1>6. CASE Link
  <2>1. UNCHANGED <<live, addr, opens, refs, claimed>>
    BY <1>6 DEF Link, usbVars
  <2>2. /\ at[Poll] \in Linking
        /\ at'[Poll] \in Linking
    BY <1>1, <1>6 DEF Link, Goto, Types, Linking
  <2> QED
    BY <1>1, <1>2, <2>1, <2>2, OwnKept DEF Linking, Registering, Unlisted, Kicking
<1>7. CASE register_usb_transport
  <2>1. used # Poll
    BY <1>1, <1>7 DEF register_usb_transport, Fresh, Linking, Types, Poll
  <2>2. at[Poll] = "register" /\ at'[Poll] = "ref"
    BY <1>1, <1>7, <2>1 DEF register_usb_transport, Types
  <2>3. UNCHANGED <<live, addr, opens, refs, claimed>>
    BY <1>7 DEF register_usb_transport, usbVars, handleVars
  <2> QED
    BY <1>1, <1>2, <2>2, <2>3, OwnKept DEF Registering, Unlisted, Kicking
<1>8. CASE RefDevice
  <2>1. UNCHANGED <<live, addr, opens, claimed>> /\ at[Poll] = "ref"
    BY <1>8 DEF RefDevice, handleVars
  <2>2. CASE UNCHANGED <<refs, at>>
    BY <1>1, <1>2, <2>1, <2>2, OwnKept
  <2>3. CASE refs' = [refs EXCEPT ![dev] = @ + 1] /\ Goto(Poll, "device")
    <3>1. at'[Poll] = "device"
      BY <1>1, <2>3 DEF Goto, Types
    <3>2. Owned'
      BY <1>1, <2>1, <3>1 DEF Owned, Kicking
    <3>3. RefsBalanced'
      <4> SUFFICES ASSUME NEW d \in Adb
                   PROVE  refs'[d] + 0 = 2 * opens'[d] + (IF d \in listed THEN 1 ELSE 0)
        BY <1>2, <3>1 DEF RefsBalanced, Registering
      <4>1. refs[d] + (IF dev = d THEN 1 ELSE 0)
              = 2 * opens[d] + (IF d \in listed THEN 1 ELSE 0)
        BY <1>1, <2>1 DEF RefsBalanced, Registering
      <4>2. refs[d] \in Nat /\ opens[d] \in Nat /\ d \in Devices
        BY <1>0
      <4>3. refs'[d] = (IF dev = d THEN refs[d] + 1 ELSE refs[d]) /\ opens'[d] = opens[d]
        BY <1>0, <2>1, <2>3, <4>2
      <4> QED
        BY <4>1, <4>2, <4>3
    <3> QED
      BY <3>2, <3>3
  <2> QED
    BY <1>8, <2>2, <2>3 DEF RefDevice
<1> QED
  BY <1>3, <1>4, <1>5, <1>6, <1>7, <1>8 DEF Probe

\* Every step of every thread, of the user and of the bus keeps the accounts.
LEMMA StepHInv == Inv /\ HInv /\ [Next]_vars => HInv'
<1> SUFFICES ASSUME Inv, HInv, [Next]_vars PROVE HInv'
  OBVIOUS
<1>1. CASE UNCHANGED vars
  <2> USE DEF vars, worldVars, usbVars, handleVars, pollVars, watchVars, clientVars
  <2>1. TypeOK'
    <3>1. Types /\ Counts /\ Links /\ Clients
      BY DEF HInv, Inv, TypeOK, Counts, Links, Clients
    <3>2. Types' /\ Counts' /\ Links' /\ Clients'
      <4>1. Types' /\ Counts'
        BY <1>1, <3>1 DEF Types, Counts
      <4>2. Links'
        BY <1>1, <3>1 DEF Links
      <4>3. Clients'
        BY <1>1, <3>1 DEF Clients
      <4> QED
        BY <4>1, <4>2, <4>3
    <3> QED
      BY <3>2 DEF TypeOK, Types, Counts, Links, Clients, Places, Kicking, Linking
  <2>2. Running => Owned' /\ RefsBalanced'
    BY <1>1 DEF HInv, Owned, RefsBalanced, Running
  <2> QED
    BY <1>1, <2>1, <2>2 DEF HInv, Running
<1>2. CASE Next
  <2>1. Running
    BY <1>2 DEF Next, World, PollStep, WatchStep, MainStep, StdinStep, OutputStep
  <2>2. TypeOK'
    BY <1>2, <2>1, TypeStep
  <2>3. TypeOK /\ Owned /\ RefsBalanced /\ Types /\ Poll \in 0 .. N
    BY <2>1, Numbers DEF HInv, Inv, Poll
  <2>4. CASE World \/ WatchStep \/ MainStep \/ StdinStep
    <3>1. UNCHANGED <<live, addr, opens, refs, claimed, listed, dev, at>>
      BY <2>4 DEF World, WatchStep, MainStep, StdinStep, usbVars, handleVars, pollVars
    <3> QED
      BY <2>1, <2>2, <2>3, <3>1, OwnKept DEF HInv
  <2>5. CASE \E h \in Handles : OutputStep(h)
    <3>1. PICK h \in Handles : OutputStep(h)
      BY <2>5
    <3>2. h \in 0 .. N /\ h # Poll /\ UNCHANGED <<used, addr, listed, dev>>
      BY <3>1, Numbers DEF Handles, Poll, OutputStep, pollVars
    <3>3. CASE usb_kick(h)
      BY <2>1, <2>2, <3>2, <3>3, OwnKicked DEF HInv
    <3>4. CASE ReadFails(h)
      <4>1. UNCHANGED <<live, opens, refs, claimed>> /\ at'[Poll] = at[Poll]
        BY <2>3, <3>2, <3>4 DEF ReadFails, Goto, Types, usbVars
      <4> QED
        BY <2>1, <2>2, <2>3, <3>2, <4>1, OwnKept DEF HInv
    <3> QED
      BY <3>1, <3>3, <3>4 DEF OutputStep
  <2>6. CASE PollStep
    <3>1. CASE Scan \/ Probe
      BY <2>1, <2>2, <3>1, OwnScanned, OwnProbed DEF HInv
    <3>2. CASE kick_disconnected
      <4>1. UNCHANGED <<used, addr, listed, dev>>
        BY <3>2 DEF kick_disconnected
      <4>2. CASE usb_kick(Poll)
        BY <2>1, <2>2, <2>3, <4>1, <4>2, OwnKicked DEF HInv
      <4>3. CASE (Wake \/ CheckConnected \/ NextHandle) /\ UNCHANGED <<usbVars, live>>
        <5>1. /\ at[Poll] \in Unlisted \ Registering
              /\ at'[Poll] \in Unlisted \cup {"unregister"}
              /\ at'[Poll] \notin Registering
          BY <2>3, <4>3 DEF Wake, CheckConnected, NextHandle, Goto, Types, Unlisted,
             Kicking, Registering
        <5> QED
          BY <2>1, <2>2, <2>3, <4>1, <4>3, <5>1, OwnKept DEF HInv, usbVars
      <4> QED
        BY <3>2, <4>2, <4>3 DEF kick_disconnected
    <3> QED
      BY <2>6, <3>1, <3>2 DEF PollStep
  <2> QED
    BY <1>2, <2>4, <2>5, <2>6 DEF Next
<1> QED
  BY <1>1, <1>2

\* One handle at most stands for a device, so the devices' accounts count it.
LEMMA AccountsOK == HInv => HandlesOK
<1> SUFFICES ASSUME HInv PROVE HandlesOK
  OBVIOUS
<1>1. ASSUME Running, NEW d \in Adb
      PROVE  /\ opens[d] = Cardinality({h \in live : addr[h] = d})
             /\ d \in claimed <=> \E h \in live : addr[h] = d
  <2>1. Owned
    BY <1>1 DEF HInv
  <2> DEFINE Of == {h \in live : addr[h] = d}
  <2>2. d \in claimed <=> \E h \in live : addr[h] = d
    BY <2>1 DEF Owned
  <2>3. CASE d \in claimed
    <3>1. PICK h \in live : addr[h] = d
      BY <2>2, <2>3
    <3>2. Of = {h}
      BY <2>1, <3>1 DEF Owned
    <3>3. Cardinality(Of) = 1
      BY <3>2, FS_Singleton
    <3> QED
      BY <2>1, <2>2, <2>3, <3>3 DEF Owned
  <2>4. CASE d \notin claimed
    <3>1. Of = {}
      BY <2>2, <2>4
    <3>2. Cardinality(Of) = 0
      BY <3>1, FS_EmptySet
    <3> QED
      BY <2>1, <2>2, <2>4, <3>2 DEF Owned
  <2> QED
    BY <2>3, <2>4
<1>2. HandlesOwnDevices
  BY <1>1 DEF HandlesOwnDevices
<1> QED
  BY <1>2 DEF HInv, HandlesOK, RefsBalanced

\* Whatever fails, is unplugged or kicked, what libusb holds for an adb device
\* is what its handle accounts for: no open, claim or reference is given back
\* twice or lost (usb_libusb.c 229-247, 378-544).
THEOREM HandlesBalance == Spec => []HandlesOK
<1> QED
  BY InitInv, StepInv, InitHInv, StepHInv, AccountsOK, PTL DEF Spec
-----------------------------------------------------------------------------
(* Counting *)

\* The count of o in something indexed by numbers up to n is a number, and 0
\* when o does not occur.
LEMMA CountNat ==
  ASSUME NEW n \in Nat, NEW s, DOMAIN s = 1 .. n, NEW o
  PROVE  /\ Count(s, o) \in Nat
         /\ IsFiniteSet({i \in 1 .. n : s[i] = o})
         /\ (\E i \in 1 .. n : s[i] = o) => Count(s, o) >= 1
         /\ (\A i \in 1 .. n : s[i] # o) => Count(s, o) = 0
<1> DEFINE C == {i \in 1 .. n : s[i] = o}
<1>1. IsFiniteSet(1 .. n) /\ C \in SUBSET (1 .. n)
  BY FS_Interval
<1>2. IsFiniteSet(C) /\ Cardinality(C) \in Nat
  BY <1>1, FS_Subset, FS_CardinalityType
<1>3. Count(s, o) = Cardinality(C)
  BY DEF Count
<1>4. Cardinality(C) = 0 <=> C = {}
  BY <1>2, FS_EmptySet
<1>5. (\A i \in 1 .. n : s[i] # o) => C = {}
  OBVIOUS
<1>6. (\E i \in 1 .. n : s[i] = o) => C # {}
  OBVIOUS
<1> HIDE DEF C
<1>7. (\E i \in 1 .. n : s[i] = o) => Cardinality(C) # 0
  BY <1>4, <1>6
<1>8. (\A i \in 1 .. n : s[i] # o) => Cardinality(C) = 0
  BY <1>4, <1>5
<1> QED
  BY <1>2, <1>3, <1>7, <1>8 DEF C

\* The same of a sequence.
LEMMA CountSeq ==
  ASSUME NEW S, NEW s \in Seq(S), NEW o
  PROVE  /\ Count(s, o) \in Nat
         /\ o \in Range(s) => Count(s, o) >= 1
         /\ o \notin Range(s) => Count(s, o) = 0
<1>1. DOMAIN s = 1 .. Len(s) /\ Len(s) \in Nat
  BY LenProperties
<1>2. o \in Range(s) <=> \E i \in 1 .. Len(s) : s[i] = o
  BY <1>1 DEF Range
<1> QED
  BY <1>1, <1>2, CountNat

\* Of short sequences.
LEMMA CountShort ==
  ASSUME NEW o, NEW x
  PROVE  /\ Count(<<>>, o) = 0
         /\ Count(<<x>>, o) = IF x = o THEN 1 ELSE 0
<1>1. Count(<<>>, o) = 0
  <2>1. {i \in DOMAIN <<>> : <<>>[i] = o} = {}
    OBVIOUS
  <2> QED
    BY <2>1, FS_EmptySet DEF Count
<1>2. CASE x = o
  <2>1. {i \in DOMAIN <<x>> : <<x>>[i] = o} = {1}
    BY <1>2
  <2>2. Cardinality({1}) = 1
    BY FS_Singleton
  <2> QED
    BY <1>1, <1>2, <2>1, <2>2 DEF Count
<1>3. CASE x # o
  <2>1. {i \in DOMAIN <<x>> : <<x>>[i] = o} = {}
    BY <1>3
  <2> QED
    BY <1>1, <1>3, <2>1, FS_EmptySet DEF Count
<1> QED
  BY <1>2, <1>3

\* One element more.
LEMMA CountAppend ==
  ASSUME NEW S, NEW s \in Seq(S), NEW x \in S, NEW o
  PROVE  Count(Append(s, x), o) = Count(s, o) + (IF x = o THEN 1 ELSE 0)
<1> DEFINE n == Len(s)
           A == {i \in 1 .. n : s[i] = o}
           B == {i \in 1 .. n + 1 : Append(s, x)[i] = o}
<1>1. /\ n \in Nat /\ DOMAIN s = 1 .. n
      /\ DOMAIN Append(s, x) = 1 .. n + 1
      /\ \A i \in 1 .. n : Append(s, x)[i] = s[i]
      /\ Append(s, x)[n + 1] = x
  <2>1. Append(s, x) \in Seq(S) /\ Len(Append(s, x)) = n + 1
    BY AppendProperties
  <2> QED
    BY <2>1, AppendProperties, LenProperties
<1>2. Count(s, o) = Cardinality(A) /\ Count(Append(s, x), o) = Cardinality(B)
  BY <1>1 DEF Count
<1>3. IsFiniteSet(A) /\ Cardinality(A) \in Nat
  BY <1>1, <1>2, CountNat
<1>4. n + 1 \notin A
  BY <1>1
<1> HIDE DEF n
<1>5. CASE x = o
  <2>1. B = A \cup {n + 1}
    BY <1>1, <1>5
  <2> HIDE DEF A, B
  <2>2. Cardinality(B) = Cardinality(A) + 1
    BY <1>3, <1>4, <2>1, FS_AddElement
  <2> QED
    BY <1>2, <1>3, <1>5, <2>2
<1>6. CASE x # o
  <2>1. B = A
    BY <1>1, <1>6
  <2> HIDE DEF A, B
  <2> QED
    BY <1>2, <1>3, <1>6, <2>1
<1> QED
  BY <1>5, <1>6

\* One element more in front, and what that says of the tail.
LEMMA CountTail ==
  ASSUME NEW S, NEW s \in Seq(S), s # <<>>, NEW o
  PROVE  Count(s, o) = Count(Tail(s), o) + (IF Head(s) = o THEN 1 ELSE 0)
<1> DEFINE n == Len(s)
           A == {i \in 1 .. n : s[i] = o}
           R == A \ {1}
           B == {i \in 1 .. n - 1 : Tail(s)[i] = o}
           f == [i \in B |-> i + 1]
<1>1. /\ n \in Nat /\ n >= 1 /\ DOMAIN s = 1 .. n
      /\ DOMAIN Tail(s) = 1 .. n - 1
      /\ \A i \in 1 .. n - 1 : Tail(s)[i] = s[i + 1]
      /\ s[1] = Head(s)
  <2>1. Tail(s) \in Seq(S) /\ Len(Tail(s)) = n - 1
    BY HeadTailProperties
  <2>2. n \in Nat \ {0}
    BY EmptySeq
  <2> QED
    BY <2>1, <2>2, HeadTailProperties, LenProperties
<1>2. Count(s, o) = Cardinality(A) /\ Count(Tail(s), o) = Cardinality(B)
  BY <1>1 DEF Count
<1>3. IsFiniteSet(A) /\ IsFiniteSet(B) /\ Cardinality(A) \in Nat /\ Cardinality(B) \in Nat
  <2>1. n - 1 \in Nat
    BY <1>1
  <2>2. IsFiniteSet({i \in 1 .. n : s[i] = o}) /\ Count(s, o) \in Nat
    <3>1. PICK k : k = n
      OBVIOUS
    <3>2. k \in Nat /\ DOMAIN s = 1 .. k
      BY <1>1, <3>1
    <3>3. IsFiniteSet({i \in 1 .. k : s[i] = o}) /\ Count(s, o) \in Nat
      BY <3>2, CountNat, ZenonT(30)
    <3> QED
      BY <3>1, <3>3
  <2>3. PICK k : k = n - 1
    OBVIOUS
  <2>4. k \in Nat /\ DOMAIN Tail(s) = 1 .. k
    BY <1>1, <2>1, <2>3
  <2>5. IsFiniteSet({i \in 1 .. k : Tail(s)[i] = o}) /\ Count(Tail(s), o) \in Nat
    BY <2>4, CountNat, ZenonT(30)
  <2> QED
    BY <1>2, <2>2, <2>3, <2>5
<1> HIDE DEF n
<1>4. Cardinality(R) = Cardinality(B)
  <2>1. f \in [B -> R]
    BY <1>1
  <2>2. \A i, j \in B : f[i] = f[j] => i = j
    BY <1>1
  <2>3. \A r \in R : \E i \in B : f[i] = r
    <3> SUFFICES ASSUME NEW r \in R PROVE \E i \in B : f[i] = r
      OBVIOUS
    <3>1. r - 1 \in 1 .. n - 1 /\ r - 1 + 1 = r /\ s[r] = o
      BY <1>1
    <3>2. r - 1 \in B
      BY <1>1, <3>1
    <3>3. f[r - 1] = r
      BY <3>1, <3>2
    <3> QED
      BY <3>2, <3>3
  <2> HIDE DEF f, B, R
  <2>4. f \in Bijection(B, R)
    BY <2>1, <2>2, <2>3 DEF Bijection, Injection, Surjection, IsInjective
  <2>5. ExistsBijection(B, R)
    BY <2>4 DEF ExistsBijection
  <2> QED
    BY <1>3, <2>5, FS_Bijection
<1>5. 1 \in A <=> Head(s) = o
  BY <1>1
<1>6. Cardinality(R) = IF 1 \in A THEN Cardinality(A) - 1 ELSE Cardinality(A)
  <2> HIDE DEF A
  <2> QED
    BY <1>3, FS_RemoveElement
<1> HIDE DEF A, B, R
<1>7. CASE Head(s) = o
  BY <1>2, <1>3, <1>4, <1>5, <1>6, <1>7
<1>8. CASE Head(s) # o
  BY <1>2, <1>3, <1>4, <1>5, <1>6, <1>8
<1> QED
  BY <1>7, <1>8

\* 1 where a reference is one to o.
Is(x, o) == IF x = o THEN 1 ELSE 0

\* One entry of a table changes.
LEMMA CountSet ==
  ASSUME NEW n \in Nat, NEW f, NEW g, NEW i \in 1 .. n, NEW v, NEW o,
         DOMAIN f = 1 .. n, DOMAIN g = 1 .. n,
         g[i] = v, \A j \in 1 .. n : j # i => g[j] = f[j]
  PROVE  Count(g, o) = Count(f, o) - Is(f[i], o) + Is(v, o)
<1> DEFINE A == {j \in 1 .. n : f[j] = o}
           B == {j \in 1 .. n : g[j] = o}
           R == A \ {i}
<1>2. Count(f, o) = Cardinality(A) /\ Count(g, o) = Cardinality(B)
  BY DEF Count
<1>3. IsFiniteSet(A) /\ Cardinality(A) \in Nat
  BY <1>2, CountNat
<1>4. B = IF v = o THEN R \cup {i} ELSE R
  OBVIOUS
<1>5. i \notin R /\ (i \in A <=> f[i] = o)
  OBVIOUS
<1> HIDE DEF A, B
<1>6. IsFiniteSet(R) /\ Cardinality(R) = IF i \in A THEN Cardinality(A) - 1 ELSE Cardinality(A)
  BY <1>3, FS_RemoveElement
<1> HIDE DEF R
<1>7. Cardinality(R) \in Nat
  BY <1>6, FS_CardinalityType
<1>8. Cardinality(R \cup {i}) = Cardinality(R) + 1
  BY <1>5, <1>6, FS_AddElement
<1>9. Cardinality(B) = Cardinality(R) + (IF v = o THEN 1 ELSE 0)
  <2>1. CASE v = o
    BY <1>4, <1>8, <2>1
  <2>2. CASE v # o
    BY <1>4, <1>7, <2>2
  <2> QED
    BY <2>1, <2>2
<1>10. Cardinality(R) = Cardinality(A) - (IF f[i] = o THEN 1 ELSE 0)
  <2>1. CASE f[i] = o
    BY <1>3, <1>5, <1>6, <2>1
  <2>2. CASE f[i] # o
    BY <1>3, <1>5, <1>6, <2>2
  <2> QED
    BY <2>1, <2>2
<1>11. Count(g, o) = Count(f, o) - (IF f[i] = o THEN 1 ELSE 0) + (IF v = o THEN 1 ELSE 0)
  BY <1>2, <1>3, <1>9, <1>10
<1> QED
  BY <1>11 DEF Is

\* The elements of disjoint finite sets of pairs, counted by their first parts.
Total(n) == Cardinality(UNION {{t} \X (1 .. n[t]) : t \in Threads})

\* A sum in which one number changes.
LEMMA TotalStep ==
  ASSUME NEW n \in [Threads -> Nat], NEW t \in Threads, IsFiniteSet(Threads)
  PROVE  /\ Total(n) \in Nat /\ Total(n) >= n[t]
         /\ \A m \in [Threads -> Nat] :
              (\A u \in Threads : u # t => m[u] = n[u]) => Total(m) = Total(n) - n[t] + m[t]
<1> DEFINE Part(m, u) == {u} \X (1 .. m[u])
           Rest(m) == UNION {Part(m, u) : u \in Threads \ {t}}
<1>1. ASSUME NEW m \in [Threads -> Nat], NEW u \in Threads
      PROVE  IsFiniteSet(Part(m, u)) /\ Cardinality(Part(m, u)) = m[u]
  <2>1. m[u] \in Nat /\ IsFiniteSet(1 .. m[u]) /\ Cardinality(1 .. m[u]) = m[u]
    BY FS_Interval
  <2>2. IsFiniteSet({u}) /\ Cardinality({u}) = 1
    BY FS_Singleton
  <2>3. /\ IsFiniteSet(Part(m, u))
        /\ Cardinality(Part(m, u)) = Cardinality({u}) * Cardinality(1 .. m[u])
    BY <2>1, <2>2, FS_Product
  <2> QED
    BY <2>1, <2>2, <2>3
<1>2. ASSUME NEW m \in [Threads -> Nat]
      PROVE  IsFiniteSet(Rest(m))
  <2> DEFINE parts == {Part(m, u) : u \in Threads \ {t}}
  <2>1. IsFiniteSet(Threads \ {t})
    BY FS_RemoveElement
  <2>2. IsFiniteSet(parts)
    <3> DEFINE g == [u \in Threads \ {t} |-> Part(m, u)]
    <3>1. g \in [Threads \ {t} -> parts] /\ \A p \in parts : \E u \in Threads \ {t} : g[u] = p
      OBVIOUS
    <3> HIDE DEF g, parts
    <3>2. g \in Surjection(Threads \ {t}, parts)
      BY <3>1 DEF Surjection
    <3> QED
      BY <2>1, <3>2, FS_Surjection
  <2>3. \A p \in parts : IsFiniteSet(p)
    BY <1>1
  <2> HIDE DEF parts
  <2>4. IsFiniteSet(UNION parts)
    BY <2>2, <2>3, FS_UNION
  <2> QED
    BY <2>4 DEF parts
<1>3. ASSUME NEW m \in [Threads -> Nat]
      PROVE  Total(m) = Cardinality(Rest(m)) + m[t] /\ Cardinality(Rest(m)) \in Nat
  <2>1. UNION {{u} \X (1 .. m[u]) : u \in Threads} = Rest(m) \cup Part(m, t)
    OBVIOUS
  <2>2. Rest(m) \cap Part(m, t) = {}
    OBVIOUS
  <2>3. IsFiniteSet(Part(m, t)) /\ Cardinality(Part(m, t)) = m[t] /\ IsFiniteSet(Rest(m))
    BY <1>1, <1>2
  <2>4. m[t] \in Nat
    OBVIOUS
  <2> HIDE DEF Rest, Part
  <2>5. Cardinality(Rest(m)) \in Nat
    BY <2>3, FS_CardinalityType
  <2>6. Cardinality(Rest(m) \cup Part(m, t)) =
          Cardinality(Rest(m)) + Cardinality(Part(m, t)) - Cardinality(Rest(m) \cap Part(m, t))
    BY <2>3, FS_Union
  <2>7. Cardinality(Rest(m) \cap Part(m, t)) = 0
    BY <2>2, FS_EmptySet
  <2>8. Total(m) = Cardinality(Rest(m) \cup Part(m, t))
    BY <2>1, Zenon DEF Total
  <2> QED
    BY <2>3, <2>4, <2>5, <2>6, <2>7, <2>8
<1>4. ASSUME NEW m \in [Threads -> Nat], \A u \in Threads : u # t => m[u] = n[u]
      PROVE  Rest(m) = Rest(n)
  <2>1. \A u \in Threads \ {t} : Part(m, u) = Part(n, u)
    BY <1>4
  <2> HIDE DEF Part
  <2> QED
    BY <2>1
<1> HIDE DEF Rest
<1>5. n[t] \in Nat /\ Total(n) = Cardinality(Rest(n)) + n[t] /\ Cardinality(Rest(n)) \in Nat
  BY <1>3
<1>6. ASSUME NEW m \in [Threads -> Nat], \A u \in Threads : u # t => m[u] = n[u]
      PROVE  Total(m) = Total(n) - n[t] + m[t]
  <2>1. m[t] \in Nat /\ Total(m) = Cardinality(Rest(m)) + m[t]
    BY <1>3
  <2>2. Rest(m) = Rest(n)
    BY <1>4, <1>6
  <2> QED
    BY <1>5, <2>1, <2>2
<1>7. Total(n) \in Nat /\ Total(n) >= n[t]
  BY <1>5
<1> QED
  BY <1>6, <1>7
-----------------------------------------------------------------------------
(* The accounts of references and files, for any number of threads *)

\* Places at which references are given back, and the place a thread is at or
\* will go on from.
Giving == {"unref", "destroy"}
Toward(t) == IF pc[t] \in Giving THEN then[t] ELSE pc[t]
InScan(t) == Toward(t) # "idle"

\* Places at which a new device is made, and those at which a name was read.
Building == {"init", "open", "active", "read", "sanitize"}
Reading == {"stat", "busnum", "devnum", "lookup", "alloc", "append"} \cup Building

\* What belongs to each place of a thread.
Shape ==
    \A t \in Threads :
        /\ pc[t] \in Giving <=> drop[t] # <<>>
        /\ InScan(t) => t \in Scanners /\ lists[t] = <<>>
        /\ ~InScan(t) => scan[t] = NoScan
        /\ pc[t] \in Building => scan[t].fresh
        /\ scan[t].fresh => pc[t] \in Building \cup {"append"}

\* The device a scan is at was made, and is the one whose name was read.
Current ==
    \A t \in Threads : pc[t] \in Building \cup {"append"} =>
        /\ scan[t].cur \in Objs
        /\ ldev[scan[t].cur].state # "none" /\ ldev[scan[t].cur].addr = scan[t].at

\* Every count is right, that of a freed device too, and no device that was
\* never made is on the list.
Counted ==
    \A o \in Objs :
        /\ ldev[o].refcnt = Holders(o)
        /\ ldev[o].state = "none" => ldev[o] = NoDev
        /\ o \in Range(usb_devs) => ldev[o].state # "none"
        /\ ldev[o].state = "live" =>
             /\ o \in Range(usb_devs)
             /\ ldev[o].refcnt = 0 => \E t \in Threads : pc[t] = "destroy" /\ Head(drop[t]) = o

\* The inductive invariant of the accounts.
DevInv == DevicesTypes /\ Shape /\ Current /\ Counted /\ FilesClosed

\* The addresses of the devices in s.
AddrsOf(s) == {ldev[o].addr : o \in Range(s)}

\* A scan that has not failed has found, or will still come to, what was there
\* all the time; so has the list it became.
Covers ==
    \A t \in Threads :
        /\ steady[t] \subseteq plugged
        /\ Toward(t) \in {"next", "done"} \cup Reading =>
             steady[t] \subseteq AddrsOf(scan[t].devs) \cup scan[t].todo
                                   \cup (IF pc[t] \in Reading THEN {scan[t].at} ELSE {})
        /\ pc[t] = "done" => scan[t].todo = {}
        /\ ~InScan(t) /\ result[t] = "ok" => steady[t] \subseteq AddrsOf(lists[t])

\* The bounds are numbers, and the addresses are positive ones.
LEMMA DeviceNumbers ==
  /\ MaxDevs \in Nat /\ MaxHandles \in Nat /\ MaxScans \in Nat /\ MaxErrors \in Nat
  /\ Step \in Nat /\ Addrs \subseteq Nat \ {0} /\ Odd \subseteq Addrs
  /\ IsFiniteSet(Threads) /\ Scanners \subseteq Threads
BY DeviceBounds, ThreadsAssumption

\* The types of what belongs to a thread.
Scans == [via : {"none", "sysfs", "usbfs"}, todo : SUBSET Addrs, at : Addrs \cup {0},
          cur : Objs \cup {0}, fresh : BOOLEAN, devs : Seq(Objs), cap : Nat,
          moved : BOOLEAN, configured : BOOLEAN]
Spots == {"idle", "opendir", "next", "stat", "busnum", "devnum", "lookup", "alloc", "append",
          "init", "open", "active", "read", "sanitize", "unref", "destroy", "done", "fail"}
Devs == [addr : Addrs \cup {0}, refcnt : Nat, dir : BOOLEAN, desc : BOOLEAN,
               state : {"none", "live", "freed"}]
ThreadTypes ==
  /\ lists \in [Threads -> Seq(Objs)] /\ scan \in [Threads -> Scans]
  /\ drop \in [Threads -> Seq(Objs)] /\ then \in [Threads -> {"idle", "next", "fail"}]
  /\ pc \in [Threads -> Spots] /\ result \in [Threads -> {"none", "ok", "error"}]

\* What a thread has.
View(t) == <<pc[t], drop[t], then[t], scan[t], lists[t], result[t]>>
Others(t) == \A u \in Threads : u # t => View(u)' = View(u)

\* GiveBack changes these alone.
LEMMA GiveBackIs ==
  ASSUME ThreadTypes, NEW t \in Threads, NEW s \in Seq(Objs),
         NEW place \in {"idle", "next", "fail"}, GiveBack(t, s, place)
  PROVE  /\ drop' \in [Threads -> Seq(Objs)] /\ then' \in [Threads -> {"idle", "next", "fail"}]
         /\ pc' \in [Threads -> Spots]
         /\ drop'[t] = s
         /\ Toward(t)' = place /\ (pc'[t] \in Giving <=> drop'[t] # <<>>)
         /\ pc'[t] \in {"unref", place} /\ (pc'[t] = place <=> drop'[t] = <<>>)
         /\ \A u \in Threads : u # t => pc'[u] = pc[u] /\ drop'[u] = drop[u] /\ then'[u] = then[u]
<1>1. /\ drop' = [drop EXCEPT ![t] = s] /\ then' = [then EXCEPT ![t] = place]
      /\ pc' = [pc EXCEPT ![t] = IF s = <<>> THEN place ELSE "unref"]
  BY DEF GiveBack, MoveTo
<1>2. /\ drop \in [Threads -> Seq(Objs)] /\ then \in [Threads -> {"idle", "next", "fail"}]
      /\ pc \in [Threads -> Spots]
  BY DEF ThreadTypes
<1>3. /\ drop' \in [Threads -> Seq(Objs)] /\ then' \in [Threads -> {"idle", "next", "fail"}]
      /\ pc' \in [Threads -> Spots]
  BY <1>1, <1>2 DEF Spots
<1>4. /\ drop'[t] = s /\ then'[t] = place
      /\ pc'[t] = IF s = <<>> THEN place ELSE "unref"
      /\ \A u \in Threads : u # t => pc'[u] = pc[u] /\ drop'[u] = drop[u] /\ then'[u] = then[u]
  BY <1>1, <1>2
<1>5. Toward(t)' = place /\ (pc'[t] \in Giving <=> drop'[t] # <<>>)
  BY <1>4 DEF Toward, Giving
<1> QED
  BY <1>3, <1>4, <1>5

\* A step of t to place, without references to give back.
Moved(t, place) ==
  /\ pc'[t] = place /\ drop'[t] = drop[t] /\ then'[t] = then[t]
  /\ Toward(t)' = place

\* t gives back the references of s on its way to place.
Giving_Back(t, s, place) ==
  /\ drop'[t] = s /\ Toward(t)' = place
  /\ pc'[t] \in {"unref", place} /\ (pc'[t] = place <=> drop'[t] = <<>>)
  /\ pc'[t] \in Giving <=> drop'[t] # <<>>

\* The locals of the scan that matter here, but for those that are named.
Same(t, names) ==
  /\ "via" \notin names => scan'[t].via = scan[t].via
  /\ "todo" \notin names => scan'[t].todo = scan[t].todo
  /\ "at" \notin names => scan'[t].at = scan[t].at
  /\ "cur" \notin names => scan'[t].cur = scan[t].cur
  /\ "fresh" \notin names => scan'[t].fresh = scan[t].fresh
  /\ "devs" \notin names => scan'[t].devs = scan[t].devs

\* The scan of t goes on at place, and nothing else changes for t.
Passing(t, place) == Moved(t, place) /\ Same(t, {})

\* The scan of t has failed.
Failing(t) ==
  /\ Giving_Back(t, FirstRef(t), "fail")
  /\ Same(t, {"fresh"}) /\ ~scan'[t].fresh

LEMMA MoveToIs ==
  ASSUME ThreadTypes, NEW t \in Threads, NEW place \in Spots \ Giving, MoveTo(t, place),
         UNCHANGED walk
  PROVE  /\ drop' \in [Threads -> Seq(Objs)] /\ then' \in [Threads -> {"idle", "next", "fail"}]
         /\ pc' \in [Threads -> Spots]
         /\ Moved(t, place)
         /\ \A u \in Threads : u # t => pc'[u] = pc[u] /\ drop'[u] = drop[u] /\ then'[u] = then[u]
<1>1. pc' = [pc EXCEPT ![t] = place] /\ drop' = drop /\ then' = then
  BY DEF MoveTo, walk
<1>2. pc' \in [Threads -> Spots] /\ pc'[t] = place /\ \A u \in Threads : u # t => pc'[u] = pc[u]
  BY <1>1 DEF ThreadTypes
<1> QED
  BY <1>1, <1>2 DEF ThreadTypes, Moved, Toward

\* t gives up, with the device it was making.
LEMMA AbortIs ==
  ASSUME ThreadTypes, NEW t \in Threads, scan[t].fresh => scan[t].cur \in Objs, Abort(t)
  PROVE  /\ drop' \in [Threads -> Seq(Objs)] /\ then' \in [Threads -> {"idle", "next", "fail"}]
         /\ pc' \in [Threads -> Spots] /\ scan' \in [Threads -> Scans]
         /\ Failing(t)
         /\ \A u \in Threads : u # t =>
              pc'[u] = pc[u] /\ drop'[u] = drop[u] /\ then'[u] = then[u] /\ scan'[u] = scan[u]
<1>1. scan' = [scan EXCEPT ![t].fresh = FALSE] /\ GiveBack(t, FirstRef(t), "fail")
  BY DEF Abort, FirstRef
<1>2. scan \in [Threads -> Scans]
  BY DEF ThreadTypes
<1>3. /\ scan' \in [Threads -> Scans]
      /\ scan'[t].fresh = FALSE /\ scan'[t].via = scan[t].via /\ scan'[t].todo = scan[t].todo
      /\ scan'[t].at = scan[t].at /\ scan'[t].cur = scan[t].cur /\ scan'[t].devs = scan[t].devs
      /\ \A u \in Threads : u # t => scan'[u] = scan[u]
  <2>1. PICK c \in Scans : c = scan[t]
    BY <1>2
  <2>2. PICK d : d = [c EXCEPT !.fresh = FALSE]
    OBVIOUS
  <2>3. d \in Scans
    BY <2>1, <2>2 DEF Scans
  <2>4. /\ d.fresh = FALSE /\ d.via = c.via /\ d.todo = c.todo
        /\ d.at = c.at /\ d.cur = c.cur /\ d.devs = c.devs
    BY <2>1, <2>2 DEF Scans
  <2>5. scan' = [scan EXCEPT ![t] = d]
    BY <1>1, <1>2, <2>1, <2>2
  <2> QED
    BY <1>2, <2>1, <2>3, <2>4, <2>5
<1>5. FirstRef(t) \in Seq(Objs)
  BY DEF FirstRef
<1> QED
  BY <1>1, <1>3, <1>5, GiveBackIs DEF Failing, Giving_Back, Same

\* What the parts of the invariant say of t.
LEMMA ScanFacts ==
  ASSUME DevInv, NEW t \in Threads
  PROVE  /\ ThreadTypes
         /\ scan[t] \in Scans /\ pc[t] \in Spots /\ drop[t] \in Seq(Objs) /\ lists[t] \in Seq(Objs)
         /\ scan[t].devs \in Seq(Objs) /\ scan[t].todo \in SUBSET Addrs
         /\ scan[t].fresh \in BOOLEAN /\ then[t] \in {"idle", "next", "fail"}
         /\ scan[t].fresh => scan[t].cur \in Objs
         /\ pc[t] \notin Giving => drop[t] = <<>> /\ Toward(t) = pc[t]
         /\ pc[t] \in Giving => drop[t] # <<>> /\ Head(drop[t]) \in Objs /\ Toward(t) = then[t]
<1>1. ThreadTypes
  BY DEF DevInv, DevicesTypes, ThreadTypes, Scans, Spots
<1>2. /\ scan[t] \in Scans /\ pc[t] \in Spots /\ drop[t] \in Seq(Objs) /\ lists[t] \in Seq(Objs)
      /\ then[t] \in {"idle", "next", "fail"}
  BY <1>1 DEF ThreadTypes
<1>3. /\ scan[t].devs \in Seq(Objs) /\ scan[t].todo \in SUBSET Addrs
      /\ scan[t].fresh \in BOOLEAN
  BY <1>2 DEF Scans
<1>4. scan[t].fresh => scan[t].cur \in Objs
  BY DEF DevInv, Shape, Current
<1>5. pc[t] \in Giving <=> drop[t] # <<>>
  BY DEF DevInv, Shape
<1>6. drop[t] # <<>> => Head(drop[t]) \in Objs
  BY <1>2, HeadTailProperties
<1> QED
  BY <1>1, <1>2, <1>3, <1>4, <1>5, <1>6 DEF Toward

\* Only t changes, and to something of the right type.
Local(t) == ThreadTypes' /\ Others(t)

LEMMA LocalIs ==
  ASSUME NEW t \in Threads, ThreadTypes,
         /\ drop' \in [Threads -> Seq(Objs)] /\ then' \in [Threads -> {"idle", "next", "fail"}]
         /\ pc' \in [Threads -> Spots],
         \A u \in Threads : u # t => pc'[u] = pc[u] /\ drop'[u] = drop[u] /\ then'[u] = then[u],
         scan' \in [Threads -> Scans], \A u \in Threads : u # t => scan'[u] = scan[u],
         UNCHANGED <<lists, result>>
  PROVE  Local(t)
BY DEF Local, Others, View, ThreadTypes

\* A step of a scan that leaves its locals alone.
LEMMA PassIs ==
  ASSUME DevInv, NEW t \in Threads, NEW place \in Spots \ Giving, MoveTo(t, place),
         UNCHANGED <<scan, walk>>, ScanFrame
  PROVE  Local(t) /\ Passing(t, place)
<1>1. ThreadTypes
  BY ScanFacts
<1>2. UNCHANGED walk /\ scan' = scan /\ UNCHANGED <<lists, result>>
  BY DEF ScanFrame, app
<1>3. /\ drop' \in [Threads -> Seq(Objs)] /\ then' \in [Threads -> {"idle", "next", "fail"}]
      /\ pc' \in [Threads -> Spots] /\ Moved(t, place)
      /\ \A u \in Threads : u # t => pc'[u] = pc[u] /\ drop'[u] = drop[u] /\ then'[u] = then[u]
  BY <1>1, <1>2, MoveToIs
<1>4. scan' \in [Threads -> Scans]
  BY <1>1, <1>2 DEF ThreadTypes
<1> QED
  BY <1>1, <1>2, <1>3, <1>4, LocalIs DEF Passing, Same

\* One that changes them.
LEMMA ChangeIs ==
  ASSUME DevInv, NEW t \in Threads, NEW place \in Spots \ Giving, MoveTo(t, place),
         UNCHANGED walk, ScanFrame,
         scan' \in [Threads -> Scans], \A u \in Threads : u # t => scan'[u] = scan[u]
  PROVE  Local(t) /\ Moved(t, place)
<1>1. ThreadTypes
  BY ScanFacts
<1>2. UNCHANGED <<lists, result>>
  BY DEF ScanFrame, app
<1>3. /\ drop' \in [Threads -> Seq(Objs)] /\ then' \in [Threads -> {"idle", "next", "fail"}]
      /\ pc' \in [Threads -> Spots] /\ Moved(t, place)
      /\ \A u \in Threads : u # t => pc'[u] = pc[u] /\ drop'[u] = drop[u] /\ then'[u] = then[u]
  BY <1>1, MoveToIs
<1> QED
  BY <1>1, <1>2, <1>3, LocalIs

\* One that fails.
LEMMA FailIs ==
  ASSUME DevInv, NEW t \in Threads, Abort(t), ScanFrame
  PROVE  Local(t) /\ Failing(t)
<1>1. ThreadTypes /\ (scan[t].fresh => scan[t].cur \in Objs)
  BY ScanFacts
<1>2. UNCHANGED <<lists, result>>
  BY DEF ScanFrame, app
<1>3. /\ drop' \in [Threads -> Seq(Objs)] /\ then' \in [Threads -> {"idle", "next", "fail"}]
      /\ pc' \in [Threads -> Spots] /\ scan' \in [Threads -> Scans]
      /\ Failing(t)
      /\ \A u \in Threads : u # t =>
           pc'[u] = pc[u] /\ drop'[u] = drop[u] /\ then'[u] = then[u] /\ scan'[u] = scan[u]
  BY <1>1, AbortIs
<1> QED
  BY <1>1, <1>2, <1>3, LocalIs

\* The steps of the directory loops (OpenDir, ReadDir).
LEMMA OpenDirIs ==
  ASSUME DevInv, NEW t \in Threads, OpenDir(t)
  PROVE  /\ Local(t)
         /\ \/ Works /\ Moved(t, "next") /\ Same(t, {"todo"}) /\ scan'[t].todo = plugged
            \/ Fails(t) /\ Failing(t)
<1>1. CASE Works /\ scan' = [scan EXCEPT ![t].todo = plugged] /\ MoveTo(t, "next")
            /\ UNCHANGED walk
  <2>1. scan \in [Threads -> Scans] /\ plugged \in SUBSET Addrs
    BY DEF DevInv, DevicesTypes, Scans
  <2>2. /\ scan' \in [Threads -> Scans] /\ \A u \in Threads : u # t => scan'[u] = scan[u]
        /\ Same(t, {"todo"}) /\ scan'[t].todo = plugged
    BY <1>1, <2>1 DEF Scans, Same
  <2>3. "next" \in Spots \ Giving
    BY DEF Spots, Giving
  <2>4. Local(t) /\ Moved(t, "next")
    BY <1>1, <2>2, <2>3, ChangeIs DEF OpenDir
  <2> QED
    BY <1>1, <2>2, <2>4
<1>2. CASE Fails(t) /\ Abort(t)
  BY <1>2, FailIs DEF OpenDir
<1> QED
  BY <1>1, <1>2 DEF OpenDir

LEMMA ReadDirIs ==
  ASSUME DevInv, NEW t \in Threads, ReadDir(t)
  PROVE  /\ Local(t)
         /\ \/ scan[t].todo = {} /\ Passing(t, "done")
            \/ /\ scan'[t].at \in scan[t].todo
               /\ scan'[t].todo = scan[t].todo \ {scan'[t].at} /\ ~scan'[t].fresh
               /\ Same(t, {"at", "todo", "fresh"})
               /\ Moved(t, IF scan[t].via = "sysfs" THEN "stat" ELSE "lookup")
<1>1. CASE scan[t].todo = {}
  <2>1. "done" \in Spots \ Giving
    BY DEF Spots, Giving
  <2>2. MoveTo(t, "done") /\ UNCHANGED <<scan, walk>> /\ ScanFrame
    BY <1>1 DEF ReadDir
  <2> QED
    BY <1>1, <2>1, <2>2, PassIs
<1>2. CASE scan[t].todo # {}
  <2> DEFINE place == IF scan[t].via = "sysfs" THEN "stat" ELSE "lookup"
  <2>1. PICK a \in scan[t].todo :
          /\ scan' = [scan EXCEPT ![t].at = a, ![t].todo = @ \ {a}, ![t].fresh = FALSE]
          /\ MoveTo(t, place)
    BY <1>2, Zenon DEF ReadDir
  <2>2. scan \in [Threads -> Scans] /\ a \in Addrs
    BY ScanFacts DEF DevInv, DevicesTypes, Scans
  <2>3. /\ scan' \in [Threads -> Scans] /\ \A u \in Threads : u # t => scan'[u] = scan[u]
        /\ Same(t, {"at", "todo", "fresh"}) /\ scan'[t].at = a
        /\ scan'[t].todo = scan[t].todo \ {a} /\ ~scan'[t].fresh
    BY <2>1, <2>2 DEF Scans, Same
  <2>4. place \in Spots \ Giving
    BY DEF Spots, Giving
  <2>5. UNCHANGED walk /\ ScanFrame
    BY DEF ReadDir
  <2> HIDE DEF place
  <2>6. Local(t) /\ Moved(t, place)
    BY <2>1, <2>3, <2>4, <2>5, ChangeIs
  <2> QED
    BY <2>3, <2>6 DEF place
<1> QED
  BY <1>1, <1>2

\* Those of sysfs_scan_device.
LEMMA SysfsScanIs ==
  ASSUME DevInv, NEW t \in Threads
  PROVE  /\ StatDescriptors(t) => Local(t) /\ Passing(t, "busnum")
         /\ FallBack(t) => /\ Local(t) /\ Moved(t, "opendir")
                           /\ Same(t, {"via"}) /\ scan'[t].via = "usbfs"
         /\ ReadBusnum(t) =>
              /\ Local(t)
              /\ \/ Works /\ Passing(t, "devnum") /\ sysfs_can_relate_devices' = 1
                 \/ Fails(t) /\ Failing(t) /\ UNCHANGED sysfs_can_relate_devices
         /\ ReadDevnum(t) =>
              /\ Local(t)
              /\ \/ Present(t) /\ Passing(t, "lookup")
                 \/ ~Present(t) /\ Failing(t)
<1>1. {"busnum", "devnum", "lookup", "opendir"} \subseteq Spots \ Giving
  BY DEF Spots, Giving
<1>2. ASSUME StatDescriptors(t) PROVE Local(t) /\ Passing(t, "busnum")
  BY <1>1, <1>2, PassIs DEF StatDescriptors
<1>3. ASSUME FallBack(t)
      PROVE  Local(t) /\ Moved(t, "opendir") /\ Same(t, {"via"}) /\ scan'[t].via = "usbfs"
  <2>1. scan \in [Threads -> Scans]
    BY ScanFacts DEF ThreadTypes
  <2>2. scan' = [scan EXCEPT ![t].via = "usbfs"]
    BY <1>3 DEF FallBack
  <2>3. /\ scan' \in [Threads -> Scans] /\ \A u \in Threads : u # t => scan'[u] = scan[u]
        /\ Same(t, {"via"}) /\ scan'[t].via = "usbfs"
    BY <2>1, <2>2 DEF Scans, Same
  <2>4. Local(t) /\ Moved(t, "opendir")
    BY <1>1, <1>3, <2>3, ChangeIs DEF FallBack
  <2> QED
    BY <2>3, <2>4
<1>4. ASSUME ReadBusnum(t)
      PROVE  /\ Local(t)
             /\ \/ Works /\ Passing(t, "devnum") /\ sysfs_can_relate_devices' = 1
                \/ Fails(t) /\ Failing(t) /\ UNCHANGED sysfs_can_relate_devices
  <2>1. CASE Works /\ sysfs_can_relate_devices' = 1 /\ MoveTo(t, "devnum")
             /\ UNCHANGED <<scan, walk>>
    <3>1. Local(t) /\ Passing(t, "devnum")
      BY <1>1, <1>4, <2>1, PassIs DEF ReadBusnum
    <3> QED
      BY <2>1, <3>1
  <2>2. CASE Fails(t) /\ Abort(t) /\ UNCHANGED sysfs_can_relate_devices
    BY <1>4, <2>2, FailIs DEF ReadBusnum
  <2> QED
    BY <1>4, <2>1, <2>2 DEF ReadBusnum
<1>5. ASSUME ReadDevnum(t)
      PROVE  /\ Local(t)
             /\ \/ Present(t) /\ Passing(t, "lookup")
                \/ ~Present(t) /\ Failing(t)
  <2>1. CASE Present(t)
    <3>1. MoveTo(t, "lookup") /\ UNCHANGED <<scan, walk>> /\ ScanFrame
      BY <1>5, <2>1 DEF ReadDevnum
    <3> QED
      BY <1>1, <2>1, <3>1, PassIs
  <2>2. CASE ~Present(t)
    <3>1. Abort(t) /\ ScanFrame
      BY <1>5, <2>2 DEF ReadDevnum
    <3> QED
      BY <2>2, <3>1, FailIs
  <2> QED
    BY <2>1, <2>2
<1> QED
  BY <1>2, <1>3, <1>4, <1>5

\* The newest of some devices on the list is one of them.
LEMMA NewestIs ==
  ASSUME DevInv, NEW objs, NEW o \in objs, o \in Range(usb_devs)
  PROVE  Newest(objs) \in 1 .. Len(usb_devs) /\ usb_devs[Newest(objs)] \in objs
<1> DEFINE places == {k \in DOMAIN usb_devs : usb_devs[k] \in objs}
<1>1. usb_devs \in Seq(Objs) /\ DOMAIN usb_devs = 1 .. Len(usb_devs) /\ Len(usb_devs) \in Nat
  BY LenProperties DEF DevInv, DevicesTypes
<1>2. places \subseteq Nat /\ places # {}
  BY <1>1 DEF Range
<1>3. \E k \in places : \A l \in places : k <= l
  <2> HIDE DEF places
  <2> QED
    BY <1>2, LeastNat
<1>4. Newest(objs) \in places
  BY <1>3 DEF Newest
<1> QED
  BY <1>1, <1>4

\* Those of enumerate_device.
LEMMA LookupIs ==
  ASSUME DevInv, NEW t \in Threads, Lookup(t)
  PROVE  /\ Local(t)
         /\ \/ Passing(t, "alloc")
            \/ /\ Moved(t, "append") /\ Same(t, {"cur"})
               /\ scan'[t].cur \in Range(usb_devs) /\ ldev[scan'[t].cur].addr = scan[t].at
<1> DEFINE known == Known(scan[t].at)
<1>1. {"alloc", "append"} \subseteq Spots \ Giving
  BY DEF Spots, Giving
<1>2. UNCHANGED walk /\ ScanFrame
  BY DEF Lookup
<1>3. CASE known = {}
  <2>1. MoveTo(t, "alloc") /\ UNCHANGED scan
    BY <1>3 DEF Lookup
  <2> QED
    BY <1>1, <1>2, <2>1, PassIs
<1>4. CASE known # {}
  <2>1. PICK o \in known : o \in Range(usb_devs)
    BY <1>4 DEF Known
  <2> DEFINE x == usb_devs[Newest(known)]
  <2>2. Newest(known) \in 1 .. Len(usb_devs) /\ x \in known
    <3> HIDE DEF known
    <3> QED
      BY <2>1, NewestIs
  <2>3. x \in Range(usb_devs) /\ ldev[x].addr = scan[t].at
    BY <2>2 DEF Known
  <2>4. x \in Objs
    BY <2>2, ElementOfSeq DEF DevInv, DevicesTypes
  <2>5. scan' = [scan EXCEPT ![t].cur = x] /\ MoveTo(t, "append")
    BY <1>4 DEF Lookup
  <2> HIDE DEF x, known
  <2>6. scan \in [Threads -> Scans]
    BY ScanFacts DEF ThreadTypes
  <2>7. /\ scan' \in [Threads -> Scans] /\ \A u \in Threads : u # t => scan'[u] = scan[u]
        /\ Same(t, {"cur"}) /\ scan'[t].cur = x
    BY <2>4, <2>5, <2>6 DEF Scans, Same
  <2>8. Local(t) /\ Moved(t, "append")
    BY <1>1, <1>2, <2>5, <2>7, ChangeIs
  <2> QED
    BY <2>3, <2>7, <2>8
<1> QED
  BY <1>3, <1>4

\* The device that is taken when memory is asked for.
NewDev == CHOOSE o \in {p \in Objs : ldev[p].state = "none"} :
            \A p \in {q \in Objs : ldev[q].state = "none"} : o <= p

LEMMA AllocIs ==
  ASSUME DevInv, NEW t \in Threads, usbi_alloc_device(t)
  PROVE  /\ Local(t)
         /\ \/ /\ Works /\ Moved(t, "init") /\ Same(t, {"cur", "fresh"})
               /\ scan'[t].cur = NewDev /\ scan'[t].fresh
               /\ NewDev \in Objs /\ ldev[NewDev].state = "none"
               /\ ldev' = [ldev EXCEPT ![NewDev] = [NoDev EXCEPT !.addr = scan[t].at,
                                                           !.refcnt = 1, !.state = "live"]]
               /\ usb_devs' = <<NewDev>> \o usb_devs
            \/ Fails(t) /\ Failing(t) /\ UNCHANGED devices
<1> DEFINE new == {o \in Objs : ldev[o].state = "none"}
<1>1. new # {} /\ new \subseteq Nat
  BY DeviceNumbers DEF usbi_alloc_device, Objs
<1>2. NewDev \in new
  <2>1. \E o \in new : \A p \in new : o <= p
    <3> HIDE DEF new
    <3> QED
      BY <1>1, LeastNat
  <2> QED
    BY <2>1 DEF NewDev
<1>3. ScanFrame
  BY DEF usbi_alloc_device
<1>4. CASE /\ Works
           /\ ldev' = [ldev EXCEPT ![NewDev] = [NoDev EXCEPT !.addr = scan[t].at,
                                                       !.refcnt = 1, !.state = "live"]]
           /\ usb_devs' = <<NewDev>> \o usb_devs
           /\ scan' = [scan EXCEPT ![t].cur = NewDev, ![t].fresh = TRUE]
           /\ MoveTo(t, "init") /\ UNCHANGED walk
  <2>1. "init" \in Spots \ Giving
    BY DEF Spots, Giving
  <2>2. scan \in [Threads -> Scans]
    BY ScanFacts DEF ThreadTypes
  <2>3. /\ scan' \in [Threads -> Scans] /\ \A u \in Threads : u # t => scan'[u] = scan[u]
        /\ Same(t, {"cur", "fresh"}) /\ scan'[t].cur = NewDev /\ scan'[t].fresh
    <3>1. PICK c \in Scans : c = scan[t]
      BY <2>2
    <3>2. PICK d : d = [c EXCEPT !.cur = NewDev, !.fresh = TRUE]
      OBVIOUS
    <3>3. d \in Scans
      BY <1>2, <3>1, <3>2 DEF Scans
    <3>4. /\ d.via = c.via /\ d.todo = c.todo /\ d.at = c.at /\ d.devs = c.devs
          /\ d.cur = NewDev /\ d.fresh
      BY <3>1, <3>2 DEF Scans
    <3>5. scan' = [scan EXCEPT ![t] = d]
      BY <1>4, <2>2, <3>1, <3>2
    <3>6. scan' \in [Threads -> Scans] /\ scan'[t] = d /\ \A u \in Threads : u # t => scan'[u] = scan[u]
      BY <2>2, <3>3, <3>5
    <3> QED
      BY <3>1, <3>4, <3>6 DEF Same
  <2>4. Local(t) /\ Moved(t, "init")
    BY <1>3, <1>4, <2>1, <2>3, ChangeIs
  <2> QED
    BY <1>2, <1>4, <2>3, <2>4
<1>5. CASE Fails(t) /\ Abort(t) /\ UNCHANGED devices
  BY <1>3, <1>5, FailIs
<1> QED
  BY <1>4, <1>5 DEF usbi_alloc_device, NewDev

LEMMA AppendIs ==
  ASSUME DevInv, NEW t \in Threads, discovered_devs_append(t)
  PROVE  /\ Local(t)
         /\ \/ /\ Works /\ Ref(scan[t].cur)
               /\ Giving_Back(t, FirstRef(t), "next") /\ Same(t, {"devs", "fresh"})
               /\ scan'[t].devs = Append(scan[t].devs, scan[t].cur) /\ ~scan'[t].fresh
            \/ Fails(t) /\ Failing(t) /\ UNCHANGED <<ldev, health>>
<1> DEFINE full == Len(scan[t].devs) = scan[t].cap
           o == scan[t].cur
<1>1. ThreadTypes /\ scan[t] \in Scans /\ o \in Objs /\ scan[t].devs \in Seq(Objs)
  BY ScanFacts DEF DevInv, Current, discovered_devs_append
<1>2. ScanFrame
  BY DEF discovered_devs_append
<1>3. CASE Works /\ Ref(o) /\ GiveBack(t, FirstRef(t), "next")
           /\ \E move \in IF full THEN BOOLEAN ELSE {FALSE} :
                scan' = [scan EXCEPT ![t].devs = Append(@, o), ![t].fresh = FALSE,
                                     ![t].cap = IF full THEN @ + Step ELSE @,
                                     ![t].moved = @ \/ move]
  <2>1. PICK move \in BOOLEAN :
          scan' = [scan EXCEPT ![t].devs = Append(@, o), ![t].fresh = FALSE,
                               ![t].cap = IF full THEN @ + Step ELSE @,
                               ![t].moved = @ \/ move]
    BY <1>3
  <2>2. Append(scan[t].devs, o) \in Seq(Objs) /\ FirstRef(t) \in Seq(Objs)
    BY <1>1 DEF FirstRef
  <2>3. PICK cap \in Nat : cap = IF full THEN scan[t].cap + Step ELSE scan[t].cap
    BY <1>1, DeviceNumbers DEF Scans
  <2>4. PICK yes \in BOOLEAN : yes = (scan[t].moved \/ move)
    OBVIOUS
  <2>5. PICK more \in Seq(Objs) : more = Append(scan[t].devs, o)
    BY <2>2
  <2>6. scan' = [scan EXCEPT ![t].devs = more, ![t].fresh = FALSE,
                             ![t].cap = cap, ![t].moved = yes]
    BY <2>1, <2>3, <2>4, <2>5
  <2>7. scan \in [Threads -> Scans]
    BY <1>1 DEF ThreadTypes
  <2>8. /\ scan' \in [Threads -> Scans] /\ \A u \in Threads : u # t => scan'[u] = scan[u]
        /\ Same(t, {"devs", "fresh"}) /\ scan'[t].devs = more /\ ~scan'[t].fresh
    <3>1. PICK c \in Scans : c = scan[t]
      BY <2>7
    <3>2. PICK d : d = [c EXCEPT !.devs = more, !.fresh = FALSE, !.cap = cap, !.moved = yes]
      OBVIOUS
    <3>3. d \in Scans
      BY <3>1, <3>2 DEF Scans
    <3>4. /\ d.via = c.via /\ d.todo = c.todo /\ d.at = c.at /\ d.cur = c.cur
          /\ d.devs = more /\ ~d.fresh
      BY <3>1, <3>2 DEF Scans
    <3>5. scan' = [scan EXCEPT ![t] = d]
      BY <2>6, <2>7, <3>1, <3>2
    <3>6. scan' \in [Threads -> Scans] /\ scan'[t] = d /\ \A u \in Threads : u # t => scan'[u] = scan[u]
      BY <2>7, <3>3, <3>5
    <3> QED
      BY <3>1, <3>4, <3>6 DEF Same
  <2>9. UNCHANGED <<lists, result>>
    BY <1>2 DEF ScanFrame, app
  <2>10. Local(t) /\ Giving_Back(t, FirstRef(t), "next")
    BY <1>1, <1>3, <2>2, <2>8, <2>9, GiveBackIs, LocalIs DEF Giving_Back
  <2> QED
    BY <1>3, <2>5, <2>8, <2>10
<1>4. CASE Fails(t) /\ Abort(t) /\ UNCHANGED <<ldev, health>>
  BY <1>2, <1>4, FailIs
<1> QED
  BY <1>3, <1>4 DEF discovered_devs_append

\* Those of initialize_device and usbi_sanitize_device.
LEMMA InitDeviceIs ==
  ASSUME DevInv, NEW t \in Threads, InitDevice(t)
  PROVE  /\ Local(t)
         /\ \/ Works /\ sysfs_has_descriptors # 0 /\ Passing(t, "sanitize")
            \/ Works /\ sysfs_has_descriptors = 0 /\ Passing(t, "open")
            \/ /\ Works /\ sysfs_has_descriptors = 0 /\ sysfs_can_relate_devices # 0
               /\ ~(sysfs_dir(t) /\ Present(t)) /\ Failing(t)
            \/ Fails(t) /\ Failing(t)
<1> DEFINE related == sysfs_can_relate_devices # 0
           gone == related /\ ~(sysfs_dir(t) /\ Present(t))
<1>1. {"sanitize", "open"} \subseteq Spots \ Giving
  BY DEF Spots, Giving
<1>2. ScanFrame
  BY DEF InitDevice
<1>3. CASE /\ Works /\ sysfs_has_descriptors # 0
           /\ MoveTo(t, "sanitize") /\ UNCHANGED <<scan, walk>>
  BY <1>1, <1>2, <1>3, PassIs
<1>4. CASE /\ Works /\ sysfs_has_descriptors = 0 /\ gone /\ Abort(t)
  BY <1>2, <1>4, FailIs
<1>5. CASE /\ Works /\ sysfs_has_descriptors = 0
           /\ \E yes \in IF related THEN BOOLEAN ELSE {TRUE} :
                scan' = [scan EXCEPT ![t].configured = yes]
           /\ MoveTo(t, "open") /\ UNCHANGED walk
  <2>1. PICK yes \in BOOLEAN : scan' = [scan EXCEPT ![t].configured = yes]
    BY <1>5
  <2>2. scan \in [Threads -> Scans]
    BY ScanFacts DEF ThreadTypes
  <2>3. /\ scan' \in [Threads -> Scans] /\ \A u \in Threads : u # t => scan'[u] = scan[u]
        /\ Same(t, {})
    BY <2>1, <2>2 DEF Scans, Same
  <2>4. Local(t) /\ Moved(t, "open")
    BY <1>1, <1>2, <1>5, <2>3, ChangeIs
  <2> QED
    BY <1>5, <2>3, <2>4 DEF Passing
<1>6. CASE Fails(t) /\ Abort(t)
  BY <1>2, <1>6, FailIs
<1> QED
  BY <1>3, <1>4, <1>5, <1>6 DEF InitDevice

LEMMA OpenNodeIs ==
  ASSUME DevInv, NEW t \in Threads, OpenNode(t)
  PROVE  /\ Local(t)
         /\ \/ /\ Works /\ files' = files + 1
               /\ Passing(t, "read") \/ Passing(t, "active")
            \/ Works /\ ~Present(t) /\ Failing(t) /\ files' = files
            \/ Fails(t) /\ Failing(t) /\ files' = files
<1>1. {"read", "active"} \subseteq Spots \ Giving
  BY DEF Spots, Giving
<1>2. ScanFrame
  BY DEF OpenNode
<1>3. CASE /\ Works /\ Present(t) /\ files' = files + 1
           /\ \E place \in IF sysfs_can_relate_devices # 0 THEN {"read"}
                           ELSE {"read", "active"} : MoveTo(t, place)
           /\ UNCHANGED <<scan, walk>>
  <2>1. PICK place \in {"read", "active"} : MoveTo(t, place)
    BY <1>3
  <2>2. Local(t) /\ Passing(t, place)
    BY <1>1, <1>2, <1>3, <2>1, PassIs
  <2> QED
    BY <1>3, <2>2
<1>4. CASE Works /\ ~Present(t) /\ Abort(t) /\ UNCHANGED files
  BY <1>2, <1>4, FailIs
<1>5. CASE Fails(t) /\ Abort(t) /\ UNCHANGED files
  BY <1>2, <1>5, FailIs
<1> QED
  BY <1>3, <1>4, <1>5 DEF OpenNode

LEMMA GetActiveConfigIs ==
  ASSUME DevInv, NEW t \in Threads, GetActiveConfig(t)
  PROVE  /\ Local(t)
         /\ \/ Passing(t, "read") /\ files' = files
            \/ ~Present(t) /\ Failing(t) /\ files' = files - 1
<1>1. "read" \in Spots \ Giving /\ ScanFrame
  BY DEF Spots, Giving, GetActiveConfig
<1>2. CASE Present(t)
  <2>1. PICK yes \in BOOLEAN : scan' = [scan EXCEPT ![t].configured = yes]
    BY <1>2 DEF GetActiveConfig
  <2>2. MoveTo(t, "read") /\ UNCHANGED walk /\ files' = files
    BY <1>2 DEF GetActiveConfig
  <2>3. scan \in [Threads -> Scans]
    BY ScanFacts DEF ThreadTypes
  <2>4. /\ scan' \in [Threads -> Scans] /\ \A u \in Threads : u # t => scan'[u] = scan[u]
        /\ Same(t, {})
    BY <2>1, <2>3 DEF Scans, Same
  <2>5. Local(t) /\ Moved(t, "read")
    BY <1>1, <2>2, <2>4, ChangeIs
  <2> QED
    BY <2>2, <2>4, <2>5 DEF Passing
<1>3. CASE ~Present(t)
  <2>1. files' = files - 1 /\ Abort(t)
    BY <1>3 DEF GetActiveConfig
  <2> QED
    BY <1>1, <1>3, <2>1, FailIs
<1> QED
  BY <1>2, <1>3

LEMMA ReadDescriptorsIs ==
  ASSUME DevInv, NEW t \in Threads, ReadDescriptors(t)
  PROVE  /\ Local(t)
         /\ \/ /\ Works /\ Present(t) /\ Passing(t, "sanitize")
               /\ ldev' = [ldev EXCEPT ![scan[t].cur].desc = TRUE]
            \/ Works /\ ~Present(t) /\ Failing(t) /\ UNCHANGED ldev
            \/ Fails(t) /\ Failing(t) /\ UNCHANGED ldev
<1>1. "sanitize" \in Spots \ Giving /\ ScanFrame
  BY DEF Spots, Giving, ReadDescriptors
<1>2. CASE /\ Works /\ Present(t)
           /\ ldev' = [ldev EXCEPT ![scan[t].cur].desc = TRUE]
           /\ MoveTo(t, "sanitize") /\ UNCHANGED <<scan, walk>>
  BY <1>1, <1>2, PassIs
<1>3. CASE Works /\ ~Present(t) /\ Abort(t) /\ UNCHANGED ldev
  BY <1>1, <1>3, FailIs
<1>4. CASE Fails(t) /\ Abort(t) /\ UNCHANGED ldev
  BY <1>1, <1>4, FailIs
<1> QED
  BY <1>2, <1>3, <1>4 DEF ReadDescriptors

LEMMA SanitizeIs ==
  ASSUME DevInv, NEW t \in Threads, usbi_sanitize_device(t)
  PROVE  /\ Local(t)
         /\ \/ Works /\ Sane(scan[t].cur) /\ Passing(t, "append")
            \/ Works /\ ~Sane(scan[t].cur) /\ Failing(t)
            \/ Fails(t) /\ Failing(t)
<1>1. "append" \in Spots \ Giving /\ ScanFrame
  BY DEF Spots, Giving, usbi_sanitize_device
<1>2. CASE Works /\ Sane(scan[t].cur) /\ MoveTo(t, "append") /\ UNCHANGED <<scan, walk>>
  BY <1>1, <1>2, PassIs
<1>3. CASE Works /\ ~Sane(scan[t].cur) /\ Abort(t)
  BY <1>1, <1>3, FailIs
<1>4. CASE Fails(t) /\ Abort(t)
  BY <1>1, <1>4, FailIs
<1> QED
  BY <1>2, <1>3, <1>4 DEF usbi_sanitize_device

\* The locals of no scan are locals.
LEMMA NoScanIs ==
  /\ NoScan \in Scans
  /\ NoScan.via = "none" /\ NoScan.todo = {} /\ NoScan.at = 0 /\ NoScan.cur = 0
  /\ ~NoScan.fresh /\ NoScan.devs = <<>>
BY DEF NoScan, Scans

\* The scan of t is over and gave what.
Over(t, what) == scan'[t] = NoScan /\ result'[t] = what

\* Its two ends.
LEMMA ScanFailsIs ==
  ASSUME DevInv, NEW t \in Threads, ScanFails(t)
  PROVE  /\ Local(t)
         /\ \/ /\ health' = "collection_freed"
               /\ UNCHANGED <<drop, then, pc, scan, lists, result>>
            \/ /\ health' = health /\ lists' = lists
               /\ Over(t, "error") /\ Giving_Back(t, Failed(t), "idle")
<1>1. /\ ThreadTypes /\ scan[t].devs \in Seq(Objs)
      /\ scan \in [Threads -> Scans] /\ result \in [Threads -> {"none", "ok", "error"}]
      /\ lists' = lists
  BY ScanFacts DEF ThreadTypes, ScanFails, app
<1>2. CASE /\ health' = "collection_freed"
           /\ UNCHANGED <<scan, walk, pc, result>>
  BY <1>1, <1>2 DEF Local, ThreadTypes, Others, View, walk
<1>3. CASE /\ health' = health
           /\ scan' = [scan EXCEPT ![t] = NoScan]
           /\ result' = [result EXCEPT ![t] = "error"]
           /\ GiveBack(t, Failed(t), "idle")
  <2>1. /\ scan' \in [Threads -> Scans] /\ \A u \in Threads : u # t => scan'[u] = scan[u]
        /\ result' \in [Threads -> {"none", "ok", "error"}]
        /\ \A u \in Threads : u # t => result'[u] = result[u]
        /\ Over(t, "error")
    BY <1>1, <1>3, NoScanIs DEF Over
  <2>2. Failed(t) \in Seq(Objs)
    BY <1>1 DEF Failed
  <2>3. /\ drop' \in [Threads -> Seq(Objs)] /\ then' \in [Threads -> {"idle", "next", "fail"}]
        /\ pc' \in [Threads -> Spots] /\ Giving_Back(t, Failed(t), "idle")
        /\ \A u \in Threads : u # t => pc'[u] = pc[u] /\ drop'[u] = drop[u] /\ then'[u] = then[u]
    BY <1>1, <1>3, <2>2, GiveBackIs DEF Giving_Back
  <2> QED
    BY <1>1, <1>3, <2>1, <2>3 DEF Local, ThreadTypes, Others, View
<1> QED
  BY <1>2, <1>3 DEF ScanFails

LEMMA ScanDoneIs ==
  ASSUME DevInv, NEW t \in Threads, ScanDone(t)
  PROVE  /\ Local(t)
         /\ \/ Works /\ lists'[t] = scan[t].devs /\ Over(t, "ok") /\ Moved(t, "idle")
            \/ /\ Fails(t) /\ lists' = lists
               /\ Over(t, "error") /\ Giving_Back(t, scan[t].devs, "idle")
<1>1. /\ ThreadTypes /\ scan[t].devs \in Seq(Objs)
      /\ scan \in [Threads -> Scans] /\ result \in [Threads -> {"none", "ok", "error"}]
      /\ lists \in [Threads -> Seq(Objs)]
  BY ScanFacts DEF ThreadTypes
<1>2. CASE /\ Works
           /\ lists' = [lists EXCEPT ![t] = scan[t].devs]
           /\ scan' = [scan EXCEPT ![t] = NoScan]
           /\ result' = [result EXCEPT ![t] = "ok"]
           /\ MoveTo(t, "idle") /\ UNCHANGED walk
  <2>1. /\ scan' \in [Threads -> Scans] /\ \A u \in Threads : u # t => scan'[u] = scan[u]
        /\ result' \in [Threads -> {"none", "ok", "error"}]
        /\ \A u \in Threads : u # t => result'[u] = result[u]
        /\ Over(t, "ok")
    BY <1>1, <1>2, NoScanIs DEF Over
  <2>2. /\ lists' \in [Threads -> Seq(Objs)] /\ lists'[t] = scan[t].devs
        /\ \A u \in Threads : u # t => lists'[u] = lists[u]
    BY <1>1, <1>2
  <2>3. "idle" \in Spots \ Giving
    BY DEF Spots, Giving
  <2>4. /\ drop' \in [Threads -> Seq(Objs)] /\ then' \in [Threads -> {"idle", "next", "fail"}]
        /\ pc' \in [Threads -> Spots] /\ Moved(t, "idle")
        /\ \A u \in Threads : u # t => pc'[u] = pc[u] /\ drop'[u] = drop[u] /\ then'[u] = then[u]
    BY <1>1, <1>2, <2>3, MoveToIs
  <2> QED
    BY <1>2, <2>1, <2>2, <2>4 DEF Local, ThreadTypes, Others, View
<1>3. CASE /\ Fails(t) /\ lists' = lists
           /\ scan' = [scan EXCEPT ![t] = NoScan]
           /\ result' = [result EXCEPT ![t] = "error"]
           /\ GiveBack(t, scan[t].devs, "idle")
  <2>1. /\ scan' \in [Threads -> Scans] /\ \A u \in Threads : u # t => scan'[u] = scan[u]
        /\ result' \in [Threads -> {"none", "ok", "error"}]
        /\ \A u \in Threads : u # t => result'[u] = result[u]
        /\ Over(t, "error")
    BY <1>1, <1>3, NoScanIs DEF Over
  <2>2. /\ drop' \in [Threads -> Seq(Objs)] /\ then' \in [Threads -> {"idle", "next", "fail"}]
        /\ pc' \in [Threads -> Spots] /\ Giving_Back(t, scan[t].devs, "idle")
        /\ \A u \in Threads : u # t => pc'[u] = pc[u] /\ drop'[u] = drop[u] /\ then'[u] = then[u]
    BY <1>1, <1>3, GiveBackIs DEF Giving_Back
  <2> QED
    BY <1>1, <1>3, <2>1, <2>2 DEF Local, ThreadTypes, Others, View
<1> QED
  BY <1>2, <1>3 DEF ScanDone

\* The calls of a thread.
LEMMA GetListIs ==
  ASSUME DevInv, NEW t \in Threads, libusb_get_device_list(t)
  PROVE  /\ Local(t) /\ lists' = lists /\ lists[t] = <<>> /\ pc[t] = "idle" /\ t \in Scanners
         /\ Moved(t, "opendir") /\ result'[t] = "none"
         /\ scan'[t].via = IF sysfs_can_relate_devices # 0 THEN "sysfs" ELSE "usbfs"
         /\ scan'[t].todo = {} /\ ~scan'[t].fresh /\ scan'[t].devs = <<>>
<1> DEFINE via == IF sysfs_can_relate_devices # 0 THEN "sysfs" ELSE "usbfs"
           new == [NoScan EXCEPT !.cap = Step, !.via = via]
<1>1. /\ ThreadTypes /\ scan \in [Threads -> Scans]
      /\ result \in [Threads -> {"none", "ok", "error"}]
  BY ScanFacts DEF ThreadTypes
<1>2. /\ lists' = lists /\ lists[t] = <<>> /\ pc[t] = "idle" /\ t \in Scanners
      /\ MoveTo(t, "opendir") /\ UNCHANGED walk
      /\ result' = [result EXCEPT ![t] = "none"]
      /\ scan' = [scan EXCEPT ![t] = new]
  BY DEF libusb_get_device_list, app
<1>3. "opendir" \in Spots \ Giving
  BY DEF Spots, Giving
<1>4. new \in Scans /\ new.via = via /\ new.todo = {} /\ ~new.fresh /\ new.devs = <<>>
  BY NoScanIs, DeviceNumbers DEF Scans
<1> HIDE DEF new, via
<1>5. /\ scan' \in [Threads -> Scans] /\ \A u \in Threads : u # t => scan'[u] = scan[u]
      /\ scan'[t] = new
      /\ result' \in [Threads -> {"none", "ok", "error"}] /\ result'[t] = "none"
      /\ \A u \in Threads : u # t => result'[u] = result[u]
  BY <1>1, <1>2, <1>4
<1>6. /\ drop' \in [Threads -> Seq(Objs)] /\ then' \in [Threads -> {"idle", "next", "fail"}]
      /\ pc' \in [Threads -> Spots] /\ Moved(t, "opendir")
      /\ \A u \in Threads : u # t => pc'[u] = pc[u] /\ drop'[u] = drop[u] /\ then'[u] = then[u]
  BY <1>1, <1>2, <1>3, MoveToIs
<1>7. Local(t)
  BY <1>1, <1>2, <1>5, <1>6 DEF Local, ThreadTypes, Others, View
<1> QED
  BY <1>2, <1>4, <1>5, <1>6, <1>7 DEF via

LEMMA FreeListIs ==
  ASSUME DevInv, NEW t \in Threads, libusb_free_device_list(t)
  PROVE  /\ Local(t) /\ scan' = scan /\ pc[t] = "idle"
         /\ lists'[t] = <<>> /\ result'[t] = "none" /\ Giving_Back(t, lists[t], "idle")
<1>1. /\ ThreadTypes /\ lists[t] \in Seq(Objs) /\ lists \in [Threads -> Seq(Objs)]
      /\ result \in [Threads -> {"none", "ok", "error"}]
  BY ScanFacts DEF ThreadTypes
<1>2. /\ lists' = [lists EXCEPT ![t] = <<>>] /\ pc[t] = "idle"
      /\ result' = [result EXCEPT ![t] = "none"]
      /\ GiveBack(t, lists[t], "idle") /\ scan' = scan
  BY DEF libusb_free_device_list
<1>3. /\ lists' \in [Threads -> Seq(Objs)] /\ lists'[t] = <<>>
      /\ \A u \in Threads : u # t => lists'[u] = lists[u]
      /\ result' \in [Threads -> {"none", "ok", "error"}] /\ result'[t] = "none"
      /\ \A u \in Threads : u # t => result'[u] = result[u]
  BY <1>1, <1>2
<1>4. /\ drop' \in [Threads -> Seq(Objs)] /\ then' \in [Threads -> {"idle", "next", "fail"}]
      /\ pc' \in [Threads -> Spots] /\ Giving_Back(t, lists[t], "idle")
      /\ \A u \in Threads : u # t => pc'[u] = pc[u] /\ drop'[u] = drop[u] /\ then'[u] = then[u]
  BY <1>1, <1>2, GiveBackIs DEF Giving_Back
<1> QED
  BY <1>1, <1>2, <1>3, <1>4 DEF Local, ThreadTypes, Others, View

LEMMA OpenIs ==
  ASSUME DevInv, NEW t \in Threads, libusb_open(t)
  PROVE  /\ Local(t) /\ UNCHANGED <<scan, drop, then, pc, lists, result>>
         /\ pc[t] = "idle"
         /\ \E o \in Range(lists[t]) \cap Objs, h \in 1 .. MaxHandles :
              /\ handles[h] = 0
              /\ \/ /\ Works /\ Ref(o) /\ files' = files + 1
                    /\ handles' = [handles EXCEPT ![h] = o] /\ UNCHANGED unpolled
                 \/ /\ Fails(t) /\ files' = files + 1 /\ unpolled' = unpolled + 1
                    /\ UNCHANGED <<ldev, health, handles>>
<1>1. ThreadTypes /\ lists[t] \in Seq(Objs)
  BY ScanFacts
<1>2. UNCHANGED <<scan, drop, then, pc, lists, result>> /\ pc[t] = "idle"
  BY DEF libusb_open, walk
<1>3. Local(t)
  BY <1>1, <1>2 DEF Local, ThreadTypes, Others, View
<1>4. Range(lists[t]) \subseteq Objs
  BY <1>1, LenProperties, ElementOfSeq DEF Range
<1> QED
  BY <1>2, <1>3, <1>4 DEF libusb_open

LEMMA CloseIs ==
  ASSUME DevInv, NEW t \in Threads, libusb_close(t)
  PROVE  /\ Local(t) /\ scan' = scan /\ lists' = lists /\ result' = result /\ pc[t] = "idle"
         /\ \E h \in 1 .. MaxHandles :
              /\ handles[h] # 0 /\ handles[h] \in Objs
              /\ handles' = [handles EXCEPT ![h] = 0]
              /\ Giving_Back(t, <<handles[h]>>, "idle")
<1>1. ThreadTypes
  BY ScanFacts
<1>2. scan' = scan /\ lists' = lists /\ result' = result /\ pc[t] = "idle"
  BY DEF libusb_close
<1>3. PICK h \in 1 .. MaxHandles :
        /\ handles[h] # 0
        /\ handles' = [handles EXCEPT ![h] = 0]
        /\ GiveBack(t, <<handles[h]>>, "idle")
  BY DEF libusb_close
<1>4. handles[h] \in Objs
  BY <1>3 DEF DevInv, DevicesTypes
<1>5. <<handles[h]>> \in Seq(Objs)
  BY <1>4
<1>6. /\ drop' \in [Threads -> Seq(Objs)] /\ then' \in [Threads -> {"idle", "next", "fail"}]
      /\ pc' \in [Threads -> Spots] /\ Giving_Back(t, <<handles[h]>>, "idle")
      /\ \A u \in Threads : u # t => pc'[u] = pc[u] /\ drop'[u] = drop[u] /\ then'[u] = then[u]
  BY <1>1, <1>3, <1>5, GiveBackIs DEF Giving_Back
<1>7. Local(t)
  BY <1>1, <1>2, <1>6 DEF Local, ThreadTypes, Others, View
<1> QED
  BY <1>2, <1>3, <1>4, <1>6, <1>7

\* References given back (libusb_unref_device).
LEMMA UnrefIs ==
  ASSUME DevInv, NEW t \in Threads, libusb_unref_device(t)
  PROVE  /\ Local(t) /\ scan' = scan /\ lists' = lists /\ result' = result /\ pc[t] = "unref"
         /\ Head(drop[t]) \in Objs /\ drop[t] # <<>>
         /\ \/ /\ ldev[Head(drop[t])].refcnt = 1 /\ pc'[t] = "destroy"
               /\ drop' = drop /\ then' = then /\ Toward(t)' = Toward(t)
            \/ /\ ldev[Head(drop[t])].refcnt # 1
               /\ Giving_Back(t, Tail(drop[t]), Toward(t))
<1>1. /\ ThreadTypes /\ drop[t] \in Seq(Objs) /\ then[t] \in {"idle", "next", "fail"}
  BY ScanFacts
<1>2. /\ scan' = scan /\ lists' = lists /\ result' = result /\ pc[t] = "unref"
      /\ IF ldev[Head(drop[t])].refcnt = 1
         THEN MoveTo(t, "destroy") /\ UNCHANGED walk
         ELSE GiveBack(t, Tail(drop[t]), then[t])
  BY DEF libusb_unref_device, app
<1>3. drop[t] # <<>> /\ Head(drop[t]) \in Objs /\ Toward(t) = then[t]
  BY <1>2, ScanFacts DEF Giving
<1>4. CASE ldev[Head(drop[t])].refcnt = 1
  <2>1. pc' = [pc EXCEPT ![t] = "destroy"] /\ drop' = drop /\ then' = then
    BY <1>2, <1>4 DEF MoveTo, walk
  <2>2. /\ pc' \in [Threads -> Spots] /\ pc'[t] = "destroy"
        /\ \A u \in Threads : u # t => pc'[u] = pc[u]
    BY <1>1, <2>1 DEF ThreadTypes, Spots
  <2>3. Toward(t)' = Toward(t)
    BY <1>3, <2>1, <2>2 DEF Toward, Giving
  <2>4. Local(t)
    BY <1>1, <1>2, <2>1, <2>2 DEF Local, ThreadTypes, Others, View
  <2> QED
    BY <1>2, <1>3, <1>4, <2>1, <2>2, <2>3, <2>4
<1>5. CASE ldev[Head(drop[t])].refcnt # 1
  <2>1. Tail(drop[t]) \in Seq(Objs)
    BY <1>1, <1>3, HeadTailProperties
  <2>2. /\ drop' \in [Threads -> Seq(Objs)] /\ then' \in [Threads -> {"idle", "next", "fail"}]
        /\ pc' \in [Threads -> Spots] /\ Giving_Back(t, Tail(drop[t]), then[t])
        /\ \A u \in Threads : u # t => pc'[u] = pc[u] /\ drop'[u] = drop[u] /\ then'[u] = then[u]
    <3>1. PICK s \in Seq(Objs), place \in {"idle", "next", "fail"} :
            s = Tail(drop[t]) /\ place = then[t] /\ GiveBack(t, s, place)
      BY <1>1, <1>2, <1>5, <2>1
    <3>2. /\ drop' \in [Threads -> Seq(Objs)] /\ then' \in [Threads -> {"idle", "next", "fail"}]
          /\ pc' \in [Threads -> Spots]
          /\ drop'[t] = s
          /\ Toward(t)' = place /\ (pc'[t] \in Giving <=> drop'[t] # <<>>)
          /\ pc'[t] \in {"unref", place} /\ (pc'[t] = place <=> drop'[t] = <<>>)
          /\ \A u \in Threads : u # t => pc'[u] = pc[u] /\ drop'[u] = drop[u] /\ then'[u] = then[u]
      <4>1. /\ ThreadTypes /\ s \in Seq(Objs)
            /\ place \in {"idle", "next", "fail"} /\ GiveBack(t, s, place)
        BY <1>1, <3>1
      <4> QED
        BY <4>1, GiveBackIs
    <3> QED
      BY <3>1, <3>2 DEF Giving_Back
  <2>3. Local(t)
    BY <1>1, <1>2, <2>2 DEF Local, ThreadTypes, Others, View
  <2> QED
    BY <1>2, <1>3, <1>5, <2>2, <2>3
<1> QED
  BY <1>4, <1>5

LEMMA DestroyIs ==
  ASSUME DevInv, NEW t \in Threads, destroy_device(t)
  PROVE  /\ Local(t) /\ scan' = scan /\ lists' = lists /\ result' = result /\ pc[t] = "destroy"
         /\ Head(drop[t]) \in Objs /\ drop[t] # <<>>
         /\ Giving_Back(t, Tail(drop[t]), Toward(t))
<1>1. /\ ThreadTypes /\ drop[t] \in Seq(Objs) /\ then[t] \in {"idle", "next", "fail"}
  BY ScanFacts
<1>2. /\ scan' = scan /\ lists' = lists /\ result' = result /\ pc[t] = "destroy"
      /\ GiveBack(t, Tail(drop[t]), then[t])
  BY DEF destroy_device, app
<1>3. drop[t] # <<>> /\ Head(drop[t]) \in Objs /\ Toward(t) = then[t]
  BY <1>2, ScanFacts DEF Giving
<1>4. Tail(drop[t]) \in Seq(Objs)
  BY <1>1, <1>3, HeadTailProperties
<1>5. /\ drop' \in [Threads -> Seq(Objs)] /\ then' \in [Threads -> {"idle", "next", "fail"}]
      /\ pc' \in [Threads -> Spots] /\ Giving_Back(t, Tail(drop[t]), then[t])
      /\ \A u \in Threads : u # t => pc'[u] = pc[u] /\ drop'[u] = drop[u] /\ then'[u] = then[u]
  BY <1>1, <1>2, <1>4, GiveBackIs DEF Giving_Back
<1>6. Local(t)
  BY <1>1, <1>2, <1>5 DEF Local, ThreadTypes, Others, View
<1> QED
  BY <1>2, <1>3, <1>5, <1>6

\* Scans that have a file open, and handles that have one.
Readers == {t \in Threads : pc[t] \in {"active", "read"}}
Opened == {h \in 1 .. MaxHandles : handles[h] # 0}

\* One element less, or one more.
LEMMA OneElement ==
  ASSUME NEW A, IsFiniteSet(A), NEW x
  PROVE  /\ Cardinality(A) \in Nat
         /\ x \in A => Cardinality(A) >= 1 /\ Cardinality(A \ {x}) = Cardinality(A) - 1
         /\ x \notin A => Cardinality(A \cup {x}) = Cardinality(A) + 1
<1>1. Cardinality(A) \in Nat
  BY FS_CardinalityType
<1>2. x \in A => Cardinality(A) # 0
  BY FS_EmptySet
<1>3. Cardinality(A \ {x}) = IF x \in A THEN Cardinality(A) - 1 ELSE Cardinality(A)
  BY FS_RemoveElement
<1>4. Cardinality(A \cup {x}) = IF x \in A THEN Cardinality(A) ELSE Cardinality(A) + 1
  BY FS_AddElement
<1> QED
  BY <1>1, <1>2, <1>3, <1>4

\* When only t moves, it alone may come to be a reader or cease to be one.
LEMMA ReadersStep ==
  ASSUME DevInv, NEW t \in Threads, Local(t)
  PROVE  /\ Cardinality(Readers) \in Nat /\ Cardinality(Readers') \in Nat
         /\ t \in Readers => Cardinality(Readers) >= 1
         /\ t \in Readers /\ t \in Readers' => Cardinality(Readers') = Cardinality(Readers)
         /\ t \notin Readers /\ t \notin Readers' => Cardinality(Readers') = Cardinality(Readers)
         /\ t \in Readers /\ t \notin Readers' => Cardinality(Readers') = Cardinality(Readers) - 1
         /\ t \notin Readers /\ t \in Readers' => Cardinality(Readers') = Cardinality(Readers) + 1
<1> DEFINE A == Readers
           B == Readers'
<1>1. /\ t \in A /\ t \in B => B = A
      /\ t \notin A /\ t \notin B => B = A
      /\ t \in A /\ t \notin B => B = A \ {t}
      /\ t \notin A /\ t \in B => B = A \cup {t}
  <2>1. \A u \in Threads : u # t => (u \in B <=> u \in A)
    BY DEF Local, Others, View, Readers
  <2>2. A \subseteq Threads /\ B \subseteq Threads
    BY DEF Readers
  <2> HIDE DEF A, B
  <2> QED
    BY <2>1, <2>2
<1>2. IsFiniteSet(A)
  BY DeviceNumbers, FS_Subset DEF Readers
<1> HIDE DEF A, B
<1>3. /\ Cardinality(A) \in Nat
      /\ t \in A => Cardinality(A) >= 1 /\ Cardinality(A \ {t}) = Cardinality(A) - 1
      /\ t \notin A => Cardinality(A \cup {t}) = Cardinality(A) + 1
  BY <1>2, OneElement
<1>4. PICK n \in Nat : n = Cardinality(A)
  BY <1>3
<1>5. /\ t \in A => n >= 1
      /\ t \in A /\ t \in B => Cardinality(B) = n
      /\ t \notin A /\ t \notin B => Cardinality(B) = n
      /\ t \in A /\ t \notin B => Cardinality(B) = n - 1
      /\ t \notin A /\ t \in B => Cardinality(B) = n + 1
  BY <1>1, <1>3, <1>4
<1>6. Cardinality(B) \in Nat
  BY <1>5
<1> QED
  BY <1>4, <1>5, <1>6 DEF A, B

\* A handle is opened or closed.
LEMMA OpenedStep ==
  ASSUME DevInv, NEW h \in 1 .. MaxHandles, NEW o \in Objs \cup {0},
         handles' = [handles EXCEPT ![h] = o]
  PROVE  /\ handles' \in [1 .. MaxHandles -> Objs \cup {0}]
         /\ Cardinality(Opened) \in Nat
         /\ handles[h] = 0 /\ o # 0 => Cardinality(Opened') = Cardinality(Opened) + 1
         /\ handles[h] # 0 /\ o = 0 => Cardinality(Opened') = Cardinality(Opened) - 1
         /\ handles[h] # 0 => Cardinality(Opened) >= 1
<1> DEFINE A == Opened
           B == Opened'
<1>1. handles \in [1 .. MaxHandles -> Objs \cup {0}] /\ MaxHandles \in Nat
  BY DeviceNumbers DEF DevInv, DevicesTypes
<1>2. /\ handles[h] = 0 /\ o # 0 => B = A \cup {h} /\ h \notin A
      /\ handles[h] # 0 /\ o = 0 => B = A \ {h} /\ h \in A
      /\ handles[h] # 0 => h \in A
  BY <1>1 DEF Opened
<1>3. IsFiniteSet(A)
  BY <1>1, FS_Interval, FS_Subset DEF Opened
<1>4. handles' \in [1 .. MaxHandles -> Objs \cup {0}]
  BY <1>1
<1> HIDE DEF A, B
<1>5. /\ Cardinality(A) \in Nat
      /\ h \in A => Cardinality(A) >= 1 /\ Cardinality(A \ {h}) = Cardinality(A) - 1
      /\ h \notin A => Cardinality(A \cup {h}) = Cardinality(A) + 1
  BY <1>3, OneElement
<1>6. handles[h] = 0 /\ o # 0 => Cardinality(B) = Cardinality(A) + 1
  BY <1>2, <1>5
<1>7. handles[h] # 0 /\ o = 0 => Cardinality(B) = Cardinality(A) - 1
  BY <1>2, <1>5
<1> QED
  BY <1>2, <1>4, <1>5, <1>6, <1>7 DEF A, B
\* The number of open files, in the words of these sets.
LEMMA FilesAre ==
  ASSUME DevInv
  PROVE  /\ files = Cardinality(Opened) + unpolled + Cardinality(Readers)
         /\ Cardinality(Opened) \in Nat /\ Cardinality(Readers) \in Nat /\ unpolled \in Nat
<1>1. files = Cardinality(Opened) + unpolled + Cardinality(Readers)
  BY DEF DevInv, FilesClosed, Opened, Readers
<1>2. IsFiniteSet(1 .. MaxHandles) /\ Opened \subseteq 1 .. MaxHandles /\ Readers \subseteq Threads
  BY DeviceNumbers, FS_Interval DEF Opened, Readers
<1>3. Cardinality(Opened) \in Nat /\ Cardinality(Readers) \in Nat
  BY <1>2, DeviceNumbers, FS_Subset, FS_CardinalityType
<1> QED
  BY <1>1, <1>3 DEF DevInv, DevicesTypes

\* The files of a step at which t does not change from reader to reader of
\* none, or the other way round, and no handle is touched.
LEMMA FilesKept ==
  ASSUME DevInv, NEW t \in Threads, Local(t), UNCHANGED <<files, handles, unpolled>>,
         pc[t] \notin {"active", "read"}, pc'[t] \notin {"active", "read"}
  PROVE  FilesClosed' /\ files' \in Nat
<1>1. t \notin Readers /\ t \notin Readers'
  BY DEF Readers
<1>2. Cardinality(Readers') = Cardinality(Readers)
  BY <1>1, ReadersStep
<1>3. Opened' = Opened
  BY DEF Opened
<1>4. files' = Cardinality(Opened') + unpolled' + Cardinality(Readers') /\ files' \in Nat
  BY <1>2, <1>3, FilesAre
<1> QED
  BY <1>4 DEF FilesClosed, Opened, Readers

\* What a step of t does with the open files, by where t was and is.
LEMMA FilesMoved ==
  ASSUME DevInv, NEW t \in Threads, Local(t), UNCHANGED <<handles, unpolled>>,
         \/ /\ files' = files + 1
            /\ pc[t] \notin {"active", "read"} /\ pc'[t] \in {"active", "read"}
         \/ /\ files' = files - 1
            /\ pc[t] \in {"active", "read"} /\ pc'[t] \notin {"active", "read"}
         \/ /\ files' = files
            /\ pc[t] \in {"active", "read"} /\ pc'[t] \in {"active", "read"}
  PROVE  FilesClosed' /\ files' \in Nat
<1>1. /\ files = Cardinality(Opened) + unpolled + Cardinality(Readers)
      /\ Cardinality(Opened) \in Nat /\ Cardinality(Readers) \in Nat /\ unpolled \in Nat
  BY FilesAre
<1>2. Opened' = Opened
  BY DEF Opened
<1>3. Cardinality(Readers') \in Nat
  BY ReadersStep
<1>4. files' = Cardinality(Opened') + unpolled' + Cardinality(Readers')
  <2>1. CASE /\ files' = files + 1
             /\ pc[t] \notin {"active", "read"} /\ pc'[t] \in {"active", "read"}
    <3>1. Cardinality(Readers') = Cardinality(Readers) + 1
      BY <2>1, ReadersStep DEF Readers
    <3> QED
      BY <1>1, <1>2, <2>1, <3>1
  <2>2. CASE /\ files' = files - 1
             /\ pc[t] \in {"active", "read"} /\ pc'[t] \notin {"active", "read"}
    <3>1. Cardinality(Readers') = Cardinality(Readers) - 1
      BY <2>2, ReadersStep DEF Readers
    <3> QED
      BY <1>1, <1>2, <2>2, <3>1
  <2>3. CASE /\ files' = files
             /\ pc[t] \in {"active", "read"} /\ pc'[t] \in {"active", "read"}
    <3>1. Cardinality(Readers') = Cardinality(Readers)
      BY <2>3, ReadersStep DEF Readers
    <3> QED
      BY <1>1, <1>2, <2>3, <3>1
  <2> QED
    BY <2>1, <2>2, <2>3
<1>5. files' \in Nat
  BY <1>1, <1>2, <1>3, <1>4
<1> QED
  BY <1>4, <1>5 DEF FilesClosed, Opened, Readers

\* No step inside a call loses a file.
LEMMA InsideFiles ==
  ASSUME DevInv, NEW t \in Threads, Inside(t)
  PROVE  FilesClosed' /\ files' \in Nat /\ UNCHANGED <<handles, unpolled>>
<1>1. UNCHANGED <<handles, unpolled>>
  BY Zenon DEF Inside, libusb_unref_device, destroy_device, OpenDir, ReadDir, StatDescriptors,
     FallBack, ReadBusnum, ReadDevnum, Lookup, usbi_alloc_device, discovered_devs_append,
     InitDevice, OpenNode, GetActiveConfig, ReadDescriptors, usbi_sanitize_device,
     ScanFails, ScanDone, ScanFrame, app
<1> DEFINE Still == /\ Local(t) /\ files' = files
                    /\ pc[t] \notin {"active", "read"} /\ pc'[t] \notin {"active", "read"}
<1>2. ASSUME Still
      PROVE  FilesClosed' /\ files' \in Nat /\ UNCHANGED <<handles, unpolled>>
  BY <1>1, <1>2, FilesKept
<1>3. CASE libusb_unref_device(t)
  <2>1. Local(t) /\ pc'[t] \in {"destroy", "unref", "idle", "next", "fail"} /\ pc[t] = "unref"
    BY <1>3, UnrefIs, ScanFacts DEF Giving_Back
  <2>2. files' = files /\ pc[t] \notin {"active", "read"}
    BY <1>3 DEF libusb_unref_device
  <2> QED
    BY <1>2, <2>1, <2>2
<1>4. CASE destroy_device(t)
  <2>1. Local(t) /\ pc'[t] \in {"unref", "idle", "next", "fail"} /\ pc[t] = "destroy"
    BY <1>4, DestroyIs, ScanFacts DEF Giving_Back
  <2>2. files' = files /\ pc[t] \notin {"active", "read"}
    BY <1>4 DEF destroy_device
  <2> QED
    BY <1>2, <2>1, <2>2
<1>5. CASE OpenDir(t)
  <2>1. Local(t) /\ pc'[t] \in {"next", "unref", "fail"}
    BY <1>5, OpenDirIs DEF Moved, Failing, Giving_Back
  <2>2. files' = files /\ pc[t] \notin {"active", "read"}
    BY <1>5 DEF OpenDir
  <2> QED
    BY <1>2, <2>1, <2>2
<1>6. CASE ReadDir(t)
  <2>1. Local(t) /\ pc'[t] \in {"done", "stat", "lookup"}
    BY <1>6, ReadDirIs DEF Moved, Passing
  <2>2. files' = files /\ pc[t] \notin {"active", "read"}
    BY <1>6 DEF ReadDir
  <2> QED
    BY <1>2, <2>1, <2>2
<1>7. CASE StatDescriptors(t) \/ FallBack(t) \/ ReadBusnum(t) \/ ReadDevnum(t)
  <2>1. Local(t) /\ pc'[t] \in {"busnum", "opendir", "devnum", "lookup", "unref", "fail"}
    BY <1>7, SysfsScanIs DEF Moved, Passing, Failing, Giving_Back
  <2>2. files' = files /\ pc[t] \notin {"active", "read"}
    BY <1>7 DEF StatDescriptors, FallBack, ReadBusnum, ReadDevnum
  <2> QED
    BY <1>2, <2>1, <2>2
<1>8. CASE Lookup(t)
  <2>1. Local(t) /\ pc'[t] \in {"alloc", "append"}
    BY <1>8, LookupIs DEF Moved, Passing
  <2>2. files' = files /\ pc[t] \notin {"active", "read"}
    BY <1>8 DEF Lookup
  <2> QED
    BY <1>2, <2>1, <2>2
<1>9. CASE usbi_alloc_device(t)
  <2>1. Local(t) /\ pc'[t] \in {"init", "unref", "fail"}
    BY <1>9, AllocIs DEF Moved, Failing, Giving_Back
  <2>2. files' = files /\ pc[t] \notin {"active", "read"}
    BY <1>9 DEF usbi_alloc_device
  <2> QED
    BY <1>2, <2>1, <2>2
<1>10. CASE discovered_devs_append(t)
  <2>1. Local(t) /\ pc'[t] \in {"next", "unref", "fail"}
    BY <1>10, AppendIs DEF Failing, Giving_Back
  <2>2. files' = files /\ pc[t] \notin {"active", "read"}
    BY <1>10 DEF discovered_devs_append
  <2> QED
    BY <1>2, <2>1, <2>2
<1>11. CASE InitDevice(t)
  <2>1. Local(t) /\ pc'[t] \in {"sanitize", "open", "unref", "fail"}
    BY <1>11, InitDeviceIs DEF Moved, Passing, Failing, Giving_Back
  <2>2. files' = files /\ pc[t] \notin {"active", "read"}
    BY <1>11 DEF InitDevice
  <2> QED
    BY <1>2, <2>1, <2>2
<1>12. CASE usbi_sanitize_device(t)
  <2>1. Local(t) /\ pc'[t] \in {"append", "unref", "fail"}
    BY <1>12, SanitizeIs DEF Moved, Passing, Failing, Giving_Back
  <2>2. files' = files /\ pc[t] \notin {"active", "read"}
    BY <1>12 DEF usbi_sanitize_device
  <2> QED
    BY <1>2, <2>1, <2>2
<1>13. CASE ScanFails(t)
  <2>1. Local(t) /\ pc'[t] \in {"unref", "idle", "fail"}
    BY <1>13, ScanFailsIs DEF Giving_Back, ScanFails
  <2>2. files' = files /\ pc[t] \notin {"active", "read"}
    BY <1>13 DEF ScanFails
  <2> QED
    BY <1>2, <2>1, <2>2
<1>14. CASE ScanDone(t)
  <2>1. Local(t) /\ pc'[t] \in {"unref", "idle"}
    BY <1>14, ScanDoneIs DEF Moved, Giving_Back
  <2>2. files' = files /\ pc[t] \notin {"active", "read"}
    BY <1>14 DEF ScanDone
  <2> QED
    BY <1>2, <2>1, <2>2
<1>15. CASE OpenNode(t)
  <2>1. /\ Local(t) /\ pc[t] = "open"
        /\ \/ files' = files + 1 /\ pc'[t] \in {"active", "read"}
           \/ files' = files /\ pc'[t] \in {"unref", "fail"}
    BY <1>15, OpenNodeIs DEF Moved, Passing, Failing, Giving_Back, OpenNode
  <2>2. CASE files' = files + 1 /\ pc'[t] \in {"active", "read"}
    BY <1>1, <2>1, <2>2, FilesMoved
  <2>3. CASE files' = files /\ pc'[t] \in {"unref", "fail"}
    <3>1. pc[t] \notin {"active", "read"} /\ pc'[t] \notin {"active", "read"}
      BY <2>1, <2>3
    <3> QED
      BY <1>2, <2>1, <2>3, <3>1
  <2> QED
    BY <2>1, <2>2, <2>3
<1>16. CASE GetActiveConfig(t)
  <2>1. /\ Local(t) /\ pc[t] = "active"
        /\ \/ files' = files /\ pc'[t] = "read"
           \/ files' = files - 1 /\ pc'[t] \in {"unref", "fail"}
    BY <1>16, GetActiveConfigIs DEF Moved, Passing, Failing, Giving_Back, GetActiveConfig
  <2> QED
    BY <1>1, <2>1, FilesMoved
<1>17. CASE ReadDescriptors(t)
  <2>1. /\ Local(t) /\ pc[t] = "read" /\ files' = files - 1
        /\ pc'[t] \in {"sanitize", "unref", "fail"}
    BY <1>17, ReadDescriptorsIs DEF Moved, Passing, Failing, Giving_Back, ReadDescriptors
  <2> QED
    BY <1>1, <2>1, FilesMoved
<1> QED
  BY <1>1, <1>3, <1>4, <1>5, <1>6, <1>7, <1>8, <1>9, <1>10, <1>11, <1>12, <1>13, <1>14,
     <1>15, <1>16, <1>17 DEF Inside

\* Nor does a call that is made.
LEMMA CallFiles ==
  ASSUME DevInv, NEW t \in Threads, Call(t)
  PROVE  /\ FilesClosed' /\ files' \in Nat /\ unpolled' \in Nat
         /\ handles' \in [1 .. MaxHandles -> Objs \cup {0}]
<1>1. /\ files = Cardinality(Opened) + unpolled + Cardinality(Readers)
      /\ Cardinality(Opened) \in Nat /\ Cardinality(Readers) \in Nat /\ unpolled \in Nat
      /\ handles \in [1 .. MaxHandles -> Objs \cup {0}]
  BY FilesAre DEF DevInv, DevicesTypes
<1>2. CASE libusb_get_device_list(t)
  <2>1. UNCHANGED <<files, handles, unpolled>>
    BY <1>2 DEF libusb_get_device_list, app
  <2>2. Local(t) /\ pc[t] = "idle" /\ pc'[t] = "opendir"
    BY <1>2, GetListIs DEF Moved
  <2> QED
    BY <1>1, <2>1, <2>2, FilesKept
<1>3. CASE libusb_free_device_list(t)
  <2>1. UNCHANGED <<files, handles, unpolled>>
    BY <1>3 DEF libusb_free_device_list
  <2>2. Local(t) /\ pc[t] = "idle" /\ pc'[t] \in {"idle", "unref"}
    BY <1>3, FreeListIs DEF Giving_Back
  <2> QED
    BY <1>1, <2>1, <2>2, FilesKept
<1>4. CASE libusb_open(t)
  <2>1. Local(t) /\ pc' = pc
    BY <1>4, OpenIs
  <2>2. Cardinality(Readers') = Cardinality(Readers)
    BY <2>1 DEF Readers
  <2>3. PICK o \in Range(lists[t]) \cap Objs, h \in 1 .. MaxHandles :
          /\ handles[h] = 0
          /\ \/ /\ Works /\ Ref(o) /\ files' = files + 1
                /\ handles' = [handles EXCEPT ![h] = o] /\ UNCHANGED unpolled
             \/ /\ Fails(t) /\ files' = files + 1 /\ unpolled' = unpolled + 1
                /\ UNCHANGED <<ldev, health, handles>>
    BY <1>4, OpenIs
  <2>4. CASE /\ files' = files + 1 /\ handles' = [handles EXCEPT ![h] = o]
             /\ UNCHANGED unpolled
    <3>1. o # 0
      BY DeviceNumbers DEF Objs
    <3>2. Cardinality(Opened') = Cardinality(Opened) + 1
      BY <2>3, <2>4, <3>1, OpenedStep
    <3>3. files' = Cardinality(Opened') + unpolled' + Cardinality(Readers') /\ files' \in Nat
      BY <1>1, <2>2, <2>4, <3>2
    <3>4. handles' \in [1 .. MaxHandles -> Objs \cup {0}]
      BY <2>4, OpenedStep
    <3> QED
      BY <1>1, <2>4, <3>3, <3>4 DEF FilesClosed, Opened, Readers
  <2>5. CASE files' = files + 1 /\ unpolled' = unpolled + 1 /\ UNCHANGED handles
    <3>1. Opened' = Opened
      BY <2>5 DEF Opened
    <3>2. files' = Cardinality(Opened') + unpolled' + Cardinality(Readers')
          /\ files' \in Nat /\ unpolled' \in Nat
      BY <1>1, <2>2, <2>5, <3>1
    <3> QED
      BY <1>1, <2>5, <3>2 DEF FilesClosed, Opened, Readers
  <2> QED
    BY <2>3, <2>4, <2>5
<1>5. CASE libusb_close(t)
  <2>1. /\ Local(t) /\ pc[t] = "idle" /\ unpolled' = unpolled /\ files' = files - 1
        /\ pc'[t] \in {"unref", "idle"}
    BY <1>5, CloseIs DEF Giving_Back, libusb_close
  <2>2. t \notin Readers /\ t \notin Readers'
    BY <2>1 DEF Readers
  <2>3. Cardinality(Readers') = Cardinality(Readers)
    BY <2>1, <2>2, ReadersStep
  <2>4. PICK h \in 1 .. MaxHandles : handles[h] # 0 /\ handles' = [handles EXCEPT ![h] = 0]
    BY <1>5, CloseIs
  <2>5. /\ Cardinality(Opened') = Cardinality(Opened) - 1 /\ Cardinality(Opened) >= 1
        /\ handles' \in [1 .. MaxHandles -> Objs \cup {0}]
    BY <2>4, OpenedStep
  <2>6. files' = Cardinality(Opened') + unpolled' + Cardinality(Readers') /\ files' \in Nat
    BY <1>1, <2>1, <2>3, <2>5
  <2> QED
    BY <1>1, <2>1, <2>5, <2>6 DEF FilesClosed, Opened, Readers
<1> QED
  BY <1>2, <1>3, <1>4, <1>5 DEF Call

\* What a step does with the table of devices: it changes one of them.
DevChanged(o, a, refcnt, dir, desc, state) ==
  /\ ldev' \in [Objs -> Devs]
  /\ ldev'[o].addr = a /\ ldev'[o].refcnt = refcnt /\ ldev'[o].dir = dir
  /\ ldev'[o].desc = desc /\ ldev'[o].state = state
  /\ \A p \in Objs : p # o => ldev'[p] = ldev[p]

LEMMA DevTypes ==
  ASSUME DevInv
  PROVE  /\ ldev \in [Objs -> Devs] /\ usb_devs \in Seq(Objs)
         /\ \A o \in Objs : /\ ldev[o].refcnt \in Nat /\ ldev[o].addr \in Addrs \cup {0}
                            /\ ldev[o].dir \in BOOLEAN /\ ldev[o].desc \in BOOLEAN
                            /\ ldev[o].state \in {"none", "live", "freed"}
BY DEF DevInv, DevicesTypes, Devs

LEMMA RefIs ==
  ASSUME DevInv, NEW o \in Objs, Ref(o)
  PROVE  DevChanged(o, ldev[o].addr, ldev[o].refcnt + 1, ldev[o].dir, ldev[o].desc,
                    ldev[o].state)
<1>1. ldev \in [Objs -> Devs] /\ ldev[o].refcnt + 1 \in Nat
  BY DevTypes
<1>2. PICK n \in Nat : n = ldev[o].refcnt + 1
  BY <1>1
<1>3. ldev' = [ldev EXCEPT ![o].refcnt = n]
  BY <1>2 DEF Ref
<1>4. /\ ldev' \in [Objs -> Devs] /\ ldev'[o].refcnt = n
      /\ ldev'[o].addr = ldev[o].addr /\ ldev'[o].dir = ldev[o].dir
      /\ ldev'[o].desc = ldev[o].desc /\ ldev'[o].state = ldev[o].state
      /\ \A p \in Objs : p # o => ldev'[p] = ldev[p]
  BY <1>1, <1>3 DEF Devs
<1> QED
  BY <1>2, <1>4 DEF DevChanged

LEMMA UnrefedIs ==
  ASSUME DevInv, NEW t \in Threads, libusb_unref_device(t), NEW o \in Objs, o = Head(drop[t]),
         ldev[o].refcnt >= 1
  PROVE  /\ DevChanged(o, ldev[o].addr, ldev[o].refcnt - 1, ldev[o].dir, ldev[o].desc,
                       ldev[o].state)
         /\ usb_devs' = usb_devs
<1>1. ldev \in [Objs -> Devs] /\ ldev[o].refcnt - 1 \in Nat
  BY DevTypes
<1>2. PICK n \in Nat : n = ldev[o].refcnt - 1
  BY <1>1
<1>3. ldev' = [ldev EXCEPT ![o].refcnt = n] /\ usb_devs' = usb_devs
  BY <1>2 DEF libusb_unref_device
<1>4. /\ ldev' \in [Objs -> Devs] /\ ldev'[o].refcnt = n
      /\ ldev'[o].addr = ldev[o].addr /\ ldev'[o].dir = ldev[o].dir
      /\ ldev'[o].desc = ldev[o].desc /\ ldev'[o].state = ldev[o].state
      /\ \A p \in Objs : p # o => ldev'[p] = ldev[p]
  BY <1>1, <1>3 DEF Devs
<1> QED
  BY <1>2, <1>3, <1>4 DEF DevChanged

\* A sequence without one of its elements.
LEMMA RemovedAt ==
  ASSUME NEW S, NEW s \in Seq(S), NEW k \in 1 .. Len(s)
  PROVE  /\ RemoveAt(s, k) \in Seq(S) /\ Range(RemoveAt(s, k)) \subseteq Range(s)
         /\ \A x \in Range(s) : x # s[k] => x \in Range(RemoveAt(s, k))
<1> DEFINE n == Len(s)
           a == SubSeq(s, 1, k - 1)
           b == SubSeq(s, k + 1, n)
<1>1. n \in Nat /\ DOMAIN s = 1 .. n /\ \A i \in 1 .. n : s[i] \in S
  BY LenProperties, ElementOfSeq
<1> HIDE DEF n
<1>2. k \in 1 .. n
  BY DEF n
<1>3. /\ a \in Seq(S) /\ Len(a) = k - 1 /\ \A i \in 1 .. k - 1 : a[i] = s[i]
  <2>1. \A i \in 1 .. k - 1 : s[i] \in S
    BY <1>1, <1>2
  <2>2. /\ a \in Seq(S) /\ Len(a) = IF 1 <= k - 1 THEN k - 1 - 1 + 1 ELSE 0
        /\ \A i \in 1 .. k - 1 - 1 + 1 : a[i] = s[1 + i - 1]
    BY <1>2, <2>1, SubSeqProperties
  <2> HIDE DEF a
  <2>3. \A i \in 1 .. k - 1 : i \in 1 .. k - 1 - 1 + 1 /\ 1 + i - 1 = i
    BY <1>1, <1>2
  <2>4. \A i \in 1 .. k - 1 : a[i] = s[i]
    BY <2>2, <2>3
  <2> QED
    BY <1>1, <1>2, <2>2, <2>4
<1>4. /\ b \in Seq(S) /\ Len(b) = n - k /\ \A i \in 1 .. n - k : b[i] = s[k + i]
  <2>1. \A i \in k + 1 .. n : s[i] \in S
    BY <1>1, <1>2
  <2>2. /\ b \in Seq(S) /\ Len(b) = IF k + 1 <= n THEN n - (k + 1) + 1 ELSE 0
        /\ \A i \in 1 .. n - (k + 1) + 1 : b[i] = s[k + 1 + i - 1]
    BY <1>1, <1>2, <2>1, SubSeqProperties
  <2> HIDE DEF b
  <2>3. \A i \in 1 .. n - k : i \in 1 .. n - (k + 1) + 1 /\ k + 1 + i - 1 = k + i
    BY <1>1, <1>2
  <2>4. \A i \in 1 .. n - k : b[i] = s[k + i]
    BY <2>2, <2>3
  <2> QED
    BY <1>1, <1>2, <2>2, <2>4
<1> DEFINE r == a \o b
<1>5. RemoveAt(s, k) = r
  BY DEF RemoveAt, n
<1> HIDE DEF a, b
<1>6. /\ r \in Seq(S) /\ Len(r) = n - 1
      /\ \A i \in 1 .. n - 1 : r[i] = IF i <= k - 1 THEN s[i] ELSE s[i + 1]
  <2>1. /\ r \in Seq(S) /\ Len(r) = Len(a) + Len(b)
        /\ \A i \in 1 .. Len(a) + Len(b) : r[i] = IF i <= Len(a) THEN a[i] ELSE b[i - Len(a)]
    BY <1>3, <1>4, ConcatProperties
  <2> HIDE DEF r
  <2>2. Len(a) + Len(b) = n - 1
    BY <1>1, <1>2, <1>3, <1>4
  <2>3. ASSUME NEW i \in 1 .. n - 1
        PROVE  r[i] = IF i <= k - 1 THEN s[i] ELSE s[i + 1]
    <3>1. r[i] = IF i <= k - 1 THEN a[i] ELSE b[i - (k - 1)]
      BY <1>3, <2>1, <2>2
    <3>2. CASE i <= k - 1
      <4>1. i \in 1 .. k - 1
        BY <1>2, <3>2
      <4> QED
        BY <1>3, <3>1, <3>2, <4>1
    <3>3. CASE ~ (i <= k - 1)
      <4>1. i - (k - 1) \in 1 .. n - k /\ k + (i - (k - 1)) = i + 1
        BY <1>1, <1>2, <3>3
      <4>2. b[i - (k - 1)] = s[i + 1]
        BY <1>4, <4>1
      <4> QED
        BY <3>1, <3>3, <4>2
    <3> QED
      BY <3>2, <3>3
  <2> QED
    BY <2>1, <2>2, <2>3
<1> HIDE DEF r
<1>7. DOMAIN r = 1 .. n - 1
  BY <1>6, LenProperties
<1>8. Range(r) \subseteq Range(s)
  <2> SUFFICES ASSUME NEW i \in 1 .. n - 1 PROVE \E j \in 1 .. n : r[i] = s[j]
    BY <1>1, <1>7 DEF Range
  <2>1. i \in 1 .. n /\ i + 1 \in 1 .. n
    BY <1>1
  <2> QED
    BY <1>6, <2>1
<1>9. ASSUME NEW x \in Range(s), x # s[k] PROVE x \in Range(r)
  <2>1. PICK j \in 1 .. n : x = s[j]
    BY <1>1 DEF Range
  <2>2. j # k
    BY <1>9, <2>1
  <2>3. CASE j < k
    <3>1. j \in 1 .. n - 1 /\ j <= k - 1
      BY <1>1, <1>2, <2>3
    <3> QED
      BY <1>6, <1>7, <2>1, <3>1 DEF Range
  <2>4. CASE j > k
    <3>1. j - 1 \in 1 .. n - 1 /\ ~ (j - 1 <= k - 1) /\ j - 1 + 1 = j
      BY <1>1, <1>2, <2>4
    <3>2. r[j - 1] = s[j]
      BY <1>6, <3>1
    <3> QED
      BY <1>7, <2>1, <3>1, <3>2 DEF Range
  <2> QED
    BY <1>1, <1>2, <2>2, <2>3, <2>4
<1> QED
  BY <1>5, <1>6, <1>8, <1>9

LEMMA DestroyedIs ==
  ASSUME DevInv, NEW t \in Threads, destroy_device(t), NEW o \in Objs, o = Head(drop[t])
  PROVE  /\ DevChanged(o, ldev[o].addr, ldev[o].refcnt, FALSE, FALSE, "freed")
         /\ usb_devs' \in Seq(Objs) /\ Range(usb_devs') \subseteq Range(usb_devs)
         /\ \A p \in Range(usb_devs) : p # o => p \in Range(usb_devs')
<1>1. ldev \in [Objs -> Devs] /\ usb_devs \in Seq(Objs)
  BY DevTypes
<1>2. /\ ldev' = [ldev EXCEPT ![o].state = "freed", ![o].dir = FALSE, ![o].desc = FALSE]
      /\ usb_devs' = IF o \in Range(usb_devs) THEN RemoveAt(usb_devs, Newest({o})) ELSE usb_devs
  BY DEF destroy_device
<1>3. /\ ldev' \in [Objs -> Devs] /\ ldev'[o].refcnt = ldev[o].refcnt
      /\ ldev'[o].addr = ldev[o].addr /\ ldev'[o].dir = FALSE
      /\ ldev'[o].desc = FALSE /\ ldev'[o].state = "freed"
      /\ \A p \in Objs : p # o => ldev'[p] = ldev[p]
  <2>1. PICK d \in Devs : d = ldev[o]
    BY <1>1
  <2>2. PICK freed : freed = [d EXCEPT !.state = "freed", !.dir = FALSE, !.desc = FALSE]
    OBVIOUS
  <2>3. freed \in Devs
    BY <2>1, <2>2 DEF Devs
  <2>4. /\ freed.addr = d.addr /\ freed.refcnt = d.refcnt
        /\ freed.dir = FALSE /\ freed.desc = FALSE /\ freed.state = "freed"
    BY <2>1, <2>2 DEF Devs
  <2>5. ldev' = [ldev EXCEPT ![o] = freed]
    BY <1>1, <1>2, <2>1, <2>2
  <2> QED
    BY <1>1, <2>1, <2>3, <2>4, <2>5
<1>4. CASE o \in Range(usb_devs)
  <2>1. Newest({o}) \in 1 .. Len(usb_devs) /\ usb_devs[Newest({o})] = o
    <3>1. PICK objs : objs = {o}
      OBVIOUS
    <3>2. o \in objs
      BY <3>1
    <3>3. Newest(objs) \in 1 .. Len(usb_devs) /\ usb_devs[Newest(objs)] \in objs
      BY <1>4, <3>2, NewestIs
    <3> QED
      BY <3>1, <3>3
  <2>2. usb_devs' = RemoveAt(usb_devs, Newest({o}))
    BY <1>2, <1>4
  <2> QED
    BY <1>1, <1>3, <2>1, <2>2, RemovedAt DEF DevChanged
<1>5. CASE o \notin Range(usb_devs)
  BY <1>1, <1>2, <1>3, <1>5 DEF DevChanged
<1> QED
  BY <1>4, <1>5

LEMMA AllocatedIs ==
  ASSUME DevInv, NEW o \in Objs, NEW a \in Addrs \cup {0},
         ldev' = [ldev EXCEPT ![o] = [NoDev EXCEPT !.addr = a, !.refcnt = 1, !.state = "live"]],
         usb_devs' = <<o>> \o usb_devs
  PROVE  /\ DevChanged(o, a, 1, FALSE, FALSE, "live")
         /\ usb_devs' \in Seq(Objs) /\ Range(usb_devs') = Range(usb_devs) \cup {o}
<1>1. ldev \in [Objs -> Devs] /\ usb_devs \in Seq(Objs)
  BY DevTypes
<1> DEFINE new == [NoDev EXCEPT !.addr = a, !.refcnt = 1, !.state = "live"]
<1>2. /\ new \in Devs /\ new.addr = a /\ new.refcnt = 1 /\ new.state = "live"
      /\ new.dir = FALSE /\ new.desc = FALSE
  BY DEF NoDev, Devs
<1> HIDE DEF new
<1>3. ldev' = [ldev EXCEPT ![o] = new]
  BY DEF new
<1>4. DevChanged(o, a, 1, FALSE, FALSE, "live")
  BY <1>1, <1>2, <1>3 DEF DevChanged
<1> DEFINE n == Len(usb_devs)
<1>5. /\ usb_devs' \in Seq(Objs) /\ Len(usb_devs') = n + 1 /\ n \in Nat
      /\ \A i \in 1 .. n + 1 : usb_devs'[i] = IF i <= 1 THEN o ELSE usb_devs[i - 1]
      /\ DOMAIN usb_devs = 1 .. n /\ DOMAIN usb_devs' = 1 .. n + 1
  <2>1. <<o>> \in Seq(Objs) /\ Len(<<o>>) = 1 /\ <<o>>[1] = o
    OBVIOUS
  <2>2. n \in Nat /\ DOMAIN usb_devs = 1 .. n
    BY <1>1, LenProperties
  <2>3. /\ <<o>> \o usb_devs \in Seq(Objs) /\ Len(<<o>> \o usb_devs) = 1 + n
        /\ \A i \in 1 .. 1 + n : (<<o>> \o usb_devs)[i] =
                                   IF i <= 1 THEN <<o>>[i] ELSE usb_devs[i - 1]
    BY <1>1, <2>1, ConcatProperties
  <2>4. usb_devs' \in Seq(Objs) /\ Len(usb_devs') = n + 1
    BY <2>2, <2>3
  <2>5. \A i \in 1 .. n + 1 : usb_devs'[i] = IF i <= 1 THEN o ELSE usb_devs[i - 1]
    BY <2>1, <2>2, <2>3
  <2> QED
    BY <2>2, <2>4, <2>5, LenProperties
<1> HIDE DEF n
<1>6. Range(usb_devs') \subseteq Range(usb_devs) \cup {o}
  <2> SUFFICES ASSUME NEW i \in 1 .. n + 1, i > 1
               PROVE  usb_devs'[i] \in Range(usb_devs)
    BY <1>5 DEF Range
  <2>1. i - 1 \in 1 .. n
    BY <1>5
  <2> QED
    BY <1>5, <2>1 DEF Range
<1>7. Range(usb_devs) \subseteq Range(usb_devs')
  <2> SUFFICES ASSUME NEW i \in 1 .. n PROVE \E j \in 1 .. n + 1 : usb_devs'[j] = usb_devs[i]
    BY <1>5 DEF Range
  <2>1. i + 1 \in 1 .. n + 1 /\ ~ (i + 1 <= 1) /\ i + 1 - 1 = i
    BY <1>5
  <2> QED
    BY <1>5, <2>1
<1>8. o \in Range(usb_devs')
  <2>1. 1 \in 1 .. n + 1
    BY <1>5
  <2> QED
    BY <1>5, <2>1 DEF Range
<1> QED
  BY <1>4, <1>5, <1>6, <1>7, <1>8

\* A device's directory is remembered (initialize_device), or its descriptors
\* are cached.
LEMMA DirIs ==
  ASSUME DevInv, NEW o \in Objs, NEW yes \in BOOLEAN, ldev' = [ldev EXCEPT ![o].dir = yes]
  PROVE  DevChanged(o, ldev[o].addr, ldev[o].refcnt, yes, ldev[o].desc, ldev[o].state)
<1>1. ldev \in [Objs -> Devs]
  BY DevTypes
<1> QED
  BY <1>1 DEF DevChanged, Devs

LEMMA DescIs ==
  ASSUME DevInv, NEW o \in Objs, ldev' = [ldev EXCEPT ![o].desc = TRUE]
  PROVE  DevChanged(o, ldev[o].addr, ldev[o].refcnt, ldev[o].dir, TRUE, ldev[o].state)
<1>1. ldev \in [Objs -> Devs]
  BY DevTypes
<1> QED
  BY <1>1 DEF DevChanged, Devs

\* The references to o of a thread with list l, collection d, w references to
\* the device it makes and references r to give back at place p.
HeldOf(l, d, r, w, p, o) ==
  Count(l, o) + Count(d, o) + Count(r, o) + w
    - (IF p = "destroy" /\ Head(r) = o THEN 1 ELSE 0)

\* One when o is the device that t makes.
NewRef(t, o) == IF scan[t].fresh /\ scan[t].cur = o THEN 1 ELSE 0

LEMMA HeldOfNat ==
  ASSUME NEW l \in Seq(Objs), NEW d \in Seq(Objs), NEW r \in Seq(Objs), NEW w \in {0, 1}, NEW p,
         NEW o, p = "destroy" => r # <<>>
  PROVE  /\ HeldOf(l, d, r, w, p, o) \in Nat
         /\ o \in Range(l) => HeldOf(l, d, r, w, p, o) >= 1
         /\ o \in Range(d) => HeldOf(l, d, r, w, p, o) >= 1
         /\ w = 1 => HeldOf(l, d, r, w, p, o) >= 1
         /\ p # "destroy" /\ o \in Range(r) => HeldOf(l, d, r, w, p, o) >= 1
<1>1. PICK x \in Nat, y \in Nat, z \in Nat : x = Count(l, o) /\ y = Count(d, o) /\ z = Count(r, o)
  BY CountSeq
<1>3. PICK v \in {0, 1} : v = IF p = "destroy" /\ Head(r) = o THEN 1 ELSE 0
  OBVIOUS
<1>4. v = 1 => z >= 1
  <2> SUFFICES ASSUME v = 1 PROVE z >= 1
    OBVIOUS
  <2>1. p = "destroy" /\ Head(r) = o
    BY <1>3
  <2>2. r # <<>>
    BY <2>1
  <2>3. Len(r) \in Nat \ {0} /\ DOMAIN r = 1 .. Len(r) /\ Head(r) = r[1]
    BY <2>2, EmptySeq, LenProperties, HeadTailProperties
  <2>4. o \in Range(r)
    BY <2>1, <2>3 DEF Range
  <2> QED
    BY <1>1, <2>4, CountSeq
<1>5. /\ o \in Range(l) => x >= 1
      /\ o \in Range(d) => y >= 1
      /\ o \in Range(r) => z >= 1
      /\ p # "destroy" => v = 0
  BY <1>1, <1>3, CountSeq
<1>6. HeldOf(l, d, r, w, p, o) = x + y + z + w - v
  BY <1>1, <1>3 DEF HeldOf
<1>7. PICK h : h = HeldOf(l, d, r, w, p, o)
  OBVIOUS
<1>8. h = x + y + z + w - v
  BY <1>6, <1>7
<1>9. h \in Nat /\ (x >= 1 => h >= 1) /\ (y >= 1 => h >= 1) /\ (w = 1 => h >= 1)
      /\ (z >= 1 /\ v = 0 => h >= 1)
  BY <1>4, <1>8
<1> QED
  BY <1>5, <1>7, <1>9

\* All references to o: those of handles and those of threads.
LEMMA HoldersAre ==
  ASSUME DevInv, NEW o \in Objs
  PROVE  /\ Holders(o) = Count(handles, o) + Total([t \in Threads |-> HeldBy(t, o)])
         /\ [t \in Threads |-> HeldBy(t, o)] \in [Threads -> Nat]
         /\ Count(handles, o) \in Nat
         /\ \A t \in Threads : /\ HeldBy(t, o) \in Nat /\ Holders(o) >= HeldBy(t, o)
                               /\ HeldBy(t, o) = HeldOf(lists[t], scan[t].devs, drop[t],
                                                        NewRef(t, o), pc[t], o)
         /\ \A h \in 1 .. MaxHandles : handles[h] = o => Holders(o) >= 1
         /\ Holders(o) = 0 => Count(handles, o) = 0 /\ \A t \in Threads : HeldBy(t, o) = 0
<1> DEFINE n == [t \in Threads |-> HeldBy(t, o)]
<1>1. ASSUME NEW t \in Threads
      PROVE  /\ HeldBy(t, o) \in Nat
             /\ HeldBy(t, o) = HeldOf(lists[t], scan[t].devs, drop[t], NewRef(t, o), pc[t], o)
  <2>1. /\ lists[t] \in Seq(Objs) /\ scan[t].devs \in Seq(Objs) /\ drop[t] \in Seq(Objs)
        /\ pc[t] = "destroy" => drop[t] # <<>>
    BY ScanFacts DEF Giving
  <2>2. HeldBy(t, o) = HeldOf(lists[t], scan[t].devs, drop[t], NewRef(t, o), pc[t], o)
    BY DEF HeldBy, HeldOf, NewRef
  <2>3. NewRef(t, o) \in {0, 1}
    BY DEF NewRef
  <2> QED
    BY <2>1, <2>2, <2>3, HeldOfNat
<1>2. n \in [Threads -> Nat] /\ \A t \in Threads : n[t] = HeldBy(t, o)
  BY <1>1
<1>3. Holders(o) = Count(handles, o) + Total(n)
  BY DEF Holders, Total
<1>4. /\ handles \in [1 .. MaxHandles -> Objs \cup {0}] /\ MaxHandles \in Nat
      /\ DOMAIN handles = 1 .. MaxHandles
  BY DeviceNumbers DEF DevInv, DevicesTypes
<1>5. /\ Count(handles, o) \in Nat
      /\ \A h \in 1 .. MaxHandles : handles[h] = o => Count(handles, o) >= 1
  BY <1>4, CountNat
<1> HIDE DEF n
<1>6. \A t \in Threads : Total(n) >= n[t] /\ Total(n) \in Nat
  BY <1>2, DeviceNumbers, TotalStep
<1>7. Total(n) \in Nat
  <2>1. CASE Threads = {}
    <3>1. Total(n) = 0
      BY <2>1, FS_EmptySet DEF Total
    <3> QED
      BY <3>1
  <2> QED
    BY <1>6, <2>1
<1>8. \A t \in Threads : Holders(o) >= HeldBy(t, o)
  BY <1>2, <1>3, <1>5, <1>6
<1>9. \A h \in 1 .. MaxHandles : handles[h] = o => Holders(o) >= 1
  BY <1>3, <1>5, <1>7
<1>10. Holders(o) = 0 => Count(handles, o) = 0 /\ \A t \in Threads : HeldBy(t, o) = 0
  BY <1>1, <1>3, <1>5, <1>7, <1>8
<1> QED
  BY <1>1, <1>2, <1>3, <1>5, <1>8, <1>9, <1>10 DEF n

\* A step of t changes the references to o by as much as those of t and those
\* of handles.
LEMMA HoldersStep ==
  ASSUME DevInv, NEW t \in Threads, Local(t), NEW o \in Objs,
         NEW j \in Int, HeldBy(t, o)' = HeldBy(t, o) + j, HeldBy(t, o)' \in Nat,
         NEW k \in Int, Count(handles', o) = Count(handles, o) + k
  PROVE  Holders(o)' = Holders(o) + j + k
<1> DEFINE n == [u \in Threads |-> HeldBy(u, o)]
           m == [u \in Threads |-> HeldBy(u, o)']
<1>1. \A u \in Threads : u # t => HeldBy(u, o)' = HeldBy(u, o)
  BY DEF Local, Others, View, HeldBy
<1>2. /\ n \in [Threads -> Nat] /\ Holders(o) = Count(handles, o) + Total(n)
      /\ Count(handles, o) \in Nat /\ \A u \in Threads : HeldBy(u, o) \in Nat
  BY HoldersAre
<1>3. Holders(o)' = Count(handles', o) + Total(m)
  BY DEF Holders, Total, Count
<1>4. m \in [Threads -> Nat]
  <2>1. \A u \in Threads : HeldBy(u, o)' \in Nat
    BY <1>1, <1>2
  <2> QED
    BY <2>1
<1>5. /\ \A u \in Threads : u # t => m[u] = n[u]
      /\ m[t] = HeldBy(t, o)' /\ n[t] = HeldBy(t, o)
  BY <1>1
<1> HIDE DEF n, m
<1>6. Total(n) \in Nat /\ Total(m) = Total(n) - n[t] + m[t]
  BY <1>2, <1>4, <1>5, DeviceNumbers, TotalStep
<1>7. PICK a \in Nat, b \in Nat, c \in Nat :
        a = Count(handles, o) /\ b = Total(n) /\ c = n[t]
  BY <1>2, <1>5, <1>6
<1>8. m[t] = c + j
  BY <1>5, <1>7
<1>9. Total(m) = b + j
  BY <1>6, <1>7, <1>8
<1> QED
  BY <1>2, <1>3, <1>7, <1>9

\* What t holds after a step, in terms of what it has then.
LEMMA HeldNext ==
  ASSUME NEW t, NEW o
  PROVE  HeldBy(t, o)' = HeldOf(lists'[t], scan'[t].devs, drop'[t], NewRef(t, o)', pc'[t], o)
BY DEF HeldBy, HeldOf, NewRef, Count

\* Steps that only move t.
LEMMA HeldPassing ==
  ASSUME DevInv, NEW t \in Threads, NEW o \in Objs,
         lists'[t] = lists[t], drop'[t] = drop[t], scan'[t].devs = scan[t].devs,
         scan'[t].fresh <=> scan[t].fresh, scan[t].fresh => scan'[t].cur = scan[t].cur,
         pc[t] # "destroy", pc'[t] # "destroy"
  PROVE  HeldBy(t, o)' = HeldBy(t, o)
BY DEF HeldBy, Count

\* The reference of the device that t makes.
LEMMA NewRefIs ==
  ASSUME NEW t \in Threads, NEW o
  PROVE  NewRef(t, o) \in {0, 1} /\ Count(FirstRef(t), o) = NewRef(t, o)
<1>1. CASE scan[t].fresh
  BY <1>1, CountShort DEF FirstRef, NewRef
<1>2. CASE ~scan[t].fresh
  BY <1>2, CountShort DEF FirstRef, NewRef
<1> QED
  BY <1>1, <1>2

\* Steps at which the scan of t fails.
LEMMA HeldFails ==
  ASSUME DevInv, NEW t \in Threads, NEW o \in Objs,
         lists'[t] = lists[t], pc[t] \notin Giving, Failing(t)
  PROVE  HeldBy(t, o)' = HeldBy(t, o)
<1>1. /\ lists[t] \in Seq(Objs) /\ scan[t].devs \in Seq(Objs) /\ drop[t] = <<>>
  BY ScanFacts
<1>2. /\ drop'[t] = FirstRef(t) /\ pc'[t] # "destroy" /\ scan'[t].devs = scan[t].devs
      /\ ~scan'[t].fresh
  BY DEF Failing, Giving_Back, Same
<1>3. NewRef(t, o)' = 0
  BY <1>2 DEF NewRef
<1>4. HeldBy(t, o) = HeldOf(lists[t], scan[t].devs, <<>>, NewRef(t, o), pc[t], o)
  BY <1>1, HoldersAre
<1>5. HeldBy(t, o)' = HeldOf(lists[t], scan[t].devs, FirstRef(t), 0, pc'[t], o)
  BY <1>2, <1>3, HeldNext
<1>6. pc[t] # "destroy"
  BY DEF Giving
<1>7. PICK r, w, pp : r = FirstRef(t) /\ w = NewRef(t, o) /\ pp = pc'[t]
  OBVIOUS
<1>8. w \in {0, 1} /\ Count(r, o) = w
  <2>1. NewRef(t, o) \in {0, 1} /\ Count(FirstRef(t), o) = NewRef(t, o)
    BY NewRefIs
  <2> QED
    BY <1>7, <2>1, Zenon
<1>8a. PICK p : p = pc[t]
  OBVIOUS
<1>9. PICK l \in Seq(Objs), d \in Seq(Objs) : l = lists[t] /\ d = scan[t].devs
  BY <1>1
<1>10. p # "destroy" /\ pp # "destroy"
  BY <1>2, <1>6, <1>7, <1>8a, <1>9
<1>11. HeldOf(l, d, r, 0, pp, o) = HeldOf(l, d, <<>>, w, p, o)
  <2>1. PICK x \in Nat, y \in Nat : x = Count(l, o) /\ y = Count(d, o)
    BY CountSeq
  <2>2. Count(<<>>, o) = 0
    BY CountShort
  <2> QED
    BY <1>8, <1>10, <2>1, <2>2 DEF HeldOf
<1> QED
  BY <1>4, <1>5, <1>7, <1>8a, <1>9, <1>11

\* The last part of Counted, by itself.
Dying(o) == \E t \in Threads : pc[t] = "destroy" /\ Head(drop[t]) = o

\* A device that is being destroyed by others is so after a step of t.
LEMMA DyingKept ==
  ASSUME NEW t \in Threads, Local(t), pc[t] # "destroy", NEW o, Dying(o)
  PROVE  Dying(o)'
<1>1. PICK u \in Threads : pc[u] = "destroy" /\ Head(drop[u]) = o
  BY DEF Dying
<1>2. pc'[u] = pc[u] /\ drop'[u] = drop[u]
  BY <1>1 DEF Local, Others, View
<1> QED
  BY <1>1, <1>2 DEF Dying

\* Steps that change no number of references.
LEMMA CountedKept ==
  ASSUME DevInv, NEW t \in Threads, Local(t), pc[t] # "destroy",
         \A o \in Objs : HeldBy(t, o)' = HeldBy(t, o),
         handles' = handles, usb_devs' = usb_devs,
         \A o \in Objs : /\ ldev'[o].refcnt = ldev[o].refcnt /\ ldev'[o].state = ldev[o].state
                         /\ ldev[o].state = "none" => ldev'[o] = ldev[o]
  PROVE  Counted'
<1> SUFFICES ASSUME NEW o \in Objs
             PROVE  /\ ldev'[o].refcnt = Holders(o)'
                    /\ ldev'[o].state = "none" => ldev'[o] = NoDev
                    /\ o \in Range(usb_devs') => ldev'[o].state # "none"
                    /\ ldev'[o].state = "live" =>
                         o \in Range(usb_devs') /\ (ldev'[o].refcnt = 0 => Dying(o)')
  BY DEF Counted, Dying
<1>1. /\ ldev[o].refcnt = Holders(o)
      /\ ldev[o].state = "none" => ldev[o] = NoDev
      /\ o \in Range(usb_devs) => ldev[o].state # "none"
      /\ ldev[o].state = "live" =>
           o \in Range(usb_devs) /\ (ldev[o].refcnt = 0 => Dying(o))
  BY DEF DevInv, Counted, Dying
<1>2. HeldBy(t, o) \in Nat /\ ldev[o].refcnt \in Nat
  BY HoldersAre, DevTypes
<1>3. Holders(o)' = Holders(o) + 0 + 0
  <2>1. Count(handles, o) \in Nat
    BY HoldersAre
  <2>2. HeldBy(t, o)' = HeldBy(t, o) + 0 /\ HeldBy(t, o)' \in Nat
    BY <1>2
  <2>3. Count(handles', o) = Count(handles, o) + 0
    BY <2>1
  <2>4. PICK z \in Int : z = 0
    OBVIOUS
  <2>5. Holders(o)' = Holders(o) + z + z
    BY <2>2, <2>3, <2>4, HoldersStep
  <2> QED
    BY <2>4, <2>5
<1>4. ldev'[o].refcnt = Holders(o)'
  BY <1>1, <1>2, <1>3
<1>5. Dying(o) => Dying(o)'
  BY DyingKept
<1> QED
  BY <1>1, <1>4, <1>5

\* The references of a thread that gives one back.
LEMMA HeldUnrefs ==
  ASSUME DevInv, NEW t \in Threads, NEW o \in Objs, pc[t] \in Giving,
         scan'[t] = scan[t], lists'[t] = lists[t]
  PROVE  /\ pc[t] = "unref" /\ pc'[t] = "destroy" /\ drop'[t] = drop[t] =>
              HeldBy(t, o)' = HeldBy(t, o) - Is(Head(drop[t]), o)
         /\ pc[t] = "unref" /\ Giving_Back(t, Tail(drop[t]), Toward(t)) =>
              HeldBy(t, o)' = HeldBy(t, o) - Is(Head(drop[t]), o)
         /\ pc[t] = "destroy" /\ Giving_Back(t, Tail(drop[t]), Toward(t)) =>
              HeldBy(t, o)' = HeldBy(t, o)
<1>1. /\ lists[t] \in Seq(Objs) /\ scan[t].devs \in Seq(Objs) /\ drop[t] \in Seq(Objs)
      /\ drop[t] # <<>> /\ scan[t].fresh \in BOOLEAN
  BY ScanFacts
<1>2. PICK x \in Nat, y \in Nat, z \in Nat :
        /\ x = Count(lists[t], o) /\ y = Count(scan[t].devs, o) /\ z = Count(Tail(drop[t]), o)
  <2>1. Tail(drop[t]) \in Seq(Objs)
    BY <1>1
  <2> QED
    BY <1>1, <2>1, CountSeq
<1>3. PICK i \in {0, 1} : i = Is(Head(drop[t]), o)
  BY DEF Is
<1>4. Count(drop[t], o) = z + i
  BY <1>1, <1>2, <1>3, CountTail DEF Is
<1>5. PICK w \in {0, 1} : w = NewRef(t, o)
  BY DEF NewRef
<1>6. NewRef(t, o)' = w
  BY <1>5 DEF NewRef
<1>7. /\ pc[t] = "unref" => HeldBy(t, o) = x + y + (z + i) + w
      /\ pc[t] = "destroy" => HeldBy(t, o) = x + y + (z + i) + w - i
  <2>1. HeldBy(t, o) = HeldOf(lists[t], scan[t].devs, drop[t], NewRef(t, o), pc[t], o)
    BY HoldersAre
  <2> QED
    BY <1>2, <1>3, <1>4, <1>5, <2>1 DEF HeldOf, Is
<1>8. HeldBy(t, o)' = HeldOf(lists[t], scan[t].devs, drop'[t], w, pc'[t], o)
  BY <1>6, HeldNext
<1>9. ASSUME pc[t] = "unref", pc'[t] = "destroy", drop'[t] = drop[t]
      PROVE  HeldBy(t, o)' = HeldBy(t, o) - i
  <2>1. HeldBy(t, o)' = x + y + (z + i) + w - i
    BY <1>2, <1>3, <1>4, <1>8, <1>9 DEF HeldOf, Is
  <2> QED
    BY <1>7, <1>9, <2>1
<1>10. ASSUME Giving_Back(t, Tail(drop[t]), Toward(t))
       PROVE  HeldBy(t, o)' = x + y + z + w
  <2>1. drop'[t] = Tail(drop[t]) /\ pc'[t] # "destroy"
    BY <1>10, ScanFacts DEF Giving_Back
  <2> QED
    BY <1>2, <1>8, <2>1 DEF HeldOf
<1> QED
  BY <1>3, <1>7, <1>9, <1>10

\* An action of t that gives the reference of a list, a collection or a handle
\* to those it gives back, or that takes one.
LEMMA HeldTaken ==
  ASSUME DevInv, NEW t \in Threads, NEW o \in Objs, pc[t] \notin Giving, NEW c \in Objs,
         lists'[t] = lists[t]
  PROVE  /\ scan'[t] = scan[t] /\ Giving_Back(t, <<c>>, "idle") =>
              HeldBy(t, o)' = HeldBy(t, o) + Is(c, o)
         /\ scan'[t].devs = scan[t].devs /\ ~scan[t].fresh /\ scan'[t].fresh
              /\ scan'[t].cur = c /\ Moved(t, "init") =>
              HeldBy(t, o)' = HeldBy(t, o) + Is(c, o)
         /\ scan'[t].devs = Append(scan[t].devs, c) /\ ~scan'[t].fresh
              /\ Giving_Back(t, FirstRef(t), "next") =>
              HeldBy(t, o)' = HeldBy(t, o) + Is(c, o)
<1>1. /\ lists[t] \in Seq(Objs) /\ scan[t].devs \in Seq(Objs) /\ drop[t] = <<>>
      /\ scan[t].fresh \in BOOLEAN
  BY ScanFacts
<1>2. PICK x \in Nat, y \in Nat : x = Count(lists[t], o) /\ y = Count(scan[t].devs, o)
  BY <1>1, CountSeq
<1>3. PICK i \in {0, 1} : i = Is(c, o)
  BY DEF Is
<1>4. Count(<<>>, o) = 0 /\ Count(<<c>>, o) = i
  BY <1>3, CountShort DEF Is
<1>5. PICK w \in {0, 1} : w = NewRef(t, o)
  BY DEF NewRef
<1>6. HeldBy(t, o) = x + y + 0 + w
  <2>1. HeldBy(t, o) = HeldOf(lists[t], scan[t].devs, drop[t], NewRef(t, o), pc[t], o)
    BY HoldersAre
  <2>2. pc[t] # "destroy"
    BY DEF Giving
  <2>3. HeldBy(t, o) = x + y + Count(<<>>, o) + w - 0
    BY <1>1, <1>2, <1>5, <2>1, <2>2 DEF HeldOf
  <2> QED
    BY <1>4, <2>3
<1>7. HeldBy(t, o)' = HeldOf(lists'[t], scan'[t].devs, drop'[t], NewRef(t, o)', pc'[t], o)
  BY HeldNext
<1>8. ASSUME scan'[t] = scan[t], Giving_Back(t, <<c>>, "idle")
      PROVE  HeldBy(t, o)' = HeldBy(t, o) + i
  <2>1. drop'[t] = <<c>> /\ pc'[t] # "destroy"
    BY <1>8 DEF Giving_Back
  <2>2. NewRef(t, o)' = w
    BY <1>5, <1>8 DEF NewRef
  <2>3. HeldBy(t, o)' = x + y + i + w
    BY <1>2, <1>4, <1>7, <1>8, <2>1, <2>2 DEF HeldOf
  <2> QED
    BY <1>6, <2>3
<1>9. ASSUME scan'[t].devs = scan[t].devs, ~scan[t].fresh,
             scan'[t].fresh, scan'[t].cur = c, Moved(t, "init")
      PROVE  HeldBy(t, o)' = HeldBy(t, o) + i
  <2>1. drop'[t] = <<>> /\ pc'[t] # "destroy"
    BY <1>1, <1>9 DEF Moved
  <2>2. NewRef(t, o)' = i /\ w = 0
    BY <1>3, <1>5, <1>9 DEF NewRef, Is
  <2>3. HeldBy(t, o)' = x + y + 0 + i
    BY <1>2, <1>4, <1>7, <1>9, <2>1, <2>2 DEF HeldOf
  <2> QED
    BY <1>6, <2>2, <2>3
<1>10. ASSUME scan'[t].devs = Append(scan[t].devs, c),
              ~scan'[t].fresh, Giving_Back(t, FirstRef(t), "next")
       PROVE  HeldBy(t, o)' = HeldBy(t, o) + i
  <2>1. drop'[t] = FirstRef(t) /\ pc'[t] # "destroy"
    BY <1>10 DEF Giving_Back
  <2>2. NewRef(t, o)' = 0
    BY <1>10 DEF NewRef
  <2>3. Count(FirstRef(t), o) = w
    BY <1>5, NewRefIs
  <2>4. Count(Append(scan[t].devs, c), o) = y + i
    BY <1>1, <1>2, <1>3, CountAppend DEF Is
  <2>5. HeldBy(t, o)' = x + (y + i) + w + 0
    BY <1>2, <1>7, <1>10, <2>1, <2>2, <2>3, <2>4 DEF HeldOf
  <2> QED
    BY <1>6, <2>5
<1>11. i = Is(c, o)
  BY <1>3
<1> QED
  BY <1>8, <1>9, <1>10, <1>11, ZenonT(30)

\* A step that changes one device.
LEMMA CountedStep ==
  ASSUME DevInv, NEW c \in Objs,
         \A p \in Objs : p # c =>
            /\ ldev'[p] = ldev[p] /\ Holders(p)' = Holders(p)
            /\ p \in Range(usb_devs) <=> p \in Range(usb_devs')
            /\ Dying(p) => Dying(p)',
         ldev'[c].refcnt = Holders(c)', ldev'[c].state # "none",
         ldev'[c].state = "live" =>
            c \in Range(usb_devs') /\ (ldev'[c].refcnt = 0 => Dying(c)')
  PROVE  Counted'
<1>1. ASSUME NEW o \in Objs
      PROVE  /\ ldev'[o].refcnt = Holders(o)'
             /\ ldev'[o].state = "none" => ldev'[o] = NoDev
             /\ o \in Range(usb_devs') => ldev'[o].state # "none"
             /\ ldev'[o].state = "live" =>
                  o \in Range(usb_devs') /\ (ldev'[o].refcnt = 0 => Dying(o)')
  <2>1. CASE o = c
    BY <2>1
  <2>2. CASE o # c
    <3>1. /\ ldev[o].refcnt = Holders(o)
          /\ ldev[o].state = "none" => ldev[o] = NoDev
          /\ o \in Range(usb_devs) => ldev[o].state # "none"
          /\ ldev[o].state = "live" =>
               o \in Range(usb_devs) /\ (ldev[o].refcnt = 0 => Dying(o))
      BY DEF DevInv, Counted, Dying
    <3>2. /\ ldev'[o] = ldev[o] /\ Holders(o)' = Holders(o)
          /\ o \in Range(usb_devs) <=> o \in Range(usb_devs')
          /\ Dying(o) => Dying(o)'
      BY <2>2
    <3> QED
      BY <3>1, <3>2
  <2> QED
    BY <2>1, <2>2
<1> QED
  BY <1>1 DEF Counted, Dying

\* What is known of each device.
LEMMA CountedIs ==
  ASSUME DevInv, NEW o \in Objs
  PROVE  /\ ldev[o].refcnt = Holders(o) /\ Holders(o) \in Nat
         /\ ldev[o].state = "none" => ldev[o] = NoDev
         /\ ldev[o].refcnt >= 1 => ldev[o].state # "none"
         /\ o \in Range(usb_devs) => ldev[o].state # "none"
         /\ ldev[o].state = "live" =>
              o \in Range(usb_devs) /\ (ldev[o].refcnt = 0 => Dying(o))
<1>1. /\ ldev[o].refcnt = Holders(o)
      /\ ldev[o].state = "none" => ldev[o] = NoDev
      /\ o \in Range(usb_devs) => ldev[o].state # "none"
      /\ ldev[o].state = "live" =>
           o \in Range(usb_devs) /\ (ldev[o].refcnt = 0 => Dying(o))
  BY DEF DevInv, Counted, Dying
<1>2. ldev[o].refcnt \in Nat
  BY DevTypes
<1>3. NoDev.refcnt = 0
  BY DEF NoDev
<1> QED
  BY <1>1, <1>2, <1>3

\* The number of holders when the thread's part or that of the handles changes
\* by one, or both do.
LEMMA HoldersMore ==
  ASSUME DevInv, NEW t \in Threads, Local(t), NEW o \in Objs, NEW i \in {0, 1},
         HeldBy(t, o)' = HeldBy(t, o) + i
  PROVE  /\ Count(handles', o) = Count(handles, o) => Holders(o)' = Holders(o) + i
         /\ Count(handles', o) = Count(handles, o) - i => Holders(o)' = Holders(o)
         /\ i = 0 /\ Count(handles', o) = Count(handles, o) + 1 => Holders(o)' = Holders(o) + 1
<1>1. PICK x \in Nat, y \in Nat, z \in Nat :
        x = HeldBy(t, o) /\ y = Count(handles, o) /\ z = Holders(o)
  BY HoldersAre, CountedIs
<1>2. HeldBy(t, o)' \in Nat
  BY <1>1
<1>3. ASSUME NEW k \in Int, Count(handles', o) = Count(handles, o) + k
      PROVE  Holders(o)' = Holders(o) + i + k
  BY <1>2, <1>3, HoldersStep
<1>4. ASSUME Count(handles', o) = Count(handles, o) PROVE Holders(o)' = Holders(o) + i
  <2>1. PICK k \in Int : k = 0
    OBVIOUS
  <2>2. Count(handles', o) = Count(handles, o) + k
    BY <1>1, <1>4, <2>1
  <2> QED
    BY <1>1, <1>3, <2>1, <2>2
<1>5. ASSUME Count(handles', o) = Count(handles, o) - i PROVE Holders(o)' = Holders(o)
  <2>1. PICK k \in Int : k = 0 - i
    OBVIOUS
  <2>2. Count(handles', o) = Count(handles, o) + k
    BY <1>1, <1>5, <2>1
  <2> QED
    BY <1>1, <1>3, <2>1, <2>2
<1>6. ASSUME i = 0, Count(handles', o) = Count(handles, o) + 1
      PROVE  Holders(o)' = Holders(o) + 1
  <2>1. PICK k \in Int : k = 1
    OBVIOUS
  <2>2. Count(handles', o) = Count(handles, o) + k
    BY <1>1, <1>6, <2>1
  <2> QED
    BY <1>1, <1>3, <1>6, <2>1, <2>2
<1> QED
  BY <1>4, <1>5, <1>6

\* The reference that is given back is one somebody has.
LEMMA AtUnref ==
  ASSUME DevInv, NEW t \in Threads, pc[t] = "unref", NEW o, o = Head(drop[t])
  PROVE  o \in Objs /\ HeldBy(t, o) \in Nat /\ HeldBy(t, o) >= 1 /\ ldev[o].refcnt >= 1
<1>1. /\ lists[t] \in Seq(Objs) /\ scan[t].devs \in Seq(Objs) /\ drop[t] \in Seq(Objs)
      /\ drop[t] # <<>> /\ o \in Objs
  BY ScanFacts DEF Giving
<1>2. o \in Range(drop[t])
  BY <1>1 DEF Range
<1>3. /\ HeldBy(t, o) = HeldOf(lists[t], scan[t].devs, drop[t], NewRef(t, o), pc[t], o)
      /\ HeldBy(t, o) \in Nat /\ Holders(o) >= HeldBy(t, o)
  BY <1>1, HoldersAre
<1>4a. PICK p : p = pc[t]
  OBVIOUS
<1>4. PICK w \in {0, 1} : w = NewRef(t, o)
  BY DEF NewRef
<1>5. HeldOf(lists[t], scan[t].devs, drop[t], w, p, o) >= 1
  <2>1. p # "destroy" /\ (p = "destroy" => drop[t] # <<>>)
    BY <1>4, <1>4a
  <2> QED
    BY <1>1, <1>2, <2>1, HeldOfNat
<1>6. HeldBy(t, o) >= 1
  BY <1>3, <1>4, <1>4a, <1>5
<1>7. ldev[o].refcnt = Holders(o) /\ Holders(o) \in Nat
  BY <1>1, CountedIs
<1> QED
  BY <1>1, <1>3, <1>6, <1>7

\* libusb_unref_device lowers the count of the device it gives back.
LEMMA UnrefCounted ==
  ASSUME DevInv, NEW t \in Threads, libusb_unref_device(t)
  PROVE  Counted'
<1>1. PICK c : c = Head(drop[t])
  OBVIOUS
<1>2. /\ Local(t) /\ scan' = scan /\ lists' = lists /\ pc[t] = "unref"
      /\ \/ /\ ldev[c].refcnt = 1 /\ pc'[t] = "destroy" /\ drop' = drop
         \/ /\ ldev[c].refcnt # 1 /\ Giving_Back(t, Tail(drop[t]), Toward(t))
  BY <1>1, UnrefIs
<1>3. c \in Objs /\ HeldBy(t, c) \in Nat /\ HeldBy(t, c) >= 1 /\ ldev[c].refcnt >= 1
  BY <1>1, <1>2, AtUnref
<1>4. /\ DevChanged(c, ldev[c].addr, ldev[c].refcnt - 1, ldev[c].dir, ldev[c].desc,
                    ldev[c].state)
      /\ usb_devs' = usb_devs
  BY <1>1, <1>3, UnrefedIs
<1>5. handles' = handles
  BY DEF libusb_unref_device, app
<1>6. pc[t] \in Giving
  BY <1>2 DEF Giving
<1>7. \A o \in Objs : HeldBy(t, o)' = HeldBy(t, o) - Is(c, o)
  BY <1>1, <1>2, <1>6, HeldUnrefs
<1>8. \A p \in Objs : p # c => /\ Holders(p)' = Holders(p)
                               /\ Dying(p) => Dying(p)'
  <2> SUFFICES ASSUME NEW p \in Objs, p # c
               PROVE  Holders(p)' = Holders(p) /\ (Dying(p) => Dying(p)')
    OBVIOUS
  <2>1. HeldBy(t, p) \in Nat /\ Is(c, p) = 0 /\ Count(handles, p) \in Nat
    BY HoldersAre DEF Is
  <2>2. PICK i \in {0, 1} : i = 0
    OBVIOUS
  <2>3. HeldBy(t, p)' = HeldBy(t, p) + i
    BY <1>7, <2>1, <2>2
  <2>4. Holders(p)' = Holders(p) + i
    BY <1>2, <1>5, <2>3, HoldersMore
  <2>5. Holders(p)' = Holders(p)
    BY <2>2, <2>4, CountedIs
  <2>6. Dying(p) => Dying(p)'
    BY <1>2, DyingKept
  <2> QED
    BY <2>5, <2>6
<1>9. ldev'[c].refcnt = Holders(c)'
  <2>1. PICK j \in Int : j = 0 - 1
    OBVIOUS
  <2>2. PICK k \in Int : k = 0
    OBVIOUS
  <2>3. HeldBy(t, c)' = HeldBy(t, c) + j /\ HeldBy(t, c)' \in Nat
    BY <1>3, <1>7, <2>1 DEF Is
  <2>4. Count(handles', c) = Count(handles, c) + k
    <3>1. Count(handles, c) \in Nat
      BY <1>3, HoldersAre
    <3> QED
      BY <1>5, <2>2, <3>1
  <2>5. Holders(c)' = Holders(c) + j + k
    BY <1>2, <1>3, <2>3, <2>4, HoldersStep
  <2>6. ldev[c].refcnt = Holders(c) /\ Holders(c) \in Nat
    BY <1>3, CountedIs
  <2>7. ldev'[c].refcnt = ldev[c].refcnt - 1
    BY <1>4 DEF DevChanged
  <2>8. PICK x \in Nat : x = Holders(c)
    BY <2>6
  <2>9. Holders(c)' = x - 1
    BY <2>1, <2>2, <2>5, <2>8
  <2> QED
    BY <2>6, <2>7, <2>8, <2>9
<1>10. ldev'[c].refcnt = 0 => Dying(c)'
  <2>1. ldev'[c].refcnt = 0 => ldev[c].refcnt = 1
    BY <1>3, <1>4, DevTypes DEF DevChanged
  <2> QED
    BY <1>1, <1>2, <2>1 DEF Dying
<1>11. /\ ldev'[c].state = ldev[c].state /\ ldev[c].state # "none"
       /\ ldev[c].state = "live" => c \in Range(usb_devs)
  BY <1>3, <1>4, CountedIs DEF DevChanged
<1>12. \A p \in Objs : p # c => ldev'[p] = ldev[p]
  BY <1>4 DEF DevChanged
<1>13. \A p \in Objs : p \in Range(usb_devs) <=> p \in Range(usb_devs')
  BY <1>4
<1> QED
  BY <1>3, <1>4, <1>8, <1>9, <1>10, <1>11, <1>12, <1>13, CountedStep

\* destroy_device takes a device that nobody holds off the list.
LEMMA DestroyCounted ==
  ASSUME DevInv, NEW t \in Threads, destroy_device(t)
  PROVE  Counted'
<1>1. PICK c : c = Head(drop[t])
  OBVIOUS
<1>2. /\ Local(t) /\ scan' = scan /\ lists' = lists /\ pc[t] = "destroy" /\ c \in Objs
      /\ Giving_Back(t, Tail(drop[t]), Toward(t))
  BY <1>1, DestroyIs
<1>3. /\ DevChanged(c, ldev[c].addr, ldev[c].refcnt, FALSE, FALSE, "freed")
      /\ Range(usb_devs') \subseteq Range(usb_devs)
      /\ \A p \in Range(usb_devs) : p # c => p \in Range(usb_devs')
  BY <1>1, <1>2, DestroyedIs
<1>4. handles' = handles
  BY DEF destroy_device, app
<1>5. pc[t] \in Giving
  BY <1>2 DEF Giving
<1>6. \A o \in Objs : Holders(o)' = Holders(o)
  <2> SUFFICES ASSUME NEW o \in Objs PROVE Holders(o)' = Holders(o)
    OBVIOUS
  <2>1. HeldBy(t, o)' = HeldBy(t, o) /\ HeldBy(t, o) \in Nat /\ Count(handles, o) \in Nat
    BY <1>1, <1>2, <1>5, HeldUnrefs, HoldersAre
  <2>2. PICK i \in {0, 1} : i = 0
    OBVIOUS
  <2>3. HeldBy(t, o)' = HeldBy(t, o) + i
    BY <2>1, <2>2
  <2>4. Holders(o)' = Holders(o) + i
    BY <1>2, <1>4, <2>3, HoldersMore
  <2> QED
    BY <2>2, <2>4, CountedIs
<1>7. \A p \in Objs : p # c => (Dying(p) => Dying(p)')
  <2> SUFFICES ASSUME NEW p \in Objs, p # c, Dying(p) PROVE Dying(p)'
    OBVIOUS
  <2>1. PICK u \in Threads : pc[u] = "destroy" /\ Head(drop[u]) = p
    BY DEF Dying
  <2>2. u # t
    BY <1>1, <2>1
  <2>3. pc'[u] = pc[u] /\ drop'[u] = drop[u]
    BY <1>2, <2>2 DEF Local, Others, View
  <2> QED
    BY <2>1, <2>3 DEF Dying
<1>8. ldev'[c].refcnt = Holders(c)' /\ ldev'[c].state = "freed"
  BY <1>2, <1>3, <1>6, CountedIs DEF DevChanged
<1>9. \A p \in Objs : p # c => ldev'[p] = ldev[p]
  BY <1>3 DEF DevChanged
<1>10. \A p \in Objs : p # c => (p \in Range(usb_devs) <=> p \in Range(usb_devs'))
  BY <1>3
<1> QED
  BY <1>2, <1>6, <1>7, <1>8, <1>9, <1>10, CountedStep

\* A step of t that takes a reference to c.
LEMMA TakenCounted ==
  ASSUME DevInv, NEW t \in Threads, Local(t), pc[t] # "destroy", NEW c \in Objs,
         \A o \in Objs : Holders(o)' = Holders(o) + Is(c, o),
         \A p \in Objs : p # c =>
            ldev'[p] = ldev[p] /\ (p \in Range(usb_devs) <=> p \in Range(usb_devs')),
         ldev'[c].refcnt = ldev[c].refcnt + 1, ldev'[c].state # "none",
         ldev'[c].state = "live" => c \in Range(usb_devs')
  PROVE  Counted'
<1>1. \A p \in Objs : p # c => Holders(p)' = Holders(p)
  BY CountedIs DEF Is
<1>2. ldev'[c].refcnt = Holders(c)' /\ ldev'[c].refcnt # 0
  BY CountedIs DEF Is
<1>3. \A p \in Objs : Dying(p) => Dying(p)'
  BY DyingKept
<1> QED
  BY <1>1, <1>2, <1>3, CountedStep

\* A new device has the one reference of the scan that made it.
LEMMA AllocCounted ==
  ASSUME DevInv, NEW t \in Threads, usbi_alloc_device(t)
  PROVE  Counted'
<1>1. Local(t) /\ handles' = handles /\ lists' = lists /\ pc[t] = "alloc"
  BY AllocIs DEF usbi_alloc_device, ScanFrame, app
<1>2. CASE Fails(t) /\ Failing(t) /\ UNCHANGED devices
  <2>1. \A o \in Objs : HeldBy(t, o)' = HeldBy(t, o)
    BY <1>1, <1>2, HeldFails DEF Giving
  <2>2. ldev' = ldev /\ usb_devs' = usb_devs
    BY <1>2 DEF devices
  <2> QED
    BY <1>1, <2>1, <2>2, CountedKept
<1>3. CASE /\ Moved(t, "init") /\ Same(t, {"cur", "fresh"})
           /\ scan'[t].cur = NewDev /\ scan'[t].fresh
           /\ NewDev \in Objs /\ ldev[NewDev].state = "none"
           /\ ldev' = [ldev EXCEPT ![NewDev] = [NoDev EXCEPT !.addr = scan[t].at,
                                                       !.refcnt = 1, !.state = "live"]]
           /\ usb_devs' = <<NewDev>> \o usb_devs
  <2>1. PICK c \in Objs, a \in Addrs \cup {0} : c = NewDev /\ a = scan[t].at
    BY <1>3, ScanFacts DEF Scans
  <2>2. /\ DevChanged(c, a, 1, FALSE, FALSE, "live")
        /\ Range(usb_devs') = Range(usb_devs) \cup {c}
    <3>1. ldev' = [ldev EXCEPT ![c] = [NoDev EXCEPT !.addr = a, !.refcnt = 1, !.state = "live"]]
      BY <1>3, <2>1
    <3>2. usb_devs' = <<c>> \o usb_devs
      BY <1>3, <2>1
    <3> QED
      BY <3>1, <3>2, AllocatedIs
  <2>3. ~scan[t].fresh
    BY <1>1 DEF DevInv, Shape, Building
  <2>4. \A o \in Objs : HeldBy(t, o)' = HeldBy(t, o) + Is(c, o)
    <3>1. scan'[t].devs = scan[t].devs /\ scan'[t].cur = c /\ scan'[t].fresh
      BY <1>3, <2>1 DEF Same
    <3>2. pc[t] \notin Giving
      BY <1>1 DEF Giving
    <3> QED
      BY <1>1, <1>3, <2>3, <3>1, <3>2, HeldTaken
  <2>5. \A o \in Objs : Holders(o)' = Holders(o) + Is(c, o)
    <3> SUFFICES ASSUME NEW o \in Objs PROVE Holders(o)' = Holders(o) + Is(c, o)
      OBVIOUS
    <3>1. PICK i \in {0, 1} : i = Is(c, o)
      BY DEF Is
    <3>2. HeldBy(t, o)' = HeldBy(t, o) + i
      BY <2>4, <3>1
    <3> QED
      BY <1>1, <3>1, <3>2, HoldersMore
  <2>6. ldev[c].refcnt = 0
    BY <1>3, <2>1, CountedIs DEF NoDev
  <2>7. \A p \in Objs : p # c =>
          ldev'[p] = ldev[p] /\ (p \in Range(usb_devs) <=> p \in Range(usb_devs'))
    BY <2>2 DEF DevChanged
  <2>8. /\ ldev'[c].refcnt = ldev[c].refcnt + 1 /\ ldev'[c].state # "none"
        /\ c \in Range(usb_devs')
    BY <2>2, <2>6 DEF DevChanged
  <2> QED
    BY <1>1, <2>5, <2>7, <2>8, TakenCounted
<1> QED
  BY <1>2, <1>3, AllocIs

\* Appending a device takes a reference.
LEMMA AppendCounted ==
  ASSUME DevInv, NEW t \in Threads, discovered_devs_append(t)
  PROVE  Counted'
<1>1. Local(t) /\ handles' = handles /\ lists' = lists /\ pc[t] = "append" /\ usb_devs' = usb_devs
  BY AppendIs, Zenon DEF discovered_devs_append, ScanFrame, app
<1>2. pc[t] \notin Giving
  BY <1>1 DEF Giving
<1>3. CASE Fails(t) /\ Failing(t) /\ UNCHANGED <<ldev, health>>
  <2>1. \A o \in Objs : HeldBy(t, o)' = HeldBy(t, o)
    BY <1>1, <1>2, <1>3, HeldFails
  <2> QED
    BY <1>1, <1>3, <2>1, CountedKept
<1>4. CASE /\ Ref(scan[t].cur)
           /\ Giving_Back(t, FirstRef(t), "next") /\ Same(t, {"devs", "fresh"})
           /\ scan'[t].devs = Append(scan[t].devs, scan[t].cur) /\ ~scan'[t].fresh
  <2>1. PICK c \in Objs : c = scan[t].cur /\ ldev[c].state # "none"
    BY <1>1 DEF DevInv, Current
  <2>2. DevChanged(c, ldev[c].addr, ldev[c].refcnt + 1, ldev[c].dir, ldev[c].desc,
                   ldev[c].state)
    BY <1>4, <2>1, RefIs
  <2>3. \A o \in Objs : HeldBy(t, o)' = HeldBy(t, o) + Is(c, o)
    BY <1>1, <1>2, <1>4, <2>1, HeldTaken
  <2>4. \A o \in Objs : Holders(o)' = Holders(o) + Is(c, o)
    <3> SUFFICES ASSUME NEW o \in Objs PROVE Holders(o)' = Holders(o) + Is(c, o)
      OBVIOUS
    <3>1. PICK i \in {0, 1} : i = Is(c, o)
      BY DEF Is
    <3>2. HeldBy(t, o)' = HeldBy(t, o) + i
      BY <2>3, <3>1
    <3> QED
      BY <1>1, <3>1, <3>2, HoldersMore
  <2>5. \A p \in Objs : p # c =>
          ldev'[p] = ldev[p] /\ (p \in Range(usb_devs) <=> p \in Range(usb_devs'))
    BY <1>1, <2>2 DEF DevChanged
  <2>6. /\ ldev'[c].refcnt = ldev[c].refcnt + 1 /\ ldev'[c].state # "none"
        /\ ldev'[c].state = "live" => c \in Range(usb_devs')
    BY <1>1, <2>1, <2>2, CountedIs DEF DevChanged
  <2> QED
    BY <1>1, <2>4, <2>5, <2>6, TakenCounted
<1> QED
  BY <1>3, <1>4, AppendIs

\* What a thread holds when nothing of it changes.
LEMMA HeldSame ==
  ASSUME NEW t, NEW o, lists'[t] = lists[t], scan'[t] = scan[t], drop'[t] = drop[t],
         pc'[t] = pc[t]
  PROVE  HeldBy(t, o)' = HeldBy(t, o)
BY DEF HeldBy

\* The references of the handles when one of them changes.
LEMMA CountHandles ==
  ASSUME DevInv, NEW h \in 1 .. MaxHandles, NEW v \in Objs \cup {0}, NEW o \in Objs,
         handles' = [handles EXCEPT ![h] = v]
  PROVE  Count(handles', o) = Count(handles, o) - Is(handles[h], o) + Is(v, o)
<1>1. PICK n \in Nat : n = MaxHandles
  BY DeviceNumbers
<1>2. /\ h \in 1 .. n /\ DOMAIN handles = 1 .. n /\ DOMAIN handles' = 1 .. n
      /\ handles'[h] = v /\ \A j \in 1 .. n : j # h => handles'[j] = handles[j]
  BY <1>1 DEF DevInv, DevicesTypes
<1>3. PICK f, g : f = handles /\ g = handles'
  OBVIOUS
<1>4. Count(g, o) = Count(f, o) - Is(f[h], o) + Is(v, o)
  <2>1. /\ h \in 1 .. n /\ DOMAIN f = 1 .. n /\ DOMAIN g = 1 .. n
        /\ g[h] = v /\ \A j \in 1 .. n : j # h => g[j] = f[j]
    BY <1>2, <1>3
  <2> QED
    BY <2>1, CountSet
<1> QED
  BY <1>3, <1>4

\* A handle takes a reference.
LEMMA OpenCounted ==
  ASSUME DevInv, NEW t \in Threads, libusb_open(t)
  PROVE  Counted'
<1>1. /\ Local(t) /\ UNCHANGED <<scan, drop, then, pc, lists, result>> /\ pc[t] = "idle"
      /\ usb_devs' = usb_devs
  BY OpenIs DEF libusb_open
<1>2. PICK c \in Range(lists[t]) \cap Objs, h \in 1 .. MaxHandles :
        /\ handles[h] = 0
        /\ \/ Ref(c) /\ handles' = [handles EXCEPT ![h] = c]
           \/ UNCHANGED <<ldev, health, handles>>
  BY OpenIs
<1>3. \A o \in Objs : HeldBy(t, o)' = HeldBy(t, o)
  BY <1>1, HeldSame
<1>4. CASE UNCHANGED <<ldev, health, handles>>
  BY <1>1, <1>3, <1>4, CountedKept
<1>5. CASE Ref(c) /\ handles' = [handles EXCEPT ![h] = c]
  <2>1. ldev[c].state # "none"
    <3>1. /\ lists[t] \in Seq(Objs) /\ scan[t].devs \in Seq(Objs) /\ drop[t] \in Seq(Objs)
      BY ScanFacts
    <3>2. /\ HeldBy(t, c) = HeldOf(lists[t], scan[t].devs, drop[t], NewRef(t, c), pc[t], c)
          /\ HeldBy(t, c) \in Nat /\ Holders(c) >= HeldBy(t, c)
      BY <1>2, HoldersAre
    <3>3a. PICK p : p = pc[t]
      OBVIOUS
    <3>3. PICK w \in {0, 1} : w = NewRef(t, c)
      BY DEF NewRef
    <3>4. p = "destroy" => drop[t] # <<>>
      BY <1>1, <3>3, <3>3a
    <3>5. HeldOf(lists[t], scan[t].devs, drop[t], w, p, c) >= 1
      BY <1>2, <3>1, <3>4, HeldOfNat
    <3>6. HeldBy(t, c) >= 1
      BY <3>2, <3>3, <3>3a, <3>5
    <3>7. ldev[c].refcnt >= 1
      BY <1>2, <3>2, <3>6, CountedIs
    <3> QED
      BY <1>2, <3>7, CountedIs
  <2>2. DevChanged(c, ldev[c].addr, ldev[c].refcnt + 1, ldev[c].dir, ldev[c].desc,
                   ldev[c].state)
    BY <1>2, <1>5, RefIs
  <2>3. \A o \in Objs : Count(handles', o) = Count(handles, o) + Is(c, o)
    <3> SUFFICES ASSUME NEW o \in Objs
                 PROVE  Count(handles', o) = Count(handles, o) + Is(c, o)
      OBVIOUS
    <3>1. o # 0
      BY DeviceNumbers DEF Objs
    <3>2. PICK x \in Nat, i \in {0, 1} : x = Count(handles, o) /\ i = Is(c, o)
      BY HoldersAre DEF Is
    <3>3. Count(handles', o) = Count(handles, o) - Is(handles[h], o) + Is(c, o)
      <4>1. handles' = [handles EXCEPT ![h] = c] /\ c \in Objs \cup {0} /\ h \in 1 .. MaxHandles
        BY <1>2, <1>5
      <4> QED
        BY <4>1, CountHandles
    <3>4. Count(handles', o) = x - 0 + i
      BY <1>2, <3>1, <3>2, <3>3 DEF Is
    <3> QED
      BY <3>2, <3>4
  <2>4. \A o \in Objs : Holders(o)' = Holders(o) + Is(c, o)
    <3> SUFFICES ASSUME NEW o \in Objs PROVE Holders(o)' = Holders(o) + Is(c, o)
      OBVIOUS
    <3>1. PICK z \in {0, 1} : z = 0
      OBVIOUS
    <3>2. /\ HeldBy(t, o)' = HeldBy(t, o) + z /\ Count(handles, o) \in Nat
          /\ Holders(o) \in Nat
      <4>1. HeldBy(t, o) \in Nat /\ Count(handles, o) \in Nat /\ Holders(o) \in Nat
        BY HoldersAre, CountedIs
      <4> QED
        BY <1>3, <3>1, <4>1
    <3>3. CASE c = o
      <4>1. Count(handles', o) = Count(handles, o) + 1
        BY <2>3, <3>3 DEF Is
      <4> QED
        BY <1>1, <3>1, <3>2, <3>3, <4>1, HoldersMore DEF Is
    <3>4. CASE c # o
      <4>1. Count(handles', o) = Count(handles, o)
        BY <2>3, <3>2, <3>4 DEF Is
      <4>2. Holders(o)' = Holders(o) + z
        BY <1>1, <3>2, <4>1, HoldersMore
      <4> QED
        BY <3>1, <3>4, <4>2 DEF Is
    <3> QED
      BY <3>3, <3>4
  <2>5. \A p \in Objs : p # c =>
          ldev'[p] = ldev[p] /\ (p \in Range(usb_devs) <=> p \in Range(usb_devs'))
    BY <1>1, <2>2 DEF DevChanged
  <2>6. /\ ldev'[c].refcnt = ldev[c].refcnt + 1 /\ ldev'[c].state # "none"
        /\ ldev'[c].state = "live" => c \in Range(usb_devs')
    BY <1>1, <1>2, <2>1, <2>2, CountedIs DEF DevChanged
  <2> QED
    BY <1>1, <1>2, <2>4, <2>5, <2>6, TakenCounted
<1> QED
  BY <1>2, <1>4, <1>5

\* A step that leaves devices and the number of holders as they are.
LEMMA CountedHeld ==
  ASSUME DevInv, NEW t \in Threads, Local(t), pc[t] # "destroy",
         ldev' = ldev, usb_devs' = usb_devs,
         \A o \in Objs : Holders(o)' = Holders(o)
  PROVE  Counted'
<1>1. ASSUME NEW o \in Objs
      PROVE  /\ ldev'[o].refcnt = Holders(o)'
             /\ ldev'[o].state = "none" => ldev'[o] = NoDev
             /\ o \in Range(usb_devs') => ldev'[o].state # "none"
             /\ ldev'[o].state = "live" =>
                  o \in Range(usb_devs') /\ (ldev'[o].refcnt = 0 => Dying(o)')
  BY CountedIs, DyingKept
<1> QED
  BY <1>1 DEF Counted, Dying

\* libusb_close gives the reference of the handle back.
LEMMA CloseCounted ==
  ASSUME DevInv, NEW t \in Threads, libusb_close(t)
  PROVE  Counted'
<1>1. /\ Local(t) /\ scan' = scan /\ lists' = lists /\ pc[t] = "idle"
      /\ usb_devs' = usb_devs /\ ldev' = ldev
  BY CloseIs DEF libusb_close, devices
<1>2. PICK h \in 1 .. MaxHandles :
        /\ handles[h] # 0 /\ handles[h] \in Objs
        /\ handles' = [handles EXCEPT ![h] = 0]
        /\ Giving_Back(t, <<handles[h]>>, "idle")
  BY CloseIs
<1>3. PICK c \in Objs : c = handles[h]
  BY <1>2
<1>4. \A o \in Objs : HeldBy(t, o)' = HeldBy(t, o) + Is(c, o)
  <2>1. pc[t] \notin Giving
    BY <1>1 DEF Giving
  <2>2. Giving_Back(t, <<c>>, "idle")
    BY <1>2, <1>3
  <2> QED
    BY <1>1, <2>1, <2>2, HeldTaken
<1>5. \A o \in Objs : Holders(o)' = Holders(o)
  <2> SUFFICES ASSUME NEW o \in Objs PROVE Holders(o)' = Holders(o)
    OBVIOUS
  <2>1. o # 0
    BY DeviceNumbers DEF Objs
  <2>2. PICK x \in Nat, i \in {0, 1} : x = Count(handles, o) /\ i = Is(c, o)
    BY HoldersAre DEF Is
  <2>3. PICK z \in {0, 1}, v \in Objs \cup {0} : v = 0 /\ z = 0
    OBVIOUS
  <2>7. handles' = [handles EXCEPT ![h] = v]
    BY <1>2, <2>3
  <2>8. Count(handles', o) = Count(handles, o) - Is(handles[h], o) + Is(v, o)
    BY <1>2, <2>7, CountHandles
  <2>4. Count(handles', o) = x - i + 0
    BY <1>3, <2>1, <2>2, <2>3, <2>8 DEF Is
  <2>5. Count(handles', o) = Count(handles, o) - i
    BY <2>2, <2>4
  <2>6. HeldBy(t, o)' = HeldBy(t, o) + i
    BY <1>4, <2>2
  <2> QED
    BY <1>1, <2>5, <2>6, HoldersMore
<1> QED
  BY <1>1, <1>5, CountedHeld

\* Devices keep their counts and their states.
DevsKept ==
  \A o \in Objs : /\ ldev'[o].refcnt = ldev[o].refcnt /\ ldev'[o].state = ldev[o].state
                  /\ ldev'[o].addr = ldev[o].addr
                  /\ ldev[o].state = "none" => ldev'[o] = ldev[o]

\* A step of a scan that takes no reference and gives none back.
LEMMA KeptStep ==
  ASSUME DevInv, NEW t \in Threads, Local(t), pc[t] \notin Giving, lists'[t] = lists[t],
         handles' = handles, usb_devs' = usb_devs, DevsKept,
         \/ /\ drop'[t] = drop[t] /\ pc'[t] # "destroy" /\ scan'[t].devs = scan[t].devs
            /\ scan'[t].fresh <=> scan[t].fresh
            /\ scan[t].fresh => scan'[t].cur = scan[t].cur
         \/ Failing(t)
  PROVE  Counted'
<1>1. pc[t] # "destroy"
  BY DEF Giving
<1>2. \A o \in Objs : HeldBy(t, o)' = HeldBy(t, o)
  BY <1>1, HeldPassing, HeldFails
<1> QED
  BY <1>1, <1>2, CountedKept DEF DevsKept

\* A scan that ends hands its collection over, and a list is given back.
LEMMA HeldHanded ==
  ASSUME DevInv, NEW t \in Threads, NEW o \in Objs, pc[t] \notin Giving, ~scan[t].fresh,
         ~scan'[t].fresh, scan'[t].devs = <<>>, pc'[t] # "destroy",
         \/ lists[t] = <<>> /\ lists'[t] = scan[t].devs /\ drop'[t] = <<>>
         \/ lists[t] = <<>> /\ lists'[t] = <<>> /\ drop'[t] = scan[t].devs
         \/ scan[t].devs = <<>> /\ lists'[t] = <<>> /\ drop'[t] = lists[t]
  PROVE  HeldBy(t, o)' = HeldBy(t, o)
<1>1. /\ lists[t] \in Seq(Objs) /\ scan[t].devs \in Seq(Objs) /\ drop[t] = <<>>
  BY ScanFacts
<1>2. PICK x \in Nat, y \in Nat : x = Count(lists[t], o) /\ y = Count(scan[t].devs, o)
  BY <1>1, CountSeq
<1>3. Count(<<>>, o) = 0
  BY CountShort
<1>4. NewRef(t, o) = 0 /\ NewRef(t, o)' = 0
  BY DEF NewRef
<1>5. HeldBy(t, o) = x + y
  <2>1. HeldBy(t, o) = HeldOf(lists[t], scan[t].devs, drop[t], NewRef(t, o), pc[t], o)
    BY HoldersAre
  <2>2. pc[t] # "destroy"
    BY DEF Giving
  <2>3. HeldBy(t, o) = x + y + Count(<<>>, o) + 0 - 0
    BY <1>1, <1>2, <1>4, <2>1, <2>2 DEF HeldOf
  <2> QED
    BY <1>3, <2>3
<1>6. HeldBy(t, o)' = Count(lists'[t], o) + Count(<<>>, o) + Count(drop'[t], o) + 0 - 0
  <2>1. HeldBy(t, o)' = HeldOf(lists'[t], scan'[t].devs, drop'[t], NewRef(t, o)', pc'[t], o)
    BY HeldNext
  <2> QED
    BY <1>4, <2>1 DEF HeldOf
<1>7. CASE lists[t] = <<>> /\ lists'[t] = scan[t].devs /\ drop'[t] = <<>>
  BY <1>2, <1>3, <1>5, <1>6, <1>7
<1>8. CASE lists[t] = <<>> /\ lists'[t] = <<>> /\ drop'[t] = scan[t].devs
  BY <1>2, <1>3, <1>5, <1>6, <1>8
<1>9. CASE scan[t].devs = <<>> /\ lists'[t] = <<>> /\ drop'[t] = lists[t]
  BY <1>2, <1>3, <1>5, <1>6, <1>9
<1> QED
  BY <1>7, <1>8, <1>9

LEMMA HandedCounted ==
  ASSUME DevInv, NEW t \in Threads, Local(t), pc[t] \notin Giving, ~scan[t].fresh,
         ~scan'[t].fresh, scan'[t].devs = <<>>, pc'[t] # "destroy",
         handles' = handles, ldev' = ldev, usb_devs' = usb_devs,
         \/ lists[t] = <<>> /\ lists'[t] = scan[t].devs /\ drop'[t] = <<>>
         \/ lists[t] = <<>> /\ lists'[t] = <<>> /\ drop'[t] = scan[t].devs
         \/ scan[t].devs = <<>> /\ lists'[t] = <<>> /\ drop'[t] = lists[t]
  PROVE  Counted'
<1>1. \A o \in Objs : HeldBy(t, o)' = HeldBy(t, o)
  BY HeldHanded
<1>2. pc[t] # "destroy"
  BY DEF Giving
<1> QED
  BY <1>1, <1>2, CountedKept

\* The shape of a thread, by itself.
Shaped(t) ==
  /\ pc[t] \in Giving <=> drop[t] # <<>>
  /\ InScan(t) => t \in Scanners /\ lists[t] = <<>>
  /\ ~InScan(t) => scan[t] = NoScan
  /\ pc[t] \in Building => scan[t].fresh
  /\ scan[t].fresh => pc[t] \in Building \cup {"append"}

LEMMA ShapedIs ==
  ASSUME DevInv, NEW t \in Threads
  PROVE  Shaped(t)
BY DEF DevInv, Shape, Shaped

LEMMA ShapedKept ==
  ASSUME DevInv, NEW t \in Threads, Local(t), Shaped(t)'
  PROVE  Shape'
<1>1. ASSUME NEW u \in Threads, u # t
      PROVE  Shaped(u)'
  <2>1. /\ pc'[u] = pc[u] /\ drop'[u] = drop[u] /\ then'[u] = then[u] /\ scan'[u] = scan[u]
        /\ lists'[u] = lists[u]
    BY <1>1 DEF Local, Others, View
  <2>2. Shaped(u)
    BY ShapedIs
  <2> QED
    BY <2>1, <2>2 DEF Shaped, InScan, Toward
<1> QED
  BY <1>1 DEF Shape, Shaped

\* The device a thread is at, by itself.
CurrentOf(t) ==
  pc[t] \in Building \cup {"append"} =>
    /\ scan[t].cur \in Objs
    /\ ldev[scan[t].cur].state # "none" /\ ldev[scan[t].cur].addr = scan[t].at

LEMMA CurrentKept ==
  ASSUME DevInv, NEW t \in Threads, Local(t), CurrentOf(t)',
         \A o \in Objs : ldev[o].state # "none" =>
           ldev'[o].state # "none" /\ ldev'[o].addr = ldev[o].addr
  PROVE  Current'
<1>1. ASSUME NEW u \in Threads, u # t
      PROVE  CurrentOf(u)'
  <2>1. pc'[u] = pc[u] /\ scan'[u] = scan[u]
    BY <1>1 DEF Local, Others, View
  <2>2. CurrentOf(u)
    BY DEF DevInv, Current, CurrentOf
  <2> QED
    BY <2>1, <2>2 DEF CurrentOf
<1> QED
  BY <1>1 DEF Current, CurrentOf

\* No device that was made is made again, or becomes another.
Lasting ==
  \A o \in Objs : ldev[o].state # "none" =>
     ldev'[o].state # "none" /\ ldev'[o].addr = ldev[o].addr
DevStep == /\ ldev' \in [Objs -> Devs] /\ usb_devs' \in Seq(Objs) /\ Lasting
Keeps(t) == Local(t) /\ Counted' /\ Shaped(t)' /\ CurrentOf(t)' /\ DevStep

LEMMA FailKeeps ==
  ASSUME DevInv, NEW t \in Threads, Failing(t), pc[t] \notin Giving \cup {"idle"},
         lists'[t] = lists[t]
  PROVE  Shaped(t)' /\ CurrentOf(t)'
<1>1. t \in Scanners /\ lists[t] = <<>>
  BY ShapedIs DEF Shaped, InScan, Toward
<1>2. /\ Toward(t)' = "fail" /\ pc'[t] \in {"unref", "fail"} /\ ~scan'[t].fresh
      /\ pc'[t] \in Giving <=> drop'[t] # <<>>
  BY DEF Failing, Giving_Back
<1> QED
  BY <1>1, <1>2 DEF Shaped, CurrentOf, InScan, Building

\* A scan goes on.
LEMMA ShapedMoved ==
  ASSUME DevInv, NEW t \in Threads, NEW place \in Spots \ (Giving \cup {"idle"}),
         Moved(t, place), pc[t] \notin Giving \cup {"idle"}, lists'[t] = lists[t],
         place \in Building => scan'[t].fresh,
         scan'[t].fresh => place \in Building \cup {"append"}
  PROVE  Shaped(t)'
<1>1. t \in Scanners /\ lists[t] = <<>> /\ drop[t] = <<>>
  BY ShapedIs DEF Shaped, InScan, Toward
<1>2. pc'[t] = place /\ drop'[t] = <<>> /\ Toward(t)' = place
  BY <1>1 DEF Moved
<1> QED
  BY <1>1, <1>2 DEF Shaped, InScan

LEMMA CurrentMoved ==
  ASSUME DevInv, NEW t \in Threads, pc[t] \in Building, Lasting,
         scan'[t].cur = scan[t].cur, scan'[t].at = scan[t].at
  PROVE  CurrentOf(t)'
BY DEF DevInv, Current, CurrentOf, Lasting

\* Nothing happens to the devices.
LEMMA DevStill ==
  ASSUME DevInv, ldev' = ldev, usb_devs' = usb_devs
  PROVE  DevStep /\ DevsKept
BY DevTypes DEF DevStep, Lasting, DevsKept

\* One device that was made changes.
LEMMA DevOne ==
  ASSUME DevInv, NEW c \in Objs, NEW r, NEW d, NEW e, NEW s, s # "none",
         DevChanged(c, ldev[c].addr, r, d, e, s)
  PROVE  /\ Lasting /\ ldev' \in [Objs -> Devs]
         /\ r = ldev[c].refcnt /\ s = ldev[c].state => DevsKept
BY DevTypes DEF DevChanged, Lasting, DevsKept

\* A scan goes on or fails, and takes no reference.
LEMMA GoesOn ==
  ASSUME DevInv, NEW t \in Threads, NEW place \in Spots \ (Giving \cup {"idle"}),
         Local(t), pc[t] \notin Giving \cup {"idle"}, lists' = lists, handles' = handles,
         DevStep, DevsKept, usb_devs' = usb_devs,
         Moved(t, place), scan'[t].devs = scan[t].devs, scan'[t].fresh <=> scan[t].fresh,
         scan[t].fresh => scan'[t].cur = scan[t].cur,
         place \in Building => scan[t].fresh, scan[t].fresh => place \in Building \cup {"append"},
         CurrentOf(t)'
  PROVE  Keeps(t)
<1>1. drop'[t] = drop[t] /\ pc'[t] = place /\ place # "destroy"
  BY DEF Moved, Giving
<1>2. Counted'
  BY <1>1, KeptStep
<1>3. Shaped(t)'
  BY ShapedMoved
<1> QED
  BY <1>2, <1>3 DEF Keeps

LEMMA GivenUp ==
  ASSUME DevInv, NEW t \in Threads, Local(t), pc[t] \notin Giving \cup {"idle"}, lists' = lists,
         handles' = handles, DevStep, DevsKept, usb_devs' = usb_devs, Failing(t)
  PROVE  Keeps(t)
BY FailKeeps, KeptStep DEF Keeps

LEMMA OpenDirKeeps ==
  ASSUME DevInv, NEW t \in Threads, OpenDir(t)
  PROVE  Keeps(t)
<1>1. /\ Local(t) /\ pc[t] = "opendir" /\ lists' = lists /\ handles' = handles
      /\ ldev' = ldev /\ usb_devs' = usb_devs
  BY OpenDirIs DEF OpenDir, ScanFrame, NoDevice, app, devices
<1>2. pc[t] \notin Giving \cup {"idle"}
  BY <1>1 DEF Giving
<1>3. DevStep /\ DevsKept
  BY <1>1, DevStill
<1>4. CASE Failing(t)
  BY <1>1, <1>2, <1>3, <1>4, GivenUp
<1>5. CASE Moved(t, "next") /\ Same(t, {"todo"})
  <2>1. /\ pc'[t] = "next" /\ scan'[t].devs = scan[t].devs
        /\ scan'[t].fresh = scan[t].fresh /\ scan'[t].cur = scan[t].cur /\ ~scan[t].fresh
    BY <1>1, <1>5, ShapedIs DEF Moved, Same, Shaped, Building
  <2>2. CurrentOf(t)'
    BY <2>1 DEF CurrentOf, Building
  <2>3. "next" \in Spots \ (Giving \cup {"idle"}) /\ "next" \notin Building
    BY DEF Spots, Giving, Building
  <2> QED
    BY <1>1, <1>2, <1>3, <1>5, <2>1, <2>2, <2>3, GoesOn
<1> QED
  BY <1>4, <1>5, OpenDirIs

LEMMA ReadDirKeeps ==
  ASSUME DevInv, NEW t \in Threads, ReadDir(t)
  PROVE  Keeps(t)
<1>1. /\ Local(t) /\ pc[t] = "next" /\ lists' = lists /\ handles' = handles
      /\ ldev' = ldev /\ usb_devs' = usb_devs
  BY ReadDirIs, Zenon DEF ReadDir, ScanFrame, NoDevice, app, devices
<1>2. pc[t] \notin Giving \cup {"idle"}
  BY <1>1 DEF Giving
<1>3. DevStep /\ DevsKept
  BY <1>1, DevStill
<1>4. ~scan[t].fresh
  BY <1>1, ShapedIs DEF Shaped, Building
<1>5. PICK place \in {"done", "stat", "lookup"} :
        Moved(t, place) /\ ~scan'[t].fresh /\ scan'[t].devs = scan[t].devs
  <2>1. CASE scan[t].todo = {} /\ Passing(t, "done")
    BY <1>4, <2>1 DEF Passing, Same
  <2>2. CASE /\ ~scan'[t].fresh /\ Same(t, {"at", "todo", "fresh"})
             /\ Moved(t, IF scan[t].via = "sysfs" THEN "stat" ELSE "lookup")
    <3>1. scan'[t].devs = scan[t].devs
      BY <2>2 DEF Same
    <3>2. CASE scan[t].via = "sysfs"
      BY <2>2, <3>1, <3>2
    <3>3. CASE scan[t].via # "sysfs"
      BY <2>2, <3>1, <3>3
    <3> QED
      BY <3>2, <3>3
  <2> QED
    BY <2>1, <2>2, ReadDirIs
<1>6. /\ place \in Spots \ (Giving \cup {"idle"})
      /\ place \notin Building \cup {"append"}
  BY DEF Spots, Giving, Building
<1>7. CurrentOf(t)'
  BY <1>5, <1>6 DEF CurrentOf, Moved
<1> QED
  BY <1>1, <1>2, <1>3, <1>4, <1>5, <1>6, <1>7, GoesOn

LEMMA SysfsScanKeeps ==
  ASSUME DevInv, NEW t \in Threads,
         StatDescriptors(t) \/ FallBack(t) \/ ReadBusnum(t) \/ ReadDevnum(t)
  PROVE  Keeps(t)
<1>1. /\ pc[t] \in {"stat", "busnum", "devnum"} /\ lists' = lists /\ handles' = handles
      /\ ldev' = ldev /\ usb_devs' = usb_devs
  BY DEF StatDescriptors, FallBack, ReadBusnum, ReadDevnum, ScanFrame, NoDevice, app, devices
<1>2. pc[t] \notin Giving \cup {"idle"}
  BY <1>1 DEF Giving
<1>3. DevStep /\ DevsKept
  BY <1>1, DevStill
<1>4. ~scan[t].fresh
  BY <1>1, ShapedIs DEF Shaped, Building
<1>5. Local(t)
  BY SysfsScanIs
<1>6. CASE Failing(t)
  BY <1>1, <1>2, <1>3, <1>5, <1>6, GivenUp
<1>7. ASSUME NEW place \in {"busnum", "opendir", "devnum", "lookup"}, Moved(t, place),
             scan'[t].fresh = scan[t].fresh, scan'[t].devs = scan[t].devs
      PROVE  Keeps(t)
  <2>1. /\ place \in Spots \ (Giving \cup {"idle"})
        /\ place \notin Building \cup {"append"}
    BY DEF Spots, Giving, Building
  <2>2. CurrentOf(t)'
    BY <1>7, <2>1 DEF CurrentOf, Moved
  <2> QED
    BY <1>1, <1>2, <1>3, <1>4, <1>5, <1>7, <2>1, <2>2, GoesOn
<1>8. \/ Failing(t)
      \/ \E place \in {"busnum", "opendir", "devnum", "lookup"} :
           Moved(t, place) /\ scan'[t].fresh = scan[t].fresh /\ scan'[t].devs = scan[t].devs
  BY SysfsScanIs DEF Passing, Same
<1> QED
  BY <1>6, <1>7, <1>8

LEMMA LookupKeeps ==
  ASSUME DevInv, NEW t \in Threads, Lookup(t)
  PROVE  Keeps(t)
<1>1. /\ Local(t) /\ pc[t] = "lookup" /\ lists' = lists /\ handles' = handles
      /\ ldev' = ldev /\ usb_devs' = usb_devs
  BY LookupIs DEF Lookup, ScanFrame, NoDevice, app, devices
<1>2. pc[t] \notin Giving \cup {"idle"}
  BY <1>1 DEF Giving
<1>3. DevStep /\ DevsKept
  BY <1>1, DevStill
<1>4. ~scan[t].fresh
  BY <1>1, ShapedIs DEF Shaped, Building
<1>5. PICK place \in {"alloc", "append"} :
        /\ Moved(t, place) /\ scan'[t].fresh = scan[t].fresh /\ scan'[t].devs = scan[t].devs
        /\ scan'[t].at = scan[t].at
        /\ place = "append" =>
             scan'[t].cur \in Range(usb_devs) /\ ldev[scan'[t].cur].addr = scan[t].at
  BY LookupIs DEF Passing, Same
<1>6. /\ place \in Spots \ (Giving \cup {"idle"}) /\ place \notin Building
  BY DEF Spots, Giving, Building
<1>7. CurrentOf(t)'
  <2>1. CASE place = "alloc"
    BY <1>5, <2>1 DEF CurrentOf, Moved, Building
  <2>2. CASE place = "append"
    <3>1. PICK c : c = scan'[t].cur
      OBVIOUS
    <3>2. c \in Range(usb_devs) /\ ldev[c].addr = scan'[t].at
      BY <1>5, <2>2, <3>1
    <3>3. c \in Objs /\ ldev[c].state # "none"
      <4>1. c \in Objs
        BY <3>2, DevTypes DEF Range
      <4> QED
        BY <3>2, <4>1, CountedIs
    <3> QED
      BY <1>1, <3>1, <3>2, <3>3 DEF CurrentOf
  <2> QED
    BY <2>1, <2>2
<1> QED
  BY <1>1, <1>2, <1>3, <1>4, <1>5, <1>6, <1>7, GoesOn

\* The steps that read a new device.
LEMMA BuildingKeeps ==
  ASSUME DevInv, NEW t \in Threads,
         \/ OpenNode(t) \/ GetActiveConfig(t) \/ usbi_sanitize_device(t)
         \/ InitDevice(t) \/ ReadDescriptors(t)
  PROVE  Keeps(t)
<1>1. /\ pc[t] \in Building /\ lists' = lists /\ handles' = handles /\ usb_devs' = usb_devs
  BY DEF OpenNode, GetActiveConfig, usbi_sanitize_device, InitDevice, ReadDescriptors, ScanFrame,
         NoDevice, app, devices, Building
<1>2. pc[t] \notin Giving \cup {"idle"}
  BY <1>1 DEF Giving, Building
<1>3. scan[t].fresh
  BY <1>1, ShapedIs DEF Shaped
<1>4. PICK c \in Objs : c = scan[t].cur /\ ldev[c].state # "none"
  BY <1>1 DEF DevInv, Current
<1>5. DevStep /\ DevsKept
  <2>1. CASE OpenNode(t) \/ GetActiveConfig(t) \/ usbi_sanitize_device(t)
    <3>1. ldev' = ldev /\ usb_devs' = usb_devs
      BY <2>1 DEF OpenNode, GetActiveConfig, usbi_sanitize_device, NoDevice, devices
    <3> QED
      BY <3>1, DevStill
  <2>2. CASE InitDevice(t)
    <3>1. PICK yes \in BOOLEAN : yes = sysfs_dir(t)
      BY DEF sysfs_dir
    <3>2. ldev' = [ldev EXCEPT ![c].dir = yes]
      BY <1>4, <2>2, <3>1 DEF InitDevice
    <3>3. DevChanged(c, ldev[c].addr, ldev[c].refcnt, yes, ldev[c].desc, ldev[c].state)
      BY <3>2, DirIs
    <3> QED
      BY <1>1, <1>4, <3>3, DevOne, DevTypes DEF DevStep
  <2>3. CASE ReadDescriptors(t)
    <3>1. CASE ldev' = ldev
      BY <1>1, <3>1, DevStill
    <3>2. CASE ldev' = [ldev EXCEPT ![scan[t].cur].desc = TRUE]
      <4>1. ldev' = [ldev EXCEPT ![c].desc = TRUE]
        BY <1>4, <3>2
      <4>2. DevChanged(c, ldev[c].addr, ldev[c].refcnt, ldev[c].dir, TRUE, ldev[c].state)
        BY <4>1, DescIs
      <4> QED
        BY <1>1, <1>4, <4>2, DevOne, DevTypes DEF DevStep
    <3> QED
      BY <2>3, <3>1, <3>2 DEF ReadDescriptors
  <2> QED
    BY <2>1, <2>2, <2>3
<1>6. /\ Local(t)
      /\ \/ Failing(t)
         \/ \E place \in {"open", "active", "read", "sanitize", "append"} : Passing(t, place)
  BY OpenNodeIs, GetActiveConfigIs, SanitizeIs, InitDeviceIs, ReadDescriptorsIs
<1>7. CASE Failing(t)
  BY <1>1, <1>2, <1>5, <1>6, <1>7, GivenUp
<1>8. ASSUME NEW place \in {"open", "active", "read", "sanitize", "append"}, Passing(t, place)
      PROVE  Keeps(t)
  <2>1. /\ place \in Spots \ (Giving \cup {"idle"}) /\ place \in Building \cup {"append"}
    BY DEF Spots, Giving, Building
  <2>2. /\ Moved(t, place) /\ scan'[t].fresh = scan[t].fresh /\ scan'[t].devs = scan[t].devs
        /\ scan'[t].cur = scan[t].cur /\ scan'[t].at = scan[t].at
    BY <1>8 DEF Passing, Same
  <2>3. CurrentOf(t)'
    BY <1>1, <1>5, <2>2, CurrentMoved DEF DevStep
  <2> QED
    BY <1>1, <1>2, <1>3, <1>5, <1>6, <2>1, <2>2, <2>3, GoesOn
<1> QED
  BY <1>6, <1>7, <1>8

\* A new device.
LEMMA AllocKeeps ==
  ASSUME DevInv, NEW t \in Threads, usbi_alloc_device(t)
  PROVE  Keeps(t)
<1>1. /\ Local(t) /\ pc[t] = "alloc" /\ lists' = lists /\ handles' = handles
  BY AllocIs DEF usbi_alloc_device, ScanFrame, app
<1>2. pc[t] \notin Giving \cup {"idle"}
  BY <1>1 DEF Giving
<1>3. CASE Failing(t) /\ UNCHANGED devices
  <2>1. ldev' = ldev /\ usb_devs' = usb_devs
    BY <1>3 DEF devices
  <2>2. DevStep /\ DevsKept
    BY <2>1, DevStill
  <2> QED
    BY <1>1, <1>2, <1>3, <2>1, <2>2, GivenUp
<1>4. CASE /\ Moved(t, "init") /\ Same(t, {"cur", "fresh"})
           /\ scan'[t].cur = NewDev /\ scan'[t].fresh
           /\ NewDev \in Objs /\ ldev[NewDev].state = "none"
           /\ ldev' = [ldev EXCEPT ![NewDev] = [NoDev EXCEPT !.addr = scan[t].at,
                                                       !.refcnt = 1, !.state = "live"]]
           /\ usb_devs' = <<NewDev>> \o usb_devs
  <2>1. PICK c \in Objs, a \in Addrs \cup {0} : c = NewDev /\ a = scan[t].at
    BY <1>4, ScanFacts DEF Scans
  <2>2. DevChanged(c, a, 1, FALSE, FALSE, "live") /\ usb_devs' \in Seq(Objs)
    <3>1. ldev' = [ldev EXCEPT ![c] = [NoDev EXCEPT !.addr = a, !.refcnt = 1, !.state = "live"]]
      BY <1>4, <2>1
    <3>2. usb_devs' = <<c>> \o usb_devs
      BY <1>4, <2>1
    <3> QED
      BY <3>1, <3>2, AllocatedIs
  <2>3. DevStep
    <3>1. ldev[c].state = "none"
      BY <1>4, <2>1
    <3> QED
      BY <2>2, <3>1 DEF DevStep, DevChanged, Lasting
  <2>4. CurrentOf(t)'
    <3>1. scan'[t].cur = c /\ scan'[t].at = a
      BY <1>4, <2>1 DEF Same
    <3> QED
      BY <2>2, <3>1 DEF CurrentOf, DevChanged
  <2>5. Shaped(t)'
    <3>1. "init" \in Spots \ (Giving \cup {"idle"}) /\ "init" \in Building
      BY DEF Spots, Giving, Building
    <3> QED
      BY <1>1, <1>2, <1>4, <3>1, ShapedMoved
  <2> QED
    BY <1>1, <2>3, <2>4, <2>5, AllocCounted DEF Keeps
<1> QED
  BY <1>3, <1>4, AllocIs

\* A device is appended.
LEMMA AppendKeeps ==
  ASSUME DevInv, NEW t \in Threads, discovered_devs_append(t)
  PROVE  Keeps(t)
<1>1. /\ Local(t) /\ pc[t] = "append" /\ lists' = lists /\ handles' = handles
      /\ usb_devs' = usb_devs
  BY AppendIs, Zenon DEF discovered_devs_append, ScanFrame, app
<1>2. pc[t] \notin Giving \cup {"idle"}
  BY <1>1 DEF Giving
<1>3. CASE Failing(t) /\ UNCHANGED <<ldev, health>>
  <2>1. DevStep /\ DevsKept
    BY <1>1, <1>3, DevStill
  <2> QED
    BY <1>1, <1>2, <1>3, <2>1, GivenUp
<1>4. CASE Ref(scan[t].cur) /\ Giving_Back(t, FirstRef(t), "next") /\ ~scan'[t].fresh
  <2>1. PICK c \in Objs : c = scan[t].cur /\ ldev[c].state # "none"
    BY <1>1 DEF DevInv, Current
  <2>2. DevChanged(c, ldev[c].addr, ldev[c].refcnt + 1, ldev[c].dir, ldev[c].desc,
                   ldev[c].state)
    BY <1>4, <2>1, RefIs
  <2>3. DevStep
    BY <1>1, <2>1, <2>2, DevOne, DevTypes DEF DevStep
  <2>4. /\ Toward(t)' = "next" /\ pc'[t] \in {"unref", "next"}
        /\ pc'[t] \in Giving <=> drop'[t] # <<>>
    BY <1>4 DEF Giving_Back
  <2>5. t \in Scanners /\ lists[t] = <<>>
    BY <1>2, ShapedIs DEF Shaped, InScan, Toward
  <2>6. Shaped(t)' /\ CurrentOf(t)'
    BY <1>1, <1>4, <2>4, <2>5 DEF Shaped, CurrentOf, InScan, Building
  <2> QED
    BY <1>1, <2>3, <2>6, AppendCounted DEF Keeps
<1> QED
  BY <1>3, <1>4, AppendIs

\* A reference is given back.
LEMMA GivingKeeps ==
  ASSUME DevInv, NEW t \in Threads, libusb_unref_device(t) \/ destroy_device(t)
  PROVE  Keeps(t)
<1>1. PICK c : c = Head(drop[t])
  OBVIOUS
<1>2. /\ Local(t) /\ scan' = scan /\ lists' = lists /\ pc[t] \in Giving /\ c \in Objs
      /\ drop[t] # <<>>
      /\ \/ pc'[t] = "destroy" /\ drop' = drop /\ then' = then /\ Toward(t)' = Toward(t)
         \/ Giving_Back(t, Tail(drop[t]), Toward(t))
  BY <1>1, UnrefIs, DestroyIs DEF Giving
<1>3. Shaped(t)'
  <2>1. Toward(t)' = Toward(t) /\ (pc'[t] \in Giving <=> drop'[t] # <<>>)
    BY <1>2 DEF Giving_Back, Giving
  <2>2. ~scan[t].fresh
    BY <1>2, ShapedIs DEF Shaped, Giving, Building
  <2>3. pc'[t] \notin Building
    <3>1. Toward(t) \in {"idle", "next", "fail"}
      BY <1>2, ScanFacts DEF Toward
    <3> QED
      BY <1>2, <3>1 DEF Giving_Back, Building
  <2> QED
    BY <1>2, <2>1, <2>2, <2>3, ShapedIs DEF Shaped, InScan
<1>4. CurrentOf(t)'
  <2>1. Toward(t) \in {"idle", "next", "fail"}
    BY <1>2, ScanFacts DEF Toward
  <2>2. pc'[t] \notin Building \cup {"append"}
    BY <1>2, <2>1 DEF Giving_Back, Building
  <2> QED
    BY <2>2 DEF CurrentOf
<1>5. CASE libusb_unref_device(t)
  <2>1. ldev[c].refcnt >= 1 /\ ldev[c].state # "none"
    BY <1>1, <1>2, <1>5, UnrefIs, AtUnref, CountedIs
  <2>2. /\ DevChanged(c, ldev[c].addr, ldev[c].refcnt - 1, ldev[c].dir, ldev[c].desc,
                      ldev[c].state)
        /\ usb_devs' = usb_devs
    BY <1>1, <1>2, <1>5, <2>1, UnrefedIs
  <2>3. DevStep
    BY <1>2, <2>1, <2>2, DevOne, DevTypes DEF DevStep
  <2> QED
    BY <1>2, <1>3, <1>4, <1>5, <2>3, UnrefCounted DEF Keeps
<1>6. CASE destroy_device(t)
  <2>1. /\ DevChanged(c, ldev[c].addr, ldev[c].refcnt, FALSE, FALSE, "freed")
        /\ usb_devs' \in Seq(Objs)
    BY <1>1, <1>2, <1>6, DestroyedIs
  <2>2. DevStep
    BY <1>2, <2>1, DevOne DEF DevStep
  <2> QED
    BY <1>2, <1>3, <1>4, <1>6, <2>2, DestroyCounted DEF Keeps
<1> QED
  BY <1>5, <1>6

\* The end of a scan.
LEMMA EndKeeps ==
  ASSUME DevInv, NEW t \in Threads, ScanFails(t) \/ ScanDone(t)
  PROVE  Keeps(t)
<1>1. /\ pc[t] \in {"fail", "done"} /\ handles' = handles /\ ldev' = ldev /\ usb_devs' = usb_devs
  BY DEF ScanFails, ScanDone, app, devices
<1>2. pc[t] \notin Giving \cup {"idle"} /\ pc[t] # "destroy"
  BY <1>1 DEF Giving
<1>3. DevStep
  BY <1>1, DevStill
<1>4. Local(t)
  BY ScanFailsIs, ScanDoneIs
<1>5. ~scan[t].fresh /\ lists[t] = <<>> /\ drop[t] = <<>> /\ scan[t].devs \in Seq(Objs)
  BY <1>1, <1>2, ShapedIs, ScanFacts DEF Shaped, Building, InScan, Toward
<1>6. CASE UNCHANGED <<drop, then, pc, scan, lists, result>>
  <2>1. \A o \in Objs : HeldBy(t, o)' = HeldBy(t, o)
    BY <1>6, HeldSame
  <2>2. Counted'
    BY <1>1, <1>2, <1>4, <2>1, CountedKept
  <2>3. Shaped(t)'
    BY <1>6, ShapedIs DEF Shaped, InScan, Toward
  <2>4. CurrentOf(t)'
    BY <1>1, <1>6 DEF CurrentOf, Building
  <2> QED
    BY <1>3, <1>4, <2>2, <2>3, <2>4 DEF Keeps
<1>7. CASE /\ scan'[t] = NoScan /\ Toward(t)' = "idle" /\ pc'[t] \in {"unref", "idle"}
           /\ pc'[t] \in Giving <=> drop'[t] # <<>>
           /\ \/ lists'[t] = scan[t].devs /\ drop'[t] = <<>>
              \/ lists'[t] = <<>> /\ drop'[t] = scan[t].devs
  <2>1. ~scan'[t].fresh /\ scan'[t].devs = <<>> /\ pc'[t] # "destroy"
    BY <1>7, NoScanIs
  <2>2. Counted'
    <3>1. CASE lists'[t] = scan[t].devs /\ drop'[t] = <<>>
      BY <1>1, <1>2, <1>4, <1>5, <2>1, <3>1, HandedCounted
    <3>2. CASE lists'[t] = <<>> /\ drop'[t] = scan[t].devs
      BY <1>1, <1>2, <1>4, <1>5, <2>1, <3>2, HandedCounted
    <3> QED
      BY <1>7, <3>1, <3>2
  <2>3. Shaped(t)' /\ CurrentOf(t)'
    BY <1>7, <2>1 DEF Shaped, CurrentOf, InScan, Building
  <2> QED
    BY <1>3, <1>4, <2>2, <2>3 DEF Keeps
<1>8. \/ UNCHANGED <<drop, then, pc, scan, lists, result>>
      \/ lists' = lists /\ Over(t, "error") /\ Giving_Back(t, scan[t].devs, "idle")
      \/ lists'[t] = scan[t].devs /\ Over(t, "ok") /\ Moved(t, "idle")
  BY ScanFailsIs, ScanDoneIs DEF Failed
<1>9. CASE lists' = lists /\ Over(t, "error") /\ Giving_Back(t, scan[t].devs, "idle")
  <2>1. /\ scan'[t] = NoScan /\ Toward(t)' = "idle" /\ pc'[t] \in {"unref", "idle"}
        /\ pc'[t] \in Giving <=> drop'[t] # <<>>
        /\ lists'[t] = <<>> /\ drop'[t] = scan[t].devs
    BY <1>5, <1>9 DEF Over, Giving_Back
  <2> QED
    BY <1>7, <2>1
<1>10. CASE lists'[t] = scan[t].devs /\ Over(t, "ok") /\ Moved(t, "idle")
  <2>1. /\ scan'[t] = NoScan /\ Toward(t)' = "idle" /\ pc'[t] \in {"unref", "idle"}
        /\ pc'[t] \in Giving <=> drop'[t] # <<>>
        /\ lists'[t] = scan[t].devs /\ drop'[t] = <<>>
    BY <1>5, <1>10 DEF Over, Moved, Giving
  <2> QED
    BY <1>7, <2>1
<1> QED
  BY <1>6, <1>8, <1>9, <1>10

\* The calls of the program.
LEMMA GetListKeeps ==
  ASSUME DevInv, NEW t \in Threads, libusb_get_device_list(t)
  PROVE  Keeps(t)
<1>1. /\ Local(t) /\ lists' = lists /\ lists[t] = <<>> /\ pc[t] = "idle" /\ t \in Scanners
      /\ Moved(t, "opendir") /\ ~scan'[t].fresh /\ scan'[t].devs = <<>>
  BY GetListIs
<1>2. /\ handles' = handles /\ ldev' = ldev /\ usb_devs' = usb_devs
  BY DEF libusb_get_device_list, app, devices
<1>3. pc[t] \notin Giving /\ pc'[t] \notin Giving /\ pc'[t] = "opendir" /\ drop[t] = <<>>
      /\ drop'[t] = <<>>
  BY <1>1, ScanFacts DEF Giving, Moved
<1>4. scan[t] = NoScan
  BY <1>1, <1>3, ShapedIs DEF Shaped, InScan, Toward
<1>5. ~scan[t].fresh /\ scan[t].devs = <<>>
  BY <1>4, NoScanIs
<1>6. DevStep
  BY <1>2, DevStill
<1>7. Counted'
  BY <1>1, <1>2, <1>3, <1>5, HandedCounted
<1>8. Toward(t)' = "opendir"
  BY <1>1 DEF Moved
<1>9. Shaped(t)' /\ CurrentOf(t)'
  BY <1>1, <1>3, <1>8 DEF Shaped, CurrentOf, InScan, Building
<1> QED
  BY <1>1, <1>6, <1>7, <1>9 DEF Keeps

LEMMA FreeListKeeps ==
  ASSUME DevInv, NEW t \in Threads, libusb_free_device_list(t)
  PROVE  Keeps(t)
<1>1. /\ Local(t) /\ scan' = scan /\ pc[t] = "idle"
      /\ lists'[t] = <<>> /\ Giving_Back(t, lists[t], "idle")
  BY FreeListIs
<1>2. /\ handles' = handles /\ ldev' = ldev /\ usb_devs' = usb_devs
  BY DEF libusb_free_device_list, devices
<1>3. pc[t] \notin Giving
  BY <1>1 DEF Giving
<1>4. scan[t] = NoScan
  BY <1>1, <1>3, ShapedIs DEF Shaped, InScan, Toward
<1>5. ~scan[t].fresh /\ scan[t].devs = <<>> /\ scan'[t] = NoScan
  BY <1>1, <1>4, NoScanIs
<1>6. DevStep
  BY <1>2, DevStill
<1>7. /\ drop'[t] = lists[t] /\ Toward(t)' = "idle" /\ pc'[t] \in {"unref", "idle"}
      /\ pc'[t] \in Giving <=> drop'[t] # <<>>
  BY <1>1 DEF Giving_Back
<1>8. Counted'
  BY <1>1, <1>2, <1>3, <1>5, <1>7, NoScanIs, HandedCounted
<1>9. Shaped(t)' /\ CurrentOf(t)'
  BY <1>5, <1>7, NoScanIs DEF Shaped, CurrentOf, InScan, Building
<1> QED
  BY <1>1, <1>6, <1>8, <1>9 DEF Keeps

LEMMA OpenKeeps ==
  ASSUME DevInv, NEW t \in Threads, libusb_open(t)
  PROVE  Keeps(t)
<1>1. /\ Local(t) /\ UNCHANGED <<scan, drop, then, pc, lists, result>> /\ pc[t] = "idle"
      /\ usb_devs' = usb_devs
  BY OpenIs DEF libusb_open
<1>2. Shaped(t)'
  BY <1>1, ShapedIs DEF Shaped, InScan, Toward
<1>3. CurrentOf(t)'
  BY <1>1 DEF CurrentOf, Building
<1>4. DevStep
  <2>1. CASE ldev' = ldev
    BY <1>1, <2>1, DevStill
  <2>2. ASSUME NEW c \in Objs, Ref(c)
        PROVE  DevStep
    <3>1. DevChanged(c, ldev[c].addr, ldev[c].refcnt + 1, ldev[c].dir, ldev[c].desc,
                     ldev[c].state)
      BY <2>2, RefIs
    <3> QED
      BY <1>1, <3>1, DevTypes DEF DevStep, DevChanged, Lasting
  <2> QED
    BY <2>1, <2>2, OpenIs
<1> QED
  BY <1>1, <1>2, <1>3, <1>4, OpenCounted DEF Keeps

LEMMA CloseKeeps ==
  ASSUME DevInv, NEW t \in Threads, libusb_close(t)
  PROVE  Keeps(t)
<1>1. /\ Local(t) /\ scan' = scan /\ lists' = lists /\ pc[t] = "idle"
      /\ \E h \in 1 .. MaxHandles : Giving_Back(t, <<handles[h]>>, "idle")
  BY CloseIs
<1>2. /\ ldev' = ldev /\ usb_devs' = usb_devs
  BY DEF libusb_close, devices
<1>3. DevStep
  BY <1>2, DevStill
<1>4. /\ Toward(t)' = "idle" /\ pc'[t] \in {"unref", "idle"}
      /\ pc'[t] \in Giving <=> drop'[t] # <<>>
  BY <1>1 DEF Giving_Back
<1>5. scan'[t] = NoScan
  BY <1>1, ShapedIs DEF Shaped, InScan, Toward, Giving
<1>6. Shaped(t)' /\ CurrentOf(t)'
  BY <1>4, <1>5, NoScanIs DEF Shaped, CurrentOf, InScan, Building
<1> QED
  BY <1>1, <1>3, <1>6, CloseCounted DEF Keeps

\* Every step of a thread.
LEMMA ThreadKeeps ==
  ASSUME DevInv, NEW t \in Threads, Call(t) \/ Inside(t)
  PROVE  Keeps(t)
<1>1. CASE Call(t)
  BY <1>1, GetListKeeps, FreeListKeeps, OpenKeeps, CloseKeeps DEF Call
<1>2. CASE Inside(t)
  BY <1>2, OpenDirKeeps, ReadDirKeeps, SysfsScanKeeps, LookupKeeps, BuildingKeeps, AllocKeeps,
     AppendKeeps, GivingKeeps, EndKeeps DEF Inside
<1> QED
  BY <1>1, <1>2

\* The types of what belongs to no thread, and of the histories.
Frame ==
  /\ plugged \subseteq seen /\ seen \subseteq Addrs /\ kernel \in Kernels
  /\ sysfs_can_relate_devices \in {-1, 0, 1} /\ sysfs_has_descriptors \in {-1, 0, 1}
  /\ scans \in [Threads -> 0..MaxScans]
  /\ quiet \subseteq Threads /\ steady \in [Threads -> SUBSET Addrs] /\ errors \in 0..MaxErrors
  /\ health \in {"ok", "used_after_free", "freed_twice", "collection_freed"}

\* What the histories become in a step of t.
Noted(t) == \/ Works
            \/ Fails(t)
            \/ /\ quiet' = quiet \cup {t} /\ steady' = [steady EXCEPT ![t] = plugged]
               /\ errors' = errors

LEMMA InsideFrame ==
  ASSUME NEW t \in Threads, Inside(t)
  PROVE  /\ UNCHANGED <<world, scans>>
         /\ Works \/ Fails(t)
         /\ sysfs_can_relate_devices' \in {sysfs_can_relate_devices, 0, 1}
         /\ sysfs_has_descriptors' \in {sysfs_has_descriptors, 0, 1}
         /\ health' \in {health, "used_after_free", "freed_twice", "collection_freed"}
<1>1. CASE libusb_unref_device(t) \/ destroy_device(t)
  BY <1>1 DEF libusb_unref_device, destroy_device, globals, Works
<1>2. CASE OpenDir(t) \/ ReadDir(t)
  BY <1>2 DEF OpenDir, ReadDir, ScanFrame, NoDevice, globals
<1>3. CASE StatDescriptors(t)
  BY <1>3 DEF StatDescriptors, ScanFrame, NoDevice
<1>4. CASE FallBack(t) \/ ReadBusnum(t) \/ ReadDevnum(t)
  BY <1>4 DEF FallBack, ReadBusnum, ReadDevnum, ScanFrame, NoDevice, globals
<1>5. CASE Lookup(t)
  BY <1>5 DEF Lookup, ScanFrame, NoDevice, globals
<1>6. CASE usbi_alloc_device(t)
  BY <1>6 DEF usbi_alloc_device, ScanFrame, globals
<1>7. CASE discovered_devs_append(t)
  BY <1>7 DEF discovered_devs_append, Ref, ScanFrame, globals
<1>8. CASE InitDevice(t) \/ OpenNode(t)
  BY <1>8 DEF InitDevice, OpenNode, ScanFrame, NoDevice, globals
<1>9. CASE GetActiveConfig(t) \/ ReadDescriptors(t)
  BY <1>9 DEF GetActiveConfig, ReadDescriptors, ScanFrame, NoDevice, globals
<1>10. CASE usbi_sanitize_device(t)
  BY <1>10 DEF usbi_sanitize_device, ScanFrame, NoDevice, globals
<1>11. CASE ScanFails(t) \/ ScanDone(t)
  BY <1>11 DEF ScanFails, ScanDone, globals, Works
<1> QED
  BY <1>1, <1>2, <1>3, <1>4, <1>5, <1>6, <1>7, <1>8, <1>9, <1>10, <1>11 DEF Inside

LEMMA CallFrame ==
  ASSUME DevInv, NEW t \in Threads, Call(t)
  PROVE  /\ UNCHANGED <<world, globals>> /\ Noted(t) /\ scans' \in [Threads -> 0..MaxScans]
         /\ health' \in {health, "used_after_free"}
<1>1. scans \in [Threads -> 0..MaxScans]
  BY DEF DevInv, DevicesTypes
<1>2. CASE libusb_get_device_list(t)
  <2>1. scans[t] \in 0..MaxScans /\ scans[t] < MaxScans /\ scans' = [scans EXCEPT ![t] = @ + 1]
    BY <1>1, <1>2 DEF libusb_get_device_list
  <2>2. scans[t] + 1 \in 0..MaxScans
    BY <2>1, DeviceNumbers
  <2> QED
    BY <1>1, <1>2, <2>1, <2>2 DEF libusb_get_device_list, Noted
<1>3. CASE libusb_free_device_list(t) \/ libusb_close(t)
  BY <1>1, <1>3 DEF libusb_free_device_list, libusb_close, Noted, Works
<1>4. CASE libusb_open(t)
  BY <1>1, <1>4 DEF libusb_open, Noted, Ref
<1> QED
  BY <1>2, <1>3, <1>4 DEF Call

LEMMA ThreadFrame ==
  ASSUME DevInv, NEW t \in Threads, Call(t) \/ Inside(t)
  PROVE  UNCHANGED world /\ Noted(t) /\ Frame'
<1>1. Frame
  BY DEF DevInv, DevicesTypes, Frame
<1>2. /\ UNCHANGED world /\ Noted(t) /\ scans' \in [Threads -> 0..MaxScans]
      /\ health' \in {health, "used_after_free", "freed_twice", "collection_freed"}
      /\ sysfs_can_relate_devices' \in {sysfs_can_relate_devices, 0, 1}
      /\ sysfs_has_descriptors' \in {sysfs_has_descriptors, 0, 1}
  <2>1. CASE Inside(t)
    <3>1. scans' = scans /\ UNCHANGED world
      BY <2>1, InsideFrame
    <3>2. Noted(t)
      BY <2>1, InsideFrame DEF Noted
    <3>3. /\ sysfs_can_relate_devices' \in {sysfs_can_relate_devices, 0, 1}
          /\ sysfs_has_descriptors' \in {sysfs_has_descriptors, 0, 1}
          /\ health' \in {health, "used_after_free", "freed_twice", "collection_freed"}
      BY <2>1, InsideFrame
    <3> QED
      BY <1>1, <3>1, <3>2, <3>3 DEF Frame
  <2>2. CASE Call(t)
    BY <2>2, CallFrame DEF globals
  <2> QED
    BY <2>1, <2>2
<1>3. plugged \subseteq Addrs /\ MaxErrors \in Nat
  BY <1>1, DeviceNumbers DEF Frame
<1>4. quiet' \subseteq Threads /\ steady' \in [Threads -> SUBSET Addrs] /\ errors' \in 0..MaxErrors
  <2>1. CASE Works
    BY <1>1, <2>1 DEF Frame, Works, history
  <2>2. CASE Fails(t)
    BY <1>1, <1>3, <2>2 DEF Frame, Fails
  <2>3. CASE /\ quiet' = quiet \cup {t} /\ steady' = [steady EXCEPT ![t] = plugged]
             /\ errors' = errors
    BY <1>1, <1>3, <2>3 DEF Frame
  <2> QED
    BY <1>2, <2>1, <2>2, <2>3 DEF Noted
<1> QED
  BY <1>1, <1>2, <1>4 DEF Frame, world

\* The parts of the types.
LEMMA TypesAre ==
  /\ DevicesTypes <=> /\ Frame /\ ThreadTypes /\ ldev \in [Objs -> Devs] /\ usb_devs \in Seq(Objs)
                      /\ files \in Nat /\ unpolled \in Nat
                      /\ handles \in [1 .. MaxHandles -> Objs \cup {0}]
BY DEF DevicesTypes, Frame, ThreadTypes, Devs, Scans, Spots

LEMMA ThreadInv ==
  ASSUME DevInv, NEW t \in Threads, Call(t) \/ Inside(t)
  PROVE  DevInv'
<1>1. Keeps(t)
  BY ThreadKeeps
<1>2. Frame'
  BY ThreadFrame
<1>3. /\ FilesClosed' /\ files' \in Nat /\ unpolled' \in Nat
      /\ handles' \in [1 .. MaxHandles -> Objs \cup {0}]
  <2>1. unpolled \in Nat /\ handles \in [1 .. MaxHandles -> Objs \cup {0}]
    BY DEF DevInv, DevicesTypes
  <2> QED
    BY <2>1, InsideFiles, CallFiles
<1>4. DevicesTypes'
  <2>1. /\ Frame' /\ ThreadTypes' /\ ldev' \in [Objs -> Devs] /\ usb_devs' \in Seq(Objs)
        /\ files' \in Nat /\ unpolled' \in Nat
        /\ handles' \in [1 .. MaxHandles -> Objs \cup {0}]
    BY <1>1, <1>2, <1>3 DEF Keeps, DevStep, Local
  <2> QED
    BY <2>1 DEF DevicesTypes, Frame, ThreadTypes, Devs, Scans, Spots
<1>5. Shape' /\ Current'
  BY <1>1, ShapedKept, CurrentKept DEF Keeps, DevStep, Lasting
<1> QED
  BY <1>1, <1>3, <1>4, <1>5 DEF DevInv, Keeps

\* Steps of the bus and stuttering steps.
Quiet == UNCHANGED <<devices, files, app, scan, walk, pc, result>>

LEMMA QuietInv ==
  ASSUME DevInv, Quiet, Frame'
  PROVE  DevInv'
<1>1. DevicesTypes'
  BY TypesAre DEF DevInv, Quiet, DevicesTypes, Frame, ThreadTypes, devices, app, walk, Devs, Scans,
     Spots
<1>2. Shape' /\ Current'
  BY DEF DevInv, Quiet, Shape, Current, devices, app, walk, InScan, Toward
<1>3. FilesClosed'
  BY DEF DevInv, Quiet, FilesClosed, app
<1>4. \A o \in Objs : Holders(o)' = Holders(o)
  BY DEF Quiet, Holders, HeldBy, Count, app, walk
<1>5. Counted'
  BY <1>4 DEF DevInv, Quiet, Counted, devices, walk
<1> QED
  BY <1>1, <1>2, <1>3, <1>5 DEF DevInv

LEMMA BusInv ==
  ASSUME DevInv, Attach \/ Detach
  PROVE  DevInv'
<1>1. Quiet
  BY DEF Attach, Detach, Quiet
<1>2. Frame
  BY DEF DevInv, DevicesTypes, Frame
<1>3. ASSUME Attach PROVE Frame'
  BY <1>2, <1>3 DEF Frame, Attach, globals
<1>4. ASSUME Detach PROVE Frame'
  BY <1>2, <1>4 DEF Frame, Detach, globals
<1> QED
  BY <1>1, <1>3, <1>4, QuietInv

\* The first state.
LEMMA FirstState ==
  ASSUME DevicesInit
  PROVE  DevInv
<1>1. \A t \in Threads : /\ pc[t] = "idle" /\ drop[t] = <<>> /\ then[t] = "idle"
                         /\ scan[t] = NoScan /\ lists[t] = <<>> /\ scans[t] = 0
  BY DEF DevicesInit
<1>2. Frame
  BY DeviceNumbers DEF DevicesInit, Frame
<1>3. ThreadTypes
  <2>1. <<>> \in Seq(Objs) /\ "idle" \in Spots
    BY DEF Spots
  <2> QED
    BY <2>1, NoScanIs DEF DevicesInit, ThreadTypes
<1>4. /\ ldev \in [Objs -> Devs] /\ usb_devs \in Seq(Objs) /\ files \in Nat /\ unpolled \in Nat
      /\ handles \in [1 .. MaxHandles -> Objs \cup {0}]
  <2>1. NoDev \in Devs
    BY DEF NoDev, Devs
  <2> QED
    BY <2>1 DEF DevicesInit
<1>5. DevicesTypes
  BY <1>2, <1>3, <1>4, TypesAre
<1>6. Shape /\ Current
  BY <1>1, NoScanIs DEF Shape, Current, InScan, Toward, Giving, Building
<1>7. FilesClosed
  <2>1. {h \in 1 .. MaxHandles : handles[h] # 0} = {}
    BY DEF DevicesInit
  <2>2. {t \in Threads : pc[t] \in {"active", "read"}} = {}
    BY <1>1
  <2>3. files = 0 /\ unpolled = 0 /\ Cardinality({}) = 0
    BY FS_EmptySet DEF DevicesInit
  <2>4. /\ Cardinality({h \in 1 .. MaxHandles : handles[h] # 0}) = 0
        /\ Cardinality({t \in Threads : pc[t] \in {"active", "read"}}) = 0
    BY <2>1, <2>2, <2>3, Zenon
  <2> QED
    BY <2>3, <2>4 DEF FilesClosed
<1>8. ASSUME NEW o \in Objs
      PROVE  Holders(o) = 0
  <2>1. Count(handles, o) = 0
    <3>1. PICK n \in Nat : n = MaxHandles
      BY DeviceNumbers
    <3>2. DOMAIN handles = 1 .. n /\ \A h \in 1 .. n : handles[h] # o
      BY <3>1, DeviceNumbers DEF DevicesInit, Objs
    <3> QED
      BY <3>2, CountNat
  <2>2. \A t \in Threads : HeldBy(t, o) = 0
    <3> SUFFICES ASSUME NEW t \in Threads PROVE HeldBy(t, o) = 0
      OBVIOUS
    <3>1. Count(lists[t], o) = 0 /\ Count(scan[t].devs, o) = 0 /\ Count(drop[t], o) = 0
      <4>1. lists[t] = <<>> /\ scan[t].devs = <<>> /\ drop[t] = <<>>
        BY <1>1, NoScanIs
      <4>2. Count(<<>>, o) = 0
        BY CountShort
      <4> QED
        BY <4>1, <4>2
    <3>2. ~scan[t].fresh /\ pc[t] # "destroy"
      BY <1>1, NoScanIs
    <3> QED
      BY <3>1, <3>2 DEF HeldBy
  <2>3. UNION {{t} \X (1..HeldBy(t, o)) : t \in Threads} = {}
    <3>1. \A t \in Threads : {t} \X (1..HeldBy(t, o)) = {}
      <4> SUFFICES ASSUME NEW t \in Threads PROVE {t} \X (1..HeldBy(t, o)) = {}
        OBVIOUS
      <4>1. 1..HeldBy(t, o) = {}
        BY <2>2
      <4> QED
        BY <4>1
    <3> QED
      BY <3>1
  <2>4. Cardinality({}) = 0
    BY FS_EmptySet
  <2>5. Cardinality(UNION {{t} \X (1..HeldBy(t, o)) : t \in Threads}) = 0
    BY <2>3, <2>4, Zenon
  <2> QED
    BY <2>1, <2>5 DEF Holders
<1>9. Counted
  <2>1. \A o \in Objs : ldev[o] = NoDev /\ Holders(o) = 0
    BY <1>8 DEF DevicesInit
  <2>2. NoDev.refcnt = 0 /\ NoDev.state = "none" /\ Range(usb_devs) = {}
    BY DEF NoDev, DevicesInit, Range
  <2> QED
    BY <2>1, <2>2 DEF Counted
<1> QED
  BY <1>5, <1>6, <1>7, <1>9 DEF DevInv

\* The accounts are kept, by any number of threads and whatever fails.
THEOREM DevicesInvariant == DevicesSpec => []DevInv
<1>1. DevicesInit => DevInv
  BY FirstState
<1>2. DevInv /\ [DevicesNext]_devices_vars => DevInv'
  <2> SUFFICES ASSUME DevInv, [DevicesNext]_devices_vars PROVE DevInv'
    OBVIOUS
  <2>1. CASE UNCHANGED devices_vars
    <3>1. Quiet /\ UNCHANGED <<world, globals, scans, history, health>>
      BY <2>1 DEF devices_vars, Quiet
    <3>2. Frame
      BY DEF DevInv, DevicesTypes, Frame
    <3>3. Frame'
      BY <3>1, <3>2 DEF Frame, world, globals, history
    <3> QED
      BY <3>1, <3>3, QuietInv
  <2>2. CASE DevicesNext
    BY <2>2, BusInv, ThreadInv DEF DevicesNext
  <2> QED
    BY <2>1, <2>2
<1> QED
  BY <1>1, <1>2, PTL DEF DevicesSpec

\* Whatever fails in the middle of a scan, no reference and no file is lost: the
\* count of every device is the number of those that hold it.
THEOREM DevicesCorrect == DevicesSpec => []DevicesOK
<1>1. DevInv => DevicesOK
  BY DEF DevInv, Counted, DevicesOK, RefsMatch
<1> QED
  BY <1>1, DevicesInvariant, PTL

\* Covers, for one thread.
CoversOf(t) ==
  /\ steady[t] \subseteq plugged
  /\ Toward(t) \in {"next", "done"} \cup Reading =>
       steady[t] \subseteq AddrsOf(scan[t].devs) \cup scan[t].todo
                             \cup (IF pc[t] \in Reading THEN {scan[t].at} ELSE {})
  /\ pc[t] = "done" => scan[t].todo = {}
  /\ ~InScan(t) /\ result[t] = "ok" => steady[t] \subseteq AddrsOf(lists[t])

\* What is on a list or in a collection was made.
LEMMA HeldMade ==
  ASSUME DevInv, NEW t \in Threads, NEW o \in Range(lists[t]) \cup Range(scan[t].devs)
  PROVE  o \in Objs /\ ldev[o].state # "none" /\ ldev[o].refcnt >= 1
<1>1. /\ lists[t] \in Seq(Objs) /\ scan[t].devs \in Seq(Objs) /\ drop[t] \in Seq(Objs)
      /\ pc[t] = "destroy" => drop[t] # <<>>
  BY ScanFacts DEF Giving
<1>2. o \in Objs
  BY <1>1 DEF Range
<1>3. /\ HeldBy(t, o) = HeldOf(lists[t], scan[t].devs, drop[t], NewRef(t, o), pc[t], o)
      /\ HeldBy(t, o) \in Nat /\ Holders(o) >= HeldBy(t, o)
  BY <1>2, HoldersAre
<1>4a. PICK p : p = pc[t]
  OBVIOUS
<1>4. PICK w \in {0, 1} : w = NewRef(t, o)
  BY DEF NewRef
<1>5. p = "destroy" => drop[t] # <<>>
  BY <1>1, <1>4, <1>4a
<1>6. HeldOf(lists[t], scan[t].devs, drop[t], w, p, o) >= 1
  BY <1>1, <1>5, HeldOfNat
<1>7. HeldBy(t, o) >= 1
  BY <1>3, <1>4, <1>4a, <1>6
<1>8. ldev[o].refcnt >= 1
  BY <1>2, <1>3, <1>7, CountedIs
<1> QED
  BY <1>2, <1>8, CountedIs

LEMMA AddrsKept ==
  ASSUME DevInv, NEW t \in Threads, Lasting
  PROVE  /\ {ldev'[o].addr : o \in Range(lists[t])} = AddrsOf(lists[t])
         /\ {ldev'[o].addr : o \in Range(scan[t].devs)} = AddrsOf(scan[t].devs)
<1>1. \A o \in Range(lists[t]) \cup Range(scan[t].devs) : ldev'[o].addr = ldev[o].addr
  BY HeldMade DEF Lasting
<1> QED
  BY <1>1 DEF AddrsOf

\* The other threads.
LEMMA CoversOthers ==
  ASSUME DevInv, Covers, NEW t \in Threads, Local(t), Lasting, UNCHANGED world,
         \A u \in Threads : u # t => steady'[u] = steady[u], CoversOf(t)'
  PROVE  Covers'
<1>1. ASSUME NEW u \in Threads, u # t
      PROVE  CoversOf(u)'
  <2>1. /\ pc'[u] = pc[u] /\ drop'[u] = drop[u] /\ then'[u] = then[u] /\ scan'[u] = scan[u]
        /\ lists'[u] = lists[u] /\ result'[u] = result[u] /\ steady'[u] = steady[u]
    BY <1>1 DEF Local, Others, View
  <2>2. CoversOf(u)
    BY DEF Covers, CoversOf
  <2>3. Toward(u)' = Toward(u) /\ (InScan(u)' <=> InScan(u)) /\ plugged' = plugged
    BY <2>1 DEF Toward, InScan, world
  <2>4. AddrsOf(lists[u])' = AddrsOf(lists[u]) /\ AddrsOf(scan[u].devs)' = AddrsOf(scan[u].devs)
    BY <2>1, AddrsKept DEF AddrsOf
  <2> QED
    BY <2>1, <2>2, <2>3, <2>4 DEF CoversOf
<1> QED
  BY <1>1 DEF Covers, CoversOf

\* A step at which what was found and what is to come stay.
LEMMA CoversMoved ==
  ASSUME DevInv, Covers, NEW t \in Threads, Lasting, UNCHANGED world, steady' = steady,
         pc[t] \in Reading, NEW place \in Reading, Moved(t, place),
         scan'[t].devs = scan[t].devs, scan'[t].todo = scan[t].todo, scan'[t].at = scan[t].at
  PROVE  CoversOf(t)'
<1>1. pc'[t] = place /\ Toward(t)' = place /\ place \notin {"done", "idle"} /\ plugged' = plugged
  BY DEF Moved, Reading, Building, world
<1>2. Toward(t) = pc[t]
  BY DEF Toward, Giving, Reading, Building
<1>3. steady[t] \subseteq plugged
      /\ steady[t] \subseteq AddrsOf(scan[t].devs) \cup scan[t].todo \cup {scan[t].at}
  BY <1>2 DEF Covers
<1>4. AddrsOf(scan[t].devs)' = AddrsOf(scan[t].devs)
  BY AddrsKept DEF AddrsOf
<1> QED
  BY <1>1, <1>3, <1>4 DEF CoversOf, InScan

\* A step after which nothing is promised.
LEMMA CoversFree ==
  ASSUME Covers, NEW t \in Threads, UNCHANGED world, steady' = steady,
         Toward(t)' \in {"fail", "opendir"} \/ (Toward(t)' = "idle" /\ result'[t] # "ok"),
         pc'[t] \notin Reading \cup {"done"}
  PROVE  CoversOf(t)'
<1>1. steady[t] \subseteq plugged /\ plugged' = plugged
  BY DEF Covers, world
<1> QED
  BY <1>1 DEF CoversOf, InScan, Reading, Building

LEMMA CoversFails ==
  ASSUME Covers, NEW t \in Threads, UNCHANGED world, steady' = steady, Failing(t)
  PROVE  CoversOf(t)'
<1>1. Toward(t)' = "fail" /\ pc'[t] \in {"unref", "fail"}
  BY DEF Failing, Giving_Back
<1> QED
  BY <1>1, CoversFree DEF Reading, Building

\* What a thread that is in no scan was given.
LEMMA CoversIdle ==
  ASSUME DevInv, Covers, NEW t \in Threads, Lasting, UNCHANGED world, steady' = steady,
         Toward(t) = "idle", Toward(t)' = "idle", pc'[t] \in Giving \cup {"idle"},
         lists'[t] = lists[t], result'[t] = result[t]
  PROVE  CoversOf(t)'
<1>1. /\ steady[t] \subseteq plugged /\ plugged' = plugged
      /\ result[t] = "ok" => steady[t] \subseteq AddrsOf(lists[t])
  BY DEF Covers, world, InScan
<1>2. AddrsOf(lists[t])' = AddrsOf(lists[t])
  BY AddrsKept DEF AddrsOf
<1>3. /\ pc'[t] # "done" /\ steady'[t] = steady[t]
      /\ Toward(t)' \notin {"next", "done"} \cup Reading
  BY DEF Giving, Reading, Building
<1> QED
  BY <1>1, <1>2, <1>3 DEF CoversOf, InScan

LEMMA RangeAppended ==
  ASSUME NEW S, NEW s \in Seq(S), NEW x \in S
  PROVE  Range(Append(s, x)) = Range(s) \cup {x}
<1>1. /\ DOMAIN Append(s, x) = 1 .. Len(s) + 1 /\ Len(s) \in Nat
      /\ Append(s, x)[Len(s) + 1] = x
      /\ \A i \in 1 .. Len(s) : Append(s, x)[i] = s[i]
  OBVIOUS
<1>2. DOMAIN s = 1 .. Len(s)
  OBVIOUS
<1> QED
  BY <1>1, <1>2 DEF Range

LEMMA InsideCovers ==
  ASSUME DevInv, Covers, NEW t \in Threads, Inside(t)
  PROVE  CoversOf(t)'
<1>1. Lasting /\ UNCHANGED world /\ steady' = steady
  BY ThreadKeeps, InsideFrame DEF Keeps, DevStep, Works, Fails, history
<1>2. CASE Failing(t)
  BY <1>1, <1>2, CoversFails
<1>3. ASSUME pc[t] \in Reading, NEW place \in Reading, Moved(t, place),
             scan'[t].devs = scan[t].devs, scan'[t].todo = scan[t].todo,
             scan'[t].at = scan[t].at
      PROVE  CoversOf(t)'
  BY <1>1, <1>3, CoversMoved
<1>4. ASSUME pc[t] \in Reading, NEW place \in Reading, Passing(t, place)
      PROVE  CoversOf(t)'
  <2>1. /\ Moved(t, place) /\ scan'[t].devs = scan[t].devs /\ scan'[t].todo = scan[t].todo
        /\ scan'[t].at = scan[t].at
    BY <1>4 DEF Passing, Same
  <2> QED
    BY <1>3, <1>4, <2>1
<1>5. CASE libusb_unref_device(t) \/ destroy_device(t)
  <2>1. /\ scan' = scan /\ lists' = lists /\ result' = result /\ pc[t] \in Giving
        /\ Toward(t)' = Toward(t) /\ pc'[t] \in {"unref", "destroy", Toward(t)}
    BY <1>5, UnrefIs, DestroyIs DEF Giving_Back, Giving
  <2>2. /\ Toward(t) \in {"idle", "next", "fail"} /\ pc[t] \notin Reading \cup {"done"}
        /\ pc'[t] \notin Reading \cup {"done"}
    BY <2>1, ScanFacts DEF Toward, Giving, Reading, Building
  <2>3. /\ steady[t] \subseteq plugged /\ plugged' = plugged
        /\ Toward(t) = "next" => steady[t] \subseteq AddrsOf(scan[t].devs) \cup scan[t].todo
        /\ ~InScan(t) /\ result[t] = "ok" => steady[t] \subseteq AddrsOf(lists[t])
    BY <1>1, <2>2 DEF Covers, world
  <2>4. /\ AddrsOf(lists[t])' = AddrsOf(lists[t])
        /\ AddrsOf(scan[t].devs)' = AddrsOf(scan[t].devs)
    BY <1>1, <2>1, AddrsKept DEF AddrsOf
  <2>5. Toward(t) \in {"next", "done"} \cup Reading => Toward(t) = "next"
    BY <2>2 DEF Reading, Building
  <2> QED
    BY <1>1, <2>1, <2>2, <2>3, <2>4, <2>5 DEF CoversOf, InScan
<1>6. CASE OpenDir(t)
  <2>1. CASE Moved(t, "next") /\ scan'[t].todo = plugged
    <3>1. /\ pc'[t] = "next" /\ Toward(t)' = "next"
          /\ steady[t] \subseteq plugged /\ plugged' = plugged
      BY <1>1, <2>1 DEF Moved, Covers, world
    <3> QED
      BY <1>1, <2>1, <3>1 DEF CoversOf, InScan
  <2> QED
    BY <1>2, <1>6, <2>1, OpenDirIs
<1>7. CASE ReadDir(t)
  <2>1. pc[t] = "next" /\ Toward(t) = "next"
    BY <1>7 DEF ReadDir, Toward, Giving
  <2>2. /\ steady[t] \subseteq plugged /\ plugged' = plugged
        /\ steady[t] \subseteq AddrsOf(scan[t].devs) \cup scan[t].todo
    BY <1>1, <2>1 DEF Covers, world, Reading, Building
  <2>3. CASE scan[t].todo = {} /\ Passing(t, "done")
    <3>1. /\ pc'[t] = "done" /\ Toward(t)' = "done" /\ scan'[t].devs = scan[t].devs
          /\ scan'[t].todo = {}
      BY <2>3 DEF Passing, Moved, Same
    <3>2. AddrsOf(scan[t].devs)' = AddrsOf(scan[t].devs)
      BY <1>1, <3>1, AddrsKept DEF AddrsOf
    <3> QED
      BY <1>1, <2>2, <2>3, <3>1, <3>2 DEF CoversOf, InScan
  <2>4. CASE /\ scan'[t].at \in scan[t].todo
             /\ scan'[t].todo = scan[t].todo \ {scan'[t].at}
             /\ Same(t, {"at", "todo", "fresh"})
             /\ Moved(t, IF scan[t].via = "sysfs" THEN "stat" ELSE "lookup")
    <3>1. PICK place \in {"stat", "lookup"} :
            pc'[t] = place /\ Toward(t)' = place /\ scan'[t].devs = scan[t].devs
      <4>1. CASE scan[t].via = "sysfs"
        BY <2>4, <4>1 DEF Moved, Same
      <4>2. CASE scan[t].via # "sysfs"
        BY <2>4, <4>2 DEF Moved, Same
      <4> QED
        BY <4>1, <4>2
    <3>2. AddrsOf(scan[t].devs)' = AddrsOf(scan[t].devs)
      BY <1>1, <3>1, AddrsKept DEF AddrsOf
    <3>3. place \in Reading /\ place \notin {"done", "idle"}
      BY DEF Reading
    <3>4. steady[t] \subseteq AddrsOf(scan[t].devs)' \cup scan'[t].todo \cup {scan'[t].at}
      BY <2>2, <2>4, <3>2
    <3> QED
      BY <1>1, <2>2, <3>1, <3>3, <3>4 DEF CoversOf, InScan
  <2> QED
    BY <1>7, <2>3, <2>4, ReadDirIs
<1>8. CASE StatDescriptors(t) \/ FallBack(t) \/ ReadBusnum(t) \/ ReadDevnum(t)
  <2>1. pc[t] \in Reading
    BY <1>8 DEF StatDescriptors, FallBack, ReadBusnum, ReadDevnum, Reading
  <2>2. CASE Moved(t, "opendir")
    <3>1. Toward(t)' = "opendir" /\ pc'[t] \notin Reading \cup {"done"}
      BY <2>2 DEF Moved, Reading, Building
    <3> QED
      BY <1>1, <3>1, CoversFree
  <2>3. ASSUME NEW place \in {"busnum", "devnum", "lookup"}, Passing(t, place)
        PROVE  CoversOf(t)'
    <3>1. place \in Reading
      BY DEF Reading
    <3> QED
      BY <1>4, <2>1, <2>3, <3>1
  <2> QED
    BY <1>2, <1>8, <2>2, <2>3, SysfsScanIs
<1>9. CASE Lookup(t)
  <2>1. pc[t] \in Reading /\ "alloc" \in Reading /\ "append" \in Reading
    BY <1>9 DEF Lookup, Reading
  <2>2. CASE Passing(t, "alloc")
    BY <1>4, <2>1, <2>2
  <2>3. CASE Moved(t, "append") /\ Same(t, {"cur"})
    <3>1. /\ scan'[t].devs = scan[t].devs /\ scan'[t].todo = scan[t].todo
          /\ scan'[t].at = scan[t].at
      BY <2>3 DEF Same
    <3> QED
      BY <1>3, <2>1, <2>3, <3>1
  <2> QED
    BY <1>9, <2>2, <2>3, LookupIs
<1>10. CASE usbi_alloc_device(t)
  <2>1. pc[t] \in Reading /\ "init" \in Reading
    BY <1>10 DEF usbi_alloc_device, Reading, Building
  <2>2. CASE Moved(t, "init") /\ Same(t, {"cur", "fresh"})
    <3>1. /\ scan'[t].devs = scan[t].devs /\ scan'[t].todo = scan[t].todo
          /\ scan'[t].at = scan[t].at
      BY <2>2 DEF Same
    <3> QED
      BY <1>3, <2>1, <2>2, <3>1
  <2> QED
    BY <1>2, <1>10, <2>2, AllocIs
<1>11. CASE discovered_devs_append(t)
  <2>1. pc[t] = "append" /\ pc[t] \in Reading /\ Toward(t) = "append"
    BY <1>11 DEF discovered_devs_append, Reading, Toward, Giving
  <2>2. CASE /\ Giving_Back(t, FirstRef(t), "next") /\ Same(t, {"devs", "fresh"})
             /\ scan'[t].devs = Append(scan[t].devs, scan[t].cur)
    <3>1. Toward(t)' = "next" /\ pc'[t] \in {"unref", "next"} /\ scan'[t].todo = scan[t].todo
      BY <2>2 DEF Giving_Back, Same
    <3>2. pc'[t] \notin Reading \cup {"done"}
      BY <3>1 DEF Reading, Building
    <3>3. PICK c \in Objs : /\ c = scan[t].cur /\ ldev[c].state # "none"
                            /\ ldev[c].addr = scan[t].at
      BY <2>1 DEF DevInv, Current
    <3>4. Range(scan'[t].devs) = Range(scan[t].devs) \cup {c}
      <4>1. scan[t].devs \in Seq(Objs)
        BY ScanFacts
      <4> QED
        BY <2>2, <3>3, <4>1, RangeAppended
    <3>5. AddrsOf(scan[t].devs)' = AddrsOf(scan[t].devs) \cup {scan[t].at}
      <4>1. ldev'[c].addr = scan[t].at
        BY <1>1, <3>3 DEF Lasting
      <4>2. {ldev'[o].addr : o \in Range(scan[t].devs)} = AddrsOf(scan[t].devs)
        BY <1>1, AddrsKept
      <4>3. AddrsOf(scan[t].devs)' = {ldev'[o].addr : o \in Range(scan[t].devs) \cup {c}}
        BY <3>4 DEF AddrsOf
      <4> QED
        BY <4>1, <4>2, <4>3
    <3>6. /\ steady[t] \subseteq plugged /\ plugged' = plugged
          /\ steady[t] \subseteq AddrsOf(scan[t].devs) \cup scan[t].todo \cup {scan[t].at}
      BY <1>1, <2>1 DEF Covers, world
    <3> QED
      BY <1>1, <3>1, <3>2, <3>5, <3>6 DEF CoversOf, InScan
  <2> QED
    BY <1>2, <1>11, <2>2, AppendIs
<1>12. CASE \/ OpenNode(t) \/ GetActiveConfig(t) \/ usbi_sanitize_device(t)
            \/ InitDevice(t) \/ ReadDescriptors(t)
  <2>1. pc[t] \in Reading
    BY <1>12 DEF OpenNode, GetActiveConfig, usbi_sanitize_device, InitDevice, ReadDescriptors,
                 Reading, Building
  <2>2. \/ Failing(t)
        \/ \E place \in {"open", "active", "read", "sanitize", "append"} : Passing(t, place)
    BY <1>12, OpenNodeIs, GetActiveConfigIs, SanitizeIs, InitDeviceIs, ReadDescriptorsIs
  <2>3. {"open", "active", "read", "sanitize", "append"} \subseteq Reading
    BY DEF Reading, Building
  <2> QED
    BY <1>2, <1>4, <2>1, <2>2, <2>3
<1>13. CASE ScanFails(t)
  <2>1. pc[t] = "fail" /\ Toward(t) = "fail"
    BY <1>13 DEF ScanFails, Toward, Giving
  <2>2. CASE UNCHANGED <<drop, then, pc, scan, lists, result>>
    <3>1. Toward(t)' = "fail" /\ pc'[t] \notin Reading \cup {"done"}
      BY <2>1, <2>2 DEF Toward, Reading, Building
    <3> QED
      BY <1>1, <3>1, CoversFree
  <2>3. CASE Over(t, "error") /\ Giving_Back(t, Failed(t), "idle")
    <3>1. Toward(t)' = "idle" /\ result'[t] # "ok" /\ pc'[t] \notin Reading \cup {"done"}
      BY <2>3 DEF Over, Giving_Back, Reading, Building
    <3> QED
      BY <1>1, <3>1, CoversFree
  <2> QED
    BY <1>13, <2>2, <2>3, ScanFailsIs
<1>14. CASE ScanDone(t)
  <2>1. pc[t] = "done" /\ Toward(t) = "done"
    BY <1>14 DEF ScanDone, Toward, Giving
  <2>2. CASE Over(t, "error") /\ Giving_Back(t, scan[t].devs, "idle")
    <3>1. Toward(t)' = "idle" /\ result'[t] # "ok" /\ pc'[t] \notin Reading \cup {"done"}
      BY <2>2 DEF Over, Giving_Back, Reading, Building
    <3> QED
      BY <1>1, <3>1, CoversFree
  <2>3. CASE lists'[t] = scan[t].devs /\ Over(t, "ok") /\ Moved(t, "idle")
    <3>1. /\ steady[t] \subseteq plugged /\ plugged' = plugged
          /\ steady[t] \subseteq AddrsOf(scan[t].devs)
      BY <1>1, <2>1 DEF Covers, world, Reading, Building
    <3>2. AddrsOf(lists[t])' = AddrsOf(scan[t].devs)
      BY <1>1, <2>3, AddrsKept DEF AddrsOf
    <3>3. pc'[t] = "idle" /\ Toward(t)' = "idle" /\ "idle" \notin Reading
      BY <2>3 DEF Moved, Reading, Building
    <3> QED
      BY <1>1, <3>1, <3>2, <3>3 DEF CoversOf
  <2> QED
    BY <1>14, <2>2, <2>3, ScanDoneIs
<1> QED
  BY <1>5, <1>6, <1>7, <1>8, <1>9, <1>10, <1>11, <1>12, <1>13, <1>14 DEF Inside

LEMMA CallCovers ==
  ASSUME DevInv, Covers, NEW t \in Threads, Call(t)
  PROVE  CoversOf(t)' /\ \A u \in Threads : u # t => steady'[u] = steady[u]
<1>1. Lasting /\ UNCHANGED world
  BY ThreadKeeps, CallFrame DEF Keeps, DevStep
<1>2. CASE libusb_get_device_list(t)
  <2>1. steady' = [steady EXCEPT ![t] = plugged] /\ steady \in [Threads -> SUBSET Addrs]
    BY <1>2 DEF libusb_get_device_list, DevInv, DevicesTypes
  <2>2. steady'[t] = plugged /\ \A u \in Threads : u # t => steady'[u] = steady[u]
    BY <2>1
  <2>3. Toward(t)' = "opendir" /\ pc'[t] = "opendir" /\ plugged' = plugged
    BY <1>1, <1>2, GetListIs DEF Moved, world
  <2> QED
    BY <2>2, <2>3 DEF CoversOf, InScan, Reading, Building
<1>3. CASE libusb_free_device_list(t)
  <2>1. /\ steady' = steady /\ Toward(t)' = "idle" /\ result'[t] # "ok"
        /\ pc'[t] \notin Reading \cup {"done"}
    BY <1>3, FreeListIs DEF libusb_free_device_list, history, Giving_Back, Reading, Building
  <2> QED
    BY <1>1, <2>1, CoversFree
<1>4. CASE libusb_open(t)
  <2>1. /\ steady' = steady /\ UNCHANGED <<scan, drop, then, pc, lists, result>> /\ pc[t] = "idle"
    BY <1>4, OpenIs DEF libusb_open, Works, Fails, history
  <2>2. Toward(t) = "idle" /\ Toward(t)' = "idle" /\ pc'[t] = "idle"
    BY <2>1 DEF Toward, Giving
  <2> QED
    BY <1>1, <2>1, <2>2, CoversIdle
<1>5. CASE libusb_close(t)
  <2>1. /\ steady' = steady /\ lists' = lists /\ result' = result /\ pc[t] = "idle"
        /\ Toward(t)' = "idle" /\ pc'[t] \in {"unref", "idle"}
    BY <1>5, CloseIs DEF libusb_close, history, Giving_Back
  <2>2. Toward(t) = "idle" /\ pc'[t] \in Giving \cup {"idle"}
    BY <2>1 DEF Toward, Giving
  <2> QED
    BY <1>1, <2>1, <2>2, CoversIdle
<1> QED
  BY <1>2, <1>3, <1>4, <1>5 DEF Call

LEMMA ThreadCovers ==
  ASSUME DevInv, Covers, NEW t \in Threads, Call(t) \/ Inside(t)
  PROVE  Covers'
<1>1. Local(t) /\ Lasting /\ UNCHANGED world
  BY ThreadKeeps, ThreadFrame DEF Keeps, DevStep
<1>2. CoversOf(t)' /\ \A u \in Threads : u # t => steady'[u] = steady[u]
  <2>1. CASE Inside(t)
    BY <2>1, InsideCovers, InsideFrame DEF Works, Fails, history
  <2>2. CASE Call(t)
    BY <2>2, CallCovers
  <2> QED
    BY <2>1, <2>2
<1> QED
  BY <1>1, <1>2, CoversOthers

LEMMA BusCovers ==
  ASSUME DevInv, Covers, Attach \/ Detach
  PROVE  Covers'
<1>1. Quiet
  BY DEF Attach, Detach, Quiet
<1>2. ASSUME NEW t \in Threads
      PROVE  steady'[t] \subseteq steady[t] /\ steady'[t] \subseteq plugged'
  <2>1. steady[t] \subseteq plugged /\ steady \in [Threads -> SUBSET Addrs]
    BY DEF Covers, DevInv, DevicesTypes
  <2>2. CASE Attach
    BY <2>1, <2>2 DEF Attach
  <2>3. CASE Detach
    BY <2>1, <2>3 DEF Detach
  <2> QED
    BY <2>2, <2>3
<1>3. ASSUME NEW t \in Threads
      PROVE  CoversOf(t)'
  <2>1. CoversOf(t)
    BY DEF Covers, CoversOf
  <2>2. /\ AddrsOf(lists[t])' = AddrsOf(lists[t]) /\ AddrsOf(scan[t].devs)' = AddrsOf(scan[t].devs)
        /\ Toward(t)' = Toward(t) /\ pc' = pc /\ scan' = scan /\ result' = result
    BY <1>1 DEF Quiet, AddrsOf, devices, app, walk, Toward
  <2> QED
    BY <1>2, <2>1, <2>2 DEF CoversOf, InScan
<1> QED
  BY <1>3 DEF Covers, CoversOf

\* However many threads scan, a list that is handed out has every device that
\* was plugged in from the beginning of the call to its end.
THEOREM ScansComplete == DevicesSpec => [](Covers /\ ScanComplete)
<1>1. DevicesInit => Covers
  BY DEF DevicesInit, Covers, InScan, Toward, Giving, Reading, Building
<1>2. DevInv /\ Covers /\ [DevicesNext]_devices_vars => Covers'
  <2> SUFFICES ASSUME DevInv, Covers, [DevicesNext]_devices_vars PROVE Covers'
    OBVIOUS
  <2>1. CASE UNCHANGED devices_vars
    BY <2>1 DEF devices_vars, Covers, AddrsOf, InScan, Toward, world, devices, app, walk, history
  <2>2. CASE DevicesNext
    BY <2>2, BusCovers, ThreadCovers DEF DevicesNext
  <2> QED
    BY <2>1, <2>2
<1>3. Covers => ScanComplete
  <2> SUFFICES ASSUME Covers, NEW t \in Threads, pc[t] = "idle", result[t] = "ok"
               PROVE  steady[t] \subseteq {ldev[o].addr : o \in Range(lists[t])}
    BY DEF ScanComplete
  <2>1. ~InScan(t)
    BY DEF InScan, Toward, Giving
  <2> QED
    BY <2>1 DEF Covers, AddrsOf
<1> QED
  BY <1>1, <1>2, <1>3, DevicesInvariant, PTL DEF DevicesSpec
-----------------------------------------------------------------------------
(* One thread that scans *)

\* The program asks for the list of devices from one thread at a time: usb_init,
\* and then the polling thread that usb_init starts when it has the first list.
OneScanner == \A s, u \in Scanners : s = u

\* What sysfs offers is known when it matters, and a scan looks where it is.
Sources ==
  /\ sysfs_can_relate_devices # -1 => sysfs_has_descriptors # -1
  /\ \A t \in Scanners :
       /\ scan[t].via = "sysfs" => sysfs_can_relate_devices # 0
       /\ scan[t].via = "usbfs" => sysfs_can_relate_devices = 0
       /\ pc[t] \in {"stat", "busnum", "devnum"} => scan[t].via = "sysfs"
       /\ pc[t] \in Reading \ {"stat"} => sysfs_has_descriptors # -1
       /\ InScan(t) => scan[t].via # "none"
       /\ pc[t] \in {"open", "active", "read"} => sysfs_has_descriptors = 0

\* Where the descriptor of o is looked for, there is one; o has none there.
Available(o) == IF sysfs_has_descriptors # 0 THEN ldev[o].dir ELSE ldev[o].desc
Raw(o) == ldev[o].state = "live" /\ ~Available(o)

\* Nobody but t has a reference to o.
Alone(t, o) ==
  /\ o \notin Range(handles) \cup Range(scan[t].devs)
  /\ \A u \in Threads : o \notin Range(lists[u]) /\ (u # t => o \notin Range(drop[u]))

\* A device without a descriptor is one that its scan is making or giving up.
Hidden ==
  /\ \A t \in Scanners : pc[t] \in Building =>
       Alone(t, scan[t].cur) /\ ldev[scan[t].cur].refcnt = 1
  /\ \A o \in Objs : Raw(o) =>
       \E t \in Scanners :
         \/ pc[t] \in Building /\ scan[t].cur = o
         \/ /\ Toward(t) = "fail" /\ drop[t] = <<o>> /\ Alone(t, o)
            /\ pc[t] = "unref" => ldev[o].refcnt = 1

\* Nothing that was never made is destroyed, and nothing is made before it is
\* known where descriptors are.
Made ==
  /\ \A t \in Threads : pc[t] = "destroy" => ldev[Head(drop[t])].state # "none"
  /\ sysfs_has_descriptors = -1 => \A o \in Objs : ldev[o].state = "none"

\* Nothing that is needed goes away during an undisturbed scan.
Undisturbed ==
  /\ quiet \subseteq Scanners
  /\ \A t \in Scanners :
       pc[t] = "sanitize" => Available(scan[t].cur) \/ FellBack
  /\ \A t \in quiet :
       /\ scan[t].todo \subseteq plugged
       /\ pc[t] \in Reading => scan[t].at \in plugged
       /\ Toward(t) = "fail" \/ result[t] = "error" => FellBack \/ plugged \cap Odd # {}

\* Sources, for one thread.
SourcesOf(t) ==
  /\ scan[t].via = "sysfs" => sysfs_can_relate_devices # 0
  /\ scan[t].via = "usbfs" => sysfs_can_relate_devices = 0
  /\ pc[t] \in {"stat", "busnum", "devnum"} => scan[t].via = "sysfs"
  /\ pc[t] \in Reading \ {"stat"} => sysfs_has_descriptors # -1
  /\ InScan(t) => scan[t].via # "none"
  /\ pc[t] \in {"open", "active", "read"} => sysfs_has_descriptors = 0

\* Only a scan asks what sysfs offers.
LEMMA GlobalsStep ==
  ASSUME DevInv, NEW t \in Threads, Call(t) \/ Inside(t)
  PROVE  UNCHANGED globals \/ StatDescriptors(t) \/ FallBack(t) \/ ReadBusnum(t)
<1>1. CASE Call(t)
  BY <1>1, CallFrame DEF globals
<1>2. CASE libusb_unref_device(t) \/ destroy_device(t)
  BY <1>2 DEF libusb_unref_device, destroy_device
<1>3. CASE OpenDir(t) \/ ReadDir(t) \/ Lookup(t) \/ ReadDevnum(t)
  BY <1>3 DEF OpenDir, ReadDir, Lookup, ReadDevnum
<1>4. CASE usbi_alloc_device(t) \/ discovered_devs_append(t)
  BY <1>4 DEF usbi_alloc_device, discovered_devs_append
<1>5. CASE \/ OpenNode(t) \/ GetActiveConfig(t) \/ usbi_sanitize_device(t)
           \/ InitDevice(t) \/ ReadDescriptors(t)
  BY <1>5 DEF OpenNode, GetActiveConfig, usbi_sanitize_device, InitDevice, ReadDescriptors
<1>6. CASE ScanFails(t) \/ ScanDone(t)
  BY <1>6 DEF ScanFails, ScanDone
<1> QED
  BY <1>1, <1>2, <1>3, <1>4, <1>5, <1>6 DEF Inside

\* Whoever is in a scan is a scanner.
LEMMA ScannersScan ==
  ASSUME DevInv, NEW t \in Threads, InScan(t)
  PROVE  t \in Scanners
BY DEF DevInv, Shape

\* A thread comes to a place of a scan, or ends it.
LEMMA SourcesPlace ==
  ASSUME Sources, NEW t \in Scanners, UNCHANGED globals,
         scan'[t].via \in {scan[t].via, "none"},
         InScan(t)' => scan'[t].via # "none",
         pc'[t] \in {"stat", "busnum", "devnum"} => scan'[t].via = "sysfs",
         pc'[t] \in Reading \ {"stat"} => sysfs_has_descriptors # -1,
         pc'[t] \in {"open", "active", "read"} => sysfs_has_descriptors = 0
  PROVE  SourcesOf(t)'
BY DEF Sources, SourcesOf, globals

\* A scan goes on from a place where sysfs_has_descriptors is known.
LEMMA SourcesPass ==
  ASSUME DevInv, Sources, NEW t \in Scanners, UNCHANGED globals, InScan(t),
         NEW place \in Spots, pc'[t] = place, scan'[t].via = scan[t].via,
         place \in {"stat", "busnum", "devnum"} => scan[t].via = "sysfs",
         place \in Reading \ {"stat"} => sysfs_has_descriptors # -1,
         place \in {"open", "active", "read"} => sysfs_has_descriptors = 0
  PROVE  SourcesOf(t)'
<1>1. scan[t].via # "none"
  BY DEF Sources
<1> QED
  BY <1>1, SourcesPlace

LEMMA SourcesFails ==
  ASSUME DevInv, Sources, NEW t \in Scanners, UNCHANGED globals, InScan(t), Failing(t)
  PROVE  SourcesOf(t)'
<1>1. pc'[t] \in {"unref", "fail"} /\ scan'[t].via = scan[t].via
  BY DEF Failing, Giving_Back, Same
<1>2. scan[t].via # "none"
  BY DEF Sources
<1> QED
  BY <1>1, <1>2, SourcesPlace DEF Reading, Building

LEMMA InsideSources ==
  ASSUME DevInv, Sources, NEW t \in Scanners, Inside(t)
  PROVE  SourcesOf(t)' /\ (sysfs_can_relate_devices' # -1 => sysfs_has_descriptors' # -1)
<1>0. t \in Threads
  BY DeviceNumbers
<1>1. sysfs_can_relate_devices # -1 => sysfs_has_descriptors # -1
  BY DEF Sources
<1>2. SourcesOf(t)
  BY DEF Sources, SourcesOf
<1>3. ASSUME UNCHANGED globals, InScan(t), NEW place \in Spots, pc'[t] = place,
             scan'[t].via = scan[t].via,
             place \in {"stat", "busnum", "devnum"} => scan[t].via = "sysfs",
             place \in Reading \ {"stat"} => sysfs_has_descriptors # -1,
             place \in {"open", "active", "read"} => sysfs_has_descriptors = 0
      PROVE  SourcesOf(t)' /\ (sysfs_can_relate_devices' # -1 => sysfs_has_descriptors' # -1)
  BY <1>1, <1>3, SourcesPass DEF globals
<1>4. ASSUME UNCHANGED globals, InScan(t), Failing(t)
      PROVE  SourcesOf(t)' /\ (sysfs_can_relate_devices' # -1 => sysfs_has_descriptors' # -1)
  BY <1>1, <1>4, SourcesFails DEF globals
<1>5. CASE libusb_unref_device(t) \/ destroy_device(t)
  <2>1. UNCHANGED globals
    BY <1>5 DEF libusb_unref_device, destroy_device
  <2>2. /\ scan' = scan /\ pc[t] \in Giving
        /\ Toward(t)' = Toward(t) /\ pc'[t] \in {"unref", "destroy", Toward(t)}
    BY <1>0, <1>5, UnrefIs, DestroyIs DEF Giving_Back, Giving
  <2>3. Toward(t) \in {"idle", "next", "fail"}
    BY <1>0, <2>2, ScanFacts DEF Toward
  <2>4. /\ pc'[t] \notin {"stat", "busnum", "devnum"} /\ pc'[t] \notin Reading
        /\ pc'[t] \notin {"open", "active", "read"} /\ (InScan(t)' <=> InScan(t))
    BY <2>2, <2>3 DEF Reading, Building, InScan
  <2>5. InScan(t) => scan[t].via # "none"
    BY <1>2 DEF SourcesOf
  <2> QED
    BY <1>1, <2>1, <2>2, <2>4, <2>5, SourcesPlace DEF globals
<1>6. CASE OpenDir(t)
  <2>1. UNCHANGED globals /\ InScan(t) /\ "next" \in Spots /\ "next" \notin Reading
    BY <1>6 DEF OpenDir, InScan, Toward, Giving, Spots, Reading, Building
  <2>2. CASE Moved(t, "next") /\ Same(t, {"todo"})
    <3>1. pc'[t] = "next" /\ scan'[t].via = scan[t].via
      BY <2>2 DEF Moved, Same
    <3> QED
      BY <1>3, <2>1, <3>1
  <2> QED
    BY <1>0, <1>4, <1>6, <2>1, <2>2, OpenDirIs
<1>7. CASE ReadDir(t)
  <2>1. UNCHANGED globals /\ InScan(t)
    BY <1>7 DEF ReadDir, InScan, Toward, Giving
  <2>2. CASE Passing(t, "done")
    <3>1. pc'[t] = "done" /\ scan'[t].via = scan[t].via /\ "done" \in Spots /\ "done" \notin Reading
      BY <2>2 DEF Passing, Moved, Same, Spots, Reading, Building
    <3> QED
      BY <1>3, <2>1, <3>1
  <2>3. CASE /\ Same(t, {"at", "todo", "fresh"})
             /\ Moved(t, IF scan[t].via = "sysfs" THEN "stat" ELSE "lookup")
    <3>1. scan'[t].via = scan[t].via /\ "stat" \in Spots /\ "lookup" \in Spots
      BY <2>3 DEF Same, Spots
    <3>2. CASE scan[t].via = "sysfs"
      <4>1. pc'[t] = "stat"
        BY <2>3, <3>2 DEF Moved
      <4> QED
        BY <1>3, <2>1, <3>1, <3>2, <4>1
    <3>3. CASE scan[t].via # "sysfs"
      <4>1. pc'[t] = "lookup"
        BY <2>3, <3>3 DEF Moved
      <4>2. scan[t].via = "usbfs"
        BY <1>0, <1>2, <2>1, <3>3, ScanFacts DEF SourcesOf, Scans
      <4>3. sysfs_has_descriptors # -1
        BY <1>1, <1>2, <4>2 DEF SourcesOf
      <4> QED
        BY <1>3, <2>1, <3>1, <4>1, <4>3
    <3> QED
      BY <3>2, <3>3
  <2> QED
    BY <1>0, <1>7, <2>2, <2>3, ReadDirIs
<1>8. CASE StatDescriptors(t)
  <2>1. /\ pc[t] = "stat" /\ sysfs_can_relate_devices' = sysfs_can_relate_devices
        /\ sysfs_has_descriptors' # -1
    BY <1>8 DEF StatDescriptors
  <2>2. pc'[t] = "busnum" /\ scan'[t].via = scan[t].via
    BY <1>0, <1>8, SysfsScanIs DEF Passing, Moved, Same
  <2>3. scan[t].via = "sysfs"
    BY <1>2, <2>1 DEF SourcesOf
  <2> QED
    BY <1>2, <2>1, <2>2, <2>3 DEF SourcesOf
<1>9. CASE FallBack(t)
  <2>1. /\ pc[t] = "busnum" /\ sysfs_can_relate_devices' = 0
        /\ sysfs_has_descriptors' = sysfs_has_descriptors
    BY <1>9 DEF FallBack
  <2>2. pc'[t] = "opendir" /\ scan'[t].via = "usbfs"
    BY <1>0, <1>9, SysfsScanIs DEF Moved
  <2>3. sysfs_has_descriptors # -1
    BY <1>2, <2>1 DEF SourcesOf, Reading
  <2> QED
    BY <2>1, <2>2, <2>3 DEF SourcesOf, Reading, Building
<1>10. CASE ReadBusnum(t)
  <2>1. /\ pc[t] = "busnum" /\ sysfs_has_descriptors' = sysfs_has_descriptors
        /\ sysfs_has_descriptors # -1 /\ scan[t].via = "sysfs"
    BY <1>2, <1>10 DEF ReadBusnum, SourcesOf, Reading
  <2>2. CASE Passing(t, "devnum") /\ sysfs_can_relate_devices' = 1
    <3>1. pc'[t] = "devnum" /\ scan'[t].via = scan[t].via
      BY <2>2 DEF Passing, Moved, Same
    <3> QED
      BY <2>1, <2>2, <3>1 DEF SourcesOf
  <2>3. CASE Failing(t) /\ UNCHANGED sysfs_can_relate_devices
    <3>1. UNCHANGED globals /\ InScan(t)
      BY <2>1, <2>3 DEF globals, InScan, Toward, Giving
    <3> QED
      BY <1>4, <2>3, <3>1
  <2> QED
    BY <1>0, <1>10, <2>2, <2>3, SysfsScanIs
<1>11. CASE ReadDevnum(t) \/ Lookup(t) \/ usbi_alloc_device(t) \/ discovered_devs_append(t)
  <2>1. UNCHANGED globals /\ InScan(t) /\ sysfs_has_descriptors # -1
    BY <1>2, <1>11 DEF ReadDevnum, Lookup, usbi_alloc_device, discovered_devs_append, InScan,
       Toward, Giving, SourcesOf, Reading
  <2>2. ASSUME NEW place \in {"lookup", "alloc", "append", "init", "next", "unref"},
               pc'[t] = place, scan'[t].via = scan[t].via
        PROVE  SourcesOf(t)' /\ (sysfs_can_relate_devices' # -1 => sysfs_has_descriptors' # -1)
    <3>1. place \in Spots
      BY DEF Spots
    <3> QED
      BY <1>3, <2>1, <2>2, <3>1
  <2>3. CASE Failing(t)
    BY <1>4, <2>1, <2>3
  <2>4. CASE ReadDevnum(t)
    BY <1>0, <2>2, <2>3, <2>4, SysfsScanIs DEF Passing, Moved, Same
  <2>5. CASE Lookup(t)
    BY <1>0, <2>2, <2>5, LookupIs DEF Passing, Moved, Same
  <2>6. CASE usbi_alloc_device(t)
    BY <1>0, <2>2, <2>3, <2>6, AllocIs DEF Moved, Same
  <2>7. CASE discovered_devs_append(t)
    BY <1>0, <2>2, <2>3, <2>7, AppendIs DEF Giving_Back, Same
  <2> QED
    BY <1>11, <2>4, <2>5, <2>6, <2>7
<1>12. CASE InitDevice(t)
  <2>1. UNCHANGED globals /\ InScan(t) /\ sysfs_has_descriptors # -1
    BY <1>2, <1>12 DEF InitDevice, InScan, Toward, Giving, SourcesOf, Reading, Building
  <2>2. CASE Passing(t, "sanitize")
    <3>1. pc'[t] = "sanitize" /\ scan'[t].via = scan[t].via /\ "sanitize" \in Spots
      BY <2>2 DEF Passing, Moved, Same, Spots
    <3> QED
      BY <1>3, <2>1, <3>1
  <2>3. CASE sysfs_has_descriptors = 0 /\ Passing(t, "open")
    <3>1. pc'[t] = "open" /\ scan'[t].via = scan[t].via /\ "open" \in Spots
      BY <2>3 DEF Passing, Moved, Same, Spots
    <3> QED
      BY <1>3, <2>1, <2>3, <3>1
  <2> QED
    BY <1>0, <1>4, <1>12, <2>1, <2>2, <2>3, InitDeviceIs
<1>13. CASE OpenNode(t) \/ GetActiveConfig(t) \/ ReadDescriptors(t)
  <2>1. UNCHANGED globals /\ InScan(t) /\ sysfs_has_descriptors = 0
    BY <1>2, <1>13 DEF OpenNode, GetActiveConfig, ReadDescriptors, InScan, Toward, Giving, SourcesOf
  <2>2. ASSUME NEW place \in {"active", "read", "sanitize"}, Passing(t, place)
        PROVE  SourcesOf(t)' /\ (sysfs_can_relate_devices' # -1 => sysfs_has_descriptors' # -1)
    <3>1. pc'[t] = place /\ scan'[t].via = scan[t].via /\ place \in Spots
      BY <2>2 DEF Passing, Moved, Same, Spots
    <3> QED
      BY <1>3, <2>1, <3>1
  <2> QED
    BY <1>0, <1>4, <1>13, <2>1, <2>2, OpenNodeIs, GetActiveConfigIs, ReadDescriptorsIs
<1>14. CASE usbi_sanitize_device(t)
  <2>1. UNCHANGED globals /\ InScan(t) /\ sysfs_has_descriptors # -1
    BY <1>2, <1>14 DEF usbi_sanitize_device, InScan, Toward, Giving, SourcesOf, Reading, Building
  <2>2. CASE Passing(t, "append")
    <3>1. pc'[t] = "append" /\ scan'[t].via = scan[t].via /\ "append" \in Spots
      BY <2>2 DEF Passing, Moved, Same, Spots
    <3> QED
      BY <1>3, <2>1, <3>1
  <2> QED
    BY <1>0, <1>4, <1>14, <2>1, <2>2, SanitizeIs
<1>15. CASE ScanFails(t) \/ ScanDone(t)
  <2>1. UNCHANGED globals /\ pc[t] \in {"fail", "done"}
    BY <1>15 DEF ScanFails, ScanDone
  <2>2. CASE UNCHANGED <<drop, then, pc, scan, lists, result>>
    <3>1. SourcesOf(t)'
      BY <1>2, <2>1, <2>2 DEF SourcesOf, globals, InScan, Toward
    <3> QED
      BY <1>1, <2>1, <3>1 DEF globals
  <2>3. CASE /\ scan'[t] = NoScan /\ Toward(t)' = "idle" /\ pc'[t] \in {"unref", "idle"}
    <3>1. scan'[t].via = "none" /\ ~InScan(t)' /\ pc'[t] \notin Reading
      BY <2>3, NoScanIs DEF InScan, Reading, Building
    <3> QED
      BY <1>1, <2>1, <2>3, <3>1, SourcesPlace DEF globals
  <2>4. \/ UNCHANGED <<drop, then, pc, scan, lists, result>>
        \/ scan'[t] = NoScan /\ Toward(t)' = "idle" /\ pc'[t] \in {"unref", "idle"}
    BY <1>0, <1>15, ScanFailsIs, ScanDoneIs DEF Over, Giving_Back, Moved
  <2> QED
    BY <2>2, <2>3, <2>4
<1> QED
  BY <1>5, <1>6, <1>7, <1>8, <1>9, <1>10, <1>11, <1>12, <1>13, <1>14, <1>15 DEF Inside

\* The calls of the program, for the scanner that makes them.
LEMMA CallSources ==
  ASSUME DevInv, Sources, NEW t \in Scanners, Call(t)
  PROVE  SourcesOf(t)' /\ UNCHANGED globals
<1>0. t \in Threads
  BY DeviceNumbers
<1>1. UNCHANGED globals
  BY <1>0, CallFrame
<1>2. SourcesOf(t)
  BY DEF Sources, SourcesOf
<1>3. CASE libusb_get_device_list(t)
  <2>1. /\ pc'[t] = "opendir"
        /\ scan'[t].via = IF sysfs_can_relate_devices # 0 THEN "sysfs" ELSE "usbfs"
    BY <1>0, <1>3, GetListIs DEF Moved
  <2> QED
    BY <1>1, <2>1 DEF SourcesOf, globals, Reading, Building
<1>4. CASE libusb_free_device_list(t) \/ libusb_close(t)
  <2>1. scan' = scan /\ Toward(t)' = "idle" /\ pc'[t] \in {"unref", "idle"}
    BY <1>0, <1>4, FreeListIs, CloseIs DEF Giving_Back
  <2>2. ~InScan(t)' /\ pc'[t] \notin Reading
    BY <2>1 DEF InScan, Reading, Building
  <2> QED
    BY <1>1, <2>1, <2>2, SourcesPlace
<1>5. CASE libusb_open(t)
  <2>1. UNCHANGED <<scan, drop, then, pc>>
    BY <1>0, <1>5, OpenIs
  <2> QED
    BY <1>1, <1>2, <2>1 DEF SourcesOf, globals, InScan, Toward
<1> QED
  BY <1>1, <1>3, <1>4, <1>5 DEF Call

\* The threads that do not move.
LEMMA OtherView ==
  ASSUME NEW t \in Threads, Local(t), NEW v \in Threads, v # t
  PROVE  /\ pc'[v] = pc[v] /\ drop'[v] = drop[v] /\ then'[v] = then[v] /\ scan'[v] = scan[v]
         /\ lists'[v] = lists[v] /\ result'[v] = result[v]
         /\ Toward(v)' = Toward(v) /\ (InScan(v)' <=> InScan(v))
<1>1. /\ pc'[v] = pc[v] /\ drop'[v] = drop[v] /\ then'[v] = then[v] /\ scan'[v] = scan[v]
      /\ lists'[v] = lists[v] /\ result'[v] = result[v]
  BY DEF Local, Others, View
<1> QED
  BY <1>1 DEF InScan, Toward

\* What is not a scanner asks nothing of sysfs.
LEMMA GlobalsKept ==
  ASSUME DevInv, NEW t \in Threads, Call(t) \/ Inside(t), t \notin Scanners \/ Call(t)
  PROVE  UNCHANGED globals
<1>1. CASE Call(t)
  BY <1>1, CallFrame
<1>2. CASE t \notin Scanners
  <2>1. ~InScan(t)
    BY <1>2, ScannersScan
  <2>2. pc[t] \notin {"stat", "busnum"}
    BY <2>1 DEF InScan, Toward, Giving
  <2> QED
    BY <2>2, GlobalsStep DEF StatDescriptors, FallBack, ReadBusnum
<1> QED
  BY <1>1, <1>2

\* What is known of sysfs when there is one scanner.
LEMMA ThreadSources ==
  ASSUME OneScanner, DevInv, Sources, NEW t \in Threads, Call(t) \/ Inside(t)
  PROVE  Sources'
<1>1. Local(t)
  BY ThreadKeeps DEF Keeps
<1>2. ASSUME UNCHANGED globals, NEW v \in Scanners, v # t
      PROVE  SourcesOf(v)'
  <2>1. SourcesOf(v) /\ v \in Threads
    BY DeviceNumbers DEF Sources, SourcesOf
  <2>2. pc'[v] = pc[v] /\ scan'[v] = scan[v] /\ (InScan(v)' <=> InScan(v))
    BY <1>1, <1>2, <2>1, OtherView
  <2> QED
    BY <1>2, <2>1, <2>2 DEF SourcesOf, globals
<1>3. CASE t \notin Scanners \/ Call(t)
  <2>1. UNCHANGED globals
    BY <1>3, GlobalsKept
  <2>2. t \in Scanners => SourcesOf(t)'
    BY <1>3, CallSources
  <2>3. \A v \in Scanners : SourcesOf(v)'
    BY <1>2, <2>1, <2>2
  <2>4. sysfs_can_relate_devices' # -1 => sysfs_has_descriptors' # -1
    BY <2>1 DEF globals, Sources
  <2> QED
    BY <2>3, <2>4 DEF Sources, SourcesOf
<1>4. CASE t \in Scanners /\ Inside(t)
  <2>1. SourcesOf(t)' /\ (sysfs_can_relate_devices' # -1 => sysfs_has_descriptors' # -1)
    BY <1>4, InsideSources
  <2>2. \A v \in Scanners : v = t
    BY <1>4 DEF OneScanner
  <2>3. \A v \in Scanners : SourcesOf(v)'
    BY <2>1, <2>2
  <2> QED
    BY <2>1, <2>3 DEF Sources, SourcesOf
<1> QED
  BY <1>3, <1>4

\* What a step of t that makes no device does to the device o.
DevFlow(t, o) ==
  /\ \/ /\ ldev'[o].state = ldev[o].state
        /\ ldev[o].desc => ldev'[o].desc
        /\ ldev[o].dir => ldev'[o].dir \/ (pc[t] = "init" /\ o = scan[t].cur)
     \/ /\ pc[t] = "destroy" /\ o \in Range(drop[t])
        /\ ldev[o].state # "none" /\ ldev'[o].state = "freed"
  /\ \/ ldev'[o].refcnt = ldev[o].refcnt
     \/ pc[t] = "unref" /\ o \in Range(drop[t])
     \/ pc[t] = "idle" /\ o \in Range(lists[t])
     \/ pc[t] = "append" /\ o = scan[t].cur

LEMMA FlowStill ==
  ASSUME NEW t, NEW o, ldev'[o] = ldev[o]
  PROVE  DevFlow(t, o)
BY DEF DevFlow

\* The head of a sequence is one of its elements.
LEMMA HeadIn ==
  ASSUME NEW S, NEW s \in Seq(S), s # <<>>
  PROVE  Head(s) \in Range(s) /\ Range(Tail(s)) \subseteq Range(s)
<1>1. Len(s) \in Nat /\ Len(s) >= 1 /\ DOMAIN s = 1 .. Len(s)
  BY EmptySeq, LenProperties
<1>2. Head(s) = s[1] /\ Len(Tail(s)) = Len(s) - 1 /\ Tail(s) \in Seq(S)
  BY HeadTailProperties
<1>3. DOMAIN Tail(s) = 1 .. Len(s) - 1 /\ \A i \in 1 .. Len(s) - 1 : Tail(s)[i] = s[i + 1]
  BY <1>2, HeadTailProperties, LenProperties
<1> QED
  BY <1>1, <1>2, <1>3 DEF Range

LEMMA ThreadFlow ==
  ASSUME DevInv, NEW t \in Threads, Call(t) \/ Inside(t), ~usbi_alloc_device(t), NEW o \in Objs,
         pc[t] = "destroy" => ldev[Head(drop[t])].state # "none"
  PROVE  DevFlow(t, o)
<1>1. ASSUME ldev' = ldev PROVE DevFlow(t, o)
  BY <1>1, FlowStill
<1>2. CASE libusb_get_device_list(t) \/ libusb_free_device_list(t) \/ libusb_close(t)
  BY <1>1, <1>2 DEF libusb_get_device_list, libusb_free_device_list, libusb_close, devices
<1>3. CASE libusb_open(t)
  <2>1. pc[t] = "idle"
    BY <1>3, OpenIs
  <2>2. PICK p \in Range(lists[t]) \cap Objs :
          Ref(p) \/ UNCHANGED ldev
    BY <1>3, OpenIs
  <2>3. CASE Ref(p)
    <3>1. DevChanged(p, ldev[p].addr, ldev[p].refcnt + 1, ldev[p].dir, ldev[p].desc,
                     ldev[p].state)
      BY <2>2, <2>3, RefIs
    <3> QED
      BY <2>1, <2>2, <3>1 DEF DevFlow, DevChanged
  <2> QED
    BY <1>1, <2>2, <2>3
<1>4. CASE libusb_unref_device(t)
  <2>1. PICK p : p = Head(drop[t])
    OBVIOUS
  <2>2. pc[t] = "unref" /\ p \in Objs /\ p \in Range(drop[t]) /\ ldev[p].refcnt >= 1
    <3>1. pc[t] = "unref" /\ p \in Objs /\ drop[t] # <<>> /\ drop[t] \in Seq(Objs)
      BY <1>4, <2>1, UnrefIs, ScanFacts
    <3> QED
      BY <2>1, <3>1, AtUnref, HeadIn
  <2>3. DevChanged(p, ldev[p].addr, ldev[p].refcnt - 1, ldev[p].dir, ldev[p].desc,
                   ldev[p].state)
    BY <1>4, <2>1, <2>2, UnrefedIs
  <2> QED
    BY <2>2, <2>3 DEF DevFlow, DevChanged
<1>5. CASE destroy_device(t)
  <2>1. PICK p : p = Head(drop[t])
    OBVIOUS
  <2>2. /\ p \in Objs /\ ldev[p].state # "none" /\ p \in Range(drop[t])
        /\ pc[t] = "destroy"
    <3>1. p \in Objs /\ drop[t] # <<>> /\ pc[t] = "destroy" /\ drop[t] \in Seq(Objs)
      BY <1>5, <2>1, DestroyIs, ScanFacts
    <3> QED
      BY <2>1, <3>1, HeadIn
  <2>3. DevChanged(p, ldev[p].addr, ldev[p].refcnt, FALSE, FALSE, "freed")
    BY <1>5, <2>1, <2>2, DestroyedIs
  <2> QED
    BY <2>2, <2>3 DEF DevFlow, DevChanged
<1>6. CASE \/ OpenDir(t) \/ ReadDir(t) \/ StatDescriptors(t) \/ FallBack(t) \/ ReadBusnum(t)
           \/ ReadDevnum(t) \/ Lookup(t) \/ OpenNode(t) \/ GetActiveConfig(t)
           \/ usbi_sanitize_device(t)
  BY <1>1, <1>6 DEF OpenDir, ReadDir, StatDescriptors, FallBack, ReadBusnum, ReadDevnum, Lookup,
     OpenNode, GetActiveConfig, usbi_sanitize_device, NoDevice, devices
<1>7. CASE ScanFails(t) \/ ScanDone(t)
  BY <1>1, <1>7 DEF ScanFails, ScanDone, devices
<1>8. CASE discovered_devs_append(t)
  <2>1. PICK c : c = scan[t].cur
    OBVIOUS
  <2>2. pc[t] = "append" /\ c \in Objs
    BY <1>8, <2>1 DEF discovered_devs_append, DevInv, Current
  <2>3. Ref(c) \/ UNCHANGED ldev
    BY <1>8, <2>1, AppendIs
  <2>4. CASE Ref(c)
    <3>1. DevChanged(c, ldev[c].addr, ldev[c].refcnt + 1, ldev[c].dir, ldev[c].desc,
                     ldev[c].state)
      BY <2>2, <2>4, RefIs
    <3> QED
      BY <2>1, <2>2, <3>1 DEF DevFlow, DevChanged
  <2> QED
    BY <1>1, <2>3, <2>4
<1>9. CASE InitDevice(t)
  <2>1. PICK c : c = scan[t].cur
    OBVIOUS
  <2>2. PICK yes \in BOOLEAN : ldev' = [ldev EXCEPT ![c].dir = yes]
    BY <1>9, <2>1 DEF InitDevice, sysfs_dir
  <2>3. pc[t] = "init" /\ c \in Objs
    BY <1>9, <2>1 DEF InitDevice, DevInv, Current, Building
  <2>4. DevChanged(c, ldev[c].addr, ldev[c].refcnt, yes, ldev[c].desc, ldev[c].state)
    BY <2>2, <2>3, DirIs
  <2> QED
    BY <2>1, <2>3, <2>4 DEF DevFlow, DevChanged
<1>10. CASE ReadDescriptors(t)
  <2>1. PICK c : c = scan[t].cur
    OBVIOUS
  <2>2. c \in Objs
    BY <1>10, <2>1 DEF ReadDescriptors, DevInv, Current, Building
  <2>3. CASE ldev' = [ldev EXCEPT ![c].desc = TRUE]
    <3>1. DevChanged(c, ldev[c].addr, ldev[c].refcnt, ldev[c].dir, TRUE, ldev[c].state)
      BY <2>2, <2>3, DescIs
    <3> QED
      BY <2>2, <3>1 DEF DevFlow, DevChanged
  <2> QED
    BY <1>1, <1>10, <2>1, <2>3 DEF ReadDescriptors
<1> QED
  BY <1>2, <1>3, <1>4, <1>5, <1>6, <1>7, <1>8, <1>9, <1>10 DEF Call, Inside

\* Only a device that somebody had comes to be destroyed.
LEMMA ToDestroy ==
  ASSUME DevInv, NEW t \in Threads, Call(t) \/ Inside(t), pc'[t] = "destroy"
  PROVE  libusb_unref_device(t) \/ libusb_open(t) \/ ScanFails(t)
<1>1. ASSUME NEW s, NEW place \in Spots \ Giving, Giving_Back(t, s, place) PROVE FALSE
  BY <1>1 DEF Giving_Back, Giving
<1>2. ~Failing(t)
  BY <1>1 DEF Failing, Spots, Giving
<1>3. ASSUME NEW place \in Spots \ Giving, Moved(t, place) \/ Passing(t, place) PROVE FALSE
  BY <1>3 DEF Moved, Passing, Giving
<1>4. "idle" \in Spots \ Giving /\ "opendir" \in Spots \ Giving /\ "next" \in Spots \ Giving
  BY DEF Spots, Giving
<1>5. {"busnum", "devnum", "lookup", "alloc", "append", "init", "open", "active", "read",
       "sanitize", "done", "stat"} \subseteq Spots \ Giving
  BY DEF Spots, Giving
<1>6. ~libusb_get_device_list(t) /\ ~libusb_free_device_list(t) /\ ~libusb_close(t)
  BY <1>1, <1>3, <1>4, GetListIs, FreeListIs, CloseIs
<1>7. ~OpenDir(t)
  BY <1>2, <1>3, <1>4, OpenDirIs
<1>8. ~ReadDir(t)
  <2>1. ~Moved(t, "stat") /\ ~Moved(t, "lookup") /\ ~Passing(t, "done")
    BY <1>3, <1>5
  <2>2. ~Moved(t, IF scan[t].via = "sysfs" THEN "stat" ELSE "lookup")
    BY <2>1
  <2> QED
    BY <2>1, <2>2, ReadDirIs
<1>9. ~StatDescriptors(t) /\ ~FallBack(t) /\ ~ReadBusnum(t) /\ ~ReadDevnum(t)
  BY <1>2, <1>3, <1>4, <1>5, SysfsScanIs
<1>10. ~Lookup(t) /\ ~usbi_alloc_device(t) /\ ~discovered_devs_append(t)
  BY <1>1, <1>2, <1>3, <1>4, <1>5, LookupIs, AllocIs, AppendIs
<1>11. ~InitDevice(t) /\ ~OpenNode(t) /\ ~GetActiveConfig(t) /\ ~ReadDescriptors(t)
  BY <1>2, <1>3, <1>5, InitDeviceIs, OpenNodeIs, GetActiveConfigIs, ReadDescriptorsIs
<1>12. ~usbi_sanitize_device(t)
  BY <1>2, <1>3, <1>5, SanitizeIs
<1>13. ~ScanDone(t) /\ ~destroy_device(t)
  <2>1. Toward(t) \in {"idle", "next", "fail"} \/ ~destroy_device(t)
    BY ScanFacts, DestroyIs DEF Giving
  <2>2. "fail" \in Spots \ Giving
    BY DEF Spots, Giving
  <2> QED
    BY <1>1, <1>3, <1>4, <2>1, <2>2, ScanDoneIs, DestroyIs
<1> QED
  BY <1>6, <1>7, <1>8, <1>9, <1>10, <1>11, <1>12, <1>13 DEF Call, Inside

\* A device that comes to be destroyed was made.
LEMMA DestroyMade ==
  ASSUME DevInv, NEW t \in Threads, Call(t) \/ Inside(t), pc'[t] = "destroy"
  PROVE  ldev[Head(drop'[t])].state # "none" /\ Head(drop'[t]) \in Objs
<1>1. CASE libusb_unref_device(t)
  <2>1. PICK p : p = Head(drop[t])
    OBVIOUS
  <2>2. p \in Objs /\ ldev[p].refcnt >= 1 /\ drop[t] # <<>> /\ pc[t] = "unref"
    BY <1>1, <2>1, UnrefIs, AtUnref
  <2>3. ldev[p].state # "none"
    BY <2>2, CountedIs
  <2>4. drop' = drop
    BY <1>1, UnrefIs, ScanFacts DEF Giving_Back, Giving
  <2> QED
    BY <2>1, <2>2, <2>3, <2>4
<1>2. CASE libusb_open(t)
  BY <1>2, OpenIs
<1>3. CASE ScanFails(t)
  <2>1. pc[t] = "fail"
    BY <1>3 DEF ScanFails
  <2> QED
    BY <1>3, <2>1, ScanFailsIs DEF Giving_Back
<1> QED
  BY <1>1, <1>2, <1>3, ToDestroy

LEMMA ThreadMade ==
  ASSUME DevInv, Sources, Made, NEW t \in Threads, Call(t) \/ Inside(t)
  PROVE  Made'
<1>1. Local(t) /\ Lasting
  BY ThreadKeeps DEF Keeps, DevStep
<1>2. ASSUME NEW u \in Threads, pc'[u] = "destroy"
      PROVE  ldev'[Head(drop'[u])].state # "none"
  <2>1. CASE u = t
    <3>1. PICK p : p = Head(drop'[t])
      OBVIOUS
    <3>2. p \in Objs /\ ldev[p].state # "none"
      BY <1>2, <2>1, <3>1, DestroyMade
    <3> QED
      BY <1>1, <2>1, <3>1, <3>2 DEF Lasting
  <2>2. CASE u # t
    <3>1. pc[u] = "destroy" /\ drop'[u] = drop[u]
      BY <1>1, <1>2, <2>2, OtherView
    <3>2. PICK p : p = Head(drop[u])
      OBVIOUS
    <3>3. p \in Objs /\ ldev[p].state # "none"
      BY <3>1, <3>2, ScanFacts DEF Made, Giving
    <3> QED
      BY <1>1, <3>1, <3>2, <3>3 DEF Lasting
  <2> QED
    BY <2>1, <2>2
<1>3. ASSUME sysfs_has_descriptors' = -1, NEW o \in Objs
      PROVE  ldev'[o].state = "none"
  <2>1. sysfs_has_descriptors = -1
    <3>1. sysfs_has_descriptors' \in {sysfs_has_descriptors, 0, 1}
      BY InsideFrame, CallFrame DEF globals
    <3> QED
      BY <1>3, <3>1
  <2>2. ldev[o].state = "none"
    BY <2>1 DEF Made
  <2>3. ~usbi_alloc_device(t)
    <3>1. SUFFICES ASSUME usbi_alloc_device(t) PROVE FALSE
      OBVIOUS
    <3>2. pc[t] = "alloc" /\ t \in Threads
      BY <3>1 DEF usbi_alloc_device
    <3>3. t \in Scanners
      BY <3>2, ScannersScan DEF InScan, Toward, Giving
    <3> QED
      BY <2>1, <3>2, <3>3 DEF Sources, Reading
  <2>4. DevFlow(t, o)
    BY <2>3, ThreadFlow DEF Made
  <2> QED
    BY <2>2, <2>4 DEF DevFlow
<1> QED
  BY <1>2, <1>3 DEF Made

\* Nobody has a device that was never made.
LEMMA NoneHeld ==
  ASSUME DevInv, Made, NEW o \in Objs, ldev[o].state = "none"
  PROVE  /\ o \notin Range(handles)
         /\ \A u \in Threads : /\ o \notin Range(lists[u]) /\ o \notin Range(scan[u].devs)
                               /\ o \notin Range(drop[u])
<1>1. ldev[o].refcnt = 0
  BY CountedIs DEF NoDev
<1>2. Holders(o) = 0
  BY <1>1, CountedIs
<1>3. o \notin Range(handles)
  <2>1. handles \in [1 .. MaxHandles -> Objs \cup {0}]
    BY DEF DevInv, DevicesTypes
  <2>2. ASSUME NEW h \in 1 .. MaxHandles, handles[h] = o PROVE FALSE
    <3>1. Holders(o) >= 1
      BY <2>2, HoldersAre, Zenon
    <3> QED
      BY <1>2, <3>1
  <2> QED
    BY <2>1, <2>2 DEF Range
<1>4. ASSUME NEW u \in Threads
      PROVE  /\ o \notin Range(lists[u]) /\ o \notin Range(scan[u].devs)
             /\ o \notin Range(drop[u])
  <2>1. o \notin Range(lists[u]) /\ o \notin Range(scan[u].devs)
    <3>1. ASSUME o \in Range(lists[u]) \cup Range(scan[u].devs) PROVE FALSE
      BY <1>1, <3>1, HeldMade
    <3> QED
      BY <3>1
  <2>2. /\ HeldBy(u, o) = HeldOf(lists[u], scan[u].devs, drop[u], NewRef(u, o), pc[u], o)
        /\ HeldBy(u, o) = 0
    BY <1>2, HoldersAre
  <2>3. PICK w \in {0, 1} : w = NewRef(u, o)
    BY DEF NewRef
  <2>4. PICK p : p = pc[u]
    OBVIOUS
  <2>5. lists[u] \in Seq(Objs) /\ scan[u].devs \in Seq(Objs) /\ drop[u] \in Seq(Objs)
    BY ScanFacts
  <2>6. HeldOf(lists[u], scan[u].devs, drop[u], w, p, o) = 0
    BY <2>2, <2>3, <2>4
  <2>7. CASE p # "destroy"
    <3>1. o \in Range(drop[u]) => HeldOf(lists[u], scan[u].devs, drop[u], w, p, o) >= 1
      BY <2>5, <2>7, HeldOfNat, Zenon
    <3> QED
      BY <2>1, <2>6, <3>1
  <2>8. CASE p = "destroy"
    <3>1. Head(drop[u]) # o
      BY <2>4, <2>8 DEF Made
    <3>2. PICK x \in Nat, y \in Nat : x = Count(lists[u], o) /\ y = Count(scan[u].devs, o)
      BY <2>5, CountSeq
    <3>3. PICK z \in Nat : z = Count(drop[u], o)
      BY <2>5, CountSeq
    <3>4. (IF p = "destroy" /\ Head(drop[u]) = o THEN 1 ELSE 0) = 0
      BY <3>1
    <3>5. HeldOf(lists[u], scan[u].devs, drop[u], w, p, o) = x + y + z + w - 0
      BY <3>2, <3>3, <3>4, Zenon DEF HeldOf
    <3>6. z = 0
      BY <2>6, <3>5
    <3>7. o \in Range(drop[u]) => Count(drop[u], o) >= 1
      BY <2>5, CountSeq
    <3> QED
      BY <2>1, <3>3, <3>6, <3>7
  <2> QED
    BY <2>1, <2>7, <2>8
<1> QED
  BY <1>3, <1>4

\* Where references go in a step of a thread that is in no scan.
LEMMA IdleFlow ==
  ASSUME DevInv, NEW t \in Threads, Call(t) \/ Inside(t), ~InScan(t)
  PROVE  /\ UNCHANGED globals /\ pc[t] \in {"idle", "unref", "destroy"}
         /\ Range(handles') \subseteq Range(handles) \cup Range(lists[t]) \cup {0}
         /\ Range(lists'[t]) \subseteq Range(lists[t])
         /\ scan'[t].devs = <<>>
         /\ Range(drop'[t]) \subseteq Range(drop[t]) \cup Range(lists[t]) \cup Range(handles)
         /\ Toward(t)' \in {"idle", "opendir"}
         /\ pc'[t] \in {"idle", "opendir", "unref", "destroy"}
<1>1. /\ handles \in [1 .. MaxHandles -> Objs \cup {0}] /\ scan[t] = NoScan /\ ThreadTypes
      /\ lists[t] \in Seq(Objs) /\ drop[t] \in Seq(Objs) /\ scan[t].devs = <<>>
  BY ScanFacts, NoScanIs DEF DevInv, DevicesTypes, Shape
<1>2. Toward(t) = "idle" /\ pc[t] \in {"idle", "unref", "destroy"}
  BY DEF InScan, Toward, Giving
<1>3. Inside(t) => libusb_unref_device(t) \/ destroy_device(t)
  BY <1>2, Zenon DEF Inside, OpenDir, ReadDir, StatDescriptors, FallBack, ReadBusnum, ReadDevnum, Lookup,
     usbi_alloc_device, discovered_devs_append, InitDevice, OpenNode, GetActiveConfig,
     ReadDescriptors, usbi_sanitize_device, ScanFails, ScanDone
<1>4. UNCHANGED globals
  BY <1>3, CallFrame DEF libusb_unref_device, destroy_device
<1>5. Range(<<>>) = {}
  BY DEF Range
<1>6. CASE libusb_get_device_list(t)
  <2>1. handles' = handles
    BY <1>6 DEF libusb_get_device_list, app
  <2>2. lists' = lists /\ scan'[t].devs = <<>> /\ Moved(t, "opendir")
    BY <1>6, GetListIs
  <2>3. drop'[t] = drop[t] /\ pc'[t] = "opendir" /\ Toward(t)' = "opendir"
    BY <2>2 DEF Moved
  <2> QED
    BY <1>2, <1>4, <2>1, <2>2, <2>3
<1>7. CASE libusb_free_device_list(t)
  <2>1. handles' = handles
    BY <1>7 DEF libusb_free_device_list
  <2>2. scan' = scan /\ lists'[t] = <<>> /\ Giving_Back(t, lists[t], "idle")
    BY <1>7, FreeListIs
  <2>3. drop'[t] = lists[t] /\ pc'[t] \in {"unref", "idle"} /\ Toward(t)' = "idle"
    BY <2>2 DEF Giving_Back
  <2> QED
    BY <1>1, <1>2, <1>4, <1>5, <2>1, <2>2, <2>3
<1>8. CASE libusb_open(t)
  <2>1. UNCHANGED <<scan, drop, then, pc, lists>>
    BY <1>8, OpenIs
  <2>2. PICK p \in Range(lists[t]), h \in 1 .. MaxHandles :
          handles' = [handles EXCEPT ![h] = p] \/ handles' = handles
    BY <1>8, OpenIs
  <2>3. Range(handles') \subseteq Range(handles) \cup Range(lists[t]) \cup {0}
    BY <1>1, <2>2 DEF Range
  <2>4. pc'[t] = pc[t] /\ Toward(t)' = Toward(t)
    BY <2>1 DEF Toward
  <2> QED
    BY <1>1, <1>2, <1>4, <2>1, <2>3, <2>4
<1>9. CASE libusb_close(t)
  <2>1. scan' = scan /\ lists' = lists
    BY <1>9, CloseIs
  <2>2. PICK h \in 1 .. MaxHandles : /\ handles' = [handles EXCEPT ![h] = 0]
                                     /\ Giving_Back(t, <<handles[h]>>, "idle")
    BY <1>9, CloseIs
  <2>3. Range(handles') \subseteq Range(handles) \cup {0} /\ handles[h] \in Range(handles)
    BY <1>1, <2>2 DEF Range
  <2>4. drop'[t] = <<handles[h]>> /\ pc'[t] \in {"unref", "idle"} /\ Toward(t)' = "idle"
    BY <2>2 DEF Giving_Back
  <2>5. Range(<<handles[h]>>) = {handles[h]}
    BY DEF Range
  <2>6. Range(drop'[t]) = {handles[h]}
    BY <2>4, <2>5
  <2> QED
    BY <1>1, <1>2, <1>4, <2>1, <2>3, <2>4, <2>6
<1>10. CASE libusb_unref_device(t) \/ destroy_device(t)
  <2>1. handles' = handles
    BY <1>10 DEF libusb_unref_device, destroy_device, app
  <2>2. /\ scan' = scan /\ lists' = lists /\ drop[t] # <<>>
        /\ \/ pc'[t] = "destroy" /\ drop' = drop /\ Toward(t)' = "idle"
           \/ Giving_Back(t, Tail(drop[t]), "idle")
    BY <1>2, <1>10, UnrefIs, DestroyIs
  <2>3. Range(Tail(drop[t])) \subseteq Range(drop[t])
    BY <1>1, <2>2, HeadIn
  <2>4. CASE pc'[t] = "destroy" /\ drop' = drop /\ Toward(t)' = "idle"
    BY <1>1, <1>2, <1>4, <2>1, <2>2, <2>4
  <2>5. CASE Giving_Back(t, Tail(drop[t]), "idle")
    <3>1. drop'[t] = Tail(drop[t]) /\ pc'[t] \in {"unref", "idle"} /\ Toward(t)' = "idle"
      BY <2>5 DEF Giving_Back
    <3> QED
      BY <1>1, <1>2, <1>4, <2>1, <2>2, <2>3, <3>1
  <2> QED
    BY <2>2, <2>4, <2>5
<1> QED
  BY <1>3, <1>6, <1>7, <1>8, <1>9, <1>10 DEF Call

\* A step of t that makes no device takes no descriptor from one that t is not
\* about to initialize.
LEMMA RawBack ==
  ASSUME NEW t, NEW o \in Objs, DevFlow(t, o), UNCHANGED sysfs_has_descriptors,
         pc[t] # "init" \/ o # scan[t].cur, Raw(o)'
  PROVE  Raw(o)
BY DEF DevFlow, Raw, Available

\* A thread that is in no scan leaves a device alone that is somebody's alone.
LEMMA IdleHidden ==
  ASSUME DevInv, Made, Hidden, NEW t \in Threads, Call(t) \/ Inside(t), ~InScan(t)
  PROVE  Hidden'
<1>1. Local(t)
  BY ThreadKeeps DEF Keeps
<1>2. /\ UNCHANGED globals /\ pc[t] \in {"idle", "unref", "destroy"}
      /\ Range(handles') \subseteq Range(handles) \cup Range(lists[t]) \cup {0}
      /\ Range(lists'[t]) \subseteq Range(lists[t])
      /\ Range(drop'[t]) \subseteq Range(drop[t]) \cup Range(lists[t]) \cup Range(handles)
      /\ Toward(t)' \in {"idle", "opendir"}
      /\ pc'[t] \in {"idle", "opendir", "unref", "destroy"}
  BY IdleFlow
<1>3. ASSUME NEW o \in Objs PROVE DevFlow(t, o)
  <2>1. ~usbi_alloc_device(t)
    BY <1>2 DEF usbi_alloc_device
  <2> QED
    BY <2>1, ThreadFlow DEF Made
<1>4. ASSUME NEW s \in Scanners, s # t, NEW o \in Objs, Alone(s, o)
      PROVE  Alone(s, o)' /\ ldev'[o].refcnt = ldev[o].refcnt
  <2>0. s \in Threads /\ o # 0
    BY DeviceNumbers DEF Objs
  <2>1. /\ o \notin Range(handles) /\ o \notin Range(scan[s].devs)
        /\ o \notin Range(lists[t]) /\ o \notin Range(drop[t])
    BY <1>4 DEF Alone
  <2>2. o \notin Range(handles') /\ o \notin Range(lists'[t]) /\ o \notin Range(drop'[t])
    BY <1>2, <2>0, <2>1
  <2>3. scan'[s] = scan[s]
    BY <1>1, <1>4, <2>0, OtherView
  <2>4. ASSUME NEW u \in Threads
        PROVE  o \notin Range(lists'[u]) /\ (u # s => o \notin Range(drop'[u]))
    <3>1. CASE u = t
      BY <2>2, <3>1
    <3>2. CASE u # t
      <4>1. lists'[u] = lists[u] /\ drop'[u] = drop[u]
        BY <1>1, <3>2, OtherView
      <4> QED
        BY <1>4, <4>1 DEF Alone
    <3> QED
      BY <3>1, <3>2
  <2>5. Alone(s, o)'
    BY <2>1, <2>2, <2>3, <2>4 DEF Alone
  <2>6. ldev'[o].refcnt = ldev[o].refcnt
    BY <1>2, <1>3, <2>1 DEF DevFlow
  <2> QED
    BY <2>5, <2>6
<1>5. ASSUME NEW s \in Scanners, pc'[s] \in Building
      PROVE  Alone(s, scan[s].cur)' /\ ldev'[scan'[s].cur].refcnt = 1
  <2>1. s # t /\ s \in Threads
    BY <1>2, <1>5, DeviceNumbers DEF Building
  <2>2. pc'[s] = pc[s] /\ scan'[s] = scan[s]
    BY <1>1, <2>1, OtherView
  <2>3. PICK o : o = scan[s].cur
    OBVIOUS
  <2>4. o \in Objs /\ Alone(s, o) /\ ldev[o].refcnt = 1
    <3>1. pc[s] \in Building
      BY <1>5, <2>2
    <3>2. o \in Objs
      BY <2>1, <2>3, <3>1 DEF DevInv, Current
    <3> QED
      BY <2>3, <3>1, <3>2 DEF Hidden
  <2>5. Alone(s, o)' /\ ldev'[o].refcnt = 1
    BY <1>4, <2>1, <2>4
  <2>6. scan'[s].cur = o
    BY <2>2, <2>3
  <2> QED
    BY <2>5, <2>6 DEF Alone
<1>6. ASSUME NEW o \in Objs, Raw(o)'
      PROVE  \E s \in Scanners :
               \/ pc'[s] \in Building /\ scan'[s].cur = o
               \/ /\ Toward(s)' = "fail" /\ drop'[s] = <<o>> /\ Alone(s, o)'
                  /\ pc'[s] = "unref" => ldev'[o].refcnt = 1
  <2>1. Raw(o)
    BY <1>2, <1>3, <1>6, RawBack DEF globals
  <2>2. PICK s \in Scanners :
               \/ pc[s] \in Building /\ scan[s].cur = o
               \/ /\ Toward(s) = "fail" /\ drop[s] = <<o>> /\ Alone(s, o)
                  /\ pc[s] = "unref" => ldev[o].refcnt = 1
    BY <2>1 DEF Hidden
  <2>3. s # t /\ s \in Threads
    BY <1>2, <2>2, DeviceNumbers DEF InScan, Building
  <2>4. /\ pc'[s] = pc[s] /\ scan'[s] = scan[s] /\ drop'[s] = drop[s]
        /\ Toward(s)' = Toward(s)
    BY <1>1, <2>3, OtherView
  <2>5. CASE pc[s] \in Building /\ scan[s].cur = o
    BY <2>4, <2>5
  <2>6. CASE /\ Toward(s) = "fail" /\ drop[s] = <<o>> /\ Alone(s, o)
             /\ pc[s] = "unref" => ldev[o].refcnt = 1
    <3>1. Alone(s, o)' /\ ldev'[o].refcnt = ldev[o].refcnt
      BY <1>4, <2>3, <2>6
    <3> QED
      BY <2>4, <2>6, <3>1
  <2> QED
    BY <2>2, <2>5, <2>6
<1> QED
  BY <1>5, <1>6 DEF Hidden

\* Every device has its descriptor.
Bare == \A o \in Objs : ~Raw(o)

LEMMA BareNow ==
  ASSUME OneScanner, DevInv, Hidden, NEW t \in Scanners, pc[t] \notin Building,
         \A o \in Objs : ~(Toward(t) = "fail" /\ pc[t] \in Giving /\ drop[t] = <<o>>)
  PROVE  Bare
<1> SUFFICES ASSUME NEW o \in Objs, Raw(o) PROVE FALSE
  BY DEF Bare
<1>1. PICK s \in Scanners :
        \/ pc[s] \in Building /\ scan[s].cur = o
        \/ /\ Toward(s) = "fail" /\ drop[s] = <<o>> /\ Alone(s, o)
           /\ pc[s] = "unref" => ldev[o].refcnt = 1
  BY DEF Hidden
<1>2. s = t /\ t \in Threads
  BY DeviceNumbers DEF OneScanner
<1>3. Toward(t) = "fail" /\ drop[t] = <<o>>
  BY <1>1, <1>2
<1>4. pc[t] \in Giving
  <2>1. <<o>> # <<>>
    OBVIOUS
  <2> QED
    BY <1>2, <1>3, <2>1, ScanFacts
<1> QED
  BY <1>3, <1>4

LEMMA BareNext ==
  ASSUME OneScanner, NEW t \in Scanners, Bare', pc'[t] \notin Building
  PROVE  Hidden'
<1>1. \A s \in Scanners : s = t
  BY DEF OneScanner
<1>2. \A s \in Scanners : pc'[s] \notin Building
  BY <1>1
<1>3. \A o \in Objs : ~Raw(o)'
  BY DEF Bare
<1> QED
  BY <1>2, <1>3 DEF Hidden

LEMMA BareStays ==
  ASSUME Bare, NEW t, \A o \in Objs : DevFlow(t, o), UNCHANGED sysfs_has_descriptors,
         pc[t] # "init"
  PROVE  Bare'
<1>1. \A o \in Objs : Raw(o)' => Raw(o)
  BY RawBack
<1> QED
  BY <1>1 DEF Bare

\* A scan at a place where no device is made stays at such places, or comes to
\* make one.
LEMMA BareHidden ==
  ASSUME OneScanner, DevInv, Made, Hidden, NEW t \in Scanners, Inside(t),
         ~usbi_alloc_device(t), pc[t] \notin Building, Bare,
         sysfs_has_descriptors' = sysfs_has_descriptors \/ sysfs_has_descriptors = -1
  PROVE  Bare'
<1>0. t \in Threads
  BY DeviceNumbers
<1>1. ASSUME NEW o \in Objs PROVE DevFlow(t, o)
  BY <1>0, ThreadFlow DEF Made
<1>2. CASE sysfs_has_descriptors' = sysfs_has_descriptors
  BY <1>1, <1>2, BareStays DEF Building
<1>3. CASE sysfs_has_descriptors = -1
  <2>1. \A o \in Objs : ldev[o].state = "none"
    BY <1>3 DEF Made
  <2>2. \A o \in Objs : ldev'[o].state = "none"
    BY <1>1, <2>1 DEF DevFlow
  <2> QED
    BY <2>2 DEF Bare, Raw
<1> QED
  BY <1>2, <1>3

\* What sysfs has is asked once.
LEMMA HasOnce ==
  ASSUME DevInv, NEW t \in Threads, Call(t) \/ Inside(t)
  PROVE  /\ sysfs_has_descriptors' = sysfs_has_descriptors \/ sysfs_has_descriptors = -1
         /\ ~StatDescriptors(t) => sysfs_has_descriptors' = sysfs_has_descriptors
<1>1. CASE UNCHANGED globals
  BY <1>1 DEF globals
<1>2. CASE StatDescriptors(t) \/ FallBack(t) \/ ReadBusnum(t)
  BY <1>2 DEF StatDescriptors, FallBack, ReadBusnum
<1> QED
  BY <1>1, <1>2, GlobalsStep

\* A scan begins to make a device, and ends it, only so.
LEMMA ToBuilding ==
  ASSUME DevInv, NEW t \in Threads, Inside(t), pc'[t] \in Building
  PROVE  pc[t] \in Building \/ usbi_alloc_device(t) \/ ScanFails(t)
<1>1. ASSUME NEW s, NEW place \in {"idle", "next", "fail"}, Giving_Back(t, s, place) PROVE FALSE
  BY <1>1 DEF Giving_Back, Building
<1>2. ~Failing(t)
  BY <1>1 DEF Failing
<1>3. ASSUME NEW place \in Spots \ Building, Moved(t, place) \/ Passing(t, place) PROVE FALSE
  BY <1>3 DEF Moved, Passing
<1>4. {"idle", "opendir", "next", "busnum", "devnum", "lookup", "alloc", "append",
       "done", "stat"} \subseteq Spots \ Building
  BY DEF Spots, Building
<1>5. ~OpenDir(t)
  BY <1>2, <1>3, <1>4, OpenDirIs
<1>6. ~ReadDir(t)
  <2>1. ~Moved(t, "stat") /\ ~Moved(t, "lookup") /\ ~Passing(t, "done")
    BY <1>3, <1>4
  <2>2. ~Moved(t, IF scan[t].via = "sysfs" THEN "stat" ELSE "lookup")
    BY <2>1
  <2> QED
    BY <2>1, <2>2, ReadDirIs
<1>7. ~StatDescriptors(t) /\ ~FallBack(t) /\ ~ReadBusnum(t) /\ ~ReadDevnum(t)
  BY <1>2, <1>3, <1>4, SysfsScanIs
<1>8. ~Lookup(t) /\ ~discovered_devs_append(t)
  BY <1>1, <1>2, <1>3, <1>4, LookupIs, AppendIs
<1>9. ~ScanDone(t)
  BY <1>1, <1>3, <1>4, ScanDoneIs
<1>10. ~libusb_unref_device(t) /\ ~destroy_device(t)
  <2>1. pc[t] \in Giving => Toward(t) \in {"idle", "next", "fail"}
    BY ScanFacts
  <2>2. pc'[t] # "destroy"
    BY DEF Building
  <2> QED
    BY <1>1, <2>1, <2>2, UnrefIs, DestroyIs DEF Giving
<1>11. InitDevice(t) \/ OpenNode(t) \/ GetActiveConfig(t) \/ ReadDescriptors(t)
         \/ usbi_sanitize_device(t) => pc[t] \in Building
  BY DEF InitDevice, OpenNode, GetActiveConfig, ReadDescriptors, usbi_sanitize_device, Building
<1> QED
  BY <1>5, <1>6, <1>7, <1>8, <1>9, <1>10, <1>11 DEF Inside

\* A new device is its scan's alone.
LEMMA AllocHidden ==
  ASSUME OneScanner, DevInv, Made, Hidden, NEW t \in Scanners, usbi_alloc_device(t)
  PROVE  Hidden'
<1>0. t \in Threads
  BY DeviceNumbers
<1>1. pc[t] = "alloc" /\ Bare
  <2>1. pc[t] = "alloc"
    BY DEF usbi_alloc_device
  <2>2. pc[t] \notin Building /\ pc[t] \notin Giving
    BY <2>1 DEF Building, Giving
  <2> QED
    BY <2>1, <2>2, BareNow
<1>2. /\ Local(t) /\ lists' = lists /\ handles' = handles
      /\ sysfs_has_descriptors' = sysfs_has_descriptors
  BY <1>0, AllocIs DEF usbi_alloc_device, ScanFrame, app, globals
<1>3. CASE Failing(t) /\ UNCHANGED devices
  <2>1. pc'[t] \notin Building
    BY <1>3 DEF Failing, Giving_Back, Building
  <2>2. Bare'
    BY <1>1, <1>2, <1>3 DEF Bare, Raw, Available, devices
  <2> QED
    BY <2>1, <2>2, BareNext
<1>4. ASSUME NEW o \in Objs, ldev[o].state = "none", Moved(t, "init"), Same(t, {"cur", "fresh"}),
             scan'[t].cur = o,
             ldev' = [ldev EXCEPT ![o] = [NoDev EXCEPT !.addr = scan[t].at,
                                                  !.refcnt = 1, !.state = "live"]],
             usb_devs' = <<o>> \o usb_devs
      PROVE  Hidden'
  <2>1. PICK a \in Addrs \cup {0} : a = scan[t].at
    BY <1>0, ScanFacts DEF Scans
  <2>2. DevChanged(o, a, 1, FALSE, FALSE, "live")
    BY <1>4, <2>1, AllocatedIs
  <2>3. ldev'[o].refcnt = 1 /\ \A p \in Objs : p # o => ldev'[p] = ldev[p]
    BY <2>2 DEF DevChanged
  <2>4. scan'[t].devs = scan[t].devs /\ pc'[t] = "init" /\ pc'[t] \in Building
    BY <1>4 DEF Moved, Same, Building
  <2>5. /\ o \notin Range(handles)
        /\ \A u \in Threads : /\ o \notin Range(lists[u]) /\ o \notin Range(scan[u].devs)
                              /\ o \notin Range(drop[u])
    BY <1>4, NoneHeld
  <2>6. \A u \in Threads : u # t => drop'[u] = drop[u]
    BY <1>2 DEF Local, Others, View
  <2>7. Alone(t, o)'
    BY <1>0, <1>2, <2>4, <2>5, <2>6 DEF Alone
  <2>8. ASSUME NEW p \in Objs, Raw(p)' PROVE p = o
    <3>1. p # o => Raw(p)
      BY <1>2, <2>3, <2>8 DEF Raw, Available
    <3> QED
      BY <1>1, <3>1 DEF Bare
  <2>9. \A s \in Scanners : s = t
    BY DEF OneScanner
  <2>10. \A s \in Scanners : pc'[s] \in Building => Alone(s, scan[s].cur)'
                                                      /\ ldev'[scan'[s].cur].refcnt = 1
    BY <1>4, <2>3, <2>7, <2>9 DEF Alone
  <2>11. \A p \in Objs : Raw(p)' => \E s \in Scanners : pc'[s] \in Building /\ scan'[s].cur = p
    BY <1>4, <2>4, <2>8
  <2> QED
    BY <2>10, <2>11 DEF Hidden
<1>5. \/ /\ Moved(t, "init") /\ Same(t, {"cur", "fresh"})
         /\ scan'[t].cur = NewDev /\ NewDev \in Objs /\ ldev[NewDev].state = "none"
         /\ ldev' = [ldev EXCEPT ![NewDev] = [NoDev EXCEPT !.addr = scan[t].at,
                                                     !.refcnt = 1, !.state = "live"]]
         /\ usb_devs' = <<NewDev>> \o usb_devs
      \/ Failing(t) /\ UNCHANGED devices
  BY <1>0, AllocIs
<1> QED
  BY <1>3, <1>4, <1>5

\* While a new device is read nobody else comes to it; when that fails its one
\* reference is given back.
LEMMA BuildingHidden ==
  ASSUME OneScanner, DevInv, Made, Hidden, NEW t \in Scanners, pc[t] \in Building,
         Local(t), lists' = lists, handles' = handles,
         UNCHANGED sysfs_has_descriptors, \A o \in Objs : DevFlow(t, o),
         (\E place \in Building : Passing(t, place)) \/ Failing(t)
  PROVE  Hidden'
<1>0. t \in Threads
  BY DeviceNumbers
<1>1. PICK c \in Objs : c = scan[t].cur
  BY <1>0 DEF DevInv, Current
<1>2. Alone(t, c) /\ ldev[c].refcnt = 1
  BY <1>1 DEF Hidden
<1>3. scan'[t].devs = scan[t].devs /\ scan'[t].cur = c
  BY <1>1 DEF Passing, Failing, Same
<1>4. Alone(t, c)'
  <2>1. \A u \in Threads : u # t => drop'[u] = drop[u]
    BY DEF Local, Others, View
  <2> QED
    BY <1>0, <1>2, <1>3, <2>1 DEF Alone
<1>5. ldev'[c].refcnt = 1
  <2>1. DevFlow(t, c)
    OBVIOUS
  <2> QED
    BY <1>2, <2>1 DEF DevFlow, Building
<1>6. \A s \in Scanners : s = t
  BY DEF OneScanner
<1>7. ASSUME NEW p \in Objs, Raw(p)' PROVE p = c
  <2>1. p # c => Raw(p)
    BY <1>1, <1>7, RawBack
  <2>2. Raw(p) => p = c
    <3>1. ASSUME Raw(p) PROVE p = c
      <4>1. PICK s \in Scanners :
              \/ pc[s] \in Building /\ scan[s].cur = p
              \/ Toward(s) = "fail"
        BY <3>1 DEF Hidden
      <4>2. Toward(t) # "fail"
        BY DEF Toward, Giving, Building
      <4> QED
        BY <1>1, <1>6, <4>1, <4>2
    <3> QED
      BY <3>1
  <2> QED
    BY <2>1, <2>2
<1>8. \A s \in Scanners : pc'[s] \in Building => Alone(s, scan[s].cur)'
                                                   /\ ldev'[scan'[s].cur].refcnt = 1
  BY <1>3, <1>4, <1>5, <1>6 DEF Alone
<1>9. CASE \E place \in Building : Passing(t, place)
  <2>1. pc'[t] \in Building
    BY <1>9 DEF Passing, Moved
  <2>2. \A p \in Objs : Raw(p)' => \E s \in Scanners : pc'[s] \in Building /\ scan'[s].cur = p
    BY <1>3, <1>7, <2>1
  <2> QED
    BY <1>8, <2>2 DEF Hidden
<1>10. CASE Failing(t)
  <2>1. scan[t].fresh
    BY <1>0, ShapedIs DEF Shaped
  <2>2. drop'[t] = <<c>> /\ Toward(t)' = "fail"
    BY <1>1, <1>10, <2>1 DEF Failing, Giving_Back, FirstRef
  <2>3. \A p \in Objs : Raw(p)' => \E s \in Scanners :
          /\ Toward(s)' = "fail" /\ drop'[s] = <<p>> /\ Alone(s, p)'
          /\ pc'[s] = "unref" => ldev'[p].refcnt = 1
    BY <1>4, <1>5, <1>7, <2>2
  <2> QED
    BY <1>8, <2>3 DEF Hidden
<1> QED
  BY <1>9, <1>10

\* The one device that may be without a descriptor while references are given
\* back is the one that was given up.
LEMMA GivenUpAlone ==
  ASSUME OneScanner, DevInv, Hidden, NEW t \in Scanners, pc[t] \in Giving, NEW o \in Objs, Raw(o)
  PROVE  /\ Toward(t) = "fail" /\ drop[t] = <<o>> /\ Alone(t, o)
         /\ pc[t] = "unref" => ldev[o].refcnt = 1
<1>1. PICK s \in Scanners :
        \/ pc[s] \in Building /\ scan[s].cur = o
        \/ /\ Toward(s) = "fail" /\ drop[s] = <<o>> /\ Alone(s, o)
           /\ pc[s] = "unref" => ldev[o].refcnt = 1
  BY DEF Hidden
<1>2. s = t
  BY DEF OneScanner
<1>3. pc[t] \notin Building
  BY DEF Giving, Building
<1> QED
  BY <1>1, <1>2, <1>3

LEMMA GivingHidden ==
  ASSUME OneScanner, DevInv, Made, Hidden, NEW t \in Scanners,
         libusb_unref_device(t) \/ destroy_device(t)
  PROVE  Hidden'
<1>0. t \in Threads /\ Inside(t)
  BY DeviceNumbers DEF Inside
<1>1. pc[t] \in Giving /\ drop[t] # <<>> /\ Toward(t) \in {"idle", "next", "fail"}
  BY <1>0, ScanFacts, UnrefIs, DestroyIs DEF Giving
<1>2. /\ Local(t) /\ lists' = lists /\ handles' = handles /\ scan' = scan
      /\ sysfs_has_descriptors' = sysfs_has_descriptors
  BY <1>0, UnrefIs, DestroyIs, Zenon DEF libusb_unref_device, destroy_device, app, globals
<1>3. ~usbi_alloc_device(t) /\ pc[t] \notin Building
  BY <1>1 DEF usbi_alloc_device, Giving, Building
<1>4. \A o \in Objs : DevFlow(t, o)
  BY <1>0, <1>3, ThreadFlow DEF Made
<1>5. pc'[t] \notin Building
  <2>1. ~ScanFails(t)
    BY <1>1 DEF ScanFails, Giving
  <2> QED
    BY <1>0, <1>3, <2>1, ToBuilding
<1>6. CASE Bare
  <2>1. Bare'
    BY <1>0, <1>2, <1>3, <1>6, BareHidden
  <2> QED
    BY <1>5, <2>1, BareNext
<1>7. CASE ~Bare
  <2>1. PICK o \in Objs : Raw(o)
    BY <1>7 DEF Bare
  <2>2. /\ Toward(t) = "fail" /\ drop[t] = <<o>> /\ Alone(t, o)
        /\ pc[t] = "unref" => ldev[o].refcnt = 1
    BY <1>1, <2>1, GivenUpAlone
  <2>3. Head(drop[t]) = o
    BY <2>2
  <2>4. ASSUME NEW q \in Objs, Raw(q)' PROVE q = o
    <3>1. Raw(q)
      BY <1>1, <1>2, <1>4, <2>4, RawBack DEF Giving
    <3>2. drop[t] = <<q>>
      BY <1>1, <3>1, GivenUpAlone
    <3>3. Head(drop[t]) = q
      BY <3>2
    <3> QED
      BY <2>3, <3>3
  <2>5. CASE libusb_unref_device(t)
    <3>1. pc[t] = "unref" /\ ldev[o].refcnt = 1
      BY <1>0, <2>2, <2>5, UnrefIs
    <3>2. pc'[t] = "destroy" /\ drop' = drop /\ Toward(t)' = "fail"
      BY <1>0, <2>2, <2>3, <2>5, <3>1, UnrefIs
    <3>3. Alone(t, o)'
      BY <1>2, <2>2, <3>2 DEF Alone
    <3>4. \A s \in Scanners : s = t
      BY DEF OneScanner
    <3>5. \A s \in Scanners : pc'[s] \notin Building
      BY <1>5, <3>4
    <3>6. \A q \in Objs : Raw(q)' => \E s \in Scanners :
            /\ Toward(s)' = "fail" /\ drop'[s] = <<q>> /\ Alone(s, q)'
            /\ pc'[s] = "unref" => ldev'[q].refcnt = 1
      BY <2>2, <2>4, <3>2, <3>3
    <3> QED
      BY <3>5, <3>6 DEF Hidden
  <2>6. CASE destroy_device(t)
    <3>1. ldev'[o].state = "freed"
      BY <1>0, <2>3, <2>6, DestroyedIs DEF DevChanged
    <3>2. Bare'
      BY <2>4, <3>1 DEF Bare, Raw
    <3> QED
      BY <1>5, <3>2, BareNext
  <2> QED
    BY <2>5, <2>6
<1> QED
  BY <1>6, <1>7

\* Nothing but the scan that makes a device sees it before it is complete.
LEMMA ScanHidden ==
  ASSUME OneScanner, DevInv, Made, Hidden, NEW t \in Scanners, Inside(t)
  PROVE  Hidden'
<1>0. t \in Threads
  BY DeviceNumbers
<1>1. Local(t)
  BY <1>0, ThreadKeeps DEF Keeps
<1>2. CASE libusb_unref_device(t) \/ destroy_device(t)
  BY <1>2, GivingHidden
<1>3. CASE usbi_alloc_device(t)
  BY <1>3, AllocHidden
<1>4. CASE \/ InitDevice(t) \/ OpenNode(t) \/ GetActiveConfig(t) \/ ReadDescriptors(t)
           \/ usbi_sanitize_device(t)
  <2>1. /\ pc[t] \in Building /\ lists' = lists /\ handles' = handles
        /\ UNCHANGED sysfs_has_descriptors /\ ~usbi_alloc_device(t)
    BY <1>4 DEF InitDevice, OpenNode, GetActiveConfig, ReadDescriptors, usbi_sanitize_device,
       Building, ScanFrame, app, globals, usbi_alloc_device
  <2>2. \A o \in Objs : DevFlow(t, o)
    BY <1>0, <2>1, ThreadFlow DEF Made
  <2>3. "sanitize" \in Building /\ "open" \in Building /\ "active" \in Building
          /\ "read" \in Building
    BY DEF Building
  <2>4. CASE (\E place \in Building : Passing(t, place)) \/ Failing(t)
    BY <1>1, <2>1, <2>2, <2>4, BuildingHidden
  <2>5. CASE usbi_sanitize_device(t) /\ Sane(scan[t].cur) /\ Passing(t, "append")
    <3>1. PICK c \in Objs : c = scan[t].cur
      BY <1>0, <2>1 DEF DevInv, Current
    <3>2. Available(c)
      BY <2>5, <3>1 DEF Sane, Readable, Available
    <3>3. ldev' = ldev
      BY <2>5 DEF usbi_sanitize_device, NoDevice, devices
    <3>4. ASSUME NEW o \in Objs, Raw(o) PROVE FALSE
      <4>1. PICK s \in Scanners : \/ pc[s] \in Building /\ scan[s].cur = o
                                  \/ Toward(s) = "fail"
        BY <3>4 DEF Hidden
      <4>2. s = t
        BY DEF OneScanner
      <4>3. Toward(t) # "fail"
        BY <2>1 DEF Toward, Giving, Building
      <4> QED
        BY <3>1, <3>2, <3>4, <4>1, <4>2, <4>3 DEF Raw
    <3>5. Bare'
      BY <2>1, <3>3, <3>4 DEF Bare, Raw, Available
    <3>6. pc'[t] \notin Building
      BY <2>5 DEF Passing, Moved, Building
    <3> QED
      BY <3>5, <3>6, BareNext
  <2> QED
    BY <1>0, <1>4, <2>3, <2>4, <2>5, InitDeviceIs, OpenNodeIs, GetActiveConfigIs,
       ReadDescriptorsIs, SanitizeIs
<1>5. CASE \/ OpenDir(t) \/ ReadDir(t) \/ StatDescriptors(t) \/ FallBack(t) \/ ReadBusnum(t)
           \/ ReadDevnum(t) \/ Lookup(t) \/ discovered_devs_append(t)
           \/ ScanFails(t) \/ ScanDone(t)
  <2>1. pc[t] \in {"opendir", "next", "stat", "busnum", "devnum", "lookup", "append",
                   "fail", "done"}
    BY <1>5, Zenon DEF OpenDir, ReadDir, StatDescriptors, FallBack, ReadBusnum, ReadDevnum, Lookup,
       discovered_devs_append, ScanFails, ScanDone
  <2>2. pc[t] \notin Building /\ pc[t] \notin Giving /\ ~usbi_alloc_device(t)
    BY <2>1 DEF Building, Giving, usbi_alloc_device
  <2>3. Bare
    BY <2>2, BareNow
  <2>4. Bare'
    BY <1>0, <2>2, <2>3, HasOnce, BareHidden
  <2>5. pc'[t] \notin Building
    <3>1. CASE ScanFails(t)
      <4>1. pc'[t] \in {"fail", "unref", "idle"}
        <5>1. pc[t] = "fail"
          BY <3>1 DEF ScanFails
        <5> QED
          BY <1>0, <3>1, <5>1, ScanFailsIs DEF Giving_Back
      <4> QED
        BY <4>1 DEF Building
    <3>2. CASE ~ScanFails(t)
      BY <1>0, <2>2, <3>2, ToBuilding
    <3> QED
      BY <3>1, <3>2
  <2> QED
    BY <2>4, <2>5, BareNext
<1> QED
  BY <1>2, <1>3, <1>4, <1>5 DEF Inside

LEMMA ThreadHidden ==
  ASSUME OneScanner, DevInv, Made, Hidden, NEW t \in Threads, Call(t) \/ Inside(t)
  PROVE  Hidden'
<1>1. CASE InScan(t)
  <2>1. t \in Scanners
    BY <1>1, ScannersScan
  <2>2. ~Call(t)
    BY <1>1, GetListIs, FreeListIs, OpenIs, CloseIs DEF Call, InScan, Toward, Giving
  <2> QED
    BY <2>1, <2>2, ScanHidden
<1>2. CASE ~InScan(t)
  BY <1>2, IdleHidden
<1> QED
  BY <1>1, <1>2

\* The invariant that one scanner keeps.
OneScan == DevInv /\ Sources /\ Made /\ Hidden

\* Devices come and go.
LEMMA QuietScan ==
  ASSUME Sources, Made, Hidden, Quiet, UNCHANGED globals
  PROVE  Sources' /\ Made' /\ Hidden'
<1>1. /\ ldev' = ldev /\ handles' = handles /\ lists' = lists /\ scan' = scan /\ drop' = drop
      /\ pc' = pc /\ then' = then
      /\ sysfs_can_relate_devices' = sysfs_can_relate_devices
      /\ sysfs_has_descriptors' = sysfs_has_descriptors
  BY DEF Quiet, devices, app, walk, globals
<1>2. Sources'
  BY <1>1 DEF Sources, InScan, Toward
<1>3. Made'
  BY <1>1 DEF Made
<1>4. Hidden'
  BY <1>1 DEF Hidden, Alone, Raw, Available, Toward
<1> QED
  BY <1>2, <1>3, <1>4

\* What one scanner, any other threads that open and close devices, and the bus
\* keep.
THEOREM OneScanInvariant == ASSUME OneScanner PROVE DevicesSpec => []OneScan
<1>1. DevicesInit => OneScan
  <2> SUFFICES ASSUME DevicesInit PROVE OneScan
    OBVIOUS
  <2>1. \A t \in Threads : pc[t] = "idle" /\ scan[t].via = "none" /\ Toward(t) = "idle"
    BY NoScanIs DEF DevicesInit, Toward, Giving
  <2>2. \A o \in Objs : ldev[o].state = "none"
    BY DEF DevicesInit, NoDev
  <2>3. sysfs_can_relate_devices # -1 => sysfs_has_descriptors # -1
    BY DEF DevicesInit
  <2>4. Sources
    BY <2>1, <2>3, DeviceNumbers DEF Sources, InScan, Reading, Building
  <2>5. Made
    BY <2>1, <2>2 DEF Made
  <2>6. Hidden
    BY <2>1, <2>2, DeviceNumbers DEF Hidden, Raw, Building
  <2> QED
    BY <2>4, <2>5, <2>6, FirstState DEF OneScan
<1>2. OneScan /\ DevInv' /\ [DevicesNext]_devices_vars => OneScan'
  <2> SUFFICES ASSUME OneScan, DevInv', [DevicesNext]_devices_vars PROVE OneScan'
    OBVIOUS
  <2>0. DevInv /\ Sources /\ Made /\ Hidden
    BY DEF OneScan
  <2>1. CASE UNCHANGED devices_vars
    <3>1. Quiet /\ UNCHANGED globals
      BY <2>1 DEF devices_vars, Quiet
    <3> QED
      BY <2>0, <3>1, QuietScan DEF OneScan
  <2>2. CASE Attach \/ Detach
    <3>1. Quiet /\ UNCHANGED globals
      BY <2>2 DEF Attach, Detach, Quiet
    <3> QED
      BY <2>0, <3>1, QuietScan DEF OneScan
  <2>3. CASE \E t \in Threads : Call(t) \/ Inside(t)
    <3>1. PICK t \in Threads : Call(t) \/ Inside(t)
      BY <2>3
    <3>2. Sources' /\ Made' /\ Hidden'
      BY <2>0, <3>1, ThreadSources, ThreadMade, ThreadHidden
    <3> QED
      BY <3>2 DEF OneScan
  <2> QED
    BY <2>1, <2>2, <2>3 DEF DevicesNext
<1> QED
  BY <1>1, <1>2, DevicesInvariant, PTL DEF DevicesSpec

\* When one thread asks for lists, as in this program, a list that is handed out
\* has every device that was plugged in all the time, and every device on it has
\* a descriptor to show for as long as the list is there.
THEOREM ListsCorrect == ASSUME OneScanner PROVE DevicesSpec => []ListsOK
<1>1. OneScan => DescriptorsAvailable
  <2> SUFFICES ASSUME OneScan, NEW t \in Threads, NEW o \in Range(lists[t]),
                      ldev[o].state = "live"
               PROVE  Available(o)
    BY DEF DescriptorsAvailable, Available
  <2>1. o \in Objs
    BY HeldMade DEF OneScan
  <2>2. ASSUME Raw(o) PROVE FALSE
    <3>1. PICK s \in Scanners :
            \/ pc[s] \in Building /\ scan[s].cur = o
            \/ Alone(s, o)
      BY <2>1, <2>2 DEF OneScan, Hidden
    <3>2. Alone(s, o)
      BY <3>1 DEF OneScan, Hidden
    <3> QED
      BY <3>2 DEF Alone
  <2> QED
    BY <2>2 DEF Raw
<1>2. DevicesSpec => []ScanComplete
  BY ScansComplete, PTL
<1> QED
  BY <1>1, <1>2, OneScanInvariant, PTL DEF ListsOK

\* A scan that fell back to usbfs is not undone.
LEMMA FellBackKept ==
  ASSUME DevInv, Sources, NEW t \in Threads, Call(t) \/ Inside(t), FellBack
  PROVE  FellBack'
<1>1. CASE UNCHANGED globals
  BY <1>1 DEF globals, FellBack
<1>2. CASE StatDescriptors(t) \/ FallBack(t)
  BY <1>2 DEF StatDescriptors, FallBack, FellBack
<1>3. CASE ReadBusnum(t)
  <2>1. pc[t] = "busnum"
    BY <1>3 DEF ReadBusnum
  <2>2. t \in Scanners
    BY <2>1, ScannersScan DEF InScan, Toward, Giving
  <2> QED
    BY <2>1, <2>2 DEF Sources, FellBack
<1> QED
  BY <1>1, <1>2, <1>3, GlobalsStep

\* A new device that is about to be checked has its descriptor where it will be
\* looked for, unless sysfs was given up.
LEMMA ReadyToCheck ==
  ASSUME OneScanner, DevInv, Sources, Made, Hidden, NEW t \in Threads, Call(t) \/ Inside(t),
         NEW v \in Scanners, pc'[v] = "sanitize",
         pc[v] = "sanitize" => Available(scan[v].cur) \/ FellBack
  PROVE  Available(scan[v].cur)' \/ FellBack'
<1>0. v \in Threads /\ Local(t)
  BY DeviceNumbers, ThreadKeeps DEF Keeps
<1>1. CASE v # t
  <2>1. pc'[v] = pc[v] /\ scan'[v] = scan[v]
    BY <1>0, <1>1, OtherView
  <2>2. PICK c \in Objs : c = scan[v].cur
    BY <1>0, <2>1 DEF DevInv, Current, Building
  <2>3. t \notin Scanners
    BY <1>1 DEF OneScanner
  <2>4. UNCHANGED globals /\ ~InScan(t)
    BY <2>3, GlobalsKept, ScannersScan
  <2>5. pc[t] # "init" /\ ~usbi_alloc_device(t)
    BY <2>4 DEF InScan, Toward, Giving, usbi_alloc_device
  <2>6. DevFlow(t, c)
    BY <2>5, ThreadFlow DEF Made
  <2>7. Alone(v, c)
    BY <2>1, <2>2 DEF Hidden, Building
  <2>8. c \notin Range(drop[t])
    BY <1>1, <2>7 DEF Alone
  <2>9. (ldev[c].desc => ldev'[c].desc) /\ (ldev[c].dir => ldev'[c].dir)
    BY <2>5, <2>6, <2>8 DEF DevFlow
  <2>10. Available(c) \/ FellBack
    BY <2>1, <2>2
  <2>11. scan'[v].cur = c
    BY <2>1, <2>2
  <2> QED
    BY <2>4, <2>9, <2>10, <2>11 DEF Available, FellBack, globals
<1>2. CASE v = t
  <2>1. InScan(t)
    <3>1. CASE ~InScan(t)
      BY <1>2, <3>1, IdleFlow
    <3> QED
      BY <3>1
  <2>2. Inside(t)
    BY <2>1, GetListIs, FreeListIs, OpenIs, CloseIs DEF Call, InScan, Toward, Giving
  <2>3. pc[t] \in Building
    <3>1. ~usbi_alloc_device(t)
      <4>1. ASSUME Moved(t, "init") \/ Failing(t) PROVE FALSE
        BY <1>2, <4>1 DEF Moved, Failing, Giving_Back
      <4> QED
        BY <4>1, AllocIs
    <3>2. ~ScanFails(t)
      <4>1. ScanFails(t) => pc[t] = "fail" /\ (pc'[t] = pc[t] \/ pc'[t] \in {"unref", "idle"})
        BY ScanFailsIs DEF ScanFails, Giving_Back
      <4> QED
        BY <1>2, <4>1
    <3> QED
      BY <1>2, <2>2, <3>1, <3>2, ToBuilding DEF Building
  <2>4. \/ InitDevice(t) \/ OpenNode(t) \/ GetActiveConfig(t) \/ ReadDescriptors(t)
        \/ usbi_sanitize_device(t)
    BY <2>2, <2>3, Zenon DEF Inside, Building, libusb_unref_device, destroy_device, OpenDir, ReadDir,
       StatDescriptors, FallBack, ReadBusnum, ReadDevnum, Lookup, usbi_alloc_device,
       discovered_devs_append, ScanFails, ScanDone
  <2>5. ~Failing(t)
    BY <1>2 DEF Failing, Giving_Back
  <2>6. ASSUME NEW place \in {"open", "active", "read", "append"}, Passing(t, place) PROVE FALSE
    BY <1>2, <2>6 DEF Passing, Moved
  <2>7. PICK c \in Objs : c = scan[t].cur
    BY <2>3 DEF DevInv, Current
  <2>8. CASE InitDevice(t)
    <3>1. Passing(t, "sanitize") /\ sysfs_has_descriptors # 0 /\ pc[t] = "init"
      BY <2>5, <2>6, <2>8, InitDeviceIs DEF InitDevice
    <3>2. UNCHANGED globals /\ scan'[t].cur = c
      BY <2>7, <2>8, <3>1 DEF InitDevice, Passing, Same
    <3>3. CASE scan[t].via = "sysfs"
      <4>1. ldev' = [ldev EXCEPT ![c].dir = TRUE]
        BY <2>7, <2>8, <3>3 DEF InitDevice, sysfs_dir
      <4>2. ldev'[c].dir = TRUE
        BY <4>1, DirIs DEF DevChanged
      <4> QED
        BY <1>2, <3>1, <3>2, <4>2 DEF Available, globals
    <3>4. CASE scan[t].via # "sysfs"
      <4>1. scan[t].via = "usbfs"
        BY <1>2, <2>1, <3>4, ScanFacts DEF Sources, Scans
      <4>2. sysfs_can_relate_devices = 0 /\ sysfs_has_descriptors # -1
        BY <1>2, <3>1, <4>1 DEF Sources, Reading, Building
      <4>3. sysfs_has_descriptors = 1
        BY <3>1, <4>2 DEF DevInv, DevicesTypes
      <4> QED
        BY <3>2, <4>2, <4>3 DEF FellBack, globals
    <3> QED
      BY <3>3, <3>4
  <2>9. CASE ReadDescriptors(t)
    <3>1. Passing(t, "sanitize") /\ ldev' = [ldev EXCEPT ![c].desc = TRUE] /\ pc[t] = "read"
      BY <2>5, <2>7, <2>9, ReadDescriptorsIs DEF ReadDescriptors
    <3>2. UNCHANGED globals /\ scan'[t].cur = c
      BY <2>7, <2>9, <3>1 DEF ReadDescriptors, Passing, Same
    <3>3. sysfs_has_descriptors = 0
      BY <1>2, <3>1 DEF Sources
    <3>4. ldev'[c].desc = TRUE
      BY <3>1, DescIs DEF DevChanged
    <3> QED
      BY <1>2, <3>2, <3>3, <3>4 DEF Available, globals
  <2> QED
    BY <2>4, <2>5, <2>6, <2>8, <2>9, OpenNodeIs, GetActiveConfigIs, SanitizeIs
<1> QED
  BY <1>1, <1>2

\* Undisturbed, for one thread.
SteadyAt(t) ==
  /\ scan[t].todo \subseteq plugged
  /\ pc[t] \in Reading => scan[t].at \in plugged
  /\ Toward(t) = "fail" \/ result[t] = "error" => FellBack \/ plugged \cap Odd # {}

\* A step of an undisturbed scan that does not fail by itself.
LEMMA SteadyGoes ==
  ASSUME Undisturbed, NEW t \in quiet, UNCHANGED world, FellBack => FellBack',
         scan'[t].todo \subseteq plugged, pc'[t] \in Reading => scan'[t].at \in plugged,
         Toward(t)' = "fail" \/ result'[t] = "error" =>
            Toward(t) = "fail" \/ result[t] = "error" \/ FellBack \/ plugged \cap Odd # {}
  PROVE  SteadyAt(t)'
BY DEF Undisturbed, SteadyAt, world

\* One that comes to place and reads no new name.
LEMMA SteadyPass ==
  ASSUME Undisturbed, NEW t \in quiet, UNCHANGED world, FellBack => FellBack',
         NEW place \in Spots, pc'[t] = place, Toward(t)' # "fail", result'[t] = result[t],
         scan'[t].todo = scan[t].todo, scan'[t].at = scan[t].at,
         place \in Reading => pc[t] \in Reading
  PROVE  SteadyAt(t)'
<1>1. scan[t].todo \subseteq plugged /\ (pc[t] \in Reading => scan[t].at \in plugged)
  BY DEF Undisturbed
<1> QED
  BY <1>1, SteadyGoes

LEMMA PassingIs ==
  ASSUME NEW t, NEW place, Passing(t, place)
  PROVE  /\ pc'[t] = place /\ Toward(t)' = place
         /\ scan'[t].todo = scan[t].todo /\ scan'[t].at = scan[t].at
BY DEF Passing, Moved, Same

\* A device that is plugged in is given up only when it has no configuration,
\* or sysfs was given up.
LEMMA CheckSteady ==
  ASSUME DevInv, Undisturbed, NEW t \in Scanners, t \in quiet, usbi_sanitize_device(t),
         ~Sane(scan[t].cur)
  PROVE  FellBack \/ plugged \cap Odd # {}
<1>1. pc[t] = "sanitize" /\ t \in Threads
  BY DeviceNumbers DEF usbi_sanitize_device
<1>2. PICK c \in Objs : c = scan[t].cur
  BY <1>1 DEF DevInv, Current, Building
<1>3. ldev[c].addr = scan[t].at
  BY <1>1, <1>2 DEF DevInv, Current, Building
<1>4. ldev[c].addr \in plugged
  BY <1>1, <1>3 DEF Undisturbed, Reading, Building
<1>5. Available(c) \/ FellBack
  BY <1>1, <1>2 DEF Undisturbed
<1>6. Available(c) => ldev[c].addr \in Odd
  BY <1>2, <1>4 DEF Sane, Readable, Available
<1> QED
  BY <1>4, <1>5, <1>6

\* The steps of a scan that nothing disturbs.
LEMMA ScanSteady ==
  ASSUME DevInv, Sources, Undisturbed, NEW t \in Scanners, t \in quiet, Inside(t), Works
  PROVE  SteadyAt(t)'
<1>0. t \in Threads
  BY DeviceNumbers
<1>1. UNCHANGED world /\ (FellBack => FellBack') /\ SteadyAt(t)
  BY <1>0, InsideFrame, FellBackKept DEF Undisturbed, SteadyAt
<1>2. ~Fails(t)
  <2>1. errors \in Nat
    BY DEF DevInv, DevicesTypes
  <2> QED
    BY <2>1 DEF Works, Fails, history
<1>3. ASSUME NEW place \in Spots, Passing(t, place), result' = result,
             place # "fail", place \in Reading => pc[t] \in Reading
      PROVE  SteadyAt(t)'
  BY <1>1, <1>3, PassingIs, SteadyPass
<1>4. CASE libusb_unref_device(t) \/ destroy_device(t)
  <2>1. /\ scan' = scan /\ result' = result /\ pc[t] \in Giving /\ Toward(t)' = Toward(t)
        /\ pc'[t] \in {"unref", "destroy", Toward(t)}
    BY <1>0, <1>4, UnrefIs, DestroyIs DEF Giving_Back, Giving
  <2>2. Toward(t) \in {"idle", "next", "fail"}
    BY <1>0, <2>1, ScanFacts
  <2>3. pc'[t] \notin Reading
    BY <2>1, <2>2 DEF Reading, Building
  <2> QED
    BY <1>1, <2>1, <2>3, SteadyGoes DEF SteadyAt
<1>5. CASE OpenDir(t)
  <2>1. result' = result
    BY <1>5 DEF OpenDir, ScanFrame
  <2>2. /\ pc'[t] = "next" /\ Toward(t)' = "next" /\ scan'[t].todo = plugged
    BY <1>0, <1>2, <1>5, OpenDirIs DEF Moved
  <2>3. "next" \notin Reading
    BY DEF Reading, Building
  <2> QED
    BY <1>1, <2>1, <2>2, <2>3, SteadyGoes
<1>6. CASE ReadDir(t)
  <2>1. result' = result
    BY <1>6 DEF ReadDir, ScanFrame
  <2>2. CASE Passing(t, "done")
    BY <1>3, <2>1, <2>2 DEF Spots, Reading, Building
  <2>3. CASE /\ scan'[t].at \in scan[t].todo /\ scan'[t].todo = scan[t].todo \ {scan'[t].at}
             /\ Moved(t, IF scan[t].via = "sysfs" THEN "stat" ELSE "lookup")
    <3>1. Toward(t)' # "fail"
      BY <2>3 DEF Moved
    <3> QED
      BY <1>1, <2>1, <2>3, <3>1, SteadyGoes DEF SteadyAt
  <2> QED
    BY <1>0, <1>6, <2>2, <2>3, ReadDirIs
<1>7. CASE StatDescriptors(t) \/ ReadBusnum(t) \/ ReadDevnum(t)
  <2>1. result' = result /\ pc[t] \in Reading
    BY <1>7 DEF StatDescriptors, ReadBusnum, ReadDevnum, ScanFrame, Reading
  <2>2. Present(t)
    BY <1>1, <2>1 DEF SteadyAt, Present
  <2>3. Passing(t, "busnum") \/ Passing(t, "devnum") \/ Passing(t, "lookup")
    BY <1>0, <1>2, <1>7, <2>2, SysfsScanIs
  <2> QED
    BY <1>3, <2>1, <2>3 DEF Spots
<1>8. CASE FallBack(t)
  <2>1. result' = result
    BY <1>8 DEF FallBack, ScanFrame
  <2>2. /\ pc'[t] = "opendir" /\ Toward(t)' = "opendir" /\ scan'[t].todo = scan[t].todo
    BY <1>0, <1>8, SysfsScanIs DEF Moved, Same
  <2>3. "opendir" \notin Reading
    BY DEF Reading, Building
  <2> QED
    BY <1>1, <2>1, <2>2, <2>3, SteadyGoes DEF SteadyAt
<1>9. CASE Lookup(t) \/ usbi_alloc_device(t) \/ discovered_devs_append(t)
  <2>1. result' = result /\ pc[t] \in Reading
    BY <1>9 DEF Lookup, usbi_alloc_device, discovered_devs_append, ScanFrame, Reading
  <2>2. PICK place \in {"alloc", "append", "init", "next", "unref"} :
          /\ pc'[t] = place /\ Toward(t)' # "fail"
          /\ scan'[t].todo = scan[t].todo /\ scan'[t].at = scan[t].at
    <3>1. CASE Lookup(t)
      BY <1>0, <3>1, LookupIs DEF Passing, Moved, Same
    <3>2. CASE usbi_alloc_device(t)
      BY <1>0, <1>2, <3>2, AllocIs DEF Moved, Same
    <3>3. CASE discovered_devs_append(t)
      BY <1>0, <1>2, <3>3, AppendIs DEF Giving_Back, Same
    <3> QED
      BY <1>9, <3>1, <3>2, <3>3
  <2>3. place \in Spots
    BY DEF Spots
  <2> QED
    BY <1>1, <2>1, <2>2, <2>3, SteadyPass
<1>10. CASE InitDevice(t) \/ OpenNode(t) \/ GetActiveConfig(t) \/ ReadDescriptors(t)
  <2>1. result' = result /\ pc[t] \in Reading
    BY <1>10 DEF InitDevice, OpenNode, GetActiveConfig, ReadDescriptors, ScanFrame, Reading,
       Building
  <2>2. Present(t)
    BY <1>1, <2>1 DEF SteadyAt, Present
  <2>3. CASE \E place \in {"open", "active", "read", "sanitize"} : Passing(t, place)
    BY <1>3, <2>1, <2>3 DEF Spots
  <2>4. CASE /\ InitDevice(t) /\ sysfs_can_relate_devices # 0 /\ ~sysfs_dir(t)
    <3>1. scan[t].via = "usbfs"
      <4>1. InScan(t) /\ scan[t].via # "sysfs"
        BY <2>4 DEF InitDevice, sysfs_dir, InScan, Toward, Giving
      <4> QED
        BY <1>0, <4>1, ScanFacts DEF Sources, Scans
    <3> QED
      BY <2>4, <3>1 DEF Sources
  <2> QED
    BY <1>0, <1>2, <1>10, <2>2, <2>3, <2>4, InitDeviceIs, OpenNodeIs, GetActiveConfigIs,
       ReadDescriptorsIs
<1>11. CASE usbi_sanitize_device(t)
  <2>1. result' = result /\ pc[t] \in Reading
    BY <1>11 DEF usbi_sanitize_device, ScanFrame, Reading, Building
  <2>2. CASE Passing(t, "append")
    BY <1>3, <2>1, <2>2 DEF Spots
  <2>3. CASE ~Sane(scan[t].cur) /\ Failing(t)
    <3>1. FellBack \/ plugged \cap Odd # {}
      BY <1>11, <2>3, CheckSteady
    <3>2. pc'[t] \in {"unref", "fail"} /\ scan'[t].todo = scan[t].todo
      BY <2>3 DEF Failing, Giving_Back, Same
    <3>3. pc'[t] \notin Reading
      BY <3>2 DEF Reading, Building
    <3> QED
      BY <1>1, <3>1, <3>2, <3>3, SteadyGoes DEF SteadyAt
  <2> QED
    BY <1>0, <1>2, <1>11, <2>2, <2>3, SanitizeIs
<1>12. CASE ScanFails(t)
  <2>1. pc[t] = "fail" /\ Toward(t) = "fail"
    BY <1>12 DEF ScanFails, Toward, Giving
  <2>2. pc'[t] \notin Reading /\ scan'[t].todo \subseteq plugged
    <3>1. CASE UNCHANGED <<pc, scan>>
      BY <1>1, <2>1, <3>1 DEF SteadyAt, Reading, Building
    <3>2. CASE Over(t, "error") /\ Giving_Back(t, Failed(t), "idle")
      <4>1. scan'[t].todo = {} /\ pc'[t] \in {"unref", "idle"}
        BY <3>2, NoScanIs DEF Over, Giving_Back
      <4> QED
        BY <4>1 DEF Reading, Building
    <3> QED
      BY <1>0, <1>12, <3>1, <3>2, ScanFailsIs
  <2> QED
    BY <1>1, <2>1, <2>2, SteadyGoes
<1>13. CASE ScanDone(t)
  <2>1. scan'[t] = NoScan /\ result'[t] = "ok" /\ pc'[t] = "idle" /\ Toward(t)' = "idle"
    BY <1>0, <1>2, <1>13, ScanDoneIs DEF Over, Moved
  <2>2. scan'[t].todo = {} /\ "idle" \notin Reading
    BY <2>1, NoScanIs DEF Reading, Building
  <2> QED
    BY <1>1, <2>1, <2>2, SteadyGoes
<1> QED
  BY <1>4, <1>5, <1>6, <1>7, <1>8, <1>9, <1>10, <1>11, <1>12, <1>13 DEF Inside

\* The threads that do not move, of which one may scan.
LEMMA SteadyOther ==
  ASSUME OneScanner, DevInv, Sources, Undisturbed, NEW t \in Threads, Call(t) \/ Inside(t),
         NEW v \in quiet, v # t
  PROVE  SteadyAt(v)'
<1>1. v \in Scanners /\ v \in Threads
  BY DeviceNumbers DEF Undisturbed
<1>2. UNCHANGED world /\ Local(t)
  BY ThreadFrame, ThreadKeeps DEF Keeps
<1>3. /\ pc'[v] = pc[v] /\ scan'[v] = scan[v] /\ result'[v] = result[v]
      /\ Toward(v)' = Toward(v)
  BY <1>1, <1>2, OtherView
<1>4. FellBack => FellBack'
  BY FellBackKept
<1>5. SteadyAt(v)
  BY DEF Undisturbed, SteadyAt
<1> QED
  BY <1>2, <1>3, <1>4, <1>5, SteadyGoes DEF SteadyAt

\* The calls of the program.
LEMMA CallSteady ==
  ASSUME DevInv, Sources, Undisturbed, NEW t \in Threads, Call(t), t \in quiet'
  PROVE  SteadyAt(t)' /\ t \in Scanners
<1>1. UNCHANGED world /\ (FellBack => FellBack')
  BY CallFrame, FellBackKept
<1>2. CASE libusb_get_device_list(t)
  <2>1. /\ t \in Scanners /\ pc'[t] = "opendir" /\ Toward(t)' = "opendir"
        /\ result'[t] = "none" /\ scan'[t].todo = {}
    BY <1>2, GetListIs DEF Moved
  <2>2. pc'[t] \notin Reading
    BY <2>1 DEF Reading, Building
  <2> QED
    BY <2>1, <2>2 DEF SteadyAt
<1>3. CASE ~libusb_get_device_list(t)
  <2>1. t \in quiet
    BY <1>3 DEF Call, libusb_free_device_list, libusb_open, libusb_close, history, Works, Fails
  <2>2. t \in Scanners /\ SteadyAt(t)
    BY <2>1 DEF Undisturbed, SteadyAt
  <2>3. /\ scan' = scan /\ (result'[t] = "error" => result[t] = "error")
        /\ pc'[t] \in {"unref", "idle"} /\ Toward(t)' = "idle"
    <3>1. CASE libusb_free_device_list(t)
      BY <3>1, FreeListIs DEF Giving_Back
    <3>2. CASE libusb_open(t)
      BY <3>2, OpenIs DEF Toward, Giving
    <3>3. CASE libusb_close(t)
      BY <3>3, CloseIs DEF Giving_Back
    <3> QED
      BY <1>3, <3>1, <3>2, <3>3 DEF Call
  <2>4. pc'[t] \notin Reading
    BY <2>3 DEF Reading, Building
  <2> QED
    BY <1>1, <2>1, <2>2, <2>3, <2>4, SteadyGoes DEF SteadyAt
<1> QED
  BY <1>2, <1>3

LEMMA ThreadSteady ==
  ASSUME OneScanner, DevInv, Sources, Made, Hidden, Undisturbed,
         NEW t \in Threads, Call(t) \/ Inside(t)
  PROVE  Undisturbed'
<1>1. \A v \in quiet' : v # t => v \in quiet
  BY CallFrame, InsideFrame DEF Noted, Works, Fails, history
<1>2. ASSUME t \in quiet', Inside(t) PROVE t \in Scanners /\ SteadyAt(t)'
  <2>1. Works
    BY <1>2, InsideFrame DEF Fails
  <2>2. t \in quiet
    BY <1>2, <2>1 DEF Works, history
  <2>3. t \in Scanners
    BY <2>2 DEF Undisturbed
  <2> QED
    BY <1>2, <2>1, <2>2, <2>3, ScanSteady
<1>3. ASSUME NEW v \in quiet' PROVE v \in Scanners /\ SteadyAt(v)'
  <2>1. CASE v = t
    BY <1>2, <1>3, <2>1, CallSteady
  <2>2. CASE v # t
    <3>1. v \in quiet
      BY <1>1, <2>2
    <3> QED
      BY <2>2, <3>1, SteadyOther DEF Undisturbed
  <2> QED
    BY <2>1, <2>2
<1>4. ASSUME NEW v \in Scanners, pc'[v] = "sanitize"
      PROVE  Available(scan[v].cur)' \/ FellBack'
  <2>1. pc[v] = "sanitize" => Available(scan[v].cur) \/ FellBack
    BY DEF Undisturbed
  <2> QED
    BY <1>4, <2>1, ReadyToCheck
<1> QED
  BY <1>3, <1>4 DEF Undisturbed, SteadyAt

\* Devices come and go: no scan is undisturbed then.
LEMMA BusSteady ==
  ASSUME Undisturbed, Attach \/ Detach
  PROVE  Undisturbed'
<1>1. /\ quiet' = {} /\ ldev' = ldev /\ scan' = scan /\ pc' = pc
      /\ sysfs_can_relate_devices' = sysfs_can_relate_devices
      /\ sysfs_has_descriptors' = sysfs_has_descriptors
  BY DEF Attach, Detach, devices, globals
<1> QED
  BY <1>1 DEF Undisturbed, Available, FellBack

\* When one thread asks for lists, a scan that no failing call and no device that
\* comes or goes disturbs succeeds, but for two causes: a device without a
\* configuration, and an earlier fall back to usbfs.
THEOREM SteadyCorrect == ASSUME OneScanner PROVE DevicesSpec => []SteadyScan
<1>1. DevicesInit => Undisturbed
  <2> SUFFICES ASSUME DevicesInit PROVE Undisturbed
    OBVIOUS
  <2>1. quiet = {} /\ \A t \in Scanners : pc[t] = "idle"
    BY DeviceNumbers DEF DevicesInit
  <2> QED
    BY <2>1 DEF Undisturbed
<1>2. OneScan /\ Undisturbed /\ [DevicesNext]_devices_vars => Undisturbed'
  <2> SUFFICES ASSUME OneScan, Undisturbed, [DevicesNext]_devices_vars PROVE Undisturbed'
    OBVIOUS
  <2>1. CASE UNCHANGED devices_vars
    BY <2>1 DEF devices_vars, world, globals, devices, walk, history, Undisturbed, Available,
       FellBack, Toward
  <2>2. CASE Attach \/ Detach
    BY <2>2, BusSteady
  <2>3. CASE \E t \in Threads : Call(t) \/ Inside(t)
    BY <2>3, ThreadSteady DEF OneScan
  <2> QED
    BY <2>1, <2>2, <2>3 DEF DevicesNext
<1>3. Undisturbed => SteadyScan
  BY DEF Undisturbed, SteadyScan
<1> QED
  BY <1>1, <1>2, <1>3, OneScanInvariant, PTL DEF DevicesSpec
====
