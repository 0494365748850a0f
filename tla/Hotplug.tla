------------------------------- MODULE Hotplug -------------------------------
(***************************************************************************)
(* Devices that come and go (usb_libusb.c, transport_z.c, zadb.c): the     *)
(* list of usb_handles, the one global transport, and the threads that     *)
(* register, use and kick them.                                            *)
(*                                                                         *)
(*   poll     the scan of usb_init, then device_poll_thread                *)
(*   output   one thread per transport; ends and kicks it when a read fails*)
(*   watch    device_watch_thread                                          *)
(*   main     waits for the device, opens, dumps, closes                   *)
(*   stdin    writes what the user types                                   *)
(*                                                                         *)
(* A handle and the transport made for it have one number, 1 .. N, in      *)
(* order of allocation; handle_list is 0 and NULL is -1.  A device is the  *)
(* address the kernel gave it: plugged in again, it is another device.     *)
(* usb_lock is not a variable: only the scanning thread takes it.  Nor is  *)
(* kicked: only a transport's own output thread tests it, once.  Memory is *)
(* not reused.  Following a NULL link or using a freed handle is undefined *)
(* behaviour and ends the run of the model with status "undefined".        *)
(***************************************************************************)
EXTENDS Integers, FiniteSets

CONSTANTS
  MaxPlugs,   \* bound: how often a device is plugged in
  Ports,      \* devices plugged in at a time
  Adb,        \* the devices with an adb interface and a serial number
  MaxOpen,    \* devices the process can have open
  MaxFaults   \* bound: transfers and calls that fail for no visible reason

N == MaxPlugs + MaxFaults    \* bound: handles ever allocated

Devices == 1 .. MaxPlugs
Handles == 1 .. N
Poll == 0
NULL == -1
handle_list == 0

ASSUME HotplugAssumption ==
  /\ MaxPlugs \in Nat /\ MaxFaults \in Nat
  /\ Ports \in Nat /\ MaxOpen \in Nat
  /\ Adb \subseteq Devices

VARIABLES
  bus, plugs,         \* devices plugged in now, and so far
  faults,
  opens,              \* devh's open on each device
  refs,               \* libusb's reference count of each device
  claimed,            \* devices whose interface is claimed
  live, used,         \* handles allocated now, and so far
  addr, next, prev,   \* their device and links, handle_list's included
  transport,
  at,                 \* where poll (at[0]) and the output threads (at[h]) are
  usb,                \* poll: the handle it looks at
  listed, devs, dev,  \* poll: the device list, its unchecked part, the device
  watch, current_state, device_found,
  main, stdin,
  arg,                \* the transport passed to send_packet; main's is the
                      \* one it opened the stream on
  connected,          \* transports over which CONNECT was sent
  status

worldVars == <<bus, plugs, faults>>
usbVars == <<opens, refs, claimed>>
handleVars == <<live, used, addr, next, prev>>
pollVars == <<usb, listed, devs, dev>>
watchVars == <<watch, current_state, device_found>>
clientVars == <<main, stdin, arg, connected>>
vars == <<worldVars, usbVars, handleVars, transport, at, pollVars, watchVars,
          clientVars, status>>

Running == status = "running"
Undefined == status' = "undefined"

\* A link that may be followed.
Valid(h) == h \in live \cup {handle_list}

\* One more call fails for no visible reason.
Fault == faults < MaxFaults /\ faults' = faults + 1

-----------------------------------------------------------------------------
Init ==
  /\ bus = {} /\ plugs = 0 /\ faults = 0
  /\ opens = [d \in Devices |-> 0]
  /\ refs = [d \in Devices |-> 0]
  /\ claimed = {}
  /\ live = {} /\ used = 0
  /\ addr = [h \in Handles |-> 0]
  /\ next = [h \in 0 .. N |-> IF h = handle_list THEN handle_list ELSE NULL]
  /\ prev = next
  /\ transport = NULL
  /\ at = [k \in 0 .. N |-> IF k = Poll THEN "list" ELSE "off"]
  /\ usb = handle_list /\ listed = {} /\ devs = {} /\ dev = 0
  /\ watch = "off" /\ current_state = FALSE /\ device_found = FALSE
  /\ main = "init" /\ stdin = "off"
  /\ arg = [s \in {"watch", "main", "stdin"} |-> NULL]
  /\ connected = {}
  /\ status = "running"

-----------------------------------------------------------------------------
(* The user and the kernel. *)

PlugIn ==
  /\ plugs < MaxPlugs /\ Cardinality(bus) < Ports
  /\ plugs' = plugs + 1
  /\ bus' = bus \cup {plugs'}

Unplug == \E d \in bus : bus' = bus \ {d} /\ UNCHANGED plugs

World ==
  /\ Running
  /\ PlugIn \/ Unplug
  /\ UNCHANGED <<faults, usbVars, handleVars, transport, at, pollVars,
                 watchVars, clientVars, status>>

-----------------------------------------------------------------------------
(* usb_kick, called by k: the poll thread for the handle it looks at, an   *)
(* output thread for its own.                                              *)

Goto(k, place) == at' = [at EXCEPT ![k] = place]

Target(k) == IF k = Poll THEN usb ELSE k

(* The test that is commented out in the code: only a transport without   *)
(* permission, and there is none (broken variant).                         *)
Unregister_NoPerm(k) ==
  /\ at[k] = "unregister"
  /\ \A j \in 0 .. N : at[j] # "reset"
  /\ IF Target(k) \in live
     THEN Goto(k, "unlink next") /\ UNCHANGED status
     ELSE Undefined /\ UNCHANGED at
  /\ UNCHANGED transport
\* unregister_usb_transport, under transport_lock: test, then reset.
Unregister(k) ==
  \/ /\ at[k] = "unregister"
     /\ \A j \in 0 .. N : at[j] # "reset"
     /\ Target(k) \in live
     /\ Goto(k, IF transport = Target(k) THEN "reset" ELSE "unlink next")
     /\ UNCHANGED <<transport, status>>
  \/ /\ at[k] = "unregister"
     /\ Target(k) \notin live
     /\ Undefined
     /\ UNCHANGED <<transport, at>>
  \/ /\ at[k] = "reset"
     /\ transport' = NULL
     /\ Goto(k, "unlink next")
     /\ UNCHANGED status

\* h->next->prev = h->prev, then h->prev->next = h->next and both NULL.
Unlink(k) ==
  LET h == Target(k)
  IN \/ /\ at[k] = "unlink next"
        /\ h \in live /\ Valid(next[h])
        /\ prev' = [prev EXCEPT ![next[h]] = prev[h]]
        /\ Goto(k, "unlink prev")
        /\ UNCHANGED <<next, status>>
     \/ /\ at[k] = "unlink prev"
        /\ h \in live /\ Valid(prev[h])
        /\ next' = [next EXCEPT ![prev[h]] = next[h], ![h] = NULL]
        /\ prev' = [prev EXCEPT ![h] = NULL]
        /\ Goto(k, "free")
        /\ UNCHANGED status
     \/ /\ \/ at[k] = "unlink next" /\ ~ (h \in live /\ Valid(next[h]))
           \/ at[k] = "unlink prev" /\ ~ (h \in live /\ Valid(prev[h]))
        /\ Undefined
        /\ UNCHANGED <<at, next, prev>>

(* The handle freed but its device left open; libusb_unref_device left out *)
(* (broken variants).                                                      *)
Free_LeftOpen(k) ==
  LET h == Target(k)
      d == addr[h]
  IN /\ at[k] = "free"
     /\ h \in live
     /\ live' = live \ {h}
     /\ refs' = [refs EXCEPT ![d] = @ - 1]
     /\ Goto(k, IF k = Poll THEN "next" ELSE "done")
     /\ UNCHANGED <<status, opens, claimed>>
Free_NoUnref(k) ==
  LET h == Target(k)
      d == addr[h]
  IN /\ at[k] = "free"
     /\ IF h \in live
        THEN /\ live' = live \ {h}
             /\ opens' = [opens EXCEPT ![d] = @ - 1]
             /\ refs' = [refs EXCEPT ![d] = @ - 1]
             /\ claimed' = claimed \ {d}
             /\ Goto(k, IF k = Poll THEN "next" ELSE "done")
             /\ UNCHANGED status
        ELSE Undefined /\ UNCHANGED <<live, opens, refs, claimed, at>>
\* Release, close, unref, free; libusb_close gives back a reference too.
Free(k) ==
  LET h == Target(k)
      d == addr[h]
  IN /\ at[k] = "free"
     /\ IF h \in live /\ refs[d] >= 2
        THEN /\ live' = live \ {h}
             /\ opens' = [opens EXCEPT ![d] = @ - 1]
             /\ refs' = [refs EXCEPT ![d] = @ - 2]
             /\ claimed' = claimed \ {d}
             /\ Goto(k, IF k = Poll THEN "next" ELSE "done")
             /\ UNCHANGED status
        ELSE Undefined /\ UNCHANGED <<live, opens, refs, claimed, at>>

usb_kick(k) ==
  \/ Unregister(k) /\ UNCHANGED <<usbVars, live, next, prev>>
  \/ Unlink(k) /\ UNCHANGED <<usbVars, live, transport>>
  \/ Free(k) /\ UNCHANGED <<next, prev, transport>>

-----------------------------------------------------------------------------
(* output_thread *)

\* A read fails: the device is gone, or the packet was bad.
ReadFails(h) ==
  /\ at[h] = "read"
  /\ \/ addr[h] \notin bus /\ UNCHANGED faults
     \/ addr[h] \in bus /\ Fault
  /\ Goto(h, "unregister")
  /\ UNCHANGED <<usbVars, live, next, prev, transport, status>>

OutputStep(h) ==
  /\ Running
  /\ ReadFails(h) \/ (usb_kick(h) /\ UNCHANGED faults)
  /\ UNCHANGED <<bus, plugs, used, addr, pollVars, watchVars, clientVars>>

-----------------------------------------------------------------------------
(* kick_disconnected *)

\* Every five seconds: usb = handle_list.next.
Wake ==
  /\ at[Poll] = "sleep"
  /\ usb' = next[handle_list]
  /\ Goto(Poll, "check")
  /\ UNCHANGED status

\* check_device_connected fails with "no device" only when it is unplugged.
CheckConnected ==
  /\ at[Poll] = "check"
  /\ IF usb = handle_list THEN Goto(Poll, "list") /\ UNCHANGED status
     ELSE IF usb \notin live THEN Undefined /\ UNCHANGED at
     ELSE /\ Goto(Poll, IF addr[usb] \in bus THEN "next" ELSE "unregister")
          /\ UNCHANGED status
  /\ UNCHANGED usb

\* usb = usb->next, after a usb_kick too.
NextHandle ==
  /\ at[Poll] = "next"
  /\ IF usb \in live
     THEN usb' = next[usb] /\ Goto(Poll, "check") /\ UNCHANGED status
     ELSE Undefined /\ UNCHANGED <<usb, at>>

kick_disconnected ==
  /\ \/ (Wake \/ CheckConnected \/ NextHandle)
        /\ UNCHANGED <<usbVars, live, next, prev, transport>>
     \/ usb_kick(Poll) /\ UNCHANGED usb
  /\ UNCHANGED <<faults, used, addr, listed, devs, dev, main, watch>>

-----------------------------------------------------------------------------
(* scan_usb_devices and check_device *)

\* libusb_get_device_list counts a reference for each device.
GetList ==
  /\ at[Poll] = "list"
  /\ listed' = bus /\ devs' = bus
  /\ refs' = [d \in Devices |-> IF d \in bus THEN refs[d] + 1 ELSE refs[d]]
  /\ Goto(Poll, "device")
  /\ UNCHANGED <<usb, dev, main, watch, status>>

NextDevice ==
  /\ at[Poll] = "device"
  /\ \E d \in devs : dev' = d /\ devs' = devs \ {d}
  /\ usb' = next[handle_list]
  /\ Goto(Poll, "find")
  /\ UNCHANGED <<refs, listed, main, watch, status>>

\* libusb_free_device_list.  The scan of usb_init is main's: after it main
\* starts the poll and the watch thread.
FreeList ==
  /\ at[Poll] = "device" /\ devs = {}
  /\ IF \A d \in listed : refs[d] > 0
     THEN /\ refs' = [d \in Devices |->
                        IF d \in listed THEN refs[d] - 1 ELSE refs[d]]
          /\ UNCHANGED status
     ELSE Undefined /\ UNCHANGED refs
  /\ listed' = {} /\ usb' = handle_list /\ dev' = 0    \* out of scope
  /\ Goto(Poll, "sleep")
  /\ main' = IF main = "init" THEN "wait" ELSE main
  /\ watch' = IF main = "init" THEN "test" ELSE watch
  /\ UNCHANGED devs

\* One step of already_registered's walk.
already_registered ==
  /\ at[Poll] = "find"
  /\ IF usb = handle_list
     THEN Goto(Poll, "open") /\ UNCHANGED <<usb, status>>
     ELSE IF usb \notin live THEN Undefined /\ UNCHANGED <<usb, at>>
     ELSE IF addr[usb] = dev
     THEN Goto(Poll, "device") /\ UNCHANGED <<usb, status>>
     ELSE usb' = next[usb] /\ UNCHANGED <<at, status>>
  /\ UNCHANGED <<refs, listed, devs, dev, main, watch>>

Scan ==
  /\ GetList \/ NextDevice \/ FreeList \/ already_registered
  /\ UNCHANGED <<faults, opens, claimed, handleVars, transport>>

TotalOpen == Cardinality({o \in Devices \X (1 .. MaxOpen) : o[2] <= opens[o[1]]})

\* libusb_open would succeed.
Openable == dev \in bus /\ TotalOpen < MaxOpen

(* A device whose interface cannot be claimed stays open (broken variant).  *)
ProbeFails_LeftOpen ==
  /\ at[Poll] = "open"
  /\ \/ ~ Openable /\ UNCHANGED <<faults, opens, refs>>
     \/ /\ Openable /\ dev \in Adb
        /\ IF dev \in claimed THEN UNCHANGED faults ELSE Fault
        /\ opens' = [opens EXCEPT ![dev] = @ + 1]
        /\ refs' = [refs EXCEPT ![dev] = @ + 1]
  /\ Goto(Poll, "device")
  /\ UNCHANGED <<claimed, handleVars, transport, status>>
\* libusb_open, the claim or the serial number fails; nothing stays open.
ProbeFails ==
  /\ at[Poll] = "open"
  /\ \/ ~ Openable /\ UNCHANGED faults
     \/ Openable /\ dev \in Adb \cap claimed /\ UNCHANGED faults
     \/ Openable /\ dev \in Adb /\ Fault
  /\ Goto(Poll, "device")
  /\ UNCHANGED <<usbVars, handleVars, transport, status>>

\* Opened before it is known that no interface matches or that there is no
\* serial number: it stays open.
ProbeOdd ==
  /\ at[Poll] = "open"
  /\ Openable /\ dev \notin Adb
  /\ opens' = [opens EXCEPT ![dev] = @ + 1]
  /\ refs' = [refs EXCEPT ![dev] = @ + 1]
  /\ Goto(Poll, "device")
  /\ UNCHANGED <<faults, claimed, handleVars, transport, status>>

\* Opened, claimed, its serial number read: register_device allocates a handle.
ProbeAdb ==
  /\ at[Poll] = "open"
  /\ Openable /\ dev \in Adb \ claimed /\ used < N
  /\ opens' = [opens EXCEPT ![dev] = @ + 1]
  /\ refs' = [refs EXCEPT ![dev] = @ + 1]
  /\ claimed' = claimed \cup {dev}
  /\ used' = used + 1
  /\ live' = live \cup {used'}
  /\ addr' = [addr EXCEPT ![used'] = dev]
  /\ Goto(Poll, "link")
  /\ UNCHANGED <<faults, next, prev, transport, status>>

\* The new handle is put at the end of the list, link by link.
Link ==
  /\ \/ /\ at[Poll] = "link"
        /\ next' = [next EXCEPT ![used] = handle_list]
        /\ prev' = [prev EXCEPT ![used] = prev[handle_list]]
        /\ Goto(Poll, "link next")
        /\ UNCHANGED status
     \/ /\ at[Poll] = "link next"
        /\ IF Valid(prev[used])
           THEN /\ next' = [next EXCEPT ![prev[used]] = used]
                /\ Goto(Poll, "link prev")
                /\ UNCHANGED status
           ELSE Undefined /\ UNCHANGED <<next, at>>
        /\ UNCHANGED prev
     \/ /\ at[Poll] = "link prev"
        /\ prev' = [prev EXCEPT ![handle_list] = used]
        /\ Goto(Poll, "register")
        /\ UNCHANGED <<next, status>>
  /\ UNCHANGED <<faults, usbVars, live, used, addr, transport>>

\* The transport is published without transport_lock, its output thread runs.
register_usb_transport ==
  /\ at[Poll] = "register"
  /\ transport' = used
  /\ at' = [at EXCEPT ![Poll] = "ref", ![used] = "read"]
  /\ UNCHANGED <<faults, usbVars, handleVars, status>>

\* libusb_ref_device, after the output thread was started.
RefDevice ==
  /\ at[Poll] = "ref"
  /\ IF refs[dev] > 0
     THEN /\ refs' = [refs EXCEPT ![dev] = @ + 1]
          /\ Goto(Poll, "device")
          /\ UNCHANGED status
     ELSE Undefined /\ UNCHANGED <<refs, at>>
  /\ UNCHANGED <<faults, opens, claimed, handleVars, transport>>

Probe ==
  /\ \/ ProbeFails \/ ProbeOdd \/ ProbeAdb
     \/ Link \/ register_usb_transport \/ RefDevice
  /\ UNCHANGED <<pollVars, main, watch>>

PollStep ==
  /\ Running
  /\ kick_disconnected \/ Scan \/ Probe
  /\ UNCHANGED <<bus, plugs, current_state, device_found, stdin, arg, connected>>

-----------------------------------------------------------------------------
(* send_packet by watch, main and stdin, to the global transport *)

\* The transport is read when the call is made; NULL is a fatal error.
PassTransport(s) ==
  /\ arg' = [arg EXCEPT ![s] = transport]
  /\ status' = IF transport = NULL THEN "ended" ELSE status

\* write_to_remote: what it returns is not looked at.
WriteRemote(s) ==
  /\ UNCHANGED status \/ (Undefined /\ arg[s] \notin live)
  /\ arg' = IF s = "main" THEN arg ELSE [arg EXCEPT ![s] = NULL]

\* A transport is there: send_connect, two seconds, device_found.
DeviceConnected ==
  \/ /\ watch = "test" /\ transport # NULL /\ ~ current_state
     /\ watch' = "connect"
     /\ UNCHANGED <<current_state, device_found, arg, connected, status>>
  \/ /\ watch = "connect"
     /\ PassTransport("watch")
     /\ watch' = "write"
     /\ UNCHANGED <<current_state, device_found, connected>>
  \/ /\ watch = "write"
     /\ WriteRemote("watch")
     /\ LET h == arg["watch"]
        IN connected' = IF h \in live /\ addr[h] \in bus
                        THEN connected \cup {h} ELSE connected
     /\ watch' = "settle"
     /\ UNCHANGED <<current_state, device_found>>
  \/ /\ watch = "settle"
     /\ device_found' = TRUE /\ current_state' = TRUE
     /\ watch' = "test"
     /\ UNCHANGED <<arg, connected, status>>

(* device_found is set again, not reset (broken variant).                  *)
DeviceDisconnected_Kept ==
  /\ watch = "test" /\ transport = NULL /\ current_state
  /\ current_state' = FALSE
  /\ UNCHANGED <<watch, device_found, arg, connected, status>>
\* The transport is gone.
DeviceDisconnected ==
  /\ watch = "test" /\ transport = NULL /\ current_state
  /\ device_found' = FALSE /\ current_state' = FALSE
  /\ UNCHANGED <<watch, arg, connected, status>>

WatchStep ==
  /\ Running
  /\ DeviceConnected \/ DeviceDisconnected
  /\ UNCHANGED <<worldVars, usbVars, handleVars, transport, at, pollVars, main,
                 stdin>>

\* The device closes the stream: only the transport OPEN was written to can
\* bring that CLOSE.
StreamCloses ==
  /\ main = "dump"
  /\ at[arg["main"]] = "read" /\ addr[arg["main"]] \in bus
  /\ main' = "close"
  /\ UNCHANGED <<stdin, arg, status>>

\* main goes on when the device is found, or gives up after ten seconds.
init_and_wait_device ==
  /\ main = "wait"
  /\ IF device_found THEN main' = "open" /\ UNCHANGED status
     ELSE status' = "ended" /\ UNCHANGED main
  /\ UNCHANGED <<stdin, arg>>

\* send_open and send_close, the last thing main does.
SendPacket ==
  \/ /\ main \in {"open", "close"}
     /\ PassTransport("main")
     /\ main' = IF main = "open" THEN "write open" ELSE "write close"
     /\ UNCHANGED stdin
  \/ /\ main = "write open"
     /\ WriteRemote("main")
     /\ main' = "dump" /\ stdin' = "read"
  \/ /\ main = "write close"
     /\ status' = "ended" \/ (Undefined /\ arg["main"] \notin live)
     /\ UNCHANGED <<main, stdin, arg>>

MainStep ==
  /\ Running
  /\ init_and_wait_device \/ SendPacket \/ StreamCloses
  /\ UNCHANGED <<worldVars, usbVars, handleVars, transport, at, pollVars,
                 watchVars, connected>>

\* write_to_device, whenever something is typed.
StdinStep ==
  /\ Running
  /\ \/ /\ stdin = "read"
        /\ PassTransport("stdin")
        /\ stdin' = "write"
     \/ /\ stdin = "write"
        /\ WriteRemote("stdin")
        /\ stdin' = "read"
  /\ UNCHANGED <<worldVars, usbVars, handleVars, transport, at, pollVars,
                 watchVars, main, connected>>

-----------------------------------------------------------------------------
Next ==
  \/ World \/ PollStep \/ WatchStep \/ MainStep \/ StdinStep
  \/ \E h \in Handles : OutputStep(h)

\* Threads keep running and a read of an unplugged device fails in the end;
\* nobody need plug, type or break anything.
Fairness ==
  /\ WF_vars(PollStep) /\ WF_vars(WatchStep) /\ WF_vars(MainStep)
  /\ \A h \in Handles : WF_vars(OutputStep(h) /\ UNCHANGED faults)

Spec == Init /\ [][Next]_vars /\ Fairness
-----------------------------------------------------------------------------
\* Every variable has its C type and every thread is at a place of its code.
TypeOK ==
  /\ bus \subseteq 1 .. plugs /\ plugs \in 0 .. MaxPlugs
  /\ faults \in 0 .. MaxFaults
  /\ opens \in [Devices -> 0 .. MaxOpen] /\ refs \in [Devices -> Nat]
  /\ claimed \subseteq Devices
  /\ used \in 0 .. N /\ live \subseteq 1 .. used
  /\ addr \in [Handles -> 0 .. MaxPlugs]
  /\ next \in [0 .. N -> NULL .. N] /\ prev \in [0 .. N -> NULL .. N]
  /\ transport \in Handles \cup {NULL}
  /\ at \in [0 .. N -> {"off", "read", "unregister", "reset", "unlink next",
                        "unlink prev", "free", "done", "sleep", "check",
                        "next", "list", "device", "find", "open", "link",
                        "link next", "link prev", "register", "ref"}]
  /\ usb \in NULL .. N /\ listed \subseteq Devices /\ devs \subseteq Devices
  /\ dev \in 0 .. MaxPlugs
  /\ watch \in {"off", "test", "connect", "write", "settle"}
  /\ current_state \in BOOLEAN /\ device_found \in BOOLEAN
  /\ main \in {"init", "wait", "open", "write open", "dump", "close",
               "write close"}
  /\ stdin \in {"off", "read", "write"}
  /\ arg \in [{"watch", "main", "stdin"} -> Handles \cup {NULL}]
  /\ connected \subseteq Handles
  /\ status \in {"running", "ended", "undefined"}

\* unregister_usb_transport comes before free: the global transport never names
\* a handle that was freed, whichever threads kick and register.
TransportLive == Running => transport \in live \cup {NULL}

\* Kicking gives back what check_device took: an adb device is open and its
\* interface claimed exactly while one handle owns it.
HandlesOwnDevices ==
  Running => \A d \in Adb :
    /\ opens[d] = Cardinality({h \in live : addr[h] = d})
    /\ d \in claimed <=> \E h \in live : addr[h] = d

\* poll still has to call libusb_ref_device for the handle it is registering.
Registering == {"link", "link next", "link prev", "register", "ref"}

\* Two references are held for each open device, one by libusb_open and one by
\* register_device's caller, and one by the device list: none is ever lost.
RefsBalanced ==
  Running => \A d \in Adb :
    refs[d] + (IF dev = d /\ at[Poll] \in Registering THEN 1 ELSE 0)
      = 2 * opens[d] + (IF d \in listed THEN 1 ELSE 0)

\* What libusb holds for the program and what the handles account for agree,
\* through every failure of a probe and every kick.
HandlesOK == TypeOK /\ HandlesOwnDevices /\ RefsBalanced

\* A device that stays plugged in is registered sooner or later, after a bad
\* packet had it kicked too, unless odd devices have used up what can be open.
Reconnects ==
  \A d \in Adb :
    (d \in bus) ~> \/ \E h \in live : addr[h] = d /\ at[h] = "read"
                   \/ d \notin bus \/ TotalOpen = MaxOpen
                   \/ ~ Running

\* device_found does not outlive the transport.
LossReported ==
  (main # "init" /\ transport = NULL)
  ~> (~ device_found \/ transport # NULL \/ ~ Running)

-----------------------------------------------------------------------------
(* What the docs say of disconnections, and this program does not keep to: *)
(* adb "must handle unexpected transport disconnections (e.g. when a       *)
(* device is physically unplugged) properly" (OVERVIEW.TXT:138).           *)

\* The poll thread's walks stay on handles that were not freed under them.
WalkSafe ==
  (Running /\ at[Poll] \in {"check", "next", "find"}) => Valid(usb)

\* While a registered device is plugged in and read, there is a transport.
TransportKept ==
  Running => \A h \in live :
    at[h] = "read" /\ addr[h] \in bus => transport # NULL

\* "Both sides send a CONNECT message when the connection between them is
\* established" (protocol.txt:65).
ConnectSent ==
  \A h \in Handles :
    (transport = h) ~> (h \in connected \/ transport # h \/ ~ Running)
=============================================================================
