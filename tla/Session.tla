------------------------------- MODULE Session -------------------------------
(***************************************************************************)
(* One zadb session: the threads that share id, remote_id and the received *)
(* list (send.c, commandline.c, transport_z.c, zadb.c) and the adbd daemon *)
(* at the other end of the USB cable, which behaves as protocol.txt says.  *)
(*                                                                         *)
(*   main    waits for the device, opens the stream, then dumps what       *)
(*           arrives (or, in keyboard mode, sends the queued keys)         *)
(*   stdin   sends what the user types; started by main                    *)
(*   output  reads and handles the device's packets                        *)
(*   watch   sends CONNECT, later tells main that a device was found       *)
(*                                                                         *)
(* remote_write hands the header and the payload of a packet to usb_write  *)
(* one after the other and without a lock: each is a step, and `toDevice`  *)
(* is the order in which those transfers complete.  Shared variables       *)
(* written one after the other are written in steps of their own.          *)
(* send_ready and send_close read id and remote_id in one step: the device *)
(* only looks at the second.  The payload of the device's n-th WRITE is n, *)
(* or 0 when it is empty; every payload of the host is 1.  Unplugging the  *)
(* device is not part of this module.                                      *)
(***************************************************************************)
EXTENDS Integers, Sequences

CONSTANTS
  Mode,       \* "command" (shell CMD, logcat), "interactive" or "keyboard"
  DevIds,     \* the stream ids the device may choose
  MaxData,    \* bound: number of WRITEs the device sends
  MaxWrites   \* bound: number of times the host calls send_write

ASSUME SessionAssumption ==
  /\ Mode \in {"command", "interactive", "keyboard"}
  /\ DevIds \subseteq Nat \ {0}
  /\ MaxData \in Nat
  /\ MaxWrites \in Nat

VARIABLES
  main, stdin, output, watch,   \* where each thread is
  device_found,
  seed, id, remote_id,
  received,      \* the list of stored packets
  packet,        \* the packet handle_packet works on
  typed,         \* number of calls of send_write
  printed,       \* what read_and_dump has printed
  toDevice,      \* completed transfers the device has not read
  toHost,        \* packets the output thread has not read
  adbd,          \* the daemon
  produced       \* the non-empty payloads the daemon has sent

threadVars == <<main, stdin, output, watch>>
streamVars == <<seed, id, remote_id>>
devVars == <<toHost, adbd, produced>>
vars == <<threadVars, device_found, streamVars, received, packet, typed,
          printed, toDevice, devVars>>

-----------------------------------------------------------------------------
Commands == {"CNXN", "OPEN", "OKAY", "CLSE", "WRTE"}

Packet(cmd, arg0, arg1, data) ==
  [cmd |-> cmd, arg0 |-> arg0, arg1 |-> arg1, data |-> data]

Packets == [cmd : Commands, arg0 : Int, arg1 : Int, data : Nat]
Transfers == [part : {"header", "payload"}, packet : Packets]

\* A packet with data_length > 0.
HasPayload(p) == p.data # 0

Nothing == Packet("CNXN", 0, 0, 0)     \* no packet in hand
Connect == Packet("CNXN", 0, 0, 1)
Open    == Packet("OPEN", seed, 0, 1)

\* One usb_write of remote_write completes.
usb_write(part, p) ==
  toDevice' = Append(toDevice, [part |-> part, packet |-> p])

Running == main # "exit"

-----------------------------------------------------------------------------
Init ==
  /\ main = "wait" /\ stdin = "off" /\ output = "read" /\ watch = "connect"
  /\ device_found = FALSE
  /\ seed = 0 /\ id = -1 /\ remote_id = -1
  /\ received = <<>>
  /\ packet = Nothing
  /\ typed = 0
  /\ printed = <<>>
  /\ toDevice = <<>>
  /\ toHost = <<>>
  /\ adbd = [phase |-> "offline", half |-> Nothing, lid |-> 0, peer |-> 0,
             credit |-> FALSE, writes |-> 0]
  /\ produced = <<>>

-----------------------------------------------------------------------------
(* device_watch_thread *)

\* send_connect's header and payload.
SendConnect ==
  \/ /\ watch = "connect"
     /\ usb_write("header", Connect)
     /\ watch' = "payload"
     /\ UNCHANGED device_found
  \/ /\ watch = "payload"
     /\ usb_write("payload", Connect)
     /\ watch' = "settle"
     /\ UNCHANGED device_found

(* device_found set while CONNECT is still being written (broken variant).  *)
DeviceFound_Early ==
  /\ watch \in {"payload", "settle"}
  /\ device_found' = TRUE
  /\ watch' = IF watch = "settle" THEN "done" ELSE watch
  /\ UNCHANGED toDevice
\* The sleeps end: main may go on, whether or not the device has answered.
DeviceFound ==
  /\ watch = "settle"
  /\ device_found' = TRUE
  /\ watch' = "done"
  /\ UNCHANGED toDevice

WatchStep ==
  /\ Running
  /\ SendConnect \/ DeviceFound
  /\ UNCHANGED <<main, stdin, output, streamVars, received, packet, typed,
                 printed, devVars>>

-----------------------------------------------------------------------------
(* main thread: init_and_wait_device, send_open, read_and_dump, send_close *)

\* One second has passed and the device is there, or the tenth has passed.
Wait ==
  /\ main = "wait"
  /\ main' = IF device_found THEN "open" ELSE "expired"
  /\ UNCHANGED <<stdin, streamVars, received, printed, toDevice, typed>>

\* After printing MESSAGE_DEVICE_NOT_FOUND, device_found is read again and
\* returned.
Expire ==
  /\ main = "expired"
  /\ main' = IF device_found THEN "open" ELSE "exit"
  /\ UNCHANGED <<stdin, streamVars, received, printed, toDevice, typed>>

send_open ==
  /\ \/ /\ main = "open"
        /\ main' = "payload"
        /\ seed' = seed + 1
        /\ usb_write("header", Packet("OPEN", seed', 0, 1))
        /\ UNCHANGED <<stdin, id, remote_id>>
     \/ /\ main = "payload"
        /\ main' = "reset id"
        /\ usb_write("payload", Open)
        /\ UNCHANGED <<stdin, streamVars>>
     \/ /\ main = "reset id"
        /\ main' = "reset remote_id"
        /\ id' = -1
        /\ UNCHANGED <<stdin, seed, remote_id, toDevice>>
     \/ /\ main = "reset remote_id"
        /\ main' = IF Mode = "keyboard" THEN "keys" ELSE "dump"
        /\ stdin' = IF Mode = "command" THEN "off" ELSE "read"
        /\ remote_id' = -1
        /\ UNCHANGED <<seed, id, toDevice>>
  /\ UNCHANGED <<received, printed, typed>>

\* The oldest stored packet, under packet_lock.
shift_received_packet ==
  received # <<>> /\ received' = Tail(received)

(* read_and_dump that leaves on any packet but a WRITE (broken variant).   *)
read_and_dump_Leave ==
  /\ main = "dump"
  /\ shift_received_packet
  /\ IF Head(received).cmd = "WRTE"
     THEN printed' = Append(printed, Head(received).data) /\ UNCHANGED main
     ELSE /\ main' = IF Mode = "command" THEN "close" ELSE "exit"
          /\ UNCHANGED printed
  /\ UNCHANGED <<stdin, streamVars, toDevice, typed>>
\* The switch of read_and_dump: print a WRITE, leave on a CLOSE, go on after a
\* READY.
read_and_dump ==
  /\ main = "dump"
  /\ shift_received_packet
  /\ CASE Head(received).cmd = "WRTE" ->
            printed' = Append(printed, Head(received).data) /\ UNCHANGED main
       [] Head(received).cmd = "CLSE" ->
            /\ main' = IF Mode = "command" THEN "close" ELSE "exit"
            /\ UNCHANGED printed
       [] OTHER -> UNCHANGED <<main, printed>>
  /\ UNCHANGED <<stdin, streamVars, toDevice, typed>>

(* The `for (;;)` around the command goes round again (broken variant).     *)
send_close_Retry ==
  /\ main = "close"
  /\ main' = "open"
  /\ usb_write("header", Packet("CLSE", id, remote_id, 0))
  /\ UNCHANGED <<stdin, streamVars, received, printed, typed>>
\* send_shellcommand answers the CLOSE with one of its own and returns.
send_close ==
  /\ main = "close"
  /\ main' = "exit"
  /\ usb_write("header", Packet("CLSE", id, remote_id, 0))
  /\ UNCHANGED <<stdin, streamVars, received, printed, typed>>

\* send_write's first half: nothing at all while remote_id is -1.
WriteHeader ==
  /\ typed < MaxWrites
  /\ typed' = typed + 1
  /\ IF remote_id = -1 THEN UNCHANGED toDevice
     ELSE usb_write("header", Packet("WRTE", 0, remote_id, 1))

WritePayload ==
  /\ usb_write("payload", Packet("WRTE", 0, remote_id, 1))
  /\ UNCHANGED typed

\* The keyboard loop: send_command writes one key (see KeyQueue).
send_command ==
  /\ \/ /\ main = "keys"
        /\ WriteHeader
        /\ main' = IF remote_id = -1 THEN "keys" ELSE "keys payload"
     \/ /\ main = "keys payload"
        /\ WritePayload
        /\ main' = "keys"
  /\ UNCHANGED <<stdin, streamVars, received, printed>>

MainStep ==
  /\ Wait \/ Expire \/ send_open \/ read_and_dump \/ send_close \/ send_command
  /\ UNCHANGED <<output, watch, device_found, packet, devVars>>

-----------------------------------------------------------------------------
(* stdin_read_thread *)

\* write_to_device, or in keyboard mode add_keylist, which sends nothing.
TypeText ==
  /\ Mode = "interactive"
  /\ stdin = "read"
  /\ WriteHeader
  /\ stdin' = IF remote_id = -1 THEN "read" ELSE "payload"
  /\ UNCHANGED main

TypeTextPayload ==
  /\ stdin = "payload"
  /\ WritePayload
  /\ stdin' = "read"
  /\ UNCHANGED main

\* Control-D: send_close, and the thread ends.
TypeControlD ==
  /\ stdin = "read"
  /\ usb_write("header", Packet("CLSE", id, remote_id, 0))
  /\ stdin' = "off"
  /\ UNCHANGED <<main, typed>>

\* "~." after a newline: exit(0).
TypeEscape ==
  /\ stdin = "read"
  /\ main' = "exit"
  /\ UNCHANGED <<stdin, toDevice, typed>>

\* End of file: the thread ends.
TypeEOF ==
  /\ stdin = "read"
  /\ stdin' = "off"
  /\ UNCHANGED <<main, toDevice, typed>>

StdinStep ==
  /\ Running
  /\ TypeText \/ TypeTextPayload \/ TypeControlD \/ TypeEscape \/ TypeEOF
  /\ UNCHANGED <<output, watch, device_found, streamVars, received, packet,
                 printed, devVars>>

-----------------------------------------------------------------------------
(* output_thread *)

remote_read ==
  /\ output = "read"
  /\ toHost # <<>>
  /\ packet' = Head(toHost)
  /\ toHost' = Tail(toHost)
  /\ output' = "handle"
  /\ UNCHANGED <<id, remote_id, received, toDevice>>

(* A packet linked in front of the list (broken variant).                  *)
store_received_packet_Front == received' = <<packet>> \o received
store_received_packet == received' = Append(received, packet)

FirstOkay == packet.cmd = "OKAY" /\ id = -1 /\ packet.arg1 = seed

(* The first READY is answered with a READY; id is taken from the wrong    *)
(* argument (broken variants).                                             *)
HandleFirstOkay_Answered ==
  \/ /\ output = "handle"
     /\ FirstOkay
     /\ id' = seed
     /\ output' = "remote_id"
     /\ UNCHANGED <<remote_id, received>>
  \/ /\ output = "remote_id"
     /\ remote_id' = packet.arg0
     /\ output' = "clear"
     /\ UNCHANGED <<id, received>>
  \/ /\ output = "clear"
     /\ received' = <<>>
     /\ output' = "store"
     /\ UNCHANGED <<id, remote_id>>
  \/ /\ output = "store"
     /\ store_received_packet
     /\ output' = "ready"
     /\ UNCHANGED <<id, remote_id>>
HandleFirstOkay_Swapped ==
  \/ /\ output = "handle"
     /\ FirstOkay
     /\ id' = packet.arg0
     /\ output' = "remote_id"
     /\ UNCHANGED <<remote_id, received>>
  \/ /\ output = "remote_id"
     /\ remote_id' = packet.arg1
     /\ output' = "clear"
     /\ UNCHANGED <<id, received>>
  \/ /\ output = "clear"
     /\ received' = <<>>
     /\ output' = "store"
     /\ UNCHANGED <<id, remote_id>>
  \/ /\ output = "store"
     /\ store_received_packet
     /\ output' = "read"
     /\ UNCHANGED <<id, remote_id>>
\* The first READY sets id, then remote_id, then replaces the received list.
HandleFirstOkay ==
  \/ /\ output = "handle"
     /\ FirstOkay
     /\ id' = seed
     /\ output' = "remote_id"
     /\ UNCHANGED <<remote_id, received>>
  \/ /\ output = "remote_id"
     /\ remote_id' = packet.arg0
     /\ output' = "clear"
     /\ UNCHANGED <<id, received>>
  \/ /\ output = "clear"
     /\ received' = <<>>
     /\ output' = "store"
     /\ UNCHANGED <<id, remote_id>>
  \/ /\ output = "store"
     /\ store_received_packet
     /\ output' = "read"
     /\ UNCHANGED <<id, remote_id>>

\* Any other READY: stored if its ids match, the local one first.
HandleOkay ==
  /\ output = "handle"
  /\ packet.cmd = "OKAY" /\ ~ FirstOkay
  /\ IF id = packet.arg0 /\ remote_id = packet.arg1
     THEN store_received_packet ELSE UNCHANGED received
  /\ output' = "read"
  /\ UNCHANGED <<id, remote_id>>

(* The two ids of a CLOSE compared the wrong way round (broken variant).   *)
HandleClose_Swapped ==
  /\ output = "handle"
  /\ packet.cmd = "CLSE"
  /\ IF packet.arg0 \in {id, 0} /\ packet.arg1 = remote_id
     THEN store_received_packet ELSE UNCHANGED received
  /\ output' = "read"
  /\ UNCHANGED <<id, remote_id>>
HandleClose ==
  /\ output = "handle"
  /\ packet.cmd = "CLSE"
  /\ IF packet.arg0 \in {remote_id, 0} /\ packet.arg1 = id
     THEN store_received_packet ELSE UNCHANGED received
  /\ output' = "read"
  /\ UNCHANGED <<id, remote_id>>

(* A WRITE acknowledged but stored only when it is empty; a WRITE stored   *)
(* and never acknowledged (broken variants).                               *)
HandleWrite_Unstored ==
  /\ output = "handle"
  /\ packet.cmd = "WRTE"
  /\ IF packet.arg0 = remote_id
     THEN /\ IF HasPayload(packet) THEN UNCHANGED received
             ELSE store_received_packet
          /\ output' = "ready"
     ELSE UNCHANGED received /\ output' = "read"
  /\ UNCHANGED <<id, remote_id>>
HandleWrite_Silent ==
  /\ output = "handle"
  /\ packet.cmd = "WRTE"
  /\ IF packet.arg0 = remote_id /\ HasPayload(packet)
     THEN store_received_packet ELSE UNCHANGED received
  /\ output' = "read"
  /\ UNCHANGED <<id, remote_id>>
\* A WRITE of the stream: store it unless it is empty, then send_ready.
HandleWrite ==
  /\ output = "handle"
  /\ packet.cmd = "WRTE"
  /\ IF packet.arg0 = remote_id
     THEN /\ IF HasPayload(packet) THEN store_received_packet
             ELSE UNCHANGED received
          /\ output' = "ready"
     ELSE UNCHANGED received /\ output' = "read"
  /\ UNCHANGED <<id, remote_id>>

\* The banner of the device is not looked at.
HandleConnect ==
  /\ output = "handle"
  /\ packet.cmd = "CNXN"
  /\ output' = "read"
  /\ UNCHANGED <<id, remote_id, received>>

handle_packet ==
  /\ HandleFirstOkay \/ HandleOkay \/ HandleClose \/ HandleWrite \/ HandleConnect
  /\ UNCHANGED <<packet, toHost, toDevice>>

send_ready ==
  /\ output = "ready"
  /\ usb_write("header", Packet("OKAY", id, remote_id, 0))
  /\ output' = "read"
  /\ UNCHANGED <<id, remote_id, received, packet, toHost>>

OutputStep ==
  /\ Running
  /\ remote_read \/ handle_packet \/ send_ready
  /\ UNCHANGED <<main, stdin, watch, device_found, seed, typed, printed,
                 adbd, produced>>

-----------------------------------------------------------------------------
(* adbd, from protocol.txt; a stream id of 0 is no stream.                 *)

usb_send(p) == toHost' = Append(toHost, p)

Online == adbd.phase \in {"online", "open", "closed"}

\* What adbd does with the complete packet p.
Receive(p) ==
  \/ /\ p.cmd = "CNXN"
     /\ usb_send(Connect)
     /\ adbd' = [adbd EXCEPT !.half = Nothing,
                             !.phase = IF Online THEN @ ELSE "online"]
  \/ /\ p.cmd = "OPEN" /\ Online
     /\ \/ \E lid \in DevIds :
             /\ usb_send(Packet("OKAY", lid, p.arg0, 0))
             /\ adbd' = [adbd EXCEPT !.half = Nothing, !.phase = "open",
                           !.lid = lid, !.peer = p.arg0, !.credit = TRUE]
        \/ /\ usb_send(Packet("CLSE", 0, p.arg0, 0))
           /\ adbd' = [adbd EXCEPT !.half = Nothing, !.phase = "closed"]
  \/ /\ adbd.phase = "open" /\ p.arg1 = adbd.lid
     /\ \/ /\ p.cmd = "OKAY"
           /\ adbd' = [adbd EXCEPT !.half = Nothing, !.credit = TRUE]
           /\ UNCHANGED toHost
        \/ /\ p.cmd = "WRTE"
           /\ usb_send(Packet("OKAY", adbd.lid, adbd.peer, 0))
           /\ adbd' = [adbd EXCEPT !.half = Nothing]
        \/ /\ p.cmd = "CLSE"
           /\ adbd' = [adbd EXCEPT !.half = Nothing, !.phase = "closed"]
           /\ UNCHANGED toHost
  \/ /\ p.cmd \in {"OKAY", "WRTE", "CLSE"}
     /\ adbd.phase # "open" \/ p.arg1 # adbd.lid
     /\ adbd' = [adbd EXCEPT !.half = Nothing]
     /\ UNCHANGED toHost
  \/ /\ p.cmd = "OPEN" /\ ~ Online
     /\ adbd' = [adbd EXCEPT !.half = Nothing]
     /\ UNCHANGED toHost

\* adbd reads one transfer: a header that announces a payload must be
\* followed by that payload, anything else ends the conversation.
DeviceReads ==
  /\ adbd.phase # "desync"
  /\ toDevice # <<>>
  /\ toDevice' = Tail(toDevice)
  /\ LET part == Head(toDevice).part
         p == Head(toDevice).packet
     IN \/ /\ part = "header" /\ adbd.half = Nothing /\ ~ HasPayload(p)
           /\ Receive(p)
        \/ /\ part = "header" /\ adbd.half = Nothing /\ HasPayload(p)
           /\ adbd' = [adbd EXCEPT !.half = p]
           /\ UNCHANGED toHost
        \/ /\ part = "payload" /\ adbd.half # Nothing
           /\ Receive(adbd.half)
        \/ /\ (part = "header") # (adbd.half = Nothing)
           /\ adbd' = [adbd EXCEPT !.phase = "desync"]
           /\ UNCHANGED toHost
  /\ UNCHANGED produced

\* The service writes; WRITEs are numbered, and one may be empty.
DeviceWrites ==
  /\ adbd.phase = "open" /\ adbd.credit
  /\ adbd.writes < MaxData
  /\ \E data \in {0, adbd.writes + 1} :
       /\ usb_send(Packet("WRTE", adbd.lid, adbd.peer, data))
       /\ produced' = IF data = 0 THEN produced ELSE Append(produced, data)
  /\ adbd' = [adbd EXCEPT !.credit = FALSE, !.writes = @ + 1]
  /\ UNCHANGED toDevice

\* The service ends.
DeviceCloses ==
  /\ adbd.phase = "open"
  /\ usb_send(Packet("CLSE", adbd.lid, adbd.peer, 0))
  /\ adbd' = [adbd EXCEPT !.phase = "closed"]
  /\ UNCHANGED <<toDevice, produced>>

DeviceStep ==
  /\ DeviceReads \/ DeviceWrites \/ DeviceCloses
  /\ UNCHANGED <<threadVars, device_found, streamVars, received, packet,
                 typed, printed>>

-----------------------------------------------------------------------------
Next == WatchStep \/ MainStep \/ StdinStep \/ OutputStep \/ DeviceStep

\* Every thread keeps being scheduled and adbd keeps reading; the user and
\* the device's service need not do anything.
Fairness ==
  /\ WF_vars(WatchStep) /\ WF_vars(MainStep) /\ WF_vars(OutputStep)
  /\ WF_vars(StdinStep /\ TypeTextPayload)
  /\ WF_vars(DeviceStep /\ DeviceReads)

Spec == Init /\ [][Next]_vars /\ Fairness
-----------------------------------------------------------------------------
\* Every variable has its C type, every thread is at a place of its own code.
TypeOK ==
  /\ main \in {"wait", "expired", "open", "payload", "reset id",
               "reset remote_id", "dump", "close", "keys", "keys payload",
               "exit"}
  /\ stdin \in {"off", "read", "payload"}
  /\ output \in {"read", "handle", "remote_id", "clear", "store", "ready"}
  /\ watch \in {"connect", "payload", "settle", "done"}
  /\ device_found \in BOOLEAN
  /\ seed \in 0 .. 1 /\ id \in Int /\ remote_id \in Int
  /\ received \in Seq(Packets) /\ packet \in Packets
  /\ typed \in 0 .. MaxWrites
  /\ printed \in Seq(Nat) /\ produced \in Seq(Nat)
  /\ toDevice \in Seq(Transfers) /\ toHost \in Seq(Packets)
  /\ adbd \in [phase : {"offline", "online", "open", "closed", "desync"},
               half : Packets, lid : Nat, peer : Int, credit : BOOLEAN,
               writes : 0 .. MaxData]

\* remote_write's two transfers per packet are never torn apart by another
\* thread's, so adbd always finds the payload a header announces.
MessagesWhole == adbd.phase # "desync"

\* The stream the device opened is the one id and remote_id name.
Established ==
  /\ adbd.lid # 0
  /\ id = adbd.peer
  /\ remote_id = adbd.lid

In(d, packets) == \E i \in DOMAIN packets : packets[i] = d

WriteOf(n) == Packet("WRTE", adbd.lid, adbd.peer, n)

Readies ==
  { i \in DOMAIN toDevice :
      toDevice[i].packet.cmd = "OKAY" /\ toDevice[i].packet.arg1 = adbd.lid }

\* A READY for the last WRITE is on its way or has been received.
Acknowledged == adbd.credit \/ Readies # {}

\* What the device was told has arrived is stored or printed: only the last
\* WRITE, while unacknowledged, may still be on its way or dropped.
AckedDataKept ==
  \A i \in DOMAIN produced :
    i < Len(produced) \/ Acknowledged =>
      In(produced[i], printed) \/ In(WriteOf(produced[i]), received)

\* Whatever is lost, what is printed is in the order the device sent it and
\* nothing is printed twice.
PrintedInOrder ==
  \A i, j \in DOMAIN printed : i < j => printed[i] < printed[j]

\* Each READY the host sends answers a WRITE of its own: the device never
\* gets one it is not waiting for.
OneReadyPerWrite ==
  \A i \in Readies : ~ adbd.credit /\ output # "ready" /\ Readies = {i}

\* The program's two ids never mix: id is -1 or its own seed, remote_id is -1
\* or an id the device chose.
IdsOK == id \in {-1, seed} /\ remote_id \in DevIds \cup {-1}

\* Every WRITE of the host is addressed to the stream the device opened.
WritesAddressed ==
  \A i \in DOMAIN toDevice :
    toDevice[i].packet.cmd = "WRTE" => toDevice[i].packet.arg1 = adbd.lid

\* Both, whatever the user types while packets of this stream and late ones of
\* a refused one come in.
StreamOK == IdsOK /\ WritesAddressed

\* Once the stream stands and send_open is over, the device's CLOSE ends the
\* program, whatever is still stored in front of it.
CloseEndsSession ==
  (/\ main = "dump" /\ Established
   /\ In(Packet("CLSE", adbd.lid, adbd.peer, 0), toHost)) ~> ~ Running

\* While the stream stands, each WRITE of the device is answered sooner or
\* later, so its service is never blocked for good (in keyboard mode too,
\* where nobody reads the received list).
OutputFlows ==
  (/\ main \in {"dump", "keys"} /\ Established
   /\ adbd.phase = "open" /\ ~ adbd.credit)
  ~> (adbd.credit \/ adbd.phase # "open" \/ ~ Running)

-----------------------------------------------------------------------------
(* What protocol.txt says of a peer, and this program does not keep to.    *)

\* READY "is used to establish the connection" (protocol.txt:112): a stream
\* that stands keeps standing.
EstablishedSticks == [][Established => Established']_<<id, remote_id>>

\* "The OPEN message MUST result in either a READY message ... or a CLOSE
\* message, indicating failure" (protocol.txt:84): told that the stream was
\* not opened, the program ends.
RefusalEndsSession ==
  In(Packet("CLSE", 0, seed, 0), toHost) ~> ~ Running
=============================================================================
