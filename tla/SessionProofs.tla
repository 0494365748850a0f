---------------------------- MODULE SessionProofs ----------------------------
(***************************************************************************)
(* Proofs about Session for every mode, every set of stream ids and every  *)
(* bound: its types, that packets stay whole when a command is run, whom   *)
(* packets are addressed to, how the device's WRITEs travel, and, when a   *)
(* command is run, that its output is printed as OutputStream promises.    *)
(***************************************************************************)
EXTENDS MCSession, SequenceTheorems, TLAPS

\* Until send_open runs no seed has been taken: the program opens one stream.
SeedFresh == main \in {"wait", "expired", "open"} => seed = 0

TypeInv == TypeOK /\ SeedFresh

\* A packet built from a command and integers is a packet.
LEMMA PacketType ==
  ASSUME NEW cmd \in Commands, NEW arg0 \in Int, NEW arg1 \in Int,
         NEW data \in Nat
  PROVE  Packet(cmd, arg0, arg1, data) \in Packets
BY DEF Packet, Packets

\* So are the two packets the session starts with.
LEMMA ConstantPackets == Nothing \in Packets /\ Connect \in Packets
BY PacketType DEF Nothing, Connect, Commands

\* One transfer queued for the device keeps the OUT pipe typed.
LEMMA usb_write_Type ==
  ASSUME toDevice \in Seq(Transfers), NEW part \in {"header", "payload"},
         NEW p \in Packets, usb_write(part, p)
  PROVE  toDevice' \in Seq(Transfers)
<1>1. [part |-> part, packet |-> p] \in Transfers
  BY DEF Transfers
<1>2. QED
  BY <1>1, AppendProperties DEF usb_write

\* One packet sent by adbd keeps the IN pipe typed.
LEMMA usb_send_Type ==
  ASSUME toHost \in Seq(Packets), NEW p \in Packets, usb_send(p)
  PROVE  toHost' \in Seq(Packets)
BY AppendProperties DEF usb_send

\* The state the process starts in is typed.
LEMMA InitType == Init => TypeInv
<1> SUFFICES ASSUME Init PROVE TypeInv
  OBVIOUS
<1>1. /\ received \in Seq(Packets) /\ printed \in Seq(Nat)
      /\ produced \in Seq(Nat) /\ toHost \in Seq(Packets)
      /\ toDevice \in Seq(Transfers)
  BY EmptySeq DEF Init
<1>2. typed \in 0 .. MaxWrites /\ 0 \in 0 .. MaxData
  BY SessionAssumption DEF Init, SessionAssumption
<1>3. adbd \in [phase : {"offline", "online", "open", "closed", "desync"},
                half : Packets, lid : Nat, peer : Int, credit : BOOLEAN,
                writes : 0 .. MaxData]
  BY <1>2, ConstantPackets DEF Init
<1>4. device_found \in BOOLEAN
  BY DEF Init
<1>5. /\ main = "wait" /\ stdin = "off" /\ output = "read" /\ watch = "connect"
      /\ seed = 0 /\ id = -1 /\ remote_id = -1 /\ packet \in Packets
  BY ConstantPackets DEF Init
<1>6. QED
  BY <1>1, <1>2, <1>3, <1>4, <1>5 DEF TypeInv, TypeOK, SeedFresh

\* The watch thread's steps keep the types.
LEMMA WatchType ==
  ASSUME TypeInv, WatchStep
  PROVE  TypeInv'
<1>1. /\ toDevice' \in Seq(Transfers)
      /\ watch' \in {"connect", "payload", "settle", "done"}
      /\ device_found' \in BOOLEAN
  <2>1. toDevice \in Seq(Transfers) /\ device_found \in BOOLEAN
    BY DEF TypeInv, TypeOK
  <2>2. CASE SendConnect
    BY <2>1, <2>2, ConstantPackets, usb_write_Type DEF SendConnect
  <2>3. CASE DeviceFound
    BY <2>1, <2>3 DEF DeviceFound
  <2>4. QED
    BY <2>2, <2>3 DEF WatchStep
<1>2. UNCHANGED <<main, stdin, output, seed, id, remote_id, received, packet,
                  typed, printed, toHost, adbd, produced>>
  BY DEF WatchStep, streamVars, devVars
<1>3. /\ (/\ main \in {"wait", "expired", "open", "payload", "reset id",
                       "reset remote_id", "dump", "close", "keys",
                       "keys payload", "exit"}
          /\ stdin \in {"off", "read", "payload"}
          /\ output \in {"read", "handle", "remote_id", "clear", "store",
                         "ready"})'
      /\ (seed \in 0 .. 1 /\ typed \in 0 .. MaxWrites)'
  BY <1>2 DEF TypeInv, TypeOK
<1>4. /\ id' \in Int /\ remote_id' \in Int
      /\ received' \in Seq(Packets) /\ packet' \in Packets
      /\ printed' \in Seq(Nat) /\ produced' \in Seq(Nat)
      /\ toHost' \in Seq(Packets)
  BY <1>2 DEF TypeInv, TypeOK
<1>5. adbd' = adbd /\ SeedFresh'
  BY <1>2 DEF TypeInv, SeedFresh
<1>6. TypeOK'
  BY <1>1, <1>3, <1>4, <1>5, Zenon DEF TypeInv, TypeOK
<1>7. QED
  BY <1>5, <1>6 DEF TypeInv

\* send_write's two halves, whichever thread calls it.
LEMMA WriteType ==
  ASSUME TypeInv, WriteHeader \/ WritePayload
  PROVE  toDevice' \in Seq(Transfers) /\ typed' \in 0 .. MaxWrites
<1>1. /\ toDevice \in Seq(Transfers) /\ remote_id \in Int
      /\ typed \in 0 .. MaxWrites
  BY DEF TypeInv, TypeOK
<1>2. Packet("WRTE", 0, remote_id, 1) \in Packets
  BY <1>1, PacketType DEF Commands
<1>3. CASE WriteHeader
  <2>1. typed' \in 0 .. MaxWrites
    BY <1>1, <1>3, SessionAssumption DEF WriteHeader, SessionAssumption
  <2>2. toDevice' \in Seq(Transfers)
    BY <1>1, <1>2, <1>3, usb_write_Type DEF WriteHeader
  <2>3. QED
    BY <2>1, <2>2
<1>4. CASE WritePayload
  BY <1>1, <1>2, <1>4, usb_write_Type DEF WritePayload
<1>5. QED
  BY <1>3, <1>4

Places == {"wait", "expired", "open", "payload", "reset id",
           "reset remote_id", "dump", "close", "keys", "keys payload", "exit"}

\* The main thread's steps keep the types: the only packet it reads is
\* the Head of a received list that is not empty.
LEMMA MainType ==
  ASSUME TypeInv, MainStep
  PROVE  TypeInv'
<1>1. UNCHANGED <<output, watch, device_found, packet, toHost, adbd, produced>>
  BY DEF MainStep, devVars
<1>2. /\ toDevice \in Seq(Transfers) /\ seed \in 0 .. 1 /\ id \in Int
      /\ remote_id \in Int /\ received \in Seq(Packets) /\ printed \in Seq(Nat)
      /\ typed \in 0 .. MaxWrites /\ stdin \in {"off", "read", "payload"}
      /\ main \in Places /\ SeedFresh
  BY DEF TypeInv, TypeOK, Places
<1> DEFINE Goal ==
      /\ main' \in Places /\ stdin' \in {"off", "read", "payload"}
      /\ seed' \in 0 .. 1 /\ id' \in Int /\ remote_id' \in Int
      /\ received' \in Seq(Packets) /\ printed' \in Seq(Nat)
      /\ typed' \in 0 .. MaxWrites /\ toDevice' \in Seq(Transfers)
      /\ SeedFresh'
<1> SUFFICES Goal
  BY <1>1 DEF TypeInv, TypeOK, Places
<1>3. CASE Wait \/ Expire
  BY <1>2, <1>3 DEF Wait, Expire, Places, SeedFresh, streamVars
<1>4. CASE send_open
  <2>1. UNCHANGED <<received, printed, typed>>
    BY <1>4 DEF send_open
  <2>2. CASE main = "open"
    <3>1. /\ seed' = 1 /\ main' = "payload" /\ UNCHANGED <<stdin, id, remote_id>>
          /\ usb_write("header", Packet("OPEN", 1, 0, 1))
      BY <1>2, <1>4, <2>2 DEF send_open, SeedFresh
    <3>2. toDevice' \in Seq(Transfers)
      BY <1>2, <3>1, PacketType, usb_write_Type DEF Commands
    <3>3. SeedFresh' /\ main' \in Places /\ seed' \in 0 .. 1
      BY <3>1 DEF Places, SeedFresh
    <3>4. QED
      BY <1>2, <2>1, <3>1, <3>2, <3>3
  <2>3. CASE main = "payload"
    <3>1. /\ main' = "reset id" /\ UNCHANGED <<stdin, seed, id, remote_id>>
          /\ usb_write("payload", Open)
      BY <1>4, <2>3 DEF send_open, streamVars
    <3>2. toDevice' \in Seq(Transfers)
      <4>1. seed \in Int /\ 1 \in Nat /\ "OPEN" \in Commands
        BY <1>2 DEF Commands
      <4>2. Open \in Packets
        BY <4>1, PacketType DEF Open
      <4>3. QED
        BY <1>2, <3>1, <4>2, usb_write_Type
    <3>3. QED
      BY <1>2, <2>1, <3>1, <3>2 DEF Places, SeedFresh
  <2>4. CASE main \in {"reset id", "reset remote_id"}
    <3>1. /\ main' \in {"reset remote_id", "keys", "dump"}
          /\ stdin' \in {stdin, "off", "read"}
          /\ id' = id \/ id' = -1
          /\ remote_id' = remote_id \/ remote_id' = -1
          /\ UNCHANGED <<seed, toDevice>>
      BY <1>4, <2>4 DEF send_open
    <3>2. SeedFresh' /\ main' \in Places /\ id' \in Int /\ remote_id' \in Int
      <4>1. id' \in Int /\ remote_id' \in Int
        <5>1. -1 \in Int
          OBVIOUS
        <5>2. QED
          BY <1>2, <3>1, <5>1
      <4>2. SeedFresh' /\ main' \in Places
        BY <3>1 DEF Places, SeedFresh
      <4>3. QED
        BY <4>1, <4>2
    <3>3. QED
      BY <1>2, <2>1, <3>1, <3>2
  <2>5. QED
    BY <1>4, <2>2, <2>3, <2>4 DEF send_open
<1>5. CASE read_and_dump
  <2>1. /\ received # <<>> /\ received' = Tail(received)
        /\ UNCHANGED <<stdin, seed, id, remote_id, toDevice, typed>>
        /\ main' \in {main, "close", "exit"}
    BY <1>5 DEF read_and_dump, shift_received_packet, streamVars
  <2>2. received' \in Seq(Packets) /\ Head(received) \in Packets
    BY <1>2, <2>1, HeadTailProperties
  <2>3. printed' = printed \/ printed' = Append(printed, Head(received).data)
    BY <1>5 DEF read_and_dump
  <2>4. Head(received).data \in Nat
    BY <2>2 DEF Packets
  <2>5. printed' \in Seq(Nat)
    <3>1. Append(printed, Head(received).data) \in Seq(Nat)
      BY <1>2, <2>4, AppendProperties
    <3>2. QED
      BY <1>2, <2>3, <3>1
  <2>6. QED
    BY <1>2, <1>5, <2>1, <2>2, <2>5 DEF Places, SeedFresh, read_and_dump
<1>6. CASE send_close
  <2>1. /\ main' = "exit"
        /\ usb_write("header", Packet("CLSE", id, remote_id, 0))
        /\ UNCHANGED <<stdin, seed, id, remote_id, received, printed, typed>>
    BY <1>6 DEF send_close, streamVars
  <2>2. toDevice' \in Seq(Transfers)
    BY <1>2, <2>1, PacketType, usb_write_Type DEF Commands
  <2>3. QED
    BY <1>2, <2>1, <2>2 DEF Places, SeedFresh
<1>7. CASE send_command
  <2>1. /\ main' \in {"keys", "keys payload"}
        /\ UNCHANGED <<stdin, seed, id, remote_id, received, printed>>
        /\ WriteHeader \/ WritePayload
    BY <1>7 DEF send_command, streamVars
  <2>2. QED
    BY <1>2, <2>1, WriteType DEF Places, SeedFresh
<1>8. QED
  BY <1>3, <1>4, <1>5, <1>6, <1>7 DEF MainStep

\* The stdin thread's steps keep the types.
LEMMA StdinType ==
  ASSUME TypeInv, StdinStep
  PROVE  TypeInv'
<1>1. UNCHANGED <<output, watch, device_found, seed, id, remote_id, received,
                  packet, printed, toHost, adbd, produced>>
  BY DEF StdinStep, streamVars, devVars
<1>2. /\ toDevice \in Seq(Transfers) /\ id \in Int /\ remote_id \in Int
      /\ typed \in 0 .. MaxWrites
  BY DEF TypeInv, TypeOK
<1>3. /\ stdin' \in {"off", "read", "payload"} /\ main' \in {main, "exit"}
      /\ typed' \in 0 .. MaxWrites /\ toDevice' \in Seq(Transfers)
  <2>1. CASE TypeText
    BY <2>1, WriteType DEF TypeText
  <2>2. CASE TypeTextPayload
    BY <2>2, WriteType DEF TypeTextPayload
  <2>3. CASE TypeControlD
    <3>1. usb_write("header", Packet("CLSE", id, remote_id, 0))
      BY <2>3 DEF TypeControlD
    <3>2. toDevice' \in Seq(Transfers)
      BY <1>2, <3>1, PacketType, usb_write_Type DEF Commands
    <3>3. QED
      BY <1>2, <2>3, <3>2 DEF TypeControlD
  <2>4. CASE TypeEscape \/ TypeEOF
    BY <1>2, <2>4 DEF TypeEscape, TypeEOF
  <2>5. QED
    BY <2>1, <2>2, <2>3, <2>4 DEF StdinStep
<1>4. main' \in Places /\ SeedFresh'
  BY <1>1, <1>3 DEF TypeInv, TypeOK, SeedFresh, Places
<1>5. QED
  BY <1>1, <1>3, <1>4 DEF TypeInv, TypeOK, Places

Daemons == [phase : {"offline", "online", "open", "closed", "desync"},
            half : Packets, lid : Nat, peer : Int, credit : BOOLEAN,
            writes : 0 .. MaxData]

\* What neither the output thread nor adbd writes keeps its type.
LEMMA OthersType ==
  ASSUME TypeInv,
         UNCHANGED <<main, stdin, watch, device_found, seed, typed, printed>>
  PROVE  /\ (/\ main \in {"wait", "expired", "open", "payload", "reset id",
                         "reset remote_id", "dump", "close", "keys",
                         "keys payload", "exit"}
             /\ stdin \in {"off", "read", "payload"}
             /\ watch \in {"connect", "payload", "settle", "done"})'
         /\ (device_found \in BOOLEAN)'
         /\ (/\ seed \in 0 .. 1 /\ typed \in 0 .. MaxWrites
             /\ printed \in Seq(Nat))'
         /\ SeedFresh'
<1>1. (/\ main \in {"wait", "expired", "open", "payload", "reset id",
                    "reset remote_id", "dump", "close", "keys",
                    "keys payload", "exit"}
       /\ stdin \in {"off", "read", "payload"}
       /\ watch \in {"connect", "payload", "settle", "done"})'
  BY DEF TypeInv, TypeOK
<1>2. (device_found \in BOOLEAN)'
  BY Zenon DEF TypeInv, TypeOK
<1>3. (/\ seed \in 0 .. 1 /\ typed \in 0 .. MaxWrites
       /\ printed \in Seq(Nat))'
  BY DEF TypeInv, TypeOK
<1>4. SeedFresh'
  BY DEF TypeInv, SeedFresh
<1>5. QED
  BY <1>1, <1>2, <1>3, <1>4

\* The output thread's steps keep the types.
LEMMA OutputType ==
  ASSUME TypeInv, OutputStep
  PROVE  TypeInv'
<1>1. UNCHANGED <<main, stdin, watch, device_found, seed, typed, printed, adbd,
                  produced>>
  BY DEF OutputStep
<1>2. /\ toDevice \in Seq(Transfers) /\ toHost \in Seq(Packets) /\ id \in Int
      /\ remote_id \in Int /\ seed \in Int /\ received \in Seq(Packets)
      /\ packet \in Packets
  <2>1. seed \in 0 .. 1
    BY DEF TypeInv, TypeOK
  <2>2. seed \in Int
    BY <2>1
  <2>3. QED
    BY <2>2 DEF TypeInv, TypeOK
<1>3. packet.arg0 \in Int
  BY <1>2 DEF Packets
<1>4. store_received_packet => received' \in Seq(Packets)
  BY <1>2, AppendProperties DEF store_received_packet
<1> DEFINE Goal ==
      /\ output' \in {"read", "handle", "remote_id", "clear", "store", "ready"}
      /\ id' \in Int /\ remote_id' \in Int /\ received' \in Seq(Packets)
      /\ packet' \in Packets /\ toDevice' \in Seq(Transfers)
      /\ toHost' \in Seq(Packets)
<1>a. adbd' \in Daemons
  <2>1. adbd \in Daemons
    BY Zenon DEF TypeInv, TypeOK, Daemons
  <2>2. adbd' = adbd
    BY <1>1
  <2>3. QED
    BY <2>1, <2>2
<1>b. Goal => TypeInv'
  <2> SUFFICES ASSUME Goal PROVE TypeInv'
    OBVIOUS
  <2>1. produced' \in Seq(Nat)
    BY <1>1 DEF TypeInv, TypeOK
  <2>2. TypeOK'
    BY <1>a, <1>1, <2>1, OthersType, Zenon DEF TypeOK, Daemons
  <2>3. QED
    BY <1>1, <2>2, OthersType, Zenon DEF TypeInv
<1> SUFFICES Goal
  BY <1>b
<1>5. CASE remote_read
  BY <1>2, <1>5, HeadTailProperties DEF remote_read
<1>6. CASE handle_packet
  <2>1. UNCHANGED <<packet, toHost, toDevice>>
    BY <1>6 DEF handle_packet
  <2>2. CASE HandleFirstOkay
    <3>1. <<>> \in Seq(Packets)
      BY EmptySeq
    <3>2. QED
      BY <1>2, <1>3, <1>4, <2>1, <2>2, <3>1 DEF HandleFirstOkay
  <2>3. CASE HandleOkay \/ HandleClose \/ HandleWrite \/ HandleConnect
    BY <1>2, <1>4, <2>1, <2>3
    DEF HandleOkay, HandleClose, HandleWrite, HandleConnect
  <2>4. QED
    BY <1>6, <2>2, <2>3 DEF handle_packet
<1>7. CASE send_ready
  <2>1. usb_write("header", Packet("OKAY", id, remote_id, 0))
    BY <1>7 DEF send_ready
  <2>2. toDevice' \in Seq(Transfers)
    BY <1>2, <2>1, PacketType, usb_write_Type DEF Commands
  <2>3. QED
    BY <1>2, <1>7, <2>2 DEF send_ready
<1>8. QED
  BY <1>5, <1>6, <1>7 DEF OutputStep

\* What adbd does with a packet keeps its own state and its answers typed.
LEMMA ReceiveType ==
  ASSUME adbd \in Daemons, toHost \in Seq(Packets), NEW p \in Packets,
         Receive(p)
  PROVE  adbd' \in Daemons /\ toHost' \in Seq(Packets)
<1>1. p.arg0 \in Int /\ adbd.lid \in Int /\ adbd.peer \in Int
  BY DEF Packets, Daemons
<1>2. DevIds \subseteq Nat
  BY SessionAssumption DEF SessionAssumption
<1>3. adbd' \in Daemons
  BY <1>1, <1>2, ConstantPackets DEF Receive, Daemons
<1>4. /\ Connect \in Packets
      /\ \A lid \in DevIds : Packet("OKAY", lid, p.arg0, 0) \in Packets
      /\ Packet("CLSE", 0, p.arg0, 0) \in Packets
      /\ Packet("OKAY", adbd.lid, adbd.peer, 0) \in Packets
  BY <1>1, <1>2, ConstantPackets, PacketType DEF Commands
<1>5. toHost' \in Seq(Packets)
  BY <1>4, usb_send_Type DEF Receive
<1>6. QED
  BY <1>3, <1>5

\* adbd's steps keep the types.
LEMMA DeviceType ==
  ASSUME TypeInv, DeviceStep
  PROVE  TypeInv'
<1>1. UNCHANGED <<main, stdin, output, watch, device_found, seed, id,
                  remote_id, received, packet, typed, printed>>
  BY DEF DeviceStep, threadVars, streamVars
<1>2. /\ toDevice \in Seq(Transfers) /\ toHost \in Seq(Packets)
      /\ adbd \in Daemons /\ produced \in Seq(Nat)
  BY DEF TypeInv, TypeOK, Daemons
<1>3. adbd.lid \in Int /\ adbd.peer \in Int /\ adbd.half \in Packets
      /\ adbd.writes \in 0 .. MaxData
  BY <1>2 DEF Daemons
<1> DEFINE Goal ==
      /\ toDevice' \in Seq(Transfers) /\ toHost' \in Seq(Packets)
      /\ adbd' \in Daemons /\ produced' \in Seq(Nat)
<1>a. Goal => TypeInv'
  <2> SUFFICES ASSUME Goal PROVE TypeInv'
    OBVIOUS
  <2>1. /\ output' \in {"read", "handle", "remote_id", "clear", "store",
                        "ready"}
        /\ id' \in Int /\ remote_id' \in Int /\ received' \in Seq(Packets)
        /\ packet' \in Packets
    BY <1>1 DEF TypeInv, TypeOK
  <2>2. (produced \in Seq(Nat))'
    OBVIOUS
  <2>3. TypeOK'
    BY <2>1, <1>1, OthersType, Zenon DEF TypeOK, Daemons
  <2>4. QED
    BY <2>3, <1>1, OthersType, Zenon DEF TypeInv
<1> SUFFICES Goal
  BY <1>a
<1>4. CASE DeviceReads
  <2>1. toDevice' \in Seq(Transfers) /\ Head(toDevice) \in Transfers
    BY <1>2, <1>4, HeadTailProperties DEF DeviceReads
  <2>2. Head(toDevice).packet \in Packets
    BY <2>1 DEF Transfers
  <2>3. adbd' \in Daemons /\ toHost' \in Seq(Packets)
    <3>1. CASE \E p \in {Head(toDevice).packet, adbd.half} : Receive(p)
      BY <1>2, <1>3, <2>2, <3>1, ReceiveType
    <3>2. CASE /\ \/ adbd' = [adbd EXCEPT !.half = Head(toDevice).packet]
                  \/ adbd' = [adbd EXCEPT !.phase = "desync"]
               /\ UNCHANGED toHost
      BY <1>2, <2>2, <3>2 DEF Daemons
    <3>3. QED
      BY <1>4, <3>1, <3>2 DEF DeviceReads
  <2>4. QED
    BY <1>2, <1>4, <2>1, <2>3 DEF DeviceReads
<1>5. CASE DeviceWrites
  <2>1. PICK data \in {0, adbd.writes + 1} :
          /\ usb_send(Packet("WRTE", adbd.lid, adbd.peer, data))
          /\ produced' = IF data = 0 THEN produced ELSE Append(produced, data)
    BY <1>5 DEF DeviceWrites
  <2>2. data \in Nat /\ adbd.writes + 1 \in 0 .. MaxData
    BY <1>3, <1>5, SessionAssumption DEF DeviceWrites, SessionAssumption
  <2>3. toHost' \in Seq(Packets)
    BY <1>2, <1>3, <2>1, <2>2, PacketType, usb_send_Type DEF Commands
  <2>4. produced' \in Seq(Nat)
    BY <1>2, <2>1, <2>2, AppendProperties
  <2>5. adbd' \in Daemons
    <3>1. adbd' = [adbd EXCEPT !.credit = FALSE, !.writes = adbd.writes + 1]
      BY <1>5 DEF DeviceWrites
    <3>2. QED
      BY <1>2, <2>2, <3>1 DEF Daemons
  <2>6. QED
    BY <1>2, <1>5, <2>3, <2>4, <2>5 DEF DeviceWrites
<1>6. CASE DeviceCloses
  <2>1. toHost' \in Seq(Packets)
    BY <1>2, <1>3, <1>6, PacketType, usb_send_Type DEF DeviceCloses, Commands
  <2>2. adbd' \in Daemons
    BY <1>2, <1>6 DEF DeviceCloses, Daemons
  <2>3. QED
    BY <1>2, <1>6, <2>1, <2>2 DEF DeviceCloses
<1>7. QED
  BY <1>4, <1>5, <1>6 DEF DeviceStep

\* Every step of the system keeps the types.
LEMMA NextType == TypeInv /\ [Next]_vars => TypeInv'
<1>1. TypeInv /\ UNCHANGED vars => TypeInv'
  <2> SUFFICES ASSUME TypeInv, UNCHANGED vars PROVE TypeInv'
    OBVIOUS
  <2>1. UNCHANGED <<main, stdin, watch, device_found, seed, typed, printed,
                    output, id, remote_id, received, packet, produced,
                    toDevice, toHost, adbd>>
    BY DEF vars, threadVars, streamVars, devVars
  <2>2. /\ output' \in {"read", "handle", "remote_id", "clear", "store",
                        "ready"}
        /\ id' \in Int /\ remote_id' \in Int
    BY <2>1 DEF TypeInv, TypeOK
  <2>3. /\ received' \in Seq(Packets) /\ packet' \in Packets
        /\ produced' \in Seq(Nat) /\ toDevice' \in Seq(Transfers)
        /\ toHost' \in Seq(Packets)
    BY <2>1 DEF TypeInv, TypeOK
  <2>4. adbd' = adbd
    BY <2>1
  <2>5. TypeOK'
    BY <2>1, <2>2, <2>3, <2>4, OthersType, Zenon DEF TypeInv, TypeOK
  <2>6. QED
    BY <2>1, <2>5, OthersType, Zenon DEF TypeInv
<1>2. QED
  BY <1>1, WatchType, MainType, StdinType, OutputType, DeviceType DEF Next

\* The types hold in every reachable state.
LEMMA TypeInvariance == Spec => []TypeInv
BY InitType, NextType, PTL DEF Spec

\* In every mode each thread stays at a place of its own code and every
\* shared variable keeps its C type; only one OPEN is ever sent (seed <= 1).
THEOREM TypeCorrect == Spec => []TypeOK
BY TypeInvariance, PTL DEF TypeInv
-----------------------------------------------------------------------------
(***************************************************************************)
(* Messages stay whole when a command is run: main, output and watch all   *)
(* write to the device, yet never in the middle of one another's packet.   *)
(***************************************************************************)

\* Before the OPEN has been written completely.
Early == {"wait", "expired", "open", "payload"}

\* Only main, output and watch run, and watch is through before main is told.
Alone ==
  /\ stdin = "off" /\ main \notin {"keys", "keys payload"}
  /\ watch # "done" => ~ device_found /\ main \in {"wait", "expired", "exit"}

\* The i-th unread transfer, or for i = 0 the last one read, is a header that
\* announces a payload.
Announces(i) ==
  IF i = 0 THEN adbd.half # Nothing
  ELSE toDevice[i].part = "header" /\ HasPayload(toDevice[i].packet)

\* Payloads follow the headers that announce them, and the last announced
\* payload is missing only while a thread is about to write it.
Framed ==
  /\ adbd.phase # "desync"
  /\ \A i \in 1 .. Len(toDevice) :
       toDevice[i].part = "payload" <=> Announces(i - 1)
  /\ Announces(Len(toDevice)) <=> watch = "payload" \/ main = "payload"

\* Until the OPEN is complete the two sides have only exchanged CONNECTs, so
\* the output thread has nothing to answer.
Silent ==
  main \in Early =>
    /\ adbd.phase \in {"offline", "online"}
    /\ packet.cmd = "CNXN" /\ output \in {"read", "handle"}
    /\ \A i \in 1 .. Len(toHost) : toHost[i].cmd = "CNXN"
    /\ adbd.half.cmd = "CNXN" \/ (main = "payload" /\ toDevice = <<>>)
    /\ \A i \in 1 .. Len(toDevice) :
         \/ toDevice[i].packet.cmd = "CNXN"
         \/ main = "payload" /\ i = Len(toDevice)

WireInv == TypeInv /\ Alone /\ Framed /\ Silent

\* The transfers after a usb_write.
LEMMA AppendTransfer ==
  ASSUME TypeInv, NEW part \in {"header", "payload"}, NEW p \in Packets,
         usb_write(part, p)
  PROVE  /\ Len(toDevice) \in Nat
         /\ Len(toDevice') = Len(toDevice) + 1
         /\ \A i \in 1 .. Len(toDevice) : toDevice'[i] = toDevice[i]
         /\ toDevice'[Len(toDevice) + 1].part = part
         /\ toDevice'[Len(toDevice) + 1].packet = p
<1> DEFINE new == [part |-> part, packet |-> p]
<1>1. toDevice \in Seq(Transfers)
  BY DEF TypeInv, TypeOK
<1>2. new \in Transfers /\ new.part = part /\ new.packet = p
  BY DEF Transfers
<1>3. toDevice' = Append(toDevice, new)
  BY DEF usb_write
<1> HIDE DEF new
<1>4. QED
  BY <1>1, <1>2, <1>3, AppendProperties, LenProperties

\* A transfer written where one of its kind is due keeps the framing.
LEMMA AppendFramed ==
  ASSUME TypeInv, Framed, NEW part \in {"header", "payload"}, NEW p \in Packets,
         usb_write(part, p), adbd' = adbd,
         part = "payload" <=> Announces(Len(toDevice)),
         part = "header" /\ HasPayload(p)
           <=> watch' = "payload" \/ main' = "payload"
  PROVE  Framed'
<1>1. /\ Len(toDevice) \in Nat
      /\ Len(toDevice') = Len(toDevice) + 1
      /\ \A i \in 1 .. Len(toDevice) : toDevice'[i] = toDevice[i]
      /\ toDevice'[Len(toDevice) + 1].part = part
      /\ toDevice'[Len(toDevice) + 1].packet = p
  BY AppendTransfer
<1>2. \A i \in 0 .. Len(toDevice) : Announces(i)' <=> Announces(i)
  BY <1>1 DEF Announces
<1>3. ASSUME NEW i \in 1 .. Len(toDevice')
      PROVE  toDevice'[i].part = "payload" <=> Announces(i - 1)'
  <2>1. i - 1 \in 0 .. Len(toDevice)
    BY <1>1
  <2>2. CASE i = Len(toDevice) + 1
    <3>1. i - 1 = Len(toDevice)
      BY <1>1, <2>2
    <3>2. Announces(i - 1)' <=> Announces(Len(toDevice))
      BY <1>2, <2>1, <3>1
    <3>3. QED
      BY <1>1, <2>2, <3>2
  <2>3. CASE i # Len(toDevice) + 1
    <3>1. i \in 1 .. Len(toDevice)
      BY <1>1, <2>3
    <3>2. toDevice[i].part = "payload" <=> Announces(i - 1)
      BY <3>1 DEF Framed
    <3>3. QED
      BY <1>1, <1>2, <2>1, <3>1, <3>2
  <2>4. QED
    BY <2>2, <2>3
<1>4. Announces(Len(toDevice))' <=> part = "header" /\ HasPayload(p)
  <2>1. Len(toDevice') # 0
    BY <1>1
  <2>2. QED
    BY <1>1, <2>1 DEF Announces
<1>5. QED
  BY <1>3, <1>4 DEF Framed

\* Steps that leave the wire, adbd and MidPacket alone.
LEMMA KeepFramed ==
  ASSUME Framed, UNCHANGED <<toDevice, adbd>>,
         (watch = "payload" \/ main = "payload")
           <=> (watch' = "payload" \/ main' = "payload")
  PROVE  Framed'
BY DEF Framed, Announces

\* The wire invariant holds before the first transfer.
LEMMA InitWire == ASSUME Init PROVE WireInv
<1>1. TypeInv
  BY InitType
<1>2. Alone
  BY DEF Init, Alone
<1>3. Len(toDevice) = 0 /\ Len(toHost) = 0 /\ adbd.half = Nothing
      /\ adbd.phase = "offline"
  BY DEF Init
<1>4. Framed
  BY <1>3 DEF Init, Framed, Announces
<1>5. Silent
  BY <1>3 DEF Init, Silent, Nothing, Packet
<1>6. QED
  BY <1>1, <1>2, <1>4, <1>5 DEF WireInv

\* The watch thread sends CONNECT alone on the wire.
LEMMA WatchWire ==
  ASSUME WireInv, WatchStep
  PROVE  WireInv'
<1>1. TypeInv /\ Alone /\ Framed /\ Silent /\ TypeInv' /\ main # "exit"
  BY WatchType DEF WireInv, WatchStep, Running
<1>2. UNCHANGED <<main, stdin, output, packet, toHost, adbd>>
  BY DEF WatchStep, devVars
<1>3. watch # "done" /\ main \in {"wait", "expired"}
  BY <1>1 DEF Alone, WatchStep, SendConnect, DeviceFound
<1>4. Alone'
  <2>1. watch' # "done" => device_found' = device_found
    BY DEF WatchStep, SendConnect, DeviceFound
  <2>2. ~ device_found
    BY <1>1, <1>3 DEF Alone
  <2>3. watch' # "done" => ~ device_found'
    BY <2>1, <2>2, Zenon
  <2>4. QED
    BY <1>1, <1>2, <1>3, <2>3 DEF Alone
<1>5. HasPayload(Connect) /\ Connect.cmd = "CNXN" /\ Connect \in Packets
  BY ConstantPackets DEF HasPayload, Connect, Packet
<1>6. ASSUME NEW part \in {"header", "payload"}, usb_write(part, Connect)
      PROVE  Silent'
  <2>1. /\ Len(toDevice) \in Nat
        /\ Len(toDevice') = Len(toDevice) + 1
        /\ \A i \in 1 .. Len(toDevice) : toDevice'[i] = toDevice[i]
        /\ toDevice'[Len(toDevice) + 1].packet = Connect
    BY <1>1, <1>5, <1>6, AppendTransfer
  <2>2. \A i \in 1 .. Len(toDevice) : toDevice[i].packet.cmd = "CNXN"
    BY <1>1, <1>3 DEF Silent, Early
  <2>3. \A i \in 1 .. Len(toDevice') : toDevice'[i].packet.cmd = "CNXN"
    <3>1. \A i \in 1 .. Len(toDevice') :
            i \in 1 .. Len(toDevice) \/ i = Len(toDevice) + 1
      BY <2>1
    <3>2. QED
      BY <1>5, <2>1, <2>2, <3>1
  <2>4. QED
    BY <1>1, <1>2, <1>3, <2>3 DEF Silent, Early
<1>7. CASE watch = "connect"
  <2>1. usb_write("header", Connect) /\ watch' = "payload"
    BY <1>7 DEF WatchStep, SendConnect, DeviceFound
  <2>2. ~ Announces(Len(toDevice))
    BY <1>1, <1>3, <1>7 DEF Framed
  <2>3. Framed'
    BY <1>1, <1>2, <1>5, <2>1, <2>2, AppendFramed
  <2>4. QED
    BY <1>1, <1>4, <1>6, <2>1, <2>3 DEF WireInv
<1>8. CASE watch = "payload"
  <2>1. usb_write("payload", Connect) /\ watch' = "settle"
    BY <1>8 DEF WatchStep, SendConnect, DeviceFound
  <2>2. Announces(Len(toDevice))
    BY <1>1, <1>8 DEF Framed
  <2>3. Framed'
    BY <1>1, <1>2, <1>3, <1>5, <2>1, <2>2, AppendFramed
  <2>4. QED
    BY <1>1, <1>4, <1>6, <2>1, <2>3 DEF WireInv
<1>9. CASE watch = "settle"
  <2>1. UNCHANGED toDevice /\ watch' = "done"
    BY <1>9 DEF WatchStep, SendConnect, DeviceFound
  <2>2. Framed'
    BY <1>1, <1>2, <1>9, <2>1, KeepFramed
  <2>3. Silent'
    BY <1>1, <1>2, <2>1 DEF Silent, Early
  <2>4. QED
    BY <1>1, <1>4, <2>2, <2>3 DEF WireInv
<1>10. QED
  BY <1>7, <1>8, <1>9 DEF WatchStep, SendConnect, DeviceFound

\* In command mode main writes OPEN after watch is done, and its last CLOSE.
LEMMA MainWire ==
  ASSUME WireInv, MainStep, Mode = "command"
  PROVE  WireInv'
<1>1. TypeInv /\ Alone /\ Framed /\ Silent /\ TypeInv'
  BY MainType DEF WireInv
<1>2. UNCHANGED <<output, watch, device_found, packet, toHost, adbd>>
  BY DEF MainStep, devVars
<1>3. stdin = "off" /\ ~ send_command
  BY <1>1 DEF Alone, send_command
<1>4. CASE Wait \/ Expire
  <2>1. /\ main \in {"wait", "expired"} /\ UNCHANGED <<stdin, toDevice>>
        /\ main' = "open" => device_found
        /\ main' \in {"expired", "open", "exit"}
    BY <1>4 DEF Wait, Expire
  <2>2. Alone'
    <3>1. watch # "done" => ~ device_found
      BY <1>1 DEF Alone
    <3>2. watch' # "done" => ~ device_found' /\ main' \in {"expired", "exit"}
      BY <1>2, <2>1, <3>1, Zenon
    <3>3. QED
      BY <1>3, <2>1, <3>2 DEF Alone
  <2>3. Framed'
    BY <1>1, <1>2, <2>1, KeepFramed
  <2>4. Silent'
    BY <1>1, <1>2, <2>1 DEF Silent, Early
  <2>5. QED
    BY <1>1, <2>2, <2>3, <2>4 DEF WireInv
<1>5. CASE main \in {"open", "payload", "reset id", "reset remote_id", "dump", "close"}
           /\ (send_open \/ read_and_dump \/ send_close)
  <2>1. watch = "done"
    BY <1>1, <1>5 DEF Alone
  <2>2. /\ main' \in {"payload", "reset id", "reset remote_id", "dump", "close", "exit"}
        /\ stdin' = "off"
    BY <1>3, <1>5 DEF send_open, read_and_dump, send_close
  <2>3. Alone'
    BY <1>2, <2>1, <2>2 DEF Alone
  <2>4. CASE main = "open"
    <3> DEFINE open == Packet("OPEN", seed', 0, 1)
    <3>1. usb_write("header", open) /\ main' = "payload"
      BY <1>5, <2>4 DEF send_open, read_and_dump, send_close
    <3>2. open \in Packets /\ HasPayload(open)
      <4>1. seed' \in Int /\ 1 \in Nat /\ "OPEN" \in Commands
        <5>1. seed' \in 0 .. 1
          BY <1>1 DEF TypeInv, TypeOK
        <5>2. QED
          BY <5>1 DEF Commands
      <4>2. open \in Packets
        BY <4>1, PacketType
      <4>3. QED
        BY <4>2 DEF HasPayload, Packet
    <3> HIDE DEF open
    <3>3. ~ Announces(Len(toDevice))
      BY <1>1, <2>1, <2>4 DEF Framed
    <3>4. Framed'
      BY <1>1, <1>2, <3>1, <3>2, <3>3, AppendFramed
    <3>5. Silent'
      <4>1. /\ Len(toDevice) \in Nat
            /\ Len(toDevice') = Len(toDevice) + 1
            /\ \A i \in 1 .. Len(toDevice) : toDevice'[i] = toDevice[i]
        BY <1>1, <3>1, <3>2, AppendTransfer
      <4>2. \A i \in 1 .. Len(toDevice) : toDevice[i].packet.cmd = "CNXN"
        BY <1>1, <2>4 DEF Silent, Early
      <4>3. \A i \in 1 .. Len(toDevice') :
              toDevice'[i].packet.cmd = "CNXN" \/ i = Len(toDevice')
        <5>1. \A i \in 1 .. Len(toDevice') :
                i \in 1 .. Len(toDevice) \/ i = Len(toDevice')
          BY <4>1
        <5>2. QED
          BY <4>1, <4>2, <5>1
      <4>4. QED
        BY <1>1, <1>2, <2>4, <3>1, <4>3 DEF Silent, Early
    <3>6. QED
      BY <1>1, <2>3, <3>4, <3>5 DEF WireInv
  <2>5. CASE main = "payload"
    <3>1. usb_write("payload", Open) /\ main' = "reset id"
      BY <1>5, <2>5 DEF send_open, read_and_dump, send_close
    <3>2. Open \in Packets
      <4>1. seed \in Int /\ 1 \in Nat /\ "OPEN" \in Commands
        <5>1. seed \in 0 .. 1
          BY <1>1 DEF TypeInv, TypeOK
        <5>2. QED
          BY <5>1 DEF Commands
      <4>2. QED
        BY <4>1, PacketType DEF Open
    <3>3. Announces(Len(toDevice))
      BY <1>1, <2>5 DEF Framed
    <3>4. Framed'
      BY <1>1, <1>2, <2>1, <3>1, <3>2, <3>3, AppendFramed
    <3>5. Silent'
      BY <3>1 DEF Silent, Early
    <3>6. QED
      BY <1>1, <2>3, <3>4, <3>5 DEF WireInv
  <2>6. CASE main \in {"reset id", "reset remote_id", "dump"}
    <3>1. UNCHANGED toDevice /\ main' \notin Early
      BY <1>3, <1>5, <2>6 DEF send_open, read_and_dump, send_close, Early
    <3>2. Framed'
      BY <1>1, <1>2, <2>1, <2>6, <3>1, KeepFramed DEF Early
    <3>3. Silent'
      BY <3>1 DEF Silent
    <3>4. QED
      BY <1>1, <2>3, <3>2, <3>3 DEF WireInv
  <2>7. CASE main = "close"
    <3> DEFINE close == Packet("CLSE", id, remote_id, 0)
    <3>1. usb_write("header", close) /\ main' = "exit"
      BY <1>5, <2>7 DEF send_open, read_and_dump, send_close
    <3>2. close \in Packets /\ ~ HasPayload(close)
      <4>1. id \in Int /\ remote_id \in Int /\ "CLSE" \in Commands
        BY <1>1 DEF TypeInv, TypeOK, Commands
      <4>2. close \in Packets
        BY <4>1, PacketType
      <4>3. QED
        BY <4>2 DEF HasPayload, Packet
    <3> HIDE DEF close
    <3>3. ~ Announces(Len(toDevice))
      BY <1>1, <2>1, <2>7 DEF Framed
    <3>4. Framed'
      BY <1>1, <1>2, <2>1, <3>1, <3>2, <3>3, AppendFramed
    <3>5. Silent'
      BY <3>1 DEF Silent, Early
    <3>6. QED
      BY <1>1, <2>3, <3>4, <3>5 DEF WireInv
  <2>8. QED
    BY <1>5, <2>4, <2>5, <2>6, <2>7
<1>6. QED
  BY <1>3, <1>4, <1>5 DEF MainStep, send_open, read_and_dump, send_close

\* The output thread sends a READY only once the OPEN is complete.
LEMMA OutputWire ==
  ASSUME WireInv, OutputStep
  PROVE  WireInv'
<1>1. TypeInv /\ Alone /\ Framed /\ Silent /\ TypeInv' /\ main # "exit"
  BY OutputType DEF WireInv, OutputStep, Running
<1>2. UNCHANGED <<main, stdin, watch, device_found, adbd>>
  BY DEF OutputStep
<1>3. Alone'
  BY <1>1, <1>2 DEF Alone
<1>4. CASE remote_read
  <2>1. /\ toHost # <<>> /\ packet' = Head(toHost) /\ toHost' = Tail(toHost)
        /\ output' = "handle" /\ UNCHANGED toDevice
    BY <1>4 DEF remote_read
  <2>2. toHost \in Seq(Packets)
    BY <1>1 DEF TypeInv, TypeOK
  <2>3. /\ Len(toHost) \in Nat \ {0} /\ packet' = toHost[1]
        /\ Len(toHost') = Len(toHost) - 1
        /\ \A i \in 1 .. Len(toHost') : toHost'[i] = toHost[i + 1]
    BY <2>1, <2>2, HeadTailProperties, LenProperties
  <2>4. Framed'
    BY <1>1, <1>2, <2>1, KeepFramed
  <2>5. Silent'
    <3> SUFFICES ASSUME main \in Early
                 PROVE  /\ packet'.cmd = "CNXN"
                        /\ \A i \in 1 .. Len(toHost') : toHost'[i].cmd = "CNXN"
      BY <1>1, <1>2, <2>1 DEF Silent
    <3>1. \A i \in 1 .. Len(toHost) : toHost[i].cmd = "CNXN"
      BY <1>1 DEF Silent
    <3>2. 1 \in 1 .. Len(toHost)
          /\ \A i \in 1 .. Len(toHost') : i + 1 \in 1 .. Len(toHost)
      BY <2>3
    <3>3. QED
      BY <2>3, <3>1, <3>2
  <2>6. QED
    BY <1>1, <1>3, <2>4, <2>5 DEF WireInv
<1>5. CASE handle_packet
  <2>1. UNCHANGED <<packet, toHost, toDevice>>
    BY <1>5 DEF handle_packet
  <2>2. Framed'
    BY <1>1, <1>2, <2>1, KeepFramed
  <2>3. Silent'
    <3> SUFFICES ASSUME main \in Early
                 PROVE  output' \in {"read", "handle"}
      BY <1>1, <1>2, <2>1 DEF Silent
    <3>1. packet.cmd = "CNXN" /\ output \in {"read", "handle"}
      BY <1>1 DEF Silent
    <3>2. QED
      BY <1>5, <3>1 DEF handle_packet, HandleFirstOkay, FirstOkay, HandleOkay,
                        HandleClose, HandleWrite, HandleConnect
  <2>4. QED
    BY <1>1, <1>3, <2>2, <2>3 DEF WireInv
<1>6. CASE send_ready
  <2> DEFINE okay == Packet("OKAY", id, remote_id, 0)
  <2>1. usb_write("header", okay) /\ output = "ready"
    BY <1>6 DEF send_ready
  <2>2. main \notin Early /\ watch = "done"
    BY <1>1, <2>1 DEF Silent, Alone, Early
  <2>3. okay \in Packets /\ ~ HasPayload(okay)
    <3>1. id \in Int /\ remote_id \in Int /\ "OKAY" \in Commands
      BY <1>1 DEF TypeInv, TypeOK, Commands
    <3>2. okay \in Packets
      BY <3>1, PacketType
    <3>3. QED
      BY <3>2 DEF HasPayload, Packet
  <2> HIDE DEF okay
  <2>4. ~ Announces(Len(toDevice))
    BY <1>1, <2>2 DEF Framed, Early
  <2>5. Framed'
    BY <1>1, <1>2, <2>1, <2>2, <2>3, <2>4, AppendFramed DEF Early
  <2>6. Silent'
    BY <1>2, <2>2 DEF Silent
  <2>7. QED
    BY <1>1, <1>3, <2>5, <2>6 DEF WireInv
<1>7. QED
  BY <1>4, <1>5, <1>6 DEF OutputStep

\* In command mode stdin_read_thread never runs.
LEMMA StdinWire == Alone => ~ StdinStep
BY DEF Alone, StdinStep, TypeText, TypeTextPayload, TypeControlD, TypeEscape,
       TypeEOF

\* adbd has nothing in hand after a packet, and only an OPEN opens a stream.
LEMMA ReceiveEffect ==
  ASSUME adbd \in Daemons, toHost \in Seq(Packets), NEW p \in Packets,
         Receive(p), adbd.phase # "desync"
  PROVE  /\ adbd'.half = Nothing
         /\ adbd'.phase # "desync"
         /\ (p.cmd = "CNXN" /\ adbd.phase \in {"offline", "online"}) =>
               /\ adbd'.phase = "online"
               /\ toHost' = Append(toHost, Connect)
<1>1. adbd'.half = Nothing /\ adbd'.phase # "desync"
  BY DEF Receive, Daemons
<1>2. ASSUME p.cmd = "CNXN", adbd.phase \in {"offline", "online"}
      PROVE  adbd'.phase = "online" /\ toHost' = Append(toHost, Connect)
  <2>1. /\ usb_send(Connect)
        /\ adbd' = [adbd EXCEPT !.half = Nothing,
                                !.phase = IF Online THEN @ ELSE "online"]
    BY <1>2 DEF Receive
  <2>2. QED
    BY <1>2, <2>1 DEF usb_send, Online, Daemons
<1>3. QED
  BY <1>1, <1>2

\* adbd reads the transfers in the order the framing promises.
LEMMA DeviceReadsWire ==
  ASSUME WireInv, DeviceReads,
         UNCHANGED <<main, output, watch, packet>>
  PROVE  Framed' /\ Silent'
<1> DEFINE part == toDevice[1].part
           p == toDevice[1].packet
<1>1. TypeInv /\ Alone /\ Framed /\ Silent /\ adbd \in Daemons
      /\ toHost \in Seq(Packets) /\ toDevice \in Seq(Transfers)
  BY DEF WireInv, TypeInv, TypeOK, Daemons
<1>2. /\ toDevice # <<>> /\ toDevice' = Tail(toDevice)
      /\ Head(toDevice) = toDevice[1]
      /\ Len(toDevice) \in Nat \ {0}
      /\ Len(toDevice') = Len(toDevice) - 1
      /\ \A i \in 1 .. Len(toDevice') : toDevice'[i] = toDevice[i + 1]
  BY <1>1, HeadTailProperties, LenProperties DEF DeviceReads
<1>2a. /\ Len(toDevice') \in Nat /\ Len(toDevice') + 1 = Len(toDevice)
       /\ Len(toDevice') \in 0 .. Len(toDevice')
  <2>1. Len(toDevice) \in Nat \ {0} /\ Len(toDevice') = Len(toDevice) - 1
    BY <1>2
  <2>2. QED
    BY <2>1
<1>3. part \in {"header", "payload"} /\ p \in Packets /\ adbd.half \in Packets
  <2>1. toDevice[1] \in Transfers
    BY <1>1, <1>2, ElementOfSeq
  <2>2. QED
    BY <1>1, <2>1 DEF Transfers, Daemons
<1>4. part = "payload" <=> adbd.half # Nothing
  <2>1. part = "payload" <=> Announces(1 - 1)
    BY <1>1, <1>2 DEF Framed
  <2>2. QED
    BY <2>1 DEF Announces
<1>5. \/ part = "header" /\ ~ HasPayload(p) /\ Receive(p)
      \/ /\ part = "header" /\ HasPayload(p) /\ UNCHANGED toHost
         /\ adbd' = [adbd EXCEPT !.half = p]
      \/ part = "payload" /\ Receive(adbd.half)
  BY <1>2, <1>3, <1>4 DEF DeviceReads
<1> HIDE DEF part, p
<1>6. adbd'.phase # "desync" /\ (adbd'.half # Nothing <=> Announces(1))
  <2>1. Announces(1) <=> part = "header" /\ HasPayload(p)
    BY DEF Announces, part, p
  <2>2. adbd.phase # "desync"
    BY <1>1 DEF Framed
  <2>3. CASE (part = "header" /\ ~ HasPayload(p) /\ Receive(p))
             \/ (part = "payload" /\ Receive(adbd.half))
    BY <1>1, <1>3, <2>1, <2>2, <2>3, ReceiveEffect
  <2>4. CASE /\ part = "header" /\ HasPayload(p)
             /\ adbd' = [adbd EXCEPT !.half = p]
    <3>1. p # Nothing
      BY <2>4 DEF HasPayload, Nothing, Packet
    <3>2. adbd'.half = p /\ adbd'.phase = adbd.phase
      BY <1>1, <2>4 DEF Daemons
    <3>3. QED
      BY <2>1, <2>2, <2>4, <3>1, <3>2
  <2>5. QED
    BY <1>5, <2>3, <2>4
<1>7. \A i \in 0 .. Len(toDevice') : Announces(i)' <=> Announces(i + 1)
  <2>1. TAKE i \in 0 .. Len(toDevice')
  <2>2. CASE i = 0
    BY <1>6, <2>2 DEF Announces
  <2>3. CASE i # 0
    <3>1. toDevice'[i] = toDevice[i + 1] /\ i + 1 # 0
      BY <1>2, <2>3
    <3>2. QED
      BY <2>3, <3>1 DEF Announces
  <2>4. QED
    BY <2>2, <2>3
<1>8. Framed'
  <2>1. ASSUME NEW i \in 1 .. Len(toDevice')
        PROVE  toDevice'[i].part = "payload" <=> Announces(i - 1)'
    <3>1. /\ toDevice'[i] = toDevice[i + 1] /\ i + 1 \in 1 .. Len(toDevice)
          /\ i - 1 \in 0 .. Len(toDevice') /\ (i - 1) + 1 = i
          /\ (i + 1) - 1 = i
      BY <1>2
    <3>2. toDevice[i + 1].part = "payload" <=> Announces(i)
      BY <1>1, <3>1 DEF Framed
    <3>3. Announces(i - 1)' <=> Announces(i)
      BY <1>7, <3>1
    <3>4. QED
      BY <3>1, <3>2, <3>3
  <2>2. Announces(Len(toDevice))' <=> Announces(Len(toDevice))
    <3>1. PICK n \in 0 .. Len(toDevice') :
            n = Len(toDevice') /\ n + 1 = Len(toDevice)
      BY <1>2a
    <3>2. Announces(n)' <=> Announces(n + 1)
      BY <1>7, <3>1
    <3>3. Announces(Len(toDevice))' <=> Announces(n)'
      BY <3>1 DEF Announces
    <3>4. QED
      BY <3>1, <3>2, <3>3
  <2>3. Announces(Len(toDevice))' <=> watch' = "payload" \/ main' = "payload"
    BY <1>1, <2>2 DEF Framed
  <2>4. QED
    BY <1>6, <2>1, <2>3 DEF Framed
<1>9. Silent'
  <2> SUFFICES ASSUME main \in Early
               PROVE  /\ adbd'.phase \in {"offline", "online"}
                      /\ \A i \in 1 .. Len(toHost') : toHost'[i].cmd = "CNXN"
                      /\ \/ adbd'.half.cmd = "CNXN"
                         \/ main = "payload" /\ toDevice' = <<>>
                      /\ \A i \in 1 .. Len(toDevice') :
                           \/ toDevice'[i].packet.cmd = "CNXN"
                           \/ main = "payload" /\ i = Len(toDevice')
    BY <1>1 DEF Silent
  <2>1. /\ adbd.phase \in {"offline", "online"}
        /\ \A i \in 1 .. Len(toHost) : toHost[i].cmd = "CNXN"
        /\ adbd.half.cmd = "CNXN"
        /\ \A i \in 1 .. Len(toDevice) :
             \/ toDevice[i].packet.cmd = "CNXN"
             \/ main = "payload" /\ i = Len(toDevice)
    BY <1>1, <1>2, Zenon DEF Silent
  <2>2. p.cmd = "CNXN" \/ (main = "payload" /\ Len(toDevice) = 1)
    <3>1. 1 \in 1 .. Len(toDevice)
      BY <1>2
    <3>2. QED
      BY <2>1, <3>1 DEF p
  <2>3. \A i \in 1 .. Len(toDevice') :
          \/ toDevice'[i].packet.cmd = "CNXN"
          \/ main = "payload" /\ i = Len(toDevice')
    <3>1. TAKE i \in 1 .. Len(toDevice')
    <3>2. toDevice'[i] = toDevice[i + 1] /\ i + 1 \in 1 .. Len(toDevice)
      BY <1>2
    <3>3. i + 1 = Len(toDevice) => i = Len(toDevice')
      BY <1>2a
    <3>4. QED
      BY <2>1, <3>2, <3>3
  <2>4. ASSUME NEW q \in Packets, q.cmd = "CNXN", Receive(q)
        PROVE  /\ adbd'.phase \in {"offline", "online"}
               /\ \A i \in 1 .. Len(toHost') : toHost'[i].cmd = "CNXN"
               /\ adbd'.half.cmd = "CNXN"
    <3>1. /\ adbd'.phase = "online" /\ adbd'.half = Nothing
          /\ toHost' = Append(toHost, Connect)
      BY <1>1, <2>1, <2>4, ReceiveEffect
    <3>2. /\ Len(toHost') = Len(toHost) + 1 /\ Len(toHost) \in Nat
          /\ \A i \in 1 .. Len(toHost) : toHost'[i] = toHost[i]
          /\ toHost'[Len(toHost) + 1] = Connect
      BY <1>1, <3>1, ConstantPackets, AppendProperties, LenProperties
    <3>3. Connect.cmd = "CNXN" /\ Nothing.cmd = "CNXN"
      BY DEF Connect, Nothing, Packet
    <3>4. \A i \in 1 .. Len(toHost') :
            i \in 1 .. Len(toHost) \/ i = Len(toHost) + 1
      BY <3>2
    <3>5. QED
      BY <2>1, <3>1, <3>2, <3>3, <3>4
  <2>5. CASE part = "header" /\ ~ HasPayload(p) /\ Receive(p)
    <3>1. ~ Announces(1)
      BY <2>5 DEF Announces, part, p
    <3>2. p.cmd = "CNXN"
      BY <1>1, <2>2, <3>1 DEF Framed
    <3>3. QED
      BY <1>3, <2>3, <2>4, <2>5, <3>2
  <2>6. CASE /\ part = "header" /\ HasPayload(p) /\ UNCHANGED toHost
             /\ adbd' = [adbd EXCEPT !.half = p]
    <3>1. adbd'.half = p /\ adbd'.phase = adbd.phase
      BY <1>1, <2>6 DEF Daemons
    <3>2. Len(toDevice) = 1 => toDevice' = <<>>
      BY <1>1, <1>2, HeadTailProperties, EmptySeq, LenProperties
    <3>3. QED
      BY <2>1, <2>2, <2>3, <2>6, <3>1, <3>2
  <2>7. CASE part = "payload" /\ Receive(adbd.half)
    BY <1>3, <2>1, <2>3, <2>4, <2>7
  <2>8. QED
    BY <1>5, <2>5, <2>6, <2>7
<1>10. QED
  BY <1>8, <1>9

\* adbd's service writes and closes only once a stream is open.
LEMMA DeviceWire ==
  ASSUME WireInv, DeviceStep
  PROVE  WireInv'
<1>1. TypeInv' /\ Alone /\ Framed /\ Silent /\ adbd \in Daemons
  BY DeviceType DEF WireInv, TypeInv, TypeOK, Daemons
<1>2. UNCHANGED <<main, stdin, output, watch, device_found, packet>>
  BY DEF DeviceStep, threadVars
<1>3. Alone'
  BY <1>1, <1>2 DEF Alone
<1>4. CASE DeviceReads
  BY <1>1, <1>2, <1>3, <1>4, DeviceReadsWire DEF WireInv
<1>5. CASE DeviceWrites \/ DeviceCloses
  <2>1. /\ adbd.phase = "open" /\ UNCHANGED toDevice
        /\ adbd'.half = adbd.half /\ adbd'.phase \in {"open", "closed"}
    BY <1>1, <1>5 DEF DeviceWrites, DeviceCloses, Daemons
  <2>2. Framed'
    BY <1>1, <1>2, <2>1 DEF Framed, Announces
  <2>3. Silent'
    BY <1>1, <1>2, <2>1 DEF Silent
  <2>4. QED
    BY <1>1, <1>3, <2>2, <2>3 DEF WireInv
<1>6. QED
  BY <1>4, <1>5 DEF DeviceStep

\* In command mode every step keeps the wire invariant.
LEMMA NextWire == Mode = "command" /\ WireInv /\ [Next]_vars => WireInv'
<1>1. WireInv /\ UNCHANGED vars => WireInv'
  <2> SUFFICES ASSUME WireInv, UNCHANGED vars PROVE WireInv'
    OBVIOUS
  <2>1. UNCHANGED <<main, stdin, output, watch, device_found, packet, toHost,
                    toDevice, adbd>>
    BY DEF vars, threadVars, devVars
  <2>2. TypeInv'
    BY NextType DEF WireInv
  <2>3. Alone'
    BY <2>1 DEF WireInv, Alone
  <2>4. Framed' /\ Silent'
    BY <2>1, KeepFramed DEF WireInv, Silent
  <2>5. QED
    BY <2>2, <2>3, <2>4 DEF WireInv
<1>2. WireInv => ~ StdinStep
  BY StdinWire DEF WireInv
<1>3. QED
  BY <1>1, <1>2, WatchWire, MainWire, OutputWire, DeviceWire DEF Next

\* When a command is run, remote_write's two unlocked transfers per packet are
\* never torn apart although three threads write: watch is through with
\* CONNECT before main is told, and the output thread has nothing to answer
\* before the OPEN is complete.
THEOREM WholeInCommandMode ==
  Mode = "command" => (Spec => []MessagesWhole)
<1> SUFFICES ASSUME Mode = "command"
             PROVE  Spec => []MessagesWhole
  OBVIOUS
<1>1. Init => WireInv
  BY InitWire
<1>2. WireInv /\ [Next]_vars => WireInv'
  BY NextWire
<1>3. WireInv => MessagesWhole
  BY DEF WireInv, Framed, MessagesWhole
<1>4. QED
  BY <1>1, <1>2, <1>3, PTL DEF Spec
-----------------------------------------------------------------------------
(***************************************************************************)
(* Sequences, seen as the set of their elements                            *)
(***************************************************************************)

\* Appending adds one element behind the others.
LEMMA AppendRange ==
  ASSUME NEW S, NEW s \in Seq(S), NEW e \in S
  PROVE  LET t == Append(s, e) IN
         /\ t \in Seq(S)
         /\ Len(s) \in Nat /\ Len(t) = Len(s) + 1
         /\ DOMAIN s = 1 .. Len(s) /\ DOMAIN t = 1 .. Len(s) + 1
         /\ \A i \in 1 .. Len(s) : t[i] = s[i]
         /\ t[Len(s) + 1] = e
         /\ Range(t) = Range(s) \cup {e}
<1> DEFINE t == Append(s, e)
<1>1. /\ t \in Seq(S)
      /\ Len(s) \in Nat /\ Len(t) = Len(s) + 1
      /\ DOMAIN s = 1 .. Len(s) /\ DOMAIN t = 1 .. Len(t)
      /\ \A i \in 1 .. Len(s) : t[i] = s[i]
      /\ t[Len(s) + 1] = e
  BY AppendProperties, LenProperties
<1>2. Range(t) \subseteq Range(s) \cup {e}
  <2>1. \A i \in 1 .. Len(t) : i \in 1 .. Len(s) \/ i = Len(s) + 1
    BY <1>1
  <2>2. QED
    BY <1>1, <2>1 DEF Range
<1>3. Range(s) \cup {e} \subseteq Range(t)
  <2>1. 1 .. Len(s) \subseteq 1 .. Len(t) /\ Len(s) + 1 \in 1 .. Len(t)
    BY <1>1
  <2>2. QED
    BY <1>1, <2>1 DEF Range
<1>4. QED
  BY <1>1, <1>2, <1>3

\* Taking the head leaves the others in their order.
LEMMA TailRange ==
  ASSUME NEW S, NEW s \in Seq(S), s # <<>>
  PROVE  LET t == Tail(s) IN
         /\ t \in Seq(S)
         /\ Len(s) \in Nat \ {0} /\ Len(t) = Len(s) - 1 /\ Len(t) \in Nat
         /\ DOMAIN s = 1 .. Len(s) /\ DOMAIN t = 1 .. Len(t)
         /\ \A i \in 1 .. Len(t) : i + 1 \in 1 .. Len(s) /\ t[i] = s[i + 1]
         /\ 1 \in 1 .. Len(s) /\ Head(s) = s[1]
         /\ Range(s) = {Head(s)} \cup Range(t)
<1> DEFINE t == Tail(s)
<1>1. /\ t \in Seq(S)
      /\ Len(s) \in Nat \ {0} /\ Len(t) = Len(s) - 1
      /\ DOMAIN s = 1 .. Len(s) /\ DOMAIN t = 1 .. Len(t)
      /\ \A i \in 1 .. Len(t) : t[i] = s[i + 1]
      /\ Head(s) = s[1]
  BY HeadTailProperties, LenProperties, EmptySeq
<1>2. /\ 1 \in 1 .. Len(s) /\ Len(t) \in Nat
      /\ \A i \in 1 .. Len(t) : i + 1 \in 1 .. Len(s)
  BY <1>1
<1>3. Range(t) \subseteq Range(s) /\ Head(s) \in Range(s)
  BY <1>1, <1>2 DEF Range
<1>4. Range(s) \subseteq {Head(s)} \cup Range(t)
  <2>1. ASSUME NEW i \in 1 .. Len(s), i # 1
        PROVE  i - 1 \in 1 .. Len(t) /\ t[i - 1] = s[i]
    <3>1. i - 1 \in 1 .. Len(t) /\ (i - 1) + 1 = i
      BY <1>1, <2>1
    <3>2. QED
      BY <1>1, <3>1
  <2>2. \A i \in 1 .. Len(s) : i # 1 => s[i] \in Range(t)
    BY <1>1, <2>1 DEF Range
  <2>3. QED
    BY <1>1, <2>2 DEF Range
<1>5. QED
  BY <1>1, <1>2, <1>3, <1>4

\* An empty sequence has no element.
LEMMA EmptyRange == Range(<<>>) = {} /\ Len(<<>>) = 0
<1>1. DOMAIN <<>> = {}
  OBVIOUS
<1>2. QED
  BY <1>1, EmptySeq DEF Range

\* Every element of a sequence is of its type.
LEMMA RangeType ==
  ASSUME NEW S, NEW s \in Seq(S)
  PROVE  Range(s) \subseteq S /\ DOMAIN s = 1 .. Len(s) /\ Len(s) \in Nat
BY LenProperties, ElementOfSeq DEF Range
-----------------------------------------------------------------------------
(***************************************************************************)
(* What adbd does when it reads a transfer                                 *)
(***************************************************************************)

\* The packet that the next transfer completes, when it completes one: a
\* header without payload is a packet by itself.
Whole == IF Head(toDevice).part = "header" THEN Head(toDevice).packet
         ELSE adbd.half

\* The stream, if there is one, keeps its name, and none is opened.
SameStream ==
  /\ adbd'.lid = adbd.lid /\ adbd'.peer = adbd.peer
  /\ adbd'.writes = adbd.writes
  /\ adbd'.phase = "open" => adbd.phase = "open"
  /\ adbd.phase = "closed" => adbd'.phase \in {"closed", "desync"}

\* Only a stream that stands is closed.
NoRefusal == adbd'.phase = "closed" => adbd.phase \in {"open", "closed"}

\* The transfer is a half, is dropped or closes the stream: no answer.
Quiet ==
  /\ SameStream /\ NoRefusal /\ adbd'.credit = adbd.credit
  /\ UNCHANGED toHost
  /\ \/ adbd'.half \in {Nothing, adbd.half}
     \/ /\ adbd'.half = Head(toDevice).packet
        /\ Head(toDevice).part = "header" /\ HasPayload(Head(toDevice).packet)

\* A CONNECT is answered with a CONNECT.
Greets ==
  /\ SameStream /\ NoRefusal /\ adbd'.credit = adbd.credit /\ adbd'.half = Nothing
  /\ usb_send(Connect)

\* A READY lets the service write again.
Grants ==
  /\ Whole.cmd = "OKAY" /\ Whole.arg1 = adbd.lid /\ adbd.phase = "open"
  /\ SameStream /\ NoRefusal /\ adbd'.credit = TRUE /\ adbd'.half = Nothing
  /\ UNCHANGED toHost

\* A WRITE is answered with a READY.
Confirms ==
  /\ Whole.cmd = "WRTE" /\ adbd.phase = "open"
  /\ SameStream /\ NoRefusal /\ adbd'.credit = adbd.credit /\ adbd'.half = Nothing
  /\ usb_send(Packet("OKAY", adbd.lid, adbd.peer, 0))

\* An OPEN is answered with a READY that names the new stream,
Accepts ==
  /\ Whole.cmd = "OPEN"
  /\ adbd'.lid \in DevIds /\ adbd'.peer = Whole.arg0 /\ adbd'.phase = "open"
  /\ adbd'.writes = adbd.writes /\ adbd'.credit = TRUE /\ adbd'.half = Nothing
  /\ usb_send(Packet("OKAY", adbd'.lid, adbd'.peer, 0))

\* or with a CLOSE.
Refuses ==
  /\ Whole.cmd = "OPEN"
  /\ SameStream /\ adbd'.credit = adbd.credit /\ adbd'.half = Nothing
  /\ adbd'.phase = "closed"
  /\ usb_send(Packet("CLSE", 0, Whole.arg0, 0))

\* adbd does one of these with every transfer.
LEMMA ReadsOutcome ==
  ASSUME TypeInv, DeviceReads
  PROVE  /\ Quiet \/ Greets \/ Grants \/ Confirms \/ Accepts \/ Refuses
         /\ toDevice # <<>> /\ toDevice' = Tail(toDevice)
         /\ produced' = produced /\ adbd.phase # "desync"
         /\ Whole \in Packets /\ Head(toDevice) \in Transfers
<1>1. /\ adbd \in Daemons /\ toDevice \in Seq(Transfers)
      /\ DevIds \subseteq Nat
  BY SessionAssumption DEF TypeInv, TypeOK, Daemons, SessionAssumption
<1>2. /\ toDevice # <<>> /\ toDevice' = Tail(toDevice)
      /\ produced' = produced /\ adbd.phase # "desync"
      /\ Head(toDevice) \in Transfers
  BY <1>1, HeadTailProperties DEF DeviceReads
<1>3. Head(toDevice).packet \in Packets /\ adbd.half \in Packets
      /\ Head(toDevice).part \in {"header", "payload"}
  BY <1>1, <1>2 DEF Transfers, Daemons
<1>4. Whole \in Packets
  BY <1>3 DEF Whole
<1>5. \/ Receive(Whole)
      \/ /\ adbd' = [adbd EXCEPT !.half = Head(toDevice).packet]
         /\ Head(toDevice).part = "header" /\ HasPayload(Head(toDevice).packet)
         /\ UNCHANGED toHost
      \/ adbd' = [adbd EXCEPT !.phase = "desync"] /\ UNCHANGED toHost
  BY <1>3 DEF DeviceReads, Whole
<1>6. CASE Receive(Whole)
  <2>1. CASE /\ Whole.cmd = "CNXN"
             /\ usb_send(Connect)
             /\ adbd' = [adbd EXCEPT !.half = Nothing,
                           !.phase = IF Online THEN @ ELSE "online"]
    <3>1. Greets
      BY <1>1, <2>1 DEF Greets, SameStream, NoRefusal, Daemons, Online
    <3>2. QED
      BY <1>2, <1>4, <3>1
  <2>2. CASE Whole.cmd = "OPEN" /\ Receive(Whole)
    <3>1. Accepts \/ Refuses \/ Quiet
      BY <1>1, <2>2
      DEF Receive, Accepts, Refuses, Quiet, SameStream, NoRefusal, Daemons
    <3>2. QED
      BY <1>2, <1>4, <3>1
  <2>3. CASE Whole.cmd \in {"OKAY", "WRTE", "CLSE"} /\ Receive(Whole)
    <3>1. Grants \/ Confirms \/ Quiet
      BY <1>1, <2>3 DEF Receive, Grants, Confirms, Quiet, SameStream, NoRefusal, Daemons
    <3>2. QED
      BY <1>2, <1>4, <3>1
  <2>4. QED
    BY <1>4, <1>6, <2>1, <2>2, <2>3 DEF Receive, Packets, Commands
<1>7. CASE \/ /\ adbd' = [adbd EXCEPT !.half = Head(toDevice).packet]
              /\ Head(toDevice).part = "header"
              /\ HasPayload(Head(toDevice).packet) /\ UNCHANGED toHost
           \/ adbd' = [adbd EXCEPT !.phase = "desync"] /\ UNCHANGED toHost
  <2>1. Quiet
    BY <1>1, <1>7 DEF Quiet, SameStream, NoRefusal, Daemons
  <2>2. QED
    BY <1>2, <1>4, <2>1
<1>8. QED
  BY <1>5, <1>6, <1>7
-----------------------------------------------------------------------------
(***************************************************************************)
(* There is one stream, and both sides mean it                             *)
(***************************************************************************)

\* send_open is over, or the program is.
Late == {"dump", "close", "keys", "keys payload", "exit"}

\* A packet from the device names the stream that adbd opened; a refusal, with
\* no stream to name, has 0.
FromDevice(q) ==
  /\ q.cmd = "OKAY" => adbd.lid # 0 /\ q.arg0 = adbd.lid /\ q.arg1 = 1
  /\ q.cmd = "WRTE" => adbd.lid # 0 /\ q.arg0 = adbd.lid /\ q.arg1 = 1
  /\ q.cmd = "CLSE" => /\ adbd.phase \in {"closed", "desync"}
                       /\ q.arg0 = adbd.lid /\ q.arg1 = 1

\* A WRITE for the device names it too; a READY is a header and no more.
ToDevice(t) ==
  /\ t.packet.cmd = "OPEN" => t.packet.arg0 = 1
  /\ t.packet.cmd = "WRTE" => adbd.lid # 0 /\ t.packet.arg1 = adbd.lid
  /\ t.packet.cmd = "OKAY" => adbd.lid # 0 /\ t.part = "header"
  /\ t.packet.cmd \in {"OKAY", "CLSE"} => t.packet.data = 0

\* The i-th unread transfer is the header of an OPEN.
OpenAt(i) == toDevice[i].part = "header" /\ toDevice[i].packet.cmd = "OPEN"

\* OPEN is on its way once at most, and only before it is answered.
OneOpen ==
  /\ \A i, j \in DOMAIN toDevice : OpenAt(i) /\ OpenAt(j) => i = j
  /\ (adbd.half.cmd = "OPEN" \/ seed = 0 \/ adbd.lid # 0
        \/ adbd.phase = "closed")
       => \A i \in DOMAIN toDevice : ~ OpenAt(i)
  /\ adbd.half.cmd = "OPEN" =>
       /\ seed = 1 /\ adbd.lid = 0 /\ adbd.phase # "closed"
       /\ adbd.half.arg0 = 1

\* adbd has the host's only seed as its peer; without a stream it has nothing
\* to write.
Daemon ==
  /\ adbd.lid # 0 => adbd.lid \in DevIds /\ adbd.peer = 1 /\ seed = 1
  /\ adbd.lid = 0 => /\ adbd.phase # "open" /\ ~ adbd.credit
                     /\ adbd.writes = 0 /\ produced = <<>>
  /\ adbd.phase = "closed" => seed = 1
  /\ adbd.half.cmd \notin {"OKAY", "CLSE"}

\* id and remote_id are unset or name the stream.
Ids ==
  /\ id = -1 \/ (id = 1 /\ adbd.lid # 0)
  /\ remote_id = -1 \/ (remote_id = adbd.lid /\ adbd.lid # 0)

\* Main has taken its seed once it sends OPEN; a payload is only written after
\* its header, and remote_id stays set once send_open is over.
Threads ==
  /\ main \notin {"wait", "expired", "open", "exit"} => seed = 1
  /\ stdin # "off" => main \in Late
  /\ stdin = "payload" \/ main = "keys payload" => remote_id # -1
  /\ output \in {"remote_id", "clear", "store"} => packet.cmd = "OKAY"
  /\ output = "ready" => packet.cmd = "WRTE"

StreamInv ==
  /\ OneOpen /\ Daemon /\ Ids /\ Threads
  /\ \A q \in Range(toHost) \cup {packet} : FromDevice(q)
  /\ \A t \in Range(toDevice) : ToDevice(t)

\* Before anything was sent there is no stream.
LEMMA InitStream == ASSUME Init PROVE StreamInv
<1>1. /\ toDevice = <<>> /\ toHost = <<>> /\ packet = Nothing
      /\ adbd.half = Nothing /\ adbd.lid = 0 /\ adbd.phase = "offline"
      /\ ~ adbd.credit /\ adbd.writes = 0 /\ produced = <<>>
      /\ id = -1 /\ remote_id = -1 /\ stdin = "off" /\ output = "read"
      /\ main = "wait" /\ seed = 0
  BY DEF Init
<1>2. Nothing.cmd = "CNXN"
  BY DEF Nothing, Packet
<1>3. Range(toDevice) = {} /\ Range(toHost) = {} /\ DOMAIN toDevice = {}
  BY <1>1, EmptyRange
<1>4. OneOpen /\ Daemon /\ Ids /\ Threads
  BY <1>1, <1>2, <1>3 DEF OneOpen, Daemon, Ids, Threads
<1>5. QED
  BY <1>1, <1>2, <1>3, <1>4 DEF StreamInv, FromDevice

\* Steps that leave the OUT pipe and adbd alone.
LEMMA KeepOut ==
  ASSUME StreamInv, UNCHANGED <<toDevice, adbd, seed, produced>>
  PROVE  OneOpen' /\ Daemon' /\ (\A t \in Range(toDevice) : ToDevice(t))'
BY DEF StreamInv, OneOpen, OpenAt, Daemon, ToDevice

\* A transfer that is no OPEN and names the stream can be queued any time.
LEMMA SendOut ==
  ASSUME TypeInv, StreamInv, UNCHANGED <<adbd, seed, produced>>,
         NEW part \in {"header", "payload"}, NEW p \in Packets,
         usb_write(part, p), ToDevice([part |-> part, packet |-> p]),
         p.cmd # "OPEN" \/ part # "header"
  PROVE  OneOpen' /\ Daemon' /\ (\A t \in Range(toDevice) : ToDevice(t))'
<1> DEFINE new == [part |-> part, packet |-> p]
<1>1. toDevice \in Seq(Transfers) /\ new \in Transfers
      /\ toDevice' = Append(toDevice, new)
      /\ new.part = part /\ new.packet = p
  BY DEF TypeInv, TypeOK, Transfers, usb_write
<1> HIDE DEF new
<1>2. /\ Len(toDevice) \in Nat
      /\ DOMAIN toDevice = 1 .. Len(toDevice)
      /\ DOMAIN toDevice' = 1 .. Len(toDevice) + 1
      /\ \A i \in 1 .. Len(toDevice) : toDevice'[i] = toDevice[i]
      /\ toDevice'[Len(toDevice) + 1] = new
      /\ Range(toDevice') = Range(toDevice) \cup {new}
  BY <1>1, AppendRange
<1>3. \A i \in DOMAIN toDevice' : OpenAt(i)' =>
        i \in DOMAIN toDevice /\ OpenAt(i)
  <2>1. TAKE i \in DOMAIN toDevice'
  <2>2. i \in 1 .. Len(toDevice) \/ i = Len(toDevice) + 1
    BY <1>2
  <2>3. QED
    BY <1>1, <1>2, <2>2 DEF OpenAt
<1>4. OneOpen'
  BY <1>3 DEF StreamInv, OneOpen
<1>5. Daemon'
  BY DEF StreamInv, Daemon
<1>6. (\A t \in Range(toDevice) : ToDevice(t))'
  BY <1>2 DEF StreamInv, ToDevice, new
<1>7. QED
  BY <1>4, <1>5, <1>6

\* The watch thread only sends CONNECT.
LEMMA WatchStream ==
  ASSUME TypeInv, StreamInv, WatchStep
  PROVE  StreamInv'
<1>1. UNCHANGED <<main, stdin, output, seed, id, remote_id, packet, toHost,
                  adbd, produced>>
  BY DEF WatchStep, streamVars, devVars
<1>2. Ids' /\ Threads' /\ (\A q \in Range(toHost) \cup {packet} : FromDevice(q))'
  BY <1>1 DEF StreamInv, Ids, Threads, FromDevice
<1>3. Connect \in Packets /\ Connect.cmd = "CNXN"
  BY ConstantPackets DEF Connect, Packet
<1>4. \/ UNCHANGED toDevice
      \/ \E part \in {"header", "payload"} : usb_write(part, Connect)
  BY DEF WatchStep, SendConnect, DeviceFound
<1>5. OneOpen' /\ Daemon' /\ (\A t \in Range(toDevice) : ToDevice(t))'
  <2>1. CASE UNCHANGED toDevice
    BY <1>1, <2>1, KeepOut
  <2>2. ASSUME NEW part \in {"header", "payload"}, usb_write(part, Connect)
        PROVE  OneOpen' /\ Daemon' /\ (\A t \in Range(toDevice) : ToDevice(t))'
    <3>1. ToDevice([part |-> part, packet |-> Connect])
      BY <1>3 DEF ToDevice
    <3>2. QED
      BY <1>1, <1>3, <2>2, <3>1, SendOut
  <2>3. QED
    BY <1>4, <2>1, <2>2
<1>6. QED
  BY <1>2, <1>5 DEF StreamInv

\* send_write's two halves, for a caller that writes the payload only after
\* its header.
LEMMA WriteStream ==
  ASSUME TypeInv, StreamInv, UNCHANGED <<adbd, seed, produced>>,
         WriteHeader \/ (WritePayload /\ remote_id # -1)
  PROVE  /\ OneOpen' /\ Daemon' /\ (\A t \in Range(toDevice) : ToDevice(t))'
<1>0. remote_id \in Int
  BY DEF TypeInv, TypeOK
<1>1. Packet("WRTE", 0, remote_id, 1) \in Packets
  BY <1>0, PacketType DEF Commands
<1>2. CASE UNCHANGED toDevice
  BY <1>2, KeepOut
<1>3. ASSUME NEW part \in {"header", "payload"}, remote_id # -1,
             usb_write(part, Packet("WRTE", 0, remote_id, 1))
      PROVE  OneOpen' /\ Daemon' /\ (\A t \in Range(toDevice) : ToDevice(t))'
  <2> DEFINE p == Packet("WRTE", 0, remote_id, 1)
  <2>1. p.cmd = "WRTE" /\ p.arg1 = remote_id
    BY DEF Packet
  <2>2. ToDevice([part |-> part, packet |-> p])
    BY <1>3, <2>1 DEF ToDevice, StreamInv, Ids
  <2>3. QED
    BY <1>1, <1>3, <2>1, <2>2, SendOut
<1>4. QED
  BY <1>2, <1>3 DEF WriteHeader, WritePayload

\* send_close, whoever calls it.
LEMMA CloseStream ==
  ASSUME TypeInv, StreamInv, UNCHANGED <<adbd, seed, produced>>,
         usb_write("header", Packet("CLSE", id, remote_id, 0))
  PROVE  /\ OneOpen' /\ Daemon' /\ (\A t \in Range(toDevice) : ToDevice(t))'
<1> DEFINE p == Packet("CLSE", id, remote_id, 0)
<1>1. p \in Packets
  BY PacketType DEF TypeInv, TypeOK, Commands
<1>2. p.cmd = "CLSE" /\ p.data = 0
  BY DEF Packet
<1>3. ToDevice([part |-> "header", packet |-> p])
  BY <1>2 DEF ToDevice
<1>4. QED
  BY <1>1, <1>2, <1>3, SendOut

\* Before its OPEN main has no stream; afterwards seed is 1 for good.
LEMMA MainStream ==
  ASSUME TypeInv, StreamInv, MainStep
  PROVE  StreamInv'
<1>1. UNCHANGED <<output, packet, toHost, adbd, produced>>
  BY DEF MainStep, devVars
<1>2. (\A q \in Range(toHost) \cup {packet} : FromDevice(q))'
  BY <1>1 DEF StreamInv, FromDevice
<1>3. /\ seed \in 0 .. 1 /\ (main = "open" => seed = 0)
      /\ toDevice \in Seq(Transfers) /\ main \in Places
  BY DEF TypeInv, TypeOK, SeedFresh, Places
<1>4. CASE Wait \/ Expire
  <2>1. /\ UNCHANGED <<stdin, seed, id, remote_id, toDevice>>
        /\ main \in {"wait", "expired"} /\ main' \in {"open", "expired", "exit"}
    BY <1>4 DEF Wait, Expire, streamVars
  <2>2. Ids' /\ Threads'
    BY <1>1, <2>1 DEF StreamInv, Ids, Threads, Late
  <2>3. QED
    BY <1>1, <1>2, <2>1, <2>2, KeepOut DEF StreamInv
<1>5. CASE send_open /\ main = "open"
  <2> DEFINE open == Packet("OPEN", 1, 0, 1)
             new == [part |-> "header", packet |-> open]
  <2>1. /\ seed = 0 /\ seed' = 1 /\ main' = "payload"
        /\ UNCHANGED <<stdin, id, remote_id>>
        /\ toDevice' = Append(toDevice, new)
    BY <1>3, <1>5 DEF send_open, usb_write
  <2>2. open \in Packets /\ open.cmd = "OPEN" /\ open.arg0 = 1
    BY PacketType DEF Commands, Packet
  <2>3. new \in Transfers /\ new.packet = open
    BY <2>2 DEF Transfers
  <2> HIDE DEF open, new
  <2>4. /\ Len(toDevice) \in Nat
        /\ DOMAIN toDevice = 1 .. Len(toDevice)
        /\ DOMAIN toDevice' = 1 .. Len(toDevice) + 1
        /\ \A i \in 1 .. Len(toDevice) : toDevice'[i] = toDevice[i]
        /\ Range(toDevice') = Range(toDevice) \cup {new}
    BY <1>3, <2>1, <2>3, AppendRange
  <2>5. \A i \in DOMAIN toDevice' : OpenAt(i)' => i = Len(toDevice) + 1
    <3>1. \A i \in DOMAIN toDevice : ~ OpenAt(i)
      BY <2>1 DEF StreamInv, OneOpen
    <3>2. \A i \in DOMAIN toDevice' : i \in DOMAIN toDevice \/ i = Len(toDevice) + 1
      BY <2>4
    <3>3. QED
      BY <2>4, <3>1, <3>2 DEF OpenAt
  <2>6. adbd.lid = 0 /\ adbd.half.cmd # "OPEN" /\ adbd.phase # "closed"
    BY <2>1 DEF StreamInv, Daemon, OneOpen
  <2>7. OneOpen'
    BY <1>1, <2>1, <2>5, <2>6 DEF OneOpen
  <2>8. Daemon' /\ Ids' /\ Threads'
    BY <1>1, <1>5, <2>1, <2>6 DEF StreamInv, Daemon, Ids, Threads, Late
  <2>9. (\A t \in Range(toDevice) : ToDevice(t))'
    BY <1>1, <2>2, <2>3, <2>4 DEF StreamInv, ToDevice
  <2>10. QED
    BY <1>2, <2>7, <2>8, <2>9 DEF StreamInv
<1>6. CASE send_open /\ main = "payload"
  <2>1. /\ UNCHANGED <<stdin, seed, id, remote_id>> /\ main' = "reset id"
        /\ usb_write("payload", Open) /\ seed = 1
    <3>1. seed = 1
      BY <1>6 DEF StreamInv, Threads
    <3>2. QED
      BY <1>3, <1>6, <3>1 DEF send_open, streamVars
  <2>2. Ids' /\ Threads'
    BY <1>1, <1>6, <2>1 DEF StreamInv, Ids, Threads, Late
  <2>3. Open \in Packets /\ Open.arg0 = 1 /\ Open.cmd = "OPEN"
    <3>1. Packet("OPEN", 1, 0, 1) \in Packets
      BY PacketType DEF Commands
    <3>2. QED
      BY <2>1, <3>1 DEF Open, Packet
  <2>4. ToDevice([part |-> "payload", packet |-> Open])
    BY <2>3 DEF ToDevice
  <2>5. QED
    BY <1>1, <1>2, <2>1, <2>2, <2>3, <2>4, SendOut DEF StreamInv
<1>7. CASE send_open /\ main \in {"reset id", "reset remote_id"}
  <2>1. /\ UNCHANGED <<seed, toDevice>>
        /\ id' \in {id, -1} /\ remote_id' \in {remote_id, -1}
        /\ main = "reset id" => main' = "reset remote_id" /\ stdin' = stdin
        /\ main = "reset remote_id" => /\ main' \in {"keys", "dump"}
                                       /\ stdin' \in {"off", "read"}
    BY <1>7 DEF send_open
  <2>2. Ids' /\ Threads'
    BY <1>1, <1>7, <2>1 DEF StreamInv, Ids, Threads, Late
  <2>3. QED
    BY <1>1, <1>2, <2>1, <2>2, KeepOut DEF StreamInv
<1>8. CASE read_and_dump
  <2>1. /\ UNCHANGED <<stdin, seed, id, remote_id, toDevice>>
        /\ main = "dump" /\ main' \in {"dump", "close", "exit"}
    BY <1>8 DEF read_and_dump, streamVars
  <2>2. Ids' /\ Threads'
    BY <1>1, <2>1 DEF StreamInv, Ids, Threads, Late
  <2>3. QED
    BY <1>1, <1>2, <2>1, <2>2, KeepOut DEF StreamInv
<1>9. CASE send_close
  <2>1. /\ UNCHANGED <<stdin, seed, id, remote_id>> /\ main' = "exit"
        /\ usb_write("header", Packet("CLSE", id, remote_id, 0))
    BY <1>9 DEF send_close, streamVars
  <2>2. Ids' /\ Threads'
    BY <1>1, <2>1 DEF StreamInv, Ids, Threads, Late
  <2>3. QED
    BY <1>1, <1>2, <2>1, <2>2, CloseStream DEF StreamInv
<1>10. CASE send_command
  <2>1. /\ UNCHANGED <<stdin, seed, id, remote_id>>
        /\ main \in {"keys", "keys payload"} /\ main' \in {"keys", "keys payload"}
        /\ main = "keys" => /\ WriteHeader
                            /\ (main' = "keys payload" => remote_id # -1)
        /\ main = "keys payload" => main' = "keys" /\ WritePayload
    BY <1>10 DEF send_command, streamVars
  <2>2. Ids' /\ Threads'
    BY <1>1, <2>1 DEF StreamInv, Ids, Threads, Late
  <2>3. main = "keys payload" => remote_id # -1
    BY DEF StreamInv, Threads
  <2>4. QED
    BY <1>1, <1>2, <2>1, <2>2, <2>3, WriteStream DEF StreamInv
<1>11. QED
  BY <1>4, <1>5, <1>6, <1>7, <1>8, <1>9, <1>10 DEF MainStep, send_open

\* The user's input is sent to the stream or not at all.
LEMMA StdinStream ==
  ASSUME TypeInv, StreamInv, StdinStep
  PROVE  StreamInv'
<1>1. UNCHANGED <<output, seed, id, remote_id, packet, toHost, adbd, produced>>
  BY DEF StdinStep, streamVars, devVars
<1>2. /\ (\A q \in Range(toHost) \cup {packet} : FromDevice(q))'
      /\ Ids'
  BY <1>1 DEF StreamInv, FromDevice, Ids
<1>3. stdin # "off" /\ main \in Late
  BY DEF StdinStep, TypeText, TypeTextPayload, TypeControlD, TypeEscape, TypeEOF,
         StreamInv, Threads
<1>4. CASE TypeText
  <2>1. /\ WriteHeader /\ UNCHANGED main
        /\ stdin' = IF remote_id = -1 THEN "read" ELSE "payload"
    BY <1>4 DEF TypeText
  <2>2. Threads'
    BY <1>1, <1>3, <2>1 DEF StreamInv, Threads
  <2>3. QED
    BY <1>1, <1>2, <2>1, <2>2, WriteStream DEF StreamInv
<1>5. CASE TypeTextPayload
  <2>1. /\ WritePayload /\ UNCHANGED main /\ stdin' = "read"
        /\ remote_id # -1
    BY <1>5 DEF TypeTextPayload, StreamInv, Threads
  <2>2. Threads'
    BY <1>1, <1>3, <2>1 DEF StreamInv, Threads
  <2>3. QED
    BY <1>1, <1>2, <2>1, <2>2, WriteStream DEF StreamInv
<1>6. CASE TypeControlD
  <2>1. /\ UNCHANGED main /\ stdin' = "off"
        /\ usb_write("header", Packet("CLSE", id, remote_id, 0))
    BY <1>6 DEF TypeControlD
  <2>2. Threads'
    BY <1>1, <1>3, <2>1 DEF StreamInv, Threads
  <2>3. QED
    BY <1>1, <1>2, <2>1, <2>2, CloseStream DEF StreamInv
<1>7. CASE TypeEscape \/ TypeEOF
  <2>1. /\ main' \in {main, "exit"} /\ stdin' \in {stdin, "off"}
        /\ UNCHANGED toDevice /\ stdin = "read"
    BY <1>7 DEF TypeEscape, TypeEOF
  <2>2. Threads'
    BY <1>1, <1>3, <2>1 DEF StreamInv, Threads, Late
  <2>3. QED
    BY <1>1, <1>2, <2>1, <2>2, KeepOut DEF StreamInv
<1>8. QED
  BY <1>4, <1>5, <1>6, <1>7 DEF StdinStep

\* The ids the output thread takes from the first READY are the stream's.
LEMMA OutputThreadStream ==
  ASSUME TypeInv, StreamInv, OutputStep
  PROVE  StreamInv'
<1>1. UNCHANGED <<main, stdin, seed, adbd, produced>>
  BY DEF OutputStep
<1>2. /\ packet \in Packets /\ toHost \in Seq(Packets) /\ seed \in 0 .. 1
      /\ id \in Int /\ remote_id \in Int /\ adbd \in Daemons
  BY DEF TypeInv, TypeOK, Daemons
<1>3. adbd.lid # -1
  BY <1>2 DEF Daemons
<1>4. CASE remote_read
  <2>1. /\ toHost # <<>> /\ packet' = Head(toHost) /\ toHost' = Tail(toHost)
        /\ output' = "handle" /\ UNCHANGED <<id, remote_id, toDevice>>
    BY <1>4 DEF remote_read
  <2>2. Range(toHost) = {packet'} \cup Range(toHost')
    BY <1>2, <2>1, TailRange
  <2>3. (\A q \in Range(toHost) \cup {packet} : FromDevice(q))'
    BY <1>1, <2>2 DEF StreamInv, FromDevice
  <2>4. Ids' /\ Threads'
    BY <1>1, <2>1 DEF StreamInv, Ids, Threads
  <2>5. QED
    BY <1>1, <2>1, <2>3, <2>4, KeepOut DEF StreamInv
<1>5. CASE handle_packet
  <2>1. UNCHANGED <<packet, toHost, toDevice>>
    BY <1>5 DEF handle_packet
  <2>2. (\A q \in Range(toHost) \cup {packet} : FromDevice(q))'
    BY <1>1, <2>1 DEF StreamInv, FromDevice
  <2>3. FromDevice(packet)
    BY DEF StreamInv
  <2>4. CASE HandleFirstOkay
    <3>1. /\ output = "handle" => /\ packet.cmd = "OKAY" /\ packet.arg1 = seed
                                  /\ id' = seed /\ remote_id' = remote_id
                                  /\ output' = "remote_id"
          /\ output = "remote_id" => /\ remote_id' = packet.arg0 /\ id' = id
                                     /\ output' = "clear"
          /\ output \in {"clear", "store"} =>
               /\ UNCHANGED <<id, remote_id>> /\ output' \in {"store", "read"}
          /\ output \in {"handle", "remote_id", "clear", "store"}
      BY <2>4 DEF HandleFirstOkay, FirstOkay
    <3>2. output \in {"remote_id", "clear", "store"} => packet.cmd = "OKAY"
      BY DEF StreamInv, Threads
    <3>3. Ids'
      BY <1>1, <1>2, <2>3, <3>1, <3>2 DEF StreamInv, Ids, FromDevice
    <3>4. Threads'
      BY <1>1, <1>3, <2>1, <2>3, <3>1, <3>2 DEF StreamInv, Threads, FromDevice
    <3>5. QED
      BY <1>1, <2>1, <2>2, <3>3, <3>4, KeepOut DEF StreamInv
  <2>5. CASE HandleOkay \/ HandleClose \/ HandleWrite \/ HandleConnect
    <3>1. /\ UNCHANGED <<id, remote_id>> /\ output' \in {"read", "ready"}
          /\ output' = "ready" => packet.cmd = "WRTE"
      BY <2>5 DEF HandleOkay, HandleClose, HandleWrite, HandleConnect
    <3>2. Ids' /\ Threads'
      BY <1>1, <2>1, <3>1 DEF StreamInv, Ids, Threads
    <3>3. QED
      BY <1>1, <2>1, <2>2, <3>2, KeepOut DEF StreamInv
  <2>6. QED
    BY <1>5, <2>4, <2>5 DEF handle_packet
<1>6. CASE send_ready
  <2> DEFINE p == Packet("OKAY", id, remote_id, 0)
  <2>1. /\ usb_write("header", p) /\ output' = "read" /\ packet.cmd = "WRTE"
        /\ UNCHANGED <<id, remote_id, packet, toHost>>
    BY <1>6 DEF send_ready, StreamInv, Threads
  <2>2. adbd.lid # 0
    BY <2>1 DEF StreamInv, FromDevice
  <2>3. p \in Packets
    BY <1>2, PacketType DEF Commands
  <2>4. p.cmd = "OKAY" /\ p.data = 0
    BY DEF Packet
  <2>5. ToDevice([part |-> "header", packet |-> p])
    BY <2>2, <2>4 DEF ToDevice
  <2>6. Ids' /\ Threads' /\ (\A q \in Range(toHost) \cup {packet} : FromDevice(q))'
    BY <1>1, <2>1 DEF StreamInv, Ids, Threads, FromDevice
  <2>7. QED
    BY <1>1, <2>1, <2>3, <2>4, <2>5, <2>6, SendOut DEF StreamInv
<1>7. QED
  BY <1>4, <1>5, <1>6 DEF OutputStep

\* The OPEN that adbd answers is the host's only one.
LEMMA OpenFirst ==
  ASSUME TypeInv, StreamInv, DeviceReads, Whole.cmd = "OPEN"
  PROVE  /\ OpenAt(1) \/ adbd.half.cmd = "OPEN"
         /\ adbd.lid = 0 /\ seed = 1 /\ Whole.arg0 = 1
         /\ adbd.phase \notin {"closed", "desync"}
<1>1. /\ toDevice \in Seq(Transfers) /\ toDevice # <<>> /\ seed \in 0 .. 1
      /\ adbd.phase # "desync"
  BY DEF TypeInv, TypeOK, DeviceReads
<1>2. /\ Head(toDevice) = toDevice[1] /\ 1 \in DOMAIN toDevice
      /\ Head(toDevice) \in Range(toDevice)
  BY <1>1, TailRange
<1>3. CASE OpenAt(1)
  <2>1. adbd.lid = 0 /\ seed = 1 /\ adbd.phase # "closed"
    BY <1>1, <1>2, <1>3 DEF StreamInv, OneOpen
  <2>2. Whole.arg0 = 1
    BY <1>2, <1>3 DEF OpenAt, Whole, StreamInv, ToDevice
  <2>3. QED
    BY <1>1, <1>3, <2>1, <2>2
<1>4. CASE ~ OpenAt(1)
  <2>1. adbd.half.cmd = "OPEN" /\ Whole = adbd.half
    BY <1>2, <1>4 DEF OpenAt, Whole
  <2>2. QED
    BY <1>1, <2>1 DEF StreamInv, OneOpen
<1>5. QED
  BY <1>3, <1>4

\* What adbd answers names the stream, also when it opens it.
LEMMA ReadsStream ==
  ASSUME TypeInv, StreamInv, DeviceReads,
         UNCHANGED <<main, stdin, output, seed, id, remote_id, packet>>
  PROVE  StreamInv'
<1>1. /\ Quiet \/ Greets \/ Grants \/ Confirms \/ Accepts \/ Refuses
      /\ toDevice # <<>> /\ toDevice' = Tail(toDevice) /\ produced' = produced
      /\ adbd.phase # "desync" /\ Whole \in Packets /\ Head(toDevice) \in Transfers
  BY ReadsOutcome
<1>2. /\ toDevice \in Seq(Transfers) /\ toHost \in Seq(Packets)
      /\ adbd \in Daemons /\ seed \in 0 .. 1 /\ DevIds \subseteq Nat \ {0}
  BY SessionAssumption DEF TypeInv, TypeOK, Daemons, SessionAssumption
<1>3. /\ Len(toDevice') \in Nat
      /\ DOMAIN toDevice = 1 .. Len(toDevice)
      /\ DOMAIN toDevice' = 1 .. Len(toDevice')
      /\ \A i \in 1 .. Len(toDevice') :
           i + 1 \in 1 .. Len(toDevice) /\ toDevice'[i] = toDevice[i + 1]
      /\ 1 \in 1 .. Len(toDevice) /\ Head(toDevice) = toDevice[1]
      /\ Range(toDevice) = {Head(toDevice)} \cup Range(toDevice')
  BY <1>1, <1>2, TailRange
<1> DEFINE first == Head(toDevice)
<1>4. ToDevice(first) /\ (\A t \in Range(toDevice') : ToDevice(t))
  BY <1>3 DEF StreamInv
<1>5. first.part = "header" /\ first.packet.cmd = "OPEN" <=> OpenAt(1)
  BY <1>3 DEF OpenAt
<1>6. \A i, j \in DOMAIN toDevice' : OpenAt(i)' /\ OpenAt(j)' => i = j
  <2>1. ASSUME NEW i \in DOMAIN toDevice', NEW j \in DOMAIN toDevice',
               OpenAt(i)', OpenAt(j)'
        PROVE  i = j
    <3>1. /\ OpenAt(i + 1) /\ OpenAt(j + 1)
          /\ i + 1 \in DOMAIN toDevice /\ j + 1 \in DOMAIN toDevice
      BY <1>3, <2>1 DEF OpenAt
    <3>2. i + 1 = j + 1
      BY <3>1 DEF StreamInv, OneOpen
    <3>3. QED
      BY <1>3, <3>2
  <2>2. QED
    BY <2>1
<1>7. (\A i \in DOMAIN toDevice : ~ OpenAt(i)) \/ OpenAt(1)
        => \A i \in DOMAIN toDevice' : ~ OpenAt(i)'
  <2>1. ASSUME NEW i \in DOMAIN toDevice', OpenAt(i)'
        PROVE  /\ i + 1 \in DOMAIN toDevice /\ OpenAt(i + 1)
               /\ ~ OpenAt(1)
    <3>1. i + 1 \in DOMAIN toDevice /\ OpenAt(i + 1) /\ i \in Nat \ {0}
      BY <1>3, <2>1 DEF OpenAt
    <3>2. i + 1 # 1 /\ 1 \in DOMAIN toDevice
      BY <1>3, <3>1
    <3>3. QED
      BY <3>1, <3>2 DEF StreamInv, OneOpen
  <2>2. QED
    BY <2>1
<1>8. ASSUME Whole.cmd = "OPEN"
      PROVE  /\ adbd.lid = 0 /\ seed = 1 /\ Whole.arg0 = 1
             /\ adbd.phase # "closed"
             /\ \A i \in DOMAIN toDevice' : ~ OpenAt(i)'
  <2>1. /\ OpenAt(1) \/ adbd.half.cmd = "OPEN"
        /\ adbd.lid = 0 /\ seed = 1 /\ Whole.arg0 = 1
        /\ adbd.phase # "closed"
    BY <1>8, OpenFirst
  <2>2. QED
    BY <1>7, <2>1 DEF StreamInv, OneOpen
<1>9. Nothing.cmd = "CNXN" /\ Connect.cmd = "CNXN"
  BY DEF Nothing, Connect, Packet
<1>10. NoRefusal => (adbd'.phase = "closed" =>
                       adbd.phase = "closed" \/ (adbd.lid # 0 /\ seed = 1))
  BY DEF NoRefusal, StreamInv, Daemon
<1>11. ASSUME SameStream, NoRefusal, adbd'.half.cmd # "OPEN"
       PROVE  OneOpen'
  <2>1. (seed = 0 \/ adbd'.lid # 0 \/ adbd'.phase = "closed")
          => \A i \in DOMAIN toDevice : ~ OpenAt(i)
    BY <1>10, <1>11 DEF SameStream, StreamInv, OneOpen
  <2>2. QED
    BY <1>6, <1>7, <1>11, <2>1 DEF OneOpen
<1>12. ASSUME SameStream
       PROVE  /\ Ids' /\ Threads'
              /\ (\A t \in Range(toDevice) : ToDevice(t))'
              /\ FromDevice(packet)'
              /\ \A q \in Range(toHost) : FromDevice(q)'
  <2>1. /\ Ids' /\ Threads'
        /\ (\A t \in Range(toDevice) : ToDevice(t))'
    BY <1>4, <1>12 DEF SameStream, StreamInv, Ids, Threads, ToDevice
  <2>2. \A q \in Range(toHost) \cup {packet} : FromDevice(q) => FromDevice(q)'
    BY <1>1, <1>12 DEF SameStream, FromDevice
  <2>3. QED
    BY <2>1, <2>2 DEF StreamInv
<1>13. ASSUME SameStream, NoRefusal, adbd'.credit => adbd.credit \/ adbd.phase = "open",
              adbd'.half.cmd \notin {"OKAY", "CLSE"}
       PROVE  Daemon'
  BY <1>1, <1>10, <1>13 DEF SameStream, StreamInv, Daemon
<1>14. ASSUME NEW q \in Packets, usb_send(q)
       PROVE  Range(toHost') = Range(toHost) \cup {q}
  BY <1>2, <1>14, AppendRange DEF usb_send
<1>14a. ASSUME NEW q \in Packets, usb_send(q), SameStream, q.cmd # "WRTE",
               q.cmd = "OKAY" => /\ adbd.lid # 0 /\ q.arg0 = adbd.lid
                                 /\ q.arg1 = 1,
               q.cmd = "CLSE" => /\ adbd'.phase = "closed"
                                 /\ q.arg0 = adbd.lid /\ q.arg1 = 1
        PROVE  (\A r \in Range(toHost) \cup {packet} : FromDevice(r))'
  <2>1. FromDevice(q)'
    BY <1>14a DEF SameStream, FromDevice
  <2>2. Range(toHost') = Range(toHost) \cup {q}
    BY <1>14, <1>14a
  <2>3. QED
    BY <1>12, <1>14a, <2>1, <2>2
<1>15. CASE Quiet
  <2>1. adbd'.half.cmd = "OPEN" =>
          \/ adbd.half.cmd = "OPEN" /\ adbd'.half = adbd.half
          \/ OpenAt(1) /\ adbd'.half = first.packet
    BY <1>5, <1>9, <1>15 DEF Quiet
  <2>2. OneOpen'
    <3>1. CASE adbd'.half.cmd # "OPEN"
      BY <1>11, <1>15, <3>1 DEF Quiet
    <3>2. CASE adbd.half.cmd = "OPEN" /\ adbd'.half = adbd.half
      <4>1. SameStream /\ NoRefusal /\ adbd.lid = 0
        BY <1>15, <3>2 DEF Quiet, StreamInv, OneOpen
      <4>2. adbd'.phase # "closed"
        BY <1>10, <3>2, <4>1 DEF StreamInv, OneOpen
      <4>3. QED
        BY <1>6, <1>7, <3>2, <4>1, <4>2 DEF StreamInv, OneOpen, SameStream
    <3>3. CASE OpenAt(1) /\ adbd'.half = first.packet
      <4>1. adbd.lid = 0 /\ seed = 1 /\ adbd.phase # "closed"
        BY <1>2, <1>3, <3>3 DEF StreamInv, OneOpen
      <4>2. first.packet.arg0 = 1
        BY <1>4, <1>5, <3>3 DEF ToDevice
      <4>3. SameStream /\ adbd'.phase # "closed"
        BY <1>10, <1>15, <4>1 DEF Quiet
      <4>4. QED
        BY <1>6, <1>7, <3>3, <4>1, <4>2, <4>3 DEF OneOpen, SameStream
    <3>4. QED
      BY <2>1, <3>1, <3>2, <3>3
  <2>3. adbd'.half.cmd \notin {"OKAY", "CLSE"}
    <3>1. CASE adbd'.half \in {Nothing, adbd.half}
      BY <1>9, <3>1 DEF StreamInv, Daemon
    <3>2. CASE adbd'.half = first.packet /\ HasPayload(first.packet)
      \* A header without payload is a packet by itself.
      <4>1. first.packet.cmd \in {"OKAY", "CLSE"} => ~ HasPayload(first.packet)
        BY <1>4 DEF ToDevice, HasPayload
      <4>2. QED
        BY <3>2, <4>1
    <3>3. QED
      BY <1>15, <3>1, <3>2 DEF Quiet
  <2>4. QED
    BY <1>12, <1>13, <1>15, <2>2, <2>3 DEF Quiet, StreamInv
<1>16. CASE Greets \/ Grants
  <2>1. SameStream /\ NoRefusal /\ adbd'.half = Nothing
        /\ (adbd'.credit => adbd.credit \/ adbd.phase = "open")
    BY <1>16 DEF Greets, Grants
  <2>2. OneOpen' /\ Daemon'
    BY <1>9, <1>11, <1>13, <2>1
  <2>3. Range(toHost') \subseteq Range(toHost) \cup {Connect}
    BY <1>14, <1>16, ConstantPackets DEF Greets, Grants
  <2>4. FromDevice(Connect)'
    BY <1>9 DEF FromDevice
  <2>5. QED
    BY <1>12, <2>1, <2>2, <2>3, <2>4 DEF StreamInv
<1>17. CASE Confirms
  <2> DEFINE q == Packet("OKAY", adbd.lid, adbd.peer, 0)
  <2>1. SameStream /\ adbd'.half = Nothing /\ adbd'.credit = adbd.credit
        /\ adbd.phase = "open" /\ NoRefusal /\ usb_send(q)
    BY <1>17 DEF Confirms
  <2>2. OneOpen' /\ Daemon'
    BY <1>9, <1>11, <1>13, <2>1
  <2>3. q \in Packets /\ q.cmd = "OKAY" /\ q.arg0 = adbd.lid /\ q.arg1 = adbd.peer
    <3>1. q \in Packets
      BY <1>2, PacketType DEF Daemons, Commands
    <3>2. QED
      BY <3>1 DEF Packet
  <2>4. adbd.lid # 0 /\ adbd.peer = 1
    BY <2>1 DEF StreamInv, Daemon
  <2>5. (\A r \in Range(toHost) \cup {packet} : FromDevice(r))'
    BY <1>14a, <2>1, <2>3, <2>4
  <2>6. QED
    BY <1>12, <2>1, <2>2, <2>5 DEF StreamInv
<1>18. CASE Accepts
  <2> DEFINE q == Packet("OKAY", adbd'.lid, adbd'.peer, 0)
  <2>1. /\ adbd.lid = 0 /\ seed = 1 /\ adbd'.peer = 1 /\ adbd'.half = Nothing
        /\ adbd.phase \notin {"closed", "desync"} /\ adbd'.phase = "open"
        /\ adbd'.lid \in DevIds /\ adbd'.lid \in Nat \ {0}
        /\ \A i \in DOMAIN toDevice' : ~ OpenAt(i)'
        /\ usb_send(q)
    BY <1>1, <1>2, <1>8, <1>18 DEF Accepts
  <2>2. OneOpen' /\ Daemon'
    BY <1>9, <2>1 DEF OneOpen, Daemon
  <2>3. q \in Packets /\ q.cmd = "OKAY" /\ q.arg0 = adbd'.lid /\ q.arg1 = adbd'.peer
    <3>1. q \in Packets
      BY <2>1, PacketType DEF Commands
    <3>2. QED
      BY <3>1 DEF Packet
  <2>4. Ids' /\ Threads'
    BY <2>1 DEF StreamInv, Ids, Threads
  <2>5. \A r \in Range(toHost) \cup {packet} : r.cmd \notin {"OKAY", "WRTE", "CLSE"}
    BY <2>1 DEF StreamInv, FromDevice
  <2>6. Range(toHost') = Range(toHost) \cup {q}
    BY <1>14, <2>1, <2>3
  <2>7. (\A r \in Range(toHost) \cup {packet} : FromDevice(r))'
    BY <2>1, <2>3, <2>5, <2>6 DEF FromDevice
  <2>8. (\A t \in Range(toDevice) : ToDevice(t))'
    BY <1>4, <2>1 DEF ToDevice
  <2>9. QED
    BY <2>2, <2>4, <2>7, <2>8 DEF StreamInv
<1>19. CASE Refuses
  <2> DEFINE q == Packet("CLSE", 0, Whole.arg0, 0)
  <2>1. /\ SameStream /\ adbd'.half = Nothing /\ adbd'.credit = adbd.credit
        /\ adbd'.phase = "closed" /\ usb_send(q)
        /\ adbd.lid = 0 /\ seed = 1 /\ Whole.arg0 = 1
        /\ \A i \in DOMAIN toDevice' : ~ OpenAt(i)'
    BY <1>8, <1>19 DEF Refuses
  <2>2. OneOpen' /\ Daemon'
    BY <1>1, <1>9, <2>1 DEF OneOpen, Daemon, SameStream, StreamInv
  <2>3. q \in Packets
    <3>1. 0 \in Int /\ 0 \in Nat /\ Whole.arg0 \in Int /\ "CLSE" \in Commands
      BY <2>1 DEF Commands
    <3>2. QED
      BY <3>1, PacketType
  <2>4. q.cmd = "CLSE" /\ q.arg0 = 0 /\ q.arg1 = 1
    BY <2>1 DEF Packet
  <2>5. (\A r \in Range(toHost) \cup {packet} : FromDevice(r))'
    BY <1>14a, <2>1, <2>3, <2>4
  <2>6. QED
    BY <1>12, <2>1, <2>2, <2>5 DEF StreamInv
<1>20. QED
  BY <1>1, <1>15, <1>16, <1>17, <1>18, <1>19

\* adbd's steps keep the stream.
LEMMA DeviceStream ==
  ASSUME TypeInv, StreamInv, DeviceStep
  PROVE  StreamInv'
<1>1. UNCHANGED <<main, stdin, output, seed, id, remote_id, packet>>
  BY DEF DeviceStep, threadVars, streamVars
<1>2. /\ toHost \in Seq(Packets) /\ adbd \in Daemons
  BY DEF TypeInv, TypeOK, Daemons
<1>3. CASE DeviceReads
  BY <1>1, <1>3, ReadsStream
<1>4. CASE DeviceWrites \/ DeviceCloses
  <2>1. PICK cmd \in {"WRTE", "CLSE"}, n \in Nat :
          /\ usb_send(Packet(cmd, adbd.lid, adbd.peer, n))
          /\ cmd = "CLSE" => adbd'.phase = "closed"
    <3>1. CASE DeviceWrites
      <4>1. adbd.writes + 1 \in Nat
        BY <1>2, SessionAssumption DEF Daemons, SessionAssumption
      <4>2. QED
        BY <3>1, <4>1 DEF DeviceWrites
    <3>2. CASE DeviceCloses
      BY <1>2, <3>2 DEF DeviceCloses, Daemons
    <3>3. QED
      BY <1>4, <3>1, <3>2
  <2> DEFINE q == Packet(cmd, adbd.lid, adbd.peer, n)
  <2>2. /\ adbd.phase = "open" /\ UNCHANGED toDevice
        /\ adbd'.lid = adbd.lid /\ adbd'.peer = adbd.peer
        /\ adbd'.half = adbd.half /\ adbd'.phase \in {"open", "closed"}
    BY <1>2, <1>4 DEF DeviceWrites, DeviceCloses, Daemons
  <2>3. adbd.lid # 0 /\ adbd.peer = 1
    BY <2>2 DEF StreamInv, Daemon
  <2>4. q \in Packets
    <3>1. adbd.lid \in Int /\ adbd.peer \in Int /\ cmd \in Commands
      BY <1>2 DEF Daemons, Commands
    <3>2. QED
      BY <3>1, PacketType
  <2>5. q.cmd = cmd /\ q.arg0 = adbd.lid /\ q.arg1 = adbd.peer
    BY DEF Packet
  <2> HIDE DEF q
  <2>6. Range(toHost') = Range(toHost) \cup {q}
    BY <1>2, <2>1, <2>4, AppendRange DEF usb_send, q
  <2>7. (\A r \in Range(toHost) \cup {packet} : FromDevice(r))'
    BY <1>1, <2>1, <2>2, <2>3, <2>5, <2>6 DEF StreamInv, FromDevice
  <2>8. OneOpen' /\ Daemon'
    BY <1>1, <2>2, <2>3 DEF StreamInv, OneOpen, OpenAt, Daemon
  <2>9. Ids' /\ Threads' /\ (\A t \in Range(toDevice) : ToDevice(t))'
    BY <1>1, <2>2 DEF StreamInv, Ids, Threads, ToDevice
  <2>10. QED
    BY <2>7, <2>8, <2>9 DEF StreamInv
<1>5. QED
  BY <1>3, <1>4 DEF DeviceStep

\* Every step keeps the stream.
LEMMA NextStream == TypeInv /\ StreamInv /\ [Next]_vars => StreamInv'
<1>1. TypeInv /\ StreamInv /\ UNCHANGED vars => StreamInv'
  <2> SUFFICES ASSUME TypeInv, StreamInv, UNCHANGED vars PROVE StreamInv'
    OBVIOUS
  <2>1. UNCHANGED <<main, stdin, output, seed, id, remote_id, packet, toHost,
                    toDevice, adbd, produced>>
    BY DEF vars, threadVars, streamVars, devVars
  <2>2. Ids' /\ Threads' /\ (\A q \in Range(toHost) \cup {packet} : FromDevice(q))'
    BY <2>1 DEF StreamInv, Ids, Threads, FromDevice
  <2>3. QED
    BY <2>1, <2>2, KeepOut DEF StreamInv
<1>2. QED
  BY <1>1, WatchStream, MainStream, StdinStream, OutputThreadStream, DeviceStream
  DEF Next

\* The stream's facts hold in every reachable state.
LEMMA StreamInvariance == Spec => []StreamInv
BY InitStream, NextStream, TypeInvariance, PTL DEF Spec

\* In every mode and whatever the order in which the READY of the device and
\* the end of send_open come, id and remote_id never mix, and every WRITE of the
\* host carries the id that the device chose.
THEOREM StreamCorrect == Spec => []StreamOK
<1>1. TypeInv /\ StreamInv => StreamOK
  <2> SUFFICES ASSUME TypeInv, StreamInv PROVE StreamOK
    OBVIOUS
  <2>1. IdsOK
    BY DEF StreamInv, Ids, Daemon, IdsOK
  <2>2. toDevice \in Seq(Transfers)
    BY DEF TypeInv, TypeOK
  <2>3. \A i \in DOMAIN toDevice : toDevice[i] \in Range(toDevice)
    BY DEF Range
  <2>4. WritesAddressed
    BY <2>3 DEF StreamInv, ToDevice, WritesAddressed
  <2>5. QED
    BY <2>1, <2>4 DEF StreamOK
<1>2. QED
  BY <1>1, StreamInvariance, TypeInvariance, PTL
-----------------------------------------------------------------------------
(***************************************************************************)
(* One WRITE of the device at a time, and one READY for it                 *)
(***************************************************************************)

\* The output thread has a WRITE in hand.
InHand == output = "handle" /\ packet.cmd = "WRTE"

\* A WRITE is on its way to the host.
OnWay == \E q \in Range(toHost) : q.cmd = "WRTE"

\* The right to write is in one place: with the device's service, in a WRITE on
\* its way, with the output thread, or in a READY on its way.
TokenInv ==
  /\ \A i, j \in DOMAIN toHost :
       toHost[i].cmd = "WRTE" /\ toHost[j].cmd = "WRTE" => i = j
  /\ OnWay => ~ adbd.credit /\ ~ InHand /\ output # "ready" /\ Readies = {}
  /\ InHand \/ output = "ready" => ~ adbd.credit /\ Readies = {}
  /\ \A i \in Readies : ~ adbd.credit /\ Readies = {i}

\* Nobody has it before the stream is open.
LEMMA InitToken == ASSUME Init PROVE TokenInv
<1>1. /\ toDevice = <<>> /\ toHost = <<>> /\ output = "read"
  BY DEF Init
<1>2. Range(toHost) = {} /\ DOMAIN toHost = {} /\ DOMAIN toDevice = {}
  BY <1>1, EmptyRange
<1>3. QED
  BY <1>1, <1>2 DEF TokenInv, OnWay, InHand, Readies

\* What the watch, main and stdin threads send: never a READY, and main no WRITE
\* but in keyboard mode.
LEMMA ThreadWrites ==
  ASSUME TypeInv, WatchStep \/ MainStep \/ StdinStep
  PROVE  \/ UNCHANGED toDevice
         \/ \E part \in {"header", "payload"}, p \in Packets :
              /\ usb_write(part, p) /\ p.cmd # "OKAY"
              /\ p.cmd = "WRTE" => \/ main \in {"keys", "keys payload"}
                                   \/ stdin # "off"
<1>1. /\ id \in Int /\ remote_id \in Int /\ seed \in 0 .. 1 /\ SeedFresh
  BY DEF TypeInv, TypeOK
<1> DEFINE write == Packet("WRTE", 0, remote_id, 1)
           close == Packet("CLSE", id, remote_id, 0)
           open == Packet("OPEN", 1, 0, 1)
           Goal == \/ UNCHANGED toDevice
                   \/ \E part \in {"header", "payload"}, p \in Packets :
                        /\ usb_write(part, p) /\ p.cmd # "OKAY"
                        /\ p.cmd = "WRTE" => \/ main \in {"keys", "keys payload"}
                                             \/ stdin # "off"
<1>2. /\ write \in Packets /\ close \in Packets /\ open \in Packets
      /\ Open \in Packets
  BY <1>1, PacketType DEF Commands, Open
<1>3. /\ write.cmd = "WRTE" /\ close.cmd = "CLSE" /\ open.cmd = "OPEN"
      /\ Open.cmd = "OPEN" /\ Connect.cmd = "CNXN" /\ Connect \in Packets
  BY ConstantPackets DEF Packet, Open, Connect
<1>4. (WriteHeader \/ WritePayload) /\
        (main \in {"keys", "keys payload"} \/ stdin # "off") => Goal
  BY <1>2, <1>3 DEF WriteHeader, WritePayload
<1>5. CASE WatchStep
  BY <1>3, <1>5 DEF WatchStep, SendConnect, DeviceFound
<1>6. CASE MainStep
  <2>1. CASE Wait \/ Expire \/ read_and_dump
    BY <2>1 DEF Wait, Expire, read_and_dump
  <2>2. CASE send_open
    <3>1. main = "open" => seed' = 1
      BY <1>1, <2>2 DEF send_open, SeedFresh
    <3>2. QED
      BY <1>2, <1>3, <2>2, <3>1 DEF send_open
  <2>3. CASE send_close
    BY <1>2, <1>3, <2>3 DEF send_close
  <2>4. CASE send_command
    BY <1>4, <2>4 DEF send_command
  <2>5. QED
    BY <1>6, <2>1, <2>2, <2>3, <2>4 DEF MainStep
<1>7. CASE StdinStep
  <2>1. CASE TypeText \/ TypeTextPayload
    BY <1>4, <2>1 DEF TypeText, TypeTextPayload
  <2>2. CASE TypeControlD
    BY <1>2, <1>3, <2>2 DEF TypeControlD
  <2>3. CASE TypeEscape \/ TypeEOF
    BY <2>3 DEF TypeEscape, TypeEOF
  <2>4. QED
    BY <1>7, <2>1, <2>2, <2>3 DEF StdinStep
<1>8. QED
  BY <1>5, <1>6, <1>7

\* None of them changes the READYs on their way.
LEMMA ThreadReadies ==
  ASSUME TypeInv, WatchStep \/ MainStep \/ StdinStep
  PROVE  /\ Readies' = Readies
         /\ UNCHANGED <<output, packet, toHost, adbd, produced>>
<1>1. UNCHANGED <<output, packet, toHost, adbd, produced>>
  BY DEF WatchStep, MainStep, StdinStep, devVars
<1>2. CASE UNCHANGED toDevice
  BY <1>1, <1>2 DEF Readies
<1>3. ASSUME NEW part \in {"header", "payload"}, NEW p \in Packets,
             usb_write(part, p), p.cmd # "OKAY"
      PROVE  Readies' = Readies
  <2>1. /\ Len(toDevice) \in Nat
        /\ Len(toDevice') = Len(toDevice) + 1
        /\ \A i \in 1 .. Len(toDevice) : toDevice'[i] = toDevice[i]
        /\ toDevice'[Len(toDevice) + 1].packet = p
    BY <1>3, AppendTransfer
  <2>2. /\ DOMAIN toDevice = 1 .. Len(toDevice)
        /\ DOMAIN toDevice' = 1 .. Len(toDevice')
    <3>1. TypeInv'
      BY WatchType, MainType, StdinType
    <3>2. toDevice \in Seq(Transfers) /\ toDevice' \in Seq(Transfers)
      BY <3>1 DEF TypeInv, TypeOK
    <3>3. QED
      BY <3>2, LenProperties
  <2>3. \A i \in DOMAIN toDevice' : i \in DOMAIN toDevice \/ i = Len(toDevice) + 1
    BY <2>1, <2>2
  <2>4. DOMAIN toDevice \subseteq DOMAIN toDevice'
    BY <2>1, <2>2
  <2>5. QED
    BY <1>1, <1>3, <2>1, <2>2, <2>3, <2>4 DEF Readies
<1>4. QED
  BY <1>1, <1>2, <1>3, ThreadWrites

\* The output thread turns the WRITE it has handled into one READY.
LEMMA OutputToken ==
  ASSUME TypeInv, StreamInv, TokenInv, OutputStep
  PROVE  TokenInv'
<1>1. adbd' = adbd
  BY DEF OutputStep
<1>2. toHost \in Seq(Packets) /\ toDevice \in Seq(Transfers)
  BY DEF TypeInv, TypeOK
<1>3. CASE remote_read
  <2>1. /\ toHost # <<>> /\ packet' = Head(toHost) /\ toHost' = Tail(toHost)
        /\ output' = "handle" /\ UNCHANGED toDevice
    BY <1>3 DEF remote_read
  <2>2. /\ DOMAIN toHost = 1 .. Len(toHost)
        /\ DOMAIN toHost' = 1 .. Len(toHost')
        /\ \A i \in 1 .. Len(toHost') :
             i + 1 \in 1 .. Len(toHost) /\ toHost'[i] = toHost[i + 1]
        /\ 1 \in 1 .. Len(toHost) /\ packet' = toHost[1]
        /\ Range(toHost) = {packet'} \cup Range(toHost')
    BY <1>2, <2>1, TailRange
  <2>3. Readies' = Readies
    BY <1>1, <2>1 DEF Readies
  <2>4. OnWay' \/ InHand' => OnWay
    BY <2>2 DEF OnWay, InHand
  <2>5. ~ (OnWay' /\ InHand')
    <3>1. SUFFICES ASSUME OnWay', InHand' PROVE FALSE
      OBVIOUS
    <3>2. PICK i \in DOMAIN toHost' : toHost'[i].cmd = "WRTE"
      BY <3>1 DEF OnWay, Range
    <3>3. /\ i + 1 \in DOMAIN toHost /\ toHost[i + 1].cmd = "WRTE"
          /\ 1 \in DOMAIN toHost /\ toHost[1].cmd = "WRTE" /\ i + 1 # 1
      BY <2>2, <3>1, <3>2 DEF InHand
    <3>4. QED
      BY <3>3 DEF TokenInv
  <2>6. \A i, j \in DOMAIN toHost' :
          toHost'[i].cmd = "WRTE" /\ toHost'[j].cmd = "WRTE" => i = j
    <3>1. TAKE i, j \in DOMAIN toHost'
    <3>2. toHost'[i].cmd = "WRTE" /\ toHost'[j].cmd = "WRTE" => i + 1 = j + 1
      BY <2>2 DEF TokenInv
    <3>3. QED
      BY <2>2, <3>2
  <2>7. QED
    BY <1>1, <2>1, <2>3, <2>4, <2>5, <2>6 DEF TokenInv
<1>4. CASE handle_packet
  <2>1. UNCHANGED <<packet, toHost, toDevice>>
    BY <1>4 DEF handle_packet
  <2>2. Readies' = Readies /\ OnWay' = OnWay
    BY <1>1, <2>1 DEF Readies, OnWay
  <2>3. ~ InHand' /\ (output' = "ready" => InHand)
    BY <1>4 DEF handle_packet, HandleFirstOkay, HandleOkay, HandleClose,
                HandleWrite, HandleConnect, InHand
  <2>4. QED
    BY <1>1, <2>1, <2>2, <2>3 DEF TokenInv
<1>5. CASE send_ready
  <2> DEFINE p == Packet("OKAY", id, remote_id, 0)
  <2>1. /\ usb_write("header", p) /\ output' = "read" /\ output = "ready"
        /\ UNCHANGED <<packet, toHost>>
    BY <1>5 DEF send_ready
  <2>2. p \in Packets
    <3>1. id \in Int /\ remote_id \in Int
      BY DEF TypeInv, TypeOK
    <3>2. QED
      BY <3>1, PacketType DEF Commands
  <2>3. /\ Len(toDevice) \in Nat
        /\ Len(toDevice') = Len(toDevice) + 1
        /\ \A i \in 1 .. Len(toDevice) : toDevice'[i] = toDevice[i]
    BY <2>1, <2>2, AppendTransfer
  <2>4. /\ DOMAIN toDevice = 1 .. Len(toDevice)
        /\ DOMAIN toDevice' = 1 .. Len(toDevice')
    <3>1. TypeInv'
      BY OutputType
    <3>2. toDevice' \in Seq(Transfers)
      BY <3>1 DEF TypeInv, TypeOK
    <3>3. QED
      BY <1>2, <3>2, LenProperties
  <2>5. Readies = {} /\ ~ adbd.credit /\ ~ OnWay
    BY <2>1 DEF TokenInv
  <2>6. Readies' \subseteq {Len(toDevice) + 1}
    <3>1. \A i \in DOMAIN toDevice' : i \in DOMAIN toDevice \/ i = Len(toDevice) + 1
      BY <2>3, <2>4
    <3>2. QED
      BY <1>1, <2>3, <2>4, <2>5, <3>1 DEF Readies
  <2>7. ~ OnWay' /\ ~ InHand' /\ output' # "ready" /\ ~ adbd'.credit
    BY <1>1, <2>1, <2>5 DEF OnWay, InHand
  <2>8. QED
    BY <2>1, <2>6, <2>7 DEF TokenInv
<1>6. QED
  BY <1>3, <1>4, <1>5 DEF OutputStep

\* The READYs that adbd has not read after it has read a transfer.
LEMMA ReadsReadies ==
  ASSUME TypeInv, DeviceReads, SameStream
  PROVE  /\ \A i \in Readies' : i + 1 \in Readies /\ i \in Nat \ {0}
         /\ Readies = {} => Readies' = {}
<1>1. /\ toDevice \in Seq(Transfers) /\ toDevice # <<>>
      /\ toDevice' = Tail(toDevice)
  BY DEF TypeInv, TypeOK, DeviceReads
<1>2. /\ DOMAIN toDevice = 1 .. Len(toDevice)
      /\ DOMAIN toDevice' = 1 .. Len(toDevice')
      /\ \A i \in 1 .. Len(toDevice') :
           i + 1 \in 1 .. Len(toDevice) /\ toDevice'[i] = toDevice[i + 1]
  BY <1>1, TailRange
<1>3. \A i \in Readies' : i + 1 \in Readies /\ i \in Nat \ {0}
  BY <1>2 DEF Readies, SameStream
<1>4. QED
  BY <1>3

\* The READY that adbd takes is one for its stream.
LEMMA GrantsReady ==
  ASSUME TypeInv, StreamInv, DeviceReads, Grants
  PROVE  1 \in Readies
<1>1. toDevice \in Seq(Transfers) /\ toDevice # <<>>
  BY DEF TypeInv, TypeOK, DeviceReads
<1>2. Whole = Head(toDevice).packet
  BY DEF Grants, Whole, StreamInv, Daemon
<1>3. 1 \in DOMAIN toDevice /\ Head(toDevice) = toDevice[1]
  BY <1>1, TailRange
<1>4. QED
  BY <1>2, <1>3 DEF Grants, Readies

\* adbd takes the right to write from a READY and gives it away with a WRITE.
LEMMA DeviceToken ==
  ASSUME TypeInv, StreamInv, TokenInv, DeviceStep
  PROVE  TokenInv'
<1>1. UNCHANGED <<output, packet>>
  BY DEF DeviceStep, threadVars
<1>2. toHost \in Seq(Packets) /\ toDevice \in Seq(Transfers) /\ adbd \in Daemons
  BY DEF TypeInv, TypeOK, Daemons
<1>3. InHand' = InHand
  BY <1>1 DEF InHand
<1>4. ASSUME NEW q \in Packets, usb_send(q), q.cmd # "WRTE"
      PROVE  /\ OnWay' = OnWay
             /\ \A i, j \in DOMAIN toHost' :
                  toHost'[i].cmd = "WRTE" /\ toHost'[j].cmd = "WRTE" => i = j
  <2>1. /\ Len(toHost) \in Nat
        /\ DOMAIN toHost = 1 .. Len(toHost)
        /\ DOMAIN toHost' = 1 .. Len(toHost) + 1
        /\ \A i \in 1 .. Len(toHost) : toHost'[i] = toHost[i]
        /\ toHost'[Len(toHost) + 1] = q
        /\ Range(toHost') = Range(toHost) \cup {q}
    BY <1>2, <1>4, AppendRange DEF usb_send
  <2>2. \A i \in DOMAIN toHost' : i \in DOMAIN toHost \/ i = Len(toHost) + 1
    BY <2>1
  <2>3. QED
    BY <1>4, <2>1, <2>2 DEF OnWay, TokenInv
<1>5. CASE DeviceReads
  <2>1. /\ Quiet \/ Greets \/ Grants \/ Confirms \/ Accepts \/ Refuses
        /\ Whole \in Packets /\ toDevice # <<>>
    BY <1>5, ReadsOutcome
  <2>2. ASSUME NEW q \in Packets, q.cmd # "WRTE",
               usb_send(q) \/ UNCHANGED toHost,
               SameStream, adbd'.credit = adbd.credit
        PROVE  TokenInv'
    <3>1. /\ OnWay' = OnWay
          /\ \A i, j \in DOMAIN toHost' :
               toHost'[i].cmd = "WRTE" /\ toHost'[j].cmd = "WRTE" => i = j
      BY <1>4, <2>2 DEF OnWay, TokenInv
    <3>2. /\ \A i \in Readies' : i + 1 \in Readies /\ i \in Nat \ {0}
          /\ Readies = {} => Readies' = {}
      BY <1>5, <2>2, ReadsReadies
    <3>3. \A i \in Readies' : ~ adbd'.credit /\ Readies' = {i}
      <4>1. SUFFICES ASSUME NEW i \in Readies'
                     PROVE  ~ adbd.credit /\ \A j \in Readies' : j = i
        BY <2>2
      <4>2. ~ adbd.credit /\ Readies = {i + 1}
        BY <3>2 DEF TokenInv
      <4>3. \A j \in Readies' : j + 1 = i + 1
        BY <3>2, <4>2
      <4>4. QED
        BY <3>2, <4>2, <4>3
    <3>4. QED
      BY <1>1, <1>3, <2>2, <3>1, <3>2, <3>3 DEF TokenInv
  <2>3. CASE Quiet \/ Greets
    <3>1. Connect \in Packets /\ Connect.cmd # "WRTE"
      BY ConstantPackets DEF Connect, Packet
    <3>2. SameStream /\ adbd'.credit = adbd.credit
          /\ (usb_send(Connect) \/ UNCHANGED toHost)
      BY <2>3 DEF Quiet, Greets
    <3>3. QED
      BY <2>2, <3>1, <3>2
  <2>4. CASE Confirms
    <3> DEFINE q == Packet("OKAY", adbd.lid, adbd.peer, 0)
    <3>1. q \in Packets
      <4>1. adbd.lid \in Int /\ adbd.peer \in Int
        BY <1>2 DEF Daemons
      <4>2. QED
        BY <4>1, PacketType DEF Commands
    <3>2. q.cmd # "WRTE"
      BY DEF Packet
    <3>3. SameStream /\ adbd'.credit = adbd.credit /\ usb_send(q)
      BY <2>4 DEF Confirms
    <3>4. QED
      BY <2>2, <3>1, <3>2, <3>3
  <2>5. CASE Refuses
    <3> DEFINE q == Packet("CLSE", 0, Whole.arg0, 0)
    <3>1. q \in Packets
      <4>1. Whole.arg0 \in Int
        BY <2>1 DEF Packets
      <4>2. QED
        BY <4>1, PacketType DEF Commands
    <3>2. q.cmd # "WRTE"
      BY DEF Packet
    <3>3. SameStream /\ adbd'.credit = adbd.credit /\ usb_send(q)
      BY <2>5 DEF Refuses
    <3>4. QED
      BY <2>2, <3>1, <3>2, <3>3
  <2>6. CASE Grants
    <3>1. 1 \in Readies
      BY <1>5, <2>6, GrantsReady
    <3>2. Readies = {1} /\ ~ OnWay /\ ~ InHand /\ output # "ready"
      BY <3>1 DEF TokenInv
    <3>3. Readies' = {}
      <4>1. SameStream
        BY <2>6 DEF Grants
      <4>2. \A i \in Readies' : i + 1 \in Readies /\ i \in Nat \ {0}
        BY <1>5, <4>1, ReadsReadies
      <4>3. QED
        BY <3>2, <4>2
    <3>4. UNCHANGED toHost
      BY <2>6 DEF Grants
    <3>5. ~ OnWay'
      BY <3>2, <3>4 DEF OnWay
    <3>6. QED
      BY <1>1, <1>3, <3>2, <3>3, <3>4, <3>5 DEF TokenInv
  <2>7. CASE Accepts
    \* Before the stream nobody can have answered or written.
    <3> DEFINE q == Packet("OKAY", adbd'.lid, adbd'.peer, 0)
    <3>1. adbd'.lid \in Int /\ adbd'.peer \in Int /\ usb_send(q)
      <4>1. Whole.arg0 \in Int /\ DevIds \subseteq Int
        BY <2>1, SessionAssumption DEF Packets, SessionAssumption
      <4>2. QED
        BY <2>7, <4>1 DEF Accepts
    <3>2. q \in Packets
      BY <3>1, PacketType DEF Commands
    <3>3. q.cmd # "WRTE"
      BY DEF Packet
    <3>4. adbd.lid = 0
      BY <1>5, <2>7, OpenFirst DEF Accepts
    <3>5. /\ \A r \in Range(toHost) \cup {packet} : r.cmd # "WRTE"
          /\ \A t \in Range(toDevice) : t.packet.cmd # "OKAY"
          /\ output # "ready"
      BY <3>4 DEF StreamInv, FromDevice, ToDevice, Threads
    <3>6. ~ OnWay' /\ ~ InHand' /\ output' # "ready"
      BY <1>1, <1>4, <3>1, <3>2, <3>3, <3>5 DEF OnWay, InHand
    <3>7. Readies' = {}
      <4>1. toDevice' = Tail(toDevice)
        BY <1>5 DEF DeviceReads
      <4>2. Range(toDevice') \subseteq Range(toDevice)
        BY <1>2, <2>1, <4>1, TailRange
      <4>3. \A i \in DOMAIN toDevice' : toDevice'[i] \in Range(toDevice)
        BY <4>2 DEF Range
      <4>4. QED
        BY <3>5, <4>3 DEF Readies
    <3>8. \A i, j \in DOMAIN toHost' :
            toHost'[i].cmd = "WRTE" /\ toHost'[j].cmd = "WRTE" => i = j
      BY <1>4, <3>1, <3>2, <3>3
    <3>9. QED
      BY <3>6, <3>7, <3>8 DEF TokenInv
  <2>8. QED
    BY <2>1, <2>3, <2>4, <2>5, <2>6, <2>7
<1>6. CASE DeviceWrites
  <2>1. PICK data \in {0, adbd.writes + 1} :
          usb_send(Packet("WRTE", adbd.lid, adbd.peer, data))
    BY <1>6 DEF DeviceWrites
  <2> DEFINE q == Packet("WRTE", adbd.lid, adbd.peer, data)
  <2>2. q \in Packets
    <3>1. adbd.lid \in Int /\ adbd.peer \in Int /\ data \in Nat
      BY <1>2, <2>1, SessionAssumption DEF Daemons, SessionAssumption
    <3>2. QED
      BY <3>1, PacketType DEF Commands
  <2> HIDE DEF q
  <2>3. /\ Len(toHost) \in Nat
        /\ DOMAIN toHost = 1 .. Len(toHost)
        /\ DOMAIN toHost' = 1 .. Len(toHost) + 1
        /\ \A i \in 1 .. Len(toHost) : toHost'[i] = toHost[i]
    BY <1>2, <2>1, <2>2, AppendRange DEF usb_send, q
  <2>4. /\ adbd.credit /\ UNCHANGED toDevice
        /\ ~ adbd'.credit /\ adbd'.lid = adbd.lid
    BY <1>2, <1>6 DEF DeviceWrites, Daemons
  <2>5. ~ OnWay /\ ~ InHand /\ output # "ready" /\ Readies = {}
    BY <2>4 DEF TokenInv
  <2>6. Readies' = {}
    BY <2>4, <2>5 DEF Readies
  <2>7. \A i \in DOMAIN toHost' : toHost'[i].cmd = "WRTE" => i = Len(toHost) + 1
    <3>1. \A i \in DOMAIN toHost : toHost[i].cmd # "WRTE"
      BY <2>5 DEF OnWay, Range
    <3>2. \A i \in DOMAIN toHost' : i \in DOMAIN toHost \/ i = Len(toHost) + 1
      BY <2>3
    <3>3. QED
      BY <2>3, <3>1, <3>2
  <2>8. QED
    BY <1>1, <1>3, <2>4, <2>5, <2>6, <2>7 DEF TokenInv
<1>7. CASE DeviceCloses
  <2> DEFINE q == Packet("CLSE", adbd.lid, adbd.peer, 0)
  <2>1. usb_send(q) /\ UNCHANGED toDevice
        /\ adbd'.credit = adbd.credit /\ adbd'.lid = adbd.lid
    BY <1>2, <1>7 DEF DeviceCloses, Daemons
  <2>2. q \in Packets
    <3>1. adbd.lid \in Int /\ adbd.peer \in Int
      BY <1>2 DEF Daemons
    <3>2. QED
      BY <3>1, PacketType DEF Commands
  <2>3. q.cmd # "WRTE"
    BY DEF Packet
  <2>4. /\ OnWay' = OnWay
        /\ \A i, j \in DOMAIN toHost' :
             toHost'[i].cmd = "WRTE" /\ toHost'[j].cmd = "WRTE" => i = j
    BY <1>4, <2>1, <2>2, <2>3
  <2>5. Readies' = Readies
    BY <2>1 DEF Readies
  <2>6. QED
    BY <1>1, <1>3, <2>1, <2>4, <2>5 DEF TokenInv
<1>8. QED
  BY <1>5, <1>6, <1>7 DEF DeviceStep

\* Every step keeps the right to write in one place.
LEMMA NextToken ==
  TypeInv /\ StreamInv /\ TokenInv /\ [Next]_vars => TokenInv'
<1>1. TypeInv /\ TokenInv /\ (WatchStep \/ MainStep \/ StdinStep) => TokenInv'
  BY ThreadReadies DEF TokenInv, OnWay, InHand
<1>2. TokenInv /\ UNCHANGED vars => TokenInv'
  BY DEF TokenInv, OnWay, InHand, Readies, vars, threadVars, devVars
<1>3. QED
  BY <1>1, <1>2, OutputToken, DeviceToken DEF Next

\* In every reachable state the right to write is in one place.
LEMMA TokenInvariance == Spec => []TokenInv
BY InitToken, NextToken, TypeInvariance, StreamInvariance, PTL DEF Spec

\* In every mode the device never gets a READY that it is not waiting for,
\* although the output thread sends READY for each WRITE without looking at
\* anything but the ids.
THEOREM ReadyCorrect == Spec => []OneReadyPerWrite
<1>1. TokenInv => OneReadyPerWrite
  BY DEF TokenInv, OneReadyPerWrite
<1>2. QED
  BY <1>1, TokenInvariance, PTL
-----------------------------------------------------------------------------
(***************************************************************************)
(* The payloads reach the user in the order the device wrote them          *)
(***************************************************************************)

\* The WRITE of the device, if any, that is on its way or in hand.
Travelling ==
  {q \in Range(toHost) : q.cmd = "WRTE"} \cup (IF InHand THEN {packet} ELSE {})

\* What was printed is older than what is stored, and that is older than the
\* WRITE that travels, which is the last one.
OrderInv ==
  /\ PrintedInOrder
  /\ \A n \in Range(printed) : n <= adbd.writes
  /\ \A q \in Range(received) : q.cmd = "WRTE" =>
       /\ q.data # 0 /\ q.data <= adbd.writes
       /\ \A n \in Range(printed) : n < q.data
  /\ \A i, j \in DOMAIN received :
       i < j /\ received[i].cmd = "WRTE" /\ received[j].cmd = "WRTE" =>
         received[i].data < received[j].data
  /\ \A q \in Travelling : q.data # 0 =>
       /\ q.data = adbd.writes
       /\ \A n \in Range(printed) : n < q.data
       /\ \A r \in Range(received) : r.cmd = "WRTE" => r.data < q.data

\* Nothing was printed or stored at first.
LEMMA InitOrder == ASSUME Init PROVE OrderInv
<1>1. /\ printed = <<>> /\ received = <<>> /\ toHost = <<>> /\ output = "read"
  BY DEF Init
<1>2. /\ Range(printed) = {} /\ Range(received) = {} /\ Range(toHost) = {}
      /\ DOMAIN printed = {} /\ DOMAIN received = {}
  BY <1>1, EmptyRange
<1>3. Travelling = {}
  BY <1>1, <1>2 DEF Travelling, InHand
<1>4. QED
  BY <1>2, <1>3 DEF OrderInv, PrintedInOrder

\* Steps by which nothing is printed or stored and no WRITE begins to travel.
LEMMA KeepOrder ==
  ASSUME OrderInv, UNCHANGED <<printed, received>>, adbd'.writes = adbd.writes,
         Travelling' \subseteq Travelling
  PROVE  OrderInv'
BY DEF OrderInv, PrintedInOrder

\* read_and_dump prints the oldest stored payload, which is newer than all it
\* has printed.
LEMMA DumpOrder ==
  ASSUME TypeInv, OrderInv, read_and_dump, UNCHANGED <<output, packet, toHost, adbd>>
  PROVE  OrderInv'
<1>1. /\ received \in Seq(Packets) /\ printed \in Seq(Nat) /\ adbd \in Daemons
  BY DEF TypeInv, TypeOK, Daemons
<1>2. received # <<>> /\ received' = Tail(received)
  BY DEF read_and_dump, shift_received_packet
<1> DEFINE first == Head(received)
<1>3. /\ DOMAIN received = 1 .. Len(received)
      /\ DOMAIN received' = 1 .. Len(received')
      /\ Len(received') \in Nat
      /\ \A i \in 1 .. Len(received') :
           i + 1 \in 1 .. Len(received) /\ received'[i] = received[i + 1]
      /\ 1 \in 1 .. Len(received) /\ first = received[1]
      /\ Range(received) = {first} \cup Range(received')
  BY <1>1, <1>2, TailRange
<1>4. first \in Packets /\ first.data \in Nat
  <2>1. first \in Packets
    BY <1>1, <1>2, HeadTailProperties
  <2>2. QED
    BY <2>1 DEF Packets
<1>5. Travelling' = Travelling
  BY DEF Travelling, InHand
<1>6. \A i, j \in DOMAIN received' :
        i < j /\ received'[i].cmd = "WRTE" /\ received'[j].cmd = "WRTE" =>
          received'[i].data < received'[j].data
  <2>1. TAKE i, j \in DOMAIN received'
  <2>2. /\ i + 1 \in DOMAIN received /\ j + 1 \in DOMAIN received
        /\ received'[i] = received[i + 1] /\ received'[j] = received[j + 1]
        /\ i < j => i + 1 < j + 1
    BY <1>3
  <2>3. QED
    BY <2>2 DEF OrderInv
<1>7. CASE first.cmd # "WRTE"
  <2>1. UNCHANGED printed
    BY <1>7 DEF read_and_dump
  <2>2. QED
    BY <1>3, <1>5, <1>6, <2>1 DEF OrderInv, PrintedInOrder
<1>8. CASE first.cmd = "WRTE"
  <2>1. printed' = Append(printed, first.data)
    BY <1>8 DEF read_and_dump
  <2>2. /\ Len(printed) \in Nat
        /\ DOMAIN printed = 1 .. Len(printed)
        /\ DOMAIN printed' = 1 .. Len(printed) + 1
        /\ \A i \in 1 .. Len(printed) : printed'[i] = printed[i]
        /\ printed'[Len(printed) + 1] = first.data
        /\ Range(printed') = Range(printed) \cup {first.data}
    BY <1>1, <1>4, <2>1, AppendRange
  <2>3. /\ first.data <= adbd.writes
        /\ \A n \in Range(printed) : n < first.data
    BY <1>3, <1>8 DEF OrderInv
  <2>4. \A q \in Range(received') : q.cmd = "WRTE" => first.data < q.data
    <3>1. TAKE q \in Range(received')
    <3>2. PICK i \in DOMAIN received' : q = received'[i]
      BY DEF Range
    <3>3. /\ q = received[i + 1] /\ 1 < i + 1
          /\ 1 \in DOMAIN received /\ i + 1 \in DOMAIN received
      BY <1>3, <3>2
    <3>4. QED
      BY <1>3, <1>8, <3>3 DEF OrderInv
  <2>5. PrintedInOrder'
    <3>1. SUFFICES ASSUME NEW i \in DOMAIN printed', NEW j \in DOMAIN printed', i < j
                   PROVE  printed'[i] < printed'[j]
      BY DEF PrintedInOrder
    <3>2. i \in DOMAIN printed /\ (j \in DOMAIN printed \/ j = Len(printed) + 1)
      BY <2>2, <3>1
    <3>3. printed[i] \in Range(printed)
      BY <3>2 DEF Range
    <3>4. QED
      BY <2>2, <2>3, <3>1, <3>2, <3>3 DEF OrderInv, PrintedInOrder
  <2>6. \A n \in Range(printed') : n <= adbd.writes
    BY <2>2, <2>3 DEF OrderInv
  <2>7. \A q \in Range(received') : q.cmd = "WRTE" =>
          /\ q.data # 0 /\ q.data <= adbd.writes
          /\ \A n \in Range(printed') : n < q.data
    BY <1>3, <2>2, <2>4 DEF OrderInv
  <2>8. \A q \in Travelling : q.data # 0 =>
          /\ q.data = adbd.writes
          /\ \A n \in Range(printed') : n < q.data
          /\ \A r \in Range(received') : r.cmd = "WRTE" => r.data < q.data
    BY <1>3, <1>8, <2>2 DEF OrderInv
  <2>9. QED
    BY <1>5, <1>6, <2>5, <2>6, <2>7, <2>8 DEF OrderInv
<1>9. QED
  BY <1>7, <1>8

\* What the output thread stores is the packet in hand, and of the WRITEs only
\* those with a payload.
LEMMA Stores ==
  ASSUME TypeInv, StreamInv, handle_packet
  PROVE  /\ UNCHANGED <<packet, toHost, toDevice>>
         /\ output # "read" /\ output' # "handle"
         /\ \/ UNCHANGED received
            \/ received' = <<>> /\ output = "clear"
            \/ /\ received' = Append(received, packet)
               /\ packet.cmd = "WRTE" => /\ output = "handle" /\ packet.data # 0
                                         /\ packet.arg0 = remote_id
                                         /\ UNCHANGED <<id, remote_id>>
               /\ packet.cmd = "CLSE" => /\ output = "handle"
                                         /\ packet.arg0 \in {remote_id, 0}
                                         /\ packet.arg1 = id
                                         /\ UNCHANGED <<id, remote_id>>
<1>1. UNCHANGED <<packet, toHost, toDevice>>
  BY DEF handle_packet
<1>2. output \in {"remote_id", "clear", "store"} => packet.cmd = "OKAY"
  BY DEF StreamInv, Threads
<1>3. CASE HandleFirstOkay
  BY <1>1, <1>2, <1>3 DEF HandleFirstOkay, FirstOkay, store_received_packet
<1>4. CASE HandleOkay \/ HandleConnect
  BY <1>1, <1>4 DEF HandleOkay, HandleConnect, store_received_packet
<1>5. CASE HandleClose
  BY <1>1, <1>5 DEF HandleClose, store_received_packet
<1>6. CASE HandleWrite
  BY <1>1, <1>6 DEF HandleWrite, store_received_packet, HasPayload
<1>7. QED
  BY <1>3, <1>4, <1>5, <1>6 DEF handle_packet

\* The output thread stores the WRITE that travelled behind all older ones.
LEMMA OutputOrder ==
  ASSUME TypeInv, StreamInv, TokenInv, OrderInv, OutputStep
  PROVE  OrderInv'
<1>1. UNCHANGED <<printed, adbd>>
  BY DEF OutputStep
<1>2. /\ received \in Seq(Packets) /\ toHost \in Seq(Packets)
      /\ packet \in Packets /\ printed \in Seq(Nat)
  BY DEF TypeInv, TypeOK
<1>3. CASE remote_read
  <2>1. /\ toHost # <<>> /\ packet' = Head(toHost) /\ toHost' = Tail(toHost)
        /\ UNCHANGED received
    BY <1>3 DEF remote_read
  <2>2. Range(toHost) = {packet'} \cup Range(toHost')
    BY <1>2, <2>1, TailRange
  <2>3. Travelling' \subseteq Travelling
    BY <2>2 DEF Travelling, InHand
  <2>4. QED
    BY <1>1, <2>1, <2>3, KeepOrder
<1>4. CASE handle_packet
  <2>1. /\ UNCHANGED <<packet, toHost, toDevice>>
        /\ output' # "handle"
        /\ \/ UNCHANGED received
           \/ received' = <<>>
           \/ /\ received' = Append(received, packet)
              /\ packet.cmd = "WRTE" => output = "handle" /\ packet.data # 0
    BY <1>4, Stores
  <2>2. Travelling' \subseteq Travelling /\ (InHand => Travelling' = {})
    BY <2>1 DEF Travelling, InHand, TokenInv, OnWay
  <2>3. CASE UNCHANGED received
    BY <1>1, <2>2, <2>3, KeepOrder
  <2>4. CASE received' = <<>>
    <3>1. Range(received') = {} /\ DOMAIN received' = {}
      BY <2>4, EmptyRange
    <3>2. QED
      BY <1>1, <2>2, <3>1 DEF OrderInv, PrintedInOrder
  <2>5. CASE received' = Append(received, packet)
    <3>1. /\ Len(received) \in Nat
          /\ DOMAIN received = 1 .. Len(received)
          /\ DOMAIN received' = 1 .. Len(received) + 1
          /\ \A i \in 1 .. Len(received) : received'[i] = received[i]
          /\ received'[Len(received) + 1] = packet
          /\ Range(received') = Range(received) \cup {packet}
      BY <1>2, <2>5, AppendRange
    <3>2. packet.cmd = "WRTE" =>
            /\ InHand /\ packet \in Travelling /\ packet.data # 0
            /\ Travelling' = {}
      <4>1. received' # <<>> /\ received' # received
        BY <1>2, <2>5, AppendProperties
      <4>2. QED
        BY <2>1, <2>2, <4>1 DEF InHand, Travelling
    <3>3. packet.cmd = "WRTE" =>
            /\ packet.data = adbd.writes
            /\ \A n \in Range(printed) : n < packet.data
            /\ \A r \in Range(received) : r.cmd = "WRTE" => r.data < packet.data
      BY <3>2 DEF OrderInv
    <3>4. \A q \in Range(received') : q.cmd = "WRTE" =>
            /\ q.data # 0 /\ q.data <= adbd.writes
            /\ \A n \in Range(printed) : n < q.data
      <4>1. packet.data \in Nat
        BY <1>2 DEF Packets
      <4>2. packet.cmd = "WRTE" => packet.data <= adbd.writes
        BY <3>3, <4>1
      <4>3. QED
        BY <3>1, <3>2, <3>3, <4>2 DEF OrderInv
    <3>5. ASSUME NEW i \in DOMAIN received', NEW j \in DOMAIN received', i < j,
                 received'[i].cmd = "WRTE", received'[j].cmd = "WRTE"
          PROVE  received'[i].data < received'[j].data
      <4>1. i \in DOMAIN received /\ (j \in DOMAIN received \/ j = Len(received) + 1)
        BY <3>1, <3>5
      <4>2. received[i] \in Range(received)
        BY <4>1 DEF Range
      <4>3. CASE j \in DOMAIN received
        BY <3>1, <3>5, <4>1, <4>3 DEF OrderInv
      <4>4. CASE j = Len(received) + 1
        BY <3>1, <3>3, <3>5, <4>1, <4>2, <4>4
      <4>5. QED
        BY <4>1, <4>3, <4>4
    <3>6. \A q \in Travelling' : q \in Travelling /\ packet.cmd # "WRTE"
      BY <2>2, <3>2
    <3>7. \A q \in Travelling' : q.data # 0 =>
            /\ q.data = adbd.writes
            /\ \A n \in Range(printed) : n < q.data
            /\ \A r \in Range(received') : r.cmd = "WRTE" => r.data < q.data
      BY <3>1, <3>6 DEF OrderInv
    <3>8. QED
      BY <1>1, <3>4, <3>5, <3>7 DEF OrderInv, PrintedInOrder
  <2>6. QED
    BY <2>1, <2>3, <2>4, <2>5
<1>5. CASE send_ready
  <2>1. UNCHANGED <<received, packet, toHost>> /\ output' = "read"
    BY <1>5 DEF send_ready
  <2>2. Travelling' \subseteq Travelling
    BY <2>1 DEF Travelling, InHand
  <2>3. QED
    BY <1>1, <2>1, <2>2, KeepOrder
<1>6. QED
  BY <1>3, <1>4, <1>5 DEF OutputStep

\* What adbd sends when it reads is no WRITE.
LEMMA ReadsSend ==
  ASSUME TypeInv, DeviceReads
  PROVE  \/ UNCHANGED toHost
         \/ \E q \in Packets : usb_send(q) /\ q.cmd # "WRTE"
<1>1. /\ Quiet \/ Greets \/ Grants \/ Confirms \/ Accepts \/ Refuses
      /\ Whole \in Packets
  BY ReadsOutcome
<1>2. /\ Whole.arg0 \in Int /\ adbd.lid \in Int /\ adbd.peer \in Int
      /\ DevIds \subseteq Int
  <2>1. adbd \in Daemons /\ DevIds \subseteq Nat
    BY SessionAssumption DEF TypeInv, TypeOK, Daemons, SessionAssumption
  <2>2. QED
    BY <1>1, <2>1 DEF Packets, Daemons
<1>3. /\ Packet("OKAY", adbd.lid, adbd.peer, 0) \in Packets
      /\ Packet("CLSE", 0, Whole.arg0, 0) \in Packets
      /\ Connect \in Packets
      /\ \A lid \in DevIds, peer \in Int : Packet("OKAY", lid, peer, 0) \in Packets
  BY <1>2, PacketType, ConstantPackets DEF Commands
<1>4. /\ \A a, b : Packet("OKAY", a, b, 0).cmd # "WRTE"
      /\ \A a, b : Packet("CLSE", a, b, 0).cmd # "WRTE"
      /\ Connect.cmd # "WRTE"
  BY DEF Packet, Connect
<1>5. CASE Quiet \/ Grants
  BY <1>5 DEF Quiet, Grants
<1>6. CASE Greets
  BY <1>3, <1>4, <1>6 DEF Greets
<1>7. CASE Confirms
  BY <1>3, <1>4, <1>7 DEF Confirms
<1>8. CASE Refuses
  BY <1>3, <1>4, <1>8 DEF Refuses
<1>9. CASE Accepts
  <2>1. adbd'.lid \in DevIds /\ adbd'.peer \in Int
        /\ usb_send(Packet("OKAY", adbd'.lid, adbd'.peer, 0))
    BY <1>2, <1>9 DEF Accepts
  <2>2. Packet("OKAY", adbd'.lid, adbd'.peer, 0) \in Packets
    BY <1>3, <2>1
  <2>3. QED
    BY <1>4, <2>1, <2>2
<1>10. QED
  BY <1>1, <1>5, <1>6, <1>7, <1>8, <1>9

\* The device numbers its WRITEs upwards, and writes one when none travels.
LEMMA DeviceOrder ==
  ASSUME TypeInv, StreamInv, TokenInv, OrderInv, DeviceStep
  PROVE  OrderInv'
<1>1. UNCHANGED <<printed, received, output, packet>>
  BY DEF DeviceStep, threadVars
<1>2. toHost \in Seq(Packets) /\ adbd \in Daemons /\ adbd.writes \in Nat
  <2>1. toHost \in Seq(Packets) /\ adbd \in Daemons
    BY DEF TypeInv, TypeOK, Daemons
  <2>2. QED
    BY <2>1, SessionAssumption DEF Daemons, SessionAssumption
<1>3. ASSUME NEW q \in Packets, usb_send(q)
      PROVE  Range(toHost') = Range(toHost) \cup {q}
  BY <1>2, <1>3, AppendRange DEF usb_send
<1>4. CASE DeviceReads
  <2>1. adbd'.writes = adbd.writes
    BY <1>4, ReadsOutcome
    DEF SameStream, Quiet, Greets, Grants, Confirms, Accepts, Refuses
  <2>2. Travelling' = Travelling
    BY <1>1, <1>3, <1>4, ReadsSend DEF Travelling, InHand
  <2>3. QED
    BY <1>1, <2>1, <2>2, KeepOrder
<1>5. CASE DeviceWrites
  <2>1. PICK data \in {0, adbd.writes + 1} :
          usb_send(Packet("WRTE", adbd.lid, adbd.peer, data))
    BY <1>5 DEF DeviceWrites
  <2> DEFINE q == Packet("WRTE", adbd.lid, adbd.peer, data)
  <2>2. q \in Packets
    <3>1. adbd.lid \in Int /\ adbd.peer \in Int /\ data \in Nat
      BY <1>2, <2>1 DEF Daemons
    <3>2. QED
      BY <3>1, PacketType DEF Commands
  <2>3. q.data = data
    BY DEF Packet
  <2>4. adbd'.writes = adbd.writes + 1 /\ adbd.credit
    BY <1>2, <1>5 DEF DeviceWrites, Daemons
  <2>5. Travelling = {} /\ ~ InHand
    BY <2>4 DEF TokenInv, Travelling, OnWay
  <2> HIDE DEF q
  <2>6. Travelling' \subseteq {q}
    <3>1. Range(toHost') = Range(toHost) \cup {q}
      BY <1>3, <2>1, <2>2 DEF q
    <3>2. QED
      BY <1>1, <2>5, <3>1 DEF Travelling, InHand
  <2>7. (\A n \in Range(printed) : n \in Nat)
        /\ (\A r \in Range(received) : r.data \in Nat)
    <3>1. Range(printed) \subseteq Nat /\ Range(received) \subseteq Packets
      BY RangeType DEF TypeInv, TypeOK
    <3>2. QED
      BY <3>1 DEF Packets
  <2>8. \A n \in Nat : n <= adbd.writes => n <= adbd'.writes /\ n < adbd.writes + 1
    BY <1>2, <2>4
  <2>9. \A t \in Travelling' : t.data # 0 =>
          /\ t.data = adbd'.writes
          /\ \A n \in Range(printed) : n < t.data
          /\ \A r \in Range(received) : r.cmd = "WRTE" => r.data < t.data
    BY <2>1, <2>3, <2>4, <2>6, <2>7, <2>8 DEF OrderInv
  <2>10. /\ \A n \in Range(printed) : n <= adbd'.writes
         /\ \A r \in Range(received) : r.cmd = "WRTE" => r.data <= adbd'.writes
    BY <2>7, <2>8 DEF OrderInv
  <2>11. QED
    BY <1>1, <2>9, <2>10 DEF OrderInv, PrintedInOrder
<1>6. CASE DeviceCloses
  <2> DEFINE q == Packet("CLSE", adbd.lid, adbd.peer, 0)
  <2>1. usb_send(q) /\ adbd'.writes = adbd.writes
    BY <1>2, <1>6 DEF DeviceCloses, Daemons
  <2>2. q \in Packets
    <3>1. adbd.lid \in Int /\ adbd.peer \in Int
      BY <1>2 DEF Daemons
    <3>2. QED
      BY <3>1, PacketType DEF Commands
  <2>3. q.cmd = "CLSE"
    BY DEF Packet
  <2>4. Travelling' = Travelling
    BY <1>1, <1>3, <2>1, <2>2, <2>3 DEF Travelling, InHand
  <2>5. QED
    BY <1>1, <2>1, <2>4, KeepOrder
<1>7. QED
  BY <1>4, <1>5, <1>6 DEF DeviceStep

\* Every step keeps the order.
LEMMA NextOrder ==
  TypeInv /\ StreamInv /\ TokenInv /\ OrderInv /\ [Next]_vars => OrderInv'
<1> SUFFICES ASSUME TypeInv, StreamInv, TokenInv, OrderInv, [Next]_vars
             PROVE  OrderInv'
  OBVIOUS
<1>1. CASE WatchStep \/ StdinStep \/ UNCHANGED vars
  <2>1. UNCHANGED <<printed, received, output, packet, toHost, adbd>>
    BY <1>1 DEF WatchStep, StdinStep, vars, threadVars, devVars
  <2>2. Travelling' = Travelling
    BY <2>1 DEF Travelling, InHand
  <2>3. QED
    BY <2>1, <2>2, KeepOrder
<1>2. CASE MainStep
  <2>1. UNCHANGED <<output, packet, toHost, adbd>>
    BY <1>2 DEF MainStep, devVars
  <2>2. CASE read_and_dump
    BY <2>1, <2>2, DumpOrder
  <2>3. CASE Wait \/ Expire \/ send_open \/ send_close \/ send_command
    <3>1. UNCHANGED <<printed, received>>
      BY <2>3 DEF Wait, Expire, send_open, send_close, send_command
    <3>2. Travelling' = Travelling
      BY <2>1 DEF Travelling, InHand
    <3>3. QED
      BY <2>1, <3>1, <3>2, KeepOrder
  <2>4. QED
    BY <1>2, <2>2, <2>3 DEF MainStep
<1>3. QED
  BY <1>1, <1>2, OutputOrder, DeviceOrder DEF Next

\* The payloads are in order in every reachable state.
LEMMA OrderInvariance == Spec => []OrderInv
BY InitOrder, NextOrder, TypeInvariance, StreamInvariance, TokenInvariance, PTL
DEF Spec

\* In every mode what is printed is in the order the device wrote it, and no
\* payload is printed twice, although payloads are lost when the received list
\* is replaced or while remote_id is unset.
THEOREM OrderCorrect == Spec => []PrintedInOrder
<1>1. OrderInv => PrintedInOrder
  BY DEF OrderInv
<1>2. QED
  BY <1>1, OrderInvariance, PTL
-----------------------------------------------------------------------------
(***************************************************************************)
(* When a command is run, none of its output is lost but a last WRITE that *)
(* is never acknowledged                                                   *)
(***************************************************************************)

\* The payload n was printed or is stored.
Kept(n) == n \in Range(printed) \/ WriteOf(n) \in Range(received)

\* The READY that answers OPEN is with the output thread, or on its way to it.
OkayHand ==
  output \in {"handle", "remote_id", "clear", "store"} /\ packet.cmd = "OKAY"
OkayWay == \E q \in Range(toHost) : q.cmd = "OKAY"

\* remote_id is unset and stays so, and the device waits for a READY in vain.
Lost ==
  /\ remote_id = -1 /\ ~ OkayHand /\ ~ OkayWay
  /\ ~ adbd.credit /\ Readies = {} /\ output # "ready"

\* The host sends no WRITE, hence gets one READY only, before the device's
\* WRITEs and CLOSE; until it is handled there is nothing that the replacement
\* of the received list could throw away.
KeptInv ==
  /\ \A t \in Range(toDevice) : t.packet.cmd # "WRTE"
  /\ adbd.half.cmd # "WRTE"
  /\ \A i, j \in DOMAIN toHost :
       toHost[i].cmd = "OKAY" /\ toHost[j].cmd \in {"WRTE", "CLSE"} => i < j
  /\ packet.cmd \in {"WRTE", "CLSE"} => ~ OkayWay
  /\ OkayHand \/ OkayWay \/ adbd.lid = 0 =>
       /\ printed = <<>>
       /\ \A q \in Range(received) : q.cmd \notin {"WRTE", "CLSE"}
  /\ \A i \in DOMAIN produced :
       /\ produced[i] # 0
       /\ \/ Kept(produced[i])
          \/ i = Len(produced) /\ \E q \in Travelling : q.data = produced[i]
          \/ i = Len(produced) /\ Lost

\* The device has written nothing at first.
LEMMA InitKept == ASSUME Init PROVE KeptInv
<1>1. /\ toDevice = <<>> /\ toHost = <<>> /\ received = <<>>
      /\ printed = <<>> /\ produced = <<>> /\ adbd.half = Nothing
      /\ packet = Nothing
  BY DEF Init
<1>2. /\ Range(toDevice) = {} /\ Range(toHost) = {} /\ Range(received) = {}
      /\ DOMAIN toHost = {} /\ DOMAIN produced = {}
  BY <1>1, EmptyRange
<1>3. Nothing.cmd = "CNXN"
  BY DEF Nothing, Packet
<1>4. QED
  BY <1>1, <1>2, <1>3 DEF KeptInv

\* Steps by which nothing is received: remote_id may only be unset.
LEMMA KeepKept ==
  ASSUME KeptInv, Readies' = Readies,
         UNCHANGED <<printed, received, produced, packet, output, toHost, adbd>>,
         remote_id' = remote_id \/ remote_id' = -1,
         \A t \in Range(toDevice') : t.packet.cmd # "WRTE"
  PROVE  KeptInv'
<1>1. /\ OkayHand' = OkayHand /\ OkayWay' = OkayWay /\ Travelling' = Travelling
      /\ Lost => Lost'
      /\ \A n : Kept(n)' <=> Kept(n)
  BY DEF OkayHand, OkayWay, Travelling, InHand, Lost, Kept, WriteOf
<1>2. QED
  BY <1>1 DEF KeptInv

\* The threads that do not read packets send no WRITE when a command is run.
LEMMA ThreadsKept ==
  ASSUME TypeInv, Alone, KeptInv, WatchStep \/ MainStep, ~ read_and_dump
  PROVE  KeptInv'
<1>1. /\ Readies' = Readies
      /\ UNCHANGED <<output, packet, toHost, adbd, produced>>
  BY ThreadReadies
<1>2. \/ UNCHANGED toDevice
      \/ \E part \in {"header", "payload"}, p \in Packets :
           usb_write(part, p) /\ p.cmd # "WRTE"
  BY ThreadWrites DEF Alone
<1>3. \A t \in Range(toDevice') : t.packet.cmd # "WRTE"
  <2>1. ASSUME NEW part \in {"header", "payload"}, NEW p \in Packets,
               usb_write(part, p), p.cmd # "WRTE"
        PROVE  \A t \in Range(toDevice') : t.packet.cmd # "WRTE"
    <3> DEFINE new == [part |-> part, packet |-> p]
    <3>1. toDevice \in Seq(Transfers) /\ new \in Transfers /\ new.packet = p
      BY DEF TypeInv, TypeOK, Transfers
    <3>2. Range(toDevice') = Range(toDevice) \cup {new}
      BY <2>1, <3>1, AppendRange DEF usb_write
    <3>3. QED
      BY <2>1, <3>1, <3>2 DEF KeptInv
  <2>2. QED
    BY <1>2, <2>1 DEF KeptInv
<1>4. /\ UNCHANGED <<printed, received>>
      /\ remote_id' = remote_id \/ remote_id' = -1
  BY DEF WatchStep, MainStep, Wait, Expire, send_open, send_close, send_command,
         streamVars
<1>5. QED
  BY <1>1, <1>3, <1>4, KeepKept

\* What read_and_dump takes from the list it prints.
LEMMA DumpKept ==
  ASSUME TypeInv, KeptInv, read_and_dump,
         UNCHANGED <<output, packet, toHost, adbd, produced>>
  PROVE  KeptInv' /\ \A n : Kept(n) => Kept(n)'
<1> DEFINE first == Head(received)
<1>1. /\ received \in Seq(Packets) /\ printed \in Seq(Nat)
      /\ received # <<>> /\ received' = Tail(received)
      /\ UNCHANGED <<remote_id, toDevice>>
  BY DEF TypeInv, TypeOK, read_and_dump, shift_received_packet, streamVars
<1>2. Range(received) = {first} \cup Range(received') /\ first \in Packets
  BY <1>1, TailRange, HeadTailProperties
<1>3. first.data \in Nat
  BY <1>2 DEF Packets
<1>4. CASE first.cmd = "WRTE"
  <2>1. printed' = Append(printed, first.data)
    BY <1>4 DEF read_and_dump
  <2>2. Range(printed') = Range(printed) \cup {first.data}
    BY <1>1, <1>3, <2>1, AppendRange
  <2>3. \A n : WriteOf(n).data = n
    BY DEF WriteOf, Packet
  <2>4. \A n : Kept(n) => Kept(n)'
    <3>1. TAKE n
    <3>2. CASE WriteOf(n) = first
      BY <2>2, <2>3, <3>2 DEF Kept
    <3>3. CASE WriteOf(n) # first
      BY <1>2, <2>2, <3>3 DEF Kept, WriteOf
    <3>4. QED
      BY <3>2, <3>3
  <2>5. ~ OkayHand /\ ~ OkayWay /\ adbd.lid # 0
    BY <1>2, <1>4 DEF KeptInv
  <2>6. /\ ~ OkayHand' /\ ~ OkayWay' /\ Travelling' = Travelling
        /\ Lost => Lost'
    BY <1>1, <2>5 DEF OkayHand, OkayWay, Travelling, InHand, Lost, Readies
  <2>7. QED
    BY <1>1, <2>4, <2>5, <2>6 DEF KeptInv
<1>5. CASE first.cmd # "WRTE"
  <2>1. UNCHANGED printed
    BY <1>5 DEF read_and_dump
  <2>2. \A n : WriteOf(n).cmd = "WRTE"
    BY DEF WriteOf, Packet
  <2>3. \A n : Kept(n) => Kept(n)'
    BY <1>2, <1>5, <2>1, <2>2 DEF Kept, WriteOf
  <2>4. /\ OkayHand' = OkayHand /\ OkayWay' = OkayWay /\ Travelling' = Travelling
        /\ Lost => Lost'
    BY <1>1 DEF OkayHand, OkayWay, Travelling, InHand, Lost, Readies
  <2>5. \A q \in Range(received') : q \in Range(received)
    BY <1>2
  <2>6. QED
    BY <1>1, <2>1, <2>3, <2>4, <2>5 DEF KeptInv
<1>6. QED
  BY <1>4, <1>5

\* The output thread stores each WRITE it answers; one that it drops is the
\* last, for it is not answered.
LEMMA OutputKept ==
  ASSUME TypeInv, StreamInv, TokenInv, KeptInv, OutputStep
  PROVE  KeptInv'
<1>1. UNCHANGED <<main, seed, printed, adbd, produced>>
  BY DEF OutputStep
<1>2. /\ received \in Seq(Packets) /\ toHost \in Seq(Packets)
      /\ packet \in Packets /\ toDevice \in Seq(Transfers)
  BY DEF TypeInv, TypeOK
<1>2a. adbd.lid # -1
  <2>1. adbd \in Daemons
    BY DEF TypeInv, TypeOK, Daemons
  <2>2. QED
    BY <2>1 DEF Daemons
<1>3. CASE remote_read
  <2>1. /\ toHost # <<>> /\ packet' = Head(toHost) /\ toHost' = Tail(toHost)
        /\ output = "read" /\ output' = "handle"
        /\ UNCHANGED <<remote_id, received, toDevice>>
    BY <1>3 DEF remote_read
  <2>2. /\ DOMAIN toHost = 1 .. Len(toHost)
        /\ DOMAIN toHost' = 1 .. Len(toHost')
        /\ Len(toHost') \in Nat
        /\ \A i \in 1 .. Len(toHost') :
             i + 1 \in 1 .. Len(toHost) /\ toHost'[i] = toHost[i + 1]
        /\ 1 \in 1 .. Len(toHost) /\ packet' = toHost[1]
        /\ Range(toHost) = {packet'} \cup Range(toHost')
    BY <1>2, <2>1, TailRange
  <2>3. Travelling' = Travelling
    BY <2>1, <2>2 DEF Travelling, InHand
  <2>4. OkayHand' \/ OkayWay' => OkayWay
    BY <2>2 DEF OkayHand, OkayWay
  <2>5. Lost => Lost'
    BY <1>1, <2>1, <2>4 DEF Lost, Readies
  <2>6. \A i, j \in DOMAIN toHost' :
          toHost'[i].cmd = "OKAY" /\ toHost'[j].cmd \in {"WRTE", "CLSE"} => i < j
    <3>1. TAKE i, j \in DOMAIN toHost'
    <3>2. /\ i + 1 \in DOMAIN toHost /\ j + 1 \in DOMAIN toHost
          /\ toHost'[i] = toHost[i + 1] /\ toHost'[j] = toHost[j + 1]
          /\ i + 1 < j + 1 => i < j
      BY <2>2
    <3>3. QED
      BY <3>2 DEF KeptInv
  <2>7. packet'.cmd \in {"WRTE", "CLSE"} => ~ OkayWay'
    <3>1. SUFFICES ASSUME packet'.cmd \in {"WRTE", "CLSE"}, OkayWay'
                   PROVE  FALSE
      OBVIOUS
    <3>2. PICK i \in DOMAIN toHost' : toHost'[i].cmd = "OKAY"
      BY <3>1 DEF OkayWay, Range
    <3>3. /\ i + 1 \in DOMAIN toHost /\ toHost[i + 1].cmd = "OKAY"
          /\ 1 \in DOMAIN toHost /\ toHost[1].cmd \in {"WRTE", "CLSE"}
          /\ ~ (i + 1 < 1)
      BY <2>2, <3>1, <3>2
    <3>4. QED
      BY <3>3 DEF KeptInv
  <2>8. \A n : Kept(n)' <=> Kept(n)
    BY <1>1, <2>1 DEF Kept, WriteOf
  <2>9. QED
    BY <1>1, <2>1, <2>3, <2>4, <2>5, <2>6, <2>7, <2>8 DEF KeptInv
<1>4. CASE handle_packet
  <2>1. /\ UNCHANGED <<packet, toHost, toDevice>> /\ output' # "handle"
        /\ \/ UNCHANGED received
           \/ received' = <<>> /\ output = "clear"
           \/ /\ received' = Append(received, packet)
              /\ packet.cmd = "CLSE" => packet.arg1 = id
    BY <1>4, Stores
  <2>2. /\ OkayWay' = OkayWay /\ ~ InHand'
        /\ Travelling' = {q \in Range(toHost) : q.cmd = "WRTE"}
    BY <2>1 DEF OkayWay, Travelling, InHand
  <2>3. output # "read"
    BY <1>4 DEF handle_packet, HandleFirstOkay, HandleOkay, HandleClose,
                HandleWrite, HandleConnect
  <2>4. Range(received') \subseteq Range(received) \cup {packet}
    <3>1. CASE received' = <<>>
      BY <3>1, EmptyRange
    <3>2. CASE received' = Append(received, packet)
      BY <1>2, <3>2, AppendRange
    <3>3. QED
      BY <2>1, <3>1, <3>2
  <2>5. CASE packet.cmd = "OKAY"
    <3>1. OkayHand
      <4>1. output \in {"handle", "remote_id", "clear", "store"}
        BY <1>4 DEF handle_packet, HandleFirstOkay, HandleOkay, HandleClose,
                    HandleWrite, HandleConnect
      <4>2. QED
        BY <2>5, <4>1 DEF OkayHand
    <3>2. /\ printed = <<>>
          /\ \A q \in Range(received) : q.cmd \notin {"WRTE", "CLSE"}
      BY <3>1 DEF KeptInv
    <3>3. \A q \in Range(received') : q.cmd \notin {"WRTE", "CLSE"}
      BY <2>4, <2>5, <3>2
    <3>4. \A n : ~ Kept(n)
      <4>1. \A n : WriteOf(n).cmd = "WRTE"
        BY DEF WriteOf, Packet
      <4>2. QED
        BY <3>2, <4>1, EmptyRange DEF Kept
    <3>5. Travelling' = Travelling
      BY <2>2, <2>5 DEF Travelling, InHand
    <3>6. ~ Lost
      BY <3>1 DEF Lost
    <3>7. QED
      BY <1>1, <2>1, <2>5, <3>2, <3>3, <3>4, <3>5, <3>6 DEF KeptInv
  <2>6. CASE packet.cmd # "OKAY"
    <3>1. ~ OkayHand /\ ~ OkayHand' /\ ~ HandleFirstOkay /\ output # "clear"
      <4>1. output \notin {"remote_id", "clear", "store"}
        BY <2>6 DEF StreamInv, Threads
      <4>2. QED
        BY <2>1, <2>6, <4>1 DEF OkayHand, HandleFirstOkay, FirstOkay
    <3>2. /\ UNCHANGED <<id, remote_id>> /\ output = "handle"
          /\ \/ HandleClose \/ HandleConnect
             \/ HandleWrite
      BY <1>4, <2>6, <3>1 DEF handle_packet, HandleOkay, HandleClose, HandleConnect,
                              HandleWrite
    <3>3. FromDevice(packet) /\ Ids /\ Daemon
      BY DEF StreamInv
    <3>4. packet.cmd = "WRTE" \/ received' # received => adbd.lid # 0
      <4>1. packet.cmd = "WRTE" => adbd.lid # 0
        BY <3>3 DEF FromDevice
      <4>2. packet.cmd = "CLSE" /\ packet.arg1 = id => adbd.lid # 0
        BY <3>3 DEF FromDevice, Ids
      <4>3. packet.cmd = "CNXN" => UNCHANGED received
        BY <3>2 DEF HandleClose, HandleConnect, HandleWrite
      <4>4. QED
        BY <2>1, <3>1, <3>2, <4>1, <4>2, <4>3 DEF HandleClose, HandleConnect, HandleWrite
    <3>5. Range(received) \subseteq Range(received')
      <4>1. CASE received' = Append(received, packet)
        BY <1>2, <4>1, AppendRange
      <4>2. QED
        BY <2>1, <3>1, <4>1
    <3>6. \A n : Kept(n) => Kept(n)'
      BY <1>1, <3>5 DEF Kept, WriteOf
    <3>7. OkayWay' \/ adbd.lid = 0 =>
            /\ printed = <<>>
            /\ \A q \in Range(received') : q.cmd \notin {"WRTE", "CLSE"}
      <4>1. CASE received' = received
        BY <2>2, <4>1 DEF KeptInv
      <4>2. CASE received' # received
        <5>1. adbd.lid # 0 /\ packet.cmd \in {"WRTE", "CLSE"}
          BY <3>2, <3>4, <4>2 DEF HandleClose, HandleConnect, HandleWrite
        <5>2. ~ OkayWay'
          BY <2>2, <5>1 DEF KeptInv
        <5>3. QED
          BY <5>1, <5>2
      <4>3. QED
        BY <4>1, <4>2
    <3>8. CASE packet.cmd # "WRTE"
      <4>1. Travelling' = Travelling /\ output' = "read"
        BY <2>2, <3>2, <3>8
        DEF Travelling, InHand, HandleClose, HandleConnect, HandleWrite
      <4>2. Lost => Lost'
        BY <1>1, <2>1, <2>2, <3>1, <3>2, <4>1 DEF Lost, Readies
      <4>3. QED
        BY <1>1, <2>1, <2>2, <3>1, <3>6, <3>7, <4>1, <4>2 DEF KeptInv
    <3>9. CASE packet.cmd = "WRTE"
      <4>1. /\ HandleWrite /\ InHand /\ Travelling = {packet} /\ ~ OkayWay
            /\ ~ adbd.credit /\ Readies = {}
        <5>1. HandleWrite /\ InHand
          BY <3>2, <3>9 DEF HandleClose, HandleConnect, InHand
        <5>2. ~ OnWay
          BY <5>1 DEF TokenInv
        <5>3. Travelling = {packet}
          BY <5>1, <5>2 DEF Travelling, OnWay
        <5>4. QED
          BY <3>9, <5>1, <5>3 DEF TokenInv, KeptInv
      <4>2. /\ packet.arg0 = adbd.lid /\ packet.arg1 = adbd.peer
        BY <3>3, <3>9 DEF FromDevice, Daemon
      <4>3. packet = WriteOf(packet.data)
        BY <1>2, <3>9, <4>2 DEF WriteOf, Packet, Packets
      <4>4. CASE packet.arg0 = remote_id /\ packet.data # 0
        <5>1. received' = Append(received, packet)
          BY <4>1, <4>4 DEF HandleWrite, HasPayload, store_received_packet
        <5>2. packet \in Range(received')
          BY <1>2, <5>1, AppendRange
        <5>3. WriteOf(packet.data)' \in Range(received')
          BY <1>1, <2>1, <4>3, <5>2 DEF WriteOf
        <5>4. \A i \in DOMAIN produced :
                /\ produced[i] # 0
                /\ Kept(produced[i])'
          <6>1. ~ Lost
            <7>1. remote_id # -1
              BY <1>2a, <4>2, <4>4
            <7>2. QED
              BY <7>1 DEF Lost
          <6>2. \A n : n = packet.data => Kept(n)'
            BY <1>1, <4>3, <5>2 DEF Kept, WriteOf
          <6>3. \A i \in DOMAIN produced :
                  /\ produced[i] # 0
                  /\ Kept(produced[i]) \/ produced[i] = packet.data
            BY <4>1, <6>1 DEF KeptInv
          <6>4. QED
            BY <1>1, <3>6, <6>2, <6>3
        <5>5. QED
          BY <1>1, <2>1, <2>2, <3>1, <3>7, <4>1, <5>4 DEF KeptInv
      <4>5. CASE packet.arg0 = remote_id /\ packet.data = 0
        <5>1. \A i \in DOMAIN produced :
                /\ produced[i] # 0
                /\ Kept(produced[i])'
          <6>1. ~ Lost
            <7>1. remote_id # -1
              BY <1>2a, <4>2, <4>5
            <7>2. QED
              BY <7>1 DEF Lost
          <6>2. \A i \in DOMAIN produced :
                  /\ produced[i] # 0
                  /\ Kept(produced[i]) \/ produced[i] = packet.data
            BY <4>1, <6>1 DEF KeptInv
          <6>3. QED
            BY <1>1, <3>6, <4>5, <6>2
        <5>2. QED
          BY <1>1, <2>1, <2>2, <3>1, <3>7, <4>1, <5>1 DEF KeptInv
      <4>6. CASE packet.arg0 # remote_id
        <5>1. output' = "read" /\ remote_id' = -1
          BY <3>2, <3>3, <4>1, <4>2, <4>6 DEF HandleWrite, Ids
        <5>2. Lost'
          BY <1>1, <2>1, <2>2, <3>1, <4>1, <5>1 DEF Lost, Readies
        <5>3. QED
          BY <1>1, <2>1, <2>2, <3>1, <3>6, <3>7, <4>1, <5>2 DEF KeptInv
      <4>7. QED
        BY <4>4, <4>5, <4>6
    <3>10. QED
      BY <3>8, <3>9
  <2>7. QED
    BY <2>5, <2>6
<1>5. CASE send_ready
  <2> DEFINE p == Packet("OKAY", id, remote_id, 0)
             new == [part |-> "header", packet |-> p]
  <2>1. /\ toDevice' = Append(toDevice, new)
        /\ output = "ready" /\ output' = "read" /\ packet.cmd = "WRTE"
        /\ UNCHANGED <<remote_id, received, packet, toHost>>
    BY <1>5 DEF send_ready, usb_write, StreamInv, Threads
  <2>2. new \in Transfers /\ new.packet.cmd = "OKAY"
    <3>1. id \in Int /\ remote_id \in Int
      BY DEF TypeInv, TypeOK
    <3>2. p \in Packets
      BY <3>1, PacketType DEF Commands
    <3>3. p.cmd = "OKAY"
      BY DEF Packet
    <3>4. QED
      BY <3>2, <3>3 DEF Transfers
  <2>3. Range(toDevice') = Range(toDevice) \cup {new}
    BY <1>2, <2>1, <2>2, AppendRange
  <2>4. /\ OkayWay' = OkayWay /\ ~ OkayHand' /\ Travelling' = Travelling
        /\ ~ Lost
    BY <2>1 DEF OkayWay, OkayHand, Travelling, InHand, Lost
  <2>5. \A n : Kept(n)' <=> Kept(n)
    BY <1>1, <2>1 DEF Kept, WriteOf
  <2>6. \A t \in Range(toDevice') : t.packet.cmd # "WRTE"
    BY <2>2, <2>3 DEF KeptInv
  <2>7. QED
    BY <1>1, <2>1, <2>4, <2>5, <2>6 DEF KeptInv
<1>6. QED
  BY <1>3, <1>4, <1>5 DEF OutputStep

\* What adbd does with the host's transfers loses nothing, and it writes again
\* only when its last WRITE was kept.
LEMMA DeviceKept ==
  ASSUME TypeInv, StreamInv, TokenInv, KeptInv, DeviceStep
  PROVE  KeptInv'
<1>1. UNCHANGED <<printed, received, output, packet, remote_id>>
  BY DEF DeviceStep, threadVars, streamVars
<1>2. /\ toHost \in Seq(Packets) /\ toDevice \in Seq(Transfers)
      /\ adbd \in Daemons /\ produced \in Seq(Nat)
  BY DEF TypeInv, TypeOK, Daemons
<1>3. adbd.lid \in Int /\ adbd.peer \in Int
  BY <1>2 DEF Daemons
<1>4. /\ OkayHand' = OkayHand /\ InHand' = InHand
  BY <1>1 DEF OkayHand, InHand
<1>5. ASSUME adbd'.lid = adbd.lid, adbd'.peer = adbd.peer
      PROVE  \A n : Kept(n) => Kept(n)'
  BY <1>1, <1>5 DEF Kept, WriteOf
<1>6. ASSUME NEW q \in Packets, usb_send(q)
      PROVE  /\ Range(toHost') = Range(toHost) \cup {q}
             /\ q.cmd # "OKAY" \/ (\A r \in Range(toHost) : r.cmd \notin {"WRTE", "CLSE"})
                  => \A i, j \in DOMAIN toHost' :
                       toHost'[i].cmd = "OKAY" /\ toHost'[j].cmd \in {"WRTE", "CLSE"}
                         => i < j
  <2>1. /\ Len(toHost) \in Nat
        /\ DOMAIN toHost = 1 .. Len(toHost)
        /\ DOMAIN toHost' = 1 .. Len(toHost) + 1
        /\ \A i \in 1 .. Len(toHost) : toHost'[i] = toHost[i]
        /\ toHost'[Len(toHost) + 1] = q
        /\ Range(toHost') = Range(toHost) \cup {q}
    BY <1>2, <1>6, AppendRange DEF usb_send
  <2>2. \A i \in DOMAIN toHost' :
          (i \in DOMAIN toHost /\ i < Len(toHost) + 1) \/ i = Len(toHost) + 1
    BY <2>1
  <2>3. ASSUME q.cmd # "OKAY", NEW i \in DOMAIN toHost', NEW j \in DOMAIN toHost',
               toHost'[i].cmd = "OKAY", toHost'[j].cmd \in {"WRTE", "CLSE"}
        PROVE  i < j
    <3>1. i \in DOMAIN toHost /\ toHost[i].cmd = "OKAY" /\ i < Len(toHost) + 1
      BY <2>1, <2>2, <2>3
    <3>2. j \in DOMAIN toHost => toHost[j].cmd \in {"WRTE", "CLSE"}
      BY <2>1, <2>3
    <3>3. QED
      BY <2>2, <3>1, <3>2 DEF KeptInv
  <2>4. ASSUME q.cmd = "OKAY",
               \A r \in Range(toHost) : r.cmd \notin {"WRTE", "CLSE"},
               NEW j \in DOMAIN toHost'
        PROVE  toHost'[j].cmd \notin {"WRTE", "CLSE"}
    BY <2>1, <2>2, <2>4 DEF Range
  <2>5. QED
    BY <2>1, <2>3, <2>4
<1>7. ASSUME NEW q \in Packets, q.cmd \notin {"OKAY", "WRTE"},
             usb_send(q) \/ UNCHANGED toHost
      PROVE  /\ OkayWay' = OkayWay /\ Travelling' = Travelling
             /\ \A i, j \in DOMAIN toHost' :
                  toHost'[i].cmd = "OKAY" /\ toHost'[j].cmd \in {"WRTE", "CLSE"}
                    => i < j
  BY <1>1, <1>4, <1>6, <1>7 DEF OkayWay, Travelling, KeptInv
<1>8. CASE DeviceReads
  <2>1. /\ Quiet \/ Greets \/ Grants \/ Confirms \/ Accepts \/ Refuses
        /\ toDevice # <<>> /\ toDevice' = Tail(toDevice) /\ produced' = produced
        /\ Whole \in Packets
    BY <1>8, ReadsOutcome
  <2>2. Range(toDevice) = {Head(toDevice)} \cup Range(toDevice')
    BY <1>2, <2>1, TailRange
  <2>3. Nothing.cmd = "CNXN" /\ Connect.cmd = "CNXN"
    BY DEF Nothing, Connect, Packet
  <2>4. Whole.cmd # "WRTE"
    BY <2>2 DEF Whole, KeptInv
  <2>5. /\ \A t \in Range(toDevice') : t.packet.cmd # "WRTE"
        /\ adbd'.half.cmd # "WRTE"
    BY <2>1, <2>2, <2>3, <2>4
    DEF KeptInv, Quiet, Greets, Grants, Confirms, Accepts, Refuses
  <2>6. CASE Quiet \/ Greets
    <3>1. SameStream /\ adbd'.credit = adbd.credit
          /\ (usb_send(Connect) \/ UNCHANGED toHost)
      BY <2>6 DEF Quiet, Greets
    <3>2. /\ OkayWay' = OkayWay /\ Travelling' = Travelling
          /\ \A i, j \in DOMAIN toHost' :
               toHost'[i].cmd = "OKAY" /\ toHost'[j].cmd \in {"WRTE", "CLSE"}
                 => i < j
      BY <1>7, <2>3, <3>1, ConstantPackets
    <3>3. Lost => Lost'
      BY <1>1, <1>4, <1>8, <3>1, <3>2, ReadsReadies DEF Lost
    <3>4. \A n : Kept(n) => Kept(n)'
      BY <1>5, <3>1 DEF SameStream
    <3>5. adbd'.lid = adbd.lid
      BY <3>1 DEF SameStream
    <3>6. QED
      BY <1>1, <1>4, <2>1, <2>5, <3>2, <3>3, <3>4, <3>5 DEF KeptInv
  <2>7. CASE Grants
    <3>1. 1 \in Readies
      BY <1>8, <2>7, GrantsReady
    <3>2. ~ Lost /\ Travelling = {}
      BY <3>1 DEF Lost, TokenInv, Travelling, OnWay
    <3>3. SameStream /\ UNCHANGED toHost
      BY <2>7 DEF Grants
    <3>4. OkayWay' = OkayWay
      BY <3>3 DEF OkayWay
    <3>5. \A n : Kept(n) => Kept(n)'
      BY <1>5, <3>3 DEF SameStream
    <3>6. adbd'.lid = adbd.lid
      BY <3>3 DEF SameStream
    <3>7. QED
      BY <1>1, <1>4, <2>1, <2>5, <3>2, <3>3, <3>4, <3>5, <3>6 DEF KeptInv
  <2>8. CASE Accepts \/ Refuses
    \* Before OPEN is answered there is nothing to lose.
    <3>1. /\ adbd.lid = 0 /\ Whole.arg0 = 1
          /\ adbd.phase \notin {"closed", "desync"}
      BY <1>8, <2>8, OpenFirst DEF Accepts, Refuses
    <3>2. /\ produced = <<>> /\ printed = <<>>
          /\ \A q \in Range(received) : q.cmd \notin {"WRTE", "CLSE"}
          /\ \A q \in Range(toHost) \cup {packet} : q.cmd \notin {"WRTE", "CLSE"}
      BY <3>1 DEF StreamInv, Daemon, KeptInv, FromDevice
    <3>3. DOMAIN produced = {}
      BY <3>2
    <3>4. PICK q \in Packets : usb_send(q)
      <4>0. DevIds \subseteq Int
        BY SessionAssumption DEF SessionAssumption
      <4>1. adbd'.lid \in DevIds => adbd'.lid \in Int
        BY <4>0
      <4>2. CASE Accepts
        <5>1. adbd'.lid \in Int /\ adbd'.peer \in Int
              /\ usb_send(Packet("OKAY", adbd'.lid, adbd'.peer, 0))
          BY <3>1, <4>1, <4>2 DEF Accepts
        <5>2. Packet("OKAY", adbd'.lid, adbd'.peer, 0) \in Packets
          BY <5>1, PacketType DEF Commands
        <5>3. QED
          BY <5>1, <5>2
      <4>3. CASE Refuses
        <5>1. usb_send(Packet("CLSE", 0, 1, 0))
          BY <3>1, <4>3 DEF Refuses
        <5>2. Packet("CLSE", 0, 1, 0) \in Packets
          BY PacketType DEF Commands
        <5>3. QED
          BY <5>1, <5>2
      <4>4. QED
        BY <2>8, <4>2, <4>3
    <3>5. \A i, j \in DOMAIN toHost' :
            toHost'[i].cmd = "OKAY" /\ toHost'[j].cmd \in {"WRTE", "CLSE"} => i < j
      BY <1>6, <3>2, <3>4
    <3>6. QED
      BY <1>1, <1>4, <2>1, <2>5, <3>2, <3>3, <3>5 DEF KeptInv
  <2>9. QED
    BY <2>1, <2>4, <2>6, <2>7, <2>8 DEF Confirms
<1>9. CASE DeviceWrites
  <2>1. PICK data \in {0, adbd.writes + 1} :
          /\ usb_send(Packet("WRTE", adbd.lid, adbd.peer, data))
          /\ produced' = IF data = 0 THEN produced ELSE Append(produced, data)
    BY <1>9 DEF DeviceWrites
  <2> DEFINE q == Packet("WRTE", adbd.lid, adbd.peer, data)
  <2>2. q \in Packets /\ data \in Nat
    <3>1. data \in Nat
      BY <1>2, <2>1, SessionAssumption DEF Daemons, SessionAssumption
    <3>2. QED
      BY <1>3, <3>1, PacketType DEF Commands
  <2>3. q.cmd = "WRTE" /\ q.data = data
    BY DEF Packet
  <2> HIDE DEF q
  <2>4. /\ adbd.phase = "open" /\ adbd.credit /\ UNCHANGED toDevice
        /\ adbd'.lid = adbd.lid /\ adbd'.peer = adbd.peer
        /\ adbd'.half = adbd.half
    BY <1>2, <1>9 DEF DeviceWrites, Daemons
  <2>5. adbd.lid # 0 /\ ~ Lost /\ Travelling = {}
    BY <2>4 DEF StreamInv, Daemon, Lost, TokenInv, Travelling, OnWay
  <2>6. /\ Range(toHost') = Range(toHost) \cup {q}
        /\ \A i, j \in DOMAIN toHost' :
             toHost'[i].cmd = "OKAY" /\ toHost'[j].cmd \in {"WRTE", "CLSE"} => i < j
    BY <1>6, <2>1, <2>2, <2>3 DEF q
  <2>7. OkayWay' = OkayWay /\ q \in Travelling'
    BY <2>3, <2>6 DEF OkayWay, Travelling
  <2>8. \A n : Kept(n) => Kept(n)'
    BY <1>5, <2>4
  <2>9. \A i \in DOMAIN produced' :
           /\ produced'[i] # 0
           /\ \/ \E n \in {produced'[i]} : Kept(n)'
              \/ i = Len(produced') /\ produced'[i] = data
    <3>1. CASE data = 0
      <4>1. produced' = produced
        BY <2>1, <3>1
      <4>2. \A i \in DOMAIN produced :
              produced[i] # 0 /\ \E n \in {produced[i]} : Kept(n)'
        BY <2>5, <2>8 DEF KeptInv
      <4>3. QED
        BY <4>1, <4>2
    <3>2. CASE data # 0
      <4>1. /\ Len(produced) \in Nat /\ Len(produced') = Len(produced) + 1
            /\ DOMAIN produced = 1 .. Len(produced)
            /\ DOMAIN produced' = 1 .. Len(produced) + 1
            /\ \A i \in 1 .. Len(produced) : produced'[i] = produced[i]
            /\ produced'[Len(produced) + 1] = data
        BY <1>2, <2>1, <2>2, <3>2, AppendRange
      <4>2. \A i \in DOMAIN produced' :
              i \in DOMAIN produced \/ i = Len(produced) + 1
        BY <4>1
      <4>3. \A i \in DOMAIN produced :
              produced[i] # 0 /\ \E n \in {produced[i]} : Kept(n)'
        BY <2>5, <2>8 DEF KeptInv
      <4>4. QED
        BY <3>2, <4>1, <4>2, <4>3
    <3>3. QED
      BY <3>1, <3>2
  <2>10. QED
    BY <1>1, <1>4, <2>3, <2>4, <2>5, <2>6, <2>7, <2>9 DEF KeptInv
<1>10. CASE DeviceCloses
  <2> DEFINE q == Packet("CLSE", adbd.lid, adbd.peer, 0)
  <2>1. /\ usb_send(q) /\ UNCHANGED <<toDevice, produced>>
        /\ adbd'.lid = adbd.lid /\ adbd'.peer = adbd.peer
        /\ adbd'.half = adbd.half /\ adbd'.credit = adbd.credit
    BY <1>2, <1>10 DEF DeviceCloses, Daemons
  <2>2. q \in Packets
    BY <1>3, PacketType DEF Commands
  <2>3. q.cmd = "CLSE"
    BY DEF Packet
  <2>4. /\ OkayWay' = OkayWay /\ Travelling' = Travelling
        /\ \A i, j \in DOMAIN toHost' :
             toHost'[i].cmd = "OKAY" /\ toHost'[j].cmd \in {"WRTE", "CLSE"} => i < j
    BY <1>7, <2>1, <2>2, <2>3
  <2>5. Lost => Lost'
    BY <1>1, <1>4, <2>1, <2>4 DEF Lost, Readies
  <2>6. \A n : Kept(n) => Kept(n)'
    BY <1>5, <2>1
  <2>7. QED
    BY <1>1, <1>4, <2>1, <2>4, <2>5, <2>6 DEF KeptInv
<1>11. QED
  BY <1>8, <1>9, <1>10 DEF DeviceStep

\* When a command is run every step keeps the device's output.
LEMMA NextKept ==
  Mode = "command" /\ WireInv /\ StreamInv /\ TokenInv /\ KeptInv /\ [Next]_vars
    => KeptInv'
<1> SUFFICES ASSUME Mode = "command", WireInv, StreamInv, TokenInv, KeptInv,
                    [Next]_vars
             PROVE  KeptInv'
  OBVIOUS
<1>1. TypeInv /\ Alone
  BY DEF WireInv
<1>2. CASE WatchStep
  <2>1. ~ read_and_dump \/ main = "dump"
    BY DEF read_and_dump
  <2>2. CASE read_and_dump
    \* The watch thread changes nothing that read_and_dump changes.
    <3>1. received' = Tail(received) /\ received # <<>> /\ received' = received
      BY <1>2, <2>2 DEF WatchStep, read_and_dump, shift_received_packet
    <3>2. Len(Tail(received)) = Len(received) - 1 /\ Len(received) \in Nat
      BY <1>1, <3>1, TailRange, Zenon DEF TypeInv, TypeOK
    <3>3. FALSE
      BY <3>1, <3>2
    <3>4. QED
      BY <3>3
  <2>3. QED
    BY <1>1, <1>2, <2>2, ThreadsKept
<1>3. CASE MainStep
  <2>1. UNCHANGED <<output, packet, toHost, adbd, produced>>
    BY <1>3 DEF MainStep, devVars
  <2>2. QED
    BY <1>1, <1>3, <2>1, ThreadsKept, DumpKept
<1>4. CASE UNCHANGED vars
  <2>1. UNCHANGED <<printed, received, produced, packet, output, toHost, adbd,
                    toDevice, remote_id>>
    BY <1>4 DEF vars, threadVars, streamVars, devVars
  <2>2. Readies' = Readies /\ \A t \in Range(toDevice') : t.packet.cmd # "WRTE"
    BY <2>1 DEF Readies, KeptInv
  <2>3. QED
    BY <2>1, <2>2, KeepKept
<1>5. ~ StdinStep
  BY <1>1, StdinWire
<1>6. QED
  BY <1>1, <1>2, <1>3, <1>4, <1>5, OutputKept, DeviceKept DEF Next

\* When a command is run the wire invariant and KeptInv hold throughout.
LEMMA KeptInvariance == Mode = "command" => (Spec => [](WireInv /\ KeptInv))
<1> SUFFICES ASSUME Mode = "command"
             PROVE  Spec => [](WireInv /\ KeptInv)
  OBVIOUS
<1>1. Init => WireInv /\ KeptInv
  BY InitWire, InitKept
<1>2. /\ WireInv /\ [Next]_vars => WireInv'
      /\ WireInv /\ StreamInv /\ TokenInv /\ KeptInv /\ [Next]_vars => KeptInv'
  BY NextWire, NextKept
<1>3. QED
  BY <1>1, <1>2, StreamInvariance, TokenInvariance, PTL DEF Spec

\* When a command is run, whatever the device was told has arrived was printed
\* or is stored: no interleaving of main, which resets the ids and takes packets
\* from the list, and the output thread, which replaces the list and answers,
\* acknowledges output and then loses it.
THEOREM AckedCorrect == Mode = "command" => (Spec => []AckedDataKept)
<1> SUFFICES ASSUME Mode = "command"
             PROVE  Spec => []AckedDataKept
  OBVIOUS
<1>1. TypeInv /\ TokenInv /\ KeptInv => AckedDataKept
  <2> SUFFICES ASSUME TypeInv, TokenInv, KeptInv,
                      NEW i \in DOMAIN produced,
                      i < Len(produced) \/ Acknowledged
               PROVE  Kept(produced[i])
    BY DEF AckedDataKept, Kept, In, Range
  <2>1. Acknowledged => ~ Lost /\ Travelling = {}
    BY DEF Acknowledged, Lost, TokenInv, Travelling, OnWay
  <2>2. i < Len(produced) => i # Len(produced)
    <3>1. i \in 1 .. Len(produced) /\ Len(produced) \in Nat
      BY LenProperties DEF TypeInv, TypeOK
    <3>2. QED
      BY <3>1
  <2>3. QED
    BY <2>1, <2>2 DEF KeptInv
<1>2. Spec => [](WireInv /\ KeptInv)
  BY KeptInvariance
<1>3. QED
  BY <1>1, <1>2, TypeInvariance, TokenInvariance, PTL
-----------------------------------------------------------------------------
(***************************************************************************)
(* When a command is run, its output is printed as OutputStream promises   *)
(***************************************************************************)

\* The payloads are numbered upwards, and those that are stored or travel were
\* written by the device.
Numbered ==
  /\ \A i, j \in DOMAIN produced : i < j => produced[i] < produced[j]
  /\ \A n \in Range(produced) : n <= adbd.writes
  /\ \A q \in Range(received) \cup Travelling :
       q.cmd = "WRTE" /\ q.data # 0 => q.data \in Range(produced)

\* The CLOSE of the device stays behind its WRITEs: once it is stored, all of
\* the output is stored or printed.
CloseLast ==
  /\ \A i, j \in DOMAIN toHost :
       toHost[i].cmd = "CLSE" /\ toHost[j].cmd = "WRTE" => j < i
  /\ packet.cmd = "CLSE" => ~ OnWay
  /\ \A i, j \in DOMAIN received :
       received[i].cmd = "CLSE" /\ received[j].cmd = "WRTE" => j < i
  /\ (\E q \in Range(received) : q.cmd = "CLSE") =>
       /\ adbd.phase = "closed" /\ ~ OnWay /\ ~ InHand
       /\ \A n \in Range(produced) : Kept(n)

\* A prefix of the output is printed, and when the dump is over all of it.
PrefixInv ==
  /\ Len(printed) <= Len(produced)
  /\ \A i \in DOMAIN printed : printed[i] = produced[i]
  /\ DumpOver => printed = produced /\ adbd.phase = "closed"

FlowInv == Numbered /\ CloseLast /\ PrefixInv

\* Nothing was written at first.
LEMMA InitFlow == ASSUME Init PROVE FlowInv
<1>1. /\ printed = <<>> /\ received = <<>> /\ produced = <<>> /\ toHost = <<>>
      /\ output = "read" /\ packet = Nothing /\ seed = 0
  BY DEF Init
<1>2. /\ Range(received) = {} /\ Range(toHost) = {} /\ Range(produced) = {}
      /\ DOMAIN printed = {} /\ DOMAIN received = {} /\ DOMAIN produced = {}
      /\ DOMAIN toHost = {} /\ Len(printed) = 0 /\ Len(produced) = 0
  BY <1>1, EmptyRange
<1>3. Travelling = {}
  BY <1>1, <1>2 DEF Travelling, InHand
<1>4. Nothing.cmd = "CNXN"
  BY DEF Nothing, Packet
<1>5. Numbered
  BY <1>2, <1>3 DEF Numbered
<1>6. CloseLast
  BY <1>1, <1>2, <1>4 DEF CloseLast
<1>7. PrefixInv
  BY <1>1, <1>2 DEF PrefixInv, DumpOver
<1>8. QED
  BY <1>5, <1>6, <1>7 DEF FlowInv

\* The WRITE at the head of the list is the first payload not printed yet.
LEMMA NextPayload ==
  ASSUME TypeInv, OrderInv, KeptInv, FlowInv,
         received # <<>>, Head(received).cmd = "WRTE"
  PROVE  /\ Len(printed) < Len(produced)
         /\ Head(received).data = produced[Len(printed) + 1]
<1> DEFINE first == Head(received)
           m == Len(printed) + 1
<1>1. /\ received \in Seq(Packets) /\ printed \in Seq(Nat)
      /\ produced \in Seq(Nat)
  BY DEF TypeInv, TypeOK
<1>2. /\ DOMAIN received = 1 .. Len(received) /\ Len(received) \in Nat
      /\ 1 \in DOMAIN received /\ first = received[1]
      /\ first \in Range(received)
  BY <1>1, TailRange
<1>3. /\ DOMAIN printed = 1 .. Len(printed) /\ Len(printed) \in Nat
      /\ DOMAIN produced = 1 .. Len(produced) /\ Len(produced) \in Nat
      /\ \A i \in DOMAIN produced : produced[i] \in Nat
  BY <1>1, LenProperties, ElementOfSeq
<1>4. /\ first.data \in Range(produced)
      /\ \A n \in Range(printed) : n < first.data
  BY <1>2 DEF OrderInv, FlowInv, Numbered
<1>5. PICK k \in DOMAIN produced : produced[k] = first.data
  BY <1>4 DEF Range
<1>6. ~ (k \in DOMAIN printed)
  <2>1. SUFFICES ASSUME k \in DOMAIN printed PROVE FALSE
    OBVIOUS
  <2>2. printed[k] \in Range(printed) /\ printed[k] = first.data
    BY <1>5, <2>1 DEF Range, FlowInv, PrefixInv
  <2>3. QED
    BY <1>3, <1>4, <1>5, <2>2
<1>7. /\ m \in DOMAIN produced /\ m <= k /\ m \in Nat
      /\ k \in Nat /\ k <= Len(produced) /\ Len(produced) \in Nat
  BY <1>3, <1>6
<1>8. ~ (m < k)
  <2>1. SUFFICES ASSUME m < k PROVE FALSE
    OBVIOUS
  <2>2. /\ produced[m] < first.data /\ m # Len(produced)
        /\ produced[m] \in Nat /\ first.data \in Nat
    <3>1. produced[m] < produced[k]
      BY <1>7, <2>1 DEF FlowInv, Numbered
    <3>2. produced[m] \in Nat /\ produced[k] \in Nat
      BY <1>3, <1>7
    <3>3. m # Len(produced)
      BY <1>7, <2>1
    <3>4. QED
      BY <1>5, <3>1, <3>2, <3>3
  <2>3. Kept(produced[m])
    BY <1>7, <2>2 DEF KeptInv
  <2>4. ~ (produced[m] \in Range(printed))
    <3>1. SUFFICES ASSUME NEW j \in DOMAIN printed, printed[j] = produced[m]
                   PROVE  FALSE
      BY DEF Range
    <3>2. j \in DOMAIN produced /\ j < m /\ produced[j] = produced[m]
      BY <1>3, <1>7, <3>1 DEF FlowInv, PrefixInv
    <3>3. produced[j] < produced[m]
      BY <1>7, <3>2 DEF FlowInv, Numbered
    <3>4. QED
      BY <1>3, <1>7, <3>2, <3>3
  <2>5. PICK j \in DOMAIN received : received[j] = WriteOf(produced[m])
    BY <2>3, <2>4 DEF Kept, Range
  <2>6. received[j].cmd = "WRTE" /\ received[j].data = produced[m]
    BY <2>5 DEF WriteOf, Packet
  <2>7. 1 < j
    <3>1. j # 1
      BY <1>2, <2>2, <2>6
    <3>2. QED
      BY <1>2, <3>1
  <2>8. first.data < produced[m]
    BY <1>2, <2>6, <2>7 DEF OrderInv
  <2>9. QED
    BY <2>2, <2>8
<1>9. m = k
  BY <1>3, <1>7, <1>8
<1>10. QED
  BY <1>3, <1>5, <1>9

\* When the CLOSE is at the head of the list, all of the output is printed.
LEMMA AllPrinted ==
  ASSUME TypeInv, FlowInv, received # <<>>, Head(received).cmd = "CLSE"
  PROVE  printed = produced /\ adbd.phase = "closed"
<1> DEFINE m == Len(printed) + 1
<1>1. /\ received \in Seq(Packets) /\ printed \in Seq(Nat)
      /\ produced \in Seq(Nat)
  BY DEF TypeInv, TypeOK
<1>2. /\ DOMAIN received = 1 .. Len(received) /\ Len(received) \in Nat
      /\ 1 \in DOMAIN received /\ Head(received) = received[1]
      /\ Head(received) \in Range(received)
  BY <1>1, TailRange
<1>3. /\ DOMAIN printed = 1 .. Len(printed) /\ Len(printed) \in Nat
      /\ DOMAIN produced = 1 .. Len(produced) /\ Len(produced) \in Nat
      /\ \A i \in DOMAIN produced : produced[i] \in Nat
  BY <1>1, LenProperties, ElementOfSeq
<1>4. adbd.phase = "closed" /\ \A n \in Range(produced) : Kept(n)
  BY <1>2 DEF FlowInv, CloseLast
<1>5. \A q \in Range(received) : q.cmd # "WRTE"
  <2>1. SUFFICES ASSUME NEW j \in DOMAIN received, received[j].cmd = "WRTE"
                 PROVE  FALSE
    BY DEF Range
  <2>2. j < 1
    BY <1>2, <2>1 DEF FlowInv, CloseLast
  <2>3. QED
    BY <1>2, <2>2
<1>6. Range(produced) \subseteq Range(printed)
  <2>1. \A n : WriteOf(n).cmd = "WRTE"
    BY DEF WriteOf, Packet
  <2>2. QED
    BY <1>4, <1>5, <2>1 DEF Kept
<1>7. ~ (m \in DOMAIN produced)
  <2>1. SUFFICES ASSUME m \in DOMAIN produced PROVE FALSE
    OBVIOUS
  <2>2. PICK j \in DOMAIN printed : printed[j] = produced[m]
    BY <1>6, <2>1 DEF Range
  <2>3. j \in DOMAIN produced /\ j < m /\ produced[j] = produced[m]
    BY <1>3, <2>1, <2>2 DEF FlowInv, PrefixInv
  <2>4. produced[j] < produced[m]
    BY <2>1, <2>3 DEF FlowInv, Numbered
  <2>5. QED
    BY <1>3, <2>1, <2>3, <2>4
<1>8. Len(printed) = Len(produced)
  <2>1. Len(printed) <= Len(produced)
    BY DEF FlowInv, PrefixInv
  <2>2. ~ (m \in 1 .. Len(produced)) 
    BY <1>3, <1>7
  <2>3. Len(printed) \in Nat /\ Len(produced) \in Nat
    BY <1>3
  <2>4. QED
    BY <2>1, <2>2, <2>3
<1>9. printed = produced
  <2>1. \A i \in 1 .. Len(printed) : printed[i] = produced[i]
    BY <1>3 DEF FlowInv, PrefixInv
  <2>2. QED
    BY <1>1, <1>8, <2>1, SeqEqual
<1>10. QED
  BY <1>4, <1>9

\* Steps by which nothing is read, printed or written.
LEMMA KeepFlow ==
  ASSUME FlowInv, DumpOver' => DumpOver,
         UNCHANGED <<printed, received, produced, packet, output, toHost, adbd>>
  PROVE  FlowInv'
<1>1. /\ Travelling' = Travelling /\ InHand' = InHand /\ OnWay' = OnWay
      /\ \A n : Kept(n)' <=> Kept(n)
  BY DEF Travelling, InHand, OnWay, Kept, WriteOf
<1>2. Numbered'
  BY <1>1 DEF FlowInv, Numbered
<1>3. CloseLast'
  BY <1>1 DEF FlowInv, CloseLast
<1>4. PrefixInv'
  BY DEF FlowInv, PrefixInv
<1>5. QED
  BY <1>2, <1>3, <1>4 DEF FlowInv

\* Of main's and the watch thread's steps only read_and_dump ends the dump.
LEMMA ThreadsOver ==
  ASSUME TypeInv, Alone, WatchStep \/ MainStep, ~ read_and_dump
  PROVE  UNCHANGED <<printed, received, produced, packet, output, toHost, adbd,
                     DumpOver>>
<1>1. UNCHANGED <<packet, output, toHost, adbd, produced>>
  BY ThreadReadies
<1>2. UNCHANGED <<printed, received>>
  BY DEF WatchStep, MainStep, Wait, Expire, send_open, send_close, send_command
<1>3. DumpOver' <=> DumpOver
  <2>1. CASE WatchStep
    BY <2>1 DEF WatchStep, streamVars, DumpOver
  <2>2. CASE Wait \/ Expire
    <3>1. seed = 0 /\ seed' = 0
      BY <2>2 DEF Wait, Expire, TypeInv, SeedFresh, streamVars
    <3>2. QED
      BY <3>1 DEF DumpOver
  <2>3. CASE send_open
    BY <2>3 DEF send_open, DumpOver
  <2>4. CASE send_close
    BY <2>4 DEF send_close, DumpOver, streamVars
  <2>5. ~ send_command
    BY DEF send_command, Alone
  <2>6. QED
    BY <2>1, <2>2, <2>3, <2>4, <2>5 DEF MainStep
<1>4. DumpOver' = DumpOver
  BY <1>3 DEF DumpOver
<1>5. QED
  BY <1>1, <1>2, <1>4

\* read_and_dump prints the next payload, or leaves when all are printed.
LEMMA DumpFlow ==
  ASSUME TypeInv, OrderInv, KeptInv, FlowInv, read_and_dump,
         UNCHANGED <<output, packet, toHost, adbd, produced>>
  PROVE  FlowInv'
<1> DEFINE first == Head(received)
<1>1. /\ received \in Seq(Packets) /\ printed \in Seq(Nat)
      /\ produced \in Seq(Nat) /\ received # <<>> /\ received' = Tail(received)
      /\ main = "dump" /\ UNCHANGED seed
  BY DEF TypeInv, TypeOK, read_and_dump, shift_received_packet, streamVars
<1>2. /\ DOMAIN received' = 1 .. Len(received') /\ Len(received') \in Nat
      /\ DOMAIN received = 1 .. Len(received)
      /\ \A i \in 1 .. Len(received') :
           i + 1 \in 1 .. Len(received) /\ received'[i] = received[i + 1]
      /\ Range(received) = {first} \cup Range(received')
  BY <1>1, TailRange
<1>3. /\ Travelling' = Travelling /\ InHand' = InHand /\ OnWay' = OnWay
      /\ \A n : Kept(n) => Kept(n)'
  BY DumpKept DEF Travelling, InHand, OnWay
<1>4. Numbered'
  BY <1>2, <1>3 DEF FlowInv, Numbered
<1>5. CloseLast'
  <2>1. ASSUME NEW i \in DOMAIN received', NEW j \in DOMAIN received',
               received'[i].cmd = "CLSE", received'[j].cmd = "WRTE"
        PROVE  j < i
    <3>1. /\ i + 1 \in DOMAIN received /\ j + 1 \in DOMAIN received
          /\ received'[i] = received[i + 1] /\ received'[j] = received[j + 1]
          /\ j + 1 < i + 1 => j < i
      BY <1>2
    <3>2. QED
      BY <2>1, <3>1 DEF FlowInv, CloseLast
  <2>2. QED
    BY <1>2, <1>3, <2>1 DEF FlowInv, CloseLast
<1>6. PrefixInv'
  <2>1. CASE first.cmd = "WRTE"
    <3>1. /\ printed' = Append(printed, first.data) /\ UNCHANGED main
          /\ first.data \in Nat
      <4>1. first \in Packets
        BY <1>1, HeadTailProperties
      <4>2. QED
        BY <2>1, <4>1 DEF read_and_dump, Packets
    <3>2. /\ Len(printed) \in Nat /\ Len(printed') = Len(printed) + 1
          /\ DOMAIN printed = 1 .. Len(printed)
          /\ DOMAIN printed' = 1 .. Len(printed) + 1
          /\ \A i \in 1 .. Len(printed) : printed'[i] = printed[i]
          /\ printed'[Len(printed) + 1] = first.data
      BY <1>1, <3>1, AppendRange
    <3>3. /\ Len(printed) < Len(produced)
          /\ first.data = produced[Len(printed) + 1]
      BY <1>1, <2>1, NextPayload
    <3>4. Len(printed') <= Len(produced')
      <4>1. Len(produced) \in Nat
        BY <1>1, LenProperties
      <4>2. QED
        BY <3>2, <3>3, <4>1
    <3>5. \A i \in DOMAIN printed' : printed'[i] = produced'[i]
      <4>1. TAKE i \in DOMAIN printed'
      <4>2. i \in DOMAIN printed \/ i = Len(printed) + 1
        BY <3>2
      <4>3. QED
        BY <3>2, <3>3, <4>2 DEF FlowInv, PrefixInv
    <3>6. ~ DumpOver'
      BY <1>1, <3>1 DEF DumpOver
    <3>7. QED
      BY <3>4, <3>5, <3>6 DEF PrefixInv
  <2>2. CASE first.cmd = "CLSE"
    <3>1. UNCHANGED printed
      BY <2>2 DEF read_and_dump
    <3>2. printed = produced /\ adbd.phase = "closed"
      BY <1>1, <2>2, AllPrinted
    <3>3. QED
      BY <3>1, <3>2 DEF FlowInv, PrefixInv
  <2>3. CASE first.cmd \notin {"WRTE", "CLSE"}
    <3>1. UNCHANGED <<printed, main>>
      BY <2>3 DEF read_and_dump
    <3>2. QED
      BY <1>1, <3>1 DEF FlowInv, PrefixInv, DumpOver
  <2>4. QED
    BY <2>1, <2>2, <2>3
<1>7. QED
  BY <1>4, <1>5, <1>6 DEF FlowInv

\* The output thread stores the CLOSE of the stream behind all of its WRITEs.
LEMMA OutputFlow ==
  ASSUME TypeInv, StreamInv, TokenInv, OrderInv, KeptInv, Framed, FlowInv,
         OutputStep
  PROVE  FlowInv'
<1>1. UNCHANGED <<main, seed, printed, adbd, produced>>
  BY DEF OutputStep
<1>2. /\ received \in Seq(Packets) /\ toHost \in Seq(Packets)
      /\ packet \in Packets
  BY DEF TypeInv, TypeOK
<1>3. PrefixInv'
  BY <1>1 DEF FlowInv, PrefixInv, DumpOver
<1>4. CASE remote_read
  <2>1. /\ toHost # <<>> /\ packet' = Head(toHost) /\ toHost' = Tail(toHost)
        /\ output = "read" /\ output' = "handle" /\ UNCHANGED received
    BY <1>4 DEF remote_read
  <2>2. /\ DOMAIN toHost = 1 .. Len(toHost)
        /\ DOMAIN toHost' = 1 .. Len(toHost')
        /\ Len(toHost') \in Nat
        /\ \A i \in 1 .. Len(toHost') :
             i + 1 \in 1 .. Len(toHost) /\ toHost'[i] = toHost[i + 1]
        /\ 1 \in 1 .. Len(toHost) /\ packet' = toHost[1]
        /\ Range(toHost) = {packet'} \cup Range(toHost')
    BY <1>2, <2>1, TailRange
  <2>3. Travelling' = Travelling
    BY <2>1, <2>2 DEF Travelling, InHand
  <2>4. ~ OnWay => ~ OnWay' /\ ~ InHand'
    BY <2>2 DEF OnWay, InHand
  <2>5. \A n : Kept(n)' <=> Kept(n)
    BY <1>1, <2>1 DEF Kept, WriteOf
  <2>6. Numbered'
    BY <1>1, <2>1, <2>3 DEF FlowInv, Numbered
  <2>7. \A i, j \in DOMAIN toHost' :
          toHost'[i].cmd = "CLSE" /\ toHost'[j].cmd = "WRTE" => j < i
    <3>1. TAKE i, j \in DOMAIN toHost'
    <3>2. /\ i + 1 \in DOMAIN toHost /\ j + 1 \in DOMAIN toHost
          /\ toHost'[i] = toHost[i + 1] /\ toHost'[j] = toHost[j + 1]
          /\ j + 1 < i + 1 => j < i
      BY <2>2
    <3>3. QED
      BY <3>2 DEF FlowInv, CloseLast
  <2>8. packet'.cmd = "CLSE" => ~ OnWay'
    <3>1. SUFFICES ASSUME packet'.cmd = "CLSE",
                          NEW j \in DOMAIN toHost', toHost'[j].cmd = "WRTE"
                   PROVE  FALSE
      BY DEF OnWay, Range
    <3>2. /\ j + 1 \in DOMAIN toHost /\ toHost[j + 1].cmd = "WRTE"
          /\ 1 \in DOMAIN toHost /\ toHost[1].cmd = "CLSE"
          /\ ~ (j + 1 < 1)
      BY <2>2, <3>1
    <3>3. QED
      BY <3>2 DEF FlowInv, CloseLast
  <2>9. CloseLast'
    BY <1>1, <2>1, <2>4, <2>5, <2>7, <2>8 DEF FlowInv, CloseLast
  <2>10. QED
    BY <1>3, <2>6, <2>9 DEF FlowInv
<1>5. CASE handle_packet
  <2>1. /\ UNCHANGED <<packet, toHost>> /\ output' # "handle"
        /\ \/ UNCHANGED received
           \/ received' = <<>>
           \/ /\ received' = Append(received, packet)
              /\ packet.cmd = "WRTE" => output = "handle" /\ packet.data # 0
              /\ packet.cmd = "CLSE" => /\ packet.arg0 \in {remote_id, 0}
                                        /\ packet.arg1 = id
    BY <1>5, Stores
  <2>2. /\ OnWay' = OnWay /\ ~ InHand' /\ Travelling' \subseteq Travelling
    BY <2>1 DEF OnWay, InHand, Travelling
  <2>3. CASE UNCHANGED received
    <3>1. \A n : Kept(n)' <=> Kept(n)
      BY <1>1, <2>3 DEF Kept, WriteOf
    <3>2. Numbered'
      BY <1>1, <2>2, <2>3 DEF FlowInv, Numbered
    <3>3. CloseLast'
      BY <1>1, <2>1, <2>2, <2>3, <3>1 DEF FlowInv, CloseLast
    <3>4. QED
      BY <1>3, <3>2, <3>3 DEF FlowInv
  <2>4. CASE received' = <<>>
    <3>1. Range(received') = {} /\ DOMAIN received' = {}
      BY <2>4, EmptyRange
    <3>2. Numbered'
      BY <1>1, <2>2, <3>1 DEF FlowInv, Numbered
    <3>3. CloseLast'
      BY <2>1, <2>2, <3>1 DEF FlowInv, CloseLast
    <3>4. QED
      BY <1>3, <3>2, <3>3 DEF FlowInv
  <2>5. CASE received' = Append(received, packet) /\ ~ UNCHANGED received
    <3>1. /\ Len(received) \in Nat
          /\ DOMAIN received = 1 .. Len(received)
          /\ DOMAIN received' = 1 .. Len(received) + 1
          /\ \A i \in 1 .. Len(received) : received'[i] = received[i]
          /\ received'[Len(received) + 1] = packet
          /\ Range(received') = Range(received) \cup {packet}
      BY <1>2, <2>5, AppendRange
    <3>2. received' # <<>>
      BY <1>2, <2>5, AppendProperties
    <3>3. \A n : Kept(n) => Kept(n)'
      BY <1>1, <3>1 DEF Kept, WriteOf
    <3>4. packet.cmd = "WRTE" => InHand /\ packet \in Travelling
      BY <2>1, <2>5, <3>2 DEF InHand, Travelling
    <3>5. packet.cmd = "CLSE" =>
            /\ adbd.phase = "closed" /\ ~ OnWay
            /\ \A n \in Range(produced) : Kept(n)
      <4>1. SUFFICES ASSUME packet.cmd = "CLSE"
                     PROVE  /\ adbd.phase = "closed" /\ ~ OnWay
                            /\ \A n \in Range(produced) : Kept(n)
        OBVIOUS
      <4>2. FromDevice(packet) /\ Ids
        BY DEF StreamInv
      <4>3. adbd.phase = "closed" /\ ~ OnWay
        BY <4>1, <4>2 DEF FromDevice, Framed, FlowInv, CloseLast
      <4>4. packet.arg0 \in {remote_id, 0} /\ packet.arg1 = id
        BY <2>1, <2>5, <3>2, <4>1
      <4>5. adbd.lid # 0 /\ remote_id = adbd.lid
        BY <4>1, <4>2, <4>4 DEF FromDevice, Ids
      <4>6. adbd.lid # -1
        <5>1. adbd \in Daemons
          BY DEF TypeInv, TypeOK, Daemons
        <5>2. QED
          BY <5>1 DEF Daemons
      <4>7. ~ Lost /\ Travelling = {}
        BY <4>1, <4>3, <4>5, <4>6 DEF Lost, Travelling, InHand, OnWay
      <4>8. \A i \in DOMAIN produced : Kept(produced[i])
        BY <4>7 DEF KeptInv
      <4>9. QED
        BY <4>3, <4>8 DEF Range
    <3>6. \A i, j \in DOMAIN received' :
            received'[i].cmd = "CLSE" /\ received'[j].cmd = "WRTE" => j < i
      <4>1. SUFFICES ASSUME NEW i \in DOMAIN received', NEW j \in DOMAIN received',
                            received'[i].cmd = "CLSE", received'[j].cmd = "WRTE"
                     PROVE  j < i
        OBVIOUS
      <4>2. i \in DOMAIN received \/ i = Len(received) + 1
        BY <3>1
      <4>3. j \in DOMAIN received \/ j = Len(received) + 1
        BY <3>1
      <4>4. CASE i \in DOMAIN received /\ j \in DOMAIN received
        BY <3>1, <4>1, <4>4 DEF FlowInv, CloseLast
      <4>5. CASE i = Len(received) + 1 /\ j \in DOMAIN received
        BY <3>1, <4>5
      <4>6. CASE i \in DOMAIN received /\ j = Len(received) + 1
        <5>1. received[i] \in Range(received) /\ received[i].cmd = "CLSE"
          BY <3>1, <4>1, <4>6 DEF Range
        <5>2. InHand
          BY <3>1, <3>4, <4>1, <4>6
        <5>3. QED
          BY <5>1, <5>2 DEF FlowInv, CloseLast
      <4>7. CASE i = Len(received) + 1 /\ j = Len(received) + 1
        BY <3>1, <4>1, <4>7
      <4>8. QED
        BY <4>2, <4>3, <4>4, <4>5, <4>6, <4>7
    <3>7. CloseLast'
      BY <1>1, <2>1, <2>2, <3>1, <3>3, <3>5, <3>6 DEF FlowInv, CloseLast
    <3>8. Numbered'
      BY <1>1, <2>2, <3>1, <3>4 DEF FlowInv, Numbered
    <3>9. QED
      BY <1>3, <3>7, <3>8 DEF FlowInv
  <2>6. QED
    BY <2>1, <2>3, <2>4, <2>5
<1>6. CASE send_ready
  <2>1. UNCHANGED <<received, packet, toHost>> /\ output' = "read"
    BY <1>6 DEF send_ready
  <2>2. /\ OnWay' = OnWay /\ ~ InHand' /\ Travelling' \subseteq Travelling
        /\ \A n : Kept(n)' <=> Kept(n)
    BY <1>1, <2>1 DEF OnWay, InHand, Travelling, Kept, WriteOf
  <2>3. Numbered'
    BY <1>1, <2>1, <2>2 DEF FlowInv, Numbered
  <2>4. CloseLast'
    BY <1>1, <2>1, <2>2 DEF FlowInv, CloseLast
  <2>5. QED
    BY <1>3, <2>3, <2>4 DEF FlowInv
<1>7. QED
  BY <1>4, <1>5, <1>6 DEF OutputStep

\* What adbd reads does not reopen a stream that was closed.
LEMMA ReadsClosed ==
  ASSUME TypeInv, StreamInv, DeviceReads, adbd'.phase # "desync"
  PROVE  /\ adbd'.writes = adbd.writes
         /\ adbd.phase = "closed" =>
              adbd'.phase = "closed" /\ adbd'.lid = adbd.lid /\ adbd'.peer = adbd.peer
<1>1. Quiet \/ Greets \/ Grants \/ Confirms \/ Accepts \/ Refuses
  BY ReadsOutcome
<1>2. CASE SameStream
  BY <1>2 DEF SameStream
<1>3. CASE Accepts
  <2>1. adbd.phase # "closed"
    BY <1>3, OpenFirst DEF Accepts
  <2>2. QED
    BY <1>3, <2>1 DEF Accepts
<1>4. QED
  BY <1>1, <1>2, <1>3 DEF Quiet, Greets, Grants, Confirms, Refuses

\* The device writes only while it has not closed the stream, and numbers its
\* WRITEs upwards.
LEMMA DeviceFlow ==
  ASSUME TypeInv, StreamInv, TokenInv, Framed', FlowInv, DeviceStep
  PROVE  FlowInv'
<1>1. UNCHANGED <<printed, received, output, packet, main, seed>>
  BY DEF DeviceStep, threadVars, streamVars
<1>2. /\ toHost \in Seq(Packets) /\ adbd \in Daemons /\ produced \in Seq(Nat)
      /\ adbd.lid \in Int /\ adbd.peer \in Int
  <2>1. /\ toHost \in Seq(Packets) /\ adbd \in Daemons /\ produced \in Seq(Nat)
    BY DEF TypeInv, TypeOK, Daemons
  <2>2. QED
    BY <2>1 DEF Daemons
<1>3. InHand' = InHand
  BY <1>1 DEF InHand
<1>4. ASSUME NEW q \in Packets, usb_send(q)
      PROVE  /\ DOMAIN toHost = 1 .. Len(toHost) /\ Len(toHost) \in Nat
             /\ DOMAIN toHost' = 1 .. Len(toHost) + 1
             /\ \A i \in 1 .. Len(toHost) : toHost'[i] = toHost[i]
             /\ toHost'[Len(toHost) + 1] = q
             /\ Range(toHost') = Range(toHost) \cup {q}
  BY <1>2, <1>4, AppendRange DEF usb_send
\* A packet that is no WRITE is queued behind those there are.
<1>5. ASSUME UNCHANGED toHost
               \/ \E q \in Packets : usb_send(q) /\ q.cmd # "WRTE"
      PROVE  /\ OnWay' = OnWay /\ Travelling' = Travelling
             /\ \A i, j \in DOMAIN toHost' :
                  toHost'[i].cmd = "CLSE" /\ toHost'[j].cmd = "WRTE" => j < i
  <2>1. CASE UNCHANGED toHost
    BY <1>1, <1>3, <2>1 DEF OnWay, Travelling, FlowInv, CloseLast
  <2>2. ASSUME NEW q \in Packets, usb_send(q), q.cmd # "WRTE"
        PROVE  /\ OnWay' = OnWay /\ Travelling' = Travelling
               /\ \A i, j \in DOMAIN toHost' :
                    toHost'[i].cmd = "CLSE" /\ toHost'[j].cmd = "WRTE" => j < i
    <3>1. OnWay' = OnWay /\ Travelling' = Travelling
      BY <1>1, <1>3, <1>4, <2>2 DEF OnWay, Travelling
    <3>2. ASSUME NEW i \in DOMAIN toHost', NEW j \in DOMAIN toHost',
                 toHost'[i].cmd = "CLSE", toHost'[j].cmd = "WRTE"
          PROVE  j < i
      <4>1. i \in DOMAIN toHost \/ i = Len(toHost) + 1
        BY <1>4, <2>2
      <4>2. j \in DOMAIN toHost /\ j < Len(toHost) + 1
        BY <1>4, <2>2, <3>2
      <4>3. i \in DOMAIN toHost => j < i
        BY <1>4, <2>2, <3>2, <4>2 DEF FlowInv, CloseLast
      <4>4. QED
        BY <4>1, <4>2, <4>3
    <3>3. QED
      BY <3>1, <3>2
  <2>3. QED
    BY <1>5, <2>1, <2>2
<1>6. CASE DeviceReads
  <2>1. UNCHANGED produced /\ adbd'.phase # "desync"
    BY <1>6 DEF DeviceReads, Framed
  <2>2. /\ adbd'.writes = adbd.writes
        /\ adbd.phase = "closed" =>
             adbd'.phase = "closed" /\ adbd'.lid = adbd.lid /\ adbd'.peer = adbd.peer
    BY <1>6, <2>1, ReadsClosed
  <2>3. /\ OnWay' = OnWay /\ Travelling' = Travelling
        /\ \A i, j \in DOMAIN toHost' :
             toHost'[i].cmd = "CLSE" /\ toHost'[j].cmd = "WRTE" => j < i
    BY <1>5, <1>6, ReadsSend
  <2>4. adbd.phase = "closed" => \A n : Kept(n)' <=> Kept(n)
    BY <1>1, <2>2 DEF Kept, WriteOf
  <2>5. Numbered'
    BY <1>1, <2>1, <2>2, <2>3 DEF FlowInv, Numbered
  <2>6. CloseLast'
    BY <1>1, <1>3, <2>1, <2>2, <2>3, <2>4 DEF FlowInv, CloseLast
  <2>7. PrefixInv'
    BY <1>1, <2>1, <2>2 DEF FlowInv, PrefixInv, DumpOver
  <2>8. QED
    BY <2>5, <2>6, <2>7 DEF FlowInv
\* Before the CLOSE nothing of it is to be seen on the host.
<1>7. ASSUME adbd.phase = "open"
      PROVE  /\ ~ DumpOver' /\ packet.cmd # "CLSE"
             /\ \A q \in Range(received) \cup Range(toHost) : q.cmd # "CLSE"
  BY <1>1, <1>7 DEF DumpOver, FlowInv, PrefixInv, CloseLast, StreamInv, FromDevice
<1>8. CASE DeviceWrites
  <2>1. PICK data \in {0, adbd.writes + 1} :
          /\ usb_send(Packet("WRTE", adbd.lid, adbd.peer, data))
          /\ produced' = IF data = 0 THEN produced ELSE Append(produced, data)
    BY <1>8 DEF DeviceWrites
  <2> DEFINE q == Packet("WRTE", adbd.lid, adbd.peer, data)
  <2>2. adbd.writes \in Nat /\ data \in Nat
    BY <1>2, <2>1, SessionAssumption DEF Daemons, SessionAssumption
  <2>3. q \in Packets
    BY <1>2, <2>2, PacketType DEF Commands
  <2>4. q.cmd = "WRTE" /\ q.data = data
    BY DEF Packet
  <2> HIDE DEF q
  <2>5. adbd.phase = "open" /\ adbd.credit /\ adbd'.writes = adbd.writes + 1
    BY <1>2, <1>8 DEF DeviceWrites, Daemons
  <2>6. Travelling' = {q}
    <3>1. Travelling = {}
      BY <2>5 DEF TokenInv, Travelling, OnWay
    <3>2. Range(toHost') = Range(toHost) \cup {q}
      BY <1>4, <2>1, <2>3 DEF q
    <3>3. QED
      BY <1>1, <1>3, <2>4, <3>1, <3>2 DEF Travelling
  <2>7. \A i \in DOMAIN toHost' : toHost'[i].cmd # "CLSE"
    <3>1. Range(toHost') = Range(toHost) \cup {q}
      BY <1>4, <2>1, <2>3 DEF q
    <3>2. \A r \in Range(toHost') : r.cmd # "CLSE"
      BY <1>7, <2>4, <2>5, <3>1
    <3>3. QED
      BY <3>2 DEF Range
  <2>8. CloseLast'
    BY <1>1, <1>7, <2>5, <2>7 DEF FlowInv, CloseLast
  <2>9. CASE data = 0
    <3>1. UNCHANGED produced
      BY <2>1, <2>9
    <3>2. \A n \in Range(produced) : n <= adbd'.writes
      <4>1. Range(produced) \subseteq Nat
        BY <1>2, RangeType
      <4>2. \A n \in Nat : n <= adbd.writes => n <= adbd.writes + 1
        BY <2>2
      <4>3. QED
        BY <2>5, <4>1, <4>2 DEF FlowInv, Numbered
    <3>3. Numbered'
      BY <1>1, <2>4, <2>6, <2>9, <3>1, <3>2 DEF FlowInv, Numbered
    <3>4. PrefixInv'
      BY <1>1, <1>7, <2>5, <3>1 DEF FlowInv, PrefixInv
    <3>5. QED
      BY <2>8, <3>3, <3>4 DEF FlowInv
  <2>10. CASE data # 0
    <3>1. /\ Len(produced) \in Nat /\ Len(produced') = Len(produced) + 1
          /\ DOMAIN produced = 1 .. Len(produced)
          /\ DOMAIN produced' = 1 .. Len(produced) + 1
          /\ \A i \in 1 .. Len(produced) : produced'[i] = produced[i]
          /\ produced'[Len(produced) + 1] = data
          /\ Range(produced') = Range(produced) \cup {data}
      BY <1>2, <2>1, <2>2, <2>10, AppendRange, SMTT(30)
    <3>2. data = adbd.writes + 1
      BY <2>1, <2>10
    <3>3. \A n \in Range(produced) : n \in Nat /\ n < data /\ n <= adbd'.writes
      <4>1. Range(produced) \subseteq Nat
        BY <1>2, RangeType
      <4>2. \A n \in Nat : n <= adbd.writes =>
              n < adbd.writes + 1 /\ n <= adbd.writes + 1
        BY <2>2
      <4>3. QED
        BY <2>5, <3>2, <4>1, <4>2 DEF FlowInv, Numbered
    <3>4. \A i, j \in DOMAIN produced' : i < j => produced'[i] < produced'[j]
      <4>1. TAKE i, j \in DOMAIN produced'
      <4>2. j \in DOMAIN produced \/ j = Len(produced) + 1
        BY <3>1
      <4>3. i < j => i \in DOMAIN produced
        BY <3>1
      <4>4. i \in DOMAIN produced => produced[i] \in Range(produced)
        BY DEF Range
      <4>5. CASE j \in DOMAIN produced
        BY <3>1, <4>3, <4>5 DEF FlowInv, Numbered
      <4>6. CASE j = Len(produced) + 1
        BY <3>1, <3>3, <4>3, <4>4, <4>6
      <4>7. QED
        BY <4>2, <4>5, <4>6
    <3>5. \A n \in Range(produced') : n <= adbd'.writes
      <4>1. data <= adbd'.writes
        BY <2>2, <2>5, <3>2
      <4>2. QED
        BY <3>1, <3>3, <4>1
    <3>6. Numbered'
      <4>1. \A r \in Range(received)' \cup Travelling' :
              r.cmd = "WRTE" /\ r.data # 0 => r.data \in Range(produced')
        BY <1>1, <2>4, <2>6, <3>1 DEF FlowInv, Numbered
      <4>2. QED
        BY <3>4, <3>5, <4>1 DEF Numbered
    <3>7. PrefixInv'
      <4>1. /\ Len(printed) \in Nat /\ Len(printed) <= Len(produced)
            /\ DOMAIN printed = 1 .. Len(printed)
        BY LenProperties DEF TypeInv, TypeOK, FlowInv, PrefixInv
      <4>2. Len(printed) <= Len(produced')
        BY <3>1, <4>1
      <4>3. \A i \in DOMAIN printed : i \in 1 .. Len(produced)
        BY <3>1, <4>1
      <4>4. \A i \in DOMAIN printed : printed[i] = produced'[i]
        BY <3>1, <4>3 DEF FlowInv, PrefixInv
      <4>5. QED
        BY <1>1, <1>7, <2>5, <4>2, <4>4 DEF PrefixInv
    <3>8. QED
      BY <2>8, <3>6, <3>7 DEF FlowInv
  <2>11. QED
    BY <2>9, <2>10
<1>9. CASE DeviceCloses
  <2>1. /\ usb_send(Packet("CLSE", adbd.lid, adbd.peer, 0)) /\ UNCHANGED produced
        /\ adbd.phase = "open" /\ adbd'.writes = adbd.writes
    BY <1>2, <1>9 DEF DeviceCloses, Daemons
  <2>2. /\ OnWay' = OnWay /\ Travelling' = Travelling
        /\ \A i, j \in DOMAIN toHost' :
             toHost'[i].cmd = "CLSE" /\ toHost'[j].cmd = "WRTE" => j < i
    <3>1. Packet("CLSE", adbd.lid, adbd.peer, 0) \in Packets
      BY <1>2, PacketType DEF Commands
    <3>2. Packet("CLSE", adbd.lid, adbd.peer, 0).cmd # "WRTE"
      BY DEF Packet
    <3>3. QED
      BY <1>5, <2>1, <3>1, <3>2
  <2>3. Numbered'
    BY <1>1, <2>1, <2>2 DEF FlowInv, Numbered
  <2>4. CloseLast'
    BY <1>1, <1>7, <2>1, <2>2 DEF FlowInv, CloseLast
  <2>5. PrefixInv'
    BY <1>1, <1>7, <2>1 DEF FlowInv, PrefixInv
  <2>6. QED
    BY <2>3, <2>4, <2>5 DEF FlowInv
<1>10. QED
  BY <1>6, <1>8, <1>9 DEF DeviceStep

\* read_and_dump is a step of main, and runs alone.
LEMMA WatchNoDump == ASSUME TypeInv, WatchStep PROVE ~ read_and_dump
<1>1. SUFFICES ASSUME read_and_dump PROVE FALSE
  OBVIOUS
<1>2. received \in Seq(Packets) /\ received # <<>> /\ Tail(received) = received
  BY <1>1 DEF TypeInv, TypeOK, WatchStep, read_and_dump, shift_received_packet
<1>3. Len(Tail(received)) = Len(received) - 1 /\ Len(received) \in Nat
  BY <1>2, TailRange, Zenon
<1>4. QED
  BY <1>2, <1>3

\* When a command is run every step keeps FlowInv.
LEMMA NextFlow ==
  Mode = "command" /\ WireInv /\ StreamInv /\ TokenInv /\ OrderInv /\ KeptInv
    /\ FlowInv /\ [Next]_vars => FlowInv'
<1> SUFFICES ASSUME Mode = "command", WireInv, StreamInv, TokenInv, OrderInv,
                    KeptInv, FlowInv, [Next]_vars
             PROVE  FlowInv'
  OBVIOUS
<1>1. TypeInv /\ Alone /\ Framed /\ Framed'
  BY NextWire DEF WireInv
<1>2. CASE (WatchStep \/ MainStep) /\ ~ read_and_dump
  BY <1>1, <1>2, ThreadsOver, KeepFlow
<1>3. CASE MainStep /\ read_and_dump
  BY <1>1, <1>3, DumpFlow DEF MainStep, devVars
<1>4. CASE UNCHANGED vars
  <2>1. UNCHANGED <<printed, received, produced, packet, output, toHost, adbd,
                    main, seed>>
    BY <1>4 DEF vars, threadVars, streamVars, devVars
  <2>2. QED
    BY <2>1, KeepFlow DEF DumpOver
<1>5. QED
  BY <1>1, <1>2, <1>3, <1>4, WatchNoDump, StdinWire, OutputFlow, DeviceFlow DEF Next

\* When a command is run FlowInv holds throughout.
LEMMA FlowInvariance == Mode = "command" => (Spec => []FlowInv)
<1> SUFFICES ASSUME Mode = "command"
             PROVE  Spec => []FlowInv
  OBVIOUS
<1>1. Init => FlowInv
  BY InitFlow
<1>2. WireInv /\ StreamInv /\ TokenInv /\ OrderInv /\ KeptInv /\ FlowInv
        /\ [Next]_vars => FlowInv'
  BY NextFlow
<1>3. Spec => [](WireInv /\ KeptInv)
  BY KeptInvariance
<1>4. QED
  BY <1>1, <1>2, <1>3, StreamInvariance, TokenInvariance, OrderInvariance, PTL
  DEF Spec

\* Each step of a session is a step of OutputStream or leaves its variables
\* alone.
LEMMA NextStreamStep ==
  Mode = "command" /\ WireInv /\ StreamInv /\ OrderInv /\ KeptInv /\ FlowInv
    /\ [Next]_vars => [Stream!Next]_(Stream!vars)
<1> SUFFICES ASSUME Mode = "command", WireInv, StreamInv, OrderInv, KeptInv,
                    FlowInv, [Next]_vars
             PROVE  [Stream!Next]_(Stream!vars)
  OBVIOUS
<1>1. TypeInv /\ Alone
  BY DEF WireInv
<1>2. ASSUME UNCHANGED <<produced, printed, DumpOver>>
      PROVE  [Stream!Next]_(Stream!vars)
  BY <1>2 DEF Stream!vars
<1>3. CASE (WatchStep \/ MainStep) /\ ~ read_and_dump
  BY <1>1, <1>2, <1>3, ThreadsOver
\* A WRITE is printed, or the dump ends.
<1>4. CASE MainStep /\ read_and_dump
  <2>1. /\ received # <<>> /\ main = "dump" /\ UNCHANGED <<seed, produced>>
    BY <1>4 DEF MainStep, devVars, read_and_dump, shift_received_packet, streamVars
  <2>2. ~ DumpOver
    BY <2>1 DEF DumpOver
  <2>3. CASE Head(received).cmd = "WRTE"
    <3>1. printed' = Append(printed, Head(received).data) /\ UNCHANGED main
      BY <1>4, <2>3 DEF read_and_dump
    <3>2. DumpOver' = DumpOver
      BY <2>1, <3>1 DEF DumpOver
    <3>3. /\ Len(printed) < Len(produced)
          /\ Head(received).data = produced[Len(printed) + 1]
      BY <1>1, <2>1, <2>3, NextPayload
    <3>4. Stream!Emit
      BY <2>1, <2>2, <3>1, <3>2, <3>3 DEF Stream!Emit
    <3>5. QED
      BY <3>4 DEF Stream!Next
  <2>4. CASE Head(received).cmd = "CLSE"
    <3>1. main' = "close" /\ UNCHANGED printed
      BY <1>4, <2>4 DEF read_and_dump
    <3>2. printed = produced
      BY <1>1, <2>1, <2>4, AllPrinted
    <3>3. DumpOver' = TRUE
      <4>1. seed > 0
        BY <2>1 DEF StreamInv, Threads
      <4>2. QED
        BY <2>1, <3>1, <4>1 DEF DumpOver
    <3>4. Stream!End
      BY <2>1, <3>1, <3>2, <3>3 DEF Stream!End
    <3>5. QED
      BY <3>4 DEF Stream!Next
  <2>5. CASE Head(received).cmd \notin {"WRTE", "CLSE"}
    <3>1. UNCHANGED <<printed, main>>
      BY <1>4, <2>5 DEF read_and_dump
    <3>2. QED
      BY <1>2, <2>1, <3>1 DEF DumpOver
  <2>6. QED
    BY <2>3, <2>4, <2>5
<1>5. CASE OutputStep
  <2>1. UNCHANGED <<produced, printed, main, seed>>
    BY <1>5 DEF OutputStep
  <2>2. QED
    BY <1>2, <2>1 DEF DumpOver
\* Only a WRITE with a payload is output.
<1>6. CASE DeviceStep
  <2>1. UNCHANGED <<printed, main, seed>>
    BY <1>6 DEF DeviceStep, threadVars, streamVars
  <2>2. CASE UNCHANGED produced
    BY <1>2, <2>1, <2>2 DEF DumpOver
  <2>3. CASE DeviceWrites /\ ~ UNCHANGED produced
    <3>1. produced' = Append(produced, adbd.writes + 1)
      BY <2>3 DEF DeviceWrites
    <3>2. adbd.writes + 1 \in 1 .. MaxData
      <4>1. adbd \in Daemons
        BY <1>1 DEF TypeInv, TypeOK, Daemons
      <4>2. adbd.writes \in 0 .. MaxData /\ adbd.writes < MaxData /\ MaxData \in Nat
        BY <2>3, <4>1, SessionAssumption DEF Daemons, DeviceWrites, SessionAssumption
      <4>3. QED
        BY <4>2
    <3>3. ~ DumpOver
      BY <2>3 DEF DeviceWrites, FlowInv, PrefixInv
    <3>4. DumpOver' = DumpOver
      BY <2>1 DEF DumpOver
    <3>5. Stream!Produce
      BY <2>1, <3>1, <3>2, <3>3, <3>4 DEF Stream!Produce
    <3>6. QED
      BY <3>5 DEF Stream!Next
  <2>4. QED
    BY <1>6, <2>2, <2>3 DEF DeviceStep, DeviceReads, DeviceCloses
<1>7. CASE UNCHANGED vars
  <2>1. UNCHANGED <<produced, printed, main, seed>>
    BY <1>7 DEF vars, threadVars, streamVars, devVars
  <2>2. QED
    BY <1>2, <2>1 DEF DumpOver
<1>8. QED
  BY <1>1, <1>3, <1>4, <1>5, <1>6, <1>7, WatchNoDump, StdinWire DEF Next

\* "zadb shell CMD" and "zadb logcat" do what OutputStream promises: whatever
\* the threads' interleaving, the output of the command is printed completely
\* and in order before the program ends, and a session that is not established
\* prints a prefix and does not end as if all had come.
THEOREM OutputCorrect == Mode = "command" => (Spec => ImplementsOutputStream)
<1> SUFFICES ASSUME Mode = "command"
             PROVE  Spec => ImplementsOutputStream
  OBVIOUS
<1>1. Init => Stream!Init
  BY DEF Init, Stream!Init, DumpOver
<1>2. WireInv /\ StreamInv /\ OrderInv /\ KeptInv /\ FlowInv /\ [Next]_vars
        => [Stream!Next]_(Stream!vars)
  BY NextStreamStep
<1>3. Spec => [](WireInv /\ KeptInv)
  BY KeptInvariance
<1>4. Spec => []FlowInv
  BY FlowInvariance
<1>5. QED
  BY <1>1, <1>2, <1>3, <1>4, StreamInvariance, OrderInvariance, PTL
  DEF Spec, ImplementsOutputStream, Stream!Spec
=============================================================================
