------------------------------ MODULE PacketPath ------------------------------
(***************************************************************************)
(* The way of a packet through zadb: usb_read puts it together from bulk   *)
(* transfers, remote_read checks it, handle_packet keeps, answers or frees *)
(* it, the received list hands it to the main thread, and read_and_dump    *)
(* prints it (usb_libusb.c, transport_usb.c, transport_z.c, send.c,        *)
(* commandline.c).                                                         *)
(*                                                                         *)
(* The bus carries packets of at most PacketSize bytes; a byte is named by *)
(* its message and its place in it.  Sizes are scaled: a header has two    *)
(* bytes and 4096, which is MAX_PAYLOAD, the size of a transfer and that   *)
(* of the buffer of read_and_dump, is MaxPayload.  The stream is open      *)
(* already; its set-up and the other writers are the subject of Session.   *)
(*                                                                         *)
(* Places of the output thread: header data (remote_read), handle clear    *)
(* store ready (handle_packet), exit.  Of the main thread: poll dump exit. *)
(***************************************************************************)
EXTENDS Integers, Sequences, FiniteSets, FiniteSetsExt, SequencesExt, Functions

CONSTANTS Messages,   \* what the device may send
          Cuts,       \* where it may cut a payload into two transfers
          PacketSize, \* wMaxPacketSize
          MaxPayload,
          MaxSent,    \* bound: messages
          MaxFaults   \* bound: writes that fail

Commands == {"CNXN", "OKAY", "CLSE", "WRTE", "SYNC", "other"}
\* What is wrong with a message: its magic, its checksum, or data_length,
\* which is too much, one more or one less than what follows.
Flaws == {"none", "magic", "sum", "long", "more", "less"}
ASSUME MessagesAssumption ==
    Messages \subseteq [cmd : Commands, mine : BOOLEAN, data : Seq(Nat), flaw : Flaws]
ASSUME SizesAssumption ==
    /\ PacketSize \in Nat \ {0, 1, 2} /\ MaxPayload \in Nat \ {0} /\ Cuts \subseteq Nat
    /\ \A m \in Messages : Len(m.data) <= MaxPayload /\ (m.flaw = "less" => m.data # <<>>)
ASSUME BoundsAssumption == MaxSent \in Nat /\ MaxFaults \in Nat

NULL == 0
HeaderSize == 2     \* sizeof(amessage)
Noise == 99         \* what the stack holds before

VARIABLES
    sent, wire, connected, \* the device: its messages, packets on the bus
    zero,                  \* history: it has sent a packet of no bytes
    \* output thread: its place, the packet, the bytes read of this part
    output, p, got,
    handled,               \* history: messages given to handle_packet
    established,           \* id # -1: the first READY has been handled
    same,                  \* id = remote_id, by chance
    live,                  \* packets that are allocated
    next, received, last,  \* the list
    stored,                \* history: what was stored, since the list was cleared
    main, q, buf,          \* main thread: its place, its packet, its buffer
    taken, printed,        \* history: packets taken off the list, and printed
    readies, faults        \* READYs that reached the bus; writes that failed

bus == <<sent, wire, connected, zero>>
reader == <<output, p, got, handled>>
list == <<next, received, last>>
dump == <<main, q, buf, taken, printed>>
vars == <<bus, reader, established, same, live, list, stored, dump, readies, faults>>

----------------------------------------------------------------------------
(* The device *)

DataLength(m) == CASE m.flaw = "long" -> MaxPayload + 1
                   [] m.flaw = "more" -> Len(m.data) + 1
                   [] m.flaw = "less" -> Len(m.data) - 1
                   [] OTHER -> Len(m.data)
\* One transfer of the bytes from a to b of message i, in packets; if it fills
\* its last packet the device may or may not end it with an empty one.
Transfer(i, a, b, empty) ==
    LET n == b - a + 1
        packets == (n + PacketSize - 1) \div PacketSize
        Packet(k) == [j \in 1..(IF k < packets THEN PacketSize ELSE n - (k - 1) * PacketSize)
                        |-> <<i, a - 1 + (k - 1) * PacketSize + j>>]
    IN  [k \in 1..packets |-> Packet(k)]
          \o (IF empty /\ n > 0 /\ n % PacketSize = 0 THEN <<<<>>>> ELSE <<>>)

DeviceSends ==
    /\ connected /\ Len(sent) < MaxSent
    /\ \E m \in Messages, empty \in BOOLEAN : \E cut \in Cuts \cap 0..Len(m.data) :
         LET i == Len(sent) + 1
             new == Transfer(i, 1, HeaderSize, FALSE)
                      \o Transfer(i, HeaderSize + 1, HeaderSize + cut, empty)
                      \o Transfer(i, HeaderSize + cut + 1, HeaderSize + Len(m.data), empty)
         IN  /\ sent' = Append(sent, m) /\ wire' = wire \o new
             /\ zero' = (zero \/ <<>> \in {new[k] : k \in DOMAIN new})
    /\ UNCHANGED <<connected, reader, established, same, live, list, stored, dump, readies, faults>>

Unplug ==
    /\ connected /\ connected' = FALSE
    /\ UNCHANGED <<sent, wire, zero, reader, established, same, live, list, stored, dump,
                   readies, faults>>
----------------------------------------------------------------------------
(* usb_read and remote_read *)

NewPacket == Len(handled) + 1
free(k) == live' = live \ {k}

\* read_from_remote returns -1: the packet is freed and the thread ends.
ReadFails == /\ output' = "exit" /\ free(p) /\ p' = NULL /\ got' = <<>>
             /\ UNCHANGED <<wire, handled>>
ReadFrame == UNCHANGED <<sent, connected, zero, established, same, list, stored, dump, readies,
                         faults>>

Wanted == IF output = "header" THEN HeaderSize ELSE DataLength(sent[p])

\* A bulk transfer takes packets until it has what it asked for, or until one
\* that is not full.
Bytes(k) == FlattenSeq(SubSeq(wire, 1, k))
bulk_read(n) == {k \in DOMAIN wire :
                   /\ Len(wire[k]) < PacketSize \/ Len(Bytes(k)) >= n
                   /\ \A l \in 1..(k - 1) : Len(wire[l]) = PacketSize /\ Len(Bytes(l)) < n}

\* Mutant: after a short transfer the pointer is not moved on.
Joined_Restart(bytes) == SubSeq(bytes \o got, 1, Len(got) + Len(bytes))
Joined(bytes) == got \o bytes

\* One turn of usb_read's loop.  A transfer of no bytes is taken for an error,
\* and so is a packet that is longer than what was asked for.
usb_read ==
    /\ output \in {"header", "data"} /\ Len(got) < Wanted
    /\ \/ \E k \in bulk_read(Wanted - Len(got)) :
            IF Len(Bytes(k)) \in 1..(Wanted - Len(got))
            THEN /\ got' = Joined(Bytes(k)) /\ wire' = SubSeq(wire, k + 1, Len(wire))
                 /\ UNCHANGED <<output, p, handled, live>>
            ELSE ReadFails
       \/ ~connected /\ ReadFails
    /\ ReadFrame

\* The bytes from a to b of message i; no other pass for a header or have its sum.
Part(i, a, b) == [j \in 1..(b - a + 1) |-> <<i, a - 1 + j>>]
check_header(i) == /\ got = Part(i, 1, HeaderSize)
                   /\ sent[i].flaw # "magic" /\ DataLength(sent[i]) <= MaxPayload
check_data(i) == /\ got = Part(i, HeaderSize + 1, HeaderSize + DataLength(sent[i]))
                 /\ sent[i].flaw \notin {"sum", "more", "less"}

remote_read ==
    /\ output \in {"header", "data"} /\ Len(got) = Wanted
    /\ IF output = "header" /\ check_header(p)
       THEN output' = "data" /\ got' = <<>> /\ UNCHANGED <<wire, p, handled, live>>
       ELSE IF output = "data" /\ check_data(p)
       THEN /\ output' = "handle" /\ handled' = Append(handled, p) /\ got' = <<>>
            /\ UNCHANGED <<wire, p, live>>
       ELSE ReadFails
    /\ ReadFrame
----------------------------------------------------------------------------
(* handle_packet, and the list it shares with the main thread *)

Message == sent[p]
HandleFrame == UNCHANGED <<bus, got, handled, same, dump>>
\* The loop of output_thread comes round with a new packet.
NextPacket(freed) == /\ output' = "header" /\ p' = NewPacket
                     /\ live' = (live \ freed) \union {NewPacket}
Goes(place) == output' = place /\ UNCHANGED <<p, live>>

Kept == \/ Message.cmd = "OKAY" /\ same \* compared with the ids the wrong way round
        \/ Message.cmd = "CLSE"
        \/ Message.cmd = "WRTE" /\ Message.data # <<>>
handle_packet ==
    /\ output = "handle"
    /\ CASE Message.cmd = "SYNC" -> NextPacket({}) /\ UNCHANGED established
         [] Message.cmd = "OKAY" /\ Message.mine /\ ~established ->
              Goes("clear") /\ established' = TRUE
         [] Message.mine /\ established /\ Kept -> Goes("store") /\ UNCHANGED established
         [] Message.mine /\ established /\ Message.cmd = "WRTE" /\ Message.data = <<>> ->
              Goes("ready") /\ UNCHANGED established
         [] OTHER -> NextPacket({p}) /\ UNCHANGED established
    /\ HandleFrame /\ UNCHANGED <<list, stored, readies, faults>>

\* The packets on the list, from its head.
At[n \in 0..(MaxSent + 1)] == IF n = 0 THEN received
                              ELSE IF At[n - 1] = NULL THEN NULL ELSE next[At[n - 1]]
Chain == [n \in {m \in 1..(MaxSent + 1) : At[m - 1] # NULL} |-> At[n - 1]]

clear_received_packet ==
    /\ output = "clear" /\ output' = "store" /\ UNCHANGED p
    /\ live' = live \ Range(Chain) /\ received' = NULL /\ last' = NULL
    /\ stored' = SubSeq(stored, 1, Len(stored) - Len(Chain))
    /\ HandleFrame /\ UNCHANGED <<established, next, readies, faults>>

\* Mutant: the tail is not moved on.
NewLast_First(k) == IF received = NULL THEN k ELSE last
NewLast(k) == k
\* Mutant: p still points to the packet on the list.
AfterStore_Packet(k) == k
AfterStore(k) == NULL

store_received_packet ==
    /\ output = "store"
    /\ IF received = NULL
       THEN received' = p /\ next' = [next EXCEPT ![p] = NULL]
       ELSE received' = received /\ next' = [next EXCEPT ![last] = p, ![p] = NULL]
    /\ last' = NewLast(p) /\ stored' = Append(stored, p)
    /\ IF Message.cmd = "WRTE" THEN output' = "ready" /\ p' = AfterStore(p) /\ UNCHANGED live
                               ELSE NextPacket({})
    /\ HandleFrame /\ UNCHANGED <<established, readies, faults>>

\* send_packet ignores a write that fails; the packet is freed if it is not kept.
send_ready ==
    /\ output = "ready" /\ NextPacket({p})
    /\ \/ connected /\ readies' = readies + 1 /\ UNCHANGED faults
       \/ faults < MaxFaults /\ faults' = faults + 1 /\ UNCHANGED readies
       \/ ~connected /\ UNCHANGED <<readies, faults>>
    /\ HandleFrame /\ UNCHANGED <<established, list, stored>>
----------------------------------------------------------------------------
(* The main thread *)

DumpFrame == UNCHANGED <<bus, reader, same, live, stored, readies, faults>>

\* The rest of send_open, which has sent the OPEN and forgets the ids.
ForgetIds == /\ main = "open" /\ main' = "poll" /\ established' = FALSE
             /\ UNCHANGED <<list, q, buf, taken, printed>> /\ DumpFrame

shift_received_packet ==
    /\ main = "poll" /\ received # NULL
    /\ main' = "dump" /\ q' = received /\ taken' = Append(taken, received)
    /\ received' = next[received]
    /\ last' = IF next[received] = NULL THEN NULL ELSE last
    /\ UNCHANGED <<established, next, buf, printed>> /\ DumpFrame

\* strncpy of the announced length: up to the first NUL and NULs after it.
Text(bytes) == LET nuls == {j \in DOMAIN bytes : bytes[j] = 0}
               IN  IF nuls = {} THEN bytes ELSE SubSeq(bytes, 1, Min(nuls) - 1)
Strncpy(old, bytes) ==
    [j \in DOMAIN old |-> IF j > Len(bytes) THEN old[j]
                          ELSE IF j <= Len(Text(bytes)) THEN bytes[j] ELSE 0]
\* Mutant: the terminator is left out.
Terminated_Not(b, n) == b
Terminated(b, n) == [b EXCEPT ![n + 1] = 0]

\* One turn of the loop of read_and_dump with packet q, which nobody frees.
\* The last cell of buf is the one behind the array.
read_and_dump ==
    /\ main = "dump" /\ q' = NULL
    /\ CASE sent[q].cmd = "CLSE" -> main' = "exit" /\ UNCHANGED <<buf, printed>>
         [] sent[q].cmd = "WRTE" ->
              /\ main' = "poll"
              /\ buf' = Terminated(Strncpy(buf, sent[q].data), Len(sent[q].data))
              /\ printed' = Append(printed, <<q, Text(buf')>>)
         [] OTHER -> main' = "poll" /\ UNCHANGED <<buf, printed>>
    /\ UNCHANGED <<established, list, taken>> /\ DumpFrame
----------------------------------------------------------------------------
Packets == 1..(MaxSent + 1)
Init ==
    /\ sent = <<>> /\ wire = <<>> /\ connected = TRUE /\ zero = FALSE
    /\ output = "header" /\ p = 1 /\ got = <<>> /\ handled = <<>>
    /\ established = FALSE /\ same \in BOOLEAN /\ live = {1}
    /\ next = [k \in Packets |-> NULL] /\ received = NULL /\ last = NULL /\ stored = <<>>
    /\ main = "open" /\ q = NULL /\ buf = [j \in 1..(MaxPayload + 1) |-> Noise]
    /\ taken = <<>> /\ printed = <<>> /\ readies = 0 /\ faults = 0

OutputStep == \/ usb_read \/ remote_read \/ handle_packet \/ clear_received_packet
              \/ store_received_packet \/ send_ready
MainStep == ForgetIds \/ shift_received_packet \/ read_and_dump
Next == DeviceSends \/ Unplug \/ OutputStep \/ MainStep

\* Each thread goes on as long as it can; usleep and the bus take their time.
Spec == Init /\ [][Next]_vars /\ WF_vars(OutputStep) /\ WF_vars(MainStep)
----------------------------------------------------------------------------
(* Properties *)

\* Every packet that is allocated is in one place: with the output thread, on
\* the list, or with those nobody will free, which are the ones read_and_dump
\* has taken and the SYNCs (send.c 104-142, transport_z.c 69-81).
Leaked == Range(taken) \union ({k \in Range(handled) : sent[k].cmd = "SYNC"} \ {p})
PacketsAccounted ==
    /\ output \in {"header", "data", "handle", "clear", "store", "ready", "exit"}
    /\ main \in {"open", "poll", "dump", "exit"} /\ Len(sent) <= MaxSent
    /\ live = ({p} \ {NULL}) \union Range(Chain) \union Leaked
    /\ {p, NULL} \intersect (Range(Chain) \union Leaked) = {}
    /\ Range(Chain) \intersect Leaked = {} /\ IsInjective(Chain)

\* What the main thread has taken and what is on the list is what was stored,
\* in that order; last is the end of the list (send.c 118-142, 304-319).
StoredInOrder == /\ stored = taken \o Chain
                 /\ last = IF Chain = <<>> THEN NULL ELSE Last(Chain)

\* The screen shows the texts of the messages written to this stream, each as
\* far as its first NUL, once, in their order, with nothing left over in the
\* buffer from another one (commandline.c 91-124).
DumpRight ==
    /\ \A k \in DOMAIN printed :
         LET i == printed[k][1] IN
         /\ sent[i].cmd = "WRTE" /\ sent[i].mine /\ printed[k][2] = Text(sent[i].data)
    /\ \A k, l \in DOMAIN printed : k < l => printed[k][1] < printed[l][1]

\* remote_read is the channel of PacketChannel.
Channel == INSTANCE PacketChannel WITH
    open <- output # "exit",
    broken <- IF ~connected THEN "gone" ELSE IF zero THEN "doubtful" ELSE "no",
    Valid <- LAMBDA x : x.flaw = "none", Whole <- LAMBDA x : x.flaw # "more"
ImplementsChannel == Channel!Spec
==============================================================================
