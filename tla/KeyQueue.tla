------------------------------- MODULE KeyQueue -------------------------------
(***************************************************************************)
(* The key queue of "zadb keyboard" (keycode.c): the stdin thread turns    *)
(* each read(2) into at most one key and links it into a list of keydata   *)
(* nodes; the main thread unlinks the oldest node every 450 ms and writes  *)
(* the shell command for it to the device.                                 *)
(*                                                                         *)
(* A node is its index in `heap`, in order of allocation (nodes are never  *)
(* freed); NULL is 0.  The bodies that run under keyevent_lock are single  *)
(* steps; set_keyevent and set_text run on the unlinked node after the     *)
(* lock is released, so they are a step of their own.                      *)
(***************************************************************************)
EXTENDS Integers, Sequences, SequencesExt

CONSTANTS
  Reads,       \* the byte strings a read of stdin may return
  MaxReads,    \* bound: number of reads the stdin thread makes
  TextSize     \* sizeof keydata.text (100 in the code)

ASSUME KeyQueueAssumption ==
  /\ Reads \subseteq Seq(0 .. 127)
  /\ MaxReads \in Nat
  /\ TextSize \in Nat \ {0}

VARIABLES
  heap,        \* the keydata nodes allocated so far
  keylist,     \* first node of the list
  last,        \* last node of the list
  popped,      \* the local k of send_command between unlock and send
  ready,       \* remote_id # -1
  sent,        \* history: the commands written to the device
  reads        \* number of reads made

vars == <<heap, keylist, last, popped, ready, sent, reads>>

NULL == 0

KEY_EVENT == 0
KEY_TEXT  == 1

Percent   == 37
Quote     == 34
Backslash == 92

KeyCodes == {19, 20, 21, 22, 61, 62, 66, 67, 111, 112}

(***************************************************************************)
(* check_1byte_char, check_3bytes_char and check_4bytes_char: the bytes    *)
(* that stand for a key event, by its Android key code.                    *)
(***************************************************************************)
KeyTable ==
  [value \in KeyCodes |->
     CASE value = 61  -> <<9>>                 \* TAB
       [] value = 66  -> <<10>>                \* ENTER
       [] value = 111 -> <<27>>                \* ESC
       [] value = 62  -> <<32>>                \* SPACE
       [] value = 67  -> <<127>>               \* BS
       [] value = 19  -> <<27, 91, 65>>        \* UP
       [] value = 20  -> <<27, 91, 66>>        \* DOWN
       [] value = 22  -> <<27, 91, 67>>        \* RIGHT
       [] value = 21  -> <<27, 91, 68>>        \* LEFT
       [] value = 112 -> <<27, 91, 51, 126>>]  \* DEL

\* isprint(c) in the C locale, less the space that add_keylist excludes.
IsText(buf) == Len(buf) = 1 /\ buf[1] \in 33 .. 126

Node(type, value, text) ==
  [type |-> type, value |-> value, text |-> text, next |-> NULL]

Nodes ==
  [type : {KEY_EVENT, KEY_TEXT}, value : KeyCodes \cup {0},
   text : Seq(0 .. 127), next : Nat]

-----------------------------------------------------------------------------
Init ==
  /\ heap = <<>>
  /\ keylist = NULL
  /\ last = NULL
  /\ popped = NULL
  /\ ready = FALSE
  /\ sent = <<>>
  /\ reads = 0

\* The last node can take one more character: `input text` would read a '%'
\* followed by another character as an escape, so '%' ends its node.
CanExtend ==
  /\ last # NULL
  /\ heap[last].type = KEY_TEXT
  /\ Len(heap[last].text) < TextSize
  /\ heap[last].text[Len(heap[last].text)] # Percent

(* get() and add() with the old tail left unlinked (broken variant).       *)
GetNode_Unlinked(node) ==
  /\ heap' = Append(heap, node)
  /\ keylist' = IF keylist = NULL THEN Len(heap) + 1 ELSE keylist
  /\ last' = Len(heap) + 1
\* get() and add(): allocate a node and link it at the tail.
GetNode(node) ==
  LET k == Len(heap) + 1 IN
  /\ heap' = IF keylist = NULL
             THEN Append(heap, node)
             ELSE Append([heap EXCEPT ![last].next = k], node)
  /\ keylist' = IF keylist = NULL THEN k ELSE keylist
  /\ last' = k

\* A printable character other than space: it joins the last text node or
\* starts a new one.
AddText(buf) ==
  /\ IsText(buf)
  /\ IF CanExtend
     THEN /\ heap' = [heap EXCEPT ![last].text = Append(@, buf[1])]
          /\ UNCHANGED <<keylist, last>>
     ELSE GetNode(Node(KEY_TEXT, 0, buf))

\* A byte string of KeyTable: set_key_value makes an event node for it.
AddEvent(buf) ==
  /\ ~ IsText(buf)
  /\ \E value \in KeyCodes :
       /\ KeyTable[value] = buf
       /\ GetNode(Node(KEY_EVENT, value, <<>>))

\* Anything else a read returned (several keys in one read, an unknown
\* escape sequence) is dropped.
AddNothing(buf) ==
  /\ ~ IsText(buf)
  /\ \A value \in KeyCodes : KeyTable[value] # buf
  /\ UNCHANGED <<heap, keylist, last>>

\* send_keyboard_queue -> add_keylist, under keyevent_lock.
add_keylist(buf) ==
  /\ reads < MaxReads
  /\ reads' = reads + 1
  /\ AddText(buf) \/ AddEvent(buf) \/ AddNothing(buf)
  /\ UNCHANGED <<popped, ready, sent>>

(* The unlinking half of send_command without `last = NULL`, and one that  *)
(* leaves the list alone until READY has come (broken variants).           *)
Unlink_StaleLast ==
  /\ keylist # NULL
  /\ popped = NULL
  /\ popped' = keylist
  /\ keylist' = heap[keylist].next
  /\ UNCHANGED <<heap, last, ready, sent, reads>>
Unlink_AfterReady ==
  /\ keylist # NULL
  /\ popped = NULL
  /\ ready
  /\ popped' = keylist
  /\ keylist' = heap[keylist].next
  /\ last' = IF keylist' = NULL THEN NULL ELSE last
  /\ UNCHANGED <<heap, ready, sent, reads>>
\* send_command up to the unlock: take the head of the list.
Unlink ==
  /\ keylist # NULL
  /\ popped = NULL
  /\ popped' = keylist
  /\ keylist' = heap[keylist].next
  /\ last' = IF keylist' = NULL THEN NULL ELSE last
  /\ UNCHANGED <<heap, ready, sent, reads>>

\* set_text puts a backslash before each double quote.
Escape(text) ==
  FlattenSeq([i \in DOMAIN text |->
                IF text[i] = Quote THEN <<Backslash, Quote>> ELSE <<text[i]>>])

\* The command set_keyevent or set_text formats for a node: the key code of
\* "input keyevent %d" or the quoted argument of "input text".
Command(node) ==
  IF node.type = KEY_EVENT
  THEN [type |-> KEY_EVENT, value |-> node.value, arg |-> <<>>]
  ELSE [type |-> KEY_TEXT, value |-> 0, arg |-> Escape(node.text)]

(* send_write without its remote_id check (broken variant).                *)
SendKey_Unready ==
  /\ popped # NULL
  /\ sent' = Append(sent, Command(heap[popped]))
  /\ popped' = NULL
  /\ UNCHANGED <<heap, keylist, last, ready, reads>>
\* set_keyevent or set_text on the unlinked node: send_write writes the
\* command, or returns without a word when no READY has come yet.
SendKey ==
  /\ popped # NULL
  /\ sent' = IF ready THEN Append(sent, Command(heap[popped])) ELSE sent
  /\ popped' = NULL
  /\ UNCHANGED <<heap, keylist, last, ready, reads>>

\* The output thread handles the READY that answers the OPEN (send.c).
Ready ==
  /\ ~ ready
  /\ ready' = TRUE
  /\ UNCHANGED <<heap, keylist, last, popped, sent, reads>>

Next ==
  \/ \E buf \in Reads : add_keylist(buf)
  \/ Unlink
  \/ SendKey
  \/ Ready

Spec == Init /\ [][Next]_vars /\ WF_vars(Unlink) /\ WF_vars(SendKey)
-----------------------------------------------------------------------------
\* Every variable has its C type; node references are allocated nodes or NULL.
TypeOK ==
  /\ heap \in Seq(Nodes)
  /\ {keylist, last, popped} \subseteq 0 .. Len(heap)
  /\ ready \in BOOLEAN
  /\ reads \in 0 .. MaxReads

InList(i) == keylist # NULL /\ i \in keylist .. last

\* keylist and last always delimit one list that holds every node not yet
\* unlinked: both are NULL together (add() trusts keylist alone, add_keylist
\* trusts last alone), the next pointers lead from one to the other, and the
\* node the main thread works on is no longer in it.
ListOK ==
  /\ keylist = NULL <=> last = NULL
  /\ keylist # NULL =>
       /\ last = Len(heap)
       /\ keylist <= last
       /\ heap[last].next = NULL
       /\ \A i \in keylist .. last - 1 : heap[i].next = i + 1
  /\ ~ InList(popped)

\* A text node holds 1 .. sizeof(text) characters, so text[count-1] and
\* text[count] are never out of bounds in add_keylist.
TextFits ==
  \A i \in DOMAIN heap :
    heap[i].type = KEY_TEXT => Len(heap[i].text) \in 1 .. TextSize

\* A '%' is the last character of its node, whichever reads and unlinks came
\* in between: `input text` on the device would take "%s" for a space.
PercentEndsNode ==
  \A i \in DOMAIN heap :
    \A j \in 1 .. Len(heap[i].text) - 1 : heap[i].text[j] # Percent

\* The four together: the list of nodes is one that add_keylist can extend and
\* send_command can send, in every interleaving of reads, unlinks and sends.
QueueOK == TypeOK /\ ListOK /\ TextFits /\ PercentEndsNode

\* set_text and set_keyevent read their node without keyevent_lock: no step
\* changes a node once it is out of the list.
UnlinkedFrozen ==
  [][\A i \in DOMAIN heap : ~ InList(i) => heap'[i] = heap[i]]_vars
=============================================================================
