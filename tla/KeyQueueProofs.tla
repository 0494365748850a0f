---------------------------- MODULE KeyQueueProofs ----------------------------
(***************************************************************************)
(* Proofs about KeyQueue for every set of reads, every number of reads and *)
(* every size of the text buffer.                                          *)
(***************************************************************************)
EXTENDS MCKeyQueue, SequenceFacts

USE DEF NULL, KEY_EVENT, KEY_TEXT, Percent

\* The inductive invariant: add_keylist dereferences last where the code has
\* only tested last or only tested keylist, so the typing of heap needs the
\* shape of the list, and the shape needs the typing.
IInv == TypeOK /\ ListOK /\ TextFits /\ PercentEndsNode

\* The nodes add_keylist makes: one for a text, one for an event.
LEMMA NewNodes ==
  /\ \A text \in Seq(0 .. 127) :
       /\ Node(KEY_TEXT, 0, text) \in Nodes
       /\ Node(KEY_TEXT, 0, text).type = KEY_TEXT
       /\ Node(KEY_TEXT, 0, text).text = text
       /\ Node(KEY_TEXT, 0, text).next = NULL
  /\ \A value \in KeyCodes :
       /\ Node(KEY_EVENT, value, <<>>) \in Nodes
       /\ Node(KEY_EVENT, value, <<>>).type = KEY_EVENT
       /\ Node(KEY_EVENT, value, <<>>).value = value
       /\ Node(KEY_EVENT, value, <<>>).text = <<>>
       /\ Node(KEY_EVENT, value, <<>>).next = NULL
<1>1. ASSUME NEW text \in Seq(0 .. 127)
      PROVE  /\ Node(KEY_TEXT, 0, text) \in Nodes
             /\ Node(KEY_TEXT, 0, text).type = KEY_TEXT
             /\ Node(KEY_TEXT, 0, text).text = text
             /\ Node(KEY_TEXT, 0, text).next = NULL
  BY DEF Node, Nodes
<1>2. ASSUME NEW value \in KeyCodes
      PROVE  /\ Node(KEY_EVENT, value, <<>>) \in Nodes
             /\ Node(KEY_EVENT, value, <<>>).type = KEY_EVENT
             /\ Node(KEY_EVENT, value, <<>>).value = value
             /\ Node(KEY_EVENT, value, <<>>).text = <<>>
             /\ Node(KEY_EVENT, value, <<>>).next = NULL
  <2>1. <<>> \in Seq(0 .. 127)
    BY EmptySeq
  <2> QED
    BY <2>1 DEF Node, Nodes
<1> QED
  BY <1>1, <1>2

\* Relinking a node keeps it a node.
LEMMA RelinkedNode ==
  ASSUME NEW node \in Nodes, NEW k \in Nat
  PROVE  /\ [node EXCEPT !.next = k] \in Nodes
         /\ [node EXCEPT !.next = k].type = node.type
         /\ [node EXCEPT !.next = k].value = node.value
         /\ [node EXCEPT !.next = k].text = node.text
         /\ [node EXCEPT !.next = k].next = k
BY DEF Nodes

\* So does replacing its text.
LEMMA RetextedNode ==
  ASSUME NEW node \in Nodes, NEW text \in Seq(0 .. 127)
  PROVE  /\ [node EXCEPT !.text = text] \in Nodes
         /\ [node EXCEPT !.text = text].type = node.type
         /\ [node EXCEPT !.text = text].value = node.value
         /\ [node EXCEPT !.text = text].text = text
         /\ [node EXCEPT !.text = text].next = node.next
BY DEF Nodes

\* What get() followed by add() does to the nodes and the two list pointers.
LEMMA GetNodeEffect ==
  ASSUME IInv, NEW node \in Nodes, GetNode(node)
  PROVE  /\ heap' \in Seq(Nodes)
         /\ Len(heap') = Len(heap) + 1
         /\ heap'[Len(heap) + 1] = node
         /\ \A i \in 1 .. Len(heap) :
              /\ heap'[i].type = heap[i].type
              /\ heap'[i].value = heap[i].value
              /\ heap'[i].text = heap[i].text
              /\ heap'[i].next =
                   IF keylist # NULL /\ i = last THEN Len(heap) + 1
                   ELSE heap[i].next
              /\ ~ (keylist # NULL /\ i = last) => heap'[i] = heap[i]
<1> DEFINE k == Len(heap) + 1
           linked == [heap EXCEPT ![last] = [heap[last] EXCEPT !.next = k]]
<1>1. heap \in Seq(Nodes) /\ Len(heap) \in Nat /\ DOMAIN heap = 1 .. Len(heap)
  BY LenProperties DEF IInv, TypeOK
<1>2. CASE keylist = NULL
  <2>1. heap' = Append(heap, node)
    BY <1>2 DEF GetNode
  <2>2. /\ heap' \in Seq(Nodes)
        /\ Len(heap') = k
        /\ heap'[k] = node
        /\ \A i \in 1 .. Len(heap) : heap'[i] = heap[i]
    BY <1>1, <2>1, AppendProperties
  <2>3. QED
    BY <1>1, <1>2, <2>2
<1>3. CASE keylist # NULL
  <2>1. last \in 1 .. Len(heap)
    BY <1>1, <1>3 DEF IInv, TypeOK, ListOK
  <2>2. heap[last] \in Nodes
    BY <1>1, <2>1, ElementOfSeq
  <2>3. /\ [heap[last] EXCEPT !.next = k] \in Nodes
        /\ [heap[last] EXCEPT !.next = k].type = heap[last].type
        /\ [heap[last] EXCEPT !.next = k].value = heap[last].value
        /\ [heap[last] EXCEPT !.next = k].text = heap[last].text
        /\ [heap[last] EXCEPT !.next = k].next = k
    <3>1. k \in Nat
      BY <1>1
    <3> HIDE DEF k
    <3>2. QED
      BY <2>2, <3>1, RelinkedNode
  <2>4. /\ linked \in Seq(Nodes)
        /\ Len(linked) = Len(heap)
        /\ \A j \in 1 .. Len(heap) :
             linked[j] = IF j = last THEN [heap[last] EXCEPT !.next = k]
                         ELSE heap[j]
    BY <1>1, <2>1, <2>3, ExceptSeq
  <2>5. heap' = Append(linked, node)
    BY <1>3 DEF GetNode
  <2> HIDE DEF linked
  <2>6. /\ heap' \in Seq(Nodes)
        /\ Len(heap') = k
        /\ heap'[k] = node
        /\ \A i \in 1 .. Len(heap) : heap'[i] = linked[i]
    BY <2>4, <2>5, AppendProperties
  <2>7. QED
    BY <1>1, <1>3, <2>3, <2>4, <2>6
<1>4. QED
  BY <1>2, <1>3

\* get() followed by add() keeps the invariant's part about nodes and list.
LEMMA GetNodeStep ==
  ASSUME IInv, NEW node \in Nodes, GetNode(node), node.next = NULL,
         node.type = KEY_TEXT => Len(node.text) = 1,
         node.type = KEY_EVENT => node.text = <<>>,
         popped' = popped
  PROVE  /\ heap' \in Seq(Nodes)
         /\ {keylist, last, popped}' \subseteq 0 .. Len(heap')
         /\ ListOK' /\ TextFits' /\ PercentEndsNode'
<1> DEFINE k == Len(heap) + 1
<1>1. /\ heap \in Seq(Nodes) /\ Len(heap) \in Nat
      /\ DOMAIN heap = 1 .. Len(heap)
  BY LenProperties DEF IInv, TypeOK
<1>2. /\ keylist \in 0 .. Len(heap) /\ last \in 0 .. Len(heap)
      /\ popped \in 0 .. Len(heap)
  BY DEF IInv, TypeOK
<1>3. /\ heap' \in Seq(Nodes)
      /\ Len(heap') = k
      /\ heap'[k] = node
      /\ \A i \in 1 .. Len(heap) :
           /\ heap'[i].type = heap[i].type
           /\ heap'[i].text = heap[i].text
           /\ heap'[i].next = IF keylist # NULL /\ i = last THEN k
                              ELSE heap[i].next
  BY GetNodeEffect
<1>4. DOMAIN heap' = 1 .. k
  BY <1>3, LenProperties
<1>5. keylist' = (IF keylist = NULL THEN k ELSE keylist) /\ last' = k
  BY DEF GetNode
<1>6. {keylist, last, popped}' \subseteq 0 .. Len(heap')
  BY <1>1, <1>2, <1>3, <1>5
<1>7. ListOK'
  <2>1. keylist' # NULL /\ keylist' <= last' /\ last' = Len(heap')
    BY <1>1, <1>2, <1>3, <1>5
  <2>2. heap'[last'].next = NULL
    BY <1>3, <1>5
  <2>3. ASSUME NEW i \in keylist' .. last' - 1
        PROVE  heap'[i].next = i + 1
    <3>1. keylist # NULL => last = Len(heap)
      BY DEF IInv, ListOK
    <3>2. keylist # NULL /\ i \in keylist .. last /\ i \in 1 .. Len(heap)
      <4>1. Len(heap) \in Nat
        BY <1>1
      <4>2. keylist # NULL
        BY <1>5, <2>3, <4>1
      <4>3. keylist' = keylist /\ last' - 1 = last
        BY <1>5, <3>1, <4>1, <4>2
      <4>4. QED
        BY <1>2, <2>3, <4>1, <4>2, <4>3
    <3>3. i # last => heap[i].next = i + 1
      <4>1. \A j \in keylist .. last - 1 : heap[j].next = j + 1
        BY <3>2 DEF IInv, ListOK
      <4>2. i # last => i \in keylist .. last - 1
        BY <1>1, <1>2, <3>2
      <4>3. QED
        BY <4>1, <4>2
    <3>4. heap'[i].next = IF i = last THEN k ELSE heap[i].next
      BY <1>3, <3>2
    <3>5. QED
      BY <1>1, <3>1, <3>2, <3>3, <3>4
  <2>4. ~ InList(popped)'
    <3>1. ~ InList(popped)
      BY DEF IInv, ListOK
    <3>2. keylist # NULL => last = Len(heap)
      BY DEF IInv, ListOK
    <3>3. popped \in Nat /\ keylist \in Nat /\ Len(heap) \in Nat
          /\ popped <= Len(heap)
      BY <1>1, <1>2
    <3>4. CASE keylist = NULL
      <4>1. keylist' = Len(heap) + 1
        BY <1>5, <3>4
      <4>2. popped < keylist'
        BY <3>3, <4>1
      <4>3. QED
        BY <3>3, <4>1, <4>2 DEF InList
    <3>5. CASE keylist # NULL
      <4>1. popped < keylist
        BY <3>1, <3>2, <3>3, <3>5 DEF InList
      <4>2. keylist' = keylist
        BY <1>5, <3>5
      <4>3. QED
        BY <3>3, <4>1, <4>2 DEF InList
    <3>6. QED
      BY <3>4, <3>5
  <2>5. QED
    BY <1>1, <1>5, <2>1, <2>2, <2>3, <2>4 DEF ListOK
<1>8. TextFits'
  <2> SUFFICES ASSUME NEW i \in 1 .. k, heap'[i].type = KEY_TEXT
               PROVE  Len(heap'[i].text) \in 1 .. TextSize
    BY <1>4 DEF TextFits
  <2>1. CASE i = k
    <3>1. node.type = KEY_TEXT /\ heap'[i].text = node.text
      BY <1>3, <2>1
    <3>2. Len(heap'[i].text) = 1
      BY <3>1
    <3>3. QED
      BY <3>2, KeyQueueAssumption DEF KeyQueueAssumption
  <2>2. CASE i # k
    <3>1. i \in 1 .. Len(heap)
      BY <1>1, <2>2
    <3>2. QED
      BY <1>1, <1>3, <3>1 DEF IInv, TextFits
  <2>3. QED
    BY <2>1, <2>2
<1>9. PercentEndsNode'
  <2> SUFFICES ASSUME NEW i \in 1 .. k, NEW j \in 1 .. Len(heap'[i].text) - 1
               PROVE  heap'[i].text[j] # Percent
    BY <1>4 DEF PercentEndsNode
  <2>1. CASE i = k
    <3>1. node.type \in {KEY_EVENT, KEY_TEXT}
      BY DEF Nodes
    <3>2. Len(node.text) \in {0, 1}
      BY <3>1, EmptySeq
    <3>3. \A n \in {0, 1} : 1 .. n - 1 = {}
      OBVIOUS
    <3>4. 1 .. Len(node.text) - 1 = {}
      BY <3>2, <3>3
    <3>5. heap'[i].text = node.text
      BY <1>3, <2>1
    <3>6. QED
      BY <3>4, <3>5
  <2>2. CASE i # k
    <3>1. i \in 1 .. Len(heap)
      BY <1>1, <2>2
    <3>2. QED
      BY <1>1, <1>3, <3>1 DEF IInv, PercentEndsNode
  <2>3. QED
    BY <2>1, <2>2
<1>10. QED
  BY <1>3, <1>6, <1>7, <1>8, <1>9
-----------------------------------------------------------------------------
\* The invariant holds for the empty queue.
LEMMA InitIInv == Init => IInv
<1> SUFFICES ASSUME Init PROVE IInv
  OBVIOUS
<1>1. heap = <<>> /\ Len(heap) = 0 /\ DOMAIN heap = {}
  BY DEF Init
<1>2. heap \in Seq(Nodes)
  BY EmptySeq DEF Init
<1>3. TypeOK
  <2>1. reads \in 0 .. MaxReads
    BY KeyQueueAssumption DEF Init, KeyQueueAssumption
  <2>2. {keylist, last, popped} \subseteq 0 .. Len(heap)
    BY <1>1 DEF Init
  <2>3. QED
    BY <1>2, <2>1, <2>2 DEF TypeOK, Init
<1>4. ListOK /\ TextFits /\ PercentEndsNode
  BY <1>1 DEF Init, ListOK, TextFits, PercentEndsNode, InList
<1>5. QED
  BY <1>3, <1>4 DEF IInv

\* A character added to the last text node.
LEMMA ExtendStep ==
  ASSUME IInv, NEW c \in 0 .. 127, CanExtend,
         heap' = [heap EXCEPT ![last].text = Append(@, c)],
         UNCHANGED <<keylist, last, popped>>
  PROVE  /\ heap' \in Seq(Nodes)
         /\ {keylist, last, popped}' \subseteq 0 .. Len(heap')
         /\ ListOK' /\ TextFits' /\ PercentEndsNode'
         /\ Len(heap') = Len(heap)
         /\ \A i \in 1 .. Len(heap) : i # last => heap'[i] = heap[i]
         /\ heap'[last].type = heap[last].type
         /\ heap'[last].text = Append(heap[last].text, c)
         /\ heap'[last].next = heap[last].next
<1> DEFINE text == Append(heap[last].text, c)
           node == [heap[last] EXCEPT !.text = text]
<1>1. heap \in Seq(Nodes) /\ Len(heap) \in Nat /\ DOMAIN heap = 1 .. Len(heap)
  BY LenProperties DEF IInv, TypeOK
<1>2. last \in 1 .. Len(heap)
  BY <1>1 DEF IInv, TypeOK, CanExtend
<1>3. heap[last] \in Nodes /\ heap[last].text \in Seq(0 .. 127)
  <2>1. heap[last] \in Nodes
    BY <1>1, <1>2, ElementOfSeq
  <2>2. QED
    BY <2>1 DEF Nodes
<1>4. /\ text \in Seq(0 .. 127)
      /\ Len(text) = Len(heap[last].text) + 1
      /\ \A j \in 1 .. Len(heap[last].text) : text[j] = heap[last].text[j]
  BY <1>3, AppendProperties
<1>5. Len(heap[last].text) \in Nat
  BY <1>3, LenProperties
<1> HIDE DEF text
<1>6. /\ node \in Nodes
      /\ node.text = text
      /\ node.next = heap[last].next
      /\ node.type = heap[last].type
  BY <1>3, <1>4, RetextedNode
<1>7. heap' = [heap EXCEPT ![last] = node]
  BY DEF text
<1> HIDE DEF node
<1>8. /\ heap' \in Seq(Nodes)
      /\ Len(heap') = Len(heap)
      /\ \A j \in 1 .. Len(heap) : heap'[j] = IF j = last THEN node ELSE heap[j]
  <2> DEFINE changed == [heap EXCEPT ![last] = node]
  <2>1. /\ changed \in Seq(Nodes)
        /\ Len(changed) = Len(heap)
        /\ \A j \in 1 .. Len(heap) :
             changed[j] = IF j = last THEN node ELSE heap[j]
    BY <1>1, <1>2, <1>6, ExceptSeq
  <2>2. heap' = changed
    BY <1>7
  <2> HIDE DEF changed
  <2>3. QED
    BY <2>1, <2>2
<1>9. DOMAIN heap' = 1 .. Len(heap)
  BY <1>8, LenProperties
<1>10. {keylist, last, popped}' \subseteq 0 .. Len(heap')
  <2>1. {keylist, last, popped} \subseteq 0 .. Len(heap)
    BY DEF IInv, TypeOK
  <2>2. QED
    BY <1>8, <2>1
<1>11. \A j \in 1 .. Len(heap) : heap'[j].next = heap[j].next
  BY <1>6, <1>8
<1>12. ListOK'
  <2>1. ListOK
    BY DEF IInv
  <2>2. keylist # NULL => keylist \in 1 .. Len(heap) /\ last = Len(heap)
    BY <1>1 DEF IInv, TypeOK, ListOK
  <2>3. keylist # NULL =>
          \A j \in keylist .. last - 1 : heap'[j].next = j + 1
    <3> SUFFICES ASSUME keylist # NULL, NEW j \in keylist .. last - 1
                 PROVE  heap'[j].next = j + 1
      OBVIOUS
    <3>1. j \in 1 .. Len(heap)
      BY <1>1, <2>2
    <3>2. heap[j].next = j + 1
      BY <2>1 DEF ListOK
    <3>3. QED
      BY <1>11, <3>1, <3>2
  <2>4. keylist # NULL => heap'[last].next = NULL
    BY <1>2, <1>11, <2>1 DEF ListOK
  <2>5. QED
    BY <1>8, <2>1, <2>3, <2>4 DEF ListOK, InList
<1>13. TextFits'
  <2> SUFFICES ASSUME NEW i \in 1 .. Len(heap), heap'[i].type = KEY_TEXT
               PROVE  Len(heap'[i].text) \in 1 .. TextSize
    BY <1>9 DEF TextFits
  <2>1. CASE i = last
    <3>1. Len(heap[last].text) < TextSize
      BY DEF CanExtend
    <3>2. Len(heap'[i].text) = Len(heap[last].text) + 1
      BY <1>4, <1>6, <1>8, <2>1
    <3>3. QED
      BY <1>5, <3>1, <3>2, KeyQueueAssumption, SMTT(30) DEF KeyQueueAssumption
  <2>2. CASE i # last
    BY <1>1, <1>8, <2>2 DEF IInv, TextFits
  <2>3. QED
    BY <2>1, <2>2
<1>14. PercentEndsNode'
  <2> SUFFICES ASSUME NEW i \in 1 .. Len(heap),
                      NEW j \in 1 .. Len(heap'[i].text) - 1
               PROVE  heap'[i].text[j] # Percent
    BY <1>9 DEF PercentEndsNode
  <2>1. CASE i = last
    <3>1. heap'[i].text = text
      BY <1>6, <1>8, <2>1
    <3>2. j \in 1 .. Len(heap[last].text)
      BY <1>4, <1>5, <3>1
    <3>3. heap'[i].text[j] = heap[last].text[j]
      BY <1>4, <3>1, <3>2
    <3>4. CASE j = Len(heap[last].text)
      BY <3>3, <3>4 DEF CanExtend
    <3>5. CASE j # Len(heap[last].text)
      <4>1. j \in 1 .. Len(heap[last].text) - 1
        BY <1>5, <3>2, <3>5
      <4>2. QED
        BY <1>1, <1>2, <3>3, <4>1 DEF IInv, PercentEndsNode
    <3>6. QED
      BY <3>4, <3>5
  <2>2. CASE i # last
    BY <1>1, <1>8, <2>2 DEF IInv, PercentEndsNode
  <2>3. QED
    BY <2>1, <2>2
<1>15. /\ heap'[last].type = heap[last].type /\ heap'[last].text = text
       /\ heap'[last].next = heap[last].next
  BY <1>2, <1>6, <1>8
<1>16. QED
  BY <1>8, <1>10, <1>12, <1>13, <1>14, <1>15 DEF text
-----------------------------------------------------------------------------
\* What a read may return are byte strings; the one character of a text key
\* is a byte.
LEMMA ReadType ==
  ASSUME NEW buf \in Reads
  PROVE  buf \in Seq(0 .. 127) /\ (IsText(buf) => buf[1] \in 0 .. 127)
BY KeyQueueAssumption DEF KeyQueueAssumption, IsText

\* Every case of add_keylist keeps the invariant.
LEMMA AddStep ==
  ASSUME IInv, NEW buf \in Reads, add_keylist(buf)
  PROVE  IInv'
<1>1. reads' \in 0 .. MaxReads
  <2>1. reads \in 0 .. MaxReads /\ reads < MaxReads /\ reads' = reads + 1
    BY DEF IInv, TypeOK, add_keylist
  <2>2. QED
    BY <2>1, KeyQueueAssumption DEF KeyQueueAssumption
<1>2. popped' = popped /\ ready' \in BOOLEAN
  BY DEF add_keylist, IInv, TypeOK
<1>4. CASE AddText(buf)
  <2>1. IsText(buf) /\ buf \in Seq(0 .. 127) /\ buf[1] \in 0 .. 127 /\ Len(buf) = 1
    BY <1>4, ReadType DEF AddText, IsText
  <2>3. CASE CanExtend
    <3>1. /\ heap' = [heap EXCEPT ![last].text = Append(@, buf[1])]
          /\ UNCHANGED <<keylist, last, popped>>
      BY <1>2, <1>4, <2>3 DEF AddText
    <3>2. /\ heap' \in Seq(Nodes)
          /\ {keylist, last, popped}' \subseteq 0 .. Len(heap')
          /\ ListOK' /\ TextFits' /\ PercentEndsNode'
      BY <2>1, <2>3, <3>1, ExtendStep, Zenon
    <3>3. QED
      BY <1>1, <1>2, <3>2 DEF IInv, TypeOK
  <2>4. CASE ~ CanExtend
    <3>1. GetNode(Node(KEY_TEXT, 0, buf))
      BY <1>4, <2>4 DEF AddText
    <3> DEFINE node == Node(KEY_TEXT, 0, buf)
    <3>2. /\ node \in Nodes /\ node.next = NULL
          /\ node.type = KEY_TEXT /\ node.text = buf
      BY <2>1, NewNodes
    <3> HIDE DEF node
    <3>3. /\ heap' \in Seq(Nodes)
          /\ {keylist, last, popped}' \subseteq 0 .. Len(heap')
          /\ ListOK' /\ TextFits' /\ PercentEndsNode'
      <4>1. GetNode(node)
        BY <3>1 DEF node
      <4>2. QED
        BY <1>2, <2>1, <3>2, <4>1, GetNodeStep
    <3>4. QED
      BY <1>1, <1>2, <3>3 DEF IInv, TypeOK
  <2>5. QED
    BY <2>3, <2>4
<1>5. CASE AddEvent(buf)
  <2>1. PICK value \in KeyCodes : GetNode(Node(KEY_EVENT, value, <<>>))
    BY <1>5 DEF AddEvent
  <2> DEFINE node == Node(KEY_EVENT, value, <<>>)
  <2>4. /\ node \in Nodes /\ node.next = NULL
        /\ node.type = KEY_EVENT /\ node.text = <<>>
    BY NewNodes
  <2>5. GetNode(node)
    BY <2>1
  <2> HIDE DEF node
  <2>6. /\ heap' \in Seq(Nodes)
        /\ {keylist, last, popped}' \subseteq 0 .. Len(heap')
        /\ ListOK' /\ TextFits' /\ PercentEndsNode'
    BY <1>2, <2>4, <2>5, GetNodeStep
  <2>7. QED
    BY <1>1, <1>2, <2>6 DEF IInv, TypeOK
<1>6. CASE AddNothing(buf)
  <2>1. UNCHANGED <<heap, keylist, last, popped>>
    BY <1>2, <1>6 DEF AddNothing
  <2>2. QED
    BY <1>1, <1>2, <2>1
    DEF IInv, TypeOK, ListOK, InList, TextFits, PercentEndsNode
<1>7. QED
  BY <1>4, <1>5, <1>6 DEF add_keylist

\* Taking the head of the list: the rest is a list again, or nothing is left
\* and both pointers are NULL.
LEMMA UnlinkStep ==
  ASSUME IInv, Unlink
  PROVE  IInv'
<1>1. /\ heap' = heap /\ ready' = ready /\ reads' = reads
      /\ popped' = keylist /\ keylist' = heap[keylist].next
      /\ last' = IF keylist' = NULL THEN NULL ELSE last
      /\ keylist # NULL
  BY DEF Unlink
<1>2. /\ Len(heap) \in Nat
      /\ keylist \in 1 .. Len(heap) /\ last = Len(heap) /\ keylist <= last
      /\ heap[last].next = NULL
      /\ \A i \in keylist .. last - 1 : heap[i].next = i + 1
  BY <1>1, LenProperties DEF IInv, TypeOK, ListOK
<1>3. CASE keylist = last
  <2>1. keylist' = NULL /\ last' = NULL
    BY <1>1, <1>2, <1>3
  <2>2. ListOK'
    BY <1>1, <2>1 DEF ListOK, InList
  <2>3. {keylist, last, popped}' \subseteq 0 .. Len(heap')
    BY <1>1, <1>2, <2>1
  <2>4. QED
    BY <1>1, <2>2, <2>3 DEF IInv, TypeOK, TextFits, PercentEndsNode
<1>4. CASE keylist # last
  <2>1. keylist' = keylist + 1 /\ keylist' <= last /\ keylist' # NULL
    <3>1. keylist \in keylist .. last - 1
      BY <1>2, <1>4
    <3>2. QED
      BY <1>1, <1>2, <1>4, <3>1
  <2>2. last' = last
    BY <1>1, <2>1
  <2>3. \A i \in keylist' .. last' - 1 : heap'[i].next = i + 1
    BY <1>1, <1>2, <2>1, <2>2
  <2>4. ~ InList(popped)'
    BY <1>1, <1>2, <2>1, <2>2 DEF InList
  <2>5. ListOK'
    BY <1>1, <1>2, <2>1, <2>2, <2>3, <2>4 DEF ListOK
  <2>6. {keylist, last, popped}' \subseteq 0 .. Len(heap')
    BY <1>1, <1>2, <2>1, <2>2
  <2>7. QED
    BY <1>1, <2>5, <2>6 DEF IInv, TypeOK, TextFits, PercentEndsNode
<1>5. QED
  BY <1>3, <1>4

\* Sending the keys of a popped node and its OKAY leave the list alone.
LEMMA SendKeyStep ==
  ASSUME IInv, SendKey \/ Ready \/ UNCHANGED vars
  PROVE  IInv'
<1>1. UNCHANGED <<heap, keylist, last, reads>> /\ popped' \in {popped, NULL}
      /\ (ready' = ready \/ ready' = TRUE)
  BY DEF SendKey, Ready, vars
<1>2. Len(heap) \in Nat /\ keylist \in 0 .. Len(heap)
  BY LenProperties DEF IInv, TypeOK
<1>3. TypeOK'
  <2>1. {keylist, last, popped}' \subseteq 0 .. Len(heap')
    <3>1. {keylist, last, popped} \subseteq 0 .. Len(heap) /\ NULL \in 0 .. Len(heap)
      BY <1>2 DEF IInv, TypeOK
    <3>2. QED
      BY <1>1, <3>1
  <2>2. ready' \in BOOLEAN
    BY <1>1 DEF IInv, TypeOK
  <2>3. QED
    BY <1>1, <2>1, <2>2 DEF IInv, TypeOK
<1>4. ListOK'
  BY <1>1, <1>2 DEF IInv, ListOK, InList
<1>5. QED
  BY <1>1, <1>3, <1>4 DEF IInv, TextFits, PercentEndsNode

\* Every step of the keyboard keeps the invariant.
LEMMA NextIInv == IInv /\ [Next]_vars => IInv'
BY AddStep, UnlinkStep, SendKeyStep DEF Next

\* The invariant holds in every state of every behaviour.
LEMMA Invariance == Spec => []IInv
BY InitIInv, NextIInv, PTL DEF Spec
-----------------------------------------------------------------------------
\* Every variable of the key queue keeps its C type, and every node reference
\* is NULL or the index of a node allocated before (add, add_keylist and
\* send_command never follow a wild pointer).
THEOREM TypeCorrect == Spec => []TypeOK
BY Invariance, PTL DEF IInv

\* keylist and last delimit one list of all nodes not yet unlinked, however
\* the reads and the unlinks interleave (add, add_keylist, send_command).
THEOREM ListCorrect == Spec => []ListOK
BY Invariance, PTL DEF IInv

\* No text node is empty or longer than its buffer (add_keylist).
THEOREM TextCorrect == Spec => []TextFits
BY Invariance, PTL DEF IInv

\* A '%' is always the last character of its node (add_keylist).
THEOREM PercentCorrect == Spec => []PercentEndsNode
BY Invariance, PTL DEF IInv

\* The list of nodes is always one that add_keylist can extend and send_command
\* can send.
THEOREM QueueCorrect == Spec => []QueueOK
BY TypeCorrect, ListCorrect, TextCorrect, PercentCorrect, PTL DEF QueueOK

\* The unlocked reader of send_command never sees its node change: only the
\* last node is written, and it is in the list.
LEMMA FrozenStep ==
  ASSUME IInv, Next, NEW i \in DOMAIN heap, ~ InList(i)
  PROVE  heap'[i] = heap[i]
<1>1. /\ heap \in Seq(Nodes) /\ Len(heap) \in Nat
      /\ DOMAIN heap = 1 .. Len(heap)
      /\ i \in 1 .. Len(heap)
  BY LenProperties DEF IInv, TypeOK
<1>2. last # NULL => keylist # NULL /\ last \in keylist .. last /\ last \in 1 .. Len(heap)
  BY <1>1 DEF IInv, TypeOK, ListOK
<1>3. keylist # NULL => i # last
  BY <1>1, <1>2 DEF InList, IInv, ListOK
<1>4. ASSUME NEW buf \in Reads, add_keylist(buf)
      PROVE  heap'[i] = heap[i]
  <2>1. CASE AddText(buf) /\ CanExtend
    <3>1. /\ heap' = [heap EXCEPT ![last].text = Append(@, buf[1])]
          /\ UNCHANGED <<keylist, last, popped>>
      BY <1>4, <2>1 DEF AddText, add_keylist
    <3>2. buf[1] \in 0 .. 127
      BY <2>1, ReadType DEF AddText
    <3>3. i # last
      BY <1>2, <1>3, <2>1 DEF CanExtend
    <3>4. QED
      BY <1>1, <2>1, <3>1, <3>2, <3>3, ExtendStep, Zenon
  <2>2. ASSUME NEW node \in Nodes, GetNode(node)
        PROVE  heap'[i] = heap[i]
    BY <1>1, <1>3, <2>2, GetNodeEffect
  <2>3. CASE AddText(buf) /\ ~ CanExtend
    <3>1. Node(KEY_TEXT, 0, buf) \in Nodes
      BY ReadType, NewNodes
    <3>2. GetNode(Node(KEY_TEXT, 0, buf))
      BY <2>3 DEF AddText
    <3>3. QED
      BY <2>2, <3>1, <3>2
  <2>4. CASE AddEvent(buf)
    <3>1. PICK value \in KeyCodes : GetNode(Node(KEY_EVENT, value, <<>>))
      BY <2>4 DEF AddEvent
    <3>2. Node(KEY_EVENT, value, <<>>) \in Nodes
      BY NewNodes
    <3>3. QED
      BY <2>2, <3>1, <3>2
  <2>5. CASE AddNothing(buf)
    BY <2>5 DEF AddNothing
  <2>6. QED
    BY <1>4, <2>1, <2>3, <2>4, <2>5 DEF add_keylist
<1>5. CASE Unlink \/ SendKey \/ Ready
  BY <1>5 DEF Unlink, SendKey, Ready
<1>6. QED
  BY <1>4, <1>5 DEF Next

\* A node taken off the list is never written again, so set_text and
\* set_keyevent may read it after keyevent_lock is released.
THEOREM FrozenCorrect == Spec => UnlinkedFrozen
<1>1. IInv /\ [Next]_vars =>
        [\A i \in DOMAIN heap : ~ InList(i) => heap'[i] = heap[i]]_vars
  BY FrozenStep
<1>2. QED
  BY <1>1, Invariance, PTL DEF Spec, UnlinkedFrozen
-----------------------------------------------------------------------------
(***************************************************************************)
(* The refinement of KeyStream: first the walk along the next pointers,    *)
(* then the device's reading of a command, then the steps.                 *)
(***************************************************************************)
\* A keystroke, as the bytes of its read.
Key == Seq(0 .. 127)

\* What the walk along the next pointers needs: each leads to the next
\* allocated node or nowhere, and each node stands for some keys.
Walkable(nodes) ==
  /\ nodes \in Seq(Nodes)
  /\ \A i \in 1 .. Len(nodes) :
       /\ nodes[i].next \in {NULL, i + 1} /\ nodes[i].next <= Len(nodes)
       /\ KeysOfNode(nodes[i]) \in Seq(Key)

\* The walk is well defined: it yields the keys of the node it starts from,
\* followed by those of the rest.
LEMMA WalkRecursion ==
  ASSUME NEW nodes, Walkable(nodes)
  PROVE  /\ KeysFrom(nodes, NULL) = <<>>
         /\ \A i \in 1 .. Len(nodes) :
              KeysFrom(nodes, i) =
                Cat(KeysOfNode(nodes[i]), KeysFrom(nodes, nodes[i].next))
         /\ \A i \in 0 .. Len(nodes) : KeysFrom(nodes, i) \in Seq(Key)
<1> DEFINE n == Len(nodes)
           V == Seq(Key)
           Own(i) == KeysOfNode(nodes[i])
           Link(i) == nodes[i].next
           step == [x \in (1 .. n) \X V |->
                      Cat(Own(n + 1 - x[1]),
                          IF Link(n + 1 - x[1]) = NULL THEN <<>> ELSE x[2])]
<1>1. /\ n \in Nat
      /\ \A i \in 1 .. n : Link(i) \in {NULL, i + 1} /\ Link(i) <= n /\ Own(i) \in V
      /\ <<>> \in V
  BY LenProperties, EmptySeq DEF Walkable
<1> DEFINE rec(f) == [i \in 0 .. n |-> IF i = NULL THEN <<>> ELSE Cat(Own(i), f[Link(i)])]
           from == CHOOSE f : f = rec(f)
<1>2. \A i : KeysFrom(nodes, i) = from[i]
  BY DEF KeysFrom, Cat
<1> HIDE DEF n, V, Own, Link
<1>3. step \in [(1 .. n) \X V -> V]
  <2> SUFFICES ASSUME NEW x \in (1 .. n) \X V
               PROVE  Cat(Own(n + 1 - x[1]),
                          IF Link(n + 1 - x[1]) = NULL THEN <<>> ELSE x[2]) \in V
    OBVIOUS
  <2>1. n + 1 - x[1] \in 1 .. n /\ x[2] \in V
    BY <1>1
  <2>2. Own(n + 1 - x[1]) \in V
        /\ (IF Link(n + 1 - x[1]) = NULL THEN <<>> ELSE x[2]) \in V
    BY <1>1, <2>1
  <2> QED
    BY <2>2, CatFacts DEF V
<1>4. \A k \in 1 .. n : \A v \in V :
        step[<<k, v>>] = Cat(Own(n + 1 - k), IF Link(n + 1 - k) = NULL THEN <<>> ELSE v)
  OBVIOUS
<1> HIDE DEF step
<1>5. PICK r \in [0 .. n -> V] : Iterates(r, n, <<>>, step)
  BY <1>1, <1>3, Recursion
<1>14. ASSUME NEW k \in 1 .. n
      PROVE  r[k] = Cat(Own(n + 1 - k), IF Link(n + 1 - k) = NULL THEN <<>> ELSE r[k - 1])
  <2>1. k - 1 \in 0 .. n
    BY <1>1
  <2>2. r[k] = step[<<k, r[k - 1]>>] /\ r[k - 1] \in V
    BY <1>5, <2>1 DEF Iterates
  <2> QED
    BY <1>4, <2>2
<1> DEFINE h == [i \in 0 .. n |-> IF i = NULL THEN <<>> ELSE r[n + 1 - i]]
<1>6. h = rec(h)
  <2>1. ASSUME NEW i \in 1 .. n
        PROVE  h[i] = Cat(Own(i), h[Link(i)])
    <3> DEFINE k == n + 1 - i
    <3>1. k \in 1 .. n /\ n + 1 - k = i /\ k - 1 \in 0 .. n
      BY <1>1
    <3>4. r[k] = Cat(Own(i), IF Link(i) = NULL THEN <<>> ELSE r[k - 1])
      <4> HIDE DEF k
      <4>1. r[k] = Cat(Own(n + 1 - k), IF Link(n + 1 - k) = NULL THEN <<>> ELSE r[k - 1])
        BY <1>14, <3>1
      <4> QED
        BY <3>1, <4>1
    <3>5. h[i] = r[k]
      BY <1>1
    <3>6. h[Link(i)] = IF Link(i) = NULL THEN <<>> ELSE r[k - 1]
      <4>1. CASE Link(i) = NULL
        BY <1>1, <4>1
      <4>2. CASE Link(i) # NULL
        <5>1. Link(i) = i + 1 /\ i + 1 \in 0 .. n /\ n + 1 - (i + 1) = k - 1
          BY <1>1, <4>2
        <5> QED
          BY <4>2, <5>1
      <4> QED
        BY <4>1, <4>2
    <3> QED
      BY <3>4, <3>5, <3>6
  <2>2. \A i \in 0 .. n : h[i] = rec(h)[i]
    <3> SUFFICES ASSUME NEW i \in 0 .. n PROVE h[i] = rec(h)[i]
      OBVIOUS
    <3>1. CASE i = 0
      BY <3>1
    <3>2. CASE i # 0
      <4>1. i \in 1 .. n
        BY <1>1, <3>2
      <4>2. rec(h)[i] = Cat(Own(i), h[Link(i)])
        BY <3>2
      <4> HIDE DEF h, rec
      <4> QED
        BY <2>1, <4>1, <4>2
    <3> QED
      BY <3>1, <3>2
  <2> QED
    BY <2>2
<1>7. from = rec(from)
  <2> HIDE DEF rec
  <2> QED
    BY <1>6
<1> HIDE DEF from
<1>8. from[0] = <<>> /\ \A i \in 1 .. n : from[i] = Cat(Own(i), from[Link(i)])
  BY <1>1, <1>7
<1> HIDE DEF h, rec
<1> DEFINE T == {k \in 0 .. n : k > 0 => from[n + 1 - k] \in V}
<1>9. 0 \in T
  BY <1>1
<1>10. ASSUME NEW k \in 0 .. n - 1, k \in T
       PROVE  k + 1 \in T
  <2> DEFINE i == n + 1 - (k + 1)
  <2>1. i \in 1 .. n /\ k + 1 \in 0 .. n /\ (k > 0 => i + 1 = n + 1 - k) /\ (k = 0 => i = n)
    BY <1>1
  <2>2. from[Link(i)] \in V
    <3>1. CASE Link(i) = NULL
      BY <1>1, <1>8, <3>1
    <3>2. CASE Link(i) # NULL
      <4>1. Link(i) = i + 1 /\ i + 1 <= n
        BY <1>1, <2>1, <3>2
      <4>2. k > 0
        BY <1>1, <2>1, <4>1
      <4> QED
        BY <1>10, <2>1, <4>1, <4>2
    <3> QED
      BY <3>1, <3>2
  <2>3. from[i] = Cat(Own(i), from[Link(i)]) /\ Own(i) \in V
    BY <1>1, <1>8, <2>1
  <2>4. from[i] \in V
    BY <2>2, <2>3, CatFacts DEF V
  <2> QED
    BY <2>1, <2>4
<1>11. \A k \in 0 .. n : k \in T
  <2> HIDE DEF T
  <2> QED
    BY <1>1, <1>9, <1>10, UpTo
<1>12. \A i \in 0 .. n : from[i] \in V
  <2> SUFFICES ASSUME NEW i \in 0 .. n PROVE from[i] \in V
    OBVIOUS
  <2>1. CASE i = 0
    BY <1>1, <1>8, <2>1
  <2>2. CASE i # 0
    <3>1. n + 1 - i \in 0 .. n /\ n + 1 - i > 0 /\ n + 1 - (n + 1 - i) = i
      BY <1>1, <2>2
    <3> QED
      BY <1>11, <3>1
  <2> QED
    BY <2>1, <2>2
<1>13. \A i \in 1 .. n : KeysFrom(nodes, i) = Cat(Own(i), KeysFrom(nodes, Link(i)))
  BY <1>2, <1>8
<1> QED
  BY <1>2, <1>8, <1>12, <1>13 DEF n, V, Own, Link

\* The nodes from k to l are linked one to the next, in h as in g, and stand
\* for the same keys up to node l.
SameUpTo(h, g, k, l) ==
  \A i \in k .. l - 1 : /\ h[i].next = i + 1 /\ g[i].next = i + 1
                        /\ KeysOfNode(g[i]) = KeysOfNode(h[i])

\* Keys x behind those of node l are behind those of every node that leads to
\* it.
LEMMA TailChanged ==
  ASSUME NEW h, Walkable(h), NEW g, Walkable(g), NEW l \in 1 .. Len(h),
         l <= Len(g), NEW k \in 1 .. l, NEW x \in Seq(Key), SameUpTo(h, g, k, l),
         KeysFrom(g, l) = Cat(KeysFrom(h, l), x)
  PROVE  KeysFrom(g, k) = Cat(KeysFrom(h, k), x)
<1> DEFINE T == {j \in 0 .. l - k : KeysFrom(g, l - j) = Cat(KeysFrom(h, l - j), x)}
<1>1. Len(h) \in Nat /\ Len(g) \in Nat /\ l \in Nat /\ k \in Nat
  BY LenProperties DEF Walkable
<1>2. 0 \in T
  BY <1>1
<1>3. ASSUME NEW j \in 0 .. l - k - 1, j \in T
      PROVE  j + 1 \in T
  <2> DEFINE i == l - (j + 1)
  <2>1. /\ i \in k .. l - 1 /\ i \in 1 .. Len(h) /\ i \in 1 .. Len(g)
        /\ i + 1 = l - j /\ i + 1 \in 0 .. Len(h) /\ j + 1 \in 0 .. l - k
    BY <1>1
  <2> HIDE DEF i
  <2>2. /\ KeysFrom(h, i) = Cat(KeysOfNode(h[i]), KeysFrom(h, i + 1))
        /\ KeysFrom(g, i) = Cat(KeysOfNode(h[i]), KeysFrom(g, i + 1))
    BY <2>1, WalkRecursion DEF SameUpTo
  <2>3. KeysFrom(g, i + 1) = Cat(KeysFrom(h, i + 1), x)
    BY <1>3, <2>1
  <2>4. KeysOfNode(h[i]) \in Seq(Key) /\ KeysFrom(h, i + 1) \in Seq(Key)
    BY <2>1, WalkRecursion DEF Walkable
  <2>5. KeysFrom(g, i) = Cat(KeysFrom(h, i), x)
    BY <2>2, <2>3, <2>4, CatAssociative
  <2> QED
    BY <2>1, <2>5 DEF i
<1>4. l - k \in Nat /\ l - k \in 0 .. l - k /\ l - (l - k) = k
  BY <1>1
<1>5. l - k \in T
  <2> HIDE DEF T
  <2> QED
    BY <1>2, <1>3, <1>4, UpTo
<1> QED
  BY <1>4, <1>5
-----------------------------------------------------------------------------
\* A byte, and the states of the device's reader with its step as a function.
Byte == 0 .. 127
Reader == [text : Seq(Byte), quoting : BOOLEAN, ended : BOOLEAN]
ScanStep == [x \in Reader \X Byte |-> Scan(x[1], x[2])]

\* The device's reader in one of its states stays in one of them.
LEMMA ScanType ==
  ASSUME NEW st \in Reader, NEW c \in Byte
  PROVE  Scan(st, c) \in Reader
<1>1. /\ st.text \in Seq(Byte) /\ st.quoting \in BOOLEAN /\ st.ended \in BOOLEAN
  BY DEF Reader
<1>2. Append(st.text, c) \in Seq(Byte)
  BY <1>1, AppendProperties
<1>3. st.text \o <<Backslash, c>> \in Seq(Byte)
  <2>1. <<Backslash, c>> \in Seq(Byte)
    BY DEF Backslash, Byte
  <2> QED
    BY <1>1, <2>1, ConcatProperties
<1>4. CASE st.ended
  BY <1>4 DEF Scan
<1>5. CASE ~ st.ended /\ st.quoting
  <2>1. Scan(st, c) = [text |-> IF c \in {Quote, Backslash} THEN Append(st.text, c)
                                ELSE st.text \o <<Backslash, c>>,
                       quoting |-> FALSE, ended |-> FALSE]
    BY <1>5 DEF Scan
  <2> QED
    BY <1>2, <1>3, <2>1 DEF Reader
<1>6. CASE ~ st.ended /\ ~ st.quoting
  <2>1. Scan(st, c) = [text |-> IF c \in {Quote, Backslash} THEN st.text
                                ELSE Append(st.text, c),
                       quoting |-> c = Backslash, ended |-> c = Quote]
    BY <1>6 DEF Scan
  <2> QED
    BY <1>1, <1>2, <2>1 DEF Reader
<1> QED
  BY <1>1, <1>4, <1>5, <1>6

\* Reading an argument is folding it.
LEMMA ScannedFolds ==
  ASSUME NEW arg \in Seq(Byte)
  PROVE  /\ Scanned(arg) \in Reader
         /\ \E f : Folds(f, arg, Unread, ScanStep) /\ Scanned(arg) = f[Len(arg)]
<1> DEFINE n == Len(arg)
           rec(f) == [i \in 0 .. n |-> IF i = 0 THEN Unread ELSE Scan(f[i - 1], arg[i])]
           scan == CHOOSE f : f = rec(f)
<1>1. n \in Nat /\ \A i \in 1 .. n : arg[i] \in Byte
  BY LenProperties, ElementOfSeq
<1>2. Unread \in Reader
  BY EmptySeq DEF Unread, Reader
<1>3. ScanStep \in [Reader \X Byte -> Reader]
  BY ScanType DEF ScanStep
<1>4. \A st \in Reader : \A c \in Byte : ScanStep[<<st, c>>] = Scan(st, c)
  BY DEF ScanStep
<1>5. Scanned(arg) = scan[n]
  BY DEF Scanned
<1>6. PICK h \in [0 .. n -> Reader] : Folds(h, arg, Unread, ScanStep)
  <2> HIDE DEF n
  <2> QED
    BY <1>2, <1>3, FoldExists DEF n
<1>7. h[0] = Unread /\ \A k \in 0 .. n - 1 : h[k + 1] = ScanStep[<<h[k], arg[k + 1]>>]
  BY <1>6 DEF Folds
<1> HIDE DEF n
<1>8. h = rec(h)
  <2>1. ASSUME NEW i \in 0 .. n
        PROVE  h[i] = IF i = 0 THEN Unread ELSE Scan(h[i - 1], arg[i])
    <3>1. CASE i = 0
      BY <1>7, <3>1
    <3>2. CASE i # 0
      <4> DEFINE k == i - 1
      <4>1. k \in 0 .. n - 1 /\ k + 1 = i /\ k \in 0 .. n /\ i \in 1 .. n
        BY <1>1, <3>2
      <4> HIDE DEF k
      <4>2. h[i] = ScanStep[<<h[k], arg[i]>>] /\ h[k] \in Reader /\ arg[i] \in Byte
        BY <1>1, <1>7, <4>1
      <4>3. h[i] = Scan(h[k], arg[i])
        BY <1>4, <4>2
      <4> QED
        BY <3>2, <4>3 DEF k
    <3> QED
      BY <3>1, <3>2
  <2>2. \A i \in 0 .. n : h[i] = rec(h)[i]
    BY <2>1
  <2> QED
    BY <2>2
<1>9. scan = rec(scan)
  <2> HIDE DEF rec
  <2> QED
    BY <1>8
<1> HIDE DEF scan
<1>10. scan = [i \in 0 .. n |-> scan[i]] /\ scan[0] = Unread
  BY <1>1, <1>9
<1>11. FoldsIn(Reader, scan, arg, Unread, ScanStep)
  <2> SUFFICES ASSUME NEW k \in 0 .. n - 1, scan[k] \in Reader
               PROVE  scan[k + 1] = ScanStep[<<scan[k], arg[k + 1]>>]
    BY <1>10 DEF FoldsIn, n
  <2>1. k + 1 \in 0 .. n /\ k + 1 # 0 /\ k + 1 - 1 = k /\ k + 1 \in 1 .. n
    BY <1>1
  <2>2. scan[k + 1] = IF k + 1 = 0 THEN Unread ELSE Scan(scan[k + 1 - 1], arg[k + 1])
    <3>1. \A i \in 0 .. n : scan[i] = IF i = 0 THEN Unread ELSE Scan(scan[i - 1], arg[i])
      BY <1>9
    <3> QED
      BY <2>1, <3>1
  <2>3. scan[k + 1] = Scan(scan[k], arg[k + 1])
    <3>1. scan[k + 1] = Scan(scan[k + 1 - 1], arg[k + 1])
      BY <2>1, <2>2
    <3> HIDE <2>2
    <3> QED
      BY <2>1, <3>1
  <2> QED
    BY <1>1, <1>4, <2>1, <2>3
<1> HIDE DEF rec
<1>12. scan \in [0 .. n -> Reader] /\ Folds(scan, arg, Unread, ScanStep)
  BY <1>2, <1>3, <1>10, <1>11, FoldTyped DEF n
<1>13. scan[n] \in Reader
  BY <1>1, <1>12
<1> QED
  BY <1>5, <1>12, <1>13 DEF n

\* One character more is one step more of the reader.
LEMMA ScannedAppend ==
  ASSUME NEW arg \in Seq(Byte), NEW c \in Byte
  PROVE  /\ Scanned(arg) \in Reader
         /\ Scanned(Append(arg, c)) = Scan(Scanned(arg), c)
<1>1. PICK f :
        Folds(f, arg, Unread, ScanStep) /\ Scanned(arg) = f[Len(arg)]
  BY ScannedFolds
<1> DEFINE more == Append(arg, c)
<1>2. more \in Seq(Byte) /\ Len(more) = Len(arg) + 1 /\ Len(arg) \in Nat
  BY AppendProperties, LenProperties
<1>3. PICK g :
        Folds(g, more, Unread, ScanStep) /\ Scanned(more) = g[Len(more)]
  <2> HIDE DEF more
  <2> QED
    BY <1>2, ScannedFolds
<1>4. Folds(f, arg, Unread, ScanStep) /\ Folds(g, Append(arg, c), Unread, ScanStep)
  BY <1>1, <1>3, Zenon
<1>5. g[Len(arg) + 1] = ScanStep[<<f[Len(arg)], c>>]
  BY <1>4, FoldAppend
<1>6. f[Len(arg)] \in Reader
  BY <1>1, ScannedFolds
<1>7. ScanStep[<<f[Len(arg)], c>>] = Scan(f[Len(arg)], c)
  BY <1>6 DEF ScanStep
<1> HIDE DEF more
<1>8. Scanned(more) = Scan(Scanned(arg), c)
  BY <1>1, <1>2, <1>3, <1>5, <1>7
<1> QED
  BY <1>1, <1>6, <1>8 DEF more

-----------------------------------------------------------------------------
\* What set_text writes for one character.
Escaped(c) == IF c = Quote THEN <<Backslash, Quote>> ELSE <<c>>

\* set_text works character by character.
LEMMA EscapeAppend ==
  ASSUME NEW text \in Seq(Byte), NEW c \in Byte
  PROVE  /\ Escape(text) \in Seq(Byte)
         /\ Escape(Append(text, c)) = Cat(Escape(text), Escaped(c))
<1> DEFINE n == Len(text)
           more == Append(text, c)
           parts == [i \in 1 .. n |-> Escaped(text[i])]
           all == [i \in 1 .. n + 1 |-> Escaped(more[i])]
<1>1. /\ n \in Nat /\ DOMAIN text = 1 .. n /\ \A i \in 1 .. n : text[i] \in Byte
      /\ DOMAIN more = 1 .. n + 1 /\ Len(more) = n + 1 /\ more[n + 1] = c
      /\ \A i \in 1 .. n : more[i] = text[i]
  BY LenProperties, AppendProperties, ElementOfSeq
<1>2. \A d \in Byte : Escaped(d) \in Seq(Byte)
  <2> SUFFICES ASSUME NEW d \in Byte PROVE Escaped(d) \in Seq(Byte)
    OBVIOUS
  <2>1. <<d>> \in Seq(Byte) /\ <<Backslash, Quote>> \in Seq(Byte)
    BY DEF Backslash, Quote, Byte
  <2> QED
    BY <2>1 DEF Escaped
<1>3. Escape(text) = FlattenSeq(parts) /\ Escape(more) = FlattenSeq(all)
  BY <1>1 DEF Escape, Escaped
<1> HIDE DEF n, more
<1>4. \A i \in 1 .. n : parts[i] \in Seq(Byte)
  BY <1>1, <1>2
<1>5. parts \in Seq(Seq(Byte)) /\ Len(parts) = n /\ DOMAIN parts = 1 .. n
  BY <1>1, <1>4
<1>6. all = Append(parts, Escaped(c))
  <2>1. /\ Append(parts, Escaped(c)) = [i \in 1 .. n + 1 |->
             IF i = n + 1 THEN Escaped(c) ELSE parts[i]]
    BY <1>1, <1>5
  <2>2. ASSUME NEW i \in 1 .. n + 1
        PROVE  all[i] = IF i = n + 1 THEN Escaped(c) ELSE parts[i]
    <3>1. i # n + 1 => i \in 1 .. n
      BY <1>1
    <3> QED
      BY <1>1, <3>1
  <2> QED
    BY <2>1, <2>2
<1> HIDE DEF parts, all
<1> QED
  BY <1>2, <1>3, <1>5, <1>6, FlattenType, FlattenAppend DEF more

\* set_text writes bytes.
LEMMA EscapeType ==
  ASSUME NEW text \in Seq(Byte)
  PROVE  Escape(text) \in Seq(Byte)
<1>1. 0 \in Byte
  BY DEF Byte
<1> QED
  BY <1>1, EscapeAppend

\* The device reads what set_text wrote as the text of the node, as long as
\* there is no backslash in it.
LEMMA RoundTrip ==
  ASSUME NEW text \in Seq(Byte \ {Backslash})
  PROVE  DeviceText(Escape(text)) = text
<1> DEFINE n == Len(text)
           upto(k) == SubSeq(text, 1, k)
           read(k) == [text |-> upto(k), quoting |-> FALSE, ended |-> FALSE]
           T == {k \in 0 .. n : Scanned(Escape(upto(k))) = read(k)}
<1>1. /\ text \in Seq(Byte) /\ n \in Nat
      /\ \A i \in 1 .. n : text[i] \in Byte /\ text[i] # Backslash
  BY LenProperties, ElementOfSeq
<1>2. ASSUME NEW k \in 0 .. n
      PROVE  upto(k) \in Seq(Byte) /\ Len(upto(k)) = k
  BY <1>1
<1>3. ASSUME NEW k \in 0 .. n - 1
      PROVE  upto(k + 1) = Append(upto(k), text[k + 1])
  BY <1>1
<1>4. upto(0) = <<>> /\ upto(n) = text
  BY <1>1
<1>5. 0 \in T
  <2>1. Escape(<<>>) = <<>>
    BY DEF Escape, FlattenSeq
  <2>2. Scanned(<<>>) = Unread
    <3>1. PICK f : Folds(f, <<>>, Unread, ScanStep) /\ Scanned(<<>>) = f[Len(<<>>)]
      BY ScannedFolds, EmptySeq
    <3> QED
      BY <3>1, EmptySeq DEF Folds
  <2> HIDE DEF n, upto
  <2> QED
    BY <1>1, <1>4, <2>1, <2>2 DEF Unread
<1> HIDE DEF n, upto
<1>6. ASSUME NEW k \in 0 .. n - 1, k \in T
      PROVE  k + 1 \in T
  <2> DEFINE c == text[k + 1]
             esc == Escape(upto(k))
  <2>1. k \in 0 .. n /\ k + 1 \in 0 .. n /\ c \in Byte /\ c # Backslash
    BY <1>1
  <2> HIDE DEF c
  <2>2. upto(k) \in Seq(Byte) /\ upto(k + 1) = Append(upto(k), c)
    BY <1>2, <1>3, <2>1 DEF c
  <2>3. esc \in Seq(Byte) /\ Escape(upto(k + 1)) = Cat(esc, Escaped(c))
    BY <2>1, <2>2, EscapeAppend
  <2>4. Scanned(esc) = read(k)
    BY <1>6
  <2> HIDE DEF esc
  <2>5. CASE c = Quote
    <3>1. Cat(esc, Escaped(c)) = Append(Append(esc, Backslash), c)
      BY <2>1, <2>3, <2>5 DEF Cat, Escaped
    <3>2. Backslash \in Byte /\ Append(esc, Backslash) \in Seq(Byte)
      BY <2>3, AppendProperties DEF Backslash, Byte
    <3>3. Scanned(Append(esc, Backslash)) = Scan(read(k), Backslash)
      BY <2>3, <2>4, <3>2, ScannedAppend
    <3>4. Scan(read(k), Backslash) =
            [text |-> upto(k), quoting |-> TRUE, ended |-> FALSE]
      <4>1. Scan(read(k), Backslash) =
              [text |-> IF Backslash \in {Quote, Backslash} THEN upto(k)
                        ELSE Append(upto(k), Backslash),
               quoting |-> Backslash = Backslash, ended |-> Backslash = Quote]
        BY DEF Scan
      <4>2. (Backslash = Quote) = FALSE
        BY DEF Backslash, Quote
      <4> QED
        BY <4>1, <4>2
    <3>5. Scanned(Append(Append(esc, Backslash), c)) =
            Scan([text |-> upto(k), quoting |-> TRUE, ended |-> FALSE], c)
      BY <2>1, <3>2, <3>3, <3>4, ScannedAppend
    <3>6. Scan([text |-> upto(k), quoting |-> TRUE, ended |-> FALSE], c) =
            [text |-> Append(upto(k), c), quoting |-> FALSE, ended |-> FALSE]
      BY <2>5 DEF Scan
    <3> QED
      BY <2>1, <2>2, <2>3, <3>1, <3>5, <3>6
  <2>6. CASE c # Quote
    <3>1. Cat(esc, Escaped(c)) = Append(esc, c)
      BY <2>1, <2>3, <2>6 DEF Cat, Escaped
    <3>2. Scanned(Append(esc, c)) = Scan(read(k), c)
      BY <2>1, <2>3, <2>4, ScannedAppend
    <3>3. Scan(read(k), c) =
            [text |-> Append(upto(k), c), quoting |-> FALSE, ended |-> FALSE]
      BY <2>1, <2>6 DEF Scan
    <3> QED
      BY <2>1, <2>2, <2>3, <3>1, <3>2, <3>3
  <2> QED
    BY <2>5, <2>6
<1>7. n \in T
  <2>1. n \in 0 .. n
    BY <1>1
  <2> HIDE DEF T
  <2> QED
    BY <1>1, <1>5, <1>6, <2>1, UpTo
<1>8. Scanned(Escape(text)) = [text |-> text, quoting |-> FALSE, ended |-> FALSE]
  BY <1>4, <1>7
<1> QED
  BY <1>8 DEF DeviceText

-----------------------------------------------------------------------------
\* A text node holds no backslash, and an event node a key code.
Plain(node) ==
  IF node.type = KEY_EVENT THEN node.value \in KeyCodes
  ELSE Len(node.text) >= 1 /\ node.text \in Seq(Byte \ {Backslash})

\* The commands written: their keys are keys.
Commands ==
  {cmd \in [type : {KEY_EVENT, KEY_TEXT}, value : KeyCodes \cup {0}, arg : Seq(Byte)] :
     KeysOfCommand(cmd) \in Seq(Key)}

\* A text is as many keys as characters.
LEMMA TextKeys ==
  ASSUME NEW text \in Seq(Byte)
  PROVE  /\ KeysOfText(text) \in Seq(Key) /\ Len(KeysOfText(text)) = Len(text)
         /\ \A c \in Byte : KeysOfText(Append(text, c)) =
                              Cat(KeysOfText(text), << <<c>> >>)
         /\ Len(text) = 1 => KeysOfText(text) = <<text>>
<1> DEFINE n == Len(text)
<1>1. n \in Nat /\ DOMAIN text = 1 .. n /\ \A i \in 1 .. n : text[i] \in Byte
  BY LenProperties, ElementOfSeq
<1>2. KeysOfText(text) = [i \in 1 .. n |-> <<text[i]>>]
  BY <1>1 DEF KeysOfText
<1>3. \A i \in 1 .. n : <<text[i]>> \in Key
  BY <1>1 DEF Key, Byte
<1>4. KeysOfText(text) \in Seq(Key) /\ Len(KeysOfText(text)) = n
  <2> HIDE DEF n
  <2> QED
    BY <1>1, <1>2, <1>3
<1>5. ASSUME NEW c \in Byte
      PROVE  KeysOfText(Append(text, c)) = Cat(KeysOfText(text), << <<c>> >>)
  <2> DEFINE more == Append(text, c)
  <2>1. /\ DOMAIN more = 1 .. n + 1 /\ more[n + 1] = c
        /\ \A i \in 1 .. n : more[i] = text[i]
    BY <1>1, AppendProperties, LenProperties
  <2>2. KeysOfText(more) = [i \in 1 .. n + 1 |-> <<more[i]>>]
    BY <2>1 DEF KeysOfText
  <2> HIDE DEF more, n
  <2>3. Append(KeysOfText(text), <<c>>) =
          [i \in 1 .. n + 1 |-> IF i = n + 1 THEN <<c>> ELSE KeysOfText(text)[i]]
    BY <1>1, <1>4
  <2>4. \A i \in 1 .. n + 1 :
          <<more[i]>> = IF i = n + 1 THEN <<c>> ELSE KeysOfText(text)[i]
    <3> SUFFICES ASSUME NEW i \in 1 .. n + 1
                 PROVE  <<more[i]>> = IF i = n + 1 THEN <<c>> ELSE KeysOfText(text)[i]
      OBVIOUS
    <3>1. i # n + 1 => i \in 1 .. n
      BY <1>1
    <3> QED
      BY <1>2, <2>1, <3>1
  <2>5. KeysOfText(more) = Append(KeysOfText(text), <<c>>)
    BY <2>2, <2>3, <2>4
  <2>6. <<c>> \in Key
    BY DEF Key, Byte
  <2> QED
    BY <1>4, <2>5, <2>6 DEF more, Cat
<1>6. ASSUME n = 1
      PROVE  KeysOfText(text) = <<text>>
  <2>1. text = <<text[1]>>
    BY <1>1, <1>6
  <2> QED
    BY <1>2, <1>6, <2>1
<1> QED
  BY <1>4, <1>5, <1>6

\* An event is one key.
LEMMA EventKeys ==
  ASSUME NEW value \in KeyCodes
  PROVE  KeysOfEvent(value) \in Seq(Key) /\ Len(KeysOfEvent(value)) = 1
<1>1. /\ <<9>> \in Key /\ <<10>> \in Key /\ <<27>> \in Key /\ <<32>> \in Key
      /\ <<127>> \in Key
  BY DEF Key
<1>2. /\ <<27, 91, 65>> \in Key /\ <<27, 91, 66>> \in Key /\ <<27, 91, 67>> \in Key
      /\ <<27, 91, 68>> \in Key /\ <<27, 91, 51, 126>> \in Key
  BY DEF Key
<1> HIDE DEF Key
<1>3. KeyTable[value] \in Key
  BY <1>1, <1>2 DEF KeyTable, KeyCodes
<1> QED
  BY <1>3 DEF KeysOfEvent

\* A node stands for at least one key, and its command makes the device see
\* the same keys.
LEMMA NodeKeys ==
  ASSUME NEW node \in Nodes, Plain(node)
  PROVE  /\ KeysOfNode(node) \in Seq(Key) /\ Len(KeysOfNode(node)) >= 1
         /\ Command(node) \in Commands
         /\ KeysOfCommand(Command(node)) = KeysOfNode(node)
<1>1. node.type \in {KEY_EVENT, KEY_TEXT} /\ node.text \in Seq(Byte)
  BY DEF Nodes, Byte
<1>2. CASE node.type = KEY_EVENT
  <2>1. node.value \in KeyCodes /\ KeysOfNode(node) = KeysOfEvent(node.value)
    BY <1>2 DEF Plain, KeysOfNode
  <2>2. KeysOfNode(node) \in Seq(Key) /\ Len(KeysOfNode(node)) = 1
    BY <2>1, EventKeys
  <2>3. Command(node) = [type |-> KEY_EVENT, value |-> node.value, arg |-> <<>>]
    BY <1>2 DEF Command
  <2>4. KeysOfCommand(Command(node)) = KeysOfNode(node)
    BY <2>1, <2>3 DEF KeysOfCommand
  <2>5. <<>> \in Seq(Byte)
    BY EmptySeq
  <2> QED
    BY <2>1, <2>2, <2>3, <2>4, <2>5 DEF Commands
<1>3. CASE node.type # KEY_EVENT
  <2>1. /\ Len(node.text) >= 1 /\ node.text \in Seq(Byte \ {Backslash})
        /\ KeysOfNode(node) = KeysOfText(node.text)
    BY <1>3 DEF Plain, KeysOfNode
  <2>2. KeysOfNode(node) \in Seq(Key) /\ Len(KeysOfNode(node)) >= 1
    BY <1>1, <2>1, TextKeys
  <2>3. Command(node) = [type |-> KEY_TEXT, value |-> 0, arg |-> Escape(node.text)]
    BY <1>3 DEF Command
  <2>4. KeysOfCommand(Command(node)) = KeysOfText(DeviceText(Escape(node.text)))
    BY <2>3 DEF KeysOfCommand
  <2>5. KeysOfCommand(Command(node)) = KeysOfNode(node)
    BY <2>1, <2>4, RoundTrip
  <2>6. Escape(node.text) \in Seq(Byte)
    BY <1>1, EscapeType
  <2> QED
    BY <2>2, <2>3, <2>5, <2>6 DEF Commands
<1> QED
  BY <1>2, <1>3

-----------------------------------------------------------------------------
\* The nodes are ones the keys can be read from.
HeapOK(nodes) ==
  \A i \in 1 .. Len(nodes) :
    /\ Plain(nodes[i])
    /\ nodes[i].next \in {NULL, i + 1} /\ nodes[i].next <= Len(nodes)

\* The inductive invariant of the refinement.
StreamInv == IInv /\ HeapOK(heap) /\ sent \in Seq(Commands)

\* The keys of such nodes can be walked.
LEMMA HeapWalkable ==
  ASSUME NEW nodes \in Seq(Nodes), HeapOK(nodes)
  PROVE  Walkable(nodes)
<1>1. ASSUME NEW i \in 1 .. Len(nodes)
      PROVE  KeysOfNode(nodes[i]) \in Seq(Key)
  <2>1. nodes[i] \in Nodes /\ Plain(nodes[i])
    BY ElementOfSeq DEF HeapOK
  <2> QED
    BY <2>1, NodeKeys
<1> QED
  BY <1>1 DEF Walkable, HeapOK

\* get() and add() put the keys of the node behind the others.
LEMMA GetNodeKeys ==
  ASSUME StreamInv, NEW node \in Nodes, node.next = NULL, Plain(node), GetNode(node)
  PROVE  /\ HeapOK(heap')
         /\ KeysFrom(heap', keylist') =
              Cat(KeysFrom(heap, keylist), KeysOfNode(node))
         /\ \A i \in 1 .. Len(heap) : KeysOfNode(heap'[i]) = KeysOfNode(heap[i])
<1> DEFINE k == Len(heap) + 1
<1>1. /\ heap \in Seq(Nodes) /\ Len(heap) \in Nat
      /\ keylist \in 0 .. Len(heap) /\ last \in 0 .. Len(heap)
      /\ keylist # NULL =>
           /\ keylist \in 1 .. Len(heap) /\ last = Len(heap)
           /\ \A i \in keylist .. last - 1 : heap[i].next = i + 1
           /\ heap[last].next = NULL
  BY LenProperties DEF StreamInv, IInv, TypeOK, ListOK
<1>2. /\ heap' \in Seq(Nodes) /\ Len(heap') = k /\ heap'[k] = node
      /\ \A i \in 1 .. Len(heap) :
           /\ heap'[i].type = heap[i].type
           /\ heap'[i].value = heap[i].value
           /\ heap'[i].text = heap[i].text
           /\ heap'[i].next = IF keylist # NULL /\ i = last THEN k ELSE heap[i].next
  BY GetNodeEffect DEF StreamInv
<1>3. keylist' = IF keylist = NULL THEN k ELSE keylist
  BY DEF GetNode
<1>4. \A i \in 1 .. Len(heap) : KeysOfNode(heap'[i]) = KeysOfNode(heap[i])
  BY <1>2 DEF KeysOfNode
<1>5. HeapOK(heap')
  <2> SUFFICES ASSUME NEW i \in 1 .. k
               PROVE  /\ Plain(heap'[i])
                      /\ heap'[i].next \in {NULL, i + 1} /\ heap'[i].next <= k
    BY <1>2 DEF HeapOK
  <2>1. CASE i = k
    BY <1>1, <1>2, <2>1
  <2>2. CASE i # k
    <3>1. i \in 1 .. Len(heap)
      BY <1>1, <2>2
    <3>2. /\ Plain(heap[i]) /\ heap[i].next \in {NULL, i + 1}
          /\ heap[i].next <= Len(heap)
      BY <3>1 DEF StreamInv, HeapOK
    <3>3. Plain(heap'[i])
      BY <1>2, <3>1, <3>2 DEF Plain
    <3>4. CASE keylist # NULL /\ i = last
      BY <1>1, <1>2, <3>1, <3>3, <3>4
    <3>5. CASE ~ (keylist # NULL /\ i = last)
      BY <1>1, <1>2, <3>1, <3>2, <3>3, <3>5
    <3> QED
      BY <3>4, <3>5
  <2> QED
    BY <2>1, <2>2
<1>6. Walkable(heap) /\ Walkable(heap')
  BY <1>1, <1>2, <1>5, HeapWalkable DEF StreamInv
<1>7. KeysFrom(heap, NULL) = <<>> /\ KeysFrom(heap', NULL) = <<>>
      /\ KeysOfNode(node) \in Seq(Key)
  BY <1>6, WalkRecursion, NodeKeys
<1>8. KeysFrom(heap', k) = KeysOfNode(node)
  <2>1. k \in 1 .. Len(heap')
    BY <1>1, <1>2
  <2>2. KeysFrom(heap', k) = Cat(KeysOfNode(heap'[k]), KeysFrom(heap', heap'[k].next))
    BY <1>6, <2>1, WalkRecursion
  <2> HIDE DEF k
  <2>3. KeysFrom(heap', k) = Cat(KeysOfNode(node), <<>>)
    BY <1>2, <1>7, <2>2
  <2> QED
    BY <1>7, <2>3, CatFacts
<1>9. CASE keylist = NULL
  <2>1. KeysFrom(heap', keylist') = KeysOfNode(node) /\ KeysFrom(heap, keylist) = <<>>
    BY <1>3, <1>7, <1>8, <1>9
  <2> QED
    BY <1>4, <1>5, <1>7, <2>1, CatFacts
<1>10. CASE keylist # NULL
  <2> DEFINE l == Len(heap)
  <2>1. /\ l \in 1 .. Len(heap) /\ keylist \in 1 .. l /\ last = l /\ keylist' = keylist
        /\ l <= Len(heap') /\ l \in 1 .. Len(heap') /\ k = l + 1
    BY <1>1, <1>2, <1>3, <1>10
  <2>2. KeysFrom(heap, l) = KeysOfNode(heap[l])
    <3>1. KeysFrom(heap, l) = Cat(KeysOfNode(heap[l]), <<>>)
      <4>1. KeysFrom(heap, l) = Cat(KeysOfNode(heap[l]), KeysFrom(heap, heap[l].next))
        BY <1>6, <2>1, WalkRecursion
      <4> QED
        BY <1>1, <1>7, <1>10, <2>1, <4>1
    <3>2. KeysOfNode(heap[l]) \in Seq(Key)
      BY <1>6, <2>1 DEF Walkable
    <3> QED
      BY <3>1, <3>2, CatFacts
  <2>3. KeysFrom(heap', l) = Cat(KeysOfNode(heap[l]), KeysOfNode(node))
    <3>1. KeysFrom(heap', l) = Cat(KeysOfNode(heap'[l]), KeysFrom(heap', heap'[l].next))
      BY <1>6, <2>1, WalkRecursion
    <3>2. heap'[l].next = k /\ KeysOfNode(heap'[l]) = KeysOfNode(heap[l])
      BY <1>2, <1>4, <1>10, <2>1
    <3> QED
      BY <1>8, <3>1, <3>2
  <2>4. SameUpTo(heap, heap', keylist, l)
    <3> SUFFICES ASSUME NEW i \in keylist .. l - 1
                 PROVE  /\ heap[i].next = i + 1 /\ heap'[i].next = i + 1
                        /\ KeysOfNode(heap'[i]) = KeysOfNode(heap[i])
      BY DEF SameUpTo
    <3>1. i \in 1 .. Len(heap) /\ i # last /\ i \in keylist .. last - 1
      BY <1>1, <2>1
    <3> QED
      BY <1>1, <1>2, <1>4, <1>10, <3>1
  <2>5. KeysFrom(heap', l) = Cat(KeysFrom(heap, l), KeysOfNode(node))
    BY <2>2, <2>3
  <2> HIDE DEF l, k
  <2>6. KeysFrom(heap', keylist) = Cat(KeysFrom(heap, keylist), KeysOfNode(node))
    BY <1>6, <1>7, <2>1, <2>4, <2>5, TailChanged
  <2> QED
    BY <1>4, <1>5, <2>1, <2>6
<1> QED
  BY <1>9, <1>10

\* Keys x more in the last node are keys behind all the others.
LEMMA LastChanged ==
  ASSUME NEW h, Walkable(h), NEW g, Walkable(g), NEW l, l = Len(h), l = Len(g),
         NEW k \in 1 .. l, NEW x \in Seq(Key), SameUpTo(h, g, k, l),
         h[l].next = NULL, g[l].next = NULL,
         KeysOfNode(g[l]) = Cat(KeysOfNode(h[l]), x)
  PROVE  KeysFrom(g, k) = Cat(KeysFrom(h, k), x)
<1>1. l \in 1 .. Len(h) /\ l \in 1 .. Len(g) /\ l <= Len(g)
  BY LenProperties DEF Walkable
<1>2. KeysOfNode(h[l]) \in Seq(Key) /\ KeysOfNode(g[l]) \in Seq(Key)
  BY <1>1 DEF Walkable
<1>3. KeysFrom(h, NULL) = <<>> /\ KeysFrom(g, NULL) = <<>>
  BY WalkRecursion
<1>4. KeysFrom(h, l) = Cat(KeysOfNode(h[l]), KeysFrom(h, h[l].next))
      /\ KeysFrom(g, l) = Cat(KeysOfNode(g[l]), KeysFrom(g, g[l].next))
  BY <1>1, WalkRecursion
<1>5. KeysFrom(h, l) = KeysOfNode(h[l]) /\ KeysFrom(g, l) = KeysOfNode(g[l])
  BY <1>2, <1>3, <1>4, CatFacts
<1>6. KeysFrom(g, l) = Cat(KeysFrom(h, l), x)
  BY <1>5
<1> QED
  BY <1>1, <1>6, TailChanged

\* A character that joins the last node is one key more in it.
LEMMA ExtendNode ==
  ASSUME StreamInv, NEW c \in Byte, c # Backslash, CanExtend,
         heap' = [heap EXCEPT ![last].text = Append(@, c)],
         UNCHANGED <<keylist, last, popped>>
  PROVE  /\ HeapOK(heap')
         /\ heap \in Seq(Nodes) /\ heap' \in Seq(Nodes) /\ Len(heap') = Len(heap)
         /\ last = Len(heap) /\ keylist \in 1 .. last
         /\ heap[last].next = NULL /\ heap'[last].next = NULL
         /\ SameUpTo(heap, heap', keylist, last)
         /\ KeysOfNode(heap'[last]) = Cat(KeysOfNode(heap[last]), << <<c>> >>)
         /\ \A i \in 1 .. Len(heap) :
              i # last => KeysOfNode(heap'[i]) = KeysOfNode(heap[i])
<1>1. /\ heap \in Seq(Nodes) /\ Len(heap) \in Nat
      /\ last \in 1 .. Len(heap) /\ last = Len(heap) /\ keylist \in 1 .. last
      /\ \A i \in keylist .. last - 1 : heap[i].next = i + 1
      /\ heap[last].next = NULL /\ heap[last].type = KEY_TEXT
  BY LenProperties DEF StreamInv, IInv, TypeOK, ListOK, CanExtend
<1>2. /\ heap' \in Seq(Nodes) /\ Len(heap') = Len(heap)
      /\ \A i \in 1 .. Len(heap) : i # last => heap'[i] = heap[i]
      /\ heap'[last].type = heap[last].type
      /\ heap'[last].text = Append(heap[last].text, c)
      /\ heap'[last].next = heap[last].next
  <2>1. c \in 0 .. 127 /\ IInv
    BY DEF Byte, StreamInv
  <2> QED
    BY <2>1, ExtendStep, Zenon
<1>3. Plain(heap[last]) /\ heap[last].text \in Seq(Byte \ {Backslash})
      /\ Len(heap[last].text) >= 1
  BY <1>1 DEF StreamInv, HeapOK, Plain
<1>4. Plain(heap'[last])
  <2> DEFINE text == Append(heap[last].text, c)
  <2>1. c \in Byte \ {Backslash}
    OBVIOUS
  <2>2. text \in Seq(Byte \ {Backslash}) /\ Len(text) >= 1
    BY <1>3, <2>1, AppendProperties, LenProperties
  <2> HIDE DEF text
  <2> QED
    BY <1>1, <1>2, <2>2 DEF Plain, text
<1>5. HeapOK(heap')
  <2> SUFFICES ASSUME NEW i \in 1 .. Len(heap)
               PROVE  /\ Plain(heap'[i]) /\ heap'[i].next \in {NULL, i + 1}
                      /\ heap'[i].next <= Len(heap)
    BY <1>2 DEF HeapOK
  <2>1. /\ Plain(heap[i]) /\ heap[i].next \in {NULL, i + 1}
        /\ heap[i].next <= Len(heap)
    BY DEF StreamInv, HeapOK
  <2>2. CASE i = last
    BY <1>2, <1>4, <2>1, <2>2
  <2>3. CASE i # last
    BY <1>2, <2>1, <2>3
  <2> QED
    BY <2>2, <2>3
<1>10. KeysOfNode(heap'[last]) = Cat(KeysOfNode(heap[last]), << <<c>> >>)
  <2>1. heap[last].text \in Seq(Byte)
    BY <1>3
  <2>2. KeysOfNode(heap[last]) = KeysOfText(heap[last].text)
        /\ KeysOfNode(heap'[last]) = KeysOfText(Append(heap[last].text, c))
    BY <1>1, <1>2 DEF KeysOfNode
  <2> QED
    BY <2>1, <2>2, TextKeys
<1>12. SameUpTo(heap, heap', keylist, last)
  <2> SUFFICES ASSUME NEW i \in keylist .. last - 1
               PROVE  /\ heap[i].next = i + 1 /\ heap'[i].next = i + 1
                      /\ KeysOfNode(heap'[i]) = KeysOfNode(heap[i])
    BY DEF SameUpTo
  <2>1. i \in 1 .. Len(heap) /\ i # last
    BY <1>1
  <2> QED
    BY <1>1, <1>2, <2>1
<1> QED
  BY <1>1, <1>2, <1>5, <1>10, <1>12

-----------------------------------------------------------------------------
\* Cutting a concatenation where it was joined.
LEMMA CutCat ==
  ASSUME NEW S, NEW a \in Seq(S), NEW b \in Seq(S)
  PROVE  /\ Len(Cat(a, b)) = Len(a) + Len(b)
         /\ SubSeq(Cat(a, b), 1, Len(a)) = a
         /\ SubSeq(Cat(a, b), Len(a) + 1, Len(Cat(a, b))) = b
<1> DEFINE c == a \o b
           m == Len(a)
           n == Len(b)
<1>1. /\ m \in Nat /\ n \in Nat /\ c \in Seq(S) /\ Len(c) = m + n
      /\ \A i \in 1 .. m : c[i] = a[i]
      /\ \A i \in 1 .. n : c[m + i] = b[i]
  BY LenProperties, ConcatProperties
<1> HIDE DEF c
<1>2. SubSeq(c, 1, m) = a
  <2>1. SubSeq(c, 1, m) = [i \in 1 .. m |-> c[i]]
    BY <1>1
  <2>2. a = [i \in 1 .. m |-> a[i]]
    BY <1>1
  <2> QED
    BY <1>1, <2>1, <2>2
<1>3. SubSeq(c, m + 1, m + n) = b
  <2>1. SubSeq(c, m + 1, m + n) = [i \in 1 .. n |-> c[m + i]]
    BY <1>1
  <2>2. b = [i \in 1 .. n |-> b[i]]
    BY <1>1
  <2> QED
    BY <1>1, <2>1, <2>2
<1> QED
  BY <1>1, <1>2, <1>3 DEF c, Cat

\* A key accepted while the node in hand stays as it is.
LEMMA AcceptKey ==
  ASSUME StreamInv, NEW buf \in Reads,
         KeysFrom(heap', keylist') = Cat(KeysFrom(heap, keylist), <<buf>>),
         popped # NULL => KeysOfNode(heap'[popped]) = KeysOfNode(heap[popped]),
         UNCHANGED <<popped, ready, sent>>
  PROVE  Stream!Type(buf)
<1>1. Walkable(heap) /\ keylist \in 0 .. Len(heap)
  BY HeapWalkable DEF StreamInv, IInv, TypeOK
<1>2. PendingKeys \in Seq(Key)
  BY <1>1, WalkRecursion DEF PendingKeys
<1>3. PendingKeys' = Append(PendingKeys, buf)
  <2>1. PendingKeys' = Cat(PendingKeys, <<buf>>)
    BY DEF PendingKeys
  <2>2. buf \in Key
    BY ReadType DEF Key
  <2> QED
    BY <1>2, <2>1, <2>2 DEF Cat
<1>4. HeldKeys' = HeldKeys
  BY DEF HeldKeys
<1>5. DeliveredKeys' = DeliveredKeys
  BY DEF DeliveredKeys
<1> QED
  BY <1>3, <1>4, <1>5 DEF Stream!Type

\* A read adds its key to the stream, or nothing.
LEMMA AddRefines ==
  ASSUME StreamInv, <<Backslash>> \notin Reads, NEW buf \in Reads, add_keylist(buf)
  PROVE  StreamInv' /\ (Stream!Type(buf) \/ UNCHANGED Stream!vars)
<1>1. IInv' /\ sent' \in Seq(Commands) /\ UNCHANGED <<popped, ready, sent>>
  BY AddStep DEF StreamInv, add_keylist
<1>2. /\ Len(heap) \in Nat /\ popped \in 0 .. Len(heap)
      /\ CanExtend => popped # last
  <2>1. /\ Len(heap) \in Nat /\ {keylist, last, popped} \subseteq 0 .. Len(heap)
        /\ ListOK
    BY LenProperties DEF StreamInv, IInv, TypeOK
  <2>2. CanExtend => popped # last
    BY <2>1 DEF CanExtend, ListOK, InList
  <2> QED
    BY <2>1, <2>2
<1>3. CASE AddText(buf)
  <2>1. IsText(buf) /\ buf \in Seq(Byte) /\ buf[1] \in Byte /\ Len(buf) = 1
    BY <1>3, ReadType DEF AddText, IsText, Byte
  <2>2. buf = <<buf[1]>>
    BY <2>1
  <2>3. buf[1] # Backslash
    BY <2>2
  <2>4. CASE CanExtend
    <3> DEFINE c == buf[1]
    <3>1. /\ heap' = [heap EXCEPT ![last].text = Append(@, c)]
          /\ UNCHANGED <<keylist, last, popped>>
      BY <1>1, <1>3, <2>4 DEF AddText
    <3>2. c \in Byte /\ c # Backslash /\ buf = <<c>>
      BY <2>1, <2>2, <2>3
    <3> HIDE DEF c
    <3>3. /\ HeapOK(heap')
          /\ heap \in Seq(Nodes) /\ heap' \in Seq(Nodes) /\ Len(heap') = Len(heap)
          /\ last = Len(heap) /\ keylist \in 1 .. last
          /\ heap[last].next = NULL /\ heap'[last].next = NULL
          /\ SameUpTo(heap, heap', keylist, last)
          /\ KeysOfNode(heap'[last]) = Cat(KeysOfNode(heap[last]), <<buf>>)
          /\ \A i \in 1 .. Len(heap) :
               i # last => KeysOfNode(heap'[i]) = KeysOfNode(heap[i])
      BY <2>4, <3>1, <3>2, ExtendNode
    <3> DEFINE keys == <<buf>>
    <3>6. keys \in Seq(Key)
      <4>1. buf \in Key
        BY <2>1 DEF Byte, Key
      <4> QED
        BY <4>1
    <3>7. KeysOfNode(heap'[last]) = Cat(KeysOfNode(heap[last]), keys)
      BY <3>3
    <3>8. Walkable(heap) /\ Walkable(heap')
      BY <3>3, HeapWalkable DEF StreamInv
    <3> HIDE DEF keys
    <3>9. KeysFrom(heap', keylist) = Cat(KeysFrom(heap, keylist), keys)
      BY <3>3, <3>6, <3>7, <3>8, LastChanged
    <3>10. KeysFrom(heap', keylist') = Cat(KeysFrom(heap, keylist), <<buf>>)
      BY <3>1, <3>9 DEF keys
    <3>4. popped # NULL => KeysOfNode(heap'[popped]) = KeysOfNode(heap[popped])
      BY <1>2, <2>4, <3>3
    <3>5. Stream!Type(buf)
      BY <1>1, <3>4, <3>10, AcceptKey
    <3> QED
      BY <1>1, <3>3, <3>5 DEF StreamInv
  <2>5. CASE ~ CanExtend
    <3> DEFINE node == Node(KEY_TEXT, 0, buf)
    <3>1. GetNode(node)
      BY <1>3, <2>5 DEF AddText
    <3>2. /\ node \in Nodes /\ node.next = NULL
          /\ node.type = KEY_TEXT /\ node.text = buf
      BY <2>1, NewNodes DEF Byte
    <3> HIDE DEF node
    <3>3. buf \in Seq(Byte \ {Backslash})
      <4> DEFINE c == buf[1]
      <4>1. c \in Byte \ {Backslash} /\ buf = <<c>>
        BY <2>1, <2>2, <2>3
      <4> HIDE DEF c
      <4> QED
        BY <4>1
    <3>4. Plain(node)
      BY <2>1, <3>2, <3>3 DEF Plain
    <3>5. KeysOfNode(node) = <<buf>>
      BY <2>1, <3>2, TextKeys DEF KeysOfNode
    <3>6. /\ HeapOK(heap')
          /\ KeysFrom(heap', keylist') = Cat(KeysFrom(heap, keylist), <<buf>>)
          /\ \A i \in 1 .. Len(heap) : KeysOfNode(heap'[i]) = KeysOfNode(heap[i])
      BY <3>1, <3>2, <3>4, <3>5, GetNodeKeys
    <3>7. Stream!Type(buf)
      BY <1>1, <1>2, <3>6, AcceptKey
    <3> QED
      BY <1>1, <3>6, <3>7 DEF StreamInv
  <2> QED
    BY <2>4, <2>5
<1>4. CASE AddEvent(buf)
  <2>1. PICK value \in KeyCodes :
          KeyTable[value] = buf /\ GetNode(Node(KEY_EVENT, value, <<>>))
    BY <1>4 DEF AddEvent
  <2> DEFINE node == Node(KEY_EVENT, value, <<>>)
  <2>2. /\ node \in Nodes /\ node.next = NULL
        /\ node.type = KEY_EVENT /\ node.value = value
    BY NewNodes
  <2>3. GetNode(node)
    BY <2>1
  <2> HIDE DEF node
  <2>4. Plain(node) /\ KeysOfNode(node) = <<buf>>
    BY <2>1, <2>2 DEF Plain, KeysOfNode, KeysOfEvent
  <2>5. /\ HeapOK(heap')
        /\ KeysFrom(heap', keylist') = Cat(KeysFrom(heap, keylist), <<buf>>)
        /\ \A i \in 1 .. Len(heap) : KeysOfNode(heap'[i]) = KeysOfNode(heap[i])
    BY <2>2, <2>3, <2>4, GetNodeKeys
  <2>6. Stream!Type(buf)
    BY <1>1, <1>2, <2>5, AcceptKey
  <2> QED
    BY <1>1, <2>5, <2>6 DEF StreamInv
<1>5. CASE AddNothing(buf)
  <2>1. UNCHANGED <<heap, keylist, popped, ready, sent>>
    BY <1>1, <1>5 DEF AddNothing
  <2> QED
    BY <1>1, <2>1
    DEF StreamInv, Stream!vars, PendingKeys, HeldKeys, DeliveredKeys
<1> QED
  BY <1>3, <1>4, <1>5 DEF add_keylist

\* Taking a node off the list takes the oldest keys.
LEMMA UnlinkRefines ==
  ASSUME StreamInv, Unlink
  PROVE  StreamInv' /\ Stream!Take
<1> DEFINE taken == KeysOfNode(heap[keylist])
           rest == KeysFrom(heap, heap[keylist].next)
<1>1. /\ UNCHANGED <<heap, ready, sent>> /\ popped = NULL /\ popped' = keylist
      /\ keylist' = heap[keylist].next /\ keylist # NULL
  BY DEF Unlink
<1>2. StreamInv'
  BY <1>1, UnlinkStep DEF StreamInv
<1>3. keylist \in 1 .. Len(heap) /\ heap \in Seq(Nodes) /\ Len(heap) \in Nat
  BY <1>1, LenProperties DEF StreamInv, IInv, TypeOK
<1>4. heap[keylist] \in Nodes /\ Plain(heap[keylist])
      /\ heap[keylist].next \in 0 .. Len(heap)
  <2>1. heap[keylist].next \in {NULL, keylist + 1} /\ heap[keylist].next <= Len(heap)
        /\ Plain(heap[keylist])
    BY <1>3 DEF StreamInv, HeapOK
  <2> QED
    BY <1>3, <2>1, ElementOfSeq
<1>5. taken \in Seq(Key) /\ Len(taken) >= 1
  BY <1>4, NodeKeys
<1>6. Walkable(heap)
  BY <1>3, HeapWalkable DEF StreamInv
<1>7. rest \in Seq(Key) /\ PendingKeys = Cat(taken, rest)
  BY <1>3, <1>4, <1>6, WalkRecursion DEF PendingKeys
<1>8. HeldKeys = <<>> /\ HeldKeys' = taken /\ PendingKeys' = rest
  BY <1>1 DEF HeldKeys, PendingKeys
<1>9. DeliveredKeys' = DeliveredKeys
  BY <1>1 DEF DeliveredKeys
<1> HIDE DEF taken, rest
<1> DEFINE n == Len(taken)
<1>10. /\ Len(PendingKeys) = n + Len(rest) /\ SubSeq(PendingKeys, 1, n) = taken
       /\ SubSeq(PendingKeys, n + 1, Len(PendingKeys)) = rest
  BY <1>5, <1>7, CutCat
<1>11. n \in 1 .. Len(PendingKeys)
  BY <1>5, <1>7, <1>10, LenProperties
<1> HIDE DEF n
<1>12. Stream!Take
  BY <1>1, <1>8, <1>9, <1>10, <1>11 DEF Stream!Take
<1> QED
  BY <1>2, <1>12

\* The device sees the keys of a command it gets behind all the others.
LEMMA SentAppend ==
  ASSUME NEW cmds \in Seq(Commands), NEW cmd \in Commands
  PROVE  FlattenSeq([n \in DOMAIN Append(cmds, cmd) |->
                       KeysOfCommand(Append(cmds, cmd)[n])])
           = Cat(FlattenSeq([n \in DOMAIN cmds |-> KeysOfCommand(cmds[n])]),
                 KeysOfCommand(cmd))
<1> DEFINE n == Len(cmds)
           more == Append(cmds, cmd)
           parts == [i \in DOMAIN cmds |-> KeysOfCommand(cmds[i])]
           all == [i \in DOMAIN more |-> KeysOfCommand(more[i])]
<1>1. /\ n \in Nat /\ DOMAIN cmds = 1 .. n /\ \A i \in 1 .. n : cmds[i] \in Commands
      /\ DOMAIN more = 1 .. n + 1 /\ more[n + 1] = cmd
      /\ \A i \in 1 .. n : more[i] = cmds[i]
  BY LenProperties, AppendProperties, ElementOfSeq
<1>2. \A c \in Commands : KeysOfCommand(c) \in Seq(Key)
  BY DEF Commands
<1> HIDE DEF n, more
<1>3. \A i \in 1 .. n : parts[i] \in Seq(Key)
  BY <1>1, <1>2
<1>4. parts \in Seq(Seq(Key)) /\ Len(parts) = n /\ DOMAIN parts = 1 .. n
  BY <1>1, <1>3
<1>5. all = Append(parts, KeysOfCommand(cmd))
  <2>1. Append(parts, KeysOfCommand(cmd)) =
          [i \in 1 .. n + 1 |-> IF i = n + 1 THEN KeysOfCommand(cmd) ELSE parts[i]]
    BY <1>1, <1>4
  <2>2. ASSUME NEW i \in 1 .. n + 1
        PROVE  all[i] = IF i = n + 1 THEN KeysOfCommand(cmd) ELSE parts[i]
    <3>1. i # n + 1 => i \in 1 .. n
      BY <1>1
    <3> QED
      BY <1>1, <3>1
  <2>3. all = [i \in 1 .. n + 1 |-> all[i]]
    BY <1>1
  <2> HIDE DEF all
  <2> QED
    BY <2>1, <2>2, <2>3
<1> HIDE DEF parts, all
<1>6. FlattenSeq(all) = Cat(FlattenSeq(parts), KeysOfCommand(cmd))
  BY <1>2, <1>4, <1>5, FlattenAppend
<1> QED
  BY <1>6 DEF parts, all, more

\* Sending a node delivers the keys in hand, or throws them away before READY.
LEMMA SendRefines ==
  ASSUME StreamInv, SendKey
  PROVE  StreamInv' /\ Stream!Deliver
<1> DEFINE node == heap[popped]
<1>1. /\ UNCHANGED <<heap, keylist, ready>> /\ popped # NULL /\ popped' = NULL
      /\ sent' = IF ready THEN Append(sent, Command(node)) ELSE sent
  BY DEF SendKey
<1>2. node \in Nodes /\ Plain(node) /\ ready \in BOOLEAN
  <2>1. popped \in 1 .. Len(heap) /\ heap \in Seq(Nodes) /\ ready \in BOOLEAN
    BY <1>1, LenProperties DEF StreamInv, IInv, TypeOK
  <2> QED
    BY <2>1, ElementOfSeq DEF StreamInv, HeapOK
<1>3. /\ Command(node) \in Commands /\ KeysOfNode(node) \in Seq(Key)
      /\ Len(KeysOfNode(node)) >= 1 /\ KeysOfCommand(Command(node)) = KeysOfNode(node)
  BY <1>2, NodeKeys
<1>4. HeldKeys = KeysOfNode(node) /\ HeldKeys' = <<>> /\ PendingKeys' = PendingKeys
  BY <1>1 DEF HeldKeys, PendingKeys
<1> HIDE DEF node
<1>5. sent \in Seq(Commands)
  BY DEF StreamInv
<1>6. sent' \in Seq(Commands)
  BY <1>1, <1>3, <1>5, AppendProperties
<1>7. StreamInv'
  BY <1>1, <1>6, SendKeyStep DEF StreamInv
<1>8. HeldKeys # <<>>
  BY <1>3, <1>4, EmptySeq
<1>9. DeliveredKeys' = IF ready THEN DeliveredKeys \o HeldKeys ELSE DeliveredKeys
  <2>1. CASE ready
    <3>1. sent' = Append(sent, Command(node))
      BY <1>1, <2>1
    <3>2. DeliveredKeys' = Cat(DeliveredKeys, KeysOfCommand(Command(node)))
      BY <1>3, <1>5, <3>1, SentAppend DEF DeliveredKeys
    <3> QED
      BY <1>3, <1>4, <2>1, <3>2 DEF Cat
  <2>2. CASE ~ ready
    BY <1>1, <2>2 DEF DeliveredKeys
  <2> QED
    BY <2>1, <2>2
<1>10. Stream!Deliver
  BY <1>1, <1>4, <1>8, <1>9 DEF Stream!Deliver
<1> QED
  BY <1>7, <1>10

\* READY opens the stream.
LEMMA ReadyRefines ==
  ASSUME StreamInv, Ready
  PROVE  StreamInv' /\ Stream!Open
<1>1. UNCHANGED <<heap, keylist, popped, sent>> /\ ready' = TRUE
  BY DEF Ready
<1>2. StreamInv'
  BY <1>1, SendKeyStep DEF StreamInv
<1> QED
  BY <1>1, <1>2 DEF Stream!Open, PendingKeys, HeldKeys, DeliveredKeys

\* The empty queue is the empty stream.
LEMMA InitRefines == Init => StreamInv /\ Stream!Init
<1> SUFFICES ASSUME Init PROVE StreamInv /\ Stream!Init
  OBVIOUS
<1>1. /\ heap = <<>> /\ keylist = NULL /\ popped = NULL /\ sent = <<>>
      /\ ready = FALSE
  BY DEF Init
<1>2. heap \in Seq(Nodes) /\ HeapOK(heap) /\ sent \in Seq(Commands)
  BY <1>1, EmptySeq DEF HeapOK
<1>3. PendingKeys = <<>>
  BY <1>1, <1>2, HeapWalkable, WalkRecursion DEF PendingKeys
<1>4. DeliveredKeys = <<>>
  <2>1. [n \in DOMAIN sent |-> KeysOfCommand(sent[n])] = <<>>
    BY <1>1
  <2> QED
    BY <2>1 DEF DeliveredKeys, FlattenSeq
<1> QED
  BY <1>1, <1>2, <1>3, <1>4, InitIInv DEF StreamInv, Stream!Init, HeldKeys

\* Every step of the queue is a step of the stream or none.
LEMMA NextRefines ==
  ASSUME <<Backslash>> \notin Reads, StreamInv, [Next]_vars
  PROVE  StreamInv' /\ [Stream!Next]_(Stream!vars)
<1>1. CASE UNCHANGED vars
  BY <1>1, SendKeyStep
  DEF vars, StreamInv, Stream!vars, PendingKeys, HeldKeys, DeliveredKeys
<1>2. ASSUME NEW buf \in Reads, add_keylist(buf)
      PROVE  StreamInv' /\ [Stream!Next]_(Stream!vars)
  BY <1>2, AddRefines DEF Stream!Next
<1>3. CASE Unlink
  BY <1>3, UnlinkRefines DEF Stream!Next
<1>4. CASE SendKey
  BY <1>4, SendRefines DEF Stream!Next
<1>5. CASE Ready
  BY <1>5, ReadyRefines DEF Stream!Next
<1> QED
  BY <1>1, <1>2, <1>3, <1>4, <1>5 DEF Next

\* The nodes, the list and the commands carry the keys typed, in their order,
\* each once, to the device.
THEOREM StreamRefined ==
  ASSUME <<Backslash>> \notin Reads
  PROVE  Spec => ImplementsKeyStream
<1>1. StreamInv /\ [Next]_vars => StreamInv' /\ [Stream!Next]_(Stream!vars)
  BY NextRefines
<1> QED
  BY <1>1, InitRefines, PTL DEF Spec, ImplementsKeyStream, Stream!Steps
=============================================================================
