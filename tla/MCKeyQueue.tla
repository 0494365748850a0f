------------------------------ MODULE MCKeyQueue ------------------------------
(***************************************************************************)
(* KeyQueue for TLC: the reads to explore, and the refinement of KeyStream.*)
(***************************************************************************)
EXTENDS KeyQueue

Letter == <<97>>           \* a
PercentKey == <<37>>       \* %
QuoteKey == <<34>>         \* "
Up == <<27, 91, 65>>
Pasted == <<97, 98>>       \* two characters in one read

QuotedReads == {Letter, PercentKey, QuoteKey, Up, Pasted}

-----------------------------------------------------------------------------
(***************************************************************************)
(* The device's shell reading the double-quoted argument of "input text":  *)
(* a backslash quotes a quote or a backslash, a bare quote ends the        *)
(* string, and a backslash that quotes the closing quote makes that quote  *)
(* part of the text.                                                       *)
(***************************************************************************)
Unread == [text |-> <<>>, quoting |-> FALSE, ended |-> FALSE]

Scan(st, c) ==
  CASE st.ended -> st
    [] ~ st.ended /\ st.quoting ->
         [text |-> IF c \in {Quote, Backslash} THEN Append(st.text, c)
                   ELSE st.text \o <<Backslash, c>>,
          quoting |-> FALSE, ended |-> FALSE]
    [] ~ st.ended /\ ~ st.quoting ->
         [text |-> IF c \in {Quote, Backslash} THEN st.text
                   ELSE Append(st.text, c),
          quoting |-> c = Backslash, ended |-> c = Quote]

Scanned(arg) ==
  LET scan[i \in 0 .. Len(arg)] ==
        IF i = 0 THEN Unread ELSE Scan(scan[i - 1], arg[i])
  IN scan[Len(arg)]

DeviceText(arg) ==
  LET end == Scanned(arg)
  IN IF end.quoting THEN Append(end.text, Quote) ELSE end.text

KeysOfText(text) == [i \in DOMAIN text |-> <<text[i]>>]
KeysOfEvent(value) == <<KeyTable[value]>>
KeysOfNode(node) ==
  IF node.type = KEY_EVENT THEN KeysOfEvent(node.value)
  ELSE KeysOfText(node.text)
KeysOfCommand(cmd) ==
  IF cmd.type = KEY_EVENT THEN KeysOfEvent(cmd.value)
  ELSE KeysOfText(DeviceText(cmd.arg))

\* The keys of the nodes met by following next from node i.
KeysFrom(nodes, i) ==
  LET from[n \in 0 .. Len(nodes)] ==
        IF n = NULL THEN <<>>
        ELSE KeysOfNode(nodes[n]) \o from[nodes[n].next]
  IN from[i]

PendingKeys == KeysFrom(heap, keylist)
HeldKeys == IF popped = NULL THEN <<>> ELSE KeysOfNode(heap[popped])
DeliveredKeys == FlattenSeq([n \in DOMAIN sent |-> KeysOfCommand(sent[n])])

Stream == INSTANCE KeyStream WITH
  Keys <- Reads, pending <- PendingKeys, hand <- HeldKeys,
  delivered <- DeliveredKeys, open <- ready

\* The list of keydata nodes behaves as a first-in first-out stream of
\* keystrokes: none is reordered, duplicated or lost between the read and the
\* command, except those sent before the device accepted the stream.
ImplementsKeyStream == Stream!Steps

\* The keys that wait are taken again and again, and every key taken is sent or,
\* before the stream is open, thrown away: the send_command loop stands still
\* only when no key is left.
KeysMoveOn == Stream!Moves
=============================================================================
