--------------------------- MODULE PacketPathProofs ---------------------------
(***************************************************************************)
(* Proofs about PacketPath for every set of messages, every place to cut a *)
(* payload, every size of a packet and of a payload, and every bound.      *)
(***************************************************************************)
EXTENDS PacketPath, SequenceFacts

(***************************************************************************)
(* The invariant                                                           *)
(***************************************************************************)

\* Bytes of messages that have been sent.
Named == (1 .. Len(sent)) \X Nat

\* The device and the bytes on their way.
BusInv ==
  /\ sent \in Seq(Messages) /\ Len(sent) <= MaxSent
  /\ wire \in Seq(Seq(Named)) /\ got \in Seq(Named)
  /\ connected \in BOOLEAN /\ zero \in BOOLEAN
  /\ established \in BOOLEAN /\ same \in BOOLEAN

\* The output thread: messages are handled one after the other, and in each
\* place it holds the packet of the next one, of the last one, or none.
ReaderInv ==
  /\ output \in {"header", "data", "handle", "clear", "store", "ready", "exit"}
  /\ handled \in Seq(Nat) /\ p \in Nat
  /\ \A i \in 1 .. Len(handled) : handled[i] = i
  /\ Len(handled) <= Len(sent)
  /\ output \in {"header", "data"} => p = Len(handled) + 1
  /\ output = "data" => p <= Len(sent) /\ sent[p].flaw \notin {"magic", "long"}
  /\ output \in {"handle", "clear", "store"} => p = Len(handled) /\ p > 0
  /\ output = "ready" => p \in {NULL, Len(handled)}
  /\ output = "ready" /\ p # NULL => sent[p].cmd = "WRTE"
  /\ output = "exit" => p = NULL
  /\ output \in {"clear", "store"} =>
       sent[p].mine /\ sent[p].cmd \in {"OKAY", "CLSE", "WRTE"}

\* k is handled, and is not the packet the output thread holds.
Below(k) == k <= Len(handled) /\ (p # NULL => k < p)

\* What was stored and has not been taken.
Queue == SubSeq(stored, Len(taken) + 1, Len(stored))

\* A list with these links, from first to end, holds the packets of s.
Links(link, first, end, s) ==
  /\ first = IF s = <<>> THEN NULL ELSE s[1]
  /\ end = IF s = <<>> THEN NULL ELSE s[Len(s)]
  /\ \A n \in 1 .. Len(s) : link[s[n]] = IF n < Len(s) THEN s[n + 1] ELSE NULL

\* The list: packets of this stream in the order of their numbers, of which
\* the first have been taken and the others are linked.
ListInv ==
  /\ stored \in Seq(Packets) /\ taken \in Seq(Packets)
  /\ next \in [Packets -> Packets \cup {NULL}]
  /\ Len(taken) <= Len(stored) /\ Below(Len(stored))
  /\ \A i \in 1 .. Len(stored) : Below(stored[i])
  /\ \A i \in 1 .. Len(stored) :
       sent[stored[i]].mine /\ sent[stored[i]].cmd \in {"OKAY", "CLSE", "WRTE"}
  /\ \A i, j \in 1 .. Len(stored) : i < j => stored[i] < stored[j]
  /\ \A i \in 1 .. Len(taken) : taken[i] = stored[i]
  /\ Links(next, received, last, Queue)

\* The main thread: it has printed texts of packets before the one it holds.
DumpInv ==
  /\ main \in {"open", "poll", "dump", "exit"} /\ q \in Nat
  /\ buf \in [1 .. MaxPayload + 1 -> Nat]
  /\ main = "dump" => taken # <<>> /\ q = taken[Len(taken)]
  /\ printed \in Seq(Packets \X Seq(Nat))
  /\ \A k \in 1 .. Len(printed) :
       /\ taken # <<>> /\ printed[k][1] <= taken[Len(taken)]
       /\ main = "dump" => printed[k][1] < q
  /\ DumpRight

\* Allocated are the packet of the output thread, what was stored and the
\* SYNCs that were handled.
Syncs == {k \in 1 .. Len(handled) : sent[k].cmd = "SYNC"} \ {p}
LiveInv == live = ({p} \ {NULL}) \union Range(stored) \union Syncs

Inv == BusInv /\ ReaderInv /\ ListInv /\ DumpInv /\ LiveInv
-----------------------------------------------------------------------------
(***************************************************************************)
(* The list, followed along its links                                      *)
(***************************************************************************)

\* At is well defined: the head of the list, then what its links lead to.
LEMMA AtRecursion ==
  ASSUME NEW s \in Seq(Packets), Len(s) <= MaxSent + 1, Links(next, received, last, s)
  PROVE  \A n \in 0 .. MaxSent + 1 : At[n] = IF n < Len(s) THEN s[n + 1] ELSE NULL
<1> DEFINE L == MaxSent + 1
           rec(f) == [n \in 0 .. L |-> IF n = 0 THEN received
                                       ELSE IF f[n - 1] = NULL THEN NULL ELSE next[f[n - 1]]]
           h == [n \in 0 .. L |-> IF n < Len(s) THEN s[n + 1] ELSE NULL]
           at == CHOOSE f : f = rec(f)
<1>1. /\ L \in Nat /\ Len(s) \in Nat /\ Len(s) <= L
      /\ \A i \in 1 .. Len(s) : s[i] \in Nat /\ s[i] # NULL
      /\ s = <<>> <=> Len(s) = 0
  BY BoundsAssumption, LenProperties, ElementOfSeq, EmptySeq DEF Packets, NULL
<1>2. At = at
  BY DEF At
<1>3. ASSUME NEW n \in 0 .. L
      PROVE  h[n] = rec(h)[n]
  <2>1. CASE n = 0
    BY <1>1, <2>1 DEF Links
  <2>2. CASE n # 0
    <3>1. n - 1 \in 0 .. L /\ n - 1 + 1 = n
      BY <1>1, <2>2
    <3>2. h[n - 1] = IF n - 1 < Len(s) THEN s[n] ELSE NULL
      BY <3>1
    <3>3. h[n] = IF n < Len(s) THEN s[n + 1] ELSE NULL
      OBVIOUS
    <3>4. rec(h)[n] = IF h[n - 1] = NULL THEN NULL ELSE next[h[n - 1]]
      BY <2>2
    <3> HIDE DEF h, rec
    <3>5. CASE n - 1 < Len(s)
      <4>1. n \in 1 .. Len(s)
        BY <1>1, <2>2, <3>5
      <4>2. next[s[n]] = IF n < Len(s) THEN s[n + 1] ELSE NULL
        BY <4>1 DEF Links
      <4> QED
        BY <1>1, <3>2, <3>3, <3>4, <3>5, <4>1, <4>2
    <3>6. CASE ~ (n - 1 < Len(s))
      BY <1>1, <3>2, <3>3, <3>4, <3>6
    <3> QED
      BY <3>5, <3>6
  <2> QED
    BY <2>1, <2>2
<1>4. h = rec(h)
  BY <1>3
<1>5. at = rec(at)
  <2> HIDE DEF rec, h
  <2> QED
    BY <1>4
<1> HIDE DEF at
<1>6. \A n \in 0 .. L : at[n] = IF n = 0 THEN received
                               ELSE IF at[n - 1] = NULL THEN NULL ELSE next[at[n - 1]]
  BY <1>5
<1>7. \A n \in 0 .. L : h[n] = IF n = 0 THEN received
                              ELSE IF h[n - 1] = NULL THEN NULL ELSE next[h[n - 1]]
  BY <1>3
<1> HIDE DEF h, rec
<1> DEFINE T == {n \in 0 .. L : at[n] = h[n]}
<1>8. 0 \in T
  BY <1>1, <1>6, <1>7
<1>9. ASSUME NEW n \in 0 .. L - 1, n \in T
      PROVE  n + 1 \in T
  <2>1. n + 1 \in 0 .. L /\ n + 1 # 0 /\ n + 1 - 1 = n /\ at[n] = h[n]
    BY <1>1, <1>9
  <2>2. at[n + 1] = IF at[n] = NULL THEN NULL ELSE next[at[n]]
    BY <1>6, <2>1
  <2>3. h[n + 1] = IF h[n] = NULL THEN NULL ELSE next[h[n]]
    BY <1>7, <2>1
  <2> QED
    BY <2>1, <2>2, <2>3
<1>10. \A n \in 0 .. L : n \in T
  <2> HIDE DEF T, L
  <2> QED
    BY <1>1, <1>8, <1>9, UpTo
<1>11. \A n \in 0 .. L : At[n] = h[n]
  BY <1>2, <1>10
<1> QED
  BY <1>11 DEF h

\* The walk yields the sequence that is linked.
LEMMA ChainLinked ==
  ASSUME NEW s \in Seq(Packets), Len(s) <= MaxSent, Links(next, received, last, s)
  PROVE  Chain = s
<1>1. /\ MaxSent \in Nat /\ Len(s) \in Nat
      /\ s = [n \in 1 .. Len(s) |-> s[n]]
      /\ \A i \in 1 .. Len(s) : s[i] # NULL
  BY BoundsAssumption, LenProperties, ElementOfSeq, SeqDef DEF Packets, NULL
<1>2. \A n \in 0 .. MaxSent + 1 : At[n] = IF n < Len(s) THEN s[n + 1] ELSE NULL
  BY <1>1, AtRecursion
<1>3. \A m \in 1 .. MaxSent + 1 : At[m - 1] = IF m <= Len(s) THEN s[m] ELSE NULL
  <2> SUFFICES ASSUME NEW m \in 1 .. MaxSent + 1
               PROVE  At[m - 1] = IF m <= Len(s) THEN s[m] ELSE NULL
    OBVIOUS
  <2>1. m - 1 \in 0 .. MaxSent + 1 /\ m - 1 + 1 = m /\ (m - 1 < Len(s) <=> m <= Len(s))
    BY <1>1
  <2> QED
    BY <1>2, <2>1
<1>4. {m \in 1 .. (MaxSent + 1) : At[m - 1] # NULL} = 1 .. Len(s)
  <2>1. \A m \in 1 .. MaxSent + 1 : At[m - 1] # NULL <=> m <= Len(s)
    BY <1>1, <1>3
  <2> QED
    BY <1>1, <2>1
<1>5. \A m \in 1 .. Len(s) : At[m - 1] = s[m]
  BY <1>1, <1>3
<1>6. Chain = [n \in 1 .. Len(s) |-> At[n - 1]]
  BY <1>4 DEF Chain
<1> QED
  BY <1>1, <1>5, <1>6
-----------------------------------------------------------------------------
(***************************************************************************)
(* What the device puts on the bus                                         *)
(***************************************************************************)

\* The packets t carry the bytes from a to b of message i, all of them, each
\* once and in their order; start[k] is the first byte of packet k.
Starts(start, t, i, a, b) ==
  /\ start \in [1 .. Len(t) + 1 -> Nat]
  /\ start[1] = a /\ start[Len(t) + 1] = b + 1
  /\ \A k \in 1 .. Len(t) :
       /\ a <= start[k] /\ start[k] <= b
       /\ start[k] < start[k + 1] /\ start[k + 1] - start[k] <= PacketSize
       /\ t[k] = Part(i, start[k], start[k + 1] - 1)
Covers(t, i, a, b) == \E start : Starts(start, t, i, a, b)

\* The number of packets for n bytes.
LEMMA CeilDiv ==
  ASSUME NEW n \in Nat, NEW size \in Nat \ {0}
  PROVE  LET c == (n + size - 1) \div size IN
         /\ c \in Nat
         /\ (n = 0 => c = 0)
         /\ n > 0 => c > 0 /\ (c - 1) * size < n /\ n <= c * size
<1> DEFINE m == n + size - 1
           c == m \div size
<1>1. m \in Nat
  OBVIOUS
<1>2. c \in Nat /\ c * size <= m /\ m < (c + 1) * size
  BY <1>1
<1>3. n = 0 => c = 0
  BY <1>2
<1>4. n > 0 => c > 0
  BY <1>2
<1>5. (c - 1) * size = c * size - size /\ (c + 1) * size = c * size + size
  BY <1>2
<1> QED
  BY <1>2, <1>3, <1>4, <1>5

\* One transfer covers its bytes, unless it holds an empty packet.
LEMMA TransferCovers ==
  ASSUME NEW i \in Nat, NEW a \in Nat \ {0}, NEW b \in Nat, a <= b + 1,
         NEW empty \in BOOLEAN
  PROVE  LET t == Transfer(i, a, b, empty) IN
         /\ t \in Seq(Seq({i} \X Nat))
         /\ Covers(t, i, a, b) \/ \E k \in DOMAIN t : t[k] = <<>>
<1> DEFINE n == b - a + 1
           c == (n + PacketSize - 1) \div PacketSize
           off(k) == (k - 1) * PacketSize
           size(k) == IF k < c THEN PacketSize ELSE n - off(k)
           packet(k) == [j \in 1 .. size(k) |-> <<i, a - 1 + off(k) + j>>]
           full == [k \in 1 .. c |-> packet(k)]
           rest == IF empty /\ n > 0 /\ n % PacketSize = 0 THEN <<<<>>>> ELSE <<>>
           t == Transfer(i, a, b, empty)
<1>0. t = full \o rest /\ (rest = <<>> \/ rest = <<<<>>>>)
  BY DEF Transfer
<1>1. PacketSize \in Nat \ {0} /\ n \in Nat /\ b + 1 = a + n
  BY SizesAssumption
<1> HIDE DEF n, t, rest, full
<1>2. /\ c \in Nat /\ (n = 0 => c = 0)
      /\ n > 0 => c > 0 /\ (c - 1) * PacketSize < n /\ n <= c * PacketSize
  BY <1>1, CeilDiv
<1> HIDE DEF c
<1>3. /\ off(1) = 0
      /\ \A k \in 1 .. c : off(k) \in Nat /\ off(k + 1) = off(k) + PacketSize
      /\ \A k \in 1 .. c : off(k) <= off(c)
      /\ c > 0 => off(c) < n /\ n <= off(c) + PacketSize
  <2>1. off(1) = 0
    BY <1>1
  <2>2. ASSUME NEW k \in 1 .. c
        PROVE  off(k) \in Nat /\ off(k + 1) = off(k) + PacketSize /\ off(k) <= off(c)
    <3>1. k - 1 \in Nat /\ c - 1 \in Nat /\ k - 1 <= c - 1 /\ k + 1 - 1 = (k - 1) + 1
      BY <1>2
    <3>2. ASSUME NEW x \in Nat, NEW y \in Nat, x <= y
          PROVE  /\ x * PacketSize \in Nat /\ (x + 1) * PacketSize = x * PacketSize + PacketSize
                 /\ x * PacketSize <= y * PacketSize
      BY <1>1, <3>2
    <3> QED
      BY <3>1, <3>2
  <2>3. c > 0 => off(c) < n /\ n <= off(c) + PacketSize
    <3>1. c > 0 => c \in 1 .. c /\ n > 0
      BY <1>1, <1>2
    <3>2. c > 0 => off(c + 1) = off(c) + PacketSize
      BY <2>2, <3>1
    <3>3. c + 1 - 1 = c
      BY <1>2
    <3> QED
      BY <1>2, <3>1, <3>2, <3>3
  <2> QED
    BY <2>1, <2>2, <2>3
<1> HIDE DEF off
<1>4. ASSUME NEW k \in 1 .. c
      PROVE  /\ off(k) \in Nat /\ off(k) < n /\ size(k) \in 1 .. PacketSize
             /\ off(k) + size(k) = IF k < c THEN off(k + 1) ELSE n
  BY <1>1, <1>2, <1>3
<1> HIDE DEF size
<1> DEFINE Ours == {i} \X Nat
<1>5. ASSUME NEW k \in 1 .. c
      PROVE  packet(k) \in Seq(Ours) /\ Len(packet(k)) = size(k)
  <2>1. size(k) \in Nat /\ \A j \in 1 .. size(k) : a - 1 + off(k) + j \in Nat
    BY <1>1, <1>4
  <2>2. packet(k) \in [1 .. size(k) -> Ours]
    BY <2>1
  <2> QED
    BY <2>1, <2>2, SeqDef
<1>6. /\ full \in Seq(Seq(Ours)) /\ Len(full) = c
      /\ \A k \in 1 .. c : full[k] = packet(k)
  <2>1. full \in [1 .. c -> Seq(Ours)] /\ \A k \in 1 .. c : full[k] = packet(k)
    <3> HIDE DEF packet
    <3> QED
      BY <1>5 DEF full
  <2> QED
    BY <1>2, <2>1, SeqDef
<1>7. CASE rest = <<>>
  <2>1. t = full
    BY <1>0, <1>6, <1>7, ConcatEmptySeq
  <2> DEFINE start == [k \in 1 .. c + 1 |-> IF k <= c THEN a + off(k) ELSE b + 1]
  <2>2. ASSUME NEW k \in 1 .. c
        PROVE  start[k] = a + off(k) /\ start[k + 1] = a + off(k) + size(k)
    <3>1. k \in 1 .. c + 1 /\ k + 1 \in 1 .. c + 1 /\ k <= c /\ (k + 1 <= c <=> k < c)
      BY <1>2
    <3>2. start[k] = a + off(k)
      BY <3>1
    <3>3. start[k + 1] = IF k < c THEN a + off(k + 1) ELSE b + 1
      BY <3>1
    <3> HIDE DEF start
    <3> QED
      BY <1>1, <1>4, <3>2, <3>3
  <2>3. start[1] = a /\ start[c + 1] = b + 1
    BY <1>1, <1>2, <1>3
  <2>4. start \in [1 .. c + 1 -> Nat]
    BY <1>3
  <2> HIDE DEF start
  <2>5. ASSUME NEW k \in 1 .. c
        PROVE  /\ a <= start[k] /\ start[k] <= b
               /\ start[k] < start[k + 1] /\ start[k + 1] - start[k] <= PacketSize
               /\ full[k] = Part(i, start[k], start[k + 1] - 1)
    <3>1. /\ off(k) \in Nat /\ off(k) < n /\ size(k) \in 1 .. PacketSize
          /\ start[k] = a + off(k) /\ start[k + 1] = a + off(k) + size(k)
      BY <1>4, <2>2
    <3>2. a <= start[k] /\ start[k] <= b
      BY <1>1, <3>1
    <3>3. start[k] < start[k + 1] /\ start[k + 1] - start[k] <= PacketSize
      BY <1>1, <3>1
    <3>4. /\ start[k + 1] - 1 - start[k] + 1 = size(k)
          /\ \A j \in 1 .. size(k) : start[k] - 1 + j = a - 1 + off(k) + j
      BY <1>1, <3>1
    <3>5. full[k] = [j \in 1 .. size(k) |-> <<i, start[k] - 1 + j>>]
      BY <1>6, <3>4
    <3>6. full[k] = Part(i, start[k], start[k + 1] - 1)
      BY <3>4, <3>5 DEF Part
    <3> QED
      BY <3>2, <3>3, <3>6
  <2>6. Starts(start, full, i, a, b)
    BY <1>6, <2>3, <2>4, <2>5 DEF Starts
  <2> QED
    BY <1>6, <2>1, <2>6 DEF Covers, t
<1>8. CASE rest = <<<<>>>>
  <2>1. rest \in Seq(Seq(Ours)) /\ Len(rest) = 1 /\ rest[1] = <<>>
    BY <1>8
  <2>2. t \in Seq(Seq(Ours)) /\ Len(t) = c + 1 /\ t[c + 1] = rest[c + 1 - c]
    <3> DEFINE S == Seq(Ours)
    <3>1. full \in Seq(S) /\ rest \in Seq(S) /\ Len(full) = c
      BY <1>6, <2>1
    <3> HIDE DEF S
    <3>2. /\ full \o rest \in Seq(S) /\ Len(full \o rest) = Len(full) + Len(rest)
          /\ \A j \in 1 .. Len(full) + Len(rest) : (full \o rest)[j] =
               IF j <= Len(full) THEN full[j] ELSE rest[j - Len(full)]
      BY <3>1, ConcatProperties
    <3> DEFINE w == full \o rest
    <3> HIDE DEF w
    <3>3. Len(w) = c + 1 /\ w[c + 1] = rest[c + 1 - c] /\ w \in Seq(S)
      <4>1. c + 1 \in 1 .. c + 1 /\ ~ (c + 1 <= c)
        BY <1>2
      <4> QED
        BY <2>1, <3>1, <3>2, <4>1 DEF w
    <3> QED
      BY <1>0, <3>3 DEF S, w
  <2>3. t[c + 1] = <<>> /\ c + 1 \in DOMAIN t
    BY <1>2, <2>1, <2>2, LenProperties
  <2> QED
    BY <2>2, <2>3 DEF t
<1> QED
  BY <1>0, <1>7, <1>8

\* A function on an initial segment of the numbers is a sequence.
LEMMA FunctionSeq ==
  ASSUME NEW S, NEW n \in Nat, NEW f \in [1 .. n -> S]
  PROVE  f \in Seq(S) /\ Len(f) = n
BY SeqDef

\* A header is one packet, which is not full.
LEMMA HeaderPacket ==
  ASSUME NEW i \in Nat
  PROVE  Transfer(i, 1, HeaderSize, FALSE) = <<Part(i, 1, HeaderSize)>>
<1> DEFINE c == (2 + PacketSize - 1) \div PacketSize
<1>1. PacketSize \in Nat /\ PacketSize >= 3
  BY SizesAssumption
<1>2. c = 1
  BY <1>1
<1> HIDE DEF c
<1>3. Transfer(i, 1, HeaderSize, FALSE)
        = [k \in 1 .. c |->
             [j \in 1 .. (IF k < c THEN PacketSize ELSE 2 - (k - 1) * PacketSize)
                |-> <<i, 1 - 1 + (k - 1) * PacketSize + j>>]] \o <<>>
  BY DEF Transfer, HeaderSize, c
<1> DEFINE packet(k) == [j \in 1 .. (IF k < c THEN PacketSize ELSE 2 - (k - 1) * PacketSize)
                           |-> <<i, 1 - 1 + (k - 1) * PacketSize + j>>]
           one == [k \in 1 .. c |-> packet(k)]
<1>4. packet(1) = [j \in 1 .. 2 |-> <<i, j>>]
  <2>1. (1 - 1) * PacketSize = 0 /\ ~ (1 < c)
    BY <1>1, <1>2
  <2>2. packet(1) = [j \in 1 .. 2 |-> <<i, 1 - 1 + 0 + j>>]
    BY <2>1
  <2> QED
    BY <2>2
<1>5. Part(i, 1, HeaderSize) = [j \in 1 .. 2 |-> <<i, j>>]
  BY DEF Part, HeaderSize
<1> DEFINE S == {packet(1)}
<1>6. one \in Seq(S) /\ one = <<packet(1)>>
  <2>1. one = [k \in 1 .. 1 |-> packet(1)]
    <3> HIDE DEF packet
    <3> QED
      BY <1>2
  <2> HIDE DEF packet, one
  <2> QED
    BY <2>1
<1>7. one \o <<>> = one
  <2> HIDE DEF one, S
  <2> QED
    BY <1>6, ConcatEmptySeq
<1> QED
  BY <1>3, <1>4, <1>5, <1>6, <1>7

\* What covers the bytes up to b and what covers those behind b, joined.
LEMMA CoversCat ==
  ASSUME NEW S, NEW s \in Seq(S), NEW t \in Seq(S), NEW i,
         NEW a \in Nat, NEW b \in Nat, NEW c \in Nat, a <= b + 1, b <= c,
         Covers(s, i, a, b), Covers(t, i, b + 1, c)
  PROVE  Covers(s \o t, i, a, c)
<1> DEFINE m == Len(s)
           n == Len(t)
           u == s \o t
<1>1. PICK f : Starts(f, s, i, a, b)
  BY DEF Covers
<1>2. PICK g : Starts(g, t, i, b + 1, c)
  BY DEF Covers
<1>3. m \in Nat /\ n \in Nat /\ Len(u) = m + n
  BY LenProperties, ConcatProperties
<1>4. \A k \in 1 .. m + n : u[k] = IF k <= m THEN s[k] ELSE t[k - m]
  BY ConcatProperties
<1>5. /\ f \in [1 .. m + 1 -> Nat] /\ f[1] = a /\ f[m + 1] = b + 1
      /\ \A k \in 1 .. m : /\ a <= f[k] /\ f[k] <= b /\ f[k] < f[k + 1]
                           /\ f[k + 1] - f[k] <= PacketSize
                           /\ s[k] = Part(i, f[k], f[k + 1] - 1)
  BY <1>1 DEF Starts
<1>6. /\ g \in [1 .. n + 1 -> Nat] /\ g[1] = b + 1 /\ g[n + 1] = c + 1
      /\ \A k \in 1 .. n : /\ b + 1 <= g[k] /\ g[k] <= c /\ g[k] < g[k + 1]
                           /\ g[k + 1] - g[k] <= PacketSize
                           /\ t[k] = Part(i, g[k], g[k + 1] - 1)
  BY <1>2 DEF Starts
<1> HIDE DEF m, n, u
<1> DEFINE h == [k \in 1 .. m + n + 1 |-> IF k <= m THEN f[k] ELSE g[k - m]]
<1>7. h \in [1 .. m + n + 1 -> Nat]
  BY <1>3, <1>5, <1>6
<1>8. h[1] = a /\ h[m + n + 1] = c + 1
  <2>1. h[m + n + 1] = g[n + 1]
    BY <1>3
  <2>2. CASE m = 0
    <3>1. h[1] = g[1] /\ f[1] = b + 1
      BY <1>3, <1>5, <2>2
    <3> QED
      BY <1>5, <1>6, <2>1, <3>1
  <2>3. CASE m # 0
    BY <1>3, <1>5, <1>6, <2>1, <2>3
  <2> QED
    BY <2>2, <2>3
<1>9. ASSUME NEW k \in 1 .. m + n
      PROVE  /\ a <= h[k] /\ h[k] <= c /\ h[k] < h[k + 1]
             /\ h[k + 1] - h[k] <= PacketSize
             /\ u[k] = Part(i, h[k], h[k + 1] - 1)
  <2>1. CASE k <= m
    <3>1. k \in 1 .. m /\ h[k] = f[k] /\ u[k] = s[k]
      BY <1>3, <1>4, <2>1
    <3>2. h[k + 1] = f[k + 1]
      <4>1. CASE k < m
        BY <1>3, <3>1, <4>1
      <4>2. CASE k = m
        <5>1. h[k + 1] = g[1]
          BY <1>3, <4>2
        <5> QED
          BY <1>5, <1>6, <4>2, <5>1
      <4> QED
        BY <1>3, <2>1, <4>1, <4>2
    <3> HIDE DEF h
    <3>3. f[k] \in Nat
      BY <1>3, <1>5, <3>1
    <3> QED
      BY <1>5, <3>1, <3>2, <3>3
  <2>2. CASE ~ (k <= m)
    <3>1. k - m \in 1 .. n /\ h[k] = g[k - m] /\ u[k] = t[k - m]
      BY <1>3, <1>4, <2>2
    <3>2. h[k + 1] = g[k - m + 1]
      BY <1>3, <2>2
    <3> DEFINE l == k - m
    <3> HIDE DEF h, l
    <3>3. l \in 1 .. n /\ h[k] = g[l] /\ u[k] = t[l] /\ h[k + 1] = g[l + 1]
      BY <3>1, <3>2 DEF l
    <3>4. /\ g[l] \in Nat /\ b + 1 <= g[l] /\ g[l] <= c /\ g[l] < g[l + 1]
          /\ g[l + 1] - g[l] <= PacketSize /\ t[l] = Part(i, g[l], g[l + 1] - 1)
      BY <1>3, <1>6, <3>3
    <3>5. a <= g[l]
      BY <3>4
    <3> QED
      BY <3>3, <3>4, <3>5
  <2> QED
    BY <2>1, <2>2
<1>10. Starts(h, u, i, a, c)
  <2> HIDE DEF h
  <2> QED
    BY <1>3, <1>7, <1>8, <1>9 DEF Starts
<1> QED
  BY <1>10 DEF Covers, u

\* A payload of len bytes, in two transfers.
Payload(i, len, cut, empty) ==
  Transfer(i, HeaderSize + 1, HeaderSize + cut, empty)
    \o Transfer(i, HeaderSize + cut + 1, HeaderSize + len, empty)

\* What the device sends for a message: a packet with the header, and packets
\* that cover the payload if none of them is empty.
LEMMA MessagePackets ==
  ASSUME NEW i \in Nat, NEW len \in Nat, NEW cut \in 0 .. len, NEW empty \in BOOLEAN
  PROVE  LET new == Transfer(i, 1, HeaderSize, FALSE)
                      \o Transfer(i, HeaderSize + 1, HeaderSize + cut, empty)
                      \o Transfer(i, HeaderSize + cut + 1, HeaderSize + len, empty)
             body == Payload(i, len, cut, empty)
             S == Seq({i} \X Nat)
         IN  /\ new = <<Part(i, 1, HeaderSize)>> \o body
             /\ <<Part(i, 1, HeaderSize)>> \in Seq(S) /\ body \in Seq(S)
             /\ \/ Covers(body, i, HeaderSize + 1, HeaderSize + len)
                \/ \E k \in DOMAIN new : new[k] = <<>>
<1> DEFINE S == Seq({i} \X Nat)
           h == <<Part(i, 1, HeaderSize)>>
           t1 == Transfer(i, HeaderSize + 1, HeaderSize + cut, empty)
           t2 == Transfer(i, HeaderSize + cut + 1, HeaderSize + len, empty)
           body == t1 \o t2
           new == (h \o t1) \o t2
<1>1. Transfer(i, 1, HeaderSize, FALSE) = h
  BY HeaderPacket
<1>2. h \in Seq(S) /\ Len(h) = 1
  <2>1. Part(i, 1, HeaderSize) \in [1 .. 2 -> {i} \X Nat]
    BY DEF Part, HeaderSize
  <2>2. Part(i, 1, HeaderSize) \in S
    BY <2>1, FunctionSeq
  <2> HIDE DEF S
  <2> QED
    BY <2>2
<1>3. /\ t1 \in Seq(S)
      /\ Covers(t1, i, HeaderSize + 1, HeaderSize + cut) \/ \E k \in DOMAIN t1 : t1[k] = <<>>
  <2>1. /\ HeaderSize + 1 \in Nat \ {0} /\ HeaderSize + cut \in Nat
        /\ HeaderSize + 1 <= HeaderSize + cut + 1
    BY DEF HeaderSize
  <2> QED
    BY <2>1, TransferCovers
<1>4. /\ t2 \in Seq(S)
      /\ Covers(t2, i, HeaderSize + cut + 1, HeaderSize + len) \/ \E k \in DOMAIN t2 : t2[k] = <<>>
  <2>1. /\ HeaderSize + cut + 1 \in Nat \ {0} /\ HeaderSize + len \in Nat
        /\ HeaderSize + cut + 1 <= HeaderSize + len + 1
    BY DEF HeaderSize
  <2> QED
    BY <2>1, TransferCovers
<1> HIDE DEF S, t1, t2, h
<1>5. new = h \o body /\ body \in Seq(S) /\ h \o t1 \in Seq(S)
  <2>0. h \in Seq(S) /\ t1 \in Seq(S) /\ t2 \in Seq(S)
    BY <1>2, <1>3, <1>4
  <2>1. new = h \o body
    BY <2>0, ConcatAssociative
  <2>2. body \in Seq(S)
    BY <1>3, <1>4, ConcatProperties
  <2>3. h \o t1 \in Seq(S)
    BY <1>2, <1>3, ConcatProperties
  <2> QED
    BY <2>1, <2>2, <2>3
<1>6. /\ Len(h \o t1) = 1 + Len(t1) /\ Len(new) = 1 + Len(t1) + Len(t2)
      /\ Len(t1) \in Nat /\ Len(t2) \in Nat
      /\ \A k \in 1 .. 1 + Len(t1) : (h \o t1)[k] = IF k <= 1 THEN h[k] ELSE t1[k - 1]
      /\ DOMAIN t1 = 1 .. Len(t1) /\ DOMAIN t2 = 1 .. Len(t2)
  <2>1. /\ Len(h \o t1) = Len(h) + Len(t1)
        /\ \A k \in 1 .. Len(h) + Len(t1) :
             (h \o t1)[k] = IF k <= Len(h) THEN h[k] ELSE t1[k - Len(h)]
    BY <1>2, <1>3, ConcatProperties
  <2>2. Len(new) = Len(h \o t1) + Len(t2)
    BY <1>4, <1>5, ConcatProperties
  <2>3. /\ Len(t1) \in Nat /\ Len(t2) \in Nat
        /\ DOMAIN t1 = 1 .. Len(t1) /\ DOMAIN t2 = 1 .. Len(t2)
    BY <1>3, <1>4, LenProperties
  <2> QED
    BY <1>2, <2>1, <2>2, <2>3
<1>7. /\ DOMAIN new = 1 .. Len(new)
      /\ \A k \in 1 .. Len(h \o t1) + Len(t2) :
           new[k] = IF k <= Len(h \o t1) THEN (h \o t1)[k] ELSE t2[k - Len(h \o t1)]
  BY <1>4, <1>5, ConcatProperties, LenProperties
<1>8. ASSUME NEW k \in DOMAIN t1, t1[k] = <<>>
      PROVE  \E l \in DOMAIN new : new[l] = <<>>
  <2>1. k + 1 \in 1 .. 1 + Len(t1) /\ k + 1 \in DOMAIN new /\ ~ (k + 1 <= 1) /\ k + 1 - 1 = k
    BY <1>6, <1>7
  <2>2. new[k + 1] = (h \o t1)[k + 1] /\ (h \o t1)[k + 1] = t1[k]
    BY <1>6, <1>7, <2>1
  <2> QED
    BY <1>8, <2>1, <2>2
<1>9. ASSUME NEW k \in DOMAIN t2, t2[k] = <<>>
      PROVE  \E l \in DOMAIN new : new[l] = <<>>
  <2> DEFINE l == 1 + Len(t1) + k
  <2>1. l \in DOMAIN new /\ ~ (l <= 1 + Len(t1)) /\ l - (1 + Len(t1)) = k
    BY <1>6, <1>7
  <2>2. new[l] = t2[k]
    BY <1>6, <1>7, <2>1
  <2> QED
    BY <1>9, <2>1, <2>2
<1>10. ASSUME Covers(t1, i, HeaderSize + 1, HeaderSize + cut),
              Covers(t2, i, HeaderSize + cut + 1, HeaderSize + len)
       PROVE  Covers(body, i, HeaderSize + 1, HeaderSize + len)
  <2> DEFINE a == HeaderSize + 1
             b == HeaderSize + cut
             c == HeaderSize + len
  <2>1. a \in Nat /\ b \in Nat /\ c \in Nat /\ a <= b + 1 /\ b <= c
    BY DEF HeaderSize
  <2>2. Covers(t1, i, a, b) /\ Covers(t2, i, b + 1, c)
    BY <1>10
  <2> HIDE DEF a, b, c
  <2>3. Covers(t1 \o t2, i, a, c)
    BY <1>3, <1>4, <2>1, <2>2, CoversCat
  <2> QED
    BY <2>3 DEF a, b, c
<1>11. Covers(body, i, HeaderSize + 1, HeaderSize + len) \/ \E k \in DOMAIN new : new[k] = <<>>
  BY <1>3, <1>4, <1>8, <1>9, <1>10
<1> QED
  BY <1>1, <1>2, <1>5, <1>11 DEF Payload, S, t1, t2, h

-----------------------------------------------------------------------------
(***************************************************************************)
(* Steps: the bus                                                          *)
(***************************************************************************)

\* Messages that have been sent stay as they are.
Grown ==
  /\ Len(sent) \in Nat /\ Len(sent') \in Nat /\ Len(sent) <= Len(sent')
  /\ \A i \in 1 .. Len(sent) : sent'[i] = sent[i]

\* Bytes of the messages sent so far are bytes of those sent later.
LEMMA NamedGrows ==
  ASSUME Grown
  PROVE  /\ Seq(Named) \subseteq Seq(Named') /\ Seq(Seq(Named)) \subseteq Seq(Seq(Named'))
         /\ Named \subseteq Named'
<1>1. Named \subseteq Named'
  BY DEF Grown, Named
<1> HIDE DEF Named
<1>2. Seq(Named) \subseteq Seq(Named')
  BY <1>1, SeqMonotonic
<1>3. Seq(Seq(Named)) \subseteq Seq(Seq(Named'))
  BY <1>2, SeqMonotonic
<1> QED
  BY <1>1, <1>2, <1>3

\* The device's step: one message more, and its packets on the bus.
LEMMA DeviceSendsBus ==
  ASSUME BusInv, DeviceSends
  PROVE  BusInv' /\ Grown
<1> DEFINE New(m, empty, cut) ==
             LET i == Len(sent) + 1
             IN  Transfer(i, 1, HeaderSize, FALSE)
                   \o Transfer(i, HeaderSize + 1, HeaderSize + cut, empty)
                   \o Transfer(i, HeaderSize + cut + 1, HeaderSize + Len(m.data), empty)
           Sends(m, empty, cut) ==
             /\ sent' = Append(sent, m) /\ wire' = wire \o New(m, empty, cut)
             /\ zero' = (zero \/ <<>> \in {New(m, empty, cut)[k] : k \in DOMAIN New(m, empty, cut)})
<1>0. PICK m \in Messages, empty \in BOOLEAN :
        \E cut \in Cuts \cap 0 .. Len(m.data) : Sends(m, empty, cut)
  BY DEF DeviceSends
<1>1. PICK cut \in Cuts \cap 0 .. Len(m.data) : Sends(m, empty, cut)
  BY <1>0
<1>2. /\ Len(sent) < MaxSent /\ Len(sent) \in Nat /\ MaxSent \in Nat
      /\ sent' \in Seq(Messages) /\ Len(sent') = Len(sent) + 1
      /\ \A j \in 1 .. Len(sent) : sent'[j] = sent[j]
  BY <1>1, BoundsAssumption, AppendProperties, LenProperties DEF BusInv, DeviceSends
<1>3. Grown
  BY <1>2 DEF Grown
<1> DEFINE i == Len(sent) + 1
           len == Len(m.data)
           new == Transfer(i, 1, HeaderSize, FALSE)
                    \o Transfer(i, HeaderSize + 1, HeaderSize + cut, empty)
                    \o Transfer(i, HeaderSize + cut + 1, HeaderSize + len, empty)
           h == <<Part(i, 1, HeaderSize)>>
           body == Payload(i, len, cut, empty)
<1>4. i \in Nat /\ len \in Nat /\ cut \in 0 .. len
  <2>1. m.data \in Seq(Nat)
    BY MessagesAssumption
  <2>2. len \in Nat
    BY <2>1, LenProperties
  <2> QED
    BY <1>2, <2>2
<1>5. wire' = wire \o new /\ zero' = (zero \/ <<>> \in {new[k] : k \in DOMAIN new})
  BY <1>1
<1> HIDE DEF i, len
<1>6. new = h \o body /\ h \in Seq(Seq({i} \X Nat)) /\ body \in Seq(Seq({i} \X Nat))
  BY <1>4, MessagePackets
<1>7. {i} \X Nat \subseteq Named'
  BY <1>2 DEF i, Named
<1> HIDE DEF new, h, body
<1>8. new \in Seq(Seq({i} \X Nat))
  BY <1>6, ConcatProperties
<1>9. new \in Seq(Seq(Named'))
  <2>1. Seq({i} \X Nat) \subseteq Seq(Named')
    BY <1>7, SeqMonotonic
  <2>2. Seq(Seq({i} \X Nat)) \subseteq Seq(Seq(Named'))
    BY <2>1, SeqMonotonic
  <2> QED
    BY <1>8, <2>2
<1>10. wire \in Seq(Seq(Named')) /\ got \in Seq(Named')
  BY <1>3, NamedGrows DEF BusInv
<1>11. wire' \in Seq(Seq(Named'))
  BY <1>5, <1>9, <1>10, ConcatProperties
<1>12. zero' \in BOOLEAN
  BY <1>5 DEF BusInv
<1>13. UNCHANGED <<got, connected, established, same>>
  BY DEF DeviceSends, reader
<1> QED
  BY <1>2, <1>3, <1>10, <1>11, <1>12, <1>13 DEF BusInv

\* The packets a transfer takes, and what is left.
LEMMA TransferTaken ==
  ASSUME NEW S, NEW w \in Seq(Seq(S)), NEW k \in DOMAIN w
  PROVE  /\ k \in 1 .. Len(w)
         /\ SubSeq(w, 1, k) \in Seq(Seq(S)) /\ FlattenSeq(SubSeq(w, 1, k)) \in Seq(S)
         /\ SubSeq(w, k + 1, Len(w)) \in Seq(Seq(S))
         /\ Len(SubSeq(w, k + 1, Len(w))) = Len(w) - k
         /\ \A j \in 1 .. Len(w) - k : SubSeq(w, k + 1, Len(w))[j] = w[j + k]
<1>1. k \in 1 .. Len(w) /\ Len(w) \in Nat /\ \A j \in 1 .. Len(w) : w[j] \in Seq(S)
  BY LenProperties, ElementOfSeq
<1>2. SubSeq(w, 1, k) \in Seq(Seq(S))
  <2> DEFINE T == Seq(S)
  <2>1. \A j \in 1 .. k : w[j] \in T
    BY <1>1
  <2> HIDE DEF T
  <2>2. SubSeq(w, 1, k) \in Seq(T)
    BY <1>1, <2>1, SubSeqProperties
  <2> QED
    BY <2>2 DEF T
<1>3. FlattenSeq(SubSeq(w, 1, k)) \in Seq(S)
  BY <1>2, FlattenType
<1>4. /\ SubSeq(w, k + 1, Len(w)) \in Seq(Seq(S))
      /\ Len(SubSeq(w, k + 1, Len(w))) = Len(w) - k
      /\ \A j \in 1 .. Len(w) - k : SubSeq(w, k + 1, Len(w))[j] = w[j + k]
  <2> DEFINE T == Seq(S)
             m == k + 1
             n == Len(w)
  <2>1. m \in Int /\ n \in Int /\ \A j \in m .. n : w[j] \in T
    BY <1>1
  <2> HIDE DEF T, m, n
  <2>2. /\ SubSeq(w, m, n) \in Seq(T)
        /\ Len(SubSeq(w, m, n)) = IF m <= n THEN n - m + 1 ELSE 0
        /\ \A j \in 1 .. n - m + 1 : SubSeq(w, m, n)[j] = w[m + j - 1]
    BY <2>1, SubSeqProperties
  <2>3. n - m + 1 = Len(w) - k /\ (IF m <= n THEN n - m + 1 ELSE 0) = Len(w) - k
        /\ \A j \in 1 .. Len(w) - k : m + j - 1 = j + k
    BY <1>1 DEF m, n
  <2> QED
    BY <2>2, <2>3 DEF T, m, n
<1> QED
  BY <1>1, <1>2, <1>3, <1>4

\* A turn of usb_read takes bytes of sent messages off the bus.
LEMMA ReadBus ==
  ASSUME BusInv, usb_read
  PROVE  /\ BusInv'
         /\ UNCHANGED <<sent, connected, zero, established, same, list, stored, dump>>
         /\ UNCHANGED <<output, p, handled, live>> \/ ReadFails
<1>1. UNCHANGED <<sent, connected, zero, established, same, list, stored, dump>>
  BY DEF usb_read, ReadFrame
<1>2. Named' = Named
  BY <1>1 DEF Named
<1>3. CASE ReadFails
  <2>1. wire' = wire /\ got' = <<>>
    BY <1>3 DEF ReadFails
  <2>2. got' \in Seq(Named')
    BY <2>1, EmptySeq
  <2> QED
    BY <1>1, <1>2, <1>3, <2>1, <2>2 DEF BusInv
<1>4. ASSUME NEW k \in bulk_read(Wanted - Len(got)),
             got' = Joined(Bytes(k)), wire' = SubSeq(wire, k + 1, Len(wire)),
             UNCHANGED <<output, p, handled, live>>
      PROVE  BusInv'
  <2>1. k \in DOMAIN wire
    BY DEF bulk_read
  <2>2. wire \in Seq(Seq(Named)) /\ got \in Seq(Named)
    BY DEF BusInv
  <2>3. Bytes(k) \in Seq(Named) /\ wire' \in Seq(Seq(Named))
    <3> HIDE DEF Named
    <3> QED
      BY <1>4, <2>1, <2>2, TransferTaken DEF Bytes
  <2>4. got' \in Seq(Named)
    <3> HIDE DEF Named
    <3> QED
      BY <1>4, <2>2, <2>3, ConcatProperties DEF Joined
  <2> QED
    BY <1>1, <1>2, <2>3, <2>4 DEF BusInv
<1> QED
  BY <1>1, <1>3, <1>4 DEF usb_read

-----------------------------------------------------------------------------
(***************************************************************************)
(* Steps: the output thread                                                *)
(***************************************************************************)

\* A step keeps what the invariant says of the reader, and a packet that was
\* handled and not held stays so.
BelowNext(k) == k <= Len(handled') /\ (p' # NULL => k < p')
ReaderKept == ReaderInv' /\ Grown /\ \A k \in Nat : Below(k) => BelowNext(k)

\* It does if it leaves the reader alone.
LEMMA ReaderUnchanged ==
  ASSUME ReaderInv, Grown, UNCHANGED <<output, p, handled>>
  PROVE  ReaderKept
<1>1. Len(handled) \in Nat /\ \A i \in 1 .. Len(sent) : sent'[i] = sent[i]
  BY LenProperties DEF ReaderInv, Grown
<1>2. output = "data" => p \in 1 .. Len(sent)
  BY <1>1 DEF ReaderInv, Grown
<1>3. output \in {"clear", "store"} \/ (output = "ready" /\ p # NULL) => p \in 1 .. Len(sent)
  BY <1>1 DEF ReaderInv, Grown, NULL
<1>4. ReaderInv'
  BY <1>1, <1>2, <1>3 DEF ReaderInv, Grown
<1>5. \A k \in Nat : Below(k) => BelowNext(k)
  BY DEF Below, BelowNext
<1> QED
  BY <1>4, <1>5 DEF ReaderKept

\* Nothing is sent.
LEMMA NothingSent ==
  ASSUME BusInv, UNCHANGED sent
  PROVE  Grown
BY LenProperties DEF BusInv, Grown

\* A failing read gives the packet back.
LEMMA ReadFailsReader ==
  ASSUME BusInv, ReaderInv, ReadFails, UNCHANGED sent
  PROVE  ReaderKept
<1>1. output' = "exit" /\ p' = NULL /\ handled' = handled
  BY DEF ReadFails
<1>2. ReaderInv'
  BY <1>1 DEF ReaderInv, NULL
<1>3. \A k \in Nat : Below(k) => BelowNext(k)
  BY <1>1 DEF Below, BelowNext
<1> QED
  BY <1>2, <1>3, NothingSent DEF ReaderKept

\* A whole part has been read: the header is checked, or the payload, and the
\* packet is handed on.
LEMMA RemoteReadReader ==
  ASSUME BusInv, ReaderInv, remote_read
  PROVE  BusInv' /\ ReaderKept
<1>1. /\ UNCHANGED <<sent, connected, zero, established, same, wire>>
      /\ got' = <<>>
  BY DEF remote_read, ReadFrame, ReadFails
<1>2. Named' = Named
  BY <1>1 DEF Named
<1>3. BusInv'
  <2>1. got' \in Seq(Named')
    BY <1>1, EmptySeq
  <2> QED
    BY <1>1, <1>2, <2>1 DEF BusInv
<1>4. CASE ReadFails
  BY <1>1, <1>3, <1>4, ReadFailsReader
<1>5. CASE /\ output = "header" /\ check_header(p)
           /\ output' = "data" /\ UNCHANGED <<p, handled>>
  <2>1. p \in 1 .. Len(sent)
    <3>1. got = [j \in 1 .. (HeaderSize - 1 + 1) |-> <<p, 1 - 1 + j>>]
      BY <1>5 DEF check_header, Part
    <3>2. 1 \in DOMAIN got /\ got[1] = <<p, 1 - 1 + 1>>
      BY <3>1 DEF HeaderSize
    <3>3. got[1] \in Named
      <4>1. got \in Seq(Named) /\ 1 \in 1 .. Len(got)
        BY <3>2, LenProperties DEF BusInv
      <4> HIDE DEF Named
      <4> QED
        BY <4>1, ElementOfSeq
    <3> QED
      BY <3>2, <3>3 DEF Named
  <2>2. sent[p].flaw \notin {"magic", "long"}
    <3>1. sent[p].flaw # "magic" /\ DataLength(sent[p]) <= MaxPayload
      BY <1>5 DEF check_header
    <3>2. sent[p].flaw = "long" => DataLength(sent[p]) = MaxPayload + 1
      BY DEF DataLength
    <3>3. MaxPayload \in Nat
      BY SizesAssumption
    <3> QED
      BY <3>1, <3>2, <3>3
  <2>3. ReaderInv'
    BY <1>1, <1>5, <2>1, <2>2 DEF ReaderInv
  <2>4. \A k \in Nat : Below(k) => BelowNext(k)
    BY <1>5 DEF Below, BelowNext
  <2> QED
    BY <1>1, <1>3, <2>3, <2>4, NothingSent DEF ReaderKept
<1>6. CASE /\ output = "data" /\ check_data(p)
           /\ output' = "handle" /\ handled' = Append(handled, p) /\ UNCHANGED p
  <2>1. /\ Len(handled) \in Nat /\ p = Len(handled) + 1 /\ p <= Len(sent)
        /\ handled' \in Seq(Nat) /\ Len(handled') = p /\ handled'[p] = p
        /\ \A i \in 1 .. Len(handled) : handled'[i] = i
    BY <1>6, AppendProperties, LenProperties DEF ReaderInv
  <2>2. \A i \in 1 .. Len(handled') : handled'[i] = i
    BY <2>1
  <2>3. ReaderInv'
    BY <1>1, <1>6, <2>1, <2>2 DEF ReaderInv
  <2>4. \A k \in Nat : Below(k) => BelowNext(k)
    BY <1>6, <2>1 DEF Below, BelowNext
  <2> QED
    BY <1>1, <1>3, <2>3, <2>4, NothingSent DEF ReaderKept
<1> QED
  BY <1>4, <1>5, <1>6 DEF remote_read

\* The thread goes to place and holds the packet still, or a new one.
LEMMA Moves ==
  ASSUME BusInv, ReaderInv, UNCHANGED <<sent, handled>>,
         \/ /\ output' = "header" /\ p' = NewPacket
         \/ /\ output' \in {"clear", "store"} /\ UNCHANGED p
            /\ output \in {"handle", "clear"}
            /\ sent[p].mine /\ sent[p].cmd \in {"OKAY", "CLSE", "WRTE"}
         \/ /\ output' = "ready" /\ p' \in {p, NULL}
            /\ output \in {"handle", "store"}
            /\ sent[p].cmd = "WRTE"
  PROVE  ReaderKept
<1>1. Len(handled) \in Nat /\ p \in Nat
  BY LenProperties DEF ReaderInv
<1>2. ReaderInv'
  BY <1>1 DEF ReaderInv, NewPacket, NULL
<1>3. \A k \in Nat : Below(k) => BelowNext(k)
  BY <1>1 DEF Below, BelowNext, NewPacket, NULL
<1> QED
  BY <1>2, <1>3, NothingSent DEF ReaderKept

\* handle_packet decides where the packet goes.
LEMMA HandlePacketReader ==
  ASSUME BusInv, ReaderInv, handle_packet
  PROVE  /\ BusInv' /\ ReaderKept
         /\ UNCHANGED <<list, stored, dump, sent, handled>>
         /\ \/ Message.cmd = "SYNC" /\ NextPacket({})
            \/ NextPacket({p}) /\ Message.cmd # "SYNC"
            \/ UNCHANGED <<p, live>>
<1>1. /\ output = "handle" /\ UNCHANGED <<sent, wire, connected, zero, got, handled, same>>
      /\ UNCHANGED <<list, stored, dump, sent, handled>>
  BY DEF handle_packet, HandleFrame, bus
<1>2. established' \in BOOLEAN
  BY DEF handle_packet, BusInv
<1>3. BusInv'
  BY <1>1, <1>2 DEF BusInv, Named
<1>4. CASE Message.cmd = "SYNC" /\ NextPacket({})
  BY <1>1, <1>3, <1>4, Moves DEF NextPacket
<1>5. CASE Message.cmd = "OKAY" /\ Message.mine /\ Goes("clear")
  BY <1>1, <1>3, <1>5, Moves DEF Goes, Message
<1>6. CASE Message.mine /\ Kept /\ Goes("store")
  <2>1. sent[p].cmd \in {"OKAY", "CLSE", "WRTE"}
    BY <1>6 DEF Kept, Message
  <2> QED
    BY <1>1, <1>3, <1>6, <2>1, Moves DEF Goes, Message
<1>7. CASE Message.cmd = "WRTE" /\ Goes("ready")
  BY <1>1, <1>3, <1>7, Moves DEF Goes, Message
<1>8. CASE Message.cmd # "SYNC" /\ NextPacket({p})
  BY <1>1, <1>3, <1>8, Moves DEF NextPacket
<1> QED
  BY <1>1, <1>4, <1>5, <1>6, <1>7, <1>8 DEF handle_packet

-----------------------------------------------------------------------------
(***************************************************************************)
(* Steps: the list                                                         *)
(***************************************************************************)

\* The list holds what was stored and not taken, and no more packets than
\* there are messages.
LEMMA QueueFacts ==
  ASSUME BusInv, ReaderInv, ListInv
  PROVE  /\ Len(stored) \in Nat /\ Len(taken) \in Nat /\ Len(handled) \in Nat
         /\ Len(taken) <= Len(stored) /\ Len(stored) <= Len(handled) /\ Len(handled) <= MaxSent
         /\ Queue \in Seq(Packets) /\ Len(Queue) = Len(stored) - Len(taken)
         /\ \A i \in 1 .. Len(Queue) : Queue[i] = stored[Len(taken) + i]
         /\ Queue = <<>> <=> Len(Queue) = 0
         /\ Chain = Queue
<1>1. /\ Len(stored) \in Nat /\ Len(taken) \in Nat /\ Len(handled) \in Nat
      /\ Len(taken) <= Len(stored) /\ Len(stored) <= Len(handled)
      /\ Len(handled) <= MaxSent /\ MaxSent \in Nat
  BY BoundsAssumption, LenProperties DEF BusInv, ReaderInv, ListInv, Below, BelowNext
<1> DEFINE m == Len(taken) + 1
           n == Len(stored)
<1>2. m \in Int /\ n \in Int /\ \A i \in m .. n : stored[i] \in Packets
  BY <1>1, ElementOfSeq DEF ListInv
<1>3. n - m + 1 = Len(stored) - Len(taken) /\ (IF m <= n THEN n - m + 1 ELSE 0) = Len(stored) - Len(taken)
      /\ \A i \in 1 .. n - m + 1 : m + i - 1 = Len(taken) + i
  BY <1>1
<1>4. Queue = SubSeq(stored, m, n)
  BY DEF Queue
<1> HIDE DEF m, n
<1>5. /\ Queue \in Seq(Packets) /\ Len(Queue) = Len(stored) - Len(taken)
      /\ \A i \in 1 .. Len(Queue) : Queue[i] = stored[Len(taken) + i]
  BY <1>2, <1>3, <1>4, SubSeqProperties, SMTT(30)
<1>6. Queue = <<>> <=> Len(Queue) = 0
  BY <1>5, EmptySeq
<1>7. Len(Queue) <= MaxSent
  BY <1>1, <1>5
<1>8. Chain = Queue
  BY <1>5, <1>7, ChainLinked DEF ListInv
<1> QED
  BY <1>1, <1>5, <1>6, <1>8

\* What is linked, without the name of the queue.
LEMMA QueueIs ==
  ASSUME ListInv, NEW s \in Seq(Packets), Len(s) = Len(stored') - Len(taken'),
         stored' \in Seq(Packets), taken' \in Seq(Packets), Len(taken') <= Len(stored'),
         \A i \in 1 .. Len(s) : s[i] = stored'[Len(taken') + i]
  PROVE  Queue' = s
<1>1. Len(stored') \in Nat /\ Len(taken') \in Nat
  BY LenProperties
<1> DEFINE m == Len(taken') + 1
           n == Len(stored')
<1>2. m \in Int /\ n \in Int /\ \A i \in m .. n : stored'[i] \in Packets
  BY <1>1, ElementOfSeq
<1>3. n - m + 1 = Len(s) /\ (IF m <= n THEN n - m + 1 ELSE 0) = Len(s)
      /\ \A i \in 1 .. n - m + 1 : m + i - 1 = Len(taken') + i
  BY <1>1
<1>4. Queue' = SubSeq(stored', m, n)
  BY DEF Queue
<1> HIDE DEF m, n
<1>5. /\ Queue' \in Seq(Packets) /\ Len(Queue') = IF m <= n THEN n - m + 1 ELSE 0
      /\ \A i \in 1 .. n - m + 1 : Queue'[i] = stored'[m + i - 1]
  BY <1>2, <1>4, SubSeqProperties
<1>6. Len(Queue') = Len(s) /\ \A i \in 1 .. Len(s) : Queue'[i] = s[i]
  BY <1>3, <1>5
<1> QED
  BY <1>5, <1>6, SeqEqual

\* A step that leaves the list alone.
LEMMA ListUnchanged ==
  ASSUME BusInv, ReaderInv, ListInv, ReaderKept, UNCHANGED <<list, stored, taken>>
  PROVE  ListInv'
<1>1. UNCHANGED <<next, received, last, stored, taken, Queue>>
  BY DEF list, Queue
<1>2. \A i \in 1 .. Len(stored) : stored[i] \in 1 .. Len(sent)
  <2>1. \A i \in 1 .. Len(stored) : stored[i] \in Nat /\ stored[i] > 0
    <3>1. \A i \in 1 .. Len(stored) : stored[i] \in Packets
      BY ElementOfSeq DEF ListInv
    <3> QED
      BY <3>1 DEF Packets
  <2> QED
    BY <2>1, QueueFacts, LenProperties, SMTT(30) DEF ListInv, Below, BelowNext, ReaderInv, BusInv
<1>3. \A i \in 1 .. Len(stored) : sent'[stored[i]] = sent[stored[i]]
  BY <1>2 DEF ReaderKept, Grown
<1>4. BelowNext(Len(stored)) /\ \A i \in 1 .. Len(stored) : BelowNext(stored[i])
  <2>1. \A k \in Nat : Below(k) => BelowNext(k)
    BY DEF ReaderKept
  <2>2. Len(stored) \in Nat /\ \A i \in 1 .. Len(stored) : stored[i] \in Nat
    BY <1>2, QueueFacts
  <2> QED
    BY <1>1, <2>1, <2>2 DEF ListInv, Below, BelowNext
<1>5. Links(next', received', last', Queue')
  BY <1>1 DEF Links, ListInv
<1> QED
  BY <1>1, <1>3, <1>4, <1>5 DEF ListInv, Below, BelowNext

\* The list is emptied; only what was taken is left of what was stored.
LEMMA ClearList ==
  ASSUME BusInv, ReaderInv, ListInv, clear_received_packet
  PROVE  /\ BusInv' /\ ReaderKept /\ ListInv'
         /\ stored' = SubSeq(stored, 1, Len(taken)) /\ live' = live \ Range(Queue)
         /\ Len(stored') = Len(taken) /\ \A i \in 1 .. Len(taken) : stored'[i] = stored[i]
         /\ UNCHANGED <<sent, handled, p, dump>>
<1>1. /\ output = "clear" /\ output' = "store" /\ received' = NULL /\ last' = NULL
      /\ UNCHANGED <<sent, wire, connected, zero, got, handled, same, p, established, next,
                     dump, taken>>
      /\ live' = live \ Range(Chain) /\ stored' = SubSeq(stored, 1, Len(stored) - Len(Chain))
  BY DEF clear_received_packet, HandleFrame, bus, dump
<1>2. BusInv'
  BY <1>1 DEF BusInv, Named
<1>3. ReaderKept
  BY <1>1, Moves DEF ReaderInv
<1>4. /\ Len(stored) \in Nat /\ Len(taken) \in Nat /\ Len(taken) <= Len(stored)
      /\ Len(Queue) = Len(stored) - Len(taken) /\ Chain = Queue
  BY QueueFacts
<1>5. stored' = SubSeq(stored, 1, Len(taken)) /\ live' = live \ Range(Queue)
  BY <1>1, <1>4
<1>6. \A i \in 1 .. Len(taken) : i \in 1 .. Len(stored) /\ stored[i] \in Packets
  BY <1>4, ElementOfSeq DEF ListInv
<1>7. /\ stored' \in Seq(Packets) /\ Len(stored') = Len(taken)
      /\ \A i \in 1 .. Len(taken) : stored'[i] = stored[i]
  <2>1. 1 \in Int /\ Len(taken) \in Int /\ \A i \in 1 .. Len(taken) : stored[i] \in Packets
    BY <1>4, <1>6
  <2>2. /\ stored' \in Seq(Packets)
        /\ Len(stored') = IF 1 <= Len(taken) THEN Len(taken) - 1 + 1 ELSE 0
        /\ \A i \in 1 .. Len(taken) - 1 + 1 : stored'[i] = stored[1 + i - 1]
    BY <1>5, <2>1, SubSeqProperties
  <2> QED
    BY <1>4, <2>2
<1>8. Queue' = <<>>
  BY <1>1, <1>4, <1>7, SubSeqEmpty DEF Queue
<1>9. Links(next', received', last', Queue')
  <2>1. \A n \in 1 .. Len(<<>>) : FALSE
    OBVIOUS
  <2> QED
    BY <1>1, <1>8, <2>1 DEF Links
<1>10. BelowNext(Len(stored')) /\ \A i \in 1 .. Len(stored') : BelowNext(stored'[i])
  <2>1. Len(taken) <= Len(handled) /\ (p # NULL => Len(taken) < p)
    BY <1>4, QueueFacts DEF ListInv, Below, BelowNext, ReaderInv
  <2>2. \A i \in 1 .. Len(taken) : Below(stored[i])
    BY <1>6 DEF ListInv
  <2> QED
    BY <1>1, <1>7, <2>1, <2>2 DEF Below, BelowNext
<1>11. ListInv'
  <2>1. \A i \in 1 .. Len(stored') :
          sent'[stored'[i]].mine /\ sent'[stored'[i]].cmd \in {"OKAY", "CLSE", "WRTE"}
    BY <1>1, <1>6, <1>7 DEF ListInv
  <2>2. \A i, j \in 1 .. Len(stored') : i < j => stored'[i] < stored'[j]
    BY <1>6, <1>7 DEF ListInv
  <2>3. \A i \in 1 .. Len(taken') : taken'[i] = stored'[i]
    BY <1>1, <1>7 DEF ListInv
  <2>4. Len(taken') <= Len(stored')
    BY <1>1, <1>4, <1>7
  <2>5. taken' \in Seq(Packets) /\ next' \in [Packets -> Packets \cup {NULL}]
    BY <1>1 DEF ListInv
  <2> QED
    BY <1>7, <1>9, <1>10, <2>1, <2>2, <2>3, <2>4, <2>5 DEF ListInv, Below, BelowNext
<1> QED
  BY <1>1, <1>2, <1>3, <1>5, <1>7, <1>11

\* The packet is appended behind the last one.
LEMMA StoreList ==
  ASSUME BusInv, ReaderInv, ListInv, store_received_packet
  PROVE  /\ BusInv' /\ ReaderKept /\ ListInv'
         /\ stored' = Append(stored, p) /\ p \in Packets
         /\ UNCHANGED <<sent, handled, dump>>
         /\ (p' = NULL /\ UNCHANGED live) \/ NextPacket({})
<1>1. /\ output = "store" /\ last' = p /\ stored' = Append(stored, p)
      /\ \/ received = NULL /\ received' = p /\ next' = [next EXCEPT ![p] = NULL]
         \/ received # NULL /\ received' = received
              /\ next' = [next EXCEPT ![last] = p, ![p] = NULL]
      /\ UNCHANGED <<sent, wire, connected, zero, got, handled, same, established, dump, taken>>
  BY DEF store_received_packet, HandleFrame, bus, dump, NewLast
<1>2. \/ sent[p].cmd = "WRTE" /\ output' = "ready" /\ p' = NULL /\ UNCHANGED live
      \/ NextPacket({})
  BY DEF store_received_packet, Message, AfterStore
<1>3. BusInv'
  BY <1>1 DEF BusInv, Named
<1>4. ReaderKept
  BY <1>1, <1>2, Moves DEF NextPacket
<1>5. /\ p = Len(handled) /\ p > 0 /\ Len(handled) \in Nat /\ p \in Packets
      /\ sent[p].mine /\ sent[p].cmd \in {"OKAY", "CLSE", "WRTE"}
  BY <1>1, QueueFacts, BoundsAssumption DEF ReaderInv, Packets
<1>6. /\ Len(stored) \in Nat /\ Len(taken) \in Nat /\ Len(taken) <= Len(stored)
      /\ Queue \in Seq(Packets) /\ Len(Queue) = Len(stored) - Len(taken)
      /\ \A i \in 1 .. Len(Queue) : Queue[i] = stored[Len(taken) + i]
      /\ (Queue = <<>> <=> Len(Queue) = 0)
  BY QueueFacts
<1>7. /\ stored' \in Seq(Packets) /\ Len(stored') = Len(stored) + 1
      /\ stored'[Len(stored) + 1] = p
      /\ \A i \in 1 .. Len(stored) : stored'[i] = stored[i]
  BY <1>1, <1>5, AppendProperties DEF ListInv
<1> DEFINE s == Append(Queue, p)
           l == Len(Queue)
<1>8. /\ s \in Seq(Packets) /\ s # <<>> /\ Len(s) = l + 1
      /\ s[l + 1] = p /\ \A i \in 1 .. l : s[i] = Queue[i]
  <2>1. Queue \in Seq(Packets) /\ p \in Packets
    BY <1>5, <1>6
  <2> QED
    BY <2>1, AppendProperties
<1>q. /\ l \in Nat /\ l = Len(stored) - Len(taken) /\ (Queue = <<>> <=> l = 0)
       /\ Queue \in Seq(Packets) /\ Len(Queue) = l
       /\ \A i \in 1 .. l : Queue[i] = stored[Len(taken) + i] /\ Len(taken) + i \in 1 .. Len(stored)
  BY <1>6
<1> HIDE DEF s, l
<1>9. Queue' = s
  <2>1. \A i \in 1 .. Len(s) : s[i] = stored'[Len(taken) + i]
    <3> SUFFICES ASSUME NEW i \in 1 .. Len(s)
                 PROVE  s[i] = stored'[Len(taken) + i]
      OBVIOUS
    <3>1. CASE i = l + 1
      BY <1>6, <1>q, <1>7, <1>8, <3>1
    <3>2. CASE i # l + 1
      <4>1. i \in 1 .. l
        <5>1. l \in Nat /\ Len(s) = l + 1
          BY <1>8, <1>q
        <5> QED
          BY <3>2, <5>1
      <4>2. Queue[i] = stored[Len(taken) + i] /\ Len(taken) + i \in 1 .. Len(stored)
        BY <1>q, <4>1
      <4> QED
        BY <1>7, <1>8, <4>1, <4>2
    <3> QED
      BY <3>1, <3>2
  <2>2. Len(s) = Len(stored') - Len(taken') /\ Len(taken') <= Len(stored')
        /\ taken' \in Seq(Packets) /\ taken' = taken
    BY <1>1, <1>6, <1>q, <1>7, <1>8 DEF ListInv
  <2> QED
    BY <1>7, <1>8, <2>1, <2>2, QueueIs
<1>10. ASSUME NEW i \in 1 .. l
       PROVE  /\ Queue[i] \in Packets /\ Queue[i] # p
              /\ \A j \in 1 .. l : Queue[i] = Queue[j] => i = j
  <2>1. \A j \in 1 .. l : Len(taken) + j \in 1 .. Len(stored)
    BY <1>6, <1>q
  <2>2. \A j \in 1 .. l : Queue[j] \in Packets /\ Below(Queue[j])
    BY <1>6, <1>q, <2>1, ElementOfSeq DEF ListInv
  <2>3. Queue[i] # p
    BY <1>5, <2>2 DEF Below, BelowNext, Packets, NULL
  <2>4. \A j \in 1 .. l : Queue[i] = Queue[j] => i = j
    <3> SUFFICES ASSUME NEW j \in 1 .. l, Queue[i] = Queue[j], i # j PROVE FALSE
      OBVIOUS
    <3> DEFINE a == Len(taken) + i
               b == Len(taken) + j
    <3>0. /\ a \in 1 .. Len(stored) /\ b \in 1 .. Len(stored) /\ (a < b \/ b < a)
          /\ Queue[i] = stored[a] /\ Queue[j] = stored[b]
      BY <1>6, <1>q
    <3> HIDE DEF a, b
    <3>1. Queue[i] < Queue[j] \/ Queue[j] < Queue[i]
      BY <3>0 DEF ListInv
    <3> QED
      BY <2>2, <3>1 DEF Packets
  <2> QED
    BY <2>2, <2>3, <2>4
<1>11. Links(next', received', last', s)
  <2>1. l \in Nat
    BY <1>6, <1>q
  <2>2. \A x \in Packets : next'[x] =
          IF x = p THEN NULL ELSE IF received # NULL /\ x = last THEN p ELSE next[x]
    BY <1>1 DEF ListInv
  <2>3. CASE l = 0
    <3>1. received = NULL /\ received' = p
      BY <1>1, <1>6, <1>q, <2>3 DEF ListInv, Links
    <3>2. next'[p] = NULL
      BY <1>5, <2>2
    <3> QED
      BY <1>1, <1>5, <1>8, <2>3, <3>1, <3>2 DEF Links
  <2>4. CASE l # 0
    <3>1. l \in 1 .. l /\ 1 \in 1 .. l
      BY <2>1, <2>4
    <3>2. /\ received = Queue[1] /\ last = Queue[l] /\ received # NULL
          /\ \A n \in 1 .. l : next[Queue[n]] = IF n < l THEN Queue[n + 1] ELSE NULL
      BY <1>6, <1>q, <1>10, <2>4, <3>1 DEF ListInv, Links, Packets, NULL
    <3>3. received' = s[1] /\ last' = s[l + 1]
      BY <1>1, <1>8, <3>1, <3>2
    <3>4. ASSUME NEW n \in 1 .. l + 1
          PROVE  next'[s[n]] = IF n < l + 1 THEN s[n + 1] ELSE NULL
      <4>1. CASE n = l + 1
        BY <1>5, <1>8, <2>1, <2>2, <4>1
      <4>2. CASE n = l
        <5>1. s[n] = Queue[l] /\ s[n + 1] = p /\ Queue[l] \in Packets /\ Queue[l] # p
          BY <1>8, <1>10, <3>1, <4>2
        <5> QED
          BY <2>1, <2>2, <3>2, <4>2, <5>1
      <4>3. CASE n < l
        <5>1. n \in 1 .. l /\ n + 1 \in 1 .. l /\ n < l + 1 /\ n # l
          BY <2>1, <4>3
        <5>2. Queue[n] \in Packets /\ Queue[n] # p /\ Queue[n] # Queue[l]
          BY <1>10, <3>1, <5>1
        <5>3. next'[Queue[n]] = Queue[n + 1]
          BY <2>2, <3>2, <4>3, <5>1, <5>2
        <5> QED
          BY <1>8, <5>1, <5>3
      <4> QED
        BY <2>1, <4>1, <4>2, <4>3
    <3> QED
      BY <1>8, <3>3, <3>4 DEF Links
  <2> QED
    BY <2>3, <2>4
<1>12. Links(next', received', last', Queue')
  BY <1>9, <1>11
<1>13. BelowNext(Len(stored')) /\ \A i \in 1 .. Len(stored') : BelowNext(stored'[i])
  <2>1. \A k \in Nat : Below(k) => BelowNext(k)
    BY <1>4 DEF ReaderKept
  <2>2. p' = NULL \/ p' = Len(handled) + 1
    BY <1>2 DEF NextPacket, NewPacket
  <2>3. BelowNext(p) /\ BelowNext(Len(stored) + 1)
    BY <1>1, <1>5, <1>6, <1>q, <2>2 DEF Below, BelowNext, NULL, ListInv
  <2>4. \A i \in 1 .. Len(stored) : stored[i] \in Nat /\ Below(stored[i])
    <3>1. \A i \in 1 .. Len(stored) : stored[i] \in Packets /\ Below(stored[i])
      BY ElementOfSeq DEF ListInv
    <3> QED
      BY <3>1 DEF Packets
  <2>5. \A i \in 1 .. Len(stored) : BelowNext(stored[i])
    BY <2>1, <2>4
  <2>6. BelowNext(Len(stored'))
    BY <1>7, <2>3 DEF Below, BelowNext
  <2>7. ASSUME NEW i \in 1 .. Len(stored')
        PROVE  BelowNext(stored'[i])
    <3>1. CASE i = Len(stored) + 1
      BY <1>7, <2>3, <3>1 DEF Below, BelowNext
    <3>2. CASE i # Len(stored) + 1
      <4>1. i \in 1 .. Len(stored)
        BY <1>6, <1>q, <1>7, <3>2
      <4> QED
        BY <1>7, <2>5, <4>1 DEF Below, BelowNext
    <3> QED
      BY <3>1, <3>2
  <2> QED
    BY <2>6, <2>7
<1>14. ListInv'
  <2>1. ASSUME NEW i \in 1 .. Len(stored')
        PROVE  i = Len(stored) + 1 \/ i \in 1 .. Len(stored)
    BY <1>6, <1>q, <1>7
  <2>2. \A i \in 1 .. Len(stored') :
          sent'[stored'[i]].mine /\ sent'[stored'[i]].cmd \in {"OKAY", "CLSE", "WRTE"}
    BY <1>1, <1>5, <1>7, <2>1 DEF ListInv
  <2>3. \A i, j \in 1 .. Len(stored') : i < j => stored'[i] < stored'[j]
    <3> SUFFICES ASSUME NEW i \in 1 .. Len(stored'), NEW j \in 1 .. Len(stored'), i < j
                 PROVE  stored'[i] < stored'[j]
      OBVIOUS
    <3>1. i \in 1 .. Len(stored)
      BY <1>6, <1>q, <1>7
    <3>2. CASE j = Len(stored) + 1
      <4>1. Below(stored[i])
        BY <3>1 DEF ListInv
      <4> QED
        BY <1>5, <1>7, <3>1, <3>2, <4>1 DEF Below, BelowNext, NULL
    <3>3. CASE j \in 1 .. Len(stored)
      BY <1>7, <3>1, <3>3 DEF ListInv
    <3> QED
      BY <2>1, <3>2, <3>3
  <2>4. \A i \in 1 .. Len(taken') : taken'[i] = stored'[i]
    BY <1>1, <1>6, <1>q, <1>7 DEF ListInv
  <2>5. Len(taken') <= Len(stored')
    BY <1>1, <1>6, <1>q, <1>7
  <2>6. taken' \in Seq(Packets) /\ next' \in [Packets -> Packets \cup {NULL}]
    <3>1. next' \in [Packets -> Packets \cup {NULL}]
      BY <1>1, <1>5 DEF ListInv
    <3> QED
      BY <1>1, <3>1 DEF ListInv
  <2> QED
    BY <1>7, <1>12, <1>13, <2>2, <2>3, <2>4, <2>5, <2>6 DEF ListInv, Below, BelowNext
<1> QED
  BY <1>1, <1>2, <1>3, <1>4, <1>5, <1>14

\* The head is taken off the list.
LEMMA ShiftList ==
  ASSUME BusInv, ReaderInv, ListInv, shift_received_packet
  PROVE  /\ BusInv' /\ ReaderKept /\ ListInv'
         /\ taken' = Append(taken, received) /\ received \in Packets
         /\ Len(taken) + 1 \in 1 .. Len(stored) /\ received = stored[Len(taken) + 1]
         /\ main' = "dump" /\ q' = received /\ UNCHANGED <<buf, printed>>
         /\ UNCHANGED <<sent, handled, p, stored, live>>
<1>1. /\ received # NULL /\ taken' = Append(taken, received)
      /\ received' = next[received]
      /\ last' = IF next[received] = NULL THEN NULL ELSE last
      /\ main' = "dump" /\ q' = received
      /\ UNCHANGED <<established, next, buf, printed, sent, wire, connected, zero,
                     output, p, got, handled, same, live, stored>>
  BY DEF shift_received_packet, DumpFrame, bus, reader
<1>2. BusInv'
  BY <1>1 DEF BusInv, Named
<1>3. ReaderKept
  BY <1>1, NothingSent, ReaderUnchanged
<1> DEFINE l == Len(stored) - Len(taken)
<1>4. /\ Len(stored) \in Nat /\ Len(taken) \in Nat /\ l \in Nat
      /\ Queue \in Seq(Packets) /\ Len(Queue) = l /\ (Queue = <<>> <=> l = 0)
      /\ \A i \in 1 .. l : Queue[i] = stored[Len(taken) + i]
  BY QueueFacts
<1>5. /\ l >= 1 /\ received = Queue[1] /\ received \in Packets
      /\ Len(taken) + 1 \in 1 .. Len(stored) /\ received = stored[Len(taken) + 1]
  <2>1. Queue # <<>>
    BY <1>1 DEF ListInv, Links
  <2>2. received = Queue[1]
    BY <2>1 DEF ListInv, Links
  <2>3. l >= 1 /\ 1 \in 1 .. l
    BY <1>4, <2>1
  <2>4. received \in Packets
    BY <1>4, <2>2, <2>3, ElementOfSeq
  <2> QED
    BY <1>4, <2>2, <2>3, <2>4
<1>6. /\ taken' \in Seq(Packets) /\ Len(taken') = Len(taken) + 1
      /\ taken'[Len(taken) + 1] = received
      /\ \A i \in 1 .. Len(taken) : taken'[i] = taken[i]
  <2>1. taken \in Seq(Packets)
    BY DEF ListInv
  <2> QED
    BY <1>1, <1>5, <2>1, AppendProperties
<1>7. \A i \in 1 .. Len(taken') : taken'[i] = stored[i]
  <2>1. \A i \in 1 .. Len(taken') : i = Len(taken) + 1 \/ i \in 1 .. Len(taken)
    BY <1>4, <1>6
  <2> QED
    BY <1>5, <1>6, <2>1 DEF ListInv
<1> DEFINE s == [i \in 1 .. l - 1 |-> Queue[i + 1]]
<1> HIDE DEF l
<1>8. s \in Seq(Packets) /\ Len(s) = l - 1 /\ \A i \in 1 .. l - 1 : s[i] = Queue[i + 1]
  <2>1. l - 1 \in Nat /\ \A i \in 1 .. l - 1 : i + 1 \in 1 .. l
    BY <1>4, <1>5
  <2>2. \A i \in 1 .. l : Queue[i] \in Packets
    BY <1>4, ElementOfSeq
  <2>3. s \in [1 .. l - 1 -> Packets]
    BY <2>1, <2>2
  <2> QED
    BY <2>1, <2>3, FunctionSeq
<1> HIDE DEF s
<1>9. Queue' = s
  <2>1. \A i \in 1 .. Len(s) : s[i] = stored'[Len(taken') + i]
    <3> SUFFICES ASSUME NEW i \in 1 .. l - 1
                 PROVE  s[i] = stored[Len(taken) + 1 + i]
      BY <1>1, <1>6, <1>8
    <3>1. i + 1 \in 1 .. l /\ Len(taken) + (i + 1) = Len(taken) + 1 + i
      BY <1>4
    <3> QED
      BY <1>4, <1>8, <3>1
  <2>2. /\ Len(s) = Len(stored') - Len(taken') /\ stored' \in Seq(Packets)
        /\ Len(taken') <= Len(stored')
    BY <1>1, <1>4, <1>5, <1>6, <1>8 DEF ListInv, l
  <2> QED
    BY <1>6, <1>8, <2>1, <2>2, QueueIs
<1>10. Links(next', received', last', s)
  <2>1. /\ last = Queue[l]
        /\ \A n \in 1 .. l : next[Queue[n]] = IF n < l THEN Queue[n + 1] ELSE NULL
    BY <1>4, <1>5 DEF ListInv, Links
  <2>2. \A n \in 1 .. l : Queue[n] # NULL
    <3>1. \A n \in 1 .. l : Queue[n] \in Packets
      BY <1>4, ElementOfSeq
    <3> QED
      BY <3>1 DEF Packets, NULL
  <2>3. s = <<>> <=> l = 1
    BY <1>4, <1>5, <1>8, EmptySeq
  <2>4. received' = IF l = 1 THEN NULL ELSE Queue[2]
    BY <1>1, <1>4, <1>5, <2>1
  <2>5. received' = IF s = <<>> THEN NULL ELSE s[1]
    BY <1>4, <1>5, <1>8, <2>3, <2>4
  <2>6. last' = IF s = <<>> THEN NULL ELSE s[Len(s)]
    <3>1. CASE l = 1
      BY <1>1, <2>3, <2>4, <3>1
    <3>2. CASE l # 1
      <4>1. 2 \in 1 .. l /\ l - 1 \in 1 .. l - 1 /\ l - 1 + 1 = l
        BY <1>4, <1>5, <3>2
      <4>2. next[received] # NULL
        BY <1>1, <2>2, <2>4, <3>2, <4>1
      <4>3. last' = Queue[l]
        BY <1>1, <2>1, <4>2
      <4>4. s[l - 1] = Queue[l]
        BY <1>8, <4>1
      <4> QED
        BY <1>8, <2>3, <3>2, <4>3, <4>4
    <3> QED
      BY <3>1, <3>2
  <2>7. ASSUME NEW n \in 1 .. Len(s)
        PROVE  next'[s[n]] = IF n < Len(s) THEN s[n + 1] ELSE NULL
    <3>1. n \in 1 .. l - 1 /\ n + 1 \in 1 .. l /\ (n < l - 1 <=> n + 1 < l)
      BY <1>4, <1>8
    <3>2. next[Queue[n + 1]] = IF n + 1 < l THEN Queue[n + 1 + 1] ELSE NULL
      BY <2>1, <3>1
    <3>3. n < l - 1 => s[n + 1] = Queue[n + 1 + 1]
      BY <1>4, <1>8, <3>1
    <3> QED
      BY <1>1, <1>8, <3>1, <3>2, <3>3
  <2> QED
    BY <2>5, <2>6, <2>7 DEF Links
<1>11. ListInv'
  <2>1. Links(next', received', last', Queue')
    BY <1>9, <1>10
  <2>2. Len(taken') <= Len(stored')
    BY <1>1, <1>5, <1>6
  <2> QED
    BY <1>1, <1>6, <1>7, <2>1, <2>2 DEF ListInv, Below
<1> QED
  BY <1>1, <1>2, <1>3, <1>5, <1>11
-----------------------------------------------------------------------------
(***************************************************************************)
(* Steps: the screen                                                       *)
(***************************************************************************)

\* The text of bytes with a NUL ends before the first one.
LEMMA TextEnds ==
  ASSUME NEW d \in Seq(Nat), NEW m \in 1 .. Len(d), d[m] = 0,
         \A j \in 1 .. m - 1 : d[j] # 0
  PROVE  Text(d) = SubSeq(d, 1, m - 1)
<1> DEFINE nuls == {j \in DOMAIN d : d[j] = 0}
<1>1. DOMAIN d = 1 .. Len(d) /\ Len(d) \in Nat
  BY LenProperties
<1>2. m \in nuls /\ nuls # {} /\ \A j \in nuls : j \in Nat /\ m <= j
  BY <1>1
<1>3. Text(d) = SubSeq(d, 1, Min(nuls) - 1)
  BY <1>2 DEF Text
<1> HIDE DEF nuls
<1>4. Min(nuls) = m
  <2> DEFINE x == Min(nuls)
  <2>1. x \in nuls /\ \A y \in nuls : x <= y
    BY <1>2 DEF Min
  <2> HIDE DEF x
  <2>2. x = m
    BY <1>2, <2>1
  <2> QED
    BY <2>2 DEF x
<1> QED
  BY <1>3, <1>4

\* Without a NUL, the text is all of them.
LEMMA TextWhole ==
  ASSUME NEW d \in Seq(Nat), \A j \in 1 .. Len(d) : d[j] # 0
  PROVE  Text(d) = d
<1>1. {j \in DOMAIN d : d[j] = 0} = {}
  BY LenProperties
<1> QED
  BY <1>1 DEF Text

\* What the buffer shows after strncpy and the terminator is the text of the
\* payload, whatever was in the buffer before.
LEMMA BufferText ==
  ASSUME NEW old \in [1 .. MaxPayload + 1 -> Nat], NEW d \in Seq(Nat), Len(d) <= MaxPayload
  PROVE  LET b == Terminated(Strncpy(old, d), Len(d)) IN
         /\ b \in [1 .. MaxPayload + 1 -> Nat]
         /\ Text(b) = Text(d) /\ Text(d) \in Seq(Nat)
<1> DEFINE n == Len(d)
           L == MaxPayload + 1
           b == Terminated(Strncpy(old, d), n)
<1>1. /\ L \in Nat /\ n \in Nat /\ n < L /\ L > 0
      /\ \A j \in 1 .. n : d[j] \in Nat /\ DOMAIN d = 1 .. n
  BY SizesAssumption, LenProperties, ElementOfSeq
<1> HIDE DEF n, L
<1>2. ASSUME Len(Text(d)) \in Nat
      PROVE  /\ b \in [1 .. L -> Nat]
             /\ b[n + 1] = 0
             /\ \A j \in 1 .. n : b[j] = IF j <= Len(Text(d)) THEN d[j] ELSE 0
  <2> DEFINE c == Strncpy(old, d)
  <2>1. DOMAIN old = 1 .. L
    BY DEF L
  <2>2. /\ c \in [1 .. L -> Nat]
        /\ \A j \in 1 .. n : c[j] = IF j <= Len(Text(d)) THEN d[j] ELSE 0
    <3>1. c = [j \in 1 .. L |-> IF j > n THEN old[j]
                                ELSE IF j <= Len(Text(d)) THEN d[j] ELSE 0]
      BY <2>1 DEF Strncpy, n
    <3>2. \A j \in 1 .. L : old[j] \in Nat
      BY DEF L
    <3>3. \A j \in 1 .. L : ~ (j > n) => j \in 1 .. n
      BY <1>1
    <3> HIDE DEF c
    <3> QED
      BY <1>1, <3>1, <3>2, <3>3
  <2>3. b = [c EXCEPT ![n + 1] = 0]
    BY DEF Terminated
  <2> HIDE DEF b, c
  <2> QED
    BY <1>1, <2>2, <2>3
<1>3. CASE \A j \in 1 .. n : d[j] # 0
  <2>1. Text(d) = d
    BY <1>3, TextWhole DEF n
  <2>2. /\ b \in [1 .. L -> Nat] /\ b[n + 1] = 0 /\ \A j \in 1 .. n : b[j] = d[j]
    BY <1>1, <1>2, <2>1 DEF n
  <2> HIDE DEF b
  <2>3. b \in Seq(Nat) /\ Len(b) = L
    BY <1>1, <2>2, FunctionSeq
  <2>4. Text(b) = SubSeq(b, 1, n)
    <3> DEFINE m == n + 1
    <3>1. m \in 1 .. Len(b) /\ b[m] = 0 /\ m - 1 = n /\ \A j \in 1 .. n : b[j] # 0
      BY <1>1, <1>3, <2>2, <2>3
    <3> HIDE DEF m
    <3> QED
      BY <2>3, <3>1, TextEnds
  <2>5. SubSeq(b, 1, n) = d
    <3>1. /\ SubSeq(b, 1, n) \in Seq(Nat) /\ Len(SubSeq(b, 1, n)) = IF 1 <= n THEN n - 1 + 1 ELSE 0
          /\ \A j \in 1 .. n - 1 + 1 : SubSeq(b, 1, n)[j] = b[1 + j - 1]
      <4>1. \A j \in 1 .. n : b[j] \in Nat
        BY <1>1, <2>2
      <4> QED
        BY <1>1, <4>1, SubSeqProperties
    <3>2. Len(SubSeq(b, 1, n)) = Len(d) /\ \A j \in 1 .. Len(d) : SubSeq(b, 1, n)[j] = d[j]
      <4>1. Len(SubSeq(b, 1, n)) = n
        BY <1>1, <3>1
      <4>2. \A j \in 1 .. n : SubSeq(b, 1, n)[j] = b[j]
        BY <1>1, <3>1
      <4> QED
        BY <2>2, <4>1, <4>2 DEF n
    <3> QED
      BY <3>1, <3>2, SeqEqual
  <2> QED
    BY <2>1, <2>2, <2>4, <2>5 DEF b, L, n
<1>4. CASE \E j \in 1 .. n : d[j] = 0
  <2> DEFINE T == {j \in 1 .. n : d[j] = 0}
  <2>1. T # {} /\ T \subseteq Nat
    BY <1>1, <1>4
  <2>2. PICK m \in T : \A j \in T : m <= j
    <3> HIDE DEF T
    <3> QED
      BY <2>1, LeastNat
  <2>3. m \in 1 .. n /\ d[m] = 0 /\ \A j \in 1 .. m - 1 : d[j] # 0
    BY <1>1, <2>2
  <2>4. Text(d) = SubSeq(d, 1, m - 1)
    BY <2>3, TextEnds DEF n
  <2>5. /\ SubSeq(d, 1, m - 1) \in Seq(Nat) /\ Len(SubSeq(d, 1, m - 1)) = m - 1
        /\ \A j \in 1 .. m - 1 : SubSeq(d, 1, m - 1)[j] = d[j]
    <3> DEFINE k == m - 1
    <3>1. k \in Nat /\ \A j \in 1 .. k : d[j] \in Nat
      BY <1>1, <2>3
    <3> HIDE DEF k
    <3>2. /\ SubSeq(d, 1, k) \in Seq(Nat) /\ Len(SubSeq(d, 1, k)) = IF 1 <= k THEN k - 1 + 1 ELSE 0
          /\ \A j \in 1 .. k - 1 + 1 : SubSeq(d, 1, k)[j] = d[1 + j - 1]
      BY <3>1, SubSeqProperties
    <3>3. SubSeq(d, 1, k) \in Seq(Nat) /\ Len(SubSeq(d, 1, k)) = k
      BY <3>1, <3>2
    <3>4. \A j \in 1 .. k : SubSeq(d, 1, k)[j] = d[j]
      BY <3>1, <3>2
    <3> QED
      BY <3>3, <3>4 DEF k
  <2>6. Len(Text(d)) \in Nat /\ Len(Text(d)) = m - 1
    BY <2>3, <2>4, <2>5
  <2>7. /\ b \in [1 .. L -> Nat]
        /\ \A j \in 1 .. n : b[j] = IF j <= m - 1 THEN d[j] ELSE 0
    BY <1>2, <2>6
  <2> HIDE DEF b
  <2>8. b \in Seq(Nat) /\ Len(b) = L
    BY <1>1, <2>7, FunctionSeq
  <2>9. m \in 1 .. Len(b) /\ b[m] = 0 /\ \A j \in 1 .. m - 1 : b[j] = d[j] /\ b[j] # 0
    BY <1>1, <2>3, <2>7, <2>8
  <2>10. Text(b) = SubSeq(b, 1, m - 1)
    BY <2>8, <2>9, TextEnds
  <2>11. SubSeq(b, 1, m - 1) = SubSeq(d, 1, m - 1)
    <3> DEFINE k == m - 1
    <3>1. k \in Nat /\ \A j \in 1 .. k : b[j] \in Nat /\ b[j] = d[j]
      BY <1>1, <2>3, <2>7, <2>9
    <3>2. /\ SubSeq(d, 1, k) \in Seq(Nat) /\ Len(SubSeq(d, 1, k)) = k
          /\ \A j \in 1 .. k : SubSeq(d, 1, k)[j] = d[j]
      BY <2>5
    <3> HIDE DEF k
    <3>3. /\ SubSeq(b, 1, k) \in Seq(Nat) /\ Len(SubSeq(b, 1, k)) = IF 1 <= k THEN k - 1 + 1 ELSE 0
          /\ \A j \in 1 .. k - 1 + 1 : SubSeq(b, 1, k)[j] = b[1 + j - 1]
      BY <3>1, SubSeqProperties
    <3>4. SubSeq(b, 1, k) \in Seq(Nat) /\ Len(SubSeq(b, 1, k)) = k
      BY <3>1, <3>3
    <3>5. \A j \in 1 .. k : SubSeq(b, 1, k)[j] = SubSeq(d, 1, k)[j]
      BY <3>1, <3>2, <3>3
    <3>6. SubSeq(b, 1, k) = SubSeq(d, 1, k)
      BY <3>2, <3>4, <3>5, SeqEqual
    <3> QED
      BY <3>6 DEF k
  <2> QED
    BY <2>4, <2>5, <2>7, <2>10, <2>11 DEF b, L, n
<1> QED
  BY <1>3, <1>4

\* A step that leaves the main thread alone.
LEMMA DumpUnchanged ==
  ASSUME BusInv, ReaderInv, ListInv, DumpInv, Grown, UNCHANGED dump
  PROVE  DumpInv'
<1>1. UNCHANGED <<main, q, buf, taken, printed>>
  BY DEF dump
<1>2. \A k \in DOMAIN printed : printed[k][1] \in 1 .. Len(sent)
  <2>1. DOMAIN printed = 1 .. Len(printed) /\ Len(printed) \in Nat
    BY LenProperties DEF DumpInv
  <2>2. \A k \in 1 .. Len(printed) : printed[k] \in Packets \X Seq(Nat)
    BY ElementOfSeq DEF DumpInv
  <2>3. \A k \in 1 .. Len(printed) : printed[k][1] \in Nat /\ printed[k][1] >= 1
    BY <2>2 DEF Packets
  <2>4. taken # <<>> => taken[Len(taken)] \in Nat /\ taken[Len(taken)] <= Len(sent)
    <3> SUFFICES ASSUME taken # <<>>
                 PROVE  taken[Len(taken)] \in Nat /\ taken[Len(taken)] <= Len(sent)
      OBVIOUS
    <3> DEFINE n == Len(taken)
    <3>1. n \in 1 .. n /\ n \in 1 .. Len(stored)
      BY QueueFacts, EmptySeq DEF ListInv
    <3>2. taken[n] = stored[n] /\ Below(stored[n]) /\ stored[n] \in Packets
      BY <3>1, ElementOfSeq DEF ListInv
    <3>3. Len(handled) \in Nat /\ Len(handled) <= Len(sent) /\ Len(sent) \in Nat
      BY QueueFacts DEF ReaderInv, Grown
    <3> QED
      BY <3>2, <3>3 DEF Below, Packets
  <2>5. \A k \in 1 .. Len(printed) : taken # <<>> /\ printed[k][1] <= taken[Len(taken)]
    BY DEF DumpInv
  <2>6. Len(sent) \in Nat
    BY DEF Grown
  <2> QED
    BY <2>1, <2>3, <2>4, <2>5, <2>6
<1>3. DumpRight'
  <2>1. ASSUME NEW k \in DOMAIN printed
        PROVE  LET i == printed[k][1] IN
               /\ sent'[i].cmd = "WRTE" /\ sent'[i].mine
               /\ printed[k][2] = Text(sent'[i].data)
    <3>1. sent'[printed[k][1]] = sent[printed[k][1]]
      BY <1>2 DEF Grown
    <3> QED
      BY <3>1 DEF DumpInv, DumpRight
  <2>2. \A k, l \in DOMAIN printed : k < l => printed[k][1] < printed[l][1]
    BY DEF DumpInv, DumpRight
  <2> QED
    BY <1>1, <2>1, <2>2 DEF DumpRight
<1> QED
  BY <1>1, <1>3 DEF DumpInv

\* A packet is taken: its number is beyond those of the printed ones.
LEMMA ShiftDump ==
  ASSUME BusInv, ReaderInv, ListInv, DumpInv, shift_received_packet
  PROVE  DumpInv'
<1>1. /\ taken' = Append(taken, received) /\ received \in Packets
      /\ Len(taken) + 1 \in 1 .. Len(stored) /\ received = stored[Len(taken) + 1]
      /\ main' = "dump" /\ q' = received /\ UNCHANGED <<buf, printed, sent>>
  BY ShiftList
<1>2. /\ taken \in Seq(Packets) /\ Len(taken) \in Nat /\ received \in Nat
  BY <1>1, QueueFacts DEF ListInv, Packets
<1>3. taken' # <<>> /\ taken'[Len(taken')] = received
  BY <1>1, <1>2, AppendProperties
<1>4. taken # <<>> => taken[Len(taken)] \in Nat /\ taken[Len(taken)] < received
  <2> SUFFICES ASSUME taken # <<>>
               PROVE  taken[Len(taken)] \in Nat /\ taken[Len(taken)] < received
    OBVIOUS
  <2> DEFINE n == Len(taken)
  <2>1. n \in 1 .. n /\ n \in 1 .. Len(stored) /\ n < n + 1
    BY <1>1, <1>2, EmptySeq
  <2>2. taken[n] = stored[n] /\ stored[n] < stored[n + 1] /\ stored[n] \in Packets
    BY <1>1, <2>1, ElementOfSeq DEF ListInv
  <2> QED
    BY <1>1, <2>2 DEF Packets
<1>5. ASSUME NEW k \in 1 .. Len(printed)
      PROVE  printed[k][1] < received /\ printed[k][1] <= received
  <2>1. taken # <<>> /\ printed[k][1] <= taken[Len(taken)]
    BY DEF DumpInv
  <2>2. printed[k][1] \in Nat
    <3>1. printed[k] \in Packets \X Seq(Nat)
      BY ElementOfSeq DEF DumpInv
    <3> QED
      BY <3>1 DEF Packets
  <2> QED
    BY <1>2, <1>4, <2>1, <2>2
<1>6. DumpRight'
  BY <1>1 DEF DumpInv, DumpRight
<1> QED
  BY <1>1, <1>2, <1>3, <1>5, <1>6 DEF DumpInv

\* The packet the main thread holds was stored: it is one of this stream.
LEMMA HeldStored ==
  ASSUME BusInv, ReaderInv, ListInv, DumpInv, main = "dump"
  PROVE  /\ q \in 1 .. Len(sent) /\ q \in Packets
         /\ sent[q].mine /\ sent[q] \in Messages
<1> DEFINE n == Len(taken)
<1>1. n \in 1 .. n /\ n \in 1 .. Len(stored) /\ q = taken[n]
  BY QueueFacts, EmptySeq DEF ListInv, DumpInv
<1>2. q = stored[n] /\ Below(q) /\ q \in Packets /\ sent[q].mine
  BY <1>1, ElementOfSeq DEF ListInv
<1>3. q \in 1 .. Len(sent)
  BY <1>2, QueueFacts, LenProperties DEF Below, Packets, ReaderInv, BusInv
<1> QED
  BY <1>2, <1>3, ElementOfSeq DEF BusInv

\* read_and_dump prints the packet it holds.
LEMMA DumpDump ==
  ASSUME BusInv, ReaderInv, ListInv, DumpInv, read_and_dump
  PROVE  DumpInv'
<1>1. /\ main = "dump" /\ q' = NULL /\ UNCHANGED <<sent, taken>>
      /\ \/ main' \in {"exit", "poll"} /\ UNCHANGED <<buf, printed>>
         \/ /\ main' = "poll" /\ sent[q].cmd = "WRTE"
            /\ buf' = Terminated(Strncpy(buf, sent[q].data), Len(sent[q].data))
            /\ printed' = Append(printed, <<q, Text(buf')>>)
  BY DEF read_and_dump, DumpFrame, bus
<1>2. q \in Packets /\ sent[q].mine /\ sent[q] \in Messages
  BY <1>1, HeldStored
<1>3. CASE main' \in {"exit", "poll"} /\ UNCHANGED <<buf, printed>>
  <2>1. DumpRight'
    BY <1>1, <1>3 DEF DumpInv, DumpRight
  <2> QED
    BY <1>1, <1>3, <2>1 DEF DumpInv, NULL
<1>4. CASE /\ main' = "poll" /\ sent[q].cmd = "WRTE"
           /\ buf' = Terminated(Strncpy(buf, sent[q].data), Len(sent[q].data))
           /\ printed' = Append(printed, <<q, Text(buf')>>)
  <2> DEFINE d == sent[q].data
             e == <<q, Text(buf')>>
             n == Len(printed)
  <2>1. d \in Seq(Nat) /\ Len(d) <= MaxPayload
    BY <1>2, MessagesAssumption, SizesAssumption
  <2>2. buf' \in [1 .. MaxPayload + 1 -> Nat] /\ Text(buf') = Text(d) /\ Text(d) \in Seq(Nat)
    <3>1. buf \in [1 .. MaxPayload + 1 -> Nat]
      BY DEF DumpInv
    <3>2. buf' = Terminated(Strncpy(buf, d), Len(d))
      BY <1>4
    <3> HIDE DEF d
    <3> QED
      BY <2>1, <3>1, <3>2, BufferText
  <2>3. e \in Packets \X Seq(Nat) /\ e[1] = q /\ e[2] = Text(d)
    BY <1>2, <2>2
  <2> HIDE DEF e
  <2>4. /\ printed' \in Seq(Packets \X Seq(Nat)) /\ Len(printed') = n + 1 /\ n \in Nat
        /\ printed'[n + 1] = e /\ \A k \in 1 .. n : printed'[k] = printed[k]
        /\ DOMAIN printed = 1 .. n /\ DOMAIN printed' = 1 .. n + 1
    <3>1. printed \in Seq(Packets \X Seq(Nat)) /\ printed' = Append(printed, e)
      BY <1>4 DEF DumpInv, e
    <3> QED
      BY <2>3, <3>1, AppendProperties, LenProperties
  <2> HIDE DEF n, d
  <2>5. \A k \in 1 .. n + 1 : k = n + 1 \/ k \in 1 .. n
    BY <2>4
  <2>6. /\ taken # <<>> /\ q = taken[Len(taken)] /\ q \in Nat
        /\ \A k \in 1 .. n : printed[k][1] < q /\ printed[k][1] <= taken[Len(taken)]
    BY <1>1 DEF DumpInv, n
  <2>7. ASSUME NEW k \in 1 .. n + 1
        PROVE  taken # <<>> /\ printed'[k][1] <= taken[Len(taken)]
    <3>1. CASE k = n + 1
      BY <2>3, <2>4, <2>6, <3>1
    <3>2. CASE k \in 1 .. n
      BY <2>4, <2>6, <3>2
    <3> QED
      BY <2>5, <3>1, <3>2
  <2>8. ASSUME NEW k \in 1 .. n + 1
        PROVE  LET i == printed'[k][1] IN
               /\ sent[i].cmd = "WRTE" /\ sent[i].mine
               /\ printed'[k][2] = Text(sent[i].data)
    <3>1. CASE k = n + 1
      BY <1>2, <1>4, <2>3, <2>4, <3>1 DEF d
    <3>2. CASE k \in 1 .. n
      BY <2>4, <3>2 DEF DumpInv, DumpRight
    <3> QED
      BY <2>5, <3>1, <3>2
  <2>9. ASSUME NEW k \in 1 .. n + 1, NEW l \in 1 .. n + 1, k < l
        PROVE  printed'[k][1] < printed'[l][1]
    <3>1. k \in 1 .. n
      BY <2>4, <2>9
    <3>2. CASE l = n + 1
      BY <2>3, <2>4, <2>6, <3>1, <3>2
    <3>3. CASE l \in 1 .. n
      BY <2>4, <2>9, <3>1, <3>3 DEF DumpInv, DumpRight
    <3> QED
      BY <2>5, <3>2, <3>3
  <2>10. DumpRight'
    BY <1>1, <2>4, <2>8, <2>9 DEF DumpRight
  <2> QED
    BY <1>1, <1>4, <2>2, <2>4, <2>7, <2>10 DEF DumpInv, NULL
<1> QED
  BY <1>1, <1>3, <1>4

-----------------------------------------------------------------------------
(***************************************************************************)
(* Steps: what is allocated                                                *)
(***************************************************************************)

\* What was stored was handled, is not held any more and is no SYNC.
LEMMA StoredFacts ==
  ASSUME BusInv, ReaderInv, ListInv
  PROVE  /\ Range(stored) = {stored[i] : i \in 1 .. Len(stored)}
         /\ Len(handled) \in Nat /\ Len(handled) <= Len(sent) /\ p \in Nat
         /\ \A k \in Range(stored) : k \in 1 .. Len(handled) /\ k # p /\ sent[k].cmd # "SYNC"
<1>1. DOMAIN stored = 1 .. Len(stored)
  BY LenProperties DEF ListInv
<1>2. Range(stored) = {stored[i] : i \in 1 .. Len(stored)}
  BY <1>1 DEF Range
<1>3. Len(handled) \in Nat /\ Len(handled) <= Len(sent) /\ p \in Nat
  BY LenProperties DEF ReaderInv
<1>4. ASSUME NEW i \in 1 .. Len(stored)
      PROVE  stored[i] \in 1 .. Len(handled) /\ stored[i] # p /\ sent[stored[i]].cmd # "SYNC"
  <2>1. stored[i] \in Packets /\ Below(stored[i])
    BY ElementOfSeq DEF ListInv
  <2>2. sent[stored[i]].cmd \in {"OKAY", "CLSE", "WRTE"}
    BY DEF ListInv
  <2> QED
    BY <1>3, <2>1, <2>2 DEF Packets, Below, NULL
<1> QED
  BY <1>2, <1>3, <1>4

\* A step that leaves the packets where they are.
LEMMA LiveUnchanged ==
  ASSUME BusInv, ReaderInv, ListInv, LiveInv, Grown, UNCHANGED <<p, handled, stored, live>>
  PROVE  LiveInv'
<1>1. \A k \in 1 .. Len(handled) : sent'[k] = sent[k]
  BY LenProperties DEF ReaderInv, Grown
<1>2. Syncs' = Syncs
  BY <1>1 DEF Syncs
<1> QED
  BY <1>2 DEF LiveInv

\* The packet the thread holds is freed or, if it is not, it is a SYNC, and
\* the thread holds a packet that was not allocated, or none.
LEMMA LiveFreed ==
  ASSUME BusInv, ReaderInv, ListInv, LiveInv, UNCHANGED <<sent, handled, stored>>,
         p' = NULL \/ p' = Len(handled) + 1,
         \/ /\ live' = (live \ {p}) \union ({p'} \ {NULL})
            /\ p \in 1 .. Len(handled) => sent[p].cmd # "SYNC"
         \/ /\ live' = live \union ({p'} \ {NULL})
            /\ p \in 1 .. Len(handled) /\ sent[p].cmd = "SYNC"
  PROVE  LiveInv'
<1>1. /\ Len(handled) \in Nat /\ \A k \in Range(stored) : k \in 1 .. Len(handled) /\ k # p
      /\ ~ (Len(handled) + 1 \in 1 .. Len(handled)) /\ ~ (NULL \in 1 .. Len(handled))
  BY StoredFacts DEF NULL
<1>2. CASE /\ live' = (live \ {p}) \union ({p'} \ {NULL})
           /\ p \in 1 .. Len(handled) => sent[p].cmd # "SYNC"
  <2>1. Syncs' = Syncs
    BY <1>1, <1>2 DEF Syncs
  <2>2. p \notin Range(stored) /\ p \notin Syncs
    BY <1>1 DEF Syncs
  <2> QED
    BY <1>2, <2>1, <2>2 DEF LiveInv
<1>3. CASE /\ live' = live \union ({p'} \ {NULL})
           /\ p \in 1 .. Len(handled) /\ sent[p].cmd = "SYNC"
  <2>1. Syncs' = Syncs \union {p} /\ {p} \ {NULL} = {p}
    BY <1>1, <1>3 DEF Syncs
  <2> QED
    BY <1>3, <2>1 DEF LiveInv
<1> QED
  BY <1>2, <1>3

\* A failing read frees the packet.
LEMMA ReadFailsLive ==
  ASSUME BusInv, ReaderInv, ListInv, LiveInv, ReadFails, output \in {"header", "data"},
         UNCHANGED <<sent, stored>>
  PROVE  LiveInv'
<1>1. p' = NULL /\ live' = (live \ {p}) \union ({p'} \ {NULL}) /\ UNCHANGED handled
  BY DEF ReadFails, free
<1>2. ~ (p \in 1 .. Len(handled))
  BY LenProperties DEF ReaderInv
<1> QED
  BY <1>1, <1>2, LiveFreed

LEMMA RemoteReadLive ==
  ASSUME BusInv, ReaderInv, ListInv, LiveInv, remote_read
  PROVE  LiveInv'
<1>1. UNCHANGED <<sent, stored>> /\ output \in {"header", "data"}
  BY DEF remote_read, ReadFrame
<1>2. CASE ReadFails
  BY <1>1, <1>2, ReadFailsLive
<1>3. CASE UNCHANGED <<p, handled, live>>
  BY <1>1, <1>3, NothingSent, LiveUnchanged
<1>4. CASE handled' = Append(handled, p) /\ UNCHANGED <<p, live>>
  <2>1. Len(handled) \in Nat /\ p = Len(handled) + 1 /\ Len(handled') = p
    BY <1>1, <1>4, AppendProperties, LenProperties DEF ReaderInv
  <2>2. Syncs' = Syncs
    BY <1>1, <1>4, <2>1 DEF Syncs
  <2> QED
    BY <1>1, <1>4, <2>2 DEF LiveInv
<1> QED
  BY <1>2, <1>3, <1>4 DEF remote_read

LEMMA HandlePacketLive ==
  ASSUME BusInv, ReaderInv, ListInv, LiveInv, handle_packet
  PROVE  LiveInv'
<1>1. /\ output = "handle" /\ UNCHANGED <<stored, sent, handled>>
      /\ \/ sent[p].cmd = "SYNC" /\ NextPacket({})
         \/ NextPacket({p}) /\ sent[p].cmd # "SYNC"
         \/ UNCHANGED <<p, live>>
  BY HandlePacketReader DEF handle_packet, Message
<1>2. p \in 1 .. Len(handled)
  BY <1>1, LenProperties DEF ReaderInv
<1>3. CASE NextPacket({}) \/ NextPacket({p})
  <2>1. p' = Len(handled) + 1 /\ {p'} \ {NULL} = {NewPacket} /\ Len(handled) \in Nat
    BY <1>3, LenProperties DEF NextPacket, NewPacket, NULL, ReaderInv
  <2>2. CASE sent[p].cmd = "SYNC" /\ NextPacket({})
    <3>1. live' = live \union ({p'} \ {NULL})
      BY <2>1, <2>2 DEF NextPacket
    <3> QED
      BY <1>1, <1>2, <2>1, <2>2, <3>1, LiveFreed
  <2>3. CASE NextPacket({p}) /\ sent[p].cmd # "SYNC"
    <3>1. live' = (live \ {p}) \union ({p'} \ {NULL})
      BY <2>1, <2>3 DEF NextPacket
    <3> QED
      BY <1>1, <1>2, <2>1, <2>3, <3>1, LiveFreed
  <2>4. CASE UNCHANGED <<p, live>>
    BY <1>1, <2>4, NothingSent, LiveUnchanged
  <2> QED
    BY <1>1, <2>2, <2>3, <2>4
<1>4. CASE UNCHANGED <<p, live>>
  BY <1>1, <1>4, NothingSent, LiveUnchanged
<1> QED
  BY <1>1, <1>3, <1>4

\* Clearing the list frees what is on it, and nothing else.
LEMMA ClearLive ==
  ASSUME BusInv, ReaderInv, ListInv, LiveInv, clear_received_packet
  PROVE  LiveInv'
<1>1. /\ Len(stored') = Len(taken) /\ \A i \in 1 .. Len(taken) : stored'[i] = stored[i]
      /\ live' = live \ Range(Queue) /\ UNCHANGED <<sent, handled, p>> /\ ListInv'
  BY ClearList
<1>2. /\ Len(taken) \in Nat /\ Len(stored) \in Nat /\ Len(taken) <= Len(stored)
      /\ Len(Queue) = Len(stored) - Len(taken) /\ Queue \in Seq(Packets)
      /\ \A i \in 1 .. Len(Queue) : Queue[i] = stored[Len(taken) + i]
  BY QueueFacts
<1>3. Range(Queue) = {Queue[i] : i \in 1 .. Len(Queue)}
  BY <1>2, LenProperties DEF Range
<1>4. Range(stored') = {stored[i] : i \in 1 .. Len(taken)}
  <2>1. DOMAIN stored' = 1 .. Len(taken)
    BY <1>1, LenProperties DEF ListInv
  <2> QED
    BY <1>1, <2>1 DEF Range
<1>5. \A i, j \in 1 .. Len(stored) : i < j => stored[i] < stored[j]
  BY DEF ListInv
<1>6. \A i \in 1 .. Len(stored) : stored[i] \in Nat
  <2>1. \A i \in 1 .. Len(stored) : stored[i] \in Packets
    BY ElementOfSeq DEF ListInv
  <2> QED
    BY <2>1 DEF Packets
<1>7. ASSUME NEW i \in 1 .. Len(stored)
      PROVE  stored[i] \in Range(Queue) <=> ~ (i \in 1 .. Len(taken))
  <2>1. CASE i \in 1 .. Len(taken)
    <3>1. ASSUME NEW j \in 1 .. Len(Queue)
          PROVE  Queue[j] # stored[i]
      <4>1. Len(taken) + j \in 1 .. Len(stored) /\ i < Len(taken) + j
        BY <1>2, <2>1
      <4>2. stored[i] < stored[Len(taken) + j]
        BY <1>5, <4>1
      <4> QED
        BY <1>2, <1>6, <4>1, <4>2
    <3> QED
      BY <1>3, <2>1, <3>1
  <2>2. CASE ~ (i \in 1 .. Len(taken))
    <3> DEFINE j == i - Len(taken)
    <3>1. j \in 1 .. Len(Queue) /\ Len(taken) + j = i
      BY <1>2, <2>2
    <3>2. Queue[j] = stored[i]
      BY <1>2, <3>1
    <3> QED
      BY <1>3, <2>2, <3>1, <3>2
  <2> QED
    BY <2>1, <2>2
<1>8. Range(stored) \ Range(Queue) = Range(stored') /\ Range(Queue) \subseteq Range(stored)
  <2>1. Range(stored) = {stored[i] : i \in 1 .. Len(stored)}
    BY StoredFacts
  <2>2. \A i \in 1 .. Len(taken) : i \in 1 .. Len(stored)
    BY <1>2
  <2>3. Range(stored) \ Range(Queue) = Range(stored')
    BY <1>4, <1>7, <2>1, <2>2
  <2>4. \A j \in 1 .. Len(Queue) : Len(taken) + j \in 1 .. Len(stored)
    BY <1>2
  <2>5. Range(Queue) \subseteq Range(stored)
    BY <1>2, <1>3, <2>1, <2>4
  <2> QED
    BY <2>3, <2>5
<1>9. Syncs' = Syncs /\ Syncs \intersect Range(stored) = {} /\ p \notin Range(stored)
  BY <1>1, StoredFacts DEF Syncs
<1> QED
  BY <1>1, <1>8, <1>9 DEF LiveInv

\* A packet that is put on the list is still allocated, once.
LEMMA StoreLive ==
  ASSUME BusInv, ReaderInv, ListInv, LiveInv, store_received_packet
  PROVE  LiveInv'
<1>1. /\ stored' = Append(stored, p) /\ p \in Packets /\ UNCHANGED <<sent, handled>>
      /\ (p' = NULL /\ UNCHANGED live) \/ NextPacket({})
  BY StoreList
<1>2. output = "store" /\ sent[p].cmd # "SYNC" /\ p \in 1 .. Len(handled)
  BY LenProperties DEF store_received_packet, ReaderInv
<1>3. Range(stored') = Range(stored) \union {p}
  <2>1. /\ Len(stored) \in Nat /\ stored' \in Seq(Packets) /\ Len(stored') = Len(stored) + 1
        /\ stored'[Len(stored) + 1] = p /\ \A i \in 1 .. Len(stored) : stored'[i] = stored[i]
    BY <1>1, AppendProperties, LenProperties DEF ListInv
  <2>2. Range(stored) = {stored[i] : i \in 1 .. Len(stored)}
    BY StoredFacts
  <2>3. Range(stored') = {stored'[i] : i \in 1 .. Len(stored) + 1}
    BY <2>1, LenProperties DEF Range
  <2>4. \A i : i \in 1 .. Len(stored) + 1 <=> i \in 1 .. Len(stored) \/ i = Len(stored) + 1
    BY <2>1
  <2> QED
    BY <2>1, <2>2, <2>3, <2>4
<1>4. /\ Len(handled) \in Nat /\ ~ (Len(handled) + 1 \in 1 .. Len(handled))
      /\ ~ (NULL \in 1 .. Len(handled)) /\ {p} \ {NULL} = {p}
  BY <1>2, LenProperties DEF ReaderInv, NULL
<1>5. Syncs' = Syncs
  <2>1. p' = NULL \/ p' = Len(handled) + 1
    BY <1>1 DEF NextPacket, NewPacket
  <2> QED
    BY <1>1, <1>2, <1>4, <2>1 DEF Syncs
<1>6. CASE p' = NULL /\ UNCHANGED live
  BY <1>3, <1>4, <1>5, <1>6 DEF LiveInv
<1>7. CASE NextPacket({})
  <2>1. p' = NewPacket /\ live' = live \union {p'} /\ {p'} \ {NULL} = {p'}
    BY <1>4, <1>7 DEF NextPacket, NewPacket, NULL
  <2> QED
    BY <1>3, <1>4, <1>5, <2>1 DEF LiveInv
<1> QED
  BY <1>1, <1>6, <1>7

\* The READY is sent and the packet freed, unless it is on the list.
LEMMA SendReady ==
  ASSUME BusInv, ReaderInv, ListInv, LiveInv, send_ready
  PROVE  /\ BusInv' /\ ReaderKept /\ LiveInv'
         /\ UNCHANGED <<list, stored, dump>>
<1>1. /\ output = "ready" /\ output' = "header" /\ p' = NewPacket
      /\ live' = (live \ {p}) \union {NewPacket}
      /\ UNCHANGED <<sent, wire, connected, zero, got, handled, same, established>>
      /\ UNCHANGED <<list, stored, dump>>
  BY DEF send_ready, NextPacket, HandleFrame, bus
<1>2. BusInv'
  BY <1>1 DEF BusInv, Named
<1>3. ReaderKept
  BY <1>1, Moves
<1>4. p \in 1 .. Len(handled) => sent[p].cmd # "SYNC"
  BY <1>1, LenProperties DEF ReaderInv, NULL
<1>5. p' = Len(handled) + 1 /\ live' = (live \ {p}) \union ({p'} \ {NULL})
  <2>1. p' = Len(handled) + 1 /\ p' # NULL
    BY <1>1, LenProperties DEF ReaderInv, NewPacket, NULL
  <2> QED
    BY <1>1, <2>1
<1>6. LiveInv'
  BY <1>1, <1>4, <1>5, LiveFreed
<1> QED
  BY <1>1, <1>2, <1>3, <1>6

-----------------------------------------------------------------------------
(***************************************************************************)
(* The theorems                                                            *)
(***************************************************************************)

LEMMA InitInv == Init => Inv
<1> SUFFICES ASSUME Init PROVE Inv
  OBVIOUS
<1>1. /\ sent = <<>> /\ wire = <<>> /\ got = <<>> /\ handled = <<>> /\ stored = <<>>
      /\ taken = <<>> /\ printed = <<>>
      /\ Len(sent) = 0 /\ Len(handled) = 0 /\ Len(stored) = 0 /\ Len(taken) = 0 /\ Len(printed) = 0
  BY EmptySeq DEF Init
<1>2. /\ connected = TRUE /\ zero = FALSE /\ established = FALSE /\ same \in BOOLEAN
      /\ output = "header" /\ p = 1 /\ live = {1} /\ received = NULL /\ last = NULL
      /\ next = [k \in Packets |-> NULL] /\ main = "open" /\ q = NULL
      /\ buf = [j \in 1 .. MaxPayload + 1 |-> Noise]
  BY DEF Init
<1>3. MaxSent \in Nat
  BY BoundsAssumption
<1>4. BusInv
  <2>1. sent \in Seq(Messages) /\ wire \in Seq(Seq(Named)) /\ got \in Seq(Named)
    <3> HIDE DEF Named
    <3> QED
      BY <1>1, EmptySeq
  <2>2. Len(sent) <= MaxSent
    BY <1>1, <1>3
  <2> QED
    BY <1>2, <2>1, <2>2 DEF BusInv
<1>5. ReaderInv
  BY <1>1, <1>2, EmptySeq DEF ReaderInv
<1>6. Queue = <<>>
  BY <1>1 DEF Queue
<1>7. Links(next, received, last, Queue)
  BY <1>1, <1>2, <1>6 DEF Links
<1>8. ListInv
  <2>1. Below(0)
    BY <1>1, <1>2 DEF Below
  <2>2. next \in [Packets -> Packets \cup {NULL}]
    BY <1>2
  <2>3. stored \in Seq(Packets) /\ taken \in Seq(Packets)
    BY <1>1, EmptySeq
  <2> QED
    BY <1>1, <1>7, <2>1, <2>2, <2>3 DEF ListInv
<1>9. DumpInv
  <2>1. printed \in Seq(Packets \X Seq(Nat)) /\ DOMAIN printed = {}
    BY <1>1, EmptySeq
  <2>2. DumpRight
    BY <2>1 DEF DumpRight
  <2>3. buf \in [1 .. MaxPayload + 1 -> Nat]
    BY <1>2 DEF Noise
  <2> QED
    BY <1>1, <1>2, <2>1, <2>2, <2>3 DEF DumpInv, NULL
<1>10. LiveInv
  <2>1. Range(stored) = {} /\ Syncs = {}
    BY <1>1 DEF Range, Syncs
  <2> QED
    BY <1>2, <2>1 DEF LiveInv, NULL
<1> QED
  BY <1>4, <1>5, <1>8, <1>9, <1>10 DEF Inv

\* A step that leaves the packets where they are keeps the invariant if it
\* keeps what it says of the bus.
LEMMA StillInv ==
  ASSUME Inv, BusInv', Grown, UNCHANGED <<output, p, handled, live, list, stored, dump>>
  PROVE  Inv'
<1>1. ReaderKept
  BY ReaderUnchanged DEF Inv
<1>2. taken' = taken
  BY DEF dump
<1>3. ListInv'
  BY <1>1, <1>2, ListUnchanged DEF Inv
<1>4. DumpInv'
  BY DumpUnchanged DEF Inv
<1>5. LiveInv'
  BY LiveUnchanged DEF Inv
<1> QED
  BY <1>1, <1>3, <1>4, <1>5 DEF Inv, ReaderKept

\* A step of the output thread that leaves the list alone.
LEMMA OutputInv ==
  ASSUME Inv, BusInv', ReaderKept, LiveInv', UNCHANGED <<list, stored, dump>>
  PROVE  Inv'
<1>1. Grown /\ taken' = taken
  BY DEF ReaderKept, dump
<1>2. ListInv'
  BY <1>1, ListUnchanged DEF Inv
<1>3. DumpInv'
  BY <1>1, DumpUnchanged DEF Inv
<1> QED
  BY <1>2, <1>3 DEF Inv, ReaderKept

LEMMA NextInv == Inv /\ [Next]_vars => Inv'
<1> SUFFICES ASSUME Inv, [Next]_vars PROVE Inv'
  OBVIOUS
<1> USE DEF Inv
<1>1. CASE DeviceSends
  BY <1>1, DeviceSendsBus, StillInv DEF DeviceSends, reader
<1>2. CASE Unplug
  <2>1. BusInv'
    BY <1>2 DEF Unplug, BusInv, Named, reader
  <2> QED
    BY <1>2, <2>1, NothingSent, StillInv DEF Unplug, reader
<1>3. CASE usb_read
  <2>1. /\ BusInv' /\ UNCHANGED <<sent, list, stored, dump>>
        /\ UNCHANGED <<output, p, handled, live>> \/ ReadFails
    BY <1>3, ReadBus
  <2>2. CASE UNCHANGED <<output, p, handled, live>>
    BY <2>1, <2>2, NothingSent, StillInv
  <2>3. CASE ReadFails
    <3>1. LiveInv'
      BY <1>3, <2>1, <2>3, ReadFailsLive DEF usb_read
    <3>2. ReaderKept
      BY <2>1, <2>3, ReadFailsReader
    <3> QED
      BY <2>1, <3>1, <3>2, OutputInv
  <2> QED
    BY <2>1, <2>2, <2>3
<1>4. CASE remote_read
  <2>1. UNCHANGED <<list, stored, dump>>
    BY <1>4 DEF remote_read, ReadFrame
  <2> QED
    BY <1>4, <2>1, RemoteReadReader, RemoteReadLive, OutputInv
<1>5. CASE handle_packet
  BY <1>5, HandlePacketReader, HandlePacketLive, OutputInv
<1>6. CASE clear_received_packet
  <2>1. BusInv' /\ ReaderKept /\ ListInv' /\ UNCHANGED dump
    BY <1>6, ClearList
  <2>2. DumpInv'
    BY <2>1, DumpUnchanged DEF ReaderKept
  <2> QED
    BY <1>6, <2>1, <2>2, ClearLive DEF ReaderKept
<1>7. CASE store_received_packet
  <2>1. BusInv' /\ ReaderKept /\ ListInv' /\ UNCHANGED dump
    BY <1>7, StoreList
  <2>2. DumpInv'
    BY <2>1, DumpUnchanged DEF ReaderKept
  <2> QED
    BY <1>7, <2>1, <2>2, StoreLive DEF ReaderKept
<1>8. CASE send_ready
  BY <1>8, SendReady, OutputInv
<1>9. CASE ForgetIds
  <2>1. /\ BusInv' /\ UNCHANGED <<sent, output, p, handled, live, list, stored, taken>>
        /\ main' = "poll" /\ UNCHANGED <<q, buf, printed>>
    BY <1>9 DEF ForgetIds, DumpFrame, BusInv, Named, bus, reader
  <2>2. ReaderKept
    BY <2>1, NothingSent, ReaderUnchanged
  <2>3. DumpInv'
    BY <2>1 DEF DumpInv, DumpRight
  <2>4. ListInv' /\ LiveInv'
    BY <2>1, <2>2, NothingSent, ListUnchanged, LiveUnchanged
  <2> QED
    BY <2>1, <2>2, <2>3, <2>4 DEF ReaderKept
<1>10. CASE shift_received_packet
  <2>1. BusInv' /\ ReaderKept /\ ListInv' /\ UNCHANGED <<sent, handled, p, stored, live>>
    BY <1>10, ShiftList
  <2>2. DumpInv'
    BY <1>10, ShiftDump
  <2>3. LiveInv'
    BY <2>1, NothingSent, LiveUnchanged
  <2> QED
    BY <2>1, <2>2, <2>3 DEF ReaderKept
<1>11. CASE read_and_dump
  <2>1. BusInv' /\ UNCHANGED <<sent, output, p, handled, live, list, stored, taken>>
    BY <1>11 DEF read_and_dump, DumpFrame, BusInv, Named, bus, reader
  <2>2. ReaderKept
    BY <2>1, NothingSent, ReaderUnchanged
  <2>3. DumpInv'
    BY <1>11, DumpDump
  <2>4. ListInv' /\ LiveInv'
    BY <2>1, <2>2, NothingSent, ListUnchanged, LiveUnchanged
  <2> QED
    BY <2>1, <2>2, <2>3, <2>4 DEF ReaderKept
<1>12. CASE UNCHANGED vars
  <2>1. BusInv' /\ UNCHANGED <<sent, output, p, handled, live, list, stored, dump>>
    BY <1>12 DEF vars, BusInv, Named, bus, reader
  <2> QED
    BY <2>1, NothingSent, StillInv
<1> QED
  BY <1>1, <1>2, <1>3, <1>4, <1>5, <1>6, <1>7, <1>8, <1>9, <1>10, <1>11, <1>12
  DEF Next, OutputStep, MainStep

THEOREM InvCorrect == Spec => []Inv
BY InitInv, NextInv, PTL DEF Spec

\* What was stored is what was taken and what is on the list.
LEMMA Parts ==
  ASSUME Inv
  PROVE  /\ stored = taken \o Chain
         /\ Range(stored) = Range(taken) \union Range(Chain)
         /\ Range(taken) \intersect Range(Chain) = {}
         /\ IsInjective(Chain)
         /\ Leaked = Range(taken) \union Syncs
<1> USE DEF Inv
<1>1. /\ Len(stored) \in Nat /\ Len(taken) \in Nat /\ Len(taken) <= Len(stored)
      /\ Chain = Queue /\ Queue \in Seq(Packets) /\ Len(Queue) = Len(stored) - Len(taken)
      /\ \A i \in 1 .. Len(Queue) : Queue[i] = stored[Len(taken) + i]
      /\ taken \in Seq(Packets) /\ stored \in Seq(Packets)
      /\ \A i \in 1 .. Len(taken) : taken[i] = stored[i]
  BY QueueFacts DEF ListInv
<1> DEFINE n == Len(taken)
           l == Len(Queue)
<1>2. n \in Nat /\ l \in Nat /\ Len(stored) = n + l
  BY <1>1
<1>3. stored = taken \o Queue
  <2> DEFINE s == taken \o Queue
  <2>1. /\ s \in Seq(Packets) /\ Len(s) = n + l
        /\ \A i \in 1 .. n + l : s[i] = IF i <= n THEN taken[i] ELSE Queue[i - n]
    BY <1>1, ConcatProperties
  <2> HIDE DEF s
  <2>2. ASSUME NEW i \in 1 .. n + l
        PROVE  s[i] = stored[i]
    <3>1. CASE i <= n
      BY <1>1, <1>2, <2>1, <3>1
    <3>2. CASE ~ (i <= n)
      <4>1. i - n \in 1 .. l /\ n + (i - n) = i
        BY <1>2, <3>2
      <4> QED
        BY <1>1, <2>1, <3>2, <4>1
    <3> QED
      BY <3>1, <3>2
  <2>3. s = stored
    BY <1>1, <1>2, <2>1, <2>2, SeqEqual
  <2> QED
    BY <2>3 DEF s
<1>4. /\ Range(taken) = {stored[i] : i \in 1 .. n}
      /\ Range(Queue) = {stored[n + i] : i \in 1 .. l}
      /\ Range(stored) = {stored[i] : i \in 1 .. n + l}
  <2>1. DOMAIN taken = 1 .. n /\ DOMAIN Queue = 1 .. l /\ DOMAIN stored = 1 .. n + l
    BY <1>1, <1>2, LenProperties
  <2>2. Range(taken) = {stored[i] : i \in 1 .. n}
    BY <1>1, <2>1 DEF Range
  <2>3. Range(Queue) = {stored[n + i] : i \in 1 .. l}
    BY <1>1, <2>1 DEF Range
  <2>4. Range(stored) = {stored[i] : i \in 1 .. n + l}
    BY <2>1 DEF Range
  <2> QED
    BY <2>2, <2>3, <2>4
<1> HIDE DEF n, l
<1>5. \A i, j \in 1 .. n + l : i # j => stored[i] # stored[j]
  <2>1. \A i, j \in 1 .. n + l : i < j => stored[i] < stored[j]
    BY <1>2 DEF ListInv
  <2>2. \A i \in 1 .. n + l : stored[i] \in Packets
    BY <1>1, <1>2, ElementOfSeq
  <2>3. \A i \in 1 .. n + l : stored[i] \in Nat
    BY <2>2 DEF Packets
  <2>4. \A i, j \in 1 .. n + l : i < j \/ j < i \/ i = j
    BY <1>2
  <2> QED
    BY <2>1, <2>3, <2>4
<1>6. Range(stored) = Range(taken) \union Range(Queue)
  <2>1. \A i \in 1 .. n : i \in 1 .. n + l
    BY <1>2
  <2>2. \A i \in 1 .. l : n + i \in 1 .. n + l
    BY <1>2
  <2>3. ASSUME NEW i \in 1 .. n + l
        PROVE  i \in 1 .. n \/ \E j \in 1 .. l : i = n + j
    <3>1. i \in 1 .. n \/ (i - n \in 1 .. l /\ i = n + (i - n))
      BY <1>2
    <3> QED
      BY <3>1
  <2>4. Range(stored) \subseteq Range(taken) \union Range(Queue)
    BY <1>4, <2>3
  <2>5. Range(taken) \union Range(Queue) \subseteq Range(stored)
    BY <1>4, <2>1, <2>2
  <2> QED
    BY <2>4, <2>5
<1>7. Range(taken) \intersect Range(Queue) = {}
  <2>1. \A i \in 1 .. n, j \in 1 .. l :
          i \in 1 .. n + l /\ n + j \in 1 .. n + l /\ i # n + j
    BY <1>2
  <2> QED
    BY <1>4, <1>5, <2>1
<1>8. IsInjective(Queue)
  <2>1. \A i \in 1 .. l : n + i \in 1 .. n + l
    BY <1>2
  <2>2. \A i, j \in 1 .. l : n + i = n + j => i = j
    BY <1>2
  <2>3. \A i \in 1 .. l : Queue[i] = stored[n + i]
    BY <1>1 DEF n, l
  <2>4. DOMAIN Queue = 1 .. l
    BY <1>1, LenProperties DEF l
  <2> QED
    BY <1>5, <2>1, <2>2, <2>3, <2>4 DEF IsInjective
<1>9. Leaked = Range(taken) \union Syncs
  <2>1. Range(handled) = 1 .. Len(handled)
    <3>1. DOMAIN handled = 1 .. Len(handled)
      BY LenProperties DEF ReaderInv
    <3> QED
      BY <3>1 DEF ReaderInv, Range
  <2> QED
    BY <2>1 DEF Leaked, Syncs
<1> QED
  BY <1>1, <1>3, <1>6, <1>7, <1>8, <1>9

\* What is allocated is with the output thread, on the list or leaked, and no
\* packet is in two of these places (send.c 104-142, transport_z.c 69-81).
THEOREM AccountedCorrect == Spec => []PacketsAccounted
<1>1. Inv => PacketsAccounted
  <2> SUFFICES ASSUME Inv PROVE PacketsAccounted
    OBVIOUS
  <2>1. Range(stored) = Range(taken) \union Range(Chain) /\ Leaked = Range(taken) \union Syncs
    BY Parts
  <2>2. live = ({p} \ {NULL}) \union Range(Chain) \union Leaked
    BY <2>1 DEF Inv, LiveInv
  <2>3. \A k \in Range(stored) : k \in 1 .. Len(handled) /\ k # p /\ k \notin Syncs
    BY StoredFacts DEF Inv, Syncs
  <2>4. {p, NULL} \intersect (Range(Chain) \union Leaked) = {}
    <3>1. ~ (NULL \in 1 .. Len(handled)) /\ p \notin Syncs
      BY StoredFacts DEF Inv, NULL, Syncs
    <3>2. NULL \notin Syncs
      BY <3>1 DEF Syncs
    <3> QED
      BY <2>1, <2>3, <3>1, <3>2
  <2>5. Range(Chain) \intersect Leaked = {}
    BY <2>1, <2>3, Parts
  <2> QED
    BY <2>2, <2>4, <2>5, Parts DEF PacketsAccounted, Inv, BusInv, ReaderInv, DumpInv
<1> QED
  BY <1>1, InvCorrect, PTL

\* What the main thread has taken and what is on the list is what was stored,
\* in that order; last is the end of the list (send.c 118-142, 304-319).
THEOREM StoredCorrect == Spec => []StoredInOrder
<1>1. Inv => StoredInOrder
  <2> SUFFICES ASSUME Inv PROVE StoredInOrder
    OBVIOUS
  <2>1. Chain = Queue /\ stored = taken \o Chain
    BY Parts, QueueFacts DEF Inv
  <2>2. last = IF Chain = <<>> THEN NULL ELSE Last(Chain)
    BY <2>1 DEF Inv, ListInv, Links, Last
  <2> QED
    BY <2>1, <2>2 DEF StoredInOrder
<1> QED
  BY <1>1, InvCorrect, PTL

\* The screen shows the texts of the messages written to this stream, in their
\* order and without a rest of another one (commandline.c 91-124).
THEOREM DumpCorrect == Spec => []DumpRight
<1>1. Inv => DumpRight
  BY DEF Inv, DumpInv
<1> QED
  BY <1>1, InvCorrect, PTL

-----------------------------------------------------------------------------
(***************************************************************************)
(* The refinement of PacketChannel: where the bytes of a transfer are      *)
(***************************************************************************)

\* The bytes of message i of s, and the place of the byte after byte b of it.
Total(s, i) == HeaderSize + Len(s[i].data)
After(s, i, b) == IF b = Total(s, i) THEN <<i + 1, 1>> ELSE <<i, b + 1>>

\* A packet w with bytes of one message from place x on; headers travel alone.
Piece(s, w, x) ==
  /\ Len(w) \in 1 .. PacketSize /\ x[1] \in 1 .. Len(s) /\ x[2] \in Nat \ {0}
  /\ x[2] + Len(w) - 1 <= Total(s, x[1])
  /\ w = Part(x[1], x[2], x[2] + Len(w) - 1)
  /\ x[2] <= HeaderSize => x[2] = 1 /\ Len(w) = HeaderSize

\* The packets of w are the bytes of s, each at its place, without a gap and
\* to the end.
Ordered(s, w, place) ==
  /\ place[Len(w) + 1] = <<Len(s) + 1, 1>>
  /\ \A k \in 1 .. Len(w) :
       /\ Piece(s, w[k], place[k])
       /\ place[k + 1] = After(s, place[k][1], place[k][2] + Len(w[k]) - 1)

\* Parts of a message that meet are one part.
LEMMA PartCat ==
  ASSUME NEW i \in Nat, NEW a \in Nat, NEW b \in Int, NEW e \in Int, a <= b + 1, b <= e
  PROVE  /\ Len(Part(i, a, b)) = b - a + 1
         /\ Part(i, a, b) \o Part(i, b + 1, e) = Part(i, a, e)
<1> DEFINE S == {i} \X Int
           f(x, l) == [j \in 1 .. l |-> <<i, x - 1 + j>>]
           n == b - a + 1
           m == e - b
<1>0. n \in Nat /\ m \in Nat /\ b + 1 = a + n /\ e - a + 1 = n + m /\ e - (b + 1) + 1 = m
  OBVIOUS
<1>1. /\ Part(i, a, b) = f(a, n) /\ Part(i, b + 1, e) = f(a + n, m)
      /\ Part(i, a, e) = f(a, n + m)
  BY <1>0 DEF Part
<1> HIDE DEF n, m
<1>2. ASSUME NEW x \in Nat, NEW l \in Nat
      PROVE  f(x, l) \in Seq(S) /\ Len(f(x, l)) = l /\ \A j \in 1 .. l : f(x, l)[j] = <<i, x - 1 + j>>
  <2>1. f(x, l) \in [1 .. l -> S]
    OBVIOUS
  <2> QED
    BY <2>1, FunctionSeq
<1> DEFINE Is(g, x, l) == g \in Seq(S) /\ Len(g) = l /\ \A j \in 1 .. l : g[j] = <<i, x - 1 + j>>
           u == f(a, n)
           v == f(a + n, m)
           w == f(a, n + m)
           c == u \o v
<1>3. Is(u, a, n) /\ Is(v, a + n, m) /\ Is(w, a, n + m)
  <2>1. n \in Nat /\ m \in Nat /\ a + n \in Nat /\ n + m \in Nat
    BY <1>0
  <2> HIDE DEF f
  <2>2. \A x, l \in Nat : Is(f(x, l), x, l)
    BY <1>2
  <2> HIDE DEF Is
  <2> QED
    BY <2>1, <2>2
<1> HIDE DEF u, v, w, S
<1>4. /\ c \in Seq(S) /\ Len(c) = n + m
      /\ \A j \in 1 .. n + m : c[j] = IF j <= n THEN u[j] ELSE v[j - n]
  <2>1. u \in Seq(S) /\ v \in Seq(S) /\ Len(u) = n /\ Len(v) = m
    BY <1>3
  <2> HIDE DEF Is
  <2> QED
    BY <2>1, ConcatProperties
<1> HIDE DEF c
<1>5. ASSUME NEW j \in 1 .. n + m
      PROVE  c[j] = w[j]
  <2>1. w[j] = <<i, a - 1 + j>>
    BY <1>3
  <2>2. CASE j <= n
    <3>1. j \in 1 .. n
      BY <1>0, <2>2
    <3> QED
      BY <1>3, <1>4, <2>1, <2>2, <3>1
  <2>3. CASE ~ (j <= n)
    <3>1. j - n \in 1 .. m /\ a + n - 1 + (j - n) = a - 1 + j
      BY <1>0, <2>3
    <3>2. v[j - n] = <<i, a + n - 1 + (j - n)>>
      BY <1>3, <3>1
    <3> QED
      BY <1>4, <2>1, <2>3, <3>1, <3>2
  <2> QED
    BY <2>2, <2>3
<1>6. c = w
  BY <1>0, <1>3, <1>4, <1>5, SeqEqual
<1> QED
  BY <1>1, <1>3, <1>6 DEF c, u, v, w, n

\* The bytes of one packet more.
LEMMA PrefixBytes ==
  ASSUME NEW S, NEW w \in Seq(Seq(S)), NEW l \in 0 .. Len(w) - 1
  PROVE  FlattenSeq(SubSeq(w, 1, l + 1)) = FlattenSeq(SubSeq(w, 1, l)) \o w[l + 1]
<1> DEFINE T == Seq(S)
           u == SubSeq(w, 1, l)
           v == SubSeq(w, 1, l + 1)
           e == w[l + 1]
<1>1. Len(w) \in Nat /\ l \in Nat /\ l + 1 \in 1 .. Len(w) /\ \A j \in 1 .. Len(w) : w[j] \in T
  BY LenProperties, ElementOfSeq
<1> HIDE DEF T
<1>2. w \in Seq(T) /\ e \in T
  BY <1>1 DEF T
<1>3. u \in Seq(T) /\ Len(u) = l /\ \A j \in 1 .. l : u[j] = w[j]
  <2>1. /\ 1 \in Int /\ l \in Int /\ \A j \in 1 .. l : w[j] \in T
        /\ l - 1 + 1 = l /\ (IF 1 <= l THEN l - 1 + 1 ELSE 0) = l
        /\ \A j \in 1 .. l : 1 + j - 1 = j
    BY <1>1
  <2> QED
    BY <2>1, SubSeqProperties
<1>4. v \in Seq(T) /\ Len(v) = l + 1 /\ \A j \in 1 .. l + 1 : v[j] = w[j]
  <2> DEFINE m == l + 1
  <2>1. m \in Int /\ m >= 1 /\ \A j \in 1 .. m : w[j] \in T
    BY <1>1
  <2> HIDE DEF m
  <2>2. /\ 1 \in Int /\ m - 1 + 1 = m /\ (IF 1 <= m THEN m - 1 + 1 ELSE 0) = m
        /\ \A j \in 1 .. m : 1 + j - 1 = j
    BY <2>1
  <2>3. SubSeq(w, 1, m) \in Seq(T) /\ Len(SubSeq(w, 1, m)) = m /\ \A j \in 1 .. m : SubSeq(w, 1, m)[j] = w[j]
    BY <2>1, <2>2, SubSeqProperties
  <2> QED
    BY <2>3 DEF m
<1> HIDE DEF u, v, e
<1> DEFINE x == Append(u, e)
<1>5. /\ x \in Seq(T) /\ Len(x) = l + 1 /\ x[l + 1] = e
      /\ \A j \in 1 .. l : x[j] = u[j]
  BY <1>2, <1>3, AppendProperties
<1> HIDE DEF x
<1>6. v = x
  <2>1. \A j \in 1 .. l + 1 : j \in 1 .. l \/ j = l + 1
    BY <1>1
  <2>2. \A j \in 1 .. l + 1 : v[j] = x[j]
    BY <1>3, <1>4, <1>5, <2>1 DEF e
  <2> QED
    BY <1>4, <1>5, <2>2, SeqEqual
<1>7. FlattenSeq(Append(u, e)) = Cat(FlattenSeq(u), e)
  BY <1>2, <1>3, FlattenAppend DEF T
<1> QED
  BY <1>6, <1>7 DEF Cat, u, v, e, x

\* A transfer that takes k packets of w, the first of them at byte a of message
\* i, and that had fewer than the n bytes it asked for before the last one: it
\* asked for the header, or for all that is left of the message.
Asked(s, w, i, a, n, k) ==
  /\ k \in 1 .. Len(w) /\ n \in Nat \ {0}
  /\ (a = 1 /\ n = HeaderSize) \/ (a > HeaderSize /\ a + n - 1 = Total(s, i))
  /\ \A l \in 1 .. k - 1 : Len(FlattenSeq(SubSeq(w, 1, l))) < n

\* t are the n bytes of message i from a on, at most limit and all of a header;
\* the next one is at x.
Bit(s, i, a, limit, t, x) ==
  /\ Len(t) \in 0 .. limit /\ (a = 1 /\ t # <<>> => Len(t) = limit)
  /\ t = Part(i, a, a + Len(t) - 1)
  /\ x = After(s, i, a + Len(t) - 1)

\* It gets a part of the message, and no more than it asked for.
LEMMA TakenBytes ==
  ASSUME NEW S, NEW w \in Seq(Seq(S)), NEW s \in Seq(Messages), NEW place, Ordered(s, w, place),
         NEW i \in Nat, NEW a \in Nat \ {0}, place[1] = <<i, a>>,
         NEW n, NEW k, Asked(s, w, i, a, n, k)
  PROVE  LET t == FlattenSeq(SubSeq(w, 1, k)) IN
         /\ i \in 1 .. Len(s) /\ t # <<>> /\ Bit(s, i, a, n, t, place[k + 1])
<1> DEFINE t(l) == FlattenSeq(SubSeq(w, 1, l))
<1>1. /\ k \in Nat /\ k > 0 /\ Len(w) \in Nat /\ k <= Len(w) /\ n \in Nat /\ n > 0
      /\ \A l \in 1 .. k - 1 : Len(t(l)) < n
  BY LenProperties DEF Asked
<1>2. \A l \in 1 .. k : Piece(s, w[l], place[l])
        /\ place[l + 1] = After(s, place[l][1], place[l][2] + Len(w[l]) - 1)
  BY <1>1, SMTT(30) DEF Ordered
<1>3. i \in 1 .. Len(s)
  BY <1>1, <1>2 DEF Piece
<1>4. Len(s[i].data) \in Nat
  <2>1. s[i] \in Messages
    BY <1>3, ElementOfSeq
  <2>2. s[i].data \in Seq(Nat)
    BY <2>1, MessagesAssumption
  <2> QED
    BY <2>2, LenProperties
<1> DEFINE T == {l \in 0 .. k : Bit(s, i, a, n, t(l), place[l + 1]) /\ (l > 0 => t(l) # <<>>)}
<1>5. 0 \in T
  <2>1. t(0) = <<>>
    <3>1. SubSeq(w, 1, 0) = <<>>
      BY SubSeqEmpty
    <3> QED
      BY <3>1 DEF FlattenSeq
  <2>2. Part(i, a, a + 0 - 1) = <<>>
    <3>1. Part(i, a, a + 0 - 1) = [j \in 1 .. 0 |-> <<i, a - 1 + j>>]
      BY DEF Part
    <3> QED
      BY <3>1
  <2>3. After(s, i, a + 0 - 1) = <<i, a>>
    BY <1>1, <1>4, SMTT(30) DEF After, Total, HeaderSize, Asked
  <2>4. Len(<<>>) = 0
    BY EmptySeq
  <2>5. Bit(s, i, a, n, <<>>, <<i, a>>)
    BY <1>1, <2>2, <2>3, <2>4 DEF Bit
  <2>6. 0 + 1 = 1 /\ 0 \in 0 .. k /\ ~ (0 > 0)
    BY <1>1
  <2> HIDE DEF t
  <2> QED
    BY <2>1, <2>5, <2>6
<1>6. ASSUME NEW l \in 0 .. k - 1, l \in T
      PROVE  l + 1 \in T
  <2> DEFINE u == t(l)
             v == w[l + 1]
             x == t(l + 1)
             c == Len(u)
             d == Len(v)
  <2>1. l \in Nat /\ l + 1 \in 1 .. k /\ l \in 0 .. Len(w) - 1 /\ (l = 0 \/ l \in 1 .. k - 1)
    BY <1>1
  <2>2. x = u \o v
    BY <2>1, PrefixBytes
  <2>3. Bit(s, i, a, n, u, place[l + 1]) /\ (l > 0 => u # <<>>)
    BY <1>6
  <2>4. Piece(s, v, place[l + 1]) /\ place[l + 1 + 1] = After(s, place[l + 1][1], place[l + 1][2] + d - 1)
    BY <1>2, <2>1
  <2>5. c < n
    <3>1. CASE l = 0
      <4>1. u = <<>>
        <5>1. SubSeq(w, 1, 0) = <<>>
          BY SubSeqEmpty
        <5> QED
          BY <3>1, <5>1 DEF FlattenSeq
      <4> QED
        BY <1>1, <4>1, EmptySeq
    <3>2. CASE l \in 1 .. k - 1
      BY <1>1, <3>2
    <3> QED
      BY <2>1, <3>1, <3>2
  <2>6. u \in Seq(S) /\ v \in Seq(S)
    <3>1. l + 1 \in 1 .. Len(w)
      BY <1>1, <2>1
    <3>2. v \in Seq(S)
      BY <3>1, ElementOfSeq
    <3>3. SubSeq(w, 1, l) \in Seq(Seq(S))
      <4> DEFINE R == Seq(S)
      <4>1. 1 \in Int /\ l \in Int /\ \A j \in 1 .. l : w[j] \in R
        BY <1>1, <2>1, ElementOfSeq
      <4> HIDE DEF R
      <4>2. SubSeq(w, 1, l) \in Seq(R)
        BY <4>1, SubSeqProperties
      <4> QED
        BY <4>2 DEF R
    <3> QED
      BY <3>2, <3>3, FlattenType
  <2> HIDE DEF t, T, u, v, x
  <2>7. c \in Nat /\ d \in Nat /\ Len(x) = c + d
    BY <2>2, <2>6, LenProperties, ConcatProperties
  <2>8. a + c - 1 # Total(s, i)
    <3>1. Total(s, i) \in Nat /\ Total(s, i) >= HeaderSize
      BY <1>4 DEF Total, HeaderSize
    <3>2. CASE a = 1 /\ n = HeaderSize
      BY <2>5, <2>7, <3>1, <3>2 DEF HeaderSize
    <3>3. CASE a + n - 1 = Total(s, i)
      BY <1>1, <2>5, <2>7, <3>1, <3>3
    <3> QED
      BY <3>2, <3>3 DEF Asked
  <2>9. place[l + 1] = <<i, a + c>>
    <3>1. place[l + 1] = After(s, i, a + c - 1) /\ a + c - 1 + 1 = a + c
      BY <2>3, <2>7 DEF Bit
    <3> QED
      BY <2>8, <3>1 DEF After
  <2>10. /\ d \in 1 .. PacketSize /\ a + c + d - 1 <= Total(s, i)
         /\ v = Part(i, a + c, a + c + d - 1)
         /\ a + c <= HeaderSize => a + c = 1 /\ d = HeaderSize
    BY <2>4, <2>9 DEF Piece
  <2>11. c + d \in 0 .. n /\ c + d > 0 /\ (a = 1 => c + d = n)
    <3>1. a = 1 /\ n = HeaderSize => c = 0 /\ d = n
      <4>1. a = 1 /\ n = HeaderSize => a + c <= HeaderSize
        BY <2>5, <2>7 DEF HeaderSize
      <4> QED
        BY <2>7, <2>10, <4>1
    <3>2. a > HeaderSize /\ a + n - 1 = Total(s, i) => c + d <= n /\ a # 1
      BY <1>1, <2>7, <2>10 DEF HeaderSize
    <3> QED
      BY <1>1, <2>7, <2>10, <3>1, <3>2 DEF Asked
  <2>12. x = Part(i, a, a + (c + d) - 1)
    <3> DEFINE b == a + c - 1
               e == a + c + d - 1
    <3>1. u = Part(i, a, a + c - 1)
      BY <2>3 DEF Bit
    <3>2. Part(i, a, b) \o Part(i, b + 1, e) = Part(i, a, e)
      <4>1. b \in Int /\ e \in Int /\ a <= b + 1 /\ b <= e
        BY <2>7
      <4> HIDE DEF b, e
      <4> QED
        BY <4>1, PartCat
    <3>3. e = a + (c + d) - 1 /\ b + 1 = a + c
      BY <2>7
    <3> QED
      BY <2>2, <2>10, <3>1, <3>2, <3>3
  <2>13. place[l + 1 + 1] = After(s, i, a + (c + d) - 1)
    <3>1. a + c + d - 1 = a + (c + d) - 1
      BY <2>7
    <3> QED
      BY <2>4, <2>9, <3>1
  <2>14. x # <<>>
    BY <2>7, <2>11, EmptySeq
  <2>15. Bit(s, i, a, n, x, place[l + 1 + 1])
    BY <2>7, <2>11, <2>12, <2>13 DEF Bit
  <2> QED
    BY <2>1, <2>14, <2>15 DEF T, x, t
<1>7. k \in T
  <2> HIDE DEF T
  <2>1. \A l \in 0 .. k - 1 : l \in T => l + 1 \in T
    BY <1>6
  <2>2. \A l \in 0 .. k : l \in T
    BY <1>1, <1>5, <2>1, UpTo
  <2> QED
    BY <1>1, <2>2
<1> QED
  BY <1>1, <1>3, <1>7

\* t goes on where s ends.
Longer(s, t) ==
  /\ Len(s) \in Nat /\ Len(t) \in Nat /\ Len(s) <= Len(t)
  /\ \A i \in 1 .. Len(s) : t[i] = s[i]

\* Messages that are sent later leave the packets where they are.
LEMMA PieceGrown ==
  ASSUME NEW s \in Seq(Messages), NEW t \in Seq(Messages), Longer(s, t),
         NEW w, NEW x, NEW b \in Int, Piece(s, w, x)
  PROVE  Piece(t, w, x) /\ After(t, x[1], b) = After(s, x[1], b)
<1>1. x[1] \in 1 .. Len(s) /\ x[1] \in 1 .. Len(t) /\ t[x[1]] = s[x[1]]
  BY DEF Piece, Longer
<1>2. Total(t, x[1]) = Total(s, x[1])
  BY <1>1 DEF Total
<1> QED
  BY <1>1, <1>2 DEF Piece, After

\* Concatenation of sequences whose lengths have a name.
Joint(S, c, s, t, n, m) ==
  /\ c \in Seq(S) /\ Len(c) = n + m
  /\ \A k \in 1 .. n + m : c[k] = IF k <= n THEN s[k] ELSE t[k - n]
LEMMA CatLen ==
  ASSUME NEW S, NEW s \in Seq(S), NEW t \in Seq(S), NEW n \in Nat, NEW m \in Nat,
         Len(s) = n, Len(t) = m
  PROVE  Joint(S, s \o t, s, t, n, m)
BY ConcatProperties DEF Joint

\* A message more, with a packet for the header and packets that cover the
\* payload, goes behind the others.
LEMMA OrderedMore ==
  ASSUME NEW s \in Seq(Messages), NEW m \in Messages,
         NEW T, NEW w \in Seq(T), NEW body \in Seq(T),
         NEW i \in Nat, i = Len(s) + 1, Part(i, 1, HeaderSize) \in T,
         Covers(body, i, HeaderSize + 1, HeaderSize + Len(m.data)),
         NEW place, Ordered(s, w, place)
  PROVE  \E more : /\ Ordered(Append(s, m), w \o (<<Part(i, 1, HeaderSize)>> \o body), more)
                   /\ more[1] = place[1]
<1> DEFINE t == Append(s, m)
           h == <<Part(i, 1, HeaderSize)>>
           new == h \o body
           v == w \o new
           n == Len(w)
           c == Len(body)
           len == Len(m.data)
<1>1. /\ t \in Seq(Messages) /\ Len(s) \in Nat /\ Len(t) = Len(s) + 1 /\ t[i] = m
      /\ \A j \in 1 .. Len(s) : t[j] = s[j]
      /\ n \in Nat /\ c \in Nat /\ i \in Nat /\ i = Len(t)
  BY AppendProperties, LenProperties
<1>2. len \in Nat /\ Total(t, i) = HeaderSize + len
  <2>1. m.data \in Seq(Nat)
    BY MessagesAssumption
  <2> QED
    BY <1>1, <2>1, LenProperties DEF Total
<1> HIDE DEF t, len
<1>3. PICK start : Starts(start, body, i, HeaderSize + 1, HeaderSize + len)
  BY DEF Covers, len
<1>4. /\ start \in [1 .. c + 1 -> Nat] /\ start[1] = HeaderSize + 1
      /\ start[c + 1] = HeaderSize + len + 1
      /\ \A k \in 1 .. c : /\ HeaderSize + 1 <= start[k] /\ start[k] <= HeaderSize + len
                           /\ start[k] < start[k + 1] /\ start[k + 1] - start[k] <= PacketSize
                           /\ body[k] = Part(i, start[k], start[k + 1] - 1)
  BY <1>3 DEF Starts
<1>5. h \in Seq(T) /\ Len(h) = 1 /\ h[1] = Part(i, 1, HeaderSize)
  OBVIOUS
<1>c. n = Len(w) /\ c = Len(body)
  OBVIOUS
<1> HIDE DEF h, n, c
<1>6. /\ new \in Seq(T) /\ Len(new) = 1 + c
      /\ \A k \in 1 .. 1 + c : new[k] = IF k <= 1 THEN h[k] ELSE body[k - 1]
  <2>1. h \in Seq(T) /\ body \in Seq(T)
    BY <1>5
  <2> QED
    <3> DEFINE u == Len(h)
    <3>0. u = 1
      BY <1>5
    <3>1. u = Len(h) /\ u \in Nat /\ c \in Nat
      BY <1>1, <1>5
    <3> HIDE DEF u
    <3>2. Joint(T, new, h, body, u, c)
      BY <1>c, <2>1, <3>1, CatLen
    <3> HIDE DEF new
    <3> QED
      BY <3>0, <3>2 DEF Joint
<1> HIDE DEF new
<1>7. /\ v \in Seq(T) /\ Len(v) = n + (1 + c)
      /\ \A k \in 1 .. n + (1 + c) : v[k] = IF k <= n THEN w[k] ELSE new[k - n]
  <2> DEFINE u == 1 + c
  <2>1. new \in Seq(T) /\ Len(new) = u /\ Len(w) = n /\ n \in Nat /\ u \in Nat
    BY <1>1, <1>6, <1>c
  <2> HIDE DEF u
  <2>2. Joint(T, v, w, new, n, u)
    BY <2>1, CatLen
  <2> HIDE DEF v
  <2> QED
    BY <2>2 DEF Joint, u
<1> HIDE DEF v
<1> DEFINE more == [k \in 1 .. n + c + 2 |-> IF k <= n THEN place[k]
                                             ELSE IF k = n + 1 THEN <<i, 1>>
                                             ELSE After(t, i, start[k - n - 1] - 1)]
<1>8. /\ place[n + 1] = <<i, 1>>
      /\ \A k \in 1 .. n : /\ Piece(s, w[k], place[k])
                           /\ place[k + 1] = After(s, place[k][1], place[k][2] + Len(w[k]) - 1)
  BY DEF Ordered, n
<1>m. \A k \in 1 .. n + c + 2 : more[k] = IF k <= n THEN place[k]
                                         ELSE IF k = n + 1 THEN <<i, 1>>
                                         ELSE After(t, i, start[k - n - 1] - 1)
  OBVIOUS
<1> HIDE DEF more
<1>9. /\ \A k \in 1 .. n + 1 : more[k] = place[k]
      /\ \A k \in 1 .. c + 1 : more[n + 1 + k] = After(t, i, start[k] - 1)
  <2>1. ASSUME NEW k \in 1 .. n + 1
        PROVE  more[k] = place[k]
    <3>1. k \in 1 .. n + c + 2 /\ (k <= n \/ k = n + 1)
      BY <1>1
    <3>2. CASE k <= n
      BY <1>m, <3>1, <3>2
    <3>3. CASE k = n + 1
      BY <1>1, <1>8, <1>m, <3>1, <3>3
    <3> QED
      BY <3>1, <3>2, <3>3
  <2>2. ASSUME NEW k \in 1 .. c + 1
        PROVE  more[n + 1 + k] = After(t, i, start[k] - 1)
    <3> DEFINE l == n + 1 + k
    <3>1. n \in Nat /\ c \in Nat /\ k \in Nat /\ 1 <= k /\ k <= c + 1
      BY <1>1
    <3>2. l \in 1 .. n + c + 2 /\ ~ (l <= n) /\ l # n + 1 /\ l - n - 1 = k
      BY <3>1
    <3> HIDE DEF l
    <3>3. more[l] = After(t, i, start[l - n - 1] - 1)
      BY <1>m, <3>2
    <3> QED
      BY <3>2, <3>3 DEF l
  <2> QED
    BY <2>1, <2>2
<1>10. more[1] = place[1]
  BY <1>1, <1>9
<1>11. more[Len(v) + 1] = <<Len(t) + 1, 1>>
  <2>1. c + 1 \in 1 .. c + 1 /\ Len(v) + 1 = n + 1 + (c + 1)
    BY <1>1, <1>7
  <2>2. more[Len(v) + 1] = After(t, i, start[c + 1] - 1)
    BY <1>9, <2>1
  <2>3. start[c + 1] - 1 = Total(t, i)
    BY <1>2, <1>4 DEF HeaderSize
  <2> QED
    BY <1>1, <2>2, <2>3 DEF After
<1>k. Len(v) = n + (1 + c) /\ n \in Nat /\ c \in Nat
  BY <1>1, <1>7
<1>12. ASSUME NEW k \in 1 .. Len(v)
       PROVE  /\ Piece(t, v[k], more[k])
              /\ more[k + 1] = After(t, more[k][1], more[k][2] + Len(v[k]) - 1)
  <2>1. CASE k <= n
    <3>0. k \in 1 .. n /\ k \in 1 .. n + 1 /\ k + 1 \in 1 .. n + 1 /\ k \in 1 .. n + (1 + c)
      BY <1>1, <1>k, <2>1
    <3>1. k \in 1 .. n /\ v[k] = w[k] /\ more[k] = place[k] /\ more[k + 1] = place[k + 1]
      BY <1>7, <1>9, <2>1, <3>0
    <3> DEFINE x == place[k]
               y == w[k]
               b == x[2] + Len(y) - 1
    <3>2. Piece(s, y, x) /\ place[k + 1] = After(s, x[1], b)
      BY <1>8, <3>1
    <3>3. Longer(s, t) /\ t \in Seq(Messages) /\ b \in Int
      <4>1. Longer(s, t)
        BY <1>1 DEF Longer
      <4>2. Len(y) \in Nat /\ x[2] \in Nat
        BY <3>2, SizesAssumption DEF Piece
      <4> QED
        BY <1>1, <4>1, <4>2, SMTT(30)
    <3> HIDE DEF x, y, b
    <3>4. Piece(t, y, x) /\ After(t, x[1], b) = After(s, x[1], b)
      BY <3>2, <3>3, PieceGrown
    <3> QED
      BY <3>1, <3>2, <3>4 DEF x, y, b
  <2>2. CASE k = n + 1
    <3>1. v[k] = Part(i, 1, HeaderSize) /\ more[k] = <<i, 1>>
      <4>1. k - n = 1 /\ k \in 1 .. n + (1 + c) /\ ~ (k <= n) /\ k \in 1 .. n + 1 /\ 1 \in 1 .. 1 + c
        BY <1>1, <1>7, <2>2
      <4>2. new[1] = h[1]
        BY <1>6, <4>1
      <4> QED
        BY <1>5, <1>7, <1>8, <1>9, <2>2, <4>1, <4>2
    <3>2. Len(v[k]) = HeaderSize
      <4> DEFINE b == HeaderSize
      <4>0. b \in Int /\ 1 <= b + 1
        BY DEF HeaderSize
      <4> HIDE DEF b
      <4>1. Len(Part(i, 1, b)) = b - 1 + 1
        BY <1>1, <4>0, PartCat
      <4> QED
        BY <3>1, <4>0, <4>1 DEF b
    <3>3. Piece(t, v[k], more[k])
      <4>1. HeaderSize \in 1 .. PacketSize /\ 1 + HeaderSize - 1 = HeaderSize
        BY SizesAssumption DEF HeaderSize
      <4> QED
        BY <1>1, <1>2, <3>1, <3>2, <4>1 DEF Piece
    <3>4. more[k + 1] = After(t, i, start[1] - 1)
      <4>1. 1 \in 1 .. c + 1
        BY <1>1
      <4> QED
        BY <1>9, <2>2, <4>1
    <3>5. start[1] - 1 = 1 + HeaderSize - 1
      BY <1>4 DEF HeaderSize
    <3> QED
      BY <3>1, <3>2, <3>3, <3>4, <3>5
  <2>3. CASE k > n + 1
    <3> DEFINE j == k - n - 1
    <3>1. j \in 1 .. c /\ k = n + 1 + j /\ k + 1 = n + 1 + (j + 1) /\ j + 1 \in 1 .. c + 1 /\ j \in 1 .. c + 1
      BY <1>k, <2>3
    <3>2. v[k] = body[j]
      <4>1. k - n \in 1 .. 1 + c /\ ~ (k - n <= 1) /\ k - n - 1 = j /\ ~ (k <= n)
            /\ k \in 1 .. n + (1 + c)
        BY <1>k, <2>3
      <4>2. new[k - n] = body[k - n - 1]
        BY <1>6, <4>1
      <4> QED
        BY <1>7, <4>1, <4>2
    <3> HIDE DEF j
    <3> DEFINE a == start[j]
               e == start[j + 1]
    <3>3. /\ a \in Nat /\ e \in Nat /\ HeaderSize + 1 <= a /\ a <= HeaderSize + len
          /\ a < e /\ e - a <= PacketSize /\ v[k] = Part(i, a, e - 1)
      BY <1>4, <3>1, <3>2
    <3>4. e <= HeaderSize + len + 1
      <4>1. j + 1 \in 1 .. c \/ j + 1 = c + 1
        BY <1>1, <3>1
      <4>2. j + 1 \in 1 .. c => e <= HeaderSize + len
        BY <1>4
      <4> QED
        BY <1>2, <1>4, <3>3, <4>1, <4>2, SMTT(30) DEF HeaderSize
    <3>5. more[k] = After(t, i, a - 1) /\ more[k + 1] = After(t, i, e - 1)
      BY <1>9, <3>1
    <3> HIDE DEF a, e
    <3>6. more[k] = <<i, a>>
      <4>1. a - 1 # Total(t, i) /\ a - 1 + 1 = a
        BY <1>2, <3>3 DEF HeaderSize
      <4> QED
        BY <3>5, <4>1 DEF After
    <3>7. Len(v[k]) = e - a
      <4> DEFINE b == e - 1
      <4>1. b \in Int /\ a <= b + 1 /\ b - a + 1 = e - a
        BY <3>3
      <4> HIDE DEF b
      <4>2. Len(Part(i, a, b)) = b - a + 1
        BY <1>1, <3>3, <4>1, PartCat
      <4> QED
        BY <3>3, <4>1, <4>2 DEF b
    <3> DEFINE d == e - a
    <3>8. /\ a + d - 1 = e - 1 /\ a + d - 1 <= Total(t, i) /\ d \in 1 .. PacketSize
          /\ a \in Nat \ {0} /\ ~ (a <= HeaderSize)
      <4>1. PacketSize \in Nat
        BY SizesAssumption
      <4> QED
        BY <1>2, <3>3, <3>4, <4>1 DEF HeaderSize
    <3>9. Len(v[k]) = d /\ more[k][1] = i /\ more[k][2] = a /\ v[k] = Part(i, a, a + d - 1)
      BY <3>3, <3>6, <3>7, <3>8
    <3> HIDE DEF d
    <3>10. Piece(t, v[k], more[k])
      <4>1. i \in 1 .. Len(t)
        BY <1>1
      <4> QED
        BY <3>8, <3>9, <4>1 DEF Piece
    <3> QED
      BY <3>5, <3>8, <3>9, <3>10
  <2> QED
    BY <1>1, <1>7, <2>1, <2>2, <2>3
<1>13. Ordered(t, v, more)
  BY <1>11, <1>12 DEF Ordered
<1> QED
  BY <1>10, <1>13 DEF t, v, new, h

\* Taking the first packets leaves the others in order.
LEMMA OrderedTaken ==
  ASSUME NEW s, NEW S, NEW w \in Seq(Seq(S)), NEW k \in DOMAIN w, NEW place, Ordered(s, w, place)
  PROVE  \E rest : /\ Ordered(s, SubSeq(w, k + 1, Len(w)), rest)
                   /\ rest[1] = place[k + 1]
<1> DEFINE v == SubSeq(w, k + 1, Len(w))
           n == Len(w)
           rest == [j \in 1 .. n - k + 1 |-> place[j + k]]
<1>1. /\ k \in 1 .. n /\ Len(v) = n - k /\ n \in Nat
      /\ \A j \in 1 .. n - k : v[j] = w[j + k]
  BY TransferTaken, LenProperties
<1>2. \A j \in 1 .. n - k + 1 : rest[j] = place[j + k]
  OBVIOUS
<1> HIDE DEF v, rest
<1>3. rest[1] = place[k + 1]
  <2>1. 1 \in 1 .. n - k + 1 /\ 1 + k = k + 1
    BY <1>1
  <2> QED
    BY <1>2, <2>1
<1>4. rest[Len(v) + 1] = <<Len(s) + 1, 1>>
  <2>1. n - k + 1 \in 1 .. n - k + 1 /\ n - k + 1 + k = n + 1
    BY <1>1
  <2>2. rest[n - k + 1] = place[n + 1]
    BY <1>2, <2>1
  <2> QED
    BY <1>1, <2>2 DEF Ordered
<1>5. ASSUME NEW j \in 1 .. Len(v)
      PROVE  /\ Piece(s, v[j], rest[j])
             /\ rest[j + 1] = After(s, rest[j][1], rest[j][2] + Len(v[j]) - 1)
  <2> DEFINE l == j + k
  <2>1. /\ j \in 1 .. n - k /\ l \in 1 .. n /\ j \in 1 .. n - k + 1 /\ j + 1 \in 1 .. n - k + 1
        /\ j + 1 + k = l + 1
    <3>1. n \in Nat /\ k \in Nat /\ 1 <= k
      BY <1>1
    <3>2. j \in 1 .. n - k
      BY <1>1
    <3> HIDE DEF n, v
    <3> QED
      BY <3>1, <3>2, SMTT(30)
  <2>2. v[j] = w[l] /\ rest[j] = place[l]
    BY <1>1, <1>2, <2>1
  <2>3. rest[j + 1] = place[l + 1]
    <3>1. rest[j + 1] = place[j + 1 + k]
      BY <1>2, <2>1
    <3> QED
      BY <2>1, <3>1
  <2> HIDE DEF l
  <2> QED
    BY <2>1, <2>2, <2>3 DEF Ordered
<1> QED
  BY <1>3, <1>4, <1>5 DEF Ordered, v

-----------------------------------------------------------------------------
(***************************************************************************)
(* The refinement of PacketChannel: the invariant                          *)
(***************************************************************************)

\* The reader has met no empty packet, and no payload of a wrong length.
Orderly == output # "exit" /\ ~zero /\ (output = "data" => sent[p].flaw \notin {"more", "less"})

\* It has read the first bytes of the part it reads.
Got ==
  /\ output = "header" => got = <<>> \/ (got = Part(p, 1, HeaderSize) /\ p <= Len(sent))
  /\ output = "data" => /\ Len(got) <= Len(sent[p].data)
                        /\ got = Part(p, HeaderSize + 1, HeaderSize + Len(got))
  /\ output \notin {"header", "data"} => got = <<>>

\* The place of the byte it will read next.
Position ==
  IF output = "header" /\ got = <<>> THEN <<p, 1>>
  ELSE IF output = "header" THEN After(sent, p, HeaderSize)
  ELSE IF output = "data" THEN After(sent, p, HeaderSize + Len(got))
  ELSE <<Len(handled) + 1, 1>>

\* The first packet on the bus is there.
OrderInv == Orderly => Got /\ \E place : Ordered(sent, wire, place) /\ place[1] = Position

\* A failing read has a reason that PacketChannel knows.
Reason == ~connected \/ zero \/ (p \in 1 .. Len(sent) /\ sent[p].flaw # "none")

\* A message has a length, and announces it if it is sound.
LEMMA MessageLength ==
  ASSUME BusInv, NEW i \in 1 .. Len(sent)
  PROVE  /\ Len(sent[i].data) \in Nat /\ Len(sent[i].data) <= MaxPayload /\ MaxPayload \in Nat
         /\ sent[i].flaw \notin {"long", "more", "less"} => DataLength(sent[i]) = Len(sent[i].data)
<1>1. sent[i] \in Messages
  BY ElementOfSeq DEF BusInv
<1>2. sent[i].data \in Seq(Nat)
  BY <1>1, MessagesAssumption
<1>3. Len(sent[i].data) \in Nat
  BY <1>2, LenProperties
<1>4. Len(sent[i].data) <= MaxPayload /\ MaxPayload \in Nat
  BY <1>1, SizesAssumption
<1> QED
  BY <1>3, <1>4 DEF DataLength

\* The device's packets go behind the others.
LEMMA SentOrder ==
  ASSUME BusInv, DeviceSends, ~ zero', NEW place, Ordered(sent, wire, place)
  PROVE  \E more : Ordered(sent', wire', more) /\ more[1] = place[1]
<1> DEFINE New(m, empty, cut) ==
             LET i == Len(sent) + 1
             IN  Transfer(i, 1, HeaderSize, FALSE)
                   \o Transfer(i, HeaderSize + 1, HeaderSize + cut, empty)
                   \o Transfer(i, HeaderSize + cut + 1, HeaderSize + Len(m.data), empty)
           Sends(m, empty, cut) ==
             /\ sent' = Append(sent, m) /\ wire' = wire \o New(m, empty, cut)
             /\ zero' = (zero \/ <<>> \in {New(m, empty, cut)[k] : k \in DOMAIN New(m, empty, cut)})
<1>0. PICK m \in Messages, empty \in BOOLEAN :
        \E cut \in Cuts \cap 0 .. Len(m.data) : Sends(m, empty, cut)
  BY DEF DeviceSends
<1>1. PICK cut \in Cuts \cap 0 .. Len(m.data) : Sends(m, empty, cut)
  BY <1>0
<1> DEFINE i == Len(sent) + 1
           len == Len(m.data)
           new == Transfer(i, 1, HeaderSize, FALSE)
                    \o Transfer(i, HeaderSize + 1, HeaderSize + cut, empty)
                    \o Transfer(i, HeaderSize + cut + 1, HeaderSize + len, empty)
           h == Part(i, 1, HeaderSize)
           body == Payload(i, len, cut, empty)
<1>2. i \in Nat /\ i = Len(sent) + 1 /\ len \in Nat /\ cut \in 0 .. len /\ sent \in Seq(Messages)
  <2>1. m.data \in Seq(Nat)
    BY MessagesAssumption
  <2>2. len \in Nat
    BY <2>1, LenProperties
  <2>3. sent \in Seq(Messages) /\ Len(sent) \in Nat
    BY LenProperties DEF BusInv
  <2> QED
    BY <2>2, <2>3
<1>3. /\ sent' = Append(sent, m) /\ wire' = wire \o new
      /\ \A k \in DOMAIN new : new[k] # <<>>
  BY <1>1
<1>4. /\ new = <<h>> \o body /\ <<h>> \in Seq(Seq({i} \X Nat)) /\ body \in Seq(Seq({i} \X Nat))
      /\ \/ Covers(body, i, HeaderSize + 1, HeaderSize + len)
         \/ \E k \in DOMAIN new : new[k] = <<>>
  <2>1. i \in Nat /\ len \in Nat /\ cut \in 0 .. len /\ empty \in BOOLEAN
    BY <1>2
  <2> HIDE DEF i, len
  <2>2. new = <<h>> \o body
    BY <2>1, MessagePackets
  <2>3. <<h>> \in Seq(Seq({i} \X Nat)) /\ body \in Seq(Seq({i} \X Nat))
    BY <2>1, MessagePackets
  <2>4. \/ Covers(body, i, HeaderSize + 1, HeaderSize + len)
        \/ \E k \in DOMAIN new : new[k] = <<>>
    BY <2>1, MessagePackets
  <2> QED
    BY <2>2, <2>3, <2>4
<1> HIDE DEF i, new, h, body
<1> DEFINE T == Seq(Nat \X Nat)
<1>5. wire \in Seq(T) /\ body \in Seq(T) /\ h \in T
  <2>1. Seq(Named) \subseteq T /\ Seq({i} \X Nat) \subseteq T
    <3>1. Named \subseteq Nat \X Nat /\ {i} \X Nat \subseteq Nat \X Nat
      BY <1>2 DEF Named
    <3> QED
      BY <3>1, SeqMonotonic
  <2>2. h \in Seq({i} \X Nat)
    <3> DEFINE S == Seq({i} \X Nat)
    <3>1. <<h>> \in Seq(S) /\ <<h>>[1] = h /\ 1 \in 1 .. Len(<<h>>)
      BY <1>4
    <3> HIDE DEF S
    <3>2. h \in S
      BY <3>1, ElementOfSeq
    <3> QED
      BY <3>2 DEF S
  <2>3. wire \in Seq(Seq(Named))
    BY DEF BusInv
  <2> HIDE DEF T
  <2>4. Seq(Seq(Named)) \subseteq Seq(T) /\ Seq(Seq({i} \X Nat)) \subseteq Seq(T)
    BY <2>1, SeqMonotonic
  <2> QED
    BY <1>4, <2>1, <2>2, <2>3, <2>4
<1> HIDE DEF T
<1>6. Covers(body, i, HeaderSize + 1, HeaderSize + Len(m.data))
  BY <1>3, <1>4
<1>7. \E more : Ordered(Append(sent, m), wire \o (<<h>> \o body), more) /\ more[1] = place[1]
  BY <1>2, <1>5, <1>6, OrderedMore DEF h
<1> QED
  BY <1>3, <1>4, <1>7

\* A turn of usb_read in order: it gets bytes of the message it reads.
LEMMA ReadInOrder ==
  ASSUME BusInv, ReaderInv, output \in {"header", "data"}, Len(got) < Wanted,
         ~ zero, output = "data" => sent[p].flaw \notin {"more", "less"},
         Got, NEW place, Ordered(sent, wire, place), place[1] = Position,
         NEW k \in bulk_read(Wanted - Len(got))
  PROVE  /\ Len(Bytes(k)) \in 1 .. (Wanted - Len(got))
         /\ output = "header" =>
              /\ p <= Len(sent) /\ Joined(Bytes(k)) = Part(p, 1, HeaderSize)
              /\ Joined(Bytes(k)) # <<>> /\ place[k + 1] = After(sent, p, HeaderSize)
         /\ output = "data" =>
              /\ Len(Joined(Bytes(k))) <= Len(sent[p].data)
              /\ Joined(Bytes(k)) = Part(p, HeaderSize + 1, HeaderSize + Len(Joined(Bytes(k))))
              /\ place[k + 1] = After(sent, p, HeaderSize + Len(Joined(Bytes(k))))
<1> DEFINE t == Bytes(k)
           n == Wanted - Len(got)
<1>1. /\ k \in DOMAIN wire /\ \A l \in 1 .. k - 1 : Len(FlattenSeq(SubSeq(wire, 1, l))) < n
      /\ t = FlattenSeq(SubSeq(wire, 1, k))
  BY DEF bulk_read, Bytes
<1>2. k \in 1 .. Len(wire) /\ wire \in Seq(Seq(Named)) /\ t \in Seq(Named)
      /\ got \in Seq(Named) /\ Len(got) \in Nat /\ p \in Nat /\ p > 0
      /\ sent \in Seq(Messages) /\ Len(sent) \in Nat
  <2>1. wire \in Seq(Seq(Named)) /\ got \in Seq(Named) /\ sent \in Seq(Messages)
    BY DEF BusInv
  <2>2. p \in Nat /\ p > 0
    BY LenProperties DEF ReaderInv
  <2> HIDE DEF Named
  <2>3. k \in 1 .. Len(wire) /\ t \in Seq(Named)
    BY <1>1, <2>1, TransferTaken
  <2> QED
    BY <2>1, <2>2, <2>3, LenProperties
<1>3. Len(t) \in Nat /\ (t = <<>> <=> Len(t) = 0)
  <2> HIDE DEF Named
  <2> QED
    BY <1>2, EmptySeq, LenProperties
<1> HIDE DEF t, n
<1>4. CASE output = "header"
  <2>1. got = <<>> /\ Len(got) = 0
    <3>1. Len(Part(p, 1, HeaderSize)) = HeaderSize
      <4> DEFINE a == 1
      <4>1. a \in Nat /\ HeaderSize \in Int /\ a <= HeaderSize + 1 /\ HeaderSize <= HeaderSize
            /\ HeaderSize - a + 1 = HeaderSize
        BY DEF HeaderSize
      <4> HIDE DEF a
      <4>2. Len(Part(p, a, HeaderSize)) = HeaderSize - a + 1
        BY <1>2, <4>1, PartCat
      <4> QED
        BY <4>1, <4>2 DEF a
    <3>2. Len(got) < HeaderSize
      BY <1>4 DEF Wanted
    <3>3. HeaderSize \in Nat
      BY DEF HeaderSize
    <3>4. got = <<>>
      BY <1>2, <1>4, <3>1, <3>2, <3>3 DEF Got
    <3> QED
      BY <3>4, EmptySeq
  <2>2. n = HeaderSize /\ place[1] = <<p, 1>>
    BY <1>4, <2>1 DEF n, Wanted, Position, HeaderSize
  <2>3. Asked(sent, wire, p, 1, n, k)
    BY <1>1, <1>2, <2>2 DEF Asked, HeaderSize
  <2> DEFINE a == 1
  <2>4. a \in Nat \ {0} /\ Asked(sent, wire, p, a, n, k) /\ place[1] = <<p, a>>
    BY <2>2, <2>3
  <2> HIDE DEF a
  <2>5. p \in 1 .. Len(sent) /\ t # <<>> /\ Bit(sent, p, a, n, t, place[k + 1])
    <3> HIDE DEF Named
    <3> QED
      BY <1>1, <1>2, <2>4, TakenBytes
  <2>6. Len(t) = HeaderSize /\ t = Part(p, 1, HeaderSize) /\ place[k + 1] = After(sent, p, HeaderSize)
    <3>1. a = 1 /\ Len(t) = n /\ t = Part(p, a, a + Len(t) - 1)
          /\ place[k + 1] = After(sent, p, a + Len(t) - 1)
      BY <2>5 DEF Bit, a
    <3>2. a + Len(t) - 1 = HeaderSize
      BY <2>2, <3>1 DEF HeaderSize
    <3> QED
      BY <2>2, <3>1, <3>2
  <2>7. Joined(Bytes(k)) = t
    <3>1. <<>> \o t = t
      <4> HIDE DEF Named
      <4> QED
        BY <1>2, ConcatEmptySeq
    <3> QED
      BY <2>1, <3>1 DEF Joined, t
  <2>8. HeaderSize \in 1 .. HeaderSize
    BY DEF HeaderSize
  <2> QED
    BY <1>4, <2>2, <2>5, <2>6, <2>7, <2>8 DEF t, n
<1>5. CASE output = "data"
  <2> DEFINE g == Len(got)
             len == Len(sent[p].data)
             a == HeaderSize + g + 1
             b == HeaderSize + g
             e == a + Len(t) - 1
             c == HeaderSize + 1
  <2>1. p \in 1 .. Len(sent) /\ len \in Nat /\ g < len /\ n = len - g
    <3>1. p \in 1 .. Len(sent) /\ sent[p].flaw \notin {"long", "more", "less"}
      BY <1>2, <1>5 DEF ReaderInv
    <3>2. len \in Nat /\ DataLength(sent[p]) = len
      BY <3>1, MessageLength
    <3>3. Wanted = len
      BY <1>5, <3>2 DEF Wanted
    <3> QED
      BY <3>1, <3>2, <3>3 DEF n
  <2>2. place[1] = <<p, a>>
    <3>1. place[1] = After(sent, p, HeaderSize + g)
      BY <1>5 DEF Position
    <3>2. HeaderSize + g # Total(sent, p)
      BY <1>2, <2>1 DEF Total, HeaderSize
    <3> QED
      BY <3>1, <3>2 DEF After
  <2>3. a \in Nat \ {0} /\ Asked(sent, wire, p, a, n, k)
    <3>1. a \in Nat \ {0} /\ a > HeaderSize /\ n \in Nat \ {0}
      BY <1>2, <2>1 DEF HeaderSize
    <3>2. a + n - 1 = Total(sent, p)
      <4>1. g \in Nat /\ len \in Nat /\ n = len - g
        BY <1>2, <2>1
      <4> HIDE DEF g, len
      <4>2. HeaderSize + g + 1 + n - 1 = HeaderSize + len
        BY <4>1 DEF HeaderSize
      <4> QED
        BY <4>2 DEF Total, g, len
    <3> HIDE DEF a, Named
    <3> QED
      BY <1>1, <1>2, <3>1, <3>2 DEF Asked
  <2>4. t # <<>> /\ Bit(sent, p, a, n, t, place[k + 1])
    <3> HIDE DEF Named, a
    <3> QED
      BY <1>1, <1>2, <2>2, <2>3, TakenBytes
  <2>5. Len(t) \in 1 .. n /\ t = Part(p, a, e) /\ place[k + 1] = After(sent, p, e)
    BY <1>3, <2>1, <2>4 DEF Bit
  <2>6. got = Part(p, c, b)
    BY <1>5 DEF Got
  <2>7. /\ c \in Nat /\ b \in Int /\ e \in Int /\ c <= b + 1 /\ b <= e /\ b + 1 = a
        /\ e - c + 1 = g + Len(t) /\ e = HeaderSize + (g + Len(t)) /\ g + Len(t) <= len /\ c <= e + 1 /\ e <= e
    <3> DEFINE d == Len(t)
    <3>1. g \in Nat /\ len \in Nat /\ d \in Nat /\ 1 <= d /\ d <= len - g
      BY <1>2, <1>3, <2>1, <2>5
    <3> HIDE DEF d, g, len
    <3> QED
      BY <3>1, SMTT(30) DEF HeaderSize, d
  <2> HIDE DEF a, b, c, e
  <2>8. Part(p, c, b) \o Part(p, b + 1, e) = Part(p, c, e)
    <3>1. p \in Nat /\ c \in Nat /\ b \in Int /\ e \in Int /\ c <= b + 1 /\ b <= e
      BY <1>2, <2>7
    <3> QED
      BY <3>1, PartCat
  <2>9. Len(Part(p, c, e)) = e - c + 1
    <3>1. p \in Nat /\ c \in Nat /\ e \in Int /\ c <= e + 1 /\ e <= e
      BY <1>2, <2>7
    <3> QED
      BY <3>1, PartCat
  <2>10. Joined(Bytes(k)) = Part(p, c, e) /\ Len(Joined(Bytes(k))) = g + Len(t)
    BY <2>5, <2>6, <2>7, <2>8, <2>9 DEF Joined, t
  <2> QED
    BY <1>5, <2>5, <2>7, <2>10 DEF c, t, n
<1> QED
  BY <1>4, <1>5

\* A turn of usb_read keeps the order, and fails for a reason.
LEMMA ReadOrder ==
  ASSUME BusInv, ReaderInv, OrderInv, usb_read
  PROVE  OrderInv' /\ (ReadFails => Reason)
<1>1. /\ output \in {"header", "data"} /\ Len(got) < Wanted
      /\ UNCHANGED <<sent, connected, zero>>
  BY DEF usb_read, ReadFrame
<1>2. ASSUME ReadFails
      PROVE  OrderInv'
  BY <1>2 DEF ReadFails, OrderInv, Orderly
<1>3. CASE ~ connected /\ ReadFails
  BY <1>2, <1>3 DEF Reason
<1> DEFINE Gets(k) == /\ got' = Joined(Bytes(k)) /\ wire' = SubSeq(wire, k + 1, Len(wire))
                      /\ UNCHANGED <<output, p, handled, live>>
<1>4. ASSUME NEW k \in bulk_read(Wanted - Len(got)),
             IF Len(Bytes(k)) \in 1 .. (Wanted - Len(got)) THEN Gets(k) ELSE ReadFails
      PROVE  OrderInv' /\ (ReadFails => Reason)
  <2>1. CASE ~ Orderly
    <3>1. Reason
      <4>1. CASE zero
        BY <4>1 DEF Reason
      <4>2. CASE output = "data" /\ sent[p].flaw \in {"more", "less"}
        <5>1. p \in 1 .. Len(sent) /\ sent[p].flaw # "none"
          BY <4>2, LenProperties DEF ReaderInv
        <5> QED
          BY <5>1 DEF Reason
      <4> QED
        BY <1>1, <2>1, <4>1, <4>2 DEF Orderly
    <3>2. CASE ReadFails
      BY <1>2, <3>1, <3>2
    <3>3. CASE Gets(k)
      <4>1. ~ Orderly'
        BY <1>1, <2>1, <3>3 DEF Orderly
      <4> QED
        BY <3>1, <4>1 DEF OrderInv
    <3> QED
      BY <1>4, <3>2, <3>3
  <2>2. CASE Orderly
    <3>1. Got /\ \E place : Ordered(sent, wire, place) /\ place[1] = Position
      BY <2>2 DEF OrderInv
    <3>2. PICK place : Ordered(sent, wire, place) /\ place[1] = Position
      BY <3>1
    <3>3. ~ zero /\ (output = "data" => sent[p].flaw \notin {"more", "less"})
      BY <2>2 DEF Orderly
    <3>4. /\ Len(Bytes(k)) \in 1 .. (Wanted - Len(got))
          /\ output = "header" =>
               /\ p <= Len(sent) /\ Joined(Bytes(k)) = Part(p, 1, HeaderSize)
               /\ Joined(Bytes(k)) # <<>> /\ place[k + 1] = After(sent, p, HeaderSize)
          /\ output = "data" =>
               /\ Len(Joined(Bytes(k))) <= Len(sent[p].data)
               /\ Joined(Bytes(k)) = Part(p, HeaderSize + 1, HeaderSize + Len(Joined(Bytes(k))))
               /\ place[k + 1] = After(sent, p, HeaderSize + Len(Joined(Bytes(k))))
      BY <1>1, <3>1, <3>2, <3>3, ReadInOrder
    <3>5. Gets(k)
      BY <1>4, <3>4
    <3>6. Got' /\ Position' = place[k + 1]
      BY <1>1, <3>4, <3>5 DEF Got, Position
    <3>7. PICK rest : Ordered(sent, SubSeq(wire, k + 1, Len(wire)), rest) /\ rest[1] = place[k + 1]
      <4>1. wire \in Seq(Seq(Named)) /\ k \in DOMAIN wire
        BY DEF BusInv, bulk_read
      <4> HIDE DEF Named
      <4> QED
        BY <3>2, <4>1, OrderedTaken
    <3>8. Ordered(sent', wire', rest) /\ rest[1] = Position'
      BY <1>1, <3>5, <3>6, <3>7
    <3>9. ~ ReadFails
      BY <1>1, <3>5 DEF ReadFails
    <3> QED
      BY <3>6, <3>8, <3>9 DEF OrderInv
  <2> QED
    BY <2>1, <2>2
<1> QED
  BY <1>3, <1>4 DEF usb_read

\* What remote_read has checked is the next part, and what fails its checks
\* has a flaw.
LEMMA RemoteReadOrder ==
  ASSUME BusInv, ReaderInv, OrderInv, remote_read
  PROVE  /\ OrderInv' /\ (ReadFails => Reason)
         /\ output' = "handle" => p \in 1 .. Len(sent) /\ sent[p].flaw = "none"
<1>1. /\ output \in {"header", "data"} /\ Len(got) = Wanted
      /\ UNCHANGED <<sent, connected, zero, wire>>
      /\ got' = <<>>
  BY DEF remote_read, ReadFrame, ReadFails
<1>2. Len(handled) \in Nat /\ p = Len(handled) + 1 /\ p \in Nat /\ Len(sent) \in Nat
  BY <1>1, LenProperties DEF ReaderInv, BusInv
<1>3. CASE /\ output = "header" /\ check_header(p)
           /\ output' = "data" /\ UNCHANGED <<p, handled>>
  <2>1. ~ ReadFails
    BY <1>3 DEF ReadFails
  <2>2. ASSUME Orderly'
        PROVE  Got' /\ \E place : Ordered(sent', wire', place) /\ place[1] = Position'
    <3>1. Orderly
      BY <1>1, <1>3, <2>2 DEF Orderly
    <3>2. Got /\ \E place : Ordered(sent, wire, place) /\ place[1] = Position
      BY <3>1 DEF OrderInv
    <3>3. got # <<>> /\ p <= Len(sent)
      <4>1. Len(got) = HeaderSize
        BY <1>1, <1>3 DEF Wanted
      <4>2. got # <<>>
        BY <4>1, EmptySeq DEF HeaderSize
      <4> QED
        BY <1>3, <3>2, <4>2 DEF Got
    <3>4. Len(<<>>) = 0 /\ Len(sent[p].data) \in Nat
      BY <1>2, <3>3, EmptySeq, MessageLength
    <3>5. Position = After(sent, p, HeaderSize)
      BY <1>3, <3>3 DEF Position
    <3>6. HeaderSize + Len(got') = HeaderSize
      BY <1>1, <3>4 DEF HeaderSize
    <3>7. Position' = After(sent, p, HeaderSize)
      BY <1>1, <1>3, <3>6 DEF Position
    <3>8. got' = Part(p, HeaderSize + 1, HeaderSize)
      BY <1>1 DEF Part, HeaderSize
    <3>9. Got'
      BY <1>1, <1>3, <3>4, <3>6, <3>8 DEF Got
    <3> QED
      BY <1>1, <3>2, <3>5, <3>7, <3>9
  <2> QED
    BY <1>3, <2>1, <2>2 DEF OrderInv
<1>4. CASE /\ output = "data" /\ check_data(p)
           /\ output' = "handle" /\ handled' = Append(handled, p) /\ UNCHANGED p
  <2>1. ~ ReadFails
    BY <1>4 DEF ReadFails
  <2>2. p \in 1 .. Len(sent) /\ sent[p].flaw = "none"
    <3>1. p \in 1 .. Len(sent) /\ sent[p].flaw \notin {"magic", "long", "sum", "more", "less"}
      BY <1>2, <1>4 DEF ReaderInv, check_data
    <3>2. sent[p] \in Messages
      BY <3>1, ElementOfSeq DEF BusInv
    <3>3. sent[p].flaw \in Flaws
      BY <3>2, MessagesAssumption
    <3> QED
      BY <3>1, <3>3 DEF Flaws
  <2>3. ASSUME Orderly'
        PROVE  Got' /\ \E place : Ordered(sent', wire', place) /\ place[1] = Position'
    <3>1. Orderly
      BY <1>1, <1>4, <2>2, <2>3 DEF Orderly
    <3>2. Got /\ \E place : Ordered(sent, wire, place) /\ place[1] = Position
      BY <3>1 DEF OrderInv
    <3>3. Len(got) = Len(sent[p].data)
      BY <1>1, <1>4, <2>2, MessageLength DEF Wanted
    <3>4. Position = <<p + 1, 1>>
      BY <1>4, <3>3 DEF Position, After, Total
    <3>5. Len(handled') + 1 = p + 1
      BY <1>2, <1>4, AppendProperties DEF ReaderInv
    <3>6. Got' /\ Position' = <<p + 1, 1>>
      BY <1>1, <1>4, <3>5 DEF Got, Position
    <3> QED
      BY <1>1, <3>2, <3>4, <3>6
  <2> QED
    BY <2>1, <2>2, <2>3 DEF OrderInv
<1>5. CASE /\ ReadFails
           /\ ~ (output = "header" /\ check_header(p)) /\ ~ (output = "data" /\ check_data(p))
  <2>1. output' = "exit" /\ ~ Orderly'
    BY <1>5 DEF ReadFails, Orderly
  <2>2. CASE zero
    BY <2>1, <2>2 DEF Reason, OrderInv
  <2>3. CASE ~ zero /\ output = "data"
    <3>1. p \in 1 .. Len(sent)
      BY <1>2, <2>3 DEF ReaderInv
    <3>2. ASSUME sent[p].flaw = "none"
          PROVE  FALSE
      <4>1. Orderly
        BY <2>3, <3>2 DEF Orderly
      <4>2. Got
        BY <4>1 DEF OrderInv
      <4>3. Len(got) = DataLength(sent[p])
        BY <1>1, <2>3 DEF Wanted
      <4>4. check_data(p)
        BY <2>3, <3>2, <4>2, <4>3 DEF Got, check_data
      <4> QED
        BY <1>5, <2>3, <4>4
    <3> QED
      BY <2>1, <3>1, <3>2 DEF Reason, OrderInv
  <2>4. CASE ~ zero /\ output = "header"
    <3>1. Orderly
      BY <2>4 DEF Orderly
    <3>2. got # <<>>
      <4>1. Len(got) = HeaderSize
        BY <1>1, <2>4 DEF Wanted
      <4> QED
        BY <4>1, EmptySeq DEF HeaderSize
    <3>3. got = Part(p, 1, HeaderSize) /\ p \in 1 .. Len(sent)
      BY <1>2, <2>4, <3>1, <3>2 DEF OrderInv, Got
    <3>4. ASSUME sent[p].flaw = "none"
          PROVE  FALSE
      <4>1. DataLength(sent[p]) <= MaxPayload
        BY <3>3, <3>4, MessageLength
      <4>2. check_header(p)
        BY <3>3, <3>4, <4>1 DEF check_header
      <4> QED
        BY <1>5, <2>4, <4>2
    <3> QED
      BY <2>1, <3>3, <3>4 DEF Reason, OrderInv
  <2> QED
    BY <1>1, <2>2, <2>3, <2>4
<1> QED
  BY <1>3, <1>4, <1>5 DEF remote_read

\* The device sends: what the reader has read stays where it is.
LEMMA DeviceOrder ==
  ASSUME BusInv, ReaderInv, OrderInv, DeviceSends
  PROVE  OrderInv'
<1>1. Grown /\ UNCHANGED <<output, p, got, handled>>
  BY DeviceSendsBus DEF DeviceSends, reader
<1>2. zero => zero'
  BY DEF DeviceSends
<1>3. SUFFICES ASSUME Orderly'
               PROVE  Got' /\ \E place : Ordered(sent', wire', place) /\ place[1] = Position'
  BY DEF OrderInv
<1>4. /\ output = "data" => p \in 1 .. Len(sent)
      /\ output = "header" => p \in Nat /\ p > 0
  BY LenProperties DEF ReaderInv
<1>5. Orderly
  BY <1>1, <1>2, <1>3, <1>4 DEF Orderly, Grown
<1>6. Got /\ \E place : Ordered(sent, wire, place) /\ place[1] = Position
  BY <1>5 DEF OrderInv
<1>7. PICK place : Ordered(sent, wire, place) /\ place[1] = Position
  BY <1>6
<1>8. \E more : Ordered(sent', wire', more) /\ more[1] = place[1]
  BY <1>3, <1>7, SentOrder DEF Orderly
<1>9. output = "header" /\ got # <<>> => p \in 1 .. Len(sent)
  BY <1>1, <1>4, <1>6 DEF Got, Grown
<1>10. p \in 1 .. Len(sent) => sent'[p] = sent[p]
  BY <1>1 DEF Grown
<1>11. Got'
  BY <1>1, <1>4, <1>6, <1>9, <1>10 DEF Got, Grown
<1>12. Position' = Position
  BY <1>1, <1>4, <1>9, <1>10 DEF Position, After, Total
<1> QED
  BY <1>7, <1>8, <1>11, <1>12

\* Between two messages the reader leaves the bus alone.
LEMMA BetweenOrder ==
  ASSUME ReaderInv, OrderInv, UNCHANGED <<sent, wire, zero, got, handled>>,
         output \notin {"header", "data", "exit"}, output' # "data",
         output' = "header" => p' = NewPacket
  PROVE  OrderInv'
<1>1. SUFFICES ASSUME Orderly'
               PROVE  Got' /\ \E place : Ordered(sent', wire', place) /\ place[1] = Position'
  BY DEF OrderInv
<1>2. Orderly
  BY <1>1 DEF Orderly
<1>3. Got /\ \E place : Ordered(sent, wire, place) /\ place[1] = Position
  BY <1>2 DEF OrderInv
<1>4. got = <<>> /\ Got'
  BY <1>3 DEF Got
<1>5. Position' = Position
  BY <1>4 DEF Position, NewPacket
<1> QED
  BY <1>3, <1>4, <1>5

\* A step that leaves the reader and the bus alone.
LEMMA SameOrder ==
  ASSUME OrderInv, UNCHANGED <<sent, wire, zero, reader>>
  PROVE  OrderInv'
BY DEF OrderInv, Orderly, Got, Position, reader

LEMMA InitOrder == Init => OrderInv
<1> SUFFICES ASSUME Init PROVE OrderInv
  OBVIOUS
<1>1. sent = <<>> /\ wire = <<>> /\ output = "header" /\ p = 1 /\ got = <<>>
  BY DEF Init
<1>2. Got /\ Position = <<1, 1>>
  BY <1>1 DEF Got, Position
<1> DEFINE place == [k \in {1} |-> <<1, 1>>]
<1>3. Len(<<>>) = 0 /\ Len(<<>>) + 1 = 1
  BY EmptySeq
<1>4. Ordered(sent, wire, place) /\ place[1] = <<1, 1>>
  BY <1>1, <1>3 DEF Ordered
<1> QED
  BY <1>2, <1>4 DEF OrderInv

ChannelInv == Inv /\ OrderInv

LEMMA NextOrder == ChannelInv /\ [Next]_vars => ChannelInv'
<1> SUFFICES ASSUME ChannelInv, [Next]_vars PROVE ChannelInv'
  OBVIOUS
<1>1. Inv' /\ BusInv /\ ReaderInv /\ OrderInv
  BY NextInv DEF ChannelInv, Inv
<1>2. CASE DeviceSends
  BY <1>1, <1>2, DeviceOrder DEF ChannelInv
<1>3. CASE Unplug
  BY <1>1, <1>3, SameOrder DEF Unplug, ChannelInv
<1>4. CASE usb_read
  BY <1>1, <1>4, ReadOrder DEF ChannelInv
<1>5. CASE remote_read
  BY <1>1, <1>5, RemoteReadOrder DEF ChannelInv
<1>6. CASE handle_packet
  <2>1. /\ output = "handle" /\ UNCHANGED <<sent, wire, zero, got, handled>>
        /\ output' \in {"header", "clear", "store", "ready"} /\ (output' = "header" => p' = NewPacket)
    BY <1>6 DEF handle_packet, HandleFrame, bus, NextPacket, Goes
  <2> QED
    BY <1>1, <2>1, BetweenOrder DEF ChannelInv
<1>7. CASE clear_received_packet
  BY <1>1, <1>7, BetweenOrder DEF clear_received_packet, HandleFrame, bus, ChannelInv
<1>8. CASE store_received_packet
  <2>1. /\ output = "store" /\ UNCHANGED <<sent, wire, zero, got, handled>>
        /\ output' \in {"header", "ready"} /\ (output' = "header" => p' = NewPacket)
    BY <1>8 DEF store_received_packet, HandleFrame, bus, NextPacket
  <2> QED
    BY <1>1, <2>1, BetweenOrder DEF ChannelInv
<1>9. CASE send_ready
  BY <1>1, <1>9, BetweenOrder DEF send_ready, NextPacket, HandleFrame, bus, ChannelInv
<1>10. CASE MainStep
  <2>1. UNCHANGED <<sent, wire, zero, reader>>
    BY <1>10 DEF MainStep, ForgetIds, shift_received_packet, read_and_dump, DumpFrame, bus
  <2> QED
    BY <1>1, <2>1, SameOrder DEF ChannelInv
<1>11. CASE UNCHANGED vars
  BY <1>1, <1>11, SameOrder DEF vars, bus, ChannelInv
<1> QED
  BY <1>2, <1>3, <1>4, <1>5, <1>6, <1>7, <1>8, <1>9, <1>10, <1>11 DEF Next, OutputStep

-----------------------------------------------------------------------------
(***************************************************************************)
(* The refinement of PacketChannel: the steps                              *)
(***************************************************************************)

\* Nothing that PacketChannel sees changes.
LEMMA ChannelStutters ==
  ASSUME UNCHANGED <<sent, connected, zero, handled>>, (output' # "exit") = (output # "exit")
  PROVE  UNCHANGED Channel!vars
BY DEF Channel!vars

\* A read that fails for a reason closes the channel.
LEMMA ReadCloses ==
  ASSUME BusInv, ReaderInv, output \in {"header", "data"}, ReadFails, Reason,
         UNCHANGED <<sent, connected, zero>>
  PROVE  Channel!Close
<1>1. p = Len(handled) + 1 /\ output' = "exit" /\ UNCHANGED handled
  BY DEF ReaderInv, ReadFails
<1>2. CASE ~ connected \/ zero
  BY <1>1, <1>2 DEF Channel!Close
<1>3. CASE p \in 1 .. Len(sent) /\ sent[p].flaw # "none"
  BY <1>1, <1>3 DEF Channel!Close, Channel!Waiting, Channel!Upcoming
<1> QED
  BY <1>2, <1>3 DEF Reason

\* A packet that passes both checks is the next message, and valid.
LEMMA RemoteReadDelivers ==
  ASSUME BusInv, ReaderInv, OrderInv, remote_read
  PROVE  [Channel!Next]_(Channel!vars)
<1>1. /\ output \in {"header", "data"} /\ UNCHANGED <<sent, connected, zero>>
      /\ ReadFails => Reason
      /\ output' = "handle" => p \in 1 .. Len(sent) /\ sent[p].flaw = "none"
  BY RemoteReadOrder DEF remote_read, ReadFrame
<1>2. CASE output' = "data" /\ UNCHANGED handled
  BY <1>1, <1>2, ChannelStutters
<1>3. CASE output' = "handle" /\ handled' = Append(handled, p)
  <2>1. p = Len(handled) + 1
    BY <1>1 DEF ReaderInv
  <2>2. Channel!Deliver
    BY <1>1, <1>3, <2>1 DEF Channel!Deliver, Channel!Waiting, Channel!Upcoming
  <2> QED
    BY <2>2 DEF Channel!Next
<1>4. CASE ReadFails
  BY <1>1, <1>4, ReadCloses DEF Channel!Next
<1> QED
  BY <1>2, <1>3, <1>4 DEF remote_read

\* Every step is one of PacketChannel or leaves it alone.
LEMMA NextChannelStep == ChannelInv /\ [Next]_vars => [Channel!Next]_(Channel!vars)
<1> SUFFICES ASSUME ChannelInv, [Next]_vars PROVE [Channel!Next]_(Channel!vars)
  OBVIOUS
<1>1. BusInv /\ ReaderInv /\ OrderInv
  BY DEF ChannelInv, Inv
<1>2. CASE DeviceSends
  <2>1. \E m \in Messages : sent' = Append(sent, m)
    BY <1>2 DEF DeviceSends
  <2>2. connected /\ (zero => zero') /\ UNCHANGED <<connected, output, handled>>
    BY <1>2 DEF DeviceSends, reader
  <2>3. zero \in BOOLEAN /\ zero' \in BOOLEAN
    BY <1>1, <1>2, DeviceSendsBus DEF BusInv
  <2>4. Channel!Send
    BY <2>1, <2>2, <2>3 DEF Channel!Send
  <2> QED
    BY <2>4 DEF Channel!Next
<1>3. CASE Unplug
  BY <1>3 DEF Unplug, reader, Channel!Next, Channel!Break
<1>4. CASE usb_read
  <2>1. ReadFails => Reason
    BY <1>1, <1>4, ReadOrder
  <2>2. UNCHANGED <<sent, connected, zero>> /\ output \in {"header", "data"}
    BY <1>4 DEF usb_read, ReadFrame
  <2>3. CASE ReadFails
    BY <1>1, <2>1, <2>2, <2>3, ReadCloses DEF Channel!Next
  <2>4. CASE UNCHANGED <<output, handled>>
    BY <2>2, <2>4, ChannelStutters
  <2> QED
    BY <1>4, <2>3, <2>4 DEF usb_read
<1>5. CASE remote_read
  BY <1>1, <1>5, RemoteReadDelivers
<1>6. CASE handle_packet \/ clear_received_packet \/ store_received_packet \/ send_ready
  <2>1. UNCHANGED <<sent, connected, zero, handled>> /\ output # "exit" /\ output' # "exit"
    BY <1>6 DEF handle_packet, clear_received_packet, store_received_packet, send_ready,
                HandleFrame, bus, NextPacket, Goes
  <2> QED
    BY <2>1, ChannelStutters
<1>7. CASE MainStep
  <2>1. UNCHANGED <<sent, connected, zero, handled, output>>
    BY <1>7 DEF MainStep, ForgetIds, shift_received_packet, read_and_dump, DumpFrame, bus, reader
  <2> QED
    BY <2>1, ChannelStutters
<1>8. CASE UNCHANGED vars
  BY <1>8, ChannelStutters DEF vars, bus, reader
<1> QED
  BY <1>2, <1>3, <1>4, <1>5, <1>6, <1>7, <1>8 DEF Next, OutputStep

\* The safety half of ImplementsChannel: remote_read hands handle_packet the
\* messages of the device, each once, whole and in order, and stops only for a
\* flaw, an empty packet or a loss of the connection (transport_usb.c 52-79,
\* usb_libusb.c 118-206, transport_z.c 161-194).
THEOREM ChannelRefined == Spec => Channel!Steps
<1>1. Init => Channel!Init
  BY DEF Init, Channel!Init
<1>2. Init => ChannelInv
  BY InitInv, InitOrder DEF ChannelInv
<1> QED
  BY <1>1, <1>2, NextOrder, NextChannelStep, PTL DEF Spec, Channel!Steps
=============================================================================
