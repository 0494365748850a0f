------------------------- MODULE LibusbHandleProofs ------------------------
(***************************************************************************)
(* What the handles of a device believe to have claimed is what the kernel *)
(* has noted for them, for every number of threads, handles, interfaces    *)
(* and configurations.  ClaimsAgree speaks of handles whose lock is free;  *)
(* the invariant says what holds between the ioctl and the change of the   *)
(* bits, and who may be there.                                             *)
(*                                                                         *)
(* The second half is about what one of these threads does with the bytes  *)
(* of a configuration (Descriptors): for everything a device may send, the *)
(* parser stays where it may and gives back what it has allocated, and of  *)
(* what is well-formed it makes what its bytes mean.                       *)
(***************************************************************************)
EXTENDS LibusbHandle, Descriptors, TLAPS, SequenceFacts, SequenceTheorems, FiniteSetTheorems

\* Places under the lock of the handle, those with an interface in arg, and
\* all others.
Locked == {"claim", "claimed", "release", "released"}
OnInterface == Locked \cup {"alt"}
Elsewhere == {"idle", "recache", "recached", "store", "value", "lookup", "header", "body"}

\* TypeOK, by what the actions change together.
DeviceType == /\ HandleOf \in Users /\ kernel \in Kernels
              /\ present \in BOOLEAN /\ active \in Values \cup {0}
BoundType == bound \in [Interfaces -> Handles \cup {"none", "driver"}]
CopyType == cache \in Values \cup {0} /\ dangling \in BOOLEAN
HandleType == /\ opened \in [Handles -> BOOLEAN] /\ lock \in [Handles -> Threads \cup {"none"}]
              /\ claimed_interfaces \in [Handles -> SUBSET Interfaces]
PlaceType == pc \in [Threads -> OnInterface \cup Elsewhere]
Codes == {"ok", "no device", "not found", "busy", "other"}
ArgType == /\ arg \in [Threads -> Interfaces \cup Values \cup {-1, 0}]
           /\ r \in [Threads -> Codes]
Outs == [op : {"none", "configuration", "descriptor"},
         r : {"ok", "error", "not found"}, value : Values \cup {0, Unset}]
ReadType == /\ want \in [Threads -> Values \cup {0}] /\ len \in [Threads -> Nat]
            /\ out \in [Threads -> Outs]
HistoryType == /\ lost \in 0..MaxLost /\ quiet \subseteq Threads /\ raced \in BOOLEAN
               /\ behind \subseteq Handles \X Interfaces /\ faults \in 0..MaxFaults
Healths == {"ok", "copy freed twice", "copy used after free", "read past the copy",
            "parsed past the buffer"}

\* A thread that looks a configuration up has read its value, and one that
\* works on an interface or sets a configuration has its number.
WantKnown == \A t \in Threads : pc[t] = "lookup" => want[t] \in Values
ArgKnown == \A t \in Threads : /\ pc[t] \in OnInterface => arg[t] \in Interfaces
                               /\ Recaching(t) => arg[t] \in Values \cup {-1}

TypeInv ==
  /\ DeviceType /\ BoundType /\ CopyType /\ HandleType
  /\ PlaceType /\ ArgType /\ ReadType /\ HistoryType /\ health \in Healths
  /\ WantKnown /\ ArgKnown

\* The lock of a handle is held by the thread of it that is at a locked place.
LockHeld ==
  /\ \A t \in Threads : pc[t] \in Locked <=> lock[H(t)] = t
  /\ \A h \in Handles : lock[h] # "none" => lock[h] \in Threads /\ H(lock[h]) = h

\* Whoever is in a call has an open handle, and a closed one has no interface.
OpenOnly ==
  /\ \A t \in Threads : pc[t] # "idle" => opened[H(t)]
  /\ \A h \in Handles, i \in Interfaces : bound[i] = h => opened[h]

\* What is asked for under the lock was looked at under the lock.
Asked ==
  \A t \in Threads :
    /\ pc[t] \in {"claim", "claimed"} => arg[t] \notin claimed_interfaces[H(t)]
    /\ pc[t] \in {"release", "released"} => arg[t] \in claimed_interfaces[H(t)]

\* The holder of the lock of h is at place, with interface i.
Holder(h, i, where) == lock[h] # "none" /\ pc[lock[h]] = where /\ arg[lock[h]] = i

\* What handle h will believe of interface i once its lock is free.
Believes(h, i) ==
  \/ Holder(h, i, "claimed") /\ r[lock[h]] = "ok"
  \/ Holder(h, i, "released") /\ r[lock[h]] # "ok"
  \/ /\ ~Holder(h, i, "claimed") /\ ~Holder(h, i, "released")
     /\ i \in claimed_interfaces[h]

\* The kernel has noted what the handles believe.
Truly ==
  present => \A h \in Handles, i \in Interfaces :
    opened[h] /\ <<h, i>> \notin behind => (bound[i] = h <=> Believes(h, i))

\* The inductive invariant.
ClaimInv == LockHeld /\ OpenOnly /\ Asked /\ Truly
Inv == TypeInv /\ ClaimInv
----------------------------------------------------------------------------
(* Types *)

\* The groups above are TypeOK.
LEMMA TypeSplit == TypeInv => TypeOK
BY DEF TypeInv, TypeOK, DeviceType, BoundType, CopyType, HandleType, PlaceType, ArgType,
   ReadType, HistoryType, Codes, Outs, Healths, OnInterface, Locked, Elsewhere

\* Every configuration has a value and a length.
LEMMA ConfigsType ==
  \A k \in DOMAIN Configs : Configs[k].value \in 1..255 /\ Configs[k].total \in Nat
<1> DEFINE S == [value : 1..255, total : Nat \ {0}]
<1>1. Configs \in Seq(S)
  BY ConfigsAssumption
<1>2. DOMAIN Configs = 1 .. Len(Configs)
  BY <1>1, LenProperties
<1>3. \A k \in 1 .. Len(Configs) : Configs[k] \in S
  BY <1>1, ElementOfSeq
<1> QED
  BY <1>2, <1>3

\* The length of a configuration is found by its value.
LEMMA TotalType ==
  ASSUME NEW v \in Values
  PROVE  Total(v) \in Nat
<1>1. \E k \in DOMAIN Configs : Configs[k].value = v
  BY DEF Values
<1> QED
  BY <1>1, ConfigsType DEF Total, ConfigOf

\* Whoever acts is a thread, which is not what a free lock is called, and has a
\* handle, which no driver is called.
LEMMA Actors ==
  /\ Claimers \cup Configurers \cup Readers \subseteq Threads /\ "none" \notin Threads
  /\ "none" \notin Handles /\ "driver" \notin Handles
  /\ DeviceType => \A t \in Threads : H(t) \in Handles
<1>1. DeviceType => HandleOf \in [Threads -> Handles]
  BY HandlesAssumption DEF DeviceType
<1> QED
  BY <1>1, HandlesAssumption DEF H

\* What is left alone keeps its type.
LEMMA SameType ==
  ASSUME TypeInv
  PROVE  /\ UNCHANGED <<HandleOf, kernel, present, active>> => DeviceType'
         /\ UNCHANGED bound => BoundType'
         /\ UNCHANGED copy => CopyType'
         /\ UNCHANGED handle => HandleType'
         /\ UNCHANGED pc => PlaceType'
         /\ UNCHANGED <<arg, r>> => ArgType'
         /\ UNCHANGED <<want, len, out>> => ReadType'
         /\ UNCHANGED history => HistoryType'
         /\ UNCHANGED health => health' \in Healths
         /\ UNCHANGED <<pc, want>> => WantKnown'
         /\ UNCHANGED <<pc, arg>> => ArgKnown'
BY DEF TypeInv, DeviceType, BoundType, CopyType, HandleType, PlaceType, ArgType, ReadType,
   HistoryType, WantKnown, ArgKnown, Recaching, copy, handle, history

\* A thread goes from place to place: with an interface in arg where it needs
\* one, with the value in want where it needs that.
LEMMA GoType ==
  ASSUME TypeInv, NEW t \in Threads, NEW where \in OnInterface \cup Elsewhere, Goto(t, where),
         \/ UNCHANGED arg
         \/ \E x \in Interfaces \cup Values \cup {-1, 0} : arg' = Set(arg, t, x),
         \/ UNCHANGED want
         \/ \E x \in Values \cup {0} : want' = Set(want, t, x),
         where \in OnInterface => arg'[t] \in Interfaces,
         where \in {"recache", "recached", "store"} => arg'[t] \in Values \cup {-1},
         where = "lookup" => want'[t] \in Values
  PROVE  PlaceType' /\ WantKnown' /\ ArgKnown'
<1>1. PlaceType'
  BY DEF TypeInv, PlaceType, Goto, Set
<1>2. \A u \in Threads : pc'[u] = IF u = t THEN where ELSE pc[u]
  BY DEF TypeInv, PlaceType, Goto, Set
<1>3. \A u \in Threads : u # t => arg'[u] = arg[u] /\ want'[u] = want[u]
  BY DEF TypeInv, ArgType, ReadType, Set
<1> QED
  BY <1>1, <1>2, <1>3 DEF TypeInv, WantKnown, ArgKnown, Recaching

\* What a thread has in arg.
LEMMA ArgAt ==
  ASSUME TypeInv, NEW t \in Threads
  PROVE  /\ pc[t] \in OnInterface => arg[t] \in Interfaces
         /\ pc[t] \in {"recache", "recached", "store"} => arg[t] \in Values \cup {-1}
<1>1. \A u \in Threads : /\ pc[u] \in OnInterface => arg[u] \in Interfaces
                         /\ pc[u] \in {"recache", "recached", "store"}
                               => arg[u] \in Values \cup {-1}
  BY Zenon DEF TypeInv, ArgKnown, Recaching
<1> QED
  BY <1>1

\* The calls that claim, release and switch interfaces keep the types.
LEMMA ClaimingType ==
  ASSUME TypeInv, NEW t \in Claimers, Claiming(t)
  PROVE  TypeInv'
<1>0. t \in Threads /\ H(t) \in Handles /\ pc[t] \in OnInterface \cup Elsewhere
  BY Actors DEF TypeInv, PlaceType
<1>1. CASE libusb_claim_interface(t) \/ libusb_release_interface(t)
          \/ libusb_set_interface_alt_setting(t)
  <2>1. UNCHANGED <<device, copy, opened, claimed_interfaces, r, want, len, out, history, health>>
    BY <1>1 DEF libusb_claim_interface, libusb_release_interface,
       libusb_set_interface_alt_setting, LockFrame
  <2>2. PICK i \in Interfaces, where \in OnInterface : Goto(t, where) /\ arg' = Set(arg, t, i)
    BY <1>0, <1>1 DEF libusb_claim_interface, libusb_release_interface,
       libusb_set_interface_alt_setting, OnInterface, Locked, TypeInv, HandleType
  <2>3. lock' = lock \/ lock' = Set(lock, H(t), t)
    BY <1>1 DEF libusb_claim_interface, libusb_release_interface,
       libusb_set_interface_alt_setting
  <2>4. arg'[t] = i /\ ArgType'
    BY <1>0, <2>1, <2>2 DEF TypeInv, ArgType, Set
  <2>5. PlaceType' /\ WantKnown' /\ ArgKnown'
    BY <1>0, <2>1, <2>2, <2>4, GoType DEF OnInterface, Locked
  <2>6. HandleType'
    BY <1>0, <2>1, <2>3 DEF TypeInv, HandleType, Set
  <2>7. DeviceType' /\ BoundType' /\ CopyType' /\ ReadType' /\ HistoryType' /\ health' \in Healths
    BY <2>1, SameType DEF device
  <2> QED
    BY <2>4, <2>5, <2>6, <2>7 DEF TypeInv
<1>2. CASE op_claim_interface(t) \/ op_release_interface(t)
  <2>1. UNCHANGED <<HandleOf, kernel, present, active, copy, handle, arg, want, len, out,
                    history, health>>
    BY <1>2 DEF op_claim_interface, op_release_interface
  <2>2. PICK where \in {"claimed", "released"}, code \in Codes :
          Goto(t, where) /\ r' = Set(r, t, code)
    BY <1>2, Zenon DEF op_claim_interface, op_release_interface, Codes
  <2>3. bound' = bound \/ \E b \in Handles \cup {"none"} : bound' = Set(bound, arg[t], b)
    BY <1>0, <1>2 DEF op_claim_interface, op_release_interface
  <2>4. arg[t] \in Interfaces
    BY <1>0, <1>2, ArgAt DEF op_claim_interface, op_release_interface, OnInterface, Locked
  <2>5. PlaceType' /\ WantKnown' /\ ArgKnown'
    BY <1>0, <2>1, <2>2, <2>4, GoType DEF OnInterface, Locked
  <2>6. BoundType' /\ ArgType'
    BY <1>0, <2>1, <2>2, <2>3 DEF TypeInv, BoundType, ArgType, Set
  <2>7. DeviceType' /\ CopyType' /\ HandleType' /\ ReadType' /\ HistoryType' /\ health' \in Healths
    BY <2>1, SameType
  <2> QED
    BY <2>5, <2>6, <2>7 DEF TypeInv
<1>3. CASE Claimed(t) \/ Released(t)
  <2>1. /\ UNCHANGED <<device, copy, opened, want, len, out, history, health>>
        /\ Goto(t, "idle") /\ arg' = Set(arg, t, 0) /\ r' = Set(r, t, "ok")
        /\ lock' = Set(lock, H(t), "none")
    BY <1>3 DEF Claimed, Released, Unlock, Back, LockFrame
  <2>2. arg[t] \in Interfaces
    BY <1>0, <1>3, ArgAt DEF Claimed, Released, OnInterface, Locked
  <2>3. claimed_interfaces' \in [Handles -> SUBSET Interfaces]
    BY <1>0, <1>3, <2>2 DEF Claimed, Released, TypeInv, HandleType
  <2>4. PlaceType' /\ WantKnown' /\ ArgKnown'
    BY <1>0, <2>1, GoType DEF OnInterface, Locked, Elsewhere
  <2>5. HandleType'
    BY <1>0, <2>1, <2>3 DEF TypeInv, HandleType, Set
  <2>6. ArgType'
    BY <1>0, <2>1 DEF TypeInv, ArgType, Set, Codes
  <2>7. DeviceType' /\ BoundType' /\ CopyType' /\ ReadType' /\ HistoryType' /\ health' \in Healths
    BY <2>1, SameType DEF device
  <2> QED
    BY <2>4, <2>5, <2>6, <2>7 DEF TypeInv
<1>4. CASE op_set_interface(t)
  <2>1. /\ UNCHANGED <<HandleOf, kernel, present, active, copy, handle, want, len, out,
                       lost, quiet, raced, faults, health>>
        /\ Goto(t, "idle") /\ arg' = Set(arg, t, 0) /\ r' = Set(r, t, "ok")
    BY <1>4 DEF op_set_interface, Back
  <2>2. arg[t] \in Interfaces
    BY <1>0, <1>4, ArgAt DEF op_set_interface, OnInterface
  <2>3. /\ bound' = bound \/ bound' = Set(bound, arg[t], H(t))
        /\ behind' \in {behind, behind \cup {<<H(t), arg[t]>>}}
    BY <1>4 DEF op_set_interface
  <2>4. PlaceType' /\ WantKnown' /\ ArgKnown'
    BY <1>0, <2>1, GoType DEF OnInterface, Locked, Elsewhere
  <2>5. BoundType' /\ ArgType'
    BY <1>0, <2>1, <2>3 DEF TypeInv, BoundType, ArgType, Set, Codes
  <2>6. HistoryType'
    BY <1>0, <2>1, <2>2, <2>3 DEF TypeInv, HistoryType
  <2>7. DeviceType' /\ CopyType' /\ HandleType' /\ ReadType' /\ health' \in Healths
    BY <2>1, SameType
  <2> QED
    BY <2>4, <2>5, <2>6, <2>7 DEF TypeInv
<1>5. CASE libusb_detach_kernel_driver(t) \/ libusb_attach_kernel_driver(t)
  <2>1. UNCHANGED <<HandleOf, kernel, present, active, copy, handle, pc, locals, out,
                    lost, quiet, raced, faults, health>>
    BY <1>5 DEF libusb_detach_kernel_driver, libusb_attach_kernel_driver, history
  <2>2. PICK i \in Interfaces :
          /\ \E b \in {"none", "driver"} : bound' = Set(bound, i, b)
          /\ \/ behind' = behind
             \/ /\ bound[i] \notin {"none", "driver"}
                /\ behind' = behind \cup {<<bound[i], i>>}
    BY <1>5 DEF libusb_detach_kernel_driver, libusb_attach_kernel_driver, history
  <2>3. BoundType' /\ HistoryType'
    BY <2>1, <2>2 DEF TypeInv, BoundType, HistoryType, Set
  <2>4. DeviceType' /\ CopyType' /\ HandleType' /\ PlaceType' /\ ArgType' /\ ReadType'
        /\ health' \in Healths /\ WantKnown' /\ ArgKnown'
    BY <2>1, SameType DEF locals
  <2> QED
    BY <2>3, <2>4 DEF TypeInv
<1> QED
  BY <1>1, <1>2, <1>3, <1>4, <1>5 DEF Claiming

\* So do those that set the configuration and replace the copy.
LEMMA ConfiguringType ==
  ASSUME TypeInv, NEW t \in Configurers, Configuring(t)
  PROVE  TypeInv'
<1>0. t \in Threads /\ H(t) \in Handles
  BY Actors DEF TypeInv
<1>1. CASE libusb_set_configuration(t)
  <2>1. PICK v \in Values \cup {-1} :
          /\ Configure(v)
          /\ IF sysfs_has_descriptors THEN UNCHANGED <<arg, pc>>
             ELSE arg' = Set(arg, t, v) /\ Goto(t, "recache")
    BY <1>1 DEF libusb_set_configuration
  <2>2. UNCHANGED <<copy, handle, r, want, len, out, lost, behind, faults, health>>
    BY <1>1 DEF libusb_set_configuration
  <2>3. ArgType'
    BY <1>0, <2>1, <2>2 DEF TypeInv, ArgType, Set
  <2>4. PlaceType' /\ WantKnown' /\ ArgKnown'
    <3>1. CASE sysfs_has_descriptors
      BY <2>1, <2>2, <3>1, SameType
    <3>2. CASE ~sysfs_has_descriptors
      <4>1. arg'[t] = v
        BY <1>0, <2>1, <3>2 DEF TypeInv, ArgType, Set
      <4> QED
        BY <1>0, <2>1, <2>2, <3>2, <4>1, GoType DEF OnInterface, Locked, Elsewhere
    <3> QED
      BY <3>1, <3>2
  <2>5. DeviceType'
    <3>1. active' \in Values \cup {0}
      BY <2>1 DEF Configure
    <3> QED
      BY <2>1, <3>1 DEF TypeInv, DeviceType, Configure
  <2>6. BoundType'
    BY <2>1 DEF Configure, BoundType
  <2>7. HistoryType'
    <3>1. raced' \in BOOLEAN
      BY <1>1 DEF libusb_set_configuration
    <3> QED
      BY <2>1, <2>2, <3>1 DEF TypeInv, HistoryType, Configure
  <2>8. CopyType' /\ HandleType' /\ ReadType' /\ health' \in Healths
    BY <2>2, SameType
  <2> QED
    BY <2>3, <2>4, <2>5, <2>6, <2>7, <2>8 DEF TypeInv
<1>2. CASE Recache(t)
  <2>1. UNCHANGED <<device, copy, handle, want, len, out, lost, quiet, behind, health>>
    BY <1>2 DEF Recache
  <2>2. \/ Goto(t, "recached") /\ UNCHANGED <<arg, r>>
        \/ Goto(t, "idle") /\ arg' = Set(arg, t, 0) /\ r' = Set(r, t, "ok")
    BY <1>2 DEF Recache, Back
  <2>3. HistoryType'
    <3>1. faults' = faults \/ (faults < MaxFaults /\ faults' = faults + 1)
      BY <1>2 DEF Recache
    <3>2. raced' = raced \/ raced' = TRUE
      BY <1>2 DEF Recache
    <3>3. faults' \in 0..MaxFaults
      BY <3>1, BoundsAssumption DEF TypeInv, HistoryType
    <3> QED
      BY <2>1, <3>2, <3>3 DEF TypeInv, HistoryType
  <2>4. ArgType'
    BY <1>0, <2>2 DEF TypeInv, ArgType, Set, Codes
  <2>5. PlaceType' /\ WantKnown' /\ ArgKnown'
    <3>1. arg[t] \in Values \cup {-1}
      BY <1>0, <1>2, ArgAt DEF Recache
    <3> QED
      BY <1>0, <2>1, <2>2, <3>1, GoType DEF OnInterface, Locked, Elsewhere
  <2>6. DeviceType' /\ BoundType' /\ CopyType' /\ HandleType' /\ ReadType' /\ health' \in Healths
    BY <2>1, SameType DEF device
  <2> QED
    BY <2>3, <2>4, <2>5, <2>6 DEF TypeInv
<1>3. CASE FreeCopy(t)
  <2>1. UNCHANGED <<device, cache, handle, locals, out, history>> /\ Goto(t, "store")
    BY <1>3 DEF FreeCopy
  <2>2. dangling' \in BOOLEAN /\ health' \in {health, "copy freed twice"}
    BY <1>3 DEF FreeCopy
  <2>3. PlaceType' /\ WantKnown' /\ ArgKnown'
    <3>1. arg[t] \in Values \cup {-1}
      BY <1>0, <1>3, ArgAt DEF FreeCopy
    <3> QED
      BY <1>0, <2>1, <3>1, GoType DEF OnInterface, Locked, Elsewhere, locals
  <2>4. CopyType' /\ health' \in Healths
    BY <2>1, <2>2 DEF TypeInv, CopyType, Healths
  <2>5. DeviceType' /\ BoundType' /\ HandleType' /\ ArgType' /\ ReadType' /\ HistoryType'
    BY <2>1, SameType DEF device, locals
  <2> QED
    BY <2>3, <2>4, <2>5 DEF TypeInv
<1>4. CASE StoreCopy(t)
  <2>1. /\ UNCHANGED <<device, handle, want, len, out, history, health>>
        /\ Goto(t, "idle") /\ arg' = Set(arg, t, 0) /\ r' = Set(r, t, "ok")
        /\ cache' = (IF arg[t] = -1 THEN 0 ELSE arg[t]) /\ dangling' = FALSE
        /\ pc[t] = "store"
    BY <1>4 DEF StoreCopy, Back
  <2>2. CopyType'
    BY <1>0, <2>1, ArgAt DEF CopyType
  <2>3. PlaceType' /\ WantKnown' /\ ArgKnown'
    BY <1>0, <2>1, GoType DEF OnInterface, Locked, Elsewhere
  <2>4. ArgType'
    BY <1>0, <2>1 DEF TypeInv, ArgType, Set, Codes
  <2>5. DeviceType' /\ BoundType' /\ HandleType' /\ ReadType' /\ HistoryType' /\ health' \in Healths
    BY <2>1, SameType DEF device
  <2> QED
    BY <2>2, <2>3, <2>4, <2>5 DEF TypeInv
<1>5. CASE libusb_reset_device(t)
  <2>1. /\ UNCHANGED <<HandleOf, kernel, active, bound, copy, handle, pc, locals, out,
                       lost, raced, behind, faults, health>>
        /\ present' = FALSE /\ quiet' = {}
    BY <1>5 DEF libusb_reset_device
  <2>2. DeviceType' /\ HistoryType'
    BY <2>1 DEF TypeInv, DeviceType, HistoryType
  <2>3. BoundType' /\ CopyType' /\ HandleType' /\ PlaceType' /\ ArgType' /\ ReadType'
        /\ health' \in Healths /\ WantKnown' /\ ArgKnown'
    BY <2>1, SameType DEF locals
  <2> QED
    BY <2>2, <2>3 DEF TypeInv
<1> QED
  BY <1>1, <1>2, <1>3, <1>4, <1>5 DEF Configuring

\* What a call tells is a value that is known, or none.
LEMMA ToldType ==
  ASSUME TypeInv, NEW t \in Threads, NEW op \in {"configuration", "descriptor"},
         NEW code \in {"ok", "error", "not found"}, NEW v \in Values \cup {0, Unset},
         Told(t, op, code, v)
  PROVE  out' \in [Threads -> Outs]
<1>1. [op |-> op, r |-> code, value |-> v] \in Outs
  BY DEF Outs
<1> QED
  BY <1>1 DEF Told, Set, TypeInv, ReadType

\* The end of a call that reads a descriptor.
LEMMA EndType ==
  ASSUME TypeInv, NEW t \in Threads, NEW code \in {"ok", "error", "not found"},
         NEW v \in Values \cup {0, Unset}, End(t, code, v), UNCHANGED arg
  PROVE  PlaceType' /\ WantKnown' /\ ArgKnown' /\ ReadType'
<1>1. Goto(t, "idle") /\ want' = Set(want, t, 0) /\ len' = Set(len, t, 0)
  BY DEF End
<1>2. out' \in [Threads -> Outs]
  BY ToldType DEF End
<1>3. PlaceType' /\ WantKnown' /\ ArgKnown'
  BY <1>1, GoType DEF OnInterface, Locked, Elsewhere
<1> QED
  BY <1>1, <1>2, <1>3 DEF TypeInv, ReadType, Set

\* Parsing ends the call, or has met undefined behaviour.
LEMMA ParseType ==
  ASSUME TypeInv, NEW t \in Threads, NEW v \in Values, Parse(t, v), UNCHANGED arg
  PROVE  PlaceType' /\ WantKnown' /\ ArgKnown' /\ ReadType' /\ health' \in Healths
<1>1. CASE Fault("parsed past the buffer") /\ UNCHANGED arg
  BY <1>1, SameType DEF Fault, Healths
<1>2. CASE End(t, "ok", v) /\ UNCHANGED health
  BY <1>2, EndType, SameType
<1> QED
  BY <1>1, <1>2 DEF Parse

\* The calls that ask for the configuration and read its descriptor keep the
\* types.
LEMMA ReadingType ==
  ASSUME TypeInv, NEW t \in Readers, Reading(t)
  PROVE  TypeInv'
<1>0. t \in Threads /\ H(t) \in Handles
  BY Actors DEF TypeInv
<1>1. CASE libusb_get_configuration(t)
  <2>1. UNCHANGED <<device, copy, handle, pc, locals, history, health>>
    BY <1>1 DEF libusb_get_configuration
  <2>2. \E code \in {"ok", "error"}, v \in Values \cup {0, Unset} :
          Told(t, "configuration", code, v)
    <3>1. active \in Values \cup {0}
      BY DEF TypeInv, DeviceType
    <3> QED
      BY <1>1, <3>1 DEF libusb_get_configuration, op_get_configuration, Digits
  <2>3. out' \in [Threads -> Outs]
    BY <1>0, <2>2, ToldType
  <2>4. ReadType'
    BY <2>1, <2>3 DEF TypeInv, ReadType, locals
  <2>5. DeviceType' /\ BoundType' /\ CopyType' /\ HandleType' /\ PlaceType' /\ ArgType'
        /\ HistoryType' /\ health' \in Healths /\ WantKnown' /\ ArgKnown'
    BY <2>1, SameType DEF device, locals
  <2> QED
    BY <2>4, <2>5 DEF TypeInv
<1>2. CASE libusb_get_active_config_descriptor(t)
  <2>1. /\ UNCHANGED <<device, copy, handle, arg, r, want, lost, raced, behind, faults, health>>
        /\ len' = Set(len, t, 0) /\ out' = Set(out, t, Nothing)
        /\ quiet' \in {quiet \ {t}, quiet \cup {t}}
        /\ \E where \in {"value", "header"} : Goto(t, where)
    BY <1>2 DEF libusb_get_active_config_descriptor
  <2>2. PlaceType' /\ WantKnown' /\ ArgKnown'
    BY <1>0, <2>1, GoType DEF OnInterface, Locked, Elsewhere
  <2>3. ReadType'
    <3>1. Nothing \in Outs
      BY DEF Nothing, Outs
    <3> QED
      BY <1>0, <2>1, <3>1 DEF TypeInv, ReadType, Set
  <2>4. HistoryType'
    BY <1>0, <2>1 DEF TypeInv, HistoryType
  <2>5. DeviceType' /\ BoundType' /\ CopyType' /\ HandleType' /\ ArgType' /\ health' \in Healths
    BY <2>1, SameType DEF device
  <2> QED
    BY <2>2, <2>3, <2>4, <2>5 DEF TypeInv
\* What the other steps have in common.
<1>3. ASSUME ReadFrame, PlaceType', WantKnown', ArgKnown', ReadType', HistoryType',
             health' \in Healths
      PROVE  TypeInv'
  <2>1. DeviceType' /\ BoundType' /\ CopyType' /\ HandleType' /\ ArgType'
    BY <1>3, SameType DEF ReadFrame, device
  <2> QED
    BY <1>3, <2>1 DEF TypeInv
<1>4. CASE ReadValue(t)
  <2>1. ReadFrame /\ UNCHANGED <<arg, health>> /\ UNCHANGED history
    BY <1>4 DEF ReadValue, ReadFrame, history
  <2>2. PlaceType' /\ WantKnown' /\ ArgKnown' /\ ReadType'
    <3>1. CASE \E code \in {"error", "not found"} : End(t, code, Unset)
      BY <1>0, <2>1, <3>1, EndType
    <3>2. CASE /\ active # 0 /\ Goto(t, "lookup") /\ UNCHANGED <<len, out>>
               /\ \E v \in Digits(active) : want' = Set(want, t, v)
      <4>1. active \in Values
        BY <3>2 DEF TypeInv, DeviceType
      <4>2. want' = Set(want, t, active)
        BY <3>2 DEF Digits
      <4>3. want'[t] = active /\ ReadType'
        BY <1>0, <3>2, <4>1, <4>2 DEF TypeInv, ReadType, Set
      <4>4. PlaceType' /\ WantKnown' /\ ArgKnown'
        BY <1>0, <2>1, <3>2, <4>1, <4>2, <4>3, GoType DEF OnInterface, Locked, Elsewhere
      <4> QED
        BY <4>3, <4>4
    <3> QED
      BY <1>4, <3>1, <3>2 DEF ReadValue
  <2> QED
    BY <1>3, <2>1, <2>2, SameType
<1>5. CASE LookupFails(t)
  <2>1. ReadFrame /\ UNCHANGED <<arg, health>>
    BY <1>5 DEF LookupFails, ReadFrame
  <2>2. \E code \in {"error", "not found"} : End(t, code, Unset)
    BY <1>5 DEF LookupFails
  <2>3. HistoryType'
    <3>1. lost \in 0..MaxLost /\ faults \in 0..MaxFaults
      BY DEF TypeInv, HistoryType
    <3>2. /\ lost' = lost \/ (lost < MaxLost /\ lost' = lost + 1)
          /\ faults' = faults \/ (faults < MaxFaults /\ faults' = faults + 1)
      <4>1. CASE UNCHANGED <<lost, faults>>
        BY <4>1
      <4>2. CASE /\ Contents # <<>> => lost < MaxLost
                 /\ lost' = lost + (IF Contents # <<>> THEN 1 ELSE 0)
                 /\ UNCHANGED faults
        BY <3>1, <4>2, BoundsAssumption
      <4>3. CASE /\ faults < MaxFaults /\ faults' = faults + 1
                 /\ lost < MaxLost /\ lost' = lost + 1
        BY <4>3
      <4> QED
        BY <1>5, <4>1, <4>2, <4>3 DEF LookupFails
    <3>4. quiet' \in {quiet, quiet \ {t}}
      BY <1>5 DEF LookupFails
    <3>3. lost' \in 0..MaxLost /\ faults' \in 0..MaxFaults
      BY <3>1, <3>2, BoundsAssumption
    <3> QED
      BY <2>1, <3>3, <3>4 DEF TypeInv, HistoryType, ReadFrame
  <2> QED
    BY <1>0, <1>3, <2>1, <2>2, <2>3, EndType, SameType
<1>6. CASE Lookup(t)
  <2>1. ReadFrame /\ UNCHANGED <<arg, history>>
    BY <1>6 DEF Lookup, ReadFrame, history
  <2>2. want[t] \in Values
    BY <1>0, <1>6 DEF Lookup, TypeInv, WantKnown
  <2>3. PlaceType' /\ WantKnown' /\ ArgKnown' /\ ReadType' /\ health' \in Healths
    <3>1. CASE /\ len' = Set(len, t, Total(want[t])) /\ Goto(t, "value")
               /\ UNCHANGED <<want, out, health>>
      <4>1. ReadType'
        BY <1>0, <2>2, <3>1, TotalType DEF TypeInv, ReadType, Set
      <4> QED
        BY <1>0, <2>1, <3>1, <4>1, GoType, SameType DEF OnInterface, Locked, Elsewhere
    <3>2. CASE End(t, "error", Unset) /\ UNCHANGED health
      BY <1>0, <2>1, <3>2, EndType, SameType
    <3>3. CASE Parse(t, want[t])
      BY <1>0, <2>1, <2>2, <3>3, ParseType
    <3> QED
      BY <1>6, <3>1, <3>2, <3>3 DEF Lookup
  <2> QED
    BY <1>3, <2>1, <2>3, SameType
<1>7. CASE ReadHeader(t) \/ ReadBody(t)
  <2>1. ReadFrame /\ UNCHANGED <<arg, history>>
    BY <1>7 DEF ReadHeader, ReadBody, ReadFrame, history
  <2>2. cache # 0 => cache \in Values
    BY DEF TypeInv, CopyType
  <2>3. PlaceType' /\ WantKnown' /\ ArgKnown' /\ ReadType' /\ health' \in Healths
    <3>1. CASE End(t, "not found", Unset) /\ UNCHANGED health
      BY <1>0, <2>1, <3>1, EndType, SameType
    <3>2. CASE Fault("copy used after free") \/ Fault("read past the copy")
      BY <2>1, <3>2, SameType DEF Fault, Healths
    <3>3. CASE /\ cache # 0 /\ len' = Set(len, t, Total(cache)) /\ Goto(t, "body")
               /\ UNCHANGED <<want, out, health>>
      <4>1. ReadType'
        BY <1>0, <2>2, <3>3, TotalType DEF TypeInv, ReadType, Set
      <4> QED
        BY <1>0, <2>1, <3>3, <4>1, GoType, SameType DEF OnInterface, Locked, Elsewhere
    <3>4. CASE cache # 0 /\ Parse(t, cache)
      BY <1>0, <2>1, <2>2, <3>4, ParseType
    <3> QED
      BY <1>7, <3>1, <3>2, <3>3, <3>4 DEF ReadHeader, ReadBody
  <2> QED
    BY <1>3, <2>1, <2>3, SameType
<1> QED
  BY <1>1, <1>2, <1>4, <1>5, <1>6, <1>7 DEF Reading

\* Handles are opened and closed, the device goes, another program sets its
\* configuration.
LEMMA OtherType ==
  ASSUME TypeInv,
         (\E h \in Handles : libusb_open(h) \/ libusb_close(h)) \/ Unplug \/ OtherProgram
  PROVE  TypeInv'
<1>1. ASSUME NEW h \in Handles, libusb_open(h) PROVE TypeInv'
  <2>1. UNCHANGED <<device, copy, lock, pc, locals, out, history, health>>
    BY <1>1 DEF libusb_open
  <2>2. HandleType'
    BY <1>1 DEF libusb_open, TypeInv, HandleType, Set
  <2>3. DeviceType' /\ BoundType' /\ CopyType' /\ PlaceType' /\ ArgType' /\ ReadType'
        /\ HistoryType' /\ health' \in Healths /\ WantKnown' /\ ArgKnown'
    BY <2>1, SameType DEF device, locals
  <2> QED
    BY <2>2, <2>3 DEF TypeInv
<1>2. ASSUME NEW h \in Handles, libusb_close(h) PROVE TypeInv'
  <2>1. UNCHANGED <<HandleOf, kernel, present, active, copy, claimed_interfaces, lock, pc,
                    locals, out, lost, quiet, raced, faults, health>>
    BY <1>2 DEF libusb_close
  <2>2. HandleType'
    BY <1>2 DEF libusb_close, TypeInv, HandleType, Set
  <2>3. BoundType'
    BY <1>2 DEF libusb_close, Unclaim, TypeInv, BoundType
  <2>4. HistoryType'
    BY <1>2 DEF libusb_close, Unclaim, TypeInv, HistoryType
  <2>5. DeviceType' /\ CopyType' /\ PlaceType' /\ ArgType' /\ ReadType'
        /\ health' \in Healths /\ WantKnown' /\ ArgKnown'
    BY <2>1, SameType DEF locals
  <2> QED
    BY <2>2, <2>3, <2>4, <2>5 DEF TypeInv
<1>3. CASE Unplug
  <2>1. /\ UNCHANGED <<HandleOf, kernel, active, bound, copy, handle, pc, locals, out,
                       lost, raced, behind, faults, health>>
        /\ present' = FALSE /\ quiet' = {}
    BY <1>3 DEF Unplug
  <2>2. DeviceType' /\ HistoryType'
    BY <2>1 DEF TypeInv, DeviceType, HistoryType
  <2>3. BoundType' /\ CopyType' /\ HandleType' /\ PlaceType' /\ ArgType' /\ ReadType'
        /\ health' \in Healths /\ WantKnown' /\ ArgKnown'
    BY <2>1, SameType DEF locals
  <2> QED
    BY <2>2, <2>3 DEF TypeInv
<1>4. CASE OtherProgram
  <2>1. UNCHANGED <<copy, handle, pc, locals, out, lost, behind, faults, health>>
    BY <1>4 DEF OtherProgram
  <2>2. PICK v \in Values : Configure(v)
    BY <1>4 DEF OtherProgram
  <2>3. DeviceType'
    <3>1. active' \in Values \cup {0}
      BY <2>2 DEF Configure
    <3> QED
      BY <2>2, <3>1 DEF TypeInv, DeviceType, Configure
  <2>4. BoundType'
    BY <2>2 DEF Configure, BoundType
  <2>5. HistoryType'
    <3>1. raced' \in BOOLEAN
      BY <1>4 DEF OtherProgram
    <3> QED
      BY <2>1, <2>2, <3>1 DEF TypeInv, HistoryType, Configure
  <2>6. CopyType' /\ HandleType' /\ PlaceType' /\ ArgType' /\ ReadType'
        /\ health' \in Healths /\ WantKnown' /\ ArgKnown'
    BY <2>1, SameType DEF locals
  <2> QED
    BY <2>3, <2>4, <2>5, <2>6 DEF TypeInv
<1> QED
  BY <1>1, <1>2, <1>3, <1>4

\* At the start the device is idle, and the copy that of its configuration.
LEMMA InitType == Init => TypeInv
<1> SUFFICES ASSUME Init PROVE TypeInv
  OBVIOUS
<1>1. DeviceType /\ BoundType /\ CopyType
  BY DEF Init, DeviceType, BoundType, CopyType
<1>2. HandleType /\ PlaceType /\ ArgType /\ WantKnown /\ ArgKnown
  BY DEF Init, HandleType, PlaceType, ArgType, Codes, WantKnown, ArgKnown, OnInterface,
     Locked, Elsewhere, Recaching
<1>3. ReadType
  <2>1. Nothing \in Outs
    BY DEF Nothing, Outs
  <2> QED
    BY <2>1 DEF Init, ReadType
<1>4. HistoryType /\ health \in Healths
  <2>1. lost \in 0..MaxLost /\ faults \in 0..MaxFaults
    BY BoundsAssumption DEF Init
  <2> QED
    BY <2>1 DEF Init, HistoryType, Healths
<1> QED
  BY <1>1, <1>2, <1>3, <1>4 DEF TypeInv

\* Every step keeps the types.
LEMMA StepType == TypeInv /\ [Next]_vars => TypeInv'
<1> SUFFICES ASSUME TypeInv, [Next]_vars PROVE TypeInv'
  OBVIOUS
<1>1. CASE \E t \in Claimers : Claiming(t)
  BY <1>1, ClaimingType
<1>2. CASE \E t \in Configurers : Configuring(t)
  BY <1>2, ConfiguringType
<1>3. CASE \E t \in Readers : Reading(t)
  BY <1>3, ReadingType
<1>4. CASE (\E h \in Handles : libusb_open(h) \/ libusb_close(h)) \/ Unplug \/ OtherProgram
  BY <1>4, OtherType
<1>5. CASE UNCHANGED vars
  <2>1. UNCHANGED <<device, copy, handle, pc, locals, out, history, health>>
    BY <1>5 DEF vars
  <2> QED
    BY <2>1, SameType DEF device, locals, TypeInv
<1> QED
  BY <1>1, <1>2, <1>3, <1>4, <1>5 DEF Next
----------------------------------------------------------------------------
(* Claims *)

\* Who holds a lock is at a locked place, and it is the lock of its handle.
LEMMA Holders ==
  ASSUME TypeInv, LockHeld, NEW h \in Handles, lock[h] # "none"
  PROVE  lock[h] \in Threads /\ H(lock[h]) = h /\ pc[lock[h]] \in Locked
<1>1. lock[h] \in Threads /\ H(lock[h]) = h
  BY DEF LockHeld
<1> QED
  BY <1>1 DEF LockHeld

\* A step that stays away from the locks, and of which the kernel's changes to
\* a claim are noted in behind, keeps the claims.
LEMMA AwayInv ==
  ASSUME TypeInv, ClaimInv, DeviceType',
         \A u \in Threads :
           \/ pc'[u] = pc[u] /\ arg'[u] = arg[u] /\ r'[u] = r[u]
           \/ pc[u] \notin Locked /\ pc'[u] \notin Locked /\ (pc'[u] # "idle" => opened[H(u)]),
         UNCHANGED <<HandleOf, opened, claimed_interfaces, lock>>,
         present' => present,
         \A h \in Handles, i \in Interfaces : bound'[i] = h => bound[i] = h \/ opened[h],
         \A h \in Handles, i \in Interfaces :
           <<h, i>> \notin behind' => <<h, i>> \notin behind /\ (bound'[i] = h <=> bound[i] = h)
  PROVE  ClaimInv'
<1>1. \A u \in Threads : /\ H(u) \in Handles /\ H(u)' = H(u)
                         /\ pc'[u] \in Locked <=> pc[u] \in Locked
                         /\ pc'[u] \in Locked => pc'[u] = pc[u] /\ arg'[u] = arg[u] /\ r'[u] = r[u]
  BY Actors DEF H, TypeInv
<1>2. LockHeld'
  BY <1>1 DEF ClaimInv, LockHeld
<1>3. OpenOnly'
  <2>1. \A u \in Threads : pc'[u] # "idle" => opened[H(u)]
    BY DEF ClaimInv, OpenOnly
  <2>2. \A h \in Handles, i \in Interfaces : bound'[i] = h => opened[h]
    BY DEF ClaimInv, OpenOnly
  <2> QED
    BY <1>1, <2>1, <2>2 DEF OpenOnly
<1>4. Asked'
  BY <1>1 DEF ClaimInv, Asked, Locked
<1>5. Truly'
  <2> SUFFICES ASSUME present', NEW h \in Handles, NEW i \in Interfaces, opened'[h],
                      <<h, i>> \notin behind'
               PROVE  bound'[i] = h <=> Believes(h, i)'
    BY DEF Truly
  <2>1. bound[i] = h <=> Believes(h, i)
    BY DEF ClaimInv, Truly
  <2>2. lock[h] # "none" => /\ pc'[lock[h]] = pc[lock[h]] /\ arg'[lock[h]] = arg[lock[h]]
                            /\ r'[lock[h]] = r[lock[h]]
    BY <1>1, Holders DEF ClaimInv
  <2>3. Believes(h, i)' <=> Believes(h, i)
    BY <2>2 DEF Believes, Holder
  <2> QED
    BY <2>1, <2>3
<1> QED
  BY <1>2, <1>3, <1>4, <1>5 DEF ClaimInv

\* A step of one thread between locked places, or into or out of them, leaves
\* what all other handles believe.
LEMMA OthersBelieve ==
  ASSUME TypeInv, LockHeld, NEW t \in Threads, NEW h \in Handles, h # H(t),
         \A u \in Threads : u # t => pc'[u] = pc[u] /\ arg'[u] = arg[u] /\ r'[u] = r[u],
         lock'[h] = lock[h], claimed_interfaces'[h] = claimed_interfaces[h],
         NEW i \in Interfaces
  PROVE  Believes(h, i)' <=> Believes(h, i)
<1>1. lock[h] # "none" => lock[h] \in Threads /\ lock[h] # t
  BY Holders
<1> QED
  BY <1>1 DEF Believes, Holder

\* The lock is taken, and what is asked for has been looked at.
LEMMA TakeInv ==
  ASSUME TypeInv, ClaimInv, NEW t \in Threads,
         libusb_claim_interface(t) \/ libusb_release_interface(t)
  PROVE  ClaimInv'
<1>0. H(t) \in Handles /\ "none" \notin Threads /\ \A u \in Threads : H(u) \in Handles
  BY Actors DEF TypeInv
<1>1. /\ UNCHANGED <<HandleOf, present, bound, opened, claimed_interfaces, r, behind>>
      /\ opened[H(t)] /\ lock[H(t)] = "none"
      /\ lock' = [lock EXCEPT ![H(t)] = t]
  BY DEF libusb_claim_interface, libusb_release_interface, LockFrame, Idle, Set, device, history
<1>2. PICK i \in Interfaces, where \in {"claim", "release"} :
        /\ pc' = [pc EXCEPT ![t] = where] /\ arg' = [arg EXCEPT ![t] = i]
        /\ where = "claim" <=> i \notin claimed_interfaces[H(t)]
  <2>1. claimed_interfaces[H(t)] \subseteq Interfaces
    BY <1>0 DEF TypeInv, HandleType
  <2>2. CASE libusb_claim_interface(t)
    BY <2>2 DEF libusb_claim_interface, Goto, Set
  <2>3. CASE libusb_release_interface(t)
    BY <2>1, <2>3 DEF libusb_release_interface, Goto, Set
  <2> QED
    BY <2>2, <2>3
<1>3. /\ pc'[t] = where /\ arg'[t] = i
      /\ \A u \in Threads : u # t => pc'[u] = pc[u] /\ arg'[u] = arg[u] /\ r'[u] = r[u]
  BY <1>1, <1>2 DEF TypeInv, PlaceType, ArgType
<1>4. lock'[H(t)] = t /\ \A h \in Handles : h # H(t) => lock'[h] = lock[h]
  BY <1>0, <1>1 DEF TypeInv, HandleType
<1>5. \A u \in Threads : H(u)' = H(u)
  BY <1>1 DEF H
<1>6. LockHeld'
  BY <1>0, <1>1, <1>2, <1>3, <1>4, <1>5 DEF ClaimInv, LockHeld, Locked
<1>7. OpenOnly'
  BY <1>1, <1>3, <1>5 DEF ClaimInv, OpenOnly
<1>8. Asked'
  BY <1>1, <1>2, <1>3, <1>5 DEF ClaimInv, Asked
<1>9. Truly'
  <2> SUFFICES ASSUME present', NEW h \in Handles, NEW j \in Interfaces, opened'[h],
                      <<h, j>> \notin behind'
               PROVE  bound'[j] = h <=> Believes(h, j)'
    BY DEF Truly
  <2>1. bound[j] = h <=> Believes(h, j)
    BY <1>1 DEF ClaimInv, Truly
  <2>2. CASE h = H(t)
    BY <1>0, <1>1, <1>2, <1>3, <1>4, <2>1, <2>2 DEF Believes, Holder
  <2>3. CASE h # H(t)
    BY <1>1, <1>3, <1>4, <2>1, <2>3, OthersBelieve DEF ClaimInv
  <2> QED
    BY <2>2, <2>3
<1> QED
  BY <1>6, <1>7, <1>8, <1>9 DEF ClaimInv

\* The ioctl: the kernel notes or drops the claim, and r tells whether it has.
LEMMA IoctlInv ==
  ASSUME TypeInv, ClaimInv, NEW t \in Threads,
         op_claim_interface(t) \/ op_release_interface(t)
  PROVE  ClaimInv'
<1> DEFINE i == arg[t]
           h0 == H(t)
<1>0. h0 \in Handles /\ "none" \notin Threads /\ \A u \in Threads : H(u) \in Handles
  BY Actors DEF TypeInv
<1>1. /\ UNCHANGED <<HandleOf, present, lock, opened, claimed_interfaces, arg, behind>>
      /\ pc[t] \in {"claim", "release"}
      /\ pc' = [pc EXCEPT ![t] = IF pc[t] = "claim" THEN "claimed" ELSE "released"]
  BY DEF op_claim_interface, op_release_interface, Goto, Set, handle, history
<1>2. PICK code \in Codes :
        /\ r' = [r EXCEPT ![t] = code]
        /\ present /\ pc[t] = "claim" =>
             IF code = "ok" THEN bound[i] \in {"none", h0} /\ bound' = [bound EXCEPT ![i] = h0]
             ELSE bound' = bound
        /\ present /\ pc[t] = "release" =>
             IF code = "ok" THEN bound[i] = h0 /\ bound' = [bound EXCEPT ![i] = "none"]
             ELSE bound' = bound /\ bound[i] # h0
        /\ ~present => bound' = bound
  BY Zenon DEF op_claim_interface, op_release_interface, Set, Codes
<1>3. i \in Interfaces /\ lock[h0] = t /\ opened[h0]
  BY <1>1, ArgAt DEF ClaimInv, LockHeld, OpenOnly, OnInterface, Locked
<1>4. /\ pc'[t] = IF pc[t] = "claim" THEN "claimed" ELSE "released"
      /\ r'[t] = code
      /\ \A u \in Threads : u # t => pc'[u] = pc[u] /\ arg'[u] = arg[u] /\ r'[u] = r[u]
  BY <1>1, <1>2 DEF TypeInv, PlaceType, ArgType
<1>5. \A u \in Threads : H(u)' = H(u)
  BY <1>1 DEF H
<1>6. /\ \A j \in Interfaces : j # i => bound'[j] = bound[j]
      /\ \A h \in Handles : h # h0 => (bound'[i] = h <=> bound[i] = h)
  <2>1. \/ bound' = bound
        \/ bound[i] \in {"none", h0} /\ bound' = [bound EXCEPT ![i] = h0]
        \/ bound[i] = h0 /\ bound' = [bound EXCEPT ![i] = "none"]
    BY <1>1, <1>2, Zenon
  <2> QED
    BY <1>0, <1>3, <2>1, Actors DEF TypeInv, BoundType
<1>7. LockHeld'
  BY <1>1, <1>4, <1>5 DEF ClaimInv, LockHeld, Locked
<1>8. OpenOnly'
  BY <1>1, <1>3, <1>4, <1>5, <1>6 DEF ClaimInv, OpenOnly
<1>9. Asked'
  BY <1>1, <1>4, <1>5 DEF ClaimInv, Asked
<1>10. Truly'
  <2> SUFFICES ASSUME present', NEW h \in Handles, NEW j \in Interfaces, opened'[h],
                      <<h, j>> \notin behind'
               PROVE  bound'[j] = h <=> Believes(h, j)'
    BY DEF Truly
  <2>1. bound[j] = h <=> Believes(h, j)
    BY <1>1 DEF ClaimInv, Truly
  <2>2. CASE h # h0
    <3>1. Believes(h, j)' <=> Believes(h, j)
      BY <1>1, <1>4, <2>2, OthersBelieve DEF ClaimInv
    <3> QED
      BY <1>6, <2>1, <2>2, <3>1
  <2>3. CASE h = h0 /\ j # i
    <3>1. Believes(h, j)' <=> Believes(h, j)
      BY <1>0, <1>1, <1>3, <1>4, <2>3 DEF Believes, Holder
    <3> QED
      BY <1>6, <2>1, <2>3, <3>1
  <2>4. CASE h = h0 /\ j = i /\ pc[t] = "claim"
    <3>1. Believes(h, j)' <=> code = "ok"
      BY <1>0, <1>1, <1>3, <1>4, <2>4 DEF Believes, Holder
    <3>2. ~Believes(h, j)
      BY <1>1, <1>3, <2>4 DEF Believes, Holder, ClaimInv, Asked
    <3> QED
      BY <1>1, <1>2, <1>3, <2>1, <2>4, <3>1, <3>2 DEF TypeInv, BoundType
  <2>5. CASE h = h0 /\ j = i /\ pc[t] = "release"
    <3>1. Believes(h, j)' <=> code # "ok"
      BY <1>0, <1>1, <1>3, <1>4, <2>5 DEF Believes, Holder
    <3>2. Believes(h, j)
      BY <1>0, <1>1, <1>3, <2>5 DEF Believes, Holder, ClaimInv, Asked
    <3> QED
      BY <1>0, <1>1, <1>2, <1>3, <2>1, <2>5, <3>1, <3>2, Actors DEF TypeInv, BoundType
  <2> QED
    BY <1>1, <2>2, <2>3, <2>4, <2>5
<1> QED
  BY <1>7, <1>8, <1>9, <1>10 DEF ClaimInv

\* The bit follows r, and the lock is released.
LEMMA ReleaseInv ==
  ASSUME TypeInv, ClaimInv, NEW t \in Threads, Claimed(t) \/ Released(t)
  PROVE  ClaimInv'
<1> DEFINE i == arg[t]
           h0 == H(t)
<1>0. h0 \in Handles /\ "none" \notin Threads /\ \A u \in Threads : H(u) \in Handles
  BY Actors DEF TypeInv
<1>1. /\ UNCHANGED <<HandleOf, present, bound, opened, behind>>
      /\ pc[t] \in {"claimed", "released"} /\ pc' = [pc EXCEPT ![t] = "idle"]
      /\ arg' = [arg EXCEPT ![t] = 0] /\ r' = [r EXCEPT ![t] = "ok"]
      /\ lock' = [lock EXCEPT ![h0] = "none"]
  BY DEF Claimed, Released, Unlock, Back, Goto, Set, LockFrame, device, history
<1>2. /\ \A h \in Handles : h # h0 => claimed_interfaces'[h] = claimed_interfaces[h]
      /\ \A j : j # i => (j \in claimed_interfaces'[h0] <=> j \in claimed_interfaces[h0])
  BY <1>0 DEF Claimed, Released, TypeInv, HandleType
<1>3. i \in Interfaces /\ lock[h0] = t
  BY <1>1, ArgAt DEF ClaimInv, LockHeld, OnInterface, Locked
<1>4. /\ pc'[t] = "idle"
      /\ \A u \in Threads : u # t => pc'[u] = pc[u] /\ arg'[u] = arg[u] /\ r'[u] = r[u]
  BY <1>1 DEF TypeInv, PlaceType, ArgType
<1>5. lock'[h0] = "none" /\ \A h \in Handles : h # h0 => lock'[h] = lock[h]
  BY <1>0, <1>1 DEF TypeInv, HandleType
<1>6. \A u \in Threads : H(u)' = H(u)
  BY <1>1 DEF H
<1>7. LockHeld'
  BY <1>0, <1>1, <1>3, <1>4, <1>5, <1>6 DEF ClaimInv, LockHeld, Locked
<1>8. OpenOnly'
  BY <1>1, <1>4, <1>6 DEF ClaimInv, OpenOnly
<1>9. Asked'
  <2>1. \A u \in Threads : u # t /\ pc[u] \in Locked => H(u) # h0
    BY <1>3 DEF ClaimInv, LockHeld
  <2> QED
    BY <1>0, <1>2, <1>4, <1>6, <2>1 DEF ClaimInv, Asked, Locked
<1>10. Truly'
  <2> SUFFICES ASSUME present', NEW h \in Handles, NEW j \in Interfaces, opened'[h],
                      <<h, j>> \notin behind'
               PROVE  bound'[j] = h <=> Believes(h, j)'
    BY DEF Truly
  <2>1. bound[j] = h <=> Believes(h, j)
    BY <1>1 DEF ClaimInv, Truly
  <2>2. CASE h # h0
    <3>1. Believes(h, j)' <=> Believes(h, j)
      BY <1>2, <1>4, <1>5, <2>2, OthersBelieve DEF ClaimInv
    <3> QED
      BY <1>1, <2>1, <3>1
  <2>3. CASE h = h0
    <3>1. Believes(h, j)' <=> j \in claimed_interfaces'[h]
      BY <1>5, <2>3 DEF Believes, Holder
    <3>2. j # i => (Believes(h, j) <=> j \in claimed_interfaces[h])
      BY <1>0, <1>3, <2>3 DEF Believes, Holder
    <3>3. Believes(h, i) <=> i \in claimed_interfaces'[h]
      <4>1. CASE Claimed(t)
        <5>1. pc[t] = "claimed" /\ i \notin claimed_interfaces[h]
          BY <2>3, <4>1 DEF Claimed, ClaimInv, Asked
        <5>2. Believes(h, i) <=> r[t] = "ok"
          BY <1>0, <1>3, <2>3, <5>1 DEF Believes, Holder
        <5>3. i \in claimed_interfaces'[h] <=> r[t] = "ok"
          BY <1>0, <2>3, <4>1, <5>1 DEF Claimed, TypeInv, HandleType
        <5> QED
          BY <5>2, <5>3
      <4>2. CASE Released(t)
        <5>1. pc[t] = "released" /\ i \in claimed_interfaces[h]
          BY <2>3, <4>2 DEF Released, ClaimInv, Asked
        <5>2. Believes(h, i) <=> r[t] # "ok"
          BY <1>0, <1>3, <2>3, <5>1 DEF Believes, Holder
        <5>3. i \in claimed_interfaces'[h] <=> r[t] # "ok"
          BY <1>0, <2>3, <4>2, <5>1 DEF Released, TypeInv, HandleType
        <5> QED
          BY <5>2, <5>3
      <4> QED
        BY <4>1, <4>2
    <3> QED
      BY <1>1, <1>2, <2>1, <2>3, <3>1, <3>2, <3>3
  <2> QED
    BY <2>2, <2>3
<1> QED
  BY <1>7, <1>8, <1>9, <1>10 DEF ClaimInv

\* A handle is opened without claims, and the kernel drops those of one that is
\* closed: nobody is in a call on either.
LEMMA OpenInv ==
  ASSUME TypeInv, ClaimInv, NEW h0 \in Handles, libusb_open(h0) \/ libusb_close(h0)
  PROVE  ClaimInv'
<1>0. "none" \notin Threads /\ "none" \notin Handles /\ \A u \in Threads : H(u) \in Handles
  BY Actors DEF TypeInv
<1>1. UNCHANGED <<HandleOf, present, lock, pc, arg, r>>
  BY DEF libusb_open, libusb_close, device, locals
<1>2. \A u \in Threads : H(u)' = H(u)
  BY <1>1 DEF H
<1>3. \A u \in Threads : H(u) = h0 => pc[u] = "idle"
  BY DEF libusb_open, libusb_close, ClaimInv, OpenOnly
<1>4. lock[h0] = "none"
  BY <1>3, Holders DEF ClaimInv, Locked
<1>5. \A h \in Handles : h # h0 => opened'[h] = opened[h]
                                   /\ claimed_interfaces'[h] = claimed_interfaces[h]
  BY DEF libusb_open, libusb_close, Set, TypeInv, HandleType
<1>6. LockHeld'
  BY <1>1, <1>2 DEF ClaimInv, LockHeld
<1>7. \A h \in Handles, i \in Interfaces : h # h0 => (bound'[i] = h <=> bound[i] = h)
  BY <1>0 DEF libusb_open, libusb_close, Unclaim, device
<1>8. \A h \in Handles, i \in Interfaces : h # h0 => (<<h, i>> \in behind' <=> <<h, i>> \in behind)
  BY DEF libusb_open, libusb_close, Unclaim, history
<1>9. \A i \in Interfaces : bound'[i] # h0
  BY <1>0 DEF libusb_open, libusb_close, Unclaim, device, ClaimInv, OpenOnly
<1>10. OpenOnly'
  BY <1>0, <1>1, <1>2, <1>3, <1>5, <1>7, <1>9 DEF ClaimInv, OpenOnly
<1>11. Asked'
  BY <1>0, <1>1, <1>2, <1>3, <1>5 DEF ClaimInv, Asked
<1>12. Truly'
  <2> SUFFICES ASSUME present', NEW h \in Handles, NEW j \in Interfaces, opened'[h],
                      <<h, j>> \notin behind'
               PROVE  bound'[j] = h <=> Believes(h, j)'
    BY DEF Truly
  <2>1. CASE h # h0
    <3>1. bound[j] = h <=> Believes(h, j)
      BY <1>1, <1>5, <1>8, <2>1 DEF ClaimInv, Truly
    <3>2. Believes(h, j)' <=> Believes(h, j)
      BY <1>1, <1>5, <2>1 DEF Believes, Holder
    <3> QED
      BY <1>7, <2>1, <3>1, <3>2
  <2>2. CASE h = h0
    <3>1. opened'[h0] /\ claimed_interfaces'[h0] = {}
      BY <2>2 DEF libusb_open, libusb_close, Set, TypeInv, HandleType
    <3>2. ~Believes(h, j)'
      BY <1>1, <1>4, <2>2, <3>1 DEF Believes, Holder
    <3> QED
      BY <1>9, <2>2, <3>2
  <2> QED
    BY <2>1, <2>2
<1> QED
  BY <1>6, <1>10, <1>11, <1>12 DEF ClaimInv

\* The calls that take no lock: what they change in the kernel is none of the
\* claims, or is noted in behind.
LEMMA KernelInv ==
  ASSUME TypeInv, TypeInv', ClaimInv, NEW t \in Threads,
         \/ libusb_set_interface_alt_setting(t) \/ op_set_interface(t)
         \/ libusb_detach_kernel_driver(t) \/ libusb_attach_kernel_driver(t)
  PROVE  ClaimInv'
<1>0. DeviceType' /\ H(t) \in Handles /\ "none" \notin Handles /\ "driver" \notin Handles
  BY Actors DEF TypeInv
<1>1. CASE libusb_set_interface_alt_setting(t)
  <2>1. PICK i \in claimed_interfaces[H(t)] :
          pc' = [pc EXCEPT ![t] = "alt"] /\ arg' = [arg EXCEPT ![t] = i]
    BY <1>1 DEF libusb_set_interface_alt_setting, Goto, Set
  <2>2. /\ UNCHANGED <<HandleOf, present, bound, opened, claimed_interfaces, lock, r, behind>>
        /\ pc[t] = "idle" /\ opened[H(t)]
    BY <1>1 DEF libusb_set_interface_alt_setting, Idle, LockFrame, device, history
  <2>3. \A u \in Threads :
           \/ pc'[u] = pc[u] /\ arg'[u] = arg[u] /\ r'[u] = r[u]
           \/ pc[u] \notin Locked /\ pc'[u] \notin Locked /\ (pc'[u] # "idle" => opened[H(u)])
    BY <2>1, <2>2 DEF TypeInv, PlaceType, ArgType, Locked
  <2> QED
    BY <1>0, <2>2, <2>3, AwayInv
<1>2. CASE op_set_interface(t)
  <2>1. /\ UNCHANGED <<HandleOf, present, opened, claimed_interfaces, lock>>
        /\ pc' = [pc EXCEPT ![t] = "idle"] /\ arg' = [arg EXCEPT ![t] = 0]
        /\ r' = [r EXCEPT ![t] = "ok"] /\ pc[t] = "alt"
        /\ \/ UNCHANGED <<bound, behind>>
           \/ /\ bound[arg[t]] \in {"none", H(t)} /\ bound' = [bound EXCEPT ![arg[t]] = H(t)]
              /\ behind' = IF bound[arg[t]] = "none" THEN behind \cup {<<H(t), arg[t]>>}
                           ELSE behind
    BY <1>2, Zenon DEF op_set_interface, Back, Goto, Set, handle
  <2>2. \A u \in Threads :
           \/ pc'[u] = pc[u] /\ arg'[u] = arg[u] /\ r'[u] = r[u]
           \/ pc[u] \notin Locked /\ pc'[u] \notin Locked /\ (pc'[u] # "idle" => opened[H(u)])
    BY <2>1 DEF TypeInv, PlaceType, ArgType, Locked
  <2>3. opened[H(t)] /\ arg[t] \in Interfaces
    BY <2>1, ArgAt DEF ClaimInv, OpenOnly, OnInterface
  <2>4. /\ \A h \in Handles, i \in Interfaces : bound'[i] = h => bound[i] = h \/ opened[h]
        /\ \A h \in Handles, i \in Interfaces :
             <<h, i>> \notin behind' => <<h, i>> \notin behind /\ (bound'[i] = h <=> bound[i] = h)
    BY <1>0, <2>1, <2>3 DEF TypeInv, BoundType
  <2> QED
    BY <1>0, <2>1, <2>2, <2>4, AwayInv
<1>3. CASE libusb_detach_kernel_driver(t) \/ libusb_attach_kernel_driver(t)
  <2>1. UNCHANGED <<HandleOf, present, opened, claimed_interfaces, lock, pc, arg, r>>
    BY <1>3 DEF libusb_detach_kernel_driver, libusb_attach_kernel_driver, handle, locals
  <2>2. PICK i \in Interfaces, b \in {"none", "driver"} :
          /\ bound' = [bound EXCEPT ![i] = b]
          /\ \/ behind' = behind /\ bound[i] \in {"none", "driver"}
             \/ behind' = behind \cup {<<bound[i], i>>}
    BY <1>3 DEF libusb_detach_kernel_driver, libusb_attach_kernel_driver, history, Set
  <2>3. /\ \A h \in Handles, j \in Interfaces : bound'[j] = h => bound[j] = h \/ opened[h]
        /\ \A h \in Handles, j \in Interfaces :
             <<h, j>> \notin behind' => <<h, j>> \notin behind /\ (bound'[j] = h <=> bound[j] = h)
    BY <1>0, <2>2 DEF TypeInv, BoundType
  <2> QED
    BY <1>0, <2>1, <2>3, AwayInv
<1> QED
  BY <1>1, <1>2, <1>3

\* A thread that goes from one place away from the locks to another.
LEMMA MoveAway ==
  ASSUME TypeInv, NEW t \in Threads, pc[t] \in Elsewhere, opened[H(t)],
         \/ UNCHANGED pc
         \/ \E where \in Elsewhere : Goto(t, where),
         \/ UNCHANGED arg
         \/ \E x : arg' = Set(arg, t, x),
         \/ UNCHANGED r
         \/ r' = Set(r, t, "ok")
  PROVE  \A u \in Threads :
           \/ pc'[u] = pc[u] /\ arg'[u] = arg[u] /\ r'[u] = r[u]
           \/ pc[u] \notin Locked /\ pc'[u] \notin Locked /\ (pc'[u] # "idle" => opened[H(u)])
<1>1. \A u \in Threads : u # t => pc'[u] = pc[u] /\ arg'[u] = arg[u] /\ r'[u] = r[u]
  BY DEF TypeInv, PlaceType, ArgType, Goto, Set
<1>2. pc[t] \notin Locked /\ pc'[t] \notin Locked
  BY DEF TypeInv, PlaceType, Goto, Set, Elsewhere, Locked
<1> QED
  BY <1>1, <1>2

\* What setting the configuration and replacing the copy leave alone.
LEMMA ConfiguringFrame ==
  ASSUME TypeInv, ClaimInv, NEW t \in Threads, Configuring(t)
  PROVE  /\ UNCHANGED <<HandleOf, opened, claimed_interfaces, lock, behind>>
         /\ present' => present
         /\ UNCHANGED bound \/ \E v : Configure(v)
         /\ \A u \in Threads :
              \/ pc'[u] = pc[u] /\ arg'[u] = arg[u] /\ r'[u] = r[u]
              \/ pc[u] \notin Locked /\ pc'[u] \notin Locked /\ (pc'[u] # "idle" => opened[H(u)])
<1>0. pc[t] # "idle" => opened[H(t)]
  BY DEF ClaimInv, OpenOnly
<1>1. CASE libusb_set_configuration(t)
  <2>1. PICK v : /\ Configure(v)
                 /\ \/ UNCHANGED <<arg, pc>>
                    \/ arg' = Set(arg, t, v) /\ Goto(t, "recache")
    BY <1>1 DEF libusb_set_configuration
  <2>2. UNCHANGED <<handle, r, behind>> /\ opened[H(t)] /\ pc[t] = "idle"
    BY <1>1 DEF libusb_set_configuration, Idle
  <2>3. UNCHANGED <<HandleOf, present>>
    BY <2>1 DEF Configure
  <2> QED
    BY <2>1, <2>2, <2>3, MoveAway DEF Elsewhere, handle
<1>2. CASE Recache(t) \/ FreeCopy(t) \/ StoreCopy(t)
  <2>1. /\ UNCHANGED <<device, handle, behind>>
        /\ pc[t] \in {"recache", "recached", "store"}
        /\ \/ \E where \in {"recached", "store"} : Goto(t, where) /\ UNCHANGED <<arg, r>>
           \/ Back(t)
    BY <1>2 DEF Recache, FreeCopy, StoreCopy, history, locals
  <2> QED
    BY <1>0, <2>1, MoveAway DEF Elsewhere, Back, handle, device
<1>3. CASE libusb_reset_device(t)
  BY <1>3 DEF libusb_reset_device, handle, locals
<1> QED
  BY <1>1, <1>2, <1>3 DEF Configuring

\* What asking for the configuration and reading its descriptor leave alone.
LEMMA ReadingFrame ==
  ASSUME TypeInv, ClaimInv, NEW t \in Threads, Reading(t)
  PROVE  /\ UNCHANGED <<HandleOf, opened, claimed_interfaces, lock, behind, present, bound>>
         /\ \A u \in Threads :
              \/ pc'[u] = pc[u] /\ arg'[u] = arg[u] /\ r'[u] = r[u]
              \/ pc[u] \notin Locked /\ pc'[u] \notin Locked /\ (pc'[u] # "idle" => opened[H(u)])
<1>0. pc[t] # "idle" => opened[H(t)]
  BY DEF ClaimInv, OpenOnly
<1>1. CASE libusb_get_configuration(t)
  BY <1>1 DEF libusb_get_configuration, handle, locals, device, history
<1>2. CASE libusb_get_active_config_descriptor(t)
  <2>1. /\ UNCHANGED <<device, handle, arg, r, behind>> /\ pc[t] = "idle" /\ opened[H(t)]
        /\ \E where \in {"value", "header"} : Goto(t, where)
    BY <1>2 DEF libusb_get_active_config_descriptor, Idle
  <2> QED
    BY <2>1, MoveAway DEF Elsewhere, handle, device
<1>3. CASE ReadValue(t) \/ LookupFails(t) \/ Lookup(t) \/ ReadHeader(t) \/ ReadBody(t)
  <2>1. ReadFrame /\ pc[t] \in {"value", "lookup", "header", "body"}
    BY <1>3 DEF ReadValue, LookupFails, Lookup, ReadHeader, ReadBody
  <2>2. \/ UNCHANGED pc
        \/ \E where \in {"idle", "value", "lookup", "body"} : Goto(t, where)
    BY <1>3 DEF ReadValue, LookupFails, Lookup, ReadHeader, ReadBody, Parse, Fault, End
  <2> QED
    BY <1>0, <2>1, <2>2, MoveAway DEF Elsewhere, ReadFrame, handle, device
<1> QED
  BY <1>1, <1>2, <1>3 DEF Reading

\* The configuration is set only while no interface has a driver, and that is
\* none of the claims either; replacing and reading the copy are not about
\* interfaces at all.
LEMMA RestInv ==
  ASSUME TypeInv, TypeInv', ClaimInv,
         \/ \E t \in Configurers : Configuring(t)
         \/ \E t \in Readers : Reading(t)
         \/ Unplug \/ OtherProgram
  PROVE  ClaimInv'
<1>0. /\ DeviceType' /\ "none" \notin Handles /\ "driver" \notin Handles
      /\ Configurers \cup Readers \subseteq Threads
  BY Actors DEF TypeInv
<1>1. /\ UNCHANGED <<HandleOf, opened, claimed_interfaces, lock, behind>>
      /\ present' => present
      /\ UNCHANGED bound \/ \E v : Configure(v)
      /\ \A u \in Threads :
           \/ pc'[u] = pc[u] /\ arg'[u] = arg[u] /\ r'[u] = r[u]
           \/ pc[u] \notin Locked /\ pc'[u] \notin Locked /\ (pc'[u] # "idle" => opened[H(u)])
  <2>1. CASE \E t \in Configurers : Configuring(t)
    BY <1>0, <2>1, ConfiguringFrame
  <2>2. CASE \E t \in Readers : Reading(t)
    BY <1>0, <2>2, ReadingFrame
  <2>3. CASE Unplug
    BY <2>3 DEF Unplug, handle, locals
  <2>4. CASE OtherProgram
    BY <2>4 DEF OtherProgram, Configure, handle, locals
  <2> QED
    BY <2>1, <2>2, <2>3, <2>4
<1>2. \A h \in Handles, i \in Interfaces : bound'[i] = h <=> bound[i] = h
  <2>1. ASSUME NEW v, Configure(v)
        PROVE  \A h \in Handles, i \in Interfaces : bound[i] # h /\ bound'[i] # h
    BY <1>0, <2>1 DEF Configure
  <2> QED
    BY <1>1, <2>1
<1> QED
  BY <1>0, <1>1, <1>2, AwayInv

\* At the start no handle is open and no interface claimed.
LEMMA InitClaim == Init => ClaimInv
<1> SUFFICES ASSUME Init PROVE ClaimInv
  OBVIOUS
<1>0. "none" \notin Threads /\ "none" \notin Handles /\ "driver" \notin Handles
  BY Actors
<1>1. TypeInv /\ \A t \in Threads : H(t) \in Handles
  BY InitType, Actors DEF TypeInv
<1>2. LockHeld /\ Asked
  BY <1>0, <1>1 DEF Init, LockHeld, Asked, Locked
<1>3. OpenOnly
  BY <1>0, <1>1 DEF Init, OpenOnly
<1>4. Truly
  BY DEF Init, Truly
<1> QED
  BY <1>2, <1>3, <1>4 DEF ClaimInv

\* Every step keeps types and claims.
LEMMA StepInv == Inv /\ [Next]_vars => Inv'
<1> SUFFICES ASSUME TypeInv, ClaimInv, [Next]_vars PROVE Inv'
  BY DEF Inv
<1>1. TypeInv'
  BY StepType
<1>2. ClaimInv'
  <2>1. CASE \E t \in Claimers : Claiming(t)
    <3>1. Claimers \subseteq Threads
      BY Actors
    <3> QED
      BY <1>1, <2>1, <3>1, TakeInv, IoctlInv, ReleaseInv, KernelInv DEF Claiming
  <2>2. CASE \/ \E t \in Configurers : Configuring(t)
             \/ \E t \in Readers : Reading(t)
             \/ Unplug \/ OtherProgram
    BY <1>1, <2>2, RestInv
  <2>3. CASE \E h \in Handles : libusb_open(h) \/ libusb_close(h)
    BY <2>3, OpenInv
  <2>4. CASE UNCHANGED vars
    BY <2>4 DEF vars, device, handle, locals, history, ClaimInv, LockHeld, OpenOnly, Asked,
       Truly, Believes, Holder, H
  <2> QED
    BY <2>1, <2>2, <2>3, <2>4 DEF Next
<1> QED
  BY <1>1, <1>2 DEF Inv

\* While nobody holds the lock of a handle, it believes what its bits say.
LEMMA AgreeInv == Inv => ClaimsAgree
<1> SUFFICES ASSUME Inv, present, NEW h \in Handles, opened[h], lock[h] = "none",
                    NEW i \in Interfaces, <<h, i>> \notin behind
             PROVE  i \in claimed_interfaces[h] <=> bound[i] = h
  BY DEF ClaimsAgree
<1>1. bound[i] = h <=> Believes(h, i)
  BY DEF Inv, ClaimInv, Truly
<1> QED
  BY <1>1 DEF Believes, Holder

\* However threads, handles and programs interleave, all variables keep their
\* types and the bits of a handle are the claims the kernel has noted for its
\* file (libusb_claim_interface and libusb_release_interface, core.c; the
\* ioctls of linux_usbfs.c), except for those changed unasked.
THEOREM ClaimsCorrect == Spec => []ClaimsOK
<1>1. Init => Inv
  BY InitType, InitClaim DEF Inv
<1>2. Inv => ClaimsOK
  BY TypeSplit, AgreeInv DEF Inv, ClaimsOK
<1> QED
  BY <1>1, <1>2, StepInv, PTL DEF Spec
----------------------------------------------------------------------------
(* The cached copy *)

\* A copy that is gone is about to be replaced.
Replaced == dangling => \E t \in Threads : pc[t] = "store"

\* A call that nothing disturbs has the device, and the copy as it is.
Undisturbed ==
  /\ quiet # {} => present /\ \A u \in Threads : ~Recaching(u)
  /\ \A t \in quiet : pc[t] = "body" => cache # 0 /\ len[t] = Total(cache)

\* Unless there was a race, one thread at most replaces the copy, and it does
\* so by that of the configuration that is active.
OneWriter ==
  (present /\ ~sysfs_has_descriptors /\ ~raced) =>
    /\ \A t, u \in Threads : Recaching(t) /\ Recaching(u) => t = u
    /\ \A t \in Threads : Recaching(t) => arg[t] = IF active = 0 THEN -1 ELSE active
    /\ (\A t \in Threads : ~Recaching(t)) => cache = active

CopyInv == Replaced /\ Undisturbed /\ OneWriter

\* Steps that neither set the configuration nor touch the copy keep this; who
\* reads the copy has the length of what is there.
LEMMA KeepCopy ==
  ASSUME TypeInv, CopyInv,
         UNCHANGED <<kernel, active, cache, dangling>>,
         present' => present, raced => raced',
         quiet' # {} => present' /\ (quiet # {} \/ \A u \in Threads : ~Recaching(u)),
         \A u \in Threads :
           /\ Recaching(u)' <=> Recaching(u)
           /\ pc[u] = "store" => pc'[u] = "store"
           /\ Recaching(u) => arg'[u] = arg[u],
         \A u \in quiet' :
           pc'[u] = "body" => \/ u \in quiet /\ pc[u] = "body" /\ len'[u] = len[u]
                              \/ cache # 0 /\ len'[u] = Total(cache)
  PROVE  CopyInv'
<1>1. Replaced'
  BY DEF CopyInv, Replaced
<1>2. Undisturbed'
  <2>1. quiet' # {} => present' /\ \A u \in Threads : ~Recaching(u)'
    BY DEF CopyInv, Undisturbed
  <2>2. \A u \in quiet' : pc'[u] = "body" => cache # 0 /\ len'[u] = Total(cache)
    BY DEF CopyInv, Undisturbed
  <2> QED
    BY <2>1, <2>2 DEF Undisturbed, Total, ConfigOf
<1>3. OneWriter'
  BY DEF CopyInv, OneWriter, sysfs_has_descriptors
<1> QED
  BY <1>1, <1>2, <1>3 DEF CopyInv

\* No claim and no reading has to do with it.
LEMMA ClaimingCopy ==
  ASSUME TypeInv, CopyInv, NEW t \in Threads, Claiming(t)
  PROVE  CopyInv'
<1>1. UNCHANGED <<kernel, present, active, copy, len, quiet, raced>>
  BY DEF Claiming, libusb_claim_interface, op_claim_interface, Claimed, libusb_release_interface,
     op_release_interface, Released, libusb_set_interface_alt_setting, op_set_interface,
     libusb_detach_kernel_driver, libusb_attach_kernel_driver, LockFrame, device, locals, history
<1>2. \/ UNCHANGED <<pc, arg>>
      \/ /\ pc[t] \in OnInterface \cup {"idle"}
         /\ \E where \in OnInterface \cup {"idle"} : Goto(t, where)
         /\ UNCHANGED arg \/ \E x : arg' = Set(arg, t, x)
  BY DEF Claiming, libusb_claim_interface, op_claim_interface, Claimed, libusb_release_interface,
     op_release_interface, Released, libusb_set_interface_alt_setting, op_set_interface,
     libusb_detach_kernel_driver, libusb_attach_kernel_driver, Idle, Unlock, Back, locals,
     OnInterface, Locked
<1>3. \A u \in Threads :
        /\ Recaching(u)' <=> Recaching(u)
        /\ pc[u] = "store" => pc'[u] = "store"
        /\ Recaching(u) => arg'[u] = arg[u]
        /\ pc'[u] = "body" => pc[u] = "body"
  BY <1>2 DEF TypeInv, PlaceType, ArgType, Goto, Set, Recaching, OnInterface, Locked
<1>4. quiet \subseteq Threads
  BY DEF TypeInv, HistoryType
<1> QED
  BY <1>1, <1>3, <1>4, KeepCopy DEF copy, CopyInv, Undisturbed

\* Neither has reading the copy, which is found whole.
LEMMA ReadingCopy ==
  ASSUME TypeInv, CopyInv, NEW t \in Threads, Reading(t)
  PROVE  CopyInv'
<1>1. UNCHANGED <<kernel, present, active, copy, arg, raced>>
  BY DEF Reading, libusb_get_configuration, libusb_get_active_config_descriptor, ReadValue,
     LookupFails, Lookup, ReadHeader, ReadBody, ReadFrame, device, locals, history
<1>2. \/ UNCHANGED pc
      \/ /\ pc[t] \in {"idle", "value", "lookup", "header", "body"}
         /\ \E where \in {"idle", "value", "lookup", "header", "body"} : Goto(t, where)
  BY DEF Reading, libusb_get_configuration, libusb_get_active_config_descriptor, ReadValue,
     LookupFails, Lookup, ReadHeader, ReadBody, Idle, Parse, Fault, End
<1>3. \A u \in Threads :
        /\ Recaching(u)' <=> Recaching(u)
        /\ pc[u] = "store" => pc'[u] = "store"
        /\ u # t => pc'[u] = pc[u]
  BY <1>2 DEF TypeInv, PlaceType, Goto, Set, Recaching
<1>4. \/ quiet' \subseteq quiet
      \/ quiet' = quiet \cup {t} /\ present /\ \A u \in Threads : ~Recaching(u)
  BY DEF Reading, libusb_get_configuration, libusb_get_active_config_descriptor, ReadValue,
     LookupFails, Lookup, ReadHeader, ReadBody, history
<1>5. /\ \A u \in Threads : u # t => len'[u] = len[u]
      /\ pc'[t] = "body" => \/ cache # 0 /\ len'[t] = Total(cache)
                            \/ pc[t] = "body" /\ len'[t] = len[t] /\ quiet' \subseteq quiet
  <2>1. CASE libusb_get_configuration(t)
    BY <2>1 DEF libusb_get_configuration, locals, history
  <2>2. CASE libusb_get_active_config_descriptor(t)
    BY <2>2 DEF libusb_get_active_config_descriptor, Goto, Set, TypeInv, PlaceType, ReadType
  <2>3. CASE ReadValue(t) \/ LookupFails(t)
    <3>1. /\ UNCHANGED len \/ len' = Set(len, t, 0)
          /\ \E where \in {"idle", "lookup"} : Goto(t, where)
      BY <2>3 DEF ReadValue, LookupFails, End
    <3> QED
      BY <3>1 DEF Goto, Set, TypeInv, PlaceType, ReadType
  <2>4. CASE Lookup(t) \/ ReadHeader(t) \/ ReadBody(t)
    <3>1. quiet' = quiet
      BY <2>4 DEF Lookup, ReadHeader, ReadBody
    <3>2. \/ UNCHANGED <<len, pc>>
          \/ Goto(t, "idle") /\ len' = Set(len, t, 0)
          \/ Goto(t, "value") /\ \E n : len' = Set(len, t, n)
          \/ Goto(t, "body") /\ cache # 0 /\ len' = Set(len, t, Total(cache))
      BY <2>4 DEF Lookup, ReadHeader, ReadBody, Parse, Fault, End
    <3> QED
      BY <3>1, <3>2 DEF Goto, Set, TypeInv, PlaceType, ReadType
  <2> QED
    BY <2>1, <2>2, <2>3, <2>4 DEF Reading
<1>6. \A u \in quiet' :
        pc'[u] = "body" => \/ u \in quiet /\ pc[u] = "body" /\ len'[u] = len[u]
                           \/ cache # 0 /\ len'[u] = Total(cache)
  <2>1. quiet' \subseteq quiet \cup {t} /\ quiet \subseteq Threads
    BY <1>4 DEF TypeInv, HistoryType
  <2> QED
    BY <1>3, <1>5, <2>1
<1>7. quiet' # {} => present' /\ (quiet # {} \/ \A u \in Threads : ~Recaching(u))
  <2>1. quiet # {} => present
    BY DEF CopyInv, Undisturbed
  <2> QED
    BY <1>1, <1>4, <2>1
<1> QED
  BY <1>1, <1>3, <1>6, <1>7, KeepCopy DEF copy

\* The values of configurations differ from what stands for none.
LEMMA ValuesType == Values \subseteq 1..255
BY ConfigsType DEF Values

\* Setting the configuration and replacing the copy: one thread at a time
\* leaves the copy of what it has set.
LEMMA ConfiguringCopy ==
  ASSUME TypeInv, CopyInv, NEW t \in Threads, Configuring(t)
  PROVE  CopyInv'
<1> DEFINE R == {"recache", "recached", "store"}
<1>0. /\ \A u \in Threads : Recaching(u) <=> pc[u] \in R
      /\ \A u \in Threads : Recaching(u)' <=> pc'[u] \in R
  BY DEF Recaching
<1>1. CASE libusb_set_configuration(t)
  <2>1. PICK v \in Values \cup {-1} :
          /\ Configure(v)
          /\ IF sysfs_has_descriptors THEN UNCHANGED <<arg, pc>>
             ELSE arg' = Set(arg, t, v) /\ Goto(t, "recache")
    BY <1>1 DEF libusb_set_configuration
  <2>2. /\ UNCHANGED <<kernel, present, cache, dangling>> /\ quiet' = {}
        /\ active' = IF v = -1 THEN 0 ELSE v
        /\ raced' = (raced \/ (~sysfs_has_descriptors /\ \E u \in Threads : Recaching(u)))
        /\ pc[t] = "idle"
    BY <1>1, <2>1 DEF libusb_set_configuration, Configure, Idle, copy
  <2>3. sysfs_has_descriptors' <=> sysfs_has_descriptors
    BY <2>2 DEF sysfs_has_descriptors
  <2>4. CASE sysfs_has_descriptors
    BY <2>1, <2>2, <2>3, <2>4 DEF CopyInv, Replaced, Undisturbed, OneWriter
  <2>5. CASE ~sysfs_has_descriptors
    <3>1. /\ pc'[t] = "recache" /\ arg'[t] = v
          /\ \A u \in Threads : u # t => pc'[u] = pc[u] /\ arg'[u] = arg[u]
      BY <2>1, <2>5 DEF TypeInv, PlaceType, ArgType, Goto, Set
    <3>2. Replaced'
      BY <2>2, <3>1 DEF CopyInv, Replaced
    <3>3. OneWriter'
      <4>1. v = (IF active' = 0 THEN -1 ELSE active')
        BY <2>1, <2>2, ValuesType
      <4>2. ~raced' => \A u \in Threads : ~Recaching(u)
        BY <2>2, <2>5
      <4> QED
        BY <1>0, <3>1, <4>1, <4>2 DEF OneWriter
    <3> QED
      BY <2>2, <3>2, <3>3 DEF CopyInv, Undisturbed
  <2> QED
    BY <2>4, <2>5
<1>2. CASE Recache(t)
  <2>1. /\ UNCHANGED <<kernel, present, active, cache, dangling, quiet, len>>
        /\ pc[t] = "recache"
        /\ \/ Goto(t, "recached") /\ UNCHANGED <<arg, raced>>
           \/ Goto(t, "idle") /\ raced' = TRUE
    BY <1>2 DEF Recache, Back, device, copy
  <2>2. CASE Goto(t, "recached") /\ UNCHANGED <<arg, raced>>
    <3>1. /\ pc'[t] = "recached"
          /\ \A u \in Threads : u # t => pc'[u] = pc[u]
      BY <2>2 DEF TypeInv, PlaceType, Goto, Set
    <3>2. \A u \in Threads :
            /\ Recaching(u)' <=> Recaching(u)
            /\ pc[u] = "store" => pc'[u] = "store"
            /\ pc'[u] = "body" => pc[u] = "body"
      BY <1>0, <2>1, <3>1
    <3>3. quiet \subseteq Threads /\ (quiet # {} => present)
      BY DEF TypeInv, HistoryType, CopyInv, Undisturbed
    <3> QED
      BY <2>1, <2>2, <3>2, <3>3, KeepCopy
  <2>3. CASE Goto(t, "idle") /\ raced' = TRUE
    <3>1. /\ pc'[t] = "idle"
          /\ \A u \in Threads : u # t => pc'[u] = pc[u]
      BY <2>3 DEF TypeInv, PlaceType, Goto, Set
    <3>2. Replaced'
      BY <2>1, <3>1 DEF CopyInv, Replaced
    <3>3. quiet = {}
      BY <1>0, <2>1 DEF CopyInv, Undisturbed
    <3> QED
      BY <2>1, <2>3, <3>2, <3>3 DEF CopyInv, Undisturbed, OneWriter
  <2> QED
    BY <2>1, <2>2, <2>3
<1>3. CASE FreeCopy(t) \/ StoreCopy(t)
  <2>1. /\ UNCHANGED <<kernel, present, active, quiet, raced, len>>
        /\ \/ /\ pc[t] = "recached" /\ Goto(t, "store") /\ UNCHANGED <<arg, cache>>
           \/ /\ pc[t] = "store" /\ Goto(t, "idle") /\ arg' = Set(arg, t, 0)
              /\ dangling' = FALSE /\ cache' = IF arg[t] = -1 THEN 0 ELSE arg[t]
    BY <1>3 DEF FreeCopy, StoreCopy, Back, device, locals, history
  <2>2. quiet = {}
    BY <1>0, <2>1 DEF CopyInv, Undisturbed
  <2>3. \A u \in Threads : u # t => pc'[u] = pc[u] /\ arg'[u] = arg[u]
    BY <2>1 DEF TypeInv, PlaceType, ArgType, Goto, Set
  <2>4. CASE pc[t] = "recached" /\ Goto(t, "store") /\ UNCHANGED <<arg, cache>>
    <3>1. pc'[t] = "store"
      BY <2>4 DEF TypeInv, PlaceType, Goto, Set
    <3>2. OneWriter'
      BY <1>0, <2>1, <2>3, <2>4, <3>1 DEF CopyInv, OneWriter, sysfs_has_descriptors
    <3> QED
      BY <2>1, <2>2, <3>1, <3>2 DEF CopyInv, Replaced, Undisturbed
  <2>5. CASE /\ pc[t] = "store" /\ Goto(t, "idle")
             /\ dangling' = FALSE /\ cache' = IF arg[t] = -1 THEN 0 ELSE arg[t]
    <3>1. pc'[t] = "idle"
      BY <2>5 DEF TypeInv, PlaceType, Goto, Set
    <3>2. OneWriter'
      <4> SUFFICES ASSUME present, ~sysfs_has_descriptors, ~raced
                   PROVE  /\ \A u \in Threads : ~Recaching(u)'
                          /\ cache' = active
        BY <2>1 DEF OneWriter, sysfs_has_descriptors
      <4>1. \A u \in Threads : u # t => ~Recaching(u)
        BY <1>0, <2>5 DEF CopyInv, OneWriter
      <4>2. arg[t] = IF active = 0 THEN -1 ELSE active
        BY <1>0, <2>5 DEF CopyInv, OneWriter
      <4>3. active \in Values \cup {0}
        BY DEF TypeInv, DeviceType
      <4>4. cache' = active
        BY <2>5, <4>2, <4>3, ValuesType
      <4> QED
        BY <1>0, <2>3, <3>1, <4>1, <4>4
    <3> QED
      BY <2>1, <2>2, <2>5, <3>2 DEF CopyInv, Replaced, Undisturbed
  <2> QED
    BY <2>1, <2>4, <2>5
<1>4. CASE libusb_reset_device(t)
  BY <1>4 DEF libusb_reset_device, copy, locals, CopyInv, Replaced, Undisturbed, OneWriter
<1> QED
  BY <1>1, <1>2, <1>3, <1>4 DEF Configuring

\* Every step of threads, device and other programs keeps this.
LEMMA StepCopy == TypeInv /\ CopyInv /\ [Next]_vars => CopyInv'
<1> SUFFICES ASSUME TypeInv, CopyInv, [Next]_vars PROVE CopyInv'
  OBVIOUS
<1>0. Claimers \cup Configurers \cup Readers \subseteq Threads
  BY Actors
<1>1. CASE \E t \in Claimers : Claiming(t)
  BY <1>0, <1>1, ClaimingCopy
<1>2. CASE \E t \in Configurers : Configuring(t)
  BY <1>0, <1>2, ConfiguringCopy
<1>3. CASE \E t \in Readers : Reading(t)
  BY <1>0, <1>3, ReadingCopy
<1>4. CASE \E h \in Handles : libusb_open(h) \/ libusb_close(h)
  <2>1. UNCHANGED <<kernel, present, active, cache, dangling, pc, arg, len, quiet, raced>>
    BY <1>4 DEF libusb_open, libusb_close, device, copy, locals, history
  <2> QED
    BY <2>1 DEF CopyInv, Replaced, Undisturbed, OneWriter, Recaching, Total, ConfigOf, sysfs_has_descriptors
<1>5. CASE Unplug
  BY <1>5 DEF Unplug, copy, locals, CopyInv, Replaced, Undisturbed, OneWriter
<1>6. CASE OtherProgram
  <2>1. /\ UNCHANGED <<kernel, cache, dangling, pc>> /\ quiet' = {}
        /\ raced' = (raced \/ ~sysfs_has_descriptors)
    BY <1>6 DEF OtherProgram, Configure, copy
  <2> QED
    BY <2>1 DEF CopyInv, Replaced, Undisturbed, OneWriter, sysfs_has_descriptors
<1>7. CASE UNCHANGED vars
  <2>1. UNCHANGED <<kernel, present, active, cache, dangling, pc, arg, len, quiet, raced>>
    BY <1>7 DEF vars, device, copy, locals, history
  <2> QED
    BY <2>1 DEF CopyInv, Replaced, Undisturbed, OneWriter, Recaching, Total, ConfigOf, sysfs_has_descriptors
<1> QED
  BY <1>1, <1>2, <1>3, <1>4, <1>5, <1>6, <1>7 DEF Next

\* The invariant from the start on.
LEMMA CopyAlways == Spec => [](TypeInv /\ CopyInv)
<1>1. Init => CopyInv
  BY DEF Init, CopyInv, Replaced, Undisturbed, OneWriter, Recaching
<1> QED
  BY <1>1, InitType, StepType, StepCopy, PTL DEF Spec

\* Unless two threads have set the configuration at a time, or it was set
\* behind libusb's back, the cached copy is that of the active configuration
\* (op_set_configuration and cache_active_config, linux_usbfs.c).
THEOREM CacheCorrect == Spec => []CacheCurrent
<1>1. CopyInv => CacheCurrent
  BY DEF CopyInv, Replaced, OneWriter, CacheCurrent, Recaching
<1> QED
  BY <1>1, CopyAlways, PTL

\* A call that nothing disturbs reads the copy only while there is one, and no
\* more of it than there is (usbfs_get_active_config_descriptor).
THEOREM QuietReadsSafe == Spec => []QuietSafe
<1>1. TypeInv /\ CopyInv => QuietSafe
  <2> SUFFICES ASSUME TypeInv, CopyInv, NEW t \in quiet
               PROVE  ~dangling /\ (pc[t] = "body" => cache # 0 /\ len[t] = Total(cache))
    BY DEF QuietSafe
  <2>1. \A u \in Threads : ~Recaching(u)
    BY DEF CopyInv, Undisturbed
  <2>2. ~dangling
    BY <2>1 DEF CopyInv, Replaced, Recaching
  <2> QED
    BY <2>2 DEF CopyInv, Undisturbed
<1> QED
  BY <1>1, CopyAlways, PTL

----------------------------------------------------------------------------
(* What a call that nothing disturbs tells *)

\* The truth about the active configuration.
Truth(o) ==
  \/ o.r = "ok" /\ o.value = active
  \/ o.r = "not found" /\ active = 0
  \/ o.r = "error" /\ sysfs_has_descriptors /\ active >= 100

\* A call that nothing disturbs works with the active configuration and its
\* length, from one place to the next, until it has told the truth about it.
Faithful(t) ==
  /\ out[t].op = "descriptor" /\ ~raced => Truth(out[t])
  /\ pc[t] \in {"value", "lookup"} =>
       sysfs_has_descriptors /\ (active # 0 => len[t] \in {0, Total(active)})
  /\ pc[t] = "lookup" => active # 0 /\ want[t] = active
  /\ pc[t] \in {"header", "body"} => ~sysfs_has_descriptors

ReadInv == \A t \in quiet : Faithful(t)
\* Where sysfs has the descriptors, the file holds that of the active
\* configuration, and from there on at least its length.
LEMMA ActiveInFile ==
  ASSUME TypeInv, active # 0, kernel \in {"active", "all"}
  PROVE  /\ \E k \in DOMAIN Contents : Contents[k].value = active
         /\ Total(active) \in Nat \ {0}
         /\ BytesFrom(active) \in Nat /\ Total(active) <= BytesFrom(active)
<1> DEFINE n == Len(Contents)
           S == [value : 1..255, total : Nat \ {0}]
           at == CHOOSE k \in DOMAIN Contents : Contents[k].value = active
           c == ConfigOf(active)
           rec(f) == [k \in 0 .. n |-> IF k = 0 THEN 0 ELSE f[k - 1] + Contents[k].total]
           upto == CHOOSE f : f = rec(f)
           sum == [x \in (1 .. n) \X Nat |-> x[2] + Contents[x[1]].total]
<1>1. active \in Values
  BY DEF TypeInv, DeviceType
<1>2. PICK j \in DOMAIN Configs : Configs[j].value = active /\ c = Configs[j]
  <2>1. \E k \in DOMAIN Configs : Configs[k].value = active
    BY <1>1 DEF Values
  <2> QED
    BY <2>1 DEF ConfigOf
<1>3. Configs \in Seq(S) /\ DOMAIN Configs = 1 .. Len(Configs)
  BY ConfigsAssumption, LenProperties
<1>4. c \in S /\ c.value = active
  <2>1. Configs[j] \in S
    BY <1>2, <1>3, ElementOfSeq, ZenonT(60)
  <2> QED
    BY <1>2, <2>1
<1>5. Contents \in Seq(S) /\ \E k \in DOMAIN Contents : Contents[k].value = active /\ Contents[k] = c
  <2> HIDE DEF S
  <2>1. CASE kernel = "all"
    BY <1>2, <1>3, <2>1 DEF Contents
  <2>2. CASE kernel # "all"
    <3>1. Contents = <<c>>
      BY <2>2 DEF Contents
    <3> HIDE DEF c
    <3>2. <<c>> \in Seq(S) /\ DOMAIN <<c>> = {1} /\ <<c>>[1] = c
      BY <1>4
    <3> QED
      BY <1>4, <3>1, <3>2
  <2> QED
    BY <2>1, <2>2
<1>6. n \in Nat /\ DOMAIN Contents = 1 .. n
  BY <1>5, LenProperties
<1>7. \A k \in 1 .. n : Contents[k] \in S
  BY <1>5, <1>6, ElementOfSeq, ZenonT(60)
<1>8. at \in 1 .. n /\ Contents[at] = c
  <2>1. at \in 1 .. n /\ Contents[at].value = active
    BY <1>5, <1>6
  <2>2. CASE kernel = "all"
    BY <1>2, <1>3, <1>6, <2>1, <2>2, ConfigsAssumption DEF Contents
  <2>3. CASE kernel # "all"
    <3>1. Contents = <<c>>
      BY <2>3 DEF Contents
    <3>2. n = 1
      BY <3>1
    <3> HIDE DEF at, c, n
    <3>3. at = 1
      BY <2>1, <3>2
    <3> QED
      BY <3>1, <3>2, <3>3
  <2> QED
    BY <2>2, <2>3
<1>9. \E f : f \in [0 .. n -> Nat] /\ f = rec(f)
  <2>1. sum \in [(1 .. n) \X Nat -> Nat]
    BY <1>7
  <2>2. PICK f \in [0 .. n -> Nat] : Iterates(f, n, 0, sum)
    <3> HIDE DEF n, sum
    <3> QED
      BY <1>6, <2>1, Recursion
  <2>3. ASSUME NEW k \in 0 .. n
        PROVE  f[k] = IF k = 0 THEN 0 ELSE f[k - 1] + Contents[k].total
    <3>1. CASE k = 0
      BY <2>2, <3>1 DEF Iterates
    <3>2. CASE k # 0
      <4>1. k \in 1 .. n /\ k - 1 \in 0 .. n
        BY <1>6, <3>2
      <4>2. f[k] = sum[<<k, f[k - 1]>>] /\ f[k - 1] \in Nat
        <5> HIDE DEF sum, n
        <5> QED
          BY <2>2, <4>1 DEF Iterates
      <4>3. sum[<<k, f[k - 1]>>] = f[k - 1] + Contents[k].total
        <5> HIDE DEF n
        <5> QED
          BY <4>1, <4>2
      <4> QED
        BY <3>2, <4>2, <4>3
    <3> QED
      BY <3>1, <3>2
  <2>4. f = rec(f)
    <3> HIDE DEF n
    <3> QED
      BY <2>3
  <2> QED
    BY <2>4
<1>10. upto = rec(upto)
  <2> HIDE DEF rec
  <2> QED
    BY <1>9
<1>11. /\ upto[0] = 0
       /\ \A k \in 0 .. n - 1 : upto[k + 1] = upto[k] + Contents[k + 1].total
  <2> HIDE DEF upto, n
  <2>1. \A k \in 0 .. n : upto[k] = IF k = 0 THEN 0 ELSE upto[k - 1] + Contents[k].total
    BY <1>10
  <2>2. ASSUME NEW k \in 0 .. n - 1
        PROVE  upto[k + 1] = upto[k] + Contents[k + 1].total
    <3>1. k + 1 \in 0 .. n /\ k + 1 # 0 /\ (k + 1) - 1 = k
      BY <1>6
    <3> QED
      BY <2>1, <3>1
  <2> QED
    BY <1>6, <2>1, <2>2
<1> HIDE DEF upto
<1>12. \A k \in 0 .. n : upto[k] \in Nat
  <2> DEFINE T == {k \in 0 .. n : upto[k] \in Nat}
  <2>1. 0 \in T
    BY <1>6, <1>11
  <2>2. ASSUME NEW k \in 0 .. n - 1, k \in T
        PROVE  k + 1 \in T
    <3>1. k + 1 \in 1 .. n /\ k + 1 \in 0 .. n
      BY <1>6
    <3>2. Contents[k + 1].total \in Nat
      BY <1>7, <3>1
    <3> QED
      BY <1>11, <2>2, <3>1, <3>2
  <2> HIDE DEF T
  <2>3. \A k \in 0 .. n : k \in T
    BY <1>6, <2>1, <2>2, UpTo
  <2> QED
    BY <2>3 DEF T
<1> DEFINE total == c.total
           low == upto[at - 1] + total
<1>13. total \in Nat \ {0}
  BY <1>4
<1>14. at - 1 \in 0 .. n - 1 /\ at - 1 + 1 = at
  BY <1>6, <1>8
<1>15. upto[at] = low
  BY <1>8, <1>11, <1>14
<1>16. n \in 0 .. n /\ n >= at /\ at - 1 \in 0 .. n
  BY <1>6, <1>8
<1>17. \A k \in 0 .. n : k >= at => upto[k] >= low
  <2> DEFINE T == {k \in 0 .. n : k >= at => upto[k] >= low}
  <2> HIDE DEF low, at, n, total, c
  <2>1. 0 \in T
    BY <1>6, <1>8
  <2>2. ASSUME NEW k \in 0 .. n - 1, k \in T
        PROVE  k + 1 \in T
    <3>1. k + 1 \in 1 .. n /\ k + 1 \in 0 .. n /\ k \in 0 .. n
      BY <1>6
    <3>2. Contents[k + 1].total \in Nat /\ upto[k] \in Nat /\ upto[at - 1] \in Nat
      BY <1>7, <1>12, <1>16, <3>1
    <3>3. upto[k + 1] = upto[k] + Contents[k + 1].total
      BY <1>11
    <3>4. CASE k + 1 = at
      BY <1>13, <1>15, <3>1, <3>2, <3>4 DEF low
    <3>5. CASE k + 1 # at
      <4>1. k + 1 >= at => upto[k] >= low
        BY <1>8, <2>2, <3>1, <3>5
      <4>2. low \in Nat
        BY <1>13, <3>2 DEF low
      <4> QED
        BY <3>1, <3>2, <3>3, <4>1, <4>2
    <3> QED
      BY <3>4, <3>5
  <2> HIDE DEF T
  <2>3. \A k \in 0 .. n : k \in T
    BY <1>6, <2>1, <2>2, UpTo
  <2> QED
    BY <2>3 DEF T
<1>18. upto[n] >= low /\ upto[n] \in Nat /\ upto[at - 1] \in Nat
  BY <1>12, <1>16, <1>17
<1>19. BytesFrom(active) = upto[n] - upto[at - 1]
  BY DEF BytesFrom, upto
<1>20. Total(active) = total
  BY DEF Total
<1> QED
  <2> HIDE DEF n, at, total
  <2> QED
    BY <1>5, <1>13, <1>18, <1>19, <1>20 DEF low
\* A thread that reads no further, and whose call is not disturbed, stays
\* faithful.
LEMMA KeepFaithful ==
  ASSUME NEW u, Faithful(u), UNCHANGED <<kernel, active>>, raced => raced',
         out'[u] = out[u], len'[u] = len[u], want'[u] = want[u],
         pc'[u] = pc[u] \/ pc'[u] \notin {"value", "lookup", "header", "body"}
  PROVE  Faithful(u)'
BY DEF Faithful, Truth, Total, ConfigOf, sysfs_has_descriptors

\* A thread is faithful after a step if it is so by the configuration, which
\* the step has left alone.
LEMMA NowFaithful ==
  ASSUME NEW u, UNCHANGED <<kernel, active, raced>>,
         out'[u].op = "descriptor" /\ ~raced => Truth(out'[u]),
         pc'[u] \in {"value", "lookup"} =>
           sysfs_has_descriptors /\ (active # 0 => len'[u] \in {0, Total(active)}),
         pc'[u] = "lookup" => active # 0 /\ want'[u] = active,
         pc'[u] \in {"header", "body"} => ~sysfs_has_descriptors
  PROVE  Faithful(u)'
<1>1. /\ sysfs_has_descriptors' <=> sysfs_has_descriptors
      /\ Total(active)' = Total(active)
  BY DEF sysfs_has_descriptors, Total, ConfigOf
<1>2. Truth(out[u])' <=> Truth(out'[u])
  BY <1>1 DEF Truth
<1> QED
  BY <1>1, <1>2 DEF Faithful

\* So it is when its call ends with the truth.
LEMMA EndFaithful ==
  ASSUME TypeInv, NEW t \in Threads, UNCHANGED <<kernel, active, raced>>, NEW code, NEW v,
         End(t, code, v), ~raced => Truth([op |-> "descriptor", r |-> code, value |-> v])
  PROVE  Faithful(t)'
<1>1. pc'[t] = "idle" /\ out'[t] = [op |-> "descriptor", r |-> code, value |-> v]
  BY DEF End, Told, Goto, Set, TypeInv, PlaceType, ReadType
<1> QED
  BY <1>1, NowFaithful

\* Claims have nothing to do with it, and who sets the configuration or resets
\* the device disturbs every call.
LEMMA OtherRead ==
  ASSUME TypeInv, ReadInv, NEW t \in Threads, Claiming(t) \/ Configuring(t)
  PROVE  ReadInv'
<1>1. \/ quiet' = {}
      \/ UNCHANGED <<kernel, active, want, len, out, quiet>> /\ (raced => raced')
  BY DEF Claiming, Configuring, libusb_claim_interface, op_claim_interface, Claimed,
     libusb_release_interface, op_release_interface, Released, libusb_set_interface_alt_setting,
     op_set_interface, libusb_detach_kernel_driver, libusb_attach_kernel_driver, LockFrame,
     libusb_set_configuration, Configure, Recache, FreeCopy, StoreCopy, libusb_reset_device,
     device, locals, history
<1>2. \/ UNCHANGED pc
      \/ \E where \in OnInterface \cup {"idle", "recache", "recached", "store"} : Goto(t, where)
  BY DEF Claiming, Configuring, libusb_claim_interface, op_claim_interface, Claimed,
     libusb_release_interface, op_release_interface, Released, libusb_set_interface_alt_setting,
     op_set_interface, libusb_detach_kernel_driver, libusb_attach_kernel_driver, Unlock, Back,
     libusb_set_configuration, Recache, FreeCopy, StoreCopy, libusb_reset_device, OnInterface,
     Locked
<1>3. \A u \in Threads :
        pc'[u] = pc[u] \/ pc'[u] \notin {"value", "lookup", "header", "body"}
  BY <1>2 DEF TypeInv, PlaceType, Goto, Set, OnInterface, Locked
<1>4. quiet \subseteq Threads
  BY DEF TypeInv, HistoryType
<1>5. CASE quiet' = {}
  BY <1>5 DEF ReadInv
<1>6. CASE UNCHANGED <<kernel, active, want, len, out, quiet>> /\ (raced => raced')
  BY <1>3, <1>4, <1>6, KeepFaithful DEF ReadInv
<1> QED
  BY <1>1, <1>5, <1>6

\* Neither the file nor the cached copy says anything else but what is so.
LEMMA ReadingRead ==
  ASSUME TypeInv, CopyInv, ReadInv, NEW t \in Threads, Reading(t)
  PROVE  ReadInv'
<1> SUFFICES ASSUME NEW u \in quiet' PROVE Faithful(u)'
  BY DEF ReadInv
<1>1. UNCHANGED <<kernel, present, active, cache, raced>>
  BY DEF Reading, libusb_get_configuration, libusb_get_active_config_descriptor, ReadValue,
     LookupFails, Lookup, ReadHeader, ReadBody, ReadFrame, device, copy, locals, history
<1>2. quiet' \subseteq quiet \cup {t}
  BY DEF Reading, libusb_get_configuration, libusb_get_active_config_descriptor, ReadValue,
     LookupFails, Lookup, ReadHeader, ReadBody, history
<1>3. \A v \in Threads : v # t => /\ pc'[v] = pc[v] /\ out'[v] = out[v]
                                  /\ len'[v] = len[v] /\ want'[v] = want[v]
  <2>1. /\ UNCHANGED pc \/ \E x : pc' = Set(pc, t, x)
        /\ UNCHANGED out \/ \E x : out' = Set(out, t, x)
        /\ UNCHANGED len \/ \E x : len' = Set(len, t, x)
        /\ UNCHANGED want \/ \E x : want' = Set(want, t, x)
    BY DEF Reading, libusb_get_configuration, op_get_configuration,
       libusb_get_active_config_descriptor, ReadValue, LookupFails, Lookup, ReadHeader, ReadBody,
       Parse, Fault, End, Told, Goto, locals, history
  <2> QED
    BY <2>1 DEF TypeInv, PlaceType, ReadType, Set
<1>4. CASE u # t
  <2>1. u \in quiet /\ u \in Threads
    BY <1>2, <1>4 DEF TypeInv, HistoryType
  <2> QED
    BY <1>1, <1>3, <1>4, <2>1, KeepFaithful DEF ReadInv
<1>5. ASSUME libusb_get_active_config_descriptor(t)
      PROVE  Faithful(t)'
  <2>1. /\ pc'[t] = IF sysfs_has_descriptors THEN "value" ELSE "header"
        /\ out'[t] = Nothing /\ len'[t] = 0
    BY <1>5 DEF libusb_get_active_config_descriptor, Goto, Set, TypeInv, PlaceType, ReadType
  <2>2. out'[t].op # "descriptor"
    BY <2>1 DEF Nothing
  <2> QED
    BY <1>1, <2>1, <2>2, NowFaithful
<1>6. ASSUME t \in quiet', ~libusb_get_active_config_descriptor(t)
      PROVE  Faithful(t)'
  <2>1. t \in quiet
    BY <1>6 DEF Reading, libusb_get_configuration, ReadValue, LookupFails, Lookup, ReadHeader,
       ReadBody, history
  <2>2. present /\ \A v \in Threads : ~Recaching(v)
    BY <2>1 DEF CopyInv, Undisturbed
  <2>3. Faithful(t)
    BY <2>1 DEF ReadInv
  <2>4. active \in Values \cup {0}
    BY DEF TypeInv, DeviceType
  <2>5. CASE libusb_get_configuration(t)
    <3>1. UNCHANGED <<pc, len, want>> /\ pc[t] = "idle"
      BY <2>5 DEF libusb_get_configuration, Idle, locals
    <3>2. out'[t].op = "configuration"
      BY <2>5 DEF libusb_get_configuration, op_get_configuration, Told, Set, TypeInv, ReadType
    <3> QED
      BY <1>1, <3>1, <3>2, NowFaithful
  <2>6. CASE ReadValue(t)
    <3>1. pc[t] = "value" /\ sysfs_has_descriptors
      BY <2>3, <2>6 DEF ReadValue, Faithful
    <3>2. CASE End(t, "not found", Unset) /\ active = 0
      <4>1. Truth([op |-> "descriptor", r |-> "not found", value |-> Unset])
        BY <3>2 DEF Truth
      <4> QED
        BY <1>1, <3>2, <4>1, EndFaithful
    <3>3. CASE End(t, "error", Unset) /\ Digits(active) = {}
      <4>1. active >= 100
        BY <3>3 DEF Digits
      <4>2. Truth([op |-> "descriptor", r |-> "error", value |-> Unset])
        BY <3>1, <4>1 DEF Truth
      <4> QED
        BY <1>1, <3>3, <4>2, EndFaithful
    <3>4. CASE /\ active # 0 /\ \E v \in Digits(active) : want' = Set(want, t, v)
               /\ Goto(t, "lookup") /\ UNCHANGED <<len, out>>
      <4>1. want' = Set(want, t, active)
        BY <3>4 DEF Digits
      <4>2. /\ pc'[t] = "lookup" /\ want'[t] = active
            /\ len'[t] = len[t] /\ out'[t] = out[t]
        BY <3>4, <4>1 DEF Goto, Set, TypeInv, PlaceType, ReadType
      <4>3. /\ out[t].op = "descriptor" /\ ~raced => Truth(out[t])
            /\ len[t] \in {0, Total(active)}
        BY <2>3, <3>1, <3>4 DEF Faithful
      <4> QED
        BY <1>1, <3>1, <3>4, <4>2, <4>3, NowFaithful
    <3> QED
      BY <2>2, <2>6, <3>2, <3>3, <3>4 DEF ReadValue
  <2>7. CASE LookupFails(t) \/ Lookup(t)
    <3>1. /\ pc[t] = "lookup" /\ sysfs_has_descriptors
          /\ active # 0 /\ want[t] = active /\ len[t] \in {0, Total(active)}
      BY <2>3, <2>7 DEF LookupFails, Lookup, Faithful
    <3>2. /\ Found(t) /\ Total(active) \in Nat \ {0}
          /\ BytesFrom(active) \in Nat /\ Total(active) <= BytesFrom(active)
      BY <3>1, ActiveInFile DEF Found, sysfs_has_descriptors
    <3>3. Lookup(t)
      BY <1>6, <2>2, <2>7, <3>2 DEF LookupFails
    <3>4. CASE len' = Set(len, t, Total(active)) /\ Goto(t, "value") /\ UNCHANGED <<want, out>>
      <4>1. pc'[t] = "value" /\ len'[t] = Total(active) /\ out'[t] = out[t]
        BY <3>4 DEF Goto, Set, TypeInv, PlaceType, ReadType
      <4>2. out[t].op = "descriptor" /\ ~raced => Truth(out[t])
        BY <2>3 DEF Faithful
      <4> QED
        BY <1>1, <3>1, <4>1, <4>2, NowFaithful
    <3>5. CASE End(t, "ok", active)
      <4>1. Truth([op |-> "descriptor", r |-> "ok", value |-> active])
        BY DEF Truth
      <4> QED
        BY <1>1, <3>5, <4>1, EndFaithful
    <3>6. len[t] > BytesFrom(active) => FALSE
      BY <3>1, <3>2
    <3>7. len[t] \in 1 .. BytesFrom(active) => ~(Total(active) > len[t])
      BY <3>1, <3>2
    <3> QED
      BY <3>1, <3>3, <3>4, <3>5, <3>6, <3>7 DEF Lookup, Parse
  <2>8. CASE ReadHeader(t) \/ ReadBody(t)
    <3>1. pc[t] \in {"header", "body"} /\ ~sysfs_has_descriptors
      BY <2>3, <2>8 DEF ReadHeader, ReadBody, Faithful
    <3>2. ~raced => cache = active
      BY <2>2, <3>1 DEF CopyInv, OneWriter
    <3>3. out[t].op = "descriptor" /\ ~raced => Truth(out[t])
      BY <2>3 DEF Faithful
    <3>4. CASE cache = 0 /\ End(t, "not found", Unset)
      <4>1. ~raced => Truth([op |-> "descriptor", r |-> "not found", value |-> Unset])
        BY <3>2, <3>4 DEF Truth
      <4> QED
        BY <1>1, <3>4, <4>1, EndFaithful
    <3>5. CASE End(t, "ok", cache)
      <4>1. ~raced => Truth([op |-> "descriptor", r |-> "ok", value |-> cache])
        BY <3>2 DEF Truth
      <4> QED
        BY <1>1, <3>5, <4>1, EndFaithful
    <3>6. CASE UNCHANGED out /\ (UNCHANGED pc \/ Goto(t, "body"))
      <4>1. out'[t] = out[t] /\ pc'[t] \in {"header", "body"}
        BY <3>1, <3>6 DEF Goto, Set, TypeInv, PlaceType
      <4> QED
        BY <1>1, <3>1, <3>3, <4>1, NowFaithful
    <3> QED
      BY <2>8, <3>4, <3>5, <3>6 DEF ReadHeader, ReadBody, Parse, Fault
  <2> QED
    BY <1>6, <2>5, <2>6, <2>7, <2>8 DEF Reading
<1> QED
  BY <1>4, <1>5, <1>6

\* Every step keeps it.
LEMMA StepRead == TypeInv /\ CopyInv /\ ReadInv /\ [Next]_vars => ReadInv'
<1> SUFFICES ASSUME TypeInv, CopyInv, ReadInv, [Next]_vars PROVE ReadInv'
  OBVIOUS
<1>0. Claimers \cup Configurers \cup Readers \subseteq Threads
  BY Actors
<1>1. CASE (\E t \in Claimers : Claiming(t)) \/ (\E t \in Configurers : Configuring(t))
  BY <1>0, <1>1, OtherRead
<1>2. CASE \E t \in Readers : Reading(t)
  BY <1>0, <1>2, ReadingRead
<1>3. CASE (\E h \in Handles : libusb_open(h) \/ libusb_close(h)) \/ UNCHANGED vars
  <2>1. UNCHANGED <<kernel, active, raced, quiet, pc, out, len, want>>
    BY <1>3 DEF libusb_open, libusb_close, vars, device, copy, locals, history
  <2> QED
    BY <2>1, KeepFaithful DEF ReadInv
<1>4. CASE Unplug \/ OtherProgram
  BY <1>4 DEF Unplug, OtherProgram, Configure, ReadInv
<1> QED
  BY <1>1, <1>2, <1>3, <1>4 DEF Next

\* A call that nothing disturbs tells the truth about the active
\* configuration, and reads no memory but that of a copy that is there
\* (libusb_get_active_config_descriptor in descriptor.c, and the two ways of
\* linux_usbfs.c to read it).
THEOREM ReadCorrect == Spec => []ReadOK
<1>1. Init => ReadInv
  BY DEF Init, ReadInv
<1>2. Spec => [](TypeInv /\ CopyInv /\ ReadInv)
  BY <1>1, CopyAlways, StepRead, PTL DEF Spec
<1>3. ReadInv => QuietRead
  BY DEF ReadInv, Faithful, Truth, QuietRead
<1> QED
  BY <1>2, <1>3, QuietReadsSafe, PTL DEF ReadOK
-----------------------------------------------------------------------------
(* The bytes of a configuration *)

\* upto adds the numbers of w up.
Adds(w, upto) == \A i \in 0 .. Len(w) : upto[i] = IF i = 0 THEN 0 ELSE upto[i - 1] + w[i]

\* The sums of a sequence are those of a function that adds it up.
LEMMA SumAdds ==
  ASSUME NEW w \in Seq(Nat)
  PROVE  \E upto : Adds(w, upto) /\ Sum(w) = upto[Len(w)]
<1> DEFINE n == Len(w)
           rec(f) == [i \in 0 .. n |-> IF i = 0 THEN 0 ELSE f[i - 1] + w[i]]
           upto == CHOOSE f : f = rec(f)
           step == [x \in (1 .. n) \X Nat |-> x[2] + w[x[1]]]
<1>1. n \in Nat /\ \A i \in 1 .. n : w[i] \in Nat
  BY LenProperties, ElementOfSeq
<1>2. step \in [(1 .. n) \X Nat -> Nat]
  <2> HIDE DEF n
  <2> QED
    BY <1>1
<1>3. PICK f \in [0 .. n -> Nat] : Iterates(f, n, 0, step)
  <2>1. 0 \in Nat
    OBVIOUS
  <2> HIDE DEF n, step
  <2> QED
    BY <1>1, <1>2, <2>1, Recursion
<1>4. ASSUME NEW i \in 0 .. n
      PROVE  f[i] = IF i = 0 THEN 0 ELSE f[i - 1] + w[i]
  <2>1. CASE i = 0
    BY <1>3, <2>1 DEF Iterates
  <2>2. CASE i # 0
    <3>1. i \in 1 .. n /\ i - 1 \in 0 .. n
      BY <1>1, <2>2
    <3>4. f[i - 1] \in Nat
      <4> HIDE DEF step, n
      <4> QED
        BY <1>3, <3>1
    <3>2. f[i] = step[<<i, f[i - 1]>>]
      <4> HIDE DEF step, n
      <4> QED
        BY <1>3, <3>1 DEF Iterates
    <3> QED
      BY <2>2, <3>1, <3>2, <3>4
  <2> QED
    BY <2>1, <2>2
<1>5. f = rec(f)
  <2> HIDE DEF n
  <2> QED
    BY <1>4
<1>6. upto = rec(upto)
  <2> HIDE DEF rec
  <2> QED
    BY <1>5
<1>7. Sum(w) = upto[n]
  BY DEF Sum
<1>8. \A i \in 0 .. n : upto[i] = IF i = 0 THEN 0 ELSE upto[i - 1] + w[i]
  <2> HIDE DEF upto, n
  <2> QED
    BY <1>6
<1> HIDE DEF upto
<1> QED
  BY <1>7, <1>8 DEF Adds

\* Two functions that add up sequences with a common beginning agree there.
LEMMA AddsAgree ==
  ASSUME NEW v, NEW w, NEW n \in Nat, n <= Len(v), n <= Len(w), Len(v) \in Nat, Len(w) \in Nat,
         \A i \in 1 .. n : v[i] = w[i] /\ v[i] \in Nat,
         NEW f, Adds(v, f), NEW g, Adds(w, g)
  PROVE  \A i \in 0 .. n : f[i] = g[i] /\ f[i] \in Nat
<1> DEFINE T == {i \in 0 .. n : f[i] = g[i] /\ f[i] \in Nat}
<1>1. 0 \in T
  BY DEF Adds
<1>2. ASSUME NEW k \in 0 .. n - 1, k \in T
      PROVE  k + 1 \in T
  <2>1. k + 1 \in 1 .. n /\ (k + 1) - 1 = k /\ k + 1 # 0
    OBVIOUS
  <2>2. k + 1 \in 0 .. Len(v) /\ k + 1 \in 0 .. Len(w)
    OBVIOUS
  <2>3. f[k + 1] = f[k] + v[k + 1] /\ g[k + 1] = g[k] + w[k + 1]
    BY <2>1, <2>2 DEF Adds
  <2>4. v[k + 1] = w[k + 1] /\ v[k + 1] \in Nat
    BY <2>1
  <2> QED
    BY <1>2, <2>1, <2>3, <2>4
<1>3. \A k \in 0 .. n : k \in T
  <2> HIDE DEF T
  <2> QED
    BY <1>1, <1>2, UpTo
<1> QED
  BY <1>3

LEMMA SumType ==
  ASSUME NEW w \in Seq(Nat)
  PROVE  Sum(w) \in Nat
<1>1. PICK f : Adds(w, f) /\ Sum(w) = f[Len(w)]
  BY SumAdds
<1>2. Len(w) \in Nat /\ \A i \in 1 .. Len(w) : w[i] \in Nat
  BY LenProperties, ElementOfSeq
<1>3. \A i \in 0 .. Len(w) : f[i] = f[i] /\ f[i] \in Nat
  BY <1>1, <1>2, AddsAgree
<1> QED
  BY <1>1, <1>2, <1>3

LEMMA SumEmpty ==
  Sum(<<>>) = 0
<1>1. <<>> \in Seq(Nat) /\ Len(<<>>) = 0
  OBVIOUS
<1>2. PICK f : Adds(<<>>, f) /\ Sum(<<>>) = f[Len(<<>>)]
  BY <1>1, SumAdds
<1>3. 0 \in 0 .. Len(<<>>)
  BY <1>1
<1>4. f[0] = 0
  BY <1>2, <1>3 DEF Adds
<1> QED
  BY <1>1, <1>2, <1>4

\* A sequence with one number more.
LEMMA SumMore ==
  ASSUME NEW v \in Seq(Nat), NEW w \in Seq(Nat), Len(w) = Len(v) + 1,
         \A i \in 1 .. Len(v) : v[i] = w[i]
  PROVE  Sum(w) = Sum(v) + w[Len(w)]
<1>1. PICK f : Adds(v, f) /\ Sum(v) = f[Len(v)]
  BY SumAdds
<1>2. PICK g : Adds(w, g) /\ Sum(w) = g[Len(w)]
  BY SumAdds
<1>3. Len(v) \in Nat /\ \A i \in 1 .. Len(v) : v[i] \in Nat
  BY LenProperties, ElementOfSeq
<1>4. f[Len(v)] = g[Len(v)]
  <2> DEFINE n == Len(v)
  <2>1. n \in Nat /\ n <= Len(v) /\ n <= Len(w) /\ Len(w) \in Nat /\ Len(v) \in Nat
    BY <1>3
  <2>2. \A i \in 1 .. n : v[i] = w[i] /\ v[i] \in Nat
    BY <1>3
  <2> HIDE DEF n
  <2>3. \A i \in 0 .. n : f[i] = g[i] /\ f[i] \in Nat
    BY <1>1, <1>2, <2>1, <2>2, AddsAgree
  <2> QED
    BY <1>3, <2>3 DEF n
<1>5. g[Len(w)] = g[Len(w) - 1] + w[Len(w)]
  BY <1>2, <1>3 DEF Adds
<1> QED
  BY <1>1, <1>2, <1>3, <1>4, <1>5

\* Sequences that differ in the last number only.
LEMMA SumLast ==
  ASSUME NEW v \in Seq(Nat), NEW w \in Seq(Nat), Len(w) = Len(v), v # <<>>,
         \A i \in 1 .. Len(v) - 1 : v[i] = w[i]
  PROVE  Sum(w) - w[Len(w)] = Sum(v) - v[Len(v)]
<1>1. Len(v) \in Nat \ {0} /\ Len(v) - 1 \in Nat
  BY EmptySeq, LenProperties
<1>2. (\A i \in 1 .. Len(v) : v[i] \in Nat) /\ (\A i \in 1 .. Len(v) : w[i] \in Nat)
  BY ElementOfSeq
<1>3. PICK f : Adds(v, f) /\ Sum(v) = f[Len(v)]
  BY SumAdds
<1>4. PICK g : Adds(w, g) /\ Sum(w) = g[Len(w)]
  BY SumAdds
<1>5. \A i \in 0 .. Len(v) - 1 : f[i] = g[i] /\ f[i] \in Nat
  <2> DEFINE n == Len(v) - 1
  <2>1. n \in Nat /\ n <= Len(v) /\ n <= Len(w) /\ Len(w) \in Nat
    BY <1>1
  <2>2. \A i \in 1 .. n : v[i] = w[i] /\ v[i] \in Nat
    BY <1>1, <1>2
  <2> HIDE DEF n
  <2>3. \A i \in 0 .. n : f[i] = g[i] /\ f[i] \in Nat
    BY <1>1, <1>3, <1>4, <2>1, <2>2, AddsAgree
  <2> QED
    BY <2>3 DEF n
<1>6. f[Len(v)] = f[Len(v) - 1] + v[Len(v)] /\ g[Len(w)] = g[Len(w) - 1] + w[Len(w)]
  BY <1>1, <1>3, <1>4 DEF Adds
<1>7. v[Len(v)] \in Nat /\ w[Len(v)] \in Nat
  BY <1>1, <1>2
<1> QED
  BY <1>1, <1>3, <1>4, <1>5, <1>6, <1>7
-----------------------------------------------------------------------------
(* What has been allocated, and what clear_configuration finds *)

Endpts == [addr : Nat, extra : Nat]
Alts == [num : Nat, eps : Seq(Endpts), extra : Nat, backed : BOOLEAN]
Confs == [extra : Nat, ifaces : Seq(Seq(Alts))]

\* The blocks of each element, in order.
EpBlocks(eps) == [j \in DOMAIN eps |-> clear_endpoint(eps[j])]
AltBlocks(s) == [k \in DOMAIN s |-> clear_altsetting(s[k])]
IfaceBlocks(ifaces) == [i \in DOMAIN ifaces |-> clear_interface(ifaces[i])]
\* The blocks of a configuration.
Held(c) == 1 + One(c.extra > 0) + Sum(IfaceBlocks(c.ifaces))

LEMMA EpBlocksType ==
  ASSUME NEW eps \in Seq(Endpts)
  PROVE  EpBlocks(eps) \in Seq(Nat) /\ Len(EpBlocks(eps)) = Len(eps)
<1>1. Len(eps) \in Nat /\ DOMAIN eps = 1 .. Len(eps)
  BY LenProperties
<1>2. \A j \in 1 .. Len(eps) : clear_endpoint(eps[j]) \in Nat
  BY DEF clear_endpoint, One
<1> QED
  BY <1>1, <1>2 DEF EpBlocks

LEMMA AltBlocksExpand ==
  ASSUME NEW a \in Alts
  PROVE  /\ clear_altsetting(a) = One(a.extra > 0)
                                    + (IF a.backed THEN 1 + Sum(EpBlocks(a.eps)) ELSE 0)
         /\ clear_altsetting(a) \in Nat
<1>1. Sum(EpBlocks(a.eps)) \in Nat
  <2>1. a.eps \in Seq(Endpts)
    BY DEF Alts
  <2>2. PICK w \in Seq(Nat) : w = EpBlocks(a.eps)
    BY <2>1, EpBlocksType
  <2> QED
    BY <2>2, SumType
<1>2. clear_altsetting(a) = One(a.extra > 0)
                              + (IF a.backed THEN 1 + Sum(EpBlocks(a.eps)) ELSE 0)
  BY DEF clear_altsetting, EpBlocks
<1> QED
  BY <1>1, <1>2 DEF One

LEMMA AltBlocksType ==
  ASSUME NEW s \in Seq(Alts)
  PROVE  AltBlocks(s) \in Seq(Nat) /\ Len(AltBlocks(s)) = Len(s)
<1>1. Len(s) \in Nat /\ DOMAIN s = 1 .. Len(s)
  BY LenProperties
<1>2. \A k \in 1 .. Len(s) : clear_altsetting(s[k]) \in Nat
  BY ElementOfSeq, AltBlocksExpand
<1> QED
  BY <1>1, <1>2 DEF AltBlocks

LEMMA IfaceBlocksExpand ==
  ASSUME NEW s \in Seq(Alts)
  PROVE  /\ clear_interface(s) = IF s = <<>> THEN 0 ELSE 1 + Sum(AltBlocks(s))
         /\ Sum(AltBlocks(s)) \in Nat /\ clear_interface(s) \in Nat
<1>1. Sum(AltBlocks(s)) \in Nat
  <2>1. PICK w \in Seq(Nat) : w = AltBlocks(s)
    BY AltBlocksType
  <2> QED
    BY <2>1, SumType
<1> QED
  BY <1>1 DEF clear_interface, AltBlocks

LEMMA IfaceBlocksType ==
  ASSUME NEW ss \in Seq(Seq(Alts))
  PROVE  IfaceBlocks(ss) \in Seq(Nat) /\ Len(IfaceBlocks(ss)) = Len(ss)
<1>1. Len(ss) \in Nat /\ DOMAIN ss = 1 .. Len(ss)
  BY LenProperties
<1>2. \A i \in 1 .. Len(ss) : clear_interface(ss[i]) \in Nat
  BY ElementOfSeq, IfaceBlocksExpand
<1> QED
  BY <1>1, <1>2 DEF IfaceBlocks

LEMMA HeldType ==
  ASSUME NEW c \in Confs
  PROVE  Held(c) \in Nat /\ Held(c) >= 1
<1>1. c.ifaces \in Seq(Seq(Alts)) /\ c.extra \in Nat
  BY DEF Confs
<1>2. PICK w \in Seq(Nat) : w = IfaceBlocks(c.ifaces)
  BY <1>1, IfaceBlocksType
<1>3. Sum(w) \in Nat
  BY SumType
<1> QED
  BY <1>1, <1>2, <1>3 DEF Held, One

LEMMA HeldNow ==
  clear_configuration = Held(conf)
BY DEF clear_configuration, Held, IfaceBlocks

-----------------------------------------------------------------------------
(* What each step does to the blocks that can be found *)

\* An endpoint of zeros more.
LEMMA EndpointAdded ==
  ASSUME NEW a \in Alts, NEW e \in Endpts, e.extra = 0,
         NEW b, b = [a EXCEPT !.eps = Append(@, e)]
  PROVE  /\ b \in Alts /\ clear_altsetting(b) = clear_altsetting(a)
         /\ b.eps = Append(a.eps, e) /\ b.num = a.num /\ b.extra = a.extra
         /\ b.backed = a.backed
<1>1. a.eps \in Seq(Endpts) /\ Append(a.eps, e) \in Seq(Endpts)
  BY AppendProperties DEF Alts
<1>2. b \in Alts /\ b.eps = Append(a.eps, e) /\ b.num = a.num /\ b.extra = a.extra
        /\ b.backed = a.backed
  BY <1>1 DEF Alts
<1>3. PICK v \in Seq(Nat) : v = EpBlocks(a.eps) /\ Len(v) = Len(a.eps)
  BY <1>1, EpBlocksType
<1>4. PICK w \in Seq(Nat) : w = EpBlocks(b.eps) /\ Len(w) = Len(b.eps)
  BY <1>1, <1>2, EpBlocksType
<1>5. /\ Len(b.eps) = Len(a.eps) + 1 /\ \A j \in 1 .. Len(a.eps) : b.eps[j] = a.eps[j]
      /\ b.eps[Len(b.eps)] = e
  BY <1>1, <1>2, AppendProperties
<1>6. /\ \A j \in 1 .. Len(v) : v[j] = w[j]
      /\ w[Len(w)] = 0
  <2>1. DOMAIN a.eps = 1 .. Len(a.eps) /\ DOMAIN b.eps = 1 .. Len(b.eps) /\ Len(a.eps) \in Nat
    BY <1>1, <1>2, LenProperties
  <2> QED
    BY <1>3, <1>4, <1>5, <2>1 DEF EpBlocks, clear_endpoint, One
<1>7. Sum(w) = Sum(v) + w[Len(w)] /\ Sum(v) \in Nat
  <2>1. Len(w) = Len(v) + 1
    BY <1>3, <1>4, <1>5
  <2>2. Sum(w) = Sum(v) + w[Len(w)]
    BY <1>6, <2>1, SumMore, ZenonT(40)
  <2> QED
    BY <2>2, SumType
<1>8. Sum(EpBlocks(b.eps)) = Sum(EpBlocks(a.eps))
  BY <1>3, <1>4, <1>6, <1>7
<1> QED
  BY <1>2, <1>8, AltBlocksExpand

\* The class descriptors of the last endpoint.
WithExtra(a, x) == [a EXCEPT !.eps[Len(a.eps)].extra = x]

LEMMA EndpointExtra ==
  ASSUME NEW a \in Alts, a.backed, a.eps # <<>>, a.eps[Len(a.eps)].extra = 0,
         NEW x \in Nat, NEW b, b = WithExtra(a, x)
  PROVE  /\ b \in Alts /\ clear_altsetting(b) = clear_altsetting(a) + One(x > 0)
         /\ Len(b.eps) = Len(a.eps) /\ b.num = a.num /\ b.extra = a.extra
         /\ b.backed = a.backed
         /\ \A j \in 1 .. Len(a.eps) : b.eps[j].addr = a.eps[j].addr
         /\ \A j \in 1 .. Len(a.eps) - 1 : b.eps[j] = a.eps[j]
         /\ b.eps[Len(a.eps)] = [a.eps[Len(a.eps)] EXCEPT !.extra = x]
<1> DEFINE n == Len(a.eps)
           e == [a.eps[n] EXCEPT !.extra = x]
           new == [a.eps EXCEPT ![n] = e]
<1>1. a.eps \in Seq(Endpts) /\ n \in Nat /\ n >= 1 /\ DOMAIN a.eps = 1 .. n
  BY LenProperties, EmptySeq DEF Alts
<1>2. \A j \in 1 .. n : a.eps[j] \in Endpts
  BY <1>1, ElementOfSeq
<1>3. e \in Endpts /\ e.extra = x /\ e.addr = a.eps[n].addr
  BY <1>1, <1>2 DEF Endpts
<1>4. /\ new \in Seq(Endpts) /\ Len(new) = n /\ new[n] = e
      /\ \A j \in 1 .. n - 1 : new[j] = a.eps[j]
  <2> HIDE DEF e
  <2> QED
    BY <1>1, <1>3
<1>5. /\ b \in Alts /\ b.eps = new /\ b.num = a.num /\ b.extra = a.extra
      /\ b.backed = a.backed
  <2>1. b = [a EXCEPT !.eps = new]
    BY DEF WithExtra
  <2> HIDE DEF new
  <2> QED
    BY <1>4, <2>1 DEF Alts
<1> HIDE DEF new, e, n
<1>6. PICK v \in Seq(Nat) : v = EpBlocks(a.eps) /\ Len(v) = Len(a.eps)
  BY <1>1, EpBlocksType
<1>7. PICK w \in Seq(Nat) : w = EpBlocks(b.eps) /\ Len(w) = Len(b.eps)
  BY <1>4, <1>5, EpBlocksType
<1>8. n = Len(a.eps)
  BY DEF n
<1>9. /\ \A j \in 1 .. Len(v) - 1 : v[j] = w[j]
      /\ v[Len(v)] = 0 /\ w[Len(w)] = One(x > 0)
  <2>1. DOMAIN b.eps = 1 .. n
    BY <1>4, <1>5, LenProperties
  <2>2. \A j \in 1 .. n : v[j] = clear_endpoint(a.eps[j])
    BY <1>1, <1>6 DEF EpBlocks
  <2>3. \A j \in 1 .. n : w[j] = clear_endpoint(b.eps[j])
    BY <1>7, <2>1 DEF EpBlocks
  <2>4. clear_endpoint(a.eps[n]) = 0 /\ clear_endpoint(b.eps[n]) = One(x > 0)
    BY <1>3, <1>4, <1>5, <1>8 DEF clear_endpoint, One
  <2>5. \A j \in 1 .. n - 1 : v[j] = w[j]
    <3> TAKE j \in 1 .. n - 1
    <3>1. j \in 1 .. n
      BY <1>1
    <3>2. b.eps[j] = a.eps[j]
      BY <1>4, <1>5
    <3> QED
      BY <2>2, <2>3, <3>1, <3>2
  <2>6. v[n] = 0 /\ w[n] = One(x > 0)
    <3>1. n \in 1 .. n
      BY <1>1
    <3> QED
      BY <2>2, <2>3, <2>4, <3>1
  <2>7. Len(v) = n /\ Len(w) = n
    BY <1>4, <1>5, <1>6, <1>7, <1>8
  <2> QED
    BY <2>5, <2>6, <2>7
<1>10. Sum(w) - w[Len(w)] = Sum(v) - v[Len(v)]
  <2>1. v # <<>>
    BY <1>1, <1>6, <1>8, EmptySeq
  <2> QED
    BY <1>4, <1>5, <1>6, <1>7, <1>8, <1>9, <2>1, SumLast, SMTT(30)
<1>11. Sum(EpBlocks(b.eps)) = Sum(EpBlocks(a.eps)) + One(x > 0)
  <2>1. Sum(w) \in Nat /\ Sum(v) \in Nat /\ One(x > 0) \in Nat
    BY SumType DEF One
  <2> QED
    BY <1>6, <1>7, <1>9, <1>10, <2>1
<1>12. clear_altsetting(b) = clear_altsetting(a) + One(x > 0)
  <2>1. PICK p \in Nat : p = Sum(EpBlocks(a.eps))
    BY <1>6, SumType
  <2>2. PICK q \in Nat : q = One(a.extra > 0)
    BY DEF One
  <2>3. PICK g \in Nat : g = One(x > 0)
    BY DEF One
  <2>4. clear_altsetting(a) = q + (1 + p)
    BY <2>1, <2>2, AltBlocksExpand
  <2>5. clear_altsetting(b) = q + (1 + (p + g))
    BY <1>5, <1>11, <2>1, <2>2, <2>3, AltBlocksExpand
  <2> QED
    BY <2>1, <2>2, <2>3, <2>4, <2>5
<1>13. \A j \in 1 .. n : b.eps[j].addr = a.eps[j].addr
  <2> TAKE j \in 1 .. n
  <2>1. CASE j = n
    BY <1>3, <1>4, <1>5, <2>1
  <2>2. CASE j # n
    BY <1>1, <1>4, <1>5, <2>2
  <2> QED
    BY <2>1, <2>2
<1> QED
  BY <1>3, <1>4, <1>5, <1>8, <1>12, <1>13 DEF e

LEMMA ExtraAddrs ==
  ASSUME NEW a \in Alts, a.eps # <<>>, NEW x \in Nat, NEW b, b = WithExtra(a, x)
  PROVE  \A j \in 1 .. Len(a.eps) : b.eps[j].addr = a.eps[j].addr
<1>1. a.eps \in Seq(Endpts) /\ DOMAIN a.eps = 1 .. Len(a.eps)
  BY LenProperties DEF Alts
<1>2. \A j \in 1 .. Len(a.eps) : a.eps[j] \in Endpts
  BY <1>1, ElementOfSeq
<1>3. b.eps = [a.eps EXCEPT ![Len(a.eps)] = [a.eps[Len(a.eps)] EXCEPT !.extra = x]]
  BY DEF WithExtra, Alts
<1> QED
  BY <1>1, <1>2, <1>3 DEF Endpts

\* The class descriptors of a new setting, and the memory for its endpoints.
LEMMA AltFilled ==
  ASSUME NEW b \in Alts, b.eps = <<>>
  PROVE  clear_altsetting(b) = One(b.extra > 0) + One(b.backed)
<1>1. Sum(EpBlocks(b.eps)) = 0
  <2>1. EpBlocks(<<>>) = <<>>
    BY DEF EpBlocks
  <2> QED
    BY <2>1, SumEmpty
<1>2. PICK p : p = Sum(EpBlocks(b.eps))
  OBVIOUS
<1>3. clear_altsetting(b) = One(b.extra > 0) + (IF b.backed THEN 1 + p ELSE 0)
  BY <1>2, AltBlocksExpand
<1>4. p = 0
  BY <1>1, <1>2
<1> QED
  BY <1>3, <1>4 DEF One

\* A setting more.
LEMMA AltAdded ==
  ASSUME NEW s \in Seq(Alts), NEW t \in Seq(Alts), Len(t) = Len(s) + 1,
         \A k \in 1 .. Len(s) : t[k] = s[k]
  PROVE  clear_interface(t) = clear_interface(s) + clear_altsetting(t[Len(t)]) + One(s = <<>>)
<1>1. /\ Len(s) \in Nat /\ DOMAIN s = 1 .. Len(s)
      /\ t # <<>> /\ Len(t) \in 1 .. Len(t) /\ DOMAIN t = 1 .. Len(t)
  BY EmptySeq, LenProperties
<1>2. PICK v \in Seq(Nat) : v = AltBlocks(s) /\ Len(v) = Len(s)
  BY AltBlocksType
<1>3. PICK w \in Seq(Nat) : w = AltBlocks(t) /\ Len(w) = Len(t)
  BY AltBlocksType
<1>4. /\ \A k \in 1 .. Len(s) : v[k] = clear_altsetting(s[k])
      /\ \A k \in 1 .. Len(t) : w[k] = clear_altsetting(t[k])
  BY <1>1, <1>2, <1>3 DEF AltBlocks
<1>5. \A k \in 1 .. Len(v) : v[k] = w[k]
  BY <1>1, <1>2, <1>4
<1>6. PICK z : z = clear_altsetting(t[Len(t)])
  OBVIOUS
<1>7. w[Len(w)] = z /\ z \in Nat
  <2>1. t[Len(t)] \in Alts
    BY <1>1, ElementOfSeq
  <2> QED
    BY <1>1, <1>3, <1>4, <1>6, <2>1, AltBlocksExpand
<1>8. Sum(w) = Sum(v) + w[Len(w)]
  BY <1>2, <1>3, <1>5, SumMore
<1>9. PICK p \in Nat : p = Sum(v)
  BY SumType
<1>10. s = <<>> => p = 0
  <2>1. AltBlocks(<<>>) = <<>>
    BY DEF AltBlocks
  <2> QED
    BY <1>2, <1>9, <2>1, SumEmpty
<1>11. clear_interface(t) = 1 + (p + z)
  BY <1>1, <1>3, <1>7, <1>8, <1>9, IfaceBlocksExpand
<1>12. clear_interface(s) = IF s = <<>> THEN 0 ELSE 1 + p
  BY <1>2, <1>9, IfaceBlocksExpand
<1>13. CASE s = <<>>
  BY <1>6, <1>7, <1>9, <1>10, <1>11, <1>12, <1>13 DEF One
<1>14. CASE s # <<>>
  BY <1>6, <1>7, <1>9, <1>11, <1>12, <1>14 DEF One
<1> QED
  BY <1>13, <1>14

\* The last setting of an interface is replaced.
LEMMA LastAltSet ==
  ASSUME NEW s \in Seq(Alts), NEW t \in Seq(Alts), s # <<>>, Len(t) = Len(s),
         \A k \in 1 .. Len(s) - 1 : t[k] = s[k]
  PROVE  clear_interface(t) - clear_altsetting(t[Len(t)])
           = clear_interface(s) - clear_altsetting(s[Len(s)])
<1>1. /\ Len(s) \in Nat \ {0} /\ DOMAIN s = 1 .. Len(s)
      /\ t # <<>> /\ DOMAIN t = 1 .. Len(t)
  BY EmptySeq, LenProperties
<1>2. PICK v \in Seq(Nat) : v = AltBlocks(s) /\ Len(v) = Len(s)
  BY AltBlocksType
<1>3. PICK w \in Seq(Nat) : w = AltBlocks(t) /\ Len(w) = Len(t)
  BY AltBlocksType
<1>4. /\ \A k \in 1 .. Len(s) : v[k] = clear_altsetting(s[k])
      /\ \A k \in 1 .. Len(t) : w[k] = clear_altsetting(t[k])
  BY <1>1, <1>2, <1>3 DEF AltBlocks
<1>5. \A k \in 1 .. Len(v) - 1 : v[k] = w[k]
  BY <1>1, <1>2, <1>4
<1>6. PICK x : x = clear_altsetting(s[Len(s)])
  OBVIOUS
<1>7. PICK z : z = clear_altsetting(t[Len(t)])
  OBVIOUS
<1>8. v[Len(v)] = x /\ w[Len(w)] = z /\ x \in Nat /\ z \in Nat
  <2>1. Len(s) \in 1 .. Len(s)
    BY <1>1
  <2>2. s[Len(s)] \in Alts /\ t[Len(t)] \in Alts
    BY <2>1, ElementOfSeq
  <2> QED
    BY <1>2, <1>3, <1>4, <1>6, <1>7, <2>1, <2>2, AltBlocksExpand
<1>9. Sum(w) - w[Len(w)] = Sum(v) - v[Len(v)]
  <2>1. v # <<>>
    BY <1>1, <1>2, EmptySeq
  <2> QED
    BY <1>2, <1>3, <1>5, <2>1, SumLast
<1>10. clear_interface(t) = 1 + Sum(w) /\ clear_interface(s) = 1 + Sum(v)
  BY <1>1, <1>2, <1>3, IfaceBlocksExpand
<1>11. Sum(v) \in Nat /\ Sum(w) \in Nat
  BY SumType
<1> QED
  BY <1>6, <1>7, <1>8, <1>9, <1>10, <1>11, SMTT(30)

\* The last interface of a configuration is replaced.
LEMMA LastIfaceSet ==
  ASSUME NEW c \in Confs, NEW d \in Confs, c.ifaces # <<>>, d.extra = c.extra,
         Len(d.ifaces) = Len(c.ifaces),
         \A i \in 1 .. Len(c.ifaces) - 1 : d.ifaces[i] = c.ifaces[i]
  PROVE  Held(d) - clear_interface(d.ifaces[Len(d.ifaces)])
           = Held(c) - clear_interface(c.ifaces[Len(c.ifaces)])
<1>1. PICK s \in Seq(Seq(Alts)) : s = c.ifaces
  BY DEF Confs
<1>2. PICK t \in Seq(Seq(Alts)) : t = d.ifaces
  BY DEF Confs
<1>3. /\ Len(s) \in Nat \ {0} /\ DOMAIN s = 1 .. Len(s) /\ Len(t) = Len(s)
      /\ DOMAIN t = 1 .. Len(t) /\ \A i \in 1 .. Len(s) - 1 : t[i] = s[i]
  BY <1>1, <1>2, EmptySeq, LenProperties
<1>4. PICK v \in Seq(Nat) : v = IfaceBlocks(s) /\ Len(v) = Len(s)
  BY IfaceBlocksType
<1>5. PICK w \in Seq(Nat) : w = IfaceBlocks(t) /\ Len(w) = Len(t)
  BY IfaceBlocksType
<1>6. /\ \A i \in 1 .. Len(s) : v[i] = clear_interface(s[i])
      /\ \A i \in 1 .. Len(t) : w[i] = clear_interface(t[i])
  BY <1>3, <1>4, <1>5 DEF IfaceBlocks
<1>7. \A i \in 1 .. Len(v) - 1 : v[i] = w[i]
  BY <1>3, <1>4, <1>6, SMTT(30)
<1>8. PICK x : x = clear_interface(s[Len(s)])
  OBVIOUS
<1>9. PICK z : z = clear_interface(t[Len(t)])
  OBVIOUS
<1>10. v[Len(v)] = x /\ w[Len(w)] = z /\ x \in Nat /\ z \in Nat
  <2>1. Len(s) \in 1 .. Len(s)
    BY <1>3
  <2>2. s[Len(s)] \in Seq(Alts) /\ t[Len(t)] \in Seq(Alts)
    BY <1>3, <2>1, ElementOfSeq
  <2> QED
    BY <1>3, <1>4, <1>5, <1>6, <1>8, <1>9, <2>1, <2>2, IfaceBlocksExpand
<1>11. Sum(w) - w[Len(w)] = Sum(v) - v[Len(v)]
  <2>1. v # <<>>
    BY <1>3, <1>4, EmptySeq
  <2> QED
    BY <1>3, <1>4, <1>5, <1>7, <2>1, SumLast
<1>12. PICK q \in Nat : q = One(c.extra > 0)
  BY DEF One
<1>13. Held(d) = 1 + q + Sum(w) /\ Held(c) = 1 + q + Sum(v)
  BY <1>1, <1>2, <1>4, <1>5, <1>12 DEF Held
<1>14. Sum(v) \in Nat /\ Sum(w) \in Nat
  BY SumType
<1>15. Held(d) - z = Held(c) - x
  <2>1. PICK m \in Nat : m = Sum(w)
    BY <1>14
  <2>2. PICK n \in Nat : n = Sum(v)
    BY <1>14
  <2>3. PICK e : e = Held(d)
    OBVIOUS
  <2>4. PICK f : f = Held(c)
    OBVIOUS
  <2>5. e = 1 + q + m /\ f = 1 + q + n /\ m - z = n - x
    BY <1>10, <1>11, <1>13, <2>1, <2>2, <2>3, <2>4
  <2>6. e - z = f - x
    BY <1>10, <2>5
  <2> QED
    BY <2>3, <2>4, <2>6
<1> QED
  BY <1>1, <1>2, <1>3, <1>8, <1>9, <1>15

\* An empty interface more, and perhaps the first class descriptors.
LEMMA IfaceAdded ==
  ASSUME NEW c \in Confs, NEW d \in Confs, Len(d.ifaces) = Len(c.ifaces) + 1,
         \A i \in 1 .. Len(c.ifaces) : d.ifaces[i] = c.ifaces[i],
         d.ifaces[Len(d.ifaces)] = <<>>
  PROVE  Held(d) - One(d.extra > 0) = Held(c) - One(c.extra > 0)
<1>1. PICK s \in Seq(Seq(Alts)) : s = c.ifaces
  BY DEF Confs
<1>2. PICK t \in Seq(Seq(Alts)) : t = d.ifaces
  BY DEF Confs
<1>3. /\ Len(s) \in Nat /\ DOMAIN s = 1 .. Len(s) /\ Len(t) = Len(s) + 1 /\ t[Len(t)] = <<>>
      /\ DOMAIN t = 1 .. Len(t) /\ \A i \in 1 .. Len(s) : t[i] = s[i]
  BY <1>1, <1>2, LenProperties
<1>4. PICK v \in Seq(Nat) : v = IfaceBlocks(s) /\ Len(v) = Len(s)
  BY IfaceBlocksType
<1>5. PICK w \in Seq(Nat) : w = IfaceBlocks(t) /\ Len(w) = Len(t)
  BY IfaceBlocksType
<1>6. /\ \A i \in 1 .. Len(s) : v[i] = clear_interface(s[i])
      /\ \A i \in 1 .. Len(t) : w[i] = clear_interface(t[i])
  BY <1>3, <1>4, <1>5 DEF IfaceBlocks
<1>7. (\A i \in 1 .. Len(v) : v[i] = w[i]) /\ w[Len(w)] = 0
  <2>1. Len(t) \in 1 .. Len(t) /\ clear_interface(<<>>) = 0
    BY <1>3 DEF clear_interface
  <2>2. w[Len(w)] = 0
    BY <1>3, <1>5, <1>6, <2>1
  <2>3. ASSUME NEW i \in 1 .. Len(v) PROVE v[i] = w[i]
    <3>1. i \in 1 .. Len(s) /\ i \in 1 .. Len(t)
      BY <1>3, <1>4
    <3> QED
      BY <1>3, <1>6, <3>1
  <2> QED
    BY <2>2, <2>3
<1>8. Sum(w) = Sum(v) + w[Len(w)]
  BY <1>3, <1>4, <1>5, <1>7, SumMore, ZenonT(40)
<1>9. PICK z \in Nat : z = Sum(v)
  BY SumType
<1>10. PICK p \in Nat : p = One(c.extra > 0)
  BY DEF One
<1>11. PICK q \in Nat : q = One(d.extra > 0)
  BY DEF One
<1>12. Held(d) = 1 + q + z /\ Held(c) = 1 + p + z
  BY <1>1, <1>2, <1>4, <1>5, <1>7, <1>8, <1>9, <1>10, <1>11 DEF Held
<1> QED
  BY <1>9, <1>10, <1>11, <1>12
-----------------------------------------------------------------------------
(* What each step does to the configuration *)

AltsIn(c) == UNION {{c.ifaces[i][k] : k \in DOMAIN c.ifaces[i]} : i \in DOMAIN c.ifaces}

LEMMA AltsInMember ==
  ASSUME NEW c, NEW a
  PROVE  a \in AltsIn(c) <=> \E i \in DOMAIN c.ifaces : \E k \in DOMAIN c.ifaces[i] :
                               a = c.ifaces[i][k]
BY DEF AltsIn

LEMMA AltsInType ==
  ASSUME NEW c \in Confs
  PROVE  AltsIn(c) \subseteq Alts
<1>1. PICK t \in Seq(Seq(Alts)) : t = c.ifaces
  BY DEF Confs
<1>2. ASSUME NEW i \in DOMAIN t, NEW k \in DOMAIN t[i]
      PROVE  t[i][k] \in Alts
  <2>1. t[i] \in Seq(Alts)
    BY LenProperties, ElementOfSeq
  <2>2. PICK s \in Seq(Alts) : s = t[i]
    BY <2>1
  <2>3. s[k] \in Alts
    BY <2>2, LenProperties, ElementOfSeq
  <2> QED
    BY <2>2, <2>3
<1> QED
  BY <1>1, <1>2, AltsInMember

\* c and d differ in their last interfaces at most, which differ in their last
\* settings at most.
SameBut(c, d) ==
  /\ d \in Confs /\ d.extra = c.extra /\ Len(d.ifaces) = Len(c.ifaces) /\ d.ifaces # <<>>
  /\ \A i \in 1 .. Len(c.ifaces) - 1 : d.ifaces[i] = c.ifaces[i]

LEMMA SetIfaceFacts ==
  ASSUME conf \in Confs, conf.ifaces # <<>>, NEW s \in Seq(Alts), NEW d, d = SetIface(s)
  PROVE  SameBut(conf, d) /\ Last(d.ifaces) = s
<1> DEFINE n == Len(conf.ifaces)
           new == [conf.ifaces EXCEPT ![n] = s]
<1>1. conf.ifaces \in Seq(Seq(Alts)) /\ n \in Nat \ {0} /\ DOMAIN conf.ifaces = 1 .. n
  BY EmptySeq, LenProperties DEF Confs
<1>2. /\ new \in Seq(Seq(Alts)) /\ Len(new) = n /\ new[n] = s
      /\ \A i \in 1 .. n - 1 : new[i] = conf.ifaces[i]
  BY <1>1
<1>3. d \in Confs /\ d.ifaces = new /\ d.extra = conf.extra
  <2>1. d = [conf EXCEPT !.ifaces = new]
    BY DEF SetIface
  <2> HIDE DEF new
  <2> QED
    BY <1>2, <2>1 DEF Confs
<1>4. new # <<>>
  BY <1>1, <1>2, EmptySeq
<1> HIDE DEF new
<1> QED
  BY <1>2, <1>3, <1>4 DEF SameBut, Last

LEMMA IfaceType ==
  ASSUME conf \in Confs, conf.ifaces # <<>>
  PROVE  /\ Iface \in Seq(Alts) /\ Len(conf.ifaces) \in DOMAIN conf.ifaces
         /\ Iface = conf.ifaces[Len(conf.ifaces)]
         /\ Iface # <<>> => /\ Alt \in Alts /\ Alt \in AltsIn(conf) /\ Alt = Iface[Len(Iface)]
                            /\ Len(Iface) \in DOMAIN Iface
<1>1. PICK t \in Seq(Seq(Alts)) : t = conf.ifaces
  BY DEF Confs
<1>2. Len(t) \in 1 .. Len(t) /\ DOMAIN t = 1 .. Len(t)
  BY <1>1, EmptySeq, LenProperties
<1>3. t[Len(t)] \in Seq(Alts) /\ Iface = t[Len(t)]
  BY <1>1, <1>2, ElementOfSeq DEF Iface, Last
<1>4. ASSUME Iface # <<>>
      PROVE  Alt \in Alts /\ Alt = Iface[Len(Iface)] /\ Len(Iface) \in DOMAIN Iface
  <2>1. PICK s \in Seq(Alts) : s = Iface
    BY <1>3
  <2>2. Len(s) \in 1 .. Len(s) /\ DOMAIN s = 1 .. Len(s)
    BY <1>4, <2>1, EmptySeq, LenProperties
  <2> QED
    BY <2>1, <2>2, ElementOfSeq DEF Alt, Last
<1> QED
  BY <1>1, <1>2, <1>3, <1>4, AltsInMember

\* The setting being parsed is replaced by a.
LEMMA SetAltFacts ==
  ASSUME conf \in Confs, conf.ifaces # <<>>, Iface # <<>>, NEW a \in Alts,
         NEW d, d = SetAlt(a)
  PROVE  /\ SameBut(conf, d) /\ Last(d.ifaces) # <<>> /\ Last(Last(d.ifaces)) = a
         /\ Len(Last(d.ifaces)) = Len(Iface)
         /\ \A k \in 1 .. Len(Iface) - 1 : Last(d.ifaces)[k] = Iface[k]
         /\ Held(d) = Held(conf) - clear_altsetting(Alt) + clear_altsetting(a)
         /\ \A b \in AltsIn(d) : b = a \/ b \in AltsIn(conf)
<1> DEFINE n == Len(Iface)
           new == [Iface EXCEPT ![n] = a]
<1>1. Iface \in Seq(Alts) /\ Alt = Iface[n] /\ Alt \in Alts
  BY IfaceType
<1>2. n \in Nat \ {0} /\ DOMAIN Iface = 1 .. n
  BY <1>1, EmptySeq, LenProperties
<1>3. /\ new \in Seq(Alts) /\ Len(new) = n /\ new[n] = a
      /\ \A k \in 1 .. n - 1 : new[k] = Iface[k]
  BY <1>1, <1>2
<1>4. PICK s \in Seq(Alts) : s = new
  BY <1>3
<1>5. /\ s # <<>> /\ Len(s) = n /\ s[n] = a /\ \A k \in 1 .. n - 1 : s[k] = Iface[k]
  <2>1. Len(s) = n /\ s[n] = a /\ \A k \in 1 .. n - 1 : s[k] = Iface[k]
    BY <1>3, <1>4, Zenon
  <2> QED
    BY <1>2, <2>1, EmptySeq
<1>6. d = SetIface(s)
  BY <1>4 DEF SetAlt
<1> HIDE DEF new
<1>7. SameBut(conf, d) /\ Last(d.ifaces) = s
  BY <1>6, SetIfaceFacts
<1>8. Last(s) = a
  BY <1>5 DEF Last
<1>9. clear_interface(s) - clear_altsetting(a)
        = clear_interface(Iface) - clear_altsetting(Alt)
  <2>1. PICK g \in Seq(Alts) : g = Iface /\ g # <<>>
    BY <1>1
  <2>2. Len(s) = Len(g) /\ \A k \in 1 .. Len(g) - 1 : s[k] = g[k]
    BY <1>5, <2>1
  <2>3. clear_interface(s) - clear_altsetting(s[Len(s)])
          = clear_interface(g) - clear_altsetting(g[Len(g)])
    BY <2>1, <2>2, LastAltSet
  <2> QED
    BY <1>1, <1>5, <2>1, <2>3
<1>10. Held(d) - clear_interface(s) = Held(conf) - clear_interface(Iface)
  <2>1. d \in Confs
    BY <1>7 DEF SameBut
  <2>2. Held(d) - clear_interface(d.ifaces[Len(d.ifaces)])
          = Held(conf) - clear_interface(conf.ifaces[Len(conf.ifaces)])
    BY <1>7, <2>1, LastIfaceSet DEF SameBut
  <2>3. d.ifaces[Len(d.ifaces)] = s /\ conf.ifaces[Len(conf.ifaces)] = Iface
    BY <1>7, IfaceType DEF Last
  <2> QED
    BY <2>2, <2>3
<1>11. Held(d) = Held(conf) - clear_altsetting(Alt) + clear_altsetting(a)
  <2>1. d \in Confs
    BY <1>7 DEF SameBut
  <2>2. PICK p \in Nat : p = Held(conf)
    BY HeldType
  <2>3. PICK q \in Nat : q = Held(d)
    BY <2>1, HeldType
  <2>4. PICK x \in Nat : x = clear_altsetting(Alt)
    BY <1>1, AltBlocksExpand
  <2>5. PICK y \in Nat : y = clear_altsetting(a)
    BY AltBlocksExpand
  <2>6. PICK u \in Nat : u = clear_interface(Iface)
    BY <1>1, IfaceBlocksExpand
  <2>7. PICK v \in Nat : v = clear_interface(s)
    BY IfaceBlocksExpand
  <2>8. q - v = p - u /\ v - y = u - x
    BY <1>9, <1>10, <2>2, <2>3, <2>4, <2>5, <2>6, <2>7
  <2>9. q = p - x + y
    BY <2>8
  <2> QED
    BY <2>2, <2>3, <2>4, <2>5, <2>9
<1>12. ASSUME NEW b \in AltsIn(d)
       PROVE  b = a \/ b \in AltsIn(conf)
  <2>1. PICK i \in DOMAIN d.ifaces : \E j \in DOMAIN d.ifaces[i] : b = d.ifaces[i][j]
    BY AltsInMember
  <2>10. PICK k \in DOMAIN d.ifaces[i] : b = d.ifaces[i][k]
    BY <2>1
  <2>2. /\ DOMAIN d.ifaces = 1 .. Len(d.ifaces) /\ DOMAIN conf.ifaces = 1 .. Len(conf.ifaces)
        /\ Len(conf.ifaces) \in Nat
    BY <1>7, LenProperties DEF SameBut, Confs
  <2>3. DOMAIN s = 1 .. n
    BY <1>5, LenProperties
  <2>4. CASE i = Len(d.ifaces)
    <3>1. d.ifaces[i] = s
      BY <1>7, <2>4 DEF Last
    <3>2. CASE k = n
      BY <1>5, <2>1, <2>10, <3>1, <3>2
    <3>3. CASE k # n
      <4>1. b = Iface[k] /\ k \in DOMAIN Iface
        BY <1>2, <1>5, <2>1, <2>10, <2>3, <3>1, <3>3
      <4> QED
        BY <4>1, IfaceType, AltsInMember
    <3> QED
      BY <3>2, <3>3
  <2>5. CASE i # Len(d.ifaces)
    <3>1. i \in DOMAIN conf.ifaces /\ d.ifaces[i] = conf.ifaces[i]
      BY <1>7, <2>1, <2>10, <2>2, <2>5 DEF SameBut
    <3> QED
      BY <2>1, <2>10, <3>1, AltsInMember
  <2> QED
    BY <2>4, <2>5
<1> QED
  BY <1>5, <1>7, <1>8, <1>11, <1>12

\* A setting without anything is added to the interface being parsed.
LEMMA AddAltFacts ==
  ASSUME conf \in Confs, conf.ifaces # <<>>, NEW a \in Alts, clear_altsetting(a) = 0,
         NEW d, d = SetIface(Append(Iface, a))
  PROVE  /\ SameBut(conf, d) /\ Last(d.ifaces) # <<>> /\ Last(Last(d.ifaces)) = a
         /\ Len(Last(d.ifaces)) = Len(Iface) + 1
         /\ \A k \in 1 .. Len(Iface) : Last(d.ifaces)[k] = Iface[k]
         /\ Held(d) = Held(conf) + One(Iface = <<>>)
         /\ \A b \in AltsIn(d) : b = a \/ b \in AltsIn(conf)
<1>1. PICK g \in Seq(Alts) : g = Iface
  BY IfaceType
<1>2. PICK s : s = Append(g, a)
  OBVIOUS
<1>3. /\ s \in Seq(Alts) /\ Len(s) = Len(g) + 1 /\ s[Len(s)] = a
      /\ \A k \in 1 .. Len(g) : s[k] = g[k]
  BY <1>2, AppendProperties
<1>4. /\ Len(g) \in Nat /\ DOMAIN g = 1 .. Len(g) /\ DOMAIN s = 1 .. Len(s) /\ s # <<>>
  BY <1>3, EmptySeq, LenProperties
<1>5. SameBut(conf, d) /\ Last(d.ifaces) = s
  BY <1>1, <1>2, <1>3, SetIfaceFacts
<1>6. clear_interface(s) = clear_interface(g) + One(g = <<>>)
  <2>1. clear_interface(s) = clear_interface(g) + clear_altsetting(s[Len(s)]) + One(g = <<>>)
    BY <1>3, AltAdded
  <2>2. PICK x \in Nat : x = clear_interface(g)
    BY IfaceBlocksExpand
  <2>3. PICK y \in Nat : y = One(g = <<>>)
    BY DEF One
  <2> QED
    BY <1>3, <2>1, <2>2, <2>3
<1>7. Held(d) - clear_interface(s) = Held(conf) - clear_interface(g)
  <2>1. d \in Confs
    BY <1>5 DEF SameBut
  <2>2. Held(d) - clear_interface(d.ifaces[Len(d.ifaces)])
          = Held(conf) - clear_interface(conf.ifaces[Len(conf.ifaces)])
    BY <1>5, <2>1, LastIfaceSet DEF SameBut
  <2>3. d.ifaces[Len(d.ifaces)] = s /\ conf.ifaces[Len(conf.ifaces)] = g
    BY <1>1, <1>5, IfaceType DEF Last
  <2> QED
    BY <2>2, <2>3
<1>8. Held(d) = Held(conf) + One(Iface = <<>>)
  <2>1. d \in Confs
    BY <1>5 DEF SameBut
  <2>2. PICK p \in Nat : p = Held(conf)
    BY HeldType
  <2>3. PICK q \in Nat : q = Held(d)
    BY <2>1, HeldType
  <2>4. PICK u \in Nat : u = clear_interface(g)
    BY IfaceBlocksExpand
  <2>5. PICK v \in Nat : v = clear_interface(s)
    BY <1>3, IfaceBlocksExpand
  <2>6. PICK y \in Nat : y = One(g = <<>>)
    BY DEF One
  <2>7. q - v = p - u /\ v = u + y
    BY <1>6, <1>7, <2>2, <2>3, <2>4, <2>5, <2>6
  <2>8. q = p + y
    BY <2>7
  <2> QED
    BY <1>1, <2>2, <2>3, <2>6, <2>8
<1>9. ASSUME NEW b \in AltsIn(d)
      PROVE  b = a \/ b \in AltsIn(conf)
  <2>1. PICK i \in DOMAIN d.ifaces : \E j \in DOMAIN d.ifaces[i] : b = d.ifaces[i][j]
    BY AltsInMember
  <2>10. PICK k \in DOMAIN d.ifaces[i] : b = d.ifaces[i][k]
    BY <2>1
  <2>2. /\ DOMAIN d.ifaces = 1 .. Len(d.ifaces) /\ DOMAIN conf.ifaces = 1 .. Len(conf.ifaces)
        /\ Len(conf.ifaces) \in Nat
    BY <1>5, LenProperties DEF SameBut, Confs
  <2>3. CASE i = Len(d.ifaces)
    <3>1. d.ifaces[i] = s
      BY <1>5, <2>3 DEF Last
    <3>2. CASE k = Len(s)
      BY <1>3, <2>1, <2>10, <3>1, <3>2
    <3>3. CASE k # Len(s)
      <4>1. b = Iface[k] /\ k \in DOMAIN Iface
        BY <1>1, <1>3, <1>4, <2>1, <2>10, <3>1, <3>3
      <4> QED
        BY <4>1, IfaceType, AltsInMember
    <3> QED
      BY <3>2, <3>3
  <2>4. CASE i # Len(d.ifaces)
    <3>1. i \in DOMAIN conf.ifaces /\ d.ifaces[i] = conf.ifaces[i]
      BY <1>5, <2>1, <2>10, <2>2, <2>4 DEF SameBut
    <3> QED
      BY <2>1, <2>10, <3>1, AltsInMember
  <2> QED
    BY <2>3, <2>4
<1>10. Last(s) = a
  BY <1>3 DEF Last
<1> QED
  BY <1>1, <1>3, <1>4, <1>5, <1>8, <1>9, <1>10

\* The next interface begins.
LEMMA AddIfaceFacts ==
  ASSUME conf \in Confs, NEW x \in Nat,
         NEW d, d = [extra |-> x, ifaces |-> Append(conf.ifaces, <<>>)]
  PROVE  /\ d \in Confs /\ d.extra = x /\ Len(d.ifaces) = Len(conf.ifaces) + 1
         /\ d.ifaces # <<>> /\ Last(d.ifaces) = <<>>
         /\ \A i \in 1 .. Len(conf.ifaces) : d.ifaces[i] = conf.ifaces[i]
         /\ Held(d) - One(x > 0) = Held(conf) - One(conf.extra > 0)
         /\ \A b \in AltsIn(d) : b \in AltsIn(conf)
<1>1. PICK s \in Seq(Seq(Alts)) : s = conf.ifaces
  BY DEF Confs
<1>2. PICK t : t = Append(s, <<>>)
  OBVIOUS
<1>3. <<>> \in Seq(Alts)
  OBVIOUS
<1>4. /\ t \in Seq(Seq(Alts)) /\ Len(t) = Len(s) + 1 /\ t[Len(t)] = <<>>
      /\ \A i \in 1 .. Len(s) : t[i] = s[i]
  BY <1>2, <1>3, AppendProperties
<1>5. d \in Confs /\ d.ifaces = t /\ d.extra = x
  BY <1>1, <1>2, <1>4 DEF Confs
<1>6. /\ t # <<>> /\ Len(s) \in Nat /\ DOMAIN s = 1 .. Len(s) /\ DOMAIN t = 1 .. Len(t)
  BY <1>4, EmptySeq, LenProperties
<1>7. Held(d) - One(d.extra > 0) = Held(conf) - One(conf.extra > 0)
  <2>1. /\ Len(d.ifaces) = Len(conf.ifaces) + 1 /\ d.ifaces[Len(d.ifaces)] = <<>>
        /\ \A i \in 1 .. Len(conf.ifaces) : d.ifaces[i] = conf.ifaces[i]
    BY <1>1, <1>4, <1>5
  <2> QED
    BY <1>5, <2>1, IfaceAdded
<1>8. ASSUME NEW b \in AltsIn(d)
      PROVE  b \in AltsIn(conf)
  <2>9. PICK c : c = d
    OBVIOUS
  <2>11. \E i \in DOMAIN c.ifaces : \E j \in DOMAIN c.ifaces[i] : b = c.ifaces[i][j]
    <3>1. b \in AltsIn(c)
      BY <2>9
    <3> QED
      BY <3>1, AltsInMember
  <2>12. c.ifaces = t
    BY <1>5, <2>9
  <2>1. PICK i \in DOMAIN t : \E j \in DOMAIN t[i] : b = t[i][j]
    BY <2>11, <2>12
  <2>10. PICK k \in DOMAIN t[i] : b = t[i][k]
    BY <2>1
  <2>2. i # Len(t)
    BY <1>4, <2>1, <2>10
  <2>3. i \in DOMAIN s /\ t[i] = s[i]
    BY <1>4, <1>6, <2>1, <2>10, <2>2, SMTT(30)
  <2> QED
    BY <1>1, <2>1, <2>10, <2>3, AltsInMember
<1> QED
  BY <1>1, <1>4, <1>5, <1>6, <1>7, <1>8 DEF Last
-----------------------------------------------------------------------------
(* The invariant of the parser *)

ParserPlaces == {"start", "configuration", "skip", "altsetting", "iskip", "endpoint", "eskip",
           "left", "find", "got", "done"}
InSetting == {"iskip", "endpoint", "eskip"}

CallType == raw \in Raws /\ call \in Calls /\ endpoint \in Endpoints \cup {0}
ParserPlace == /\ place \in ParserPlaces /\ result \in {"none", "ok", "error", "missing", "crashed"}
             /\ failures \in 0 .. MaxFailures
BufferType == pos \in 0 .. Len(raw.body) + 1 /\ size \in Int /\ extra \in Nat
ConfType == conf \in Confs

\* How far the configuration is at each place.
Shape ==
  /\ place \in {"start", "configuration"} => conf = NoConf /\ pos = 0 /\ size = 0
  /\ place \notin {"start", "configuration", "done"} => pos > 0
  /\ Len(conf.ifaces) <= raw.num
  /\ place = "skip" => Len(conf.ifaces) < raw.num
  /\ place \in InSetting \cup {"altsetting"} => conf.ifaces # <<>>
  /\ place \in InSetting => Iface # <<>>
  /\ place = "iskip" => Alt.eps = <<>> /\ Alt.extra = 0 /\ ~Alt.backed
  /\ place \in {"endpoint", "eskip"} => (Alt.backed <=> Alt.num > 0)
  /\ place = "eskip" => Alt.eps # <<>> /\ Alt.eps[Len(Alt.eps)].extra = 0

\* What is allocated: the buffer, the descriptor and what can be found from it.
Account ==
  /\ place = "start" => blocks = 0
  /\ place = "configuration" => blocks = 2
  /\ place \in InSetting \cup {"skip", "altsetting", "left"} => blocks = Held(conf) + 2
  /\ place \in {"got", "find"} => blocks = Held(conf) + 1
  /\ blocks \in Nat

\* Where the bytes of the first p descriptors end.
Ends(p) == 9 + Bytes(SubSeq(raw.body, 1, p))

\* size is what lies behind the buffer's position.
SizeLeft == pos > 0 => size = raw.total - Ends(pos - 1)

\* An endpoint is in the place for one that has been allocated, and has been
\* sent in the bytes of the configuration, or is zero.
SentAddr(a) ==
  a # 0 => \E q \in Positions("endpoint") : raw.body[q].addr = a /\ Ends(q) <= raw.total
GoodAlt(a) == /\ Len(a.eps) <= IF a.backed THEN a.num ELSE 0
              /\ \A j \in DOMAIN a.eps : SentAddr(a.eps[j].addr)
AltsGood == \A a \in AltsIn(conf) : GoodAlt(a)

\* A proper descriptor has been passed.
Before(n) == \E q \in 1 .. n : raw.body[q].type # "other"
\* The first setting has been compared with what is left; every other one and
\* all that belongs to a setting comes behind a proper descriptor.
Compared ==
  /\ (place = "altsetting" /\ size >= 9 /\ Iface = <<>>) => Header.len <= size /\ Proper
  /\ (place = "altsetting" /\ Iface # <<>>) =>
       Before(pos - 1) /\ size >= 9 /\ Uncompared(Header)
  /\ place = "iskip" => Before(pos - 1) \/ (size >= 9 /\ Header.len = 0)
  /\ place \in {"endpoint", "eskip"} => Before(pos - 1)

ParserInv ==
  /\ CallType /\ ParserPlace /\ BufferType /\ ConfType
  /\ Shape /\ Account /\ Freed /\ SizeLeft /\ AltsGood /\ Compared /\ InBounds
-----------------------------------------------------------------------------
(* Where the bytes end *)

Lengths(s) == [i \in DOMAIN s |-> s[i].len]

LEMMA LengthsType ==
  ASSUME NEW s \in Seq(Descriptor)
  PROVE  Lengths(s) \in Seq(Nat) /\ Len(Lengths(s)) = Len(s)
<1>1. Len(s) \in Nat /\ DOMAIN s = 1 .. Len(s)
  BY LenProperties
<1>2. \A i \in 1 .. Len(s) : s[i].len \in Nat
  <2> TAKE i \in 1 .. Len(s)
  <2>1. s[i] \in Descriptor
    BY ElementOfSeq
  <2> QED
    BY <2>1 DEF Descriptor
<1> QED
  BY <1>1, <1>2 DEF Lengths

LEMMA EndsFacts ==
  ASSUME raw \in Raws
  PROVE  /\ raw.body \in Seq(Descriptor) /\ raw.total \in Nat /\ raw.num \in Nat
         /\ Len(raw.body) \in Nat /\ DOMAIN raw.body = 1 .. Len(raw.body)
         /\ \A p \in 1 .. Len(raw.body) : raw.body[p] \in Descriptor
         /\ Ends(0) = 9 /\ raw.total <= Ends(Len(raw.body))
         /\ \A p \in 0 .. Len(raw.body) : Ends(p) \in Nat
         /\ \A p \in 1 .. Len(raw.body) : Ends(p) = Ends(p - 1) + raw.body[p].len
<1>1. raw \in [total : Nat, num : Nat, body : Seq(Descriptor)] /\ raw.total <= 9 + Bytes(raw.body)
  BY RawsAssumption
<1>2. PICK s \in Seq(Descriptor) : s = raw.body
  BY <1>1
<1>3. /\ Len(s) \in Nat /\ DOMAIN s = 1 .. Len(s)
      /\ \A p \in 1 .. Len(s) : s[p] \in Descriptor
  BY LenProperties, ElementOfSeq
<1>4. \A p \in 0 .. Len(s) : /\ SubSeq(s, 1, p) \in Seq(Descriptor) /\ Len(SubSeq(s, 1, p)) = p
                             /\ \A i \in 1 .. p : SubSeq(s, 1, p)[i] = s[i]
  <2> TAKE p \in 0 .. Len(s)
  <2>1. \A i \in 1 .. p : s[i] \in Descriptor
    BY <1>3
  <2> QED
    BY <1>3, <2>1, SubSeqProperties
<1>5. ASSUME NEW p \in 0 .. Len(s)
      PROVE  Bytes(SubSeq(s, 1, p)) \in Nat /\ Ends(p) = 9 + Bytes(SubSeq(s, 1, p))
  <2>1. PICK t \in Seq(Descriptor) : t = SubSeq(s, 1, p)
    BY <1>4
  <2>2. PICK w \in Seq(Nat) : w = Lengths(t)
    BY LengthsType
  <2>3. Bytes(t) = Sum(w)
    BY <2>2 DEF Bytes, Lengths
  <2> QED
    BY <1>2, <2>1, <2>3, SumType DEF Ends
<1>6. Bytes(SubSeq(s, 1, 0)) = 0
  <2>1. SubSeq(s, 1, 0) = <<>>
    BY <1>3, <1>4, EmptySeq
  <2>2. Lengths(<<>>) = <<>>
    BY DEF Lengths
  <2>3. Bytes(<<>>) = Sum(Lengths(<<>>))
    BY DEF Bytes, Lengths
  <2> QED
    BY <2>1, <2>2, <2>3, SumEmpty
<1>7. SubSeq(s, 1, Len(s)) = s
  BY <1>3
<1>8. ASSUME NEW p \in 1 .. Len(s)
      PROVE  Bytes(SubSeq(s, 1, p)) = Bytes(SubSeq(s, 1, p - 1)) + s[p].len
  <2>1. p - 1 \in 0 .. Len(s) /\ p \in 0 .. Len(s) /\ p \in Nat
    BY <1>3
  <2>2. PICK t \in Seq(Descriptor) : t = SubSeq(s, 1, p)
    BY <1>4, <2>1
  <2>3. PICK g \in Seq(Descriptor) : g = SubSeq(s, 1, p - 1)
    BY <1>4, <2>1
  <2>4. /\ Len(t) = p /\ Len(g) = p - 1 /\ \A i \in 1 .. p : t[i] = s[i]
        /\ \A i \in 1 .. p - 1 : g[i] = s[i]
    BY <1>4, <2>1, <2>2, <2>3
  <2>5. DOMAIN t = 1 .. p /\ DOMAIN g = 1 .. p - 1
    BY <2>4, LenProperties
  <2>6. PICK w \in Seq(Nat) : w = Lengths(t) /\ Len(w) = p
    BY <2>4, LengthsType
  <2>7. PICK v \in Seq(Nat) : v = Lengths(g) /\ Len(v) = p - 1
    BY <2>4, LengthsType
  <2>8. (\A i \in 1 .. Len(v) : v[i] = w[i]) /\ w[Len(w)] = s[p].len
    <3>1. \A i \in 1 .. p : w[i] = s[i].len
      BY <2>4, <2>5, <2>6 DEF Lengths
    <3>2. \A i \in 1 .. p - 1 : v[i] = s[i].len
      BY <2>4, <2>5, <2>7 DEF Lengths
    <3>3. p \in 1 .. p /\ \A i \in 1 .. p - 1 : i \in 1 .. p
      BY <2>1
    <3> QED
      BY <2>6, <2>7, <3>1, <3>2, <3>3
  <2>9. Sum(w) = Sum(v) + w[Len(w)]
    <3>1. Len(w) = Len(v) + 1
      BY <2>1, <2>6, <2>7
    <3> QED
      BY <2>8, <3>1, SumMore
  <2>10. Bytes(t) = Sum(w) /\ Bytes(g) = Sum(v)
    BY <2>6, <2>7 DEF Bytes, Lengths
  <2> QED
    BY <2>2, <2>3, <2>8, <2>9, <2>10
<1>9. \A p \in 1 .. Len(s) : Ends(p) = Ends(p - 1) + s[p].len
  <2> TAKE p \in 1 .. Len(s)
  <2>1. p \in 0 .. Len(s) /\ p - 1 \in 0 .. Len(s)
    BY <1>3
  <2>2. s[p].len \in Nat
    BY <1>3 DEF Descriptor
  <2>3. Ends(p) = 9 + Bytes(SubSeq(s, 1, p)) /\ Ends(p - 1) = 9 + Bytes(SubSeq(s, 1, p - 1))
    BY <1>5, <2>1
  <2>4. PICK m \in Nat : m = Bytes(SubSeq(s, 1, p - 1))
    BY <1>5, <2>1
  <2>5. Ends(p) = 9 + (m + s[p].len) /\ Ends(p - 1) = 9 + m
    BY <1>8, <2>3, <2>4
  <2> QED
    BY <2>2, <2>4, <2>5
<1>10. Ends(0) = 9
  <2>1. 0 \in 0 .. Len(s)
    BY <1>3
  <2> QED
    BY <1>5, <1>6, <2>1
<1>11. raw.total <= Ends(Len(s))
  <2>1. Len(s) \in 0 .. Len(s)
    BY <1>3
  <2>2. Ends(Len(s)) = 9 + Bytes(s)
    BY <1>5, <1>7, <2>1
  <2> QED
    BY <1>1, <1>2, <2>2
<1>12. \A p \in 0 .. Len(s) : Ends(p) \in Nat
  <2> TAKE p \in 0 .. Len(s)
  <2>1. PICK m \in Nat : m = Bytes(SubSeq(s, 1, p))
    BY <1>5
  <2>2. Ends(p) = 9 + m
    BY <1>5, <2>1
  <2> QED
    BY <2>2
<1> QED
  BY <1>1, <1>2, <1>3, <1>9, <1>10, <1>11, <1>12

\* While bytes are left there is a descriptor to look at.
LEMMA HeaderThere ==
  ASSUME CallType, BufferType, SizeLeft, pos > 0, size > 0
  PROVE  pos \in 1 .. Len(raw.body) /\ Header \in Descriptor
<1>1. /\ Len(raw.body) \in Nat /\ raw.total <= Ends(Len(raw.body)) /\ raw.total \in Nat
      /\ \A p \in 1 .. Len(raw.body) : raw.body[p] \in Descriptor
      /\ \A p \in 0 .. Len(raw.body) : Ends(p) \in Nat
  BY EndsFacts DEF CallType
<1>2. pos \in 1 .. Len(raw.body) + 1 /\ size = raw.total - Ends(pos - 1)
  BY <1>1 DEF BufferType, SizeLeft
<1>3. pos # Len(raw.body) + 1
  <2> SUFFICES ASSUME pos = Len(raw.body) + 1 PROVE FALSE
    OBVIOUS
  <2>1. pos - 1 = Len(raw.body)
    BY <1>1
  <2>2. PICK e \in Nat : e = Ends(Len(raw.body))
    BY <1>1
  <2>3. size = raw.total - e /\ raw.total <= e
    BY <1>1, <1>2, <2>1, <2>2
  <2> QED
    BY <1>1, <2>3
<1>4. pos \in 1 .. Len(raw.body)
  BY <1>1, <1>2, <1>3
<1> QED
  BY <1>1, <1>4 DEF Header

\* One descriptor is passed.
LEMMA AdvanceFacts ==
  ASSUME CallType, BufferType, SizeLeft, pos > 0, size > 0, Advance(Header), UNCHANGED raw
  PROVE  /\ pos' \in 1 .. Len(raw.body) + 1 /\ size' \in Int /\ SizeLeft' /\ pos <= pos'
         /\ pos' - 1 >= pos \/ (Header.len = 0 /\ size' = size /\ pos' = pos)
         /\ size' = size - Header.len /\ size' = raw.total - Ends(pos)
<1>1. pos \in 1 .. Len(raw.body) /\ Header \in Descriptor
  BY HeaderThere
<1>2. /\ Len(raw.body) \in Nat /\ raw.total \in Nat
      /\ \A p \in 0 .. Len(raw.body) : Ends(p) \in Nat
      /\ Ends(pos) = Ends(pos - 1) + raw.body[pos].len
  BY <1>1, EndsFacts DEF CallType
<1>3. PICK m \in Nat : m = Ends(pos - 1)
  BY <1>1, <1>2
<1>4. PICK l \in Nat : l = Header.len
  BY <1>1 DEF Descriptor
<1>5. Ends(pos) = m + l /\ size = raw.total - m
  BY <1>2, <1>3, <1>4 DEF Header, SizeLeft
<1>6. pos' = (IF l = 0 THEN pos ELSE pos + 1) /\ size' = size - l
  BY <1>4 DEF Advance
<1>7. size' = raw.total - Ends(pos'- 1)
  <2>1. CASE l = 0
    BY <1>2, <1>3, <1>5, <1>6, <2>1
  <2>2. CASE l # 0
    <3>1. pos' - 1 = pos
      BY <1>1, <1>6, <2>2
    <3> QED
      BY <1>2, <1>3, <1>5, <1>6, <3>1
  <2> QED
    BY <2>1, <2>2
<1>8. SizeLeft'
  BY <1>7 DEF SizeLeft, Ends
<1>9. size' = size - Header.len /\ size' = raw.total - Ends(pos) /\ size' \in Int
  BY <1>2, <1>3, <1>4, <1>5, <1>6
<1>10. pos' \in 1 .. Len(raw.body) + 1 /\ pos <= pos'
  BY <1>1, <1>2, <1>6
<1>11. pos' - 1 >= pos \/ (Header.len = 0 /\ size' = size /\ pos' = pos)
  <2>1. CASE l = 0
    <3>1. size \in Int
      BY <1>2, <1>3, <1>5
    <3> QED
      BY <1>4, <1>6, <2>1, <3>1
  <2>2. CASE l # 0
    BY <1>1, <1>6, <2>2
  <2> QED
    BY <2>1, <2>2
<1> QED
  BY <1>8, <1>9, <1>10, <1>11
-----------------------------------------------------------------------------
(* What every step leaves as it was *)

LEMMA BodyKept ==
  ASSUME UNCHANGED input
  PROVE  /\ raw' = raw /\ call' = call /\ endpoint' = endpoint
         /\ \A a : SentAddr(a)' <=> SentAddr(a)
         /\ Overlong' <=> Overlong
         /\ \A n : Before(n)' <=> Before(n)
BY DEF input, SentAddr, Positions, Ends, Overlong, Before

LEMMA BufferKept ==
  ASSUME ParserInv, UNCHANGED <<input, pos, size>>, extra' \in Nat
  PROVE  CallType' /\ BufferType' /\ SizeLeft' /\ InBounds'
<1>1. raw' = raw /\ call' = call /\ endpoint' = endpoint /\ (Overlong' <=> Overlong)
  BY BodyKept
<1>2. CallType' /\ BufferType'
  BY <1>1 DEF ParserInv, CallType, BufferType
<1>3. SizeLeft'
  BY <1>1 DEF ParserInv, SizeLeft, Ends
<1>4. (raw.total >= 9 /\ ~Overlong) => size >= 0
  BY DEF ParserInv, InBounds, Shape
<1>5. InBounds'
  BY <1>1, <1>4 DEF InBounds
<1> QED
  BY <1>2, <1>3, <1>5

LEMMA BufferMoved ==
  ASSUME ParserInv, place # "start", pos > 0, size > 0, Advance(Header), UNCHANGED input,
         extra' \in Nat, Header.len <= size \/ (Uncompared(Header) /\ Before(pos - 1))
  PROVE  CallType' /\ BufferType' /\ SizeLeft' /\ InBounds'
<1>1. raw' = raw /\ call' = call /\ endpoint' = endpoint /\ (Overlong' <=> Overlong)
  BY BodyKept
<1>2. CallType /\ BufferType /\ SizeLeft /\ InBounds
  BY DEF ParserInv
<1>3. /\ pos' \in 1 .. Len(raw.body) + 1 /\ size' \in Int /\ SizeLeft'
      /\ size' = size - Header.len /\ size' = raw.total - Ends(pos)
  BY <1>1, <1>2, AdvanceFacts
<1>4. CallType' /\ BufferType'
  <2>1. Len(raw.body) \in Nat
    BY <1>2, EndsFacts DEF CallType
  <2>2. pos' \in 0 .. Len(raw.body) + 1
    BY <1>3, <2>1
  <2> QED
    BY <1>1, <1>2, <1>3, <2>2 DEF CallType, BufferType
<1>5. ASSUME raw.total >= 9, ~Overlong
      PROVE  size' >= 0
  <2>1. pos \in 1 .. Len(raw.body) /\ Header \in Descriptor
    BY <1>2, HeaderThere
  <2>2. CASE Header.len <= size
    <3>1. PICK l \in Nat : l = Header.len
      BY <2>1 DEF Descriptor
    <3>2. size \in Int /\ size' = size - l /\ l <= size
      BY <1>2, <1>3, <2>2, <3>1 DEF BufferType
    <3> QED
      BY <3>2
  <2>3. CASE Uncompared(Header) /\ Before(pos - 1)
    <3>1. pos \in DOMAIN raw.body
      BY <1>2, <2>1, EndsFacts DEF CallType
    <3>2. ~ (9 + Bytes(SubSeq(raw.body, 1, pos)) > raw.total)
      BY <1>5, <2>3, <3>1 DEF Overlong, Header, Before
    <3>3. ~ (Ends(pos) > raw.total) /\ Ends(pos) \in Nat /\ raw.total \in Nat
      <4>1. pos \in 0 .. Len(raw.body)
        BY <2>1
      <4> QED
        BY <1>2, <3>2, <4>1, EndsFacts DEF Ends, CallType
    <3>4. PICK e \in Nat : e = Ends(pos)
      BY <3>3
    <3> QED
      BY <1>3, <3>3, <3>4
  <2> QED
    BY <2>2, <2>3
<1>6. InBounds'
  BY <1>1, <1>5 DEF InBounds
<1> QED
  BY <1>3, <1>4, <1>6

LEMMA AltsKept ==
  ASSUME AltsGood, UNCHANGED input,
         \A b \in AltsIn(conf') : GoodAlt(b) \/ b \in AltsIn(conf)
  PROVE  AltsGood'
<1>1. \A b \in AltsIn(conf') : GoodAlt(b)
  BY DEF AltsGood
<1>2. \A b : GoodAlt(b)' <=> GoodAlt(b)
  BY BodyKept DEF GoodAlt
<1>3. AltsIn(conf)' = AltsIn(conf')
  BY DEF AltsIn
<1> QED
  BY <1>1, <1>2, <1>3 DEF AltsGood

LEMMA FaultsCounted ==
  ASSUME ParserPlace, malloc \/ Fails
  PROVE  failures' \in 0 .. MaxFailures
BY LimitsAssumption DEF ParserPlace, malloc, Fails

\* A way out of the parser that has an err label frees everything.
LEMMA ErrCase ==
  ASSUME ParserInv, place \in InSetting \cup {"skip", "altsetting"}, Err, malloc \/ Fails
  PROVE  ParserInv'
<1>1. /\ blocks' = blocks - clear_configuration - 2 /\ result' = "error" /\ place' = "done"
      /\ UNCHANGED <<input, buffer, conf>>
  BY DEF Err, Return
<1>2. UNCHANGED <<input, pos, size>> /\ extra' = extra /\ extra \in Nat /\ conf' = conf
  BY <1>1 DEF buffer, ParserInv, BufferType
<1>3. CallType' /\ BufferType' /\ SizeLeft' /\ InBounds'
  BY <1>2, BufferKept
<1>4. ParserPlace'
  BY <1>1, FaultsCounted DEF ParserInv, ParserPlace, ParserPlaces
<1>5. blocks' = 0
  <2>1. PICK h \in Nat : h = Held(conf)
    BY HeldType DEF ParserInv, ConfType
  <2>2. blocks = h + 2
    BY <2>1 DEF ParserInv, Account
  <2> QED
    BY <1>1, <2>1, <2>2, HeldNow
<1>10. place' = "done"
  BY <1>1
<1>6. ConfType' /\ Account' /\ Freed'
  BY <1>2, <1>5, <1>10 DEF ParserInv, ConfType, Account, Freed, InSetting
<1>7. Shape'
  BY <1>1, <1>2, BodyKept DEF ParserInv, Shape, InSetting
<1>8. AltsGood'
  BY <1>2, AltsKept DEF ParserInv
<1>9. Compared'
  BY <1>1 DEF Compared
<1> QED
  BY <1>3, <1>4, <1>6, <1>7, <1>8, <1>9 DEF ParserInv

LEMMA ParserInvStart ==
  ParserInit => ParserInv
<1> SUFFICES ASSUME ParserInit PROVE ParserInv
  OBVIOUS
<1>1. /\ raw \in Raws /\ call \in Calls /\ place = "start" /\ pos = 0 /\ size = 0 /\ extra = 0
      /\ conf = NoConf /\ blocks = 0 /\ result = "none" /\ failures = 0
      /\ endpoint \in Endpoints \cup {0}
  BY DEF ParserInit
<1>2. raw.num \in Nat /\ Len(raw.body) \in Nat
  BY <1>1, EndsFacts
<1>3. CallType /\ ParserPlace /\ BufferType
  BY <1>1, <1>2, LimitsAssumption DEF CallType, ParserPlace, BufferType, ParserPlaces
<1>4. ConfType /\ conf.ifaces = <<>>
  BY <1>1 DEF ConfType, Confs, NoConf
<1>5. Shape /\ Account /\ Freed /\ SizeLeft /\ Compared /\ InBounds
  BY <1>1, <1>2, <1>4 DEF Shape, Account, Freed, SizeLeft, Compared, InBounds, InSetting
<1>6. AltsGood
  BY <1>4, AltsInMember DEF AltsGood
<1> QED
  BY <1>3, <1>4, <1>5, <1>6 DEF ParserInv

LEMMA StepGetActiveConfig ==
  ParserInv /\ GetActiveConfig => ParserInv'
<1> SUFFICES ASSUME ParserInv, GetActiveConfig PROVE ParserInv'
  OBVIOUS
<1>1. /\ place = "start" /\ UNCHANGED <<input, buffer, conf>> /\ (malloc \/ Fails)
      /\ \/ blocks' = 2 /\ place' = "configuration" /\ result' = result
         \/ place' = "done" /\ result' = "error" /\ blocks' = blocks
  BY DEF GetActiveConfig, Return
<1>2. UNCHANGED <<input, pos, size>> /\ extra' = extra /\ extra \in Nat /\ conf' = conf
  BY <1>1 DEF buffer, ParserInv, BufferType
<1>3. CallType' /\ BufferType' /\ SizeLeft' /\ InBounds'
  BY <1>2, BufferKept
<1>4. ParserPlace'
  BY <1>1, FaultsCounted DEF ParserInv, ParserPlace, ParserPlaces
<1>5. blocks = 0
  BY <1>1 DEF ParserInv, Account
<1>6. ConfType' /\ Account' /\ Freed'
  BY <1>1, <1>2, <1>5 DEF ParserInv, ConfType, Account, Freed, InSetting
<1>7. Shape'
  BY <1>1, <1>2, BodyKept DEF ParserInv, Shape, InSetting
<1>8. AltsGood'
  BY <1>2, AltsKept DEF ParserInv
<1>9. Compared'
  BY <1>1 DEF Compared
<1> QED
  BY <1>3, <1>4, <1>6, <1>7, <1>8, <1>9 DEF ParserInv

LEMMA StepConfiguration ==
  ParserInv /\ Configuration => ParserInv'
<1> SUFFICES ASSUME ParserInv, Configuration PROVE ParserInv'
  OBVIOUS
<1>1. place = "configuration" /\ UNCHANGED <<input, conf>> /\ (malloc \/ Fails)
  BY DEF Configuration
<1>2. /\ blocks = 2 /\ conf = NoConf /\ conf' = NoConf /\ extra \in Nat
      /\ raw' = raw /\ raw.num \in Nat /\ raw.total \in Nat /\ Len(raw.body) \in Nat
  BY <1>1, BodyKept, EndsFacts DEF ParserInv, Account, Shape, BufferType, CallType
<1>3. ConfType' /\ AltsGood' /\ CallType' /\ failures' \in 0 .. MaxFailures
  BY <1>1, BodyKept, AltsKept, FaultsCounted DEF ParserInv, ConfType, CallType
<1>4. Compared'
  <2>1. place' \in {"left", "skip", "done"}
    BY DEF Configuration, Return
  <2> QED
    BY <2>1 DEF Compared
<1>5. CASE place' = "done"
  <2>1. result' = "error" /\ blocks' = blocks - 2 /\ UNCHANGED buffer
    BY <1>5 DEF Configuration, Return
  <2>2. CallType' /\ BufferType' /\ SizeLeft' /\ InBounds'
    BY <1>1, <1>2, <2>1, BufferKept DEF buffer
  <2>3. ParserPlace' /\ Account' /\ Freed'
    BY <1>2, <1>3, <1>5, <2>1 DEF ParserPlace, ParserPlaces, Account, Freed, InSetting
  <2>4. Shape'
    BY <1>1, <1>2, <1>5 DEF ParserInv, Shape, InSetting
  <2> QED
    BY <1>3, <1>4, <2>2, <2>3, <2>4 DEF ParserInv
<1>6. CASE place' # "done"
  <2>1. /\ pos' = 1 /\ size' = raw.total - 9 /\ blocks' = blocks + 1 /\ UNCHANGED <<extra, result>>
        /\ place' = IF raw.num = 0 THEN "left" ELSE "skip"
    BY <1>6 DEF Configuration, Return
  <2>2. BufferType' /\ InBounds'
    BY <1>2, <2>1 DEF BufferType, InBounds
  <2>3. SizeLeft'
    <3>1. Ends(0)' = 9
      <4>1. Ends(0) = 9
        BY EndsFacts DEF ParserInv, CallType
      <4> QED
        BY <1>2, <4>1 DEF Ends
    <3> QED
      BY <1>2, <2>1, <3>1 DEF SizeLeft
  <2>4. Held(NoConf) = 1
    <3>1. IfaceBlocks(<<>>) = <<>>
      BY DEF IfaceBlocks
    <3> QED
      BY <3>1, SumEmpty DEF Held, NoConf, One
  <2>5. ParserPlace' /\ Account' /\ Freed'
    BY <1>2, <1>3, <2>1, <2>4 DEF ParserInv, ParserPlace, ParserPlaces, Account, Freed, InSetting
  <2>6. Shape'
    <3>1. NoConf.ifaces = <<>>
      BY DEF NoConf
    <3> QED
      BY <1>2, <2>1, <3>1 DEF Shape, InSetting
  <2> QED
    BY <1>3, <1>4, <2>2, <2>3, <2>5, <2>6 DEF ParserInv
<1> QED
  BY <1>5, <1>6

LEMMA StepSkip ==
  ParserInv /\ Skip => ParserInv'
<1> SUFFICES ASSUME ParserInv, Skip PROVE ParserInv'
  OBVIOUS
<1>1. place \in {"skip", "iskip", "eskip"} /\ Readable /\ malloc
  BY DEF Skip, malloc
<1>2. CASE Bad /\ Err
  BY <1>1, <1>2, ErrCase DEF InSetting
<1>3. CASE ~ (Bad /\ Err)
  <2>1. /\ ~Bad /\ ~Proper /\ Advance(Header) /\ extra' = extra + Header.len
        /\ UNCHANGED <<input, place, conf, blocks, result>>
    BY <1>3 DEF Skip
  <2>2. CallType /\ BufferType /\ SizeLeft /\ pos > 0 /\ size > 0 /\ extra \in Nat
    BY <1>1 DEF ParserInv, Shape, Readable, BufferType
  <2>3. pos \in 1 .. Len(raw.body) /\ Header \in Descriptor /\ raw' = raw /\ Len(raw.body) \in Nat
    BY <2>1, <2>2, HeaderThere, BodyKept, EndsFacts DEF CallType
  <2>4. PICK l \in Nat : l = Header.len
    BY <2>3 DEF Descriptor
  <2>5. l >= 2 /\ (place = "skip" => l <= size) /\ size \in Int
    BY <2>1, <2>2, <2>4 DEF Bad, BufferType
  <2>6. pos' = pos + 1 /\ extra' \in Nat
    BY <2>1, <2>2, <2>4, <2>5 DEF Advance
  <2>7. Header.type = "other" /\ Uncompared(Header)
    BY <2>1 DEF Proper, Uncompared
  <2>8. place # "skip" => Before(pos - 1)
    BY <1>1, <2>4, <2>5 DEF ParserInv, Compared
  <2>9. CallType' /\ BufferType' /\ SizeLeft' /\ InBounds'
    <3>1. Header.len <= size \/ (Uncompared(Header) /\ Before(pos - 1))
      BY <2>4, <2>5, <2>7, <2>8
    <3> QED
      BY <1>1, <2>1, <2>2, <2>6, <3>1, BufferMoved
  <2>10. ParserPlace' /\ ConfType' /\ AltsGood'
    BY <1>1, <2>1, FaultsCounted, AltsKept DEF ParserInv, ParserPlace, ConfType
  <2>11. Account' /\ Freed'
    BY <1>1, <2>1 DEF ParserInv, Account, Freed, InSetting
  <2>12. Shape'
    <3>1. Iface' = Iface /\ Alt' = Alt
      BY <2>1 DEF Iface, Alt
    <3> QED
      BY <1>1, <2>1, <2>3, <2>6, <3>1 DEF ParserInv, Shape, InSetting
  <2>13. Compared'
    <3>1. place # "skip" => Before(pos)
      BY <2>3, <2>8 DEF Before
    <3>2. pos' - 1 = pos
      BY <2>3, <2>6
    <3>3. place' # "skip" => Before(pos - 1)'
      BY <2>1, <3>1, <3>2, BodyKept DEF Before
    <3> QED
      BY <1>1, <2>1, <3>3 DEF Compared
  <2> QED
    BY <2>9, <2>10, <2>11, <2>12, <2>13 DEF ParserInv
<1> QED
  BY <1>2, <1>3

LEMMA StepSkippedConfig ==
  ParserInv /\ SkippedConfig => ParserInv'
<1> SUFFICES ASSUME ParserInv, SkippedConfig PROVE ParserInv'
  OBVIOUS
<1> DEFINE keep == extra > 0 /\ conf.extra = 0
           x == IF keep THEN extra ELSE conf.extra
<1>1. place = "skip" /\ Skipped
  BY DEF SkippedConfig
<1>2. CASE Fails /\ Err
  BY <1>1, <1>2, ErrCase DEF InSetting
<1>3. CASE ~ (Fails /\ Err)
  <2>1. /\ malloc /\ blocks' = blocks + One(keep)
        /\ conf' = [extra |-> x, ifaces |-> Append(conf.ifaces, <<>>)]
        /\ extra' = 0 /\ place' = "altsetting" /\ UNCHANGED <<input, pos, size, result>>
    BY <1>3 DEF SkippedConfig
  <2>2. /\ conf \in Confs /\ extra \in Nat /\ conf.extra \in Nat /\ x \in Nat
        /\ Len(conf.ifaces) \in Nat /\ Len(conf.ifaces) < raw.num /\ raw.num \in Nat /\ pos > 0
        /\ raw' = raw
    BY <1>1, <2>1, LenProperties, EndsFacts, BodyKept
    DEF ParserInv, ConfType, Confs, BufferType, Shape, CallType
  <2>3. PICK d : d = conf'
    OBVIOUS
  <2> HIDE DEF x
  <2>4. /\ d \in Confs /\ d.extra = x /\ Len(d.ifaces) = Len(conf.ifaces) + 1
        /\ d.ifaces # <<>> /\ Last(d.ifaces) = <<>>
        /\ Held(d) - One(x > 0) = Held(conf) - One(conf.extra > 0)
        /\ \A b \in AltsIn(d) : b \in AltsIn(conf)
    BY <2>1, <2>2, <2>3, AddIfaceFacts
  <2>5. Held(d) = Held(conf) + One(keep)
    <3>1. PICK p \in Nat : p = Held(conf)
      BY <2>2, HeldType
    <3>2. PICK q \in Nat : q = Held(d)
      BY <2>4, HeldType
    <3>3. CASE keep
      <4>1. x > 0 /\ ~ (conf.extra > 0)
        BY <2>2, <3>3 DEF x
      <4>2. One(x > 0) = 1 /\ One(conf.extra > 0) = 0 /\ One(keep) = 1
        BY <3>3, <4>1 DEF One
      <4> QED
        BY <2>4, <3>1, <3>2, <4>2
    <3>4. CASE ~keep
      <4>1. x = conf.extra /\ One(keep) = 0
        BY <3>4 DEF x, One
      <4>2. PICK e \in Nat : e = One(x > 0)
        BY DEF One
      <4>3. One(conf.extra > 0) = e
        BY <4>1, <4>2
      <4> QED
        BY <2>4, <3>1, <3>2, <4>1, <4>2, <4>3
    <3> QED
      BY <3>3, <3>4
  <2>6. CallType' /\ BufferType' /\ SizeLeft' /\ InBounds'
    BY <2>1, BufferKept
  <2>7. ParserPlace' /\ ConfType' /\ AltsGood'
    BY <2>1, <2>3, <2>4, FaultsCounted, AltsKept DEF ParserInv, ParserPlace, ConfType, ParserPlaces
  <2>8. Account' /\ Freed'
    <3>1. PICK p \in Nat : p = Held(conf)
      BY <2>2, HeldType
    <3>2. PICK k \in Nat : k = One(keep)
      BY DEF One
    <3>3. blocks = p + 2 /\ blocks' = blocks + k /\ Held(conf') = p + k
      BY <1>1, <2>1, <2>3, <2>5, <3>1, <3>2 DEF ParserInv, Account
    <3>4. blocks' = Held(conf') + 2 /\ blocks' \in Nat
      BY <3>3
    <3> QED
      BY <2>1, <3>4 DEF Account, Freed, InSetting, Held
  <2>9. Shape'
    <3>1. Len(conf'.ifaces) <= raw'.num
      BY <2>2, <2>3, <2>4
    <3> QED
      BY <2>1, <2>2, <2>3, <2>4, <3>1 DEF Shape, InSetting
  <2>10. Compared'
    <3>1. ASSUME size >= 9
          PROVE  Header.len <= size /\ Proper
      <4>1. Readable /\ size \in Int
        BY <3>1 DEF ParserInv, BufferType, Readable
      <4>2. Header \in Descriptor
        BY <2>2, <3>1, <4>1, HeaderThere DEF ParserInv
      <4>3. ~ (Header.len > size) /\ Proper
        BY <1>1, <4>1 DEF Skipped, Bad
      <4> QED
        BY <4>1, <4>2, <4>3 DEF Descriptor
    <3>2. Header' = Header /\ (Proper' <=> Proper)
      BY <2>1, <2>2 DEF Header, Proper
    <3>3. Iface' = <<>>
      BY <2>3, <2>4 DEF Iface
    <3> QED
      BY <2>1, <3>1, <3>2, <3>3 DEF Compared
  <2> QED
    BY <2>6, <2>7, <2>8, <2>9, <2>10 DEF ParserInv
<1> QED
  BY <1>2, <1>3

\* An interface is over: the next one, or the end.
LEMMA InterfaceOver ==
  ASSUME ParserInv, place \notin {"start", "configuration", "done", "got", "find"}, InterfaceDone,
         UNCHANGED <<input, pos, size, result>>,
         extra' \in Nat, malloc,
         NEW d, conf' = d, d \in Confs, Len(d.ifaces) = Len(conf.ifaces),
         \A b \in AltsIn(d) : GoodAlt(b) \/ b \in AltsIn(conf),
         blocks' = Held(d) + 2
  PROVE  ParserInv'
<1>1. place' \in {"left", "skip"} /\ (place' = "skip" => Len(conf.ifaces) # raw.num)
  BY DEF InterfaceDone
<1>2. CallType' /\ BufferType' /\ SizeLeft' /\ InBounds'
  BY BufferKept
<1>3. ParserPlace' /\ ConfType' /\ AltsGood' /\ Compared'
  BY <1>1, FaultsCounted, AltsKept DEF ParserInv, ParserPlace, ConfType, ParserPlaces, Compared
<1>4. Account' /\ Freed'
  <2>1. PICK p \in Nat : p = Held(d)
    BY HeldType
  <2>2. Held(conf)' = p
    BY <2>1 DEF Held
  <2> QED
    BY <1>1, <2>1, <2>2 DEF Account, Freed, InSetting
<1>5. Shape'
  <2>1. Len(conf.ifaces) \in Nat /\ Len(conf.ifaces) <= raw.num /\ raw.num \in Nat /\ pos > 0
    BY LenProperties, EndsFacts DEF ParserInv, ConfType, Confs, Shape, CallType
  <2>2. raw' = raw
    BY BodyKept
  <2> QED
    BY <1>1, <2>1, <2>2 DEF Shape, InSetting
<1> QED
  BY <1>2, <1>3, <1>4, <1>5 DEF ParserInv

LEMMA Wider ==
  ASSUME NEW a \in Int, NEW b \in Int, b >= a
  PROVE  \A q \in 1 .. a : q \in 1 .. b
OBVIOUS

LEMMA StepAltsetting ==
  ParserInv /\ Altsetting => ParserInv'
<1> SUFFICES ASSUME ParserInv, Altsetting PROVE ParserInv'
  OBVIOUS
<1>1. place = "altsetting" /\ conf \in Confs /\ size \in Int /\ extra \in Nat
  BY DEF Altsetting, ParserInv, ConfType, BufferType
<1>2. conf.ifaces # <<>> /\ pos > 0 /\ blocks = Held(conf) + 2
  BY <1>1 DEF ParserInv, Shape, InSetting, Account
<1>3. CASE size < 9
  <2>1. /\ InterfaceDone /\ malloc /\ UNCHANGED <<input, pos, size, result>>
        /\ extra' \in Nat /\ conf' = conf /\ blocks' = Held(conf) + 2
    BY <1>1, <1>2, <1>3 DEF Altsetting, buffer
  <2>2. PICK d : d = conf
    OBVIOUS
  <2>3. conf' = d /\ d \in Confs /\ Len(d.ifaces) = Len(conf.ifaces) /\ blocks' = Held(d) + 2
          /\ \A b \in AltsIn(d) : GoodAlt(b) \/ b \in AltsIn(conf)
    BY <1>1, <2>1, <2>2
  <2>4. place \notin {"start", "configuration", "done", "got", "find"}
    BY <1>1
  <2> QED
    BY <2>1, <2>3, <2>4, InterfaceOver
<1>4. CASE Fails /\ Err
  BY <1>1, <1>4, ErrCase DEF InSetting
<1>5. CASE size >= 9 /\ ~ (Fails /\ Err)
  <2> DEFINE a == [num |-> Header.num, eps |-> <<>>, extra |-> 0, backed |-> FALSE]
  <2>1. /\ malloc /\ conf' = SetIface(Append(Iface, a)) /\ blocks' = blocks + One(Iface = <<>>)
        /\ Advance(Header) /\ place' = "iskip" /\ UNCHANGED <<input, extra, result>>
    BY <1>1, <1>5 DEF Altsetting
  <2>2. CallType /\ BufferType /\ SizeLeft /\ size > 0
    BY <1>1, <1>5 DEF ParserInv
  <2>3. /\ pos \in 1 .. Len(raw.body) /\ Header \in Descriptor /\ raw' = raw
        /\ Len(raw.body) \in Nat
    BY <1>2, <2>1, <2>2, HeaderThere, BodyKept, EndsFacts DEF CallType
  <2>4. a \in Alts /\ a.eps = <<>> /\ a.extra = 0 /\ a.backed = FALSE /\ a.num \in Nat
    BY <2>3 DEF Alts, Descriptor
  <2> HIDE DEF a
  <2>5. clear_altsetting(a) = 0
    BY <2>4, AltFilled DEF One
  <2>6. PICK d : d = conf'
    OBVIOUS
  <2>7. /\ SameBut(conf, d) /\ Last(d.ifaces) # <<>> /\ Last(Last(d.ifaces)) = a
        /\ Held(d) = Held(conf) + One(Iface = <<>>)
        /\ \A b \in AltsIn(d) : b = a \/ b \in AltsIn(conf)
    BY <1>1, <1>2, <2>1, <2>4, <2>5, <2>6, AddAltFacts
  <2>8. GoodAlt(a)
    BY <2>4 DEF GoodAlt
  <2>9. Header.len <= size \/ (Uncompared(Header) /\ Before(pos - 1))
    BY <1>1, <1>5 DEF ParserInv, Compared
  <2>10. CallType' /\ BufferType' /\ SizeLeft' /\ InBounds'
    BY <1>1, <1>2, <2>1, <2>2, <2>9, BufferMoved
  <2>11. ParserPlace' /\ ConfType' /\ AltsGood'
    BY <2>1, <2>6, <2>7, <2>8, FaultsCounted, AltsKept
    DEF ParserInv, ParserPlace, ConfType, ParserPlaces, SameBut
  <2>12. Account' /\ Freed'
    <3>1. PICK p \in Nat : p = Held(conf)
      BY <1>1, HeldType
    <3>2. PICK k \in Nat : k = One(Iface = <<>>)
      BY DEF One
    <3>3. blocks = p + 2 /\ blocks' = blocks + k /\ Held(conf') = p + k
      BY <1>2, <2>1, <2>6, <2>7, <3>1, <3>2
    <3>4. blocks' = Held(conf') + 2 /\ blocks' \in Nat
      BY <3>3
    <3> QED
      BY <2>1, <3>4 DEF Account, Freed, InSetting, Held
  <2>13. /\ pos' \in 1 .. Len(raw.body) + 1 /\ pos <= pos'
         /\ pos' - 1 >= pos \/ (Header.len = 0 /\ size' = size /\ pos' = pos)
    BY <1>2, <2>1, <2>2, <2>3, AdvanceFacts
  <2>14. Shape'
    <3>1. Iface' = Last(d.ifaces) /\ Alt' = a
      BY <2>6, <2>7 DEF Iface, Alt
    <3>2. Len(conf'.ifaces) <= raw'.num
      BY <2>3, <2>6, <2>7 DEF ParserInv, Shape, SameBut
    <3> QED
      BY <2>1, <2>3, <2>4, <2>6, <2>7, <2>13, <3>1, <3>2 DEF Shape, SameBut, InSetting
  <2>15. Compared'
    <3>1. CASE Header.len = 0 /\ size' = size /\ pos' = pos
      <4>1. Header'.len = 0 /\ size' >= 9
        BY <1>5, <2>3, <3>1 DEF Header
      <4> QED
        BY <2>1, <4>1 DEF Compared
    <3>2. CASE pos' - 1 >= pos
      <4>1. \E q \in 1 .. pos : raw.body[q].type # "other"
        <5>1. CASE Iface = <<>>
          BY <1>1, <1>5, <2>3, <5>1 DEF ParserInv, Compared, Proper, Header
        <5>2. CASE Iface # <<>>
          BY <1>1, <1>5, <2>3, <5>2 DEF ParserInv, Compared, Before
        <5> QED
          BY <5>1, <5>2
      <4>2. \E q \in 1 .. pos' - 1 : raw.body[q].type # "other"
        <5>1. PICK q \in 1 .. pos : raw.body[q].type # "other"
          BY <4>1
        <5>2. pos \in Int /\ pos' - 1 \in Int
          BY <2>3, <2>13
        <5>3. q \in 1 .. pos' - 1
          BY <3>2, <5>1, <5>2, Wider
        <5> QED
          BY <5>1, <5>3
      <4>3. Before(pos - 1)'
        BY <2>3, <4>2 DEF Before
      <4> QED
        BY <2>1, <4>3 DEF Compared
    <3> QED
      BY <2>13, <3>1, <3>2
  <2> QED
    BY <2>10, <2>11, <2>12, <2>14, <2>15 DEF ParserInv
<1> QED
  BY <1>1, <1>3, <1>4, <1>5

\* What is known while a setting is being filled, in one place.
LEMMA SettingFacts ==
  ASSUME ParserInv, place \in InSetting
  PROVE  /\ conf \in Confs /\ conf.ifaces # <<>> /\ Iface # <<>> /\ Alt \in Alts
         /\ Alt \in AltsIn(conf) /\ GoodAlt(Alt) /\ blocks = Held(conf) + 2 /\ pos > 0
         /\ size \in Int /\ extra \in Nat /\ Alt.num \in Nat /\ Len(Alt.eps) \in Nat
         /\ Alt.eps \in Seq(Endpts) /\ Alt.backed \in BOOLEAN
         /\ Len(conf.ifaces) <= raw.num
<1>1. /\ conf \in Confs /\ conf.ifaces # <<>> /\ Iface # <<>> /\ blocks = Held(conf) + 2
      /\ pos > 0 /\ size \in Int /\ extra \in Nat /\ Len(conf.ifaces) <= raw.num
  BY DEF ParserInv, ConfType, Shape, InSetting, Account, BufferType
<1>2. Alt \in Alts /\ Alt \in AltsIn(conf)
  BY <1>1, IfaceType
<1>3. GoodAlt(Alt)
  BY <1>2 DEF ParserInv, AltsGood
<1>4. Alt.num \in Nat /\ Alt.eps \in Seq(Endpts) /\ Alt.backed \in BOOLEAN
  BY <1>2 DEF Alts
<1> QED
  BY <1>1, <1>2, <1>3, <1>4, LenProperties

\* The buffer stays where it is, and the setting being filled is replaced by a.
LEMMA SettingReplaced ==
  ASSUME ParserInv, place \in InSetting, NEW a \in Alts, conf' = SetAlt(a), GoodAlt(a),
         NEW n \in Nat, clear_altsetting(a) = clear_altsetting(Alt) + n, blocks' = blocks + n,
         UNCHANGED <<input, result>>, malloc
  PROVE  /\ ConfType' /\ AltsGood' /\ conf' \in Confs /\ conf'.ifaces # <<>> /\ Iface' # <<>>
         /\ Alt' = a /\ Len(conf'.ifaces) = Len(conf.ifaces)
         /\ blocks' = Held(conf') + 2 /\ blocks' \in Nat /\ raw' = raw
         /\ failures' \in 0 .. MaxFailures /\ raw'.num = raw.num
         /\ \A b \in AltsIn(conf') : GoodAlt(b) \/ b \in AltsIn(conf)
<1>1. /\ conf \in Confs /\ conf.ifaces # <<>> /\ Iface # <<>> /\ Alt \in Alts
      /\ blocks = Held(conf) + 2
  BY SettingFacts
<1>2. PICK d : d = conf'
  OBVIOUS
<1>3. /\ SameBut(conf, d) /\ Last(d.ifaces) # <<>> /\ Last(Last(d.ifaces)) = a
      /\ Held(d) = Held(conf) - clear_altsetting(Alt) + clear_altsetting(a)
      /\ \A b \in AltsIn(d) : b = a \/ b \in AltsIn(conf)
  BY <1>1, <1>2, SetAltFacts
<1>4. Iface' = Last(d.ifaces) /\ Alt' = a
  BY <1>2, <1>3 DEF Iface, Alt
<1>5. blocks' = Held(d) + 2 /\ blocks' \in Nat
  <2>1. PICK h \in Nat : h = Held(conf)
    BY <1>1, HeldType
  <2>2. PICK c \in Nat : c = clear_altsetting(Alt)
    BY <1>1, AltBlocksExpand
  <2>3. Held(d) = h - c + (c + n) /\ blocks' = h + 2 + n
    BY <1>1, <1>3, <2>1, <2>2
  <2> QED
    BY <2>1, <2>2, <2>3
<1>6. raw' = raw /\ failures' \in 0 .. MaxFailures
  BY BodyKept, FaultsCounted DEF ParserInv
<1>7. AltsGood'
  BY <1>2, <1>3, AltsKept DEF ParserInv
<1> QED
  BY <1>2, <1>3, <1>4, <1>5, <1>6, <1>7 DEF SameBut, ConfType

LEMMA StepSkippedInterface ==
  ParserInv /\ SkippedInterface => ParserInv'
<1> SUFFICES ASSUME ParserInv, SkippedInterface PROVE ParserInv'
  OBVIOUS
<1> DEFINE ended == Readable /\ Header.type \in {"config", "device"}
           more == ~ended /\ Alt.num > 0
           a == [Alt EXCEPT !.extra = extra, !.backed = more]
<1>1. place = "iskip" /\ Skipped /\ place \in InSetting
  BY DEF SkippedInterface, InSetting
<1>2. CASE (malloc \/ Fails) /\ Err
  BY <1>1, <1>2, ErrCase DEF InSetting
<1>3. CASE ~ ((malloc \/ Fails) /\ Err)
  <2>1. /\ malloc /\ conf' = SetAlt(a) /\ blocks' = blocks + One(extra > 0) + One(more)
        /\ extra' = 0 /\ UNCHANGED <<input, pos, size, result>>
        /\ IF ended THEN InterfaceDone ELSE place' = "endpoint"
    BY <1>3 DEF SkippedInterface
  <2>2. /\ Alt \in Alts /\ blocks = Held(conf) + 2 /\ pos > 0 /\ size \in Int /\ extra \in Nat
        /\ Alt.num \in Nat /\ Len(conf.ifaces) <= raw.num
    BY <1>1, SettingFacts
  <2>3. Alt.eps = <<>> /\ Alt.extra = 0 /\ Alt.backed = FALSE
    BY <1>1, <2>2 DEF ParserInv, Shape, Alts
  <2>4. more \in BOOLEAN
    OBVIOUS
  <2>5. ~ended => (more <=> Alt.num > 0)
    OBVIOUS
  <2> HIDE DEF more
  <2>6. /\ a \in Alts /\ a.eps = <<>> /\ a.extra = extra /\ a.backed = more /\ a.num = Alt.num
    BY <2>2, <2>3, <2>4 DEF Alts
  <2> HIDE DEF a
  <2>7. GoodAlt(a)
    BY <2>2, <2>6 DEF GoodAlt
  <2>8. PICK n \in Nat : n = One(extra > 0) + One(more)
    BY DEF One
  <2>9. clear_altsetting(a) = n
    <3>1. clear_altsetting(a) = One(a.extra > 0) + One(a.backed)
      BY <2>6, AltFilled
    <3> QED
      BY <2>6, <2>8, <3>1
  <2>10. clear_altsetting(Alt) = 0
    <3>1. clear_altsetting(Alt) = One(Alt.extra > 0) + One(Alt.backed)
      BY <2>2, <2>3, AltFilled
    <3>2. One(Alt.extra > 0) = 0 /\ One(Alt.backed) = 0
      BY <2>3 DEF One
    <3> QED
      BY <3>1, <3>2
  <2>11. blocks' = blocks + n
    <3>1. PICK p \in Nat : p = One(extra > 0)
      BY DEF One
    <3>2. PICK q \in Nat : q = One(more)
      BY DEF One
    <3>3. PICK b \in Nat : b = blocks
      BY DEF ParserInv, Account
    <3> QED
      BY <2>1, <2>8, <3>1, <3>2, <3>3
  <2>12. /\ ConfType' /\ AltsGood' /\ conf' \in Confs /\ conf'.ifaces # <<>> /\ Iface' # <<>>
         /\ Alt' = a /\ Len(conf'.ifaces) = Len(conf.ifaces)
         /\ blocks' = Held(conf') + 2 /\ blocks' \in Nat /\ raw' = raw
         /\ failures' \in 0 .. MaxFailures
         /\ \A b \in AltsIn(conf') : GoodAlt(b) \/ b \in AltsIn(conf)
    <3>1. clear_altsetting(a) = clear_altsetting(Alt) + n
      BY <2>9, <2>10
    <3> QED
      BY <1>1, <2>1, <2>6, <2>7, <2>11, <3>1, SettingReplaced
  <2>13. CASE ended
    <3>1. InterfaceDone /\ extra' \in Nat
      BY <2>1, <2>13
    <3>2. PICK d : d = conf'
      OBVIOUS
    <3>3. /\ conf' = d /\ d \in Confs /\ Len(d.ifaces) = Len(conf.ifaces)
          /\ blocks' = Held(d) + 2 /\ \A b \in AltsIn(d) : GoodAlt(b) \/ b \in AltsIn(conf)
      BY <2>12, <3>2
    <3>4. place \notin {"start", "configuration", "done", "got", "find"}
      BY <1>1
    <3> QED
      BY <2>1, <3>1, <3>3, <3>4, InterfaceOver
  <2>14. CASE ~ended
    <3>1. place' = "endpoint"
      BY <2>1, <2>14
    <3>2. CallType' /\ BufferType' /\ SizeLeft' /\ InBounds'
      BY <2>1, BufferKept
    <3>3. ParserPlace' /\ Account' /\ Freed'
      BY <2>1, <2>12, <3>1 DEF ParserInv, ParserPlace, ParserPlaces, Account, Freed, InSetting, Held
    <3>4. Shape'
      BY <2>1, <2>2, <2>5, <2>6, <2>12, <2>14, <3>1 DEF Shape, InSetting
    <3>5. Before(pos - 1)
      <4>1. SUFFICES ASSUME size >= 9, Header.len = 0 PROVE FALSE
        BY <1>1 DEF ParserInv, Compared
      <4>2. Readable
        BY <2>2, <4>1 DEF Readable
      <4> QED
        BY <1>1, <4>1, <4>2 DEF Skipped, Bad
    <3>6. Compared'
      <4>1. Before(pos - 1)'
        BY <2>1, <2>12, <3>5 DEF Before
      <4> QED
        BY <3>1, <4>1 DEF Compared
    <3> QED
      BY <2>12, <3>2, <3>3, <3>4, <3>6 DEF ParserInv
  <2> QED
    BY <2>13, <2>14
<1> QED
  BY <1>2, <1>3

LEMMA BeforeMoved ==
  ASSUME NEW a \in Int, NEW b \in Int, b >= a, Before(a)
  PROVE  Before(b)
<1>1. PICK q \in 1 .. a : raw.body[q].type # "other"
  BY DEF Before
<1>2. q \in 1 .. b
  BY <1>1, Wider
<1> QED
  BY <1>1, <1>2 DEF Before

LEMMA StepEndpoint ==
  ParserInv /\ Endpoint => ParserInv'
<1> SUFFICES ASSUME ParserInv, Endpoint PROVE ParserInv'
  OBVIOUS
<1>1. place = "endpoint" /\ Len(Alt.eps) < Alt.num /\ malloc /\ place \in InSetting
  BY DEF Endpoint, InSetting
<1>2. CASE Err
  BY <1>1, <1>2, ErrCase DEF InSetting
<1>3. CASE ~Err
  <2>1. PICK e \in {Zeroed, [Zeroed EXCEPT !.addr = IF Header.len >= 7 THEN Header.addr ELSE 0]} :
          /\ conf' = SetAlt([Alt EXCEPT !.eps = Append(@, e)])
          /\ UNCHANGED <<input, blocks, result>>
          /\ \/ /\ Readable /\ ~TooLong /\ Header.type = "endpoint"
                /\ e = [Zeroed EXCEPT !.addr = IF Header.len >= 7 THEN Header.addr ELSE 0]
                /\ Advance(Header) /\ place' = "eskip" /\ extra' = extra
             \/ e = Zeroed /\ UNCHANGED <<place, buffer>>
    BY <1>3 DEF Endpoint
  <2>2. /\ Alt \in Alts /\ blocks = Held(conf) + 2 /\ pos > 0 /\ size \in Int /\ extra \in Nat
        /\ Alt.num \in Nat /\ Len(conf.ifaces) <= raw.num /\ Len(Alt.eps) \in Nat
        /\ GoodAlt(Alt) /\ Alt.eps \in Seq(Endpts) /\ Before(pos - 1)
    BY <1>1, SettingFacts DEF ParserInv, Compared
  <2>3. Alt.backed = TRUE
    BY <1>1, <2>2 DEF ParserInv, Shape, Alts
  <2>4. Readable => pos \in 1 .. Len(raw.body) /\ Header \in Descriptor /\ size > 0
    BY <2>2, HeaderThere DEF ParserInv, Readable
  <2>5. CallType /\ BufferType /\ SizeLeft /\ raw' = raw
    BY <2>1, BodyKept DEF ParserInv
  <2>6. e \in Endpts /\ e.extra = 0
    <3>1. CASE e = Zeroed
      BY <3>1 DEF Zeroed, Endpts
    <3>2. CASE e # Zeroed
      BY <2>1, <2>4, <3>2 DEF Zeroed, Endpts, Descriptor
    <3> QED
      BY <3>1, <3>2
  <2>7. SentAddr(e.addr)
    <3>1. SUFFICES ASSUME e.addr # 0 PROVE SentAddr(e.addr)
      BY DEF SentAddr
    <3>2. e # Zeroed
      BY <3>1 DEF Zeroed
    <3>3. /\ Readable /\ ~TooLong /\ Header.type = "endpoint" /\ Advance(Header)
          /\ e = [Zeroed EXCEPT !.addr = IF Header.len >= 7 THEN Header.addr ELSE 0]
      BY <2>1, <3>2
    <3>4. e.addr = Header.addr
      BY <3>1, <3>3 DEF Zeroed
    <3>5. pos \in 1 .. Len(raw.body) /\ Header \in Descriptor /\ size > 0
      BY <2>4, <3>3
    <3>6. size' = size - Header.len /\ size' = raw.total - Ends(pos)
      BY <2>2, <2>5, <3>3, <3>5, AdvanceFacts
    <3>7. Ends(pos) \in Nat /\ raw.total \in Nat /\ DOMAIN raw.body = 1 .. Len(raw.body)
      <4>1. pos \in 0 .. Len(raw.body)
        BY <3>5
      <4> QED
        BY <2>5, <4>1, EndsFacts DEF CallType
    <3>8. Ends(pos) <= raw.total
      <4>1. PICK m \in Nat : m = Ends(pos)
        BY <3>7
      <4>2. PICK l \in Nat : l = Header.len
        BY <3>5 DEF Descriptor
      <4>3. l <= size
        BY <2>2, <3>3, <4>2 DEF TooLong
      <4> QED
        BY <2>2, <3>6, <3>7, <4>1, <4>2, <4>3
    <3>9. pos \in Positions("endpoint")
      BY <3>3, <3>5, <3>7 DEF Positions, Header
    <3> QED
      BY <3>4, <3>8, <3>9 DEF SentAddr, Header
  <2>8. PICK b : b = [Alt EXCEPT !.eps = Append(@, e)]
    OBVIOUS
  <2>9. /\ b \in Alts /\ clear_altsetting(b) = clear_altsetting(Alt)
        /\ b.eps = Append(Alt.eps, e) /\ b.num = Alt.num /\ b.extra = Alt.extra
        /\ b.backed = Alt.backed
    BY <2>2, <2>6, <2>8, EndpointAdded, SMTT(30)
  <2>10. /\ Len(b.eps) = Len(Alt.eps) + 1 /\ b.eps[Len(b.eps)] = e
         /\ \A j \in 1 .. Len(Alt.eps) : b.eps[j] = Alt.eps[j]
         /\ DOMAIN b.eps = 1 .. Len(Alt.eps) + 1 /\ b.eps # <<>>
    <3>1. b.eps \in Seq(Endpts)
      BY <2>9 DEF Alts
    <3> QED
      BY <2>2, <2>6, <2>9, <3>1, AppendProperties, LenProperties
  <2>11. GoodAlt(b)
    <3>1. Len(b.eps) <= IF b.backed THEN b.num ELSE 0
      BY <1>1, <2>2, <2>3, <2>9, <2>10
    <3>2. ASSUME NEW j \in DOMAIN b.eps
          PROVE  SentAddr(b.eps[j].addr)
      <4>1. CASE j \in 1 .. Len(Alt.eps)
        <5>1. j \in DOMAIN Alt.eps
          BY <2>2, <4>1, LenProperties
        <5> QED
          BY <2>2, <2>10, <4>1, <5>1 DEF GoodAlt
      <4>2. CASE j = Len(Alt.eps) + 1
        BY <2>7, <2>10, <4>2
      <4> QED
        BY <2>2, <2>10, <4>1, <4>2
    <3> QED
      BY <3>1, <3>2 DEF GoodAlt
  <2>12. /\ ConfType' /\ AltsGood' /\ conf' \in Confs /\ conf'.ifaces # <<>> /\ Iface' # <<>>
         /\ Alt' = b /\ Len(conf'.ifaces) = Len(conf.ifaces)
         /\ blocks' = Held(conf') + 2 /\ blocks' \in Nat
         /\ failures' \in 0 .. MaxFailures
    <3>1. PICK n \in Nat : n = 0
      OBVIOUS
    <3>2. clear_altsetting(b) = clear_altsetting(Alt) + n
      BY <2>2, <2>9, <3>1, AltBlocksExpand
    <3>3. blocks' = blocks + n
      BY <2>1, <3>1 DEF ParserInv, Account
    <3>4. conf' = SetAlt(b)
      BY <2>1, <2>8
    <3> QED
      BY <1>1, <2>1, <2>9, <2>11, <3>2, <3>3, <3>4, SettingReplaced
  <2>13. place' \in {"endpoint", "eskip"}
    BY <1>1, <2>1
  <2>14. ParserPlace' /\ Account' /\ Freed'
    BY <2>1, <2>12, <2>13 DEF ParserInv, ParserPlace, ParserPlaces, Account, Freed, InSetting, Held
  <2>15. b.eps[Len(b.eps)].extra = 0 /\ (b.backed <=> b.num > 0)
    BY <1>1, <2>2, <2>3, <2>6, <2>9, <2>10
  <2>16. CASE Readable /\ ~TooLong /\ Advance(Header) /\ extra' = extra
    <3>1. pos \in 1 .. Len(raw.body) /\ Header \in Descriptor /\ size > 0
      BY <2>4, <2>16
    <3>2. Header.len <= size
      BY <2>2, <2>16, <3>1 DEF TooLong, Descriptor
    <3>3. place # "start" /\ extra' \in Nat
      BY <1>1, <2>2, <2>16
    <3>4. CallType' /\ BufferType' /\ SizeLeft' /\ InBounds'
      BY <2>1, <2>2, <2>16, <3>1, <3>2, <3>3, BufferMoved
    <3>5. pos' \in 1 .. Len(raw.body) + 1 /\ pos <= pos' /\ Len(raw.body) \in Nat
      BY <2>2, <2>5, <2>16, <3>1, AdvanceFacts, EndsFacts DEF CallType
    <3>6. Shape'
      BY <2>2, <2>5, <2>10, <2>12, <2>13, <2>15, <3>5, SMTT(30) DEF Shape, InSetting
    <3>7. Before(pos - 1)'
      <4>1. pos - 1 \in Int /\ pos' - 1 \in Int /\ pos' - 1 >= pos - 1
        BY <3>1, <3>5
      <4>2. Before(pos' - 1)
        BY <2>2, <4>1, BeforeMoved
      <4> QED
        BY <2>5, <4>2 DEF Before
    <3>8. Compared'
      BY <2>13, <3>7 DEF Compared
    <3> QED
      BY <2>12, <2>14, <3>4, <3>6, <3>8 DEF ParserInv
  <2>17. CASE UNCHANGED <<place, buffer>>
    <3>1. UNCHANGED <<input, pos, size>> /\ extra' \in Nat /\ place' = "endpoint"
      BY <1>1, <2>1, <2>2, <2>17 DEF buffer
    <3>2. CallType' /\ BufferType' /\ SizeLeft' /\ InBounds'
      BY <3>1, BufferKept
    <3>3. Shape'
      BY <2>2, <2>5, <2>10, <2>12, <2>15, <3>1 DEF Shape, InSetting
    <3>4. Compared'
      <4>1. Before(pos - 1)'
        BY <2>2, <2>5, <3>1 DEF Before
      <4> QED
        BY <3>1, <4>1 DEF Compared
    <3> QED
      BY <2>12, <2>14, <3>2, <3>3, <3>4 DEF ParserInv
  <2> QED
    BY <2>1, <2>16, <2>17
<1> QED
  BY <1>2, <1>3

LEMMA StepSkippedEndpoint ==
  ParserInv /\ SkippedEndpoint => ParserInv'
<1> SUFFICES ASSUME ParserInv, SkippedEndpoint PROVE ParserInv'
  OBVIOUS
<1>1. place = "eskip" /\ Skipped /\ place \in InSetting
  BY DEF SkippedEndpoint, InSetting
<1>2. CASE Fails /\ Err
  BY <1>1, <1>2, ErrCase DEF InSetting
<1>3. CASE ~ (Fails /\ Err)
  <2>1. PICK b : b = [Alt EXCEPT !.eps[Len(Alt.eps)].extra = extra]
    OBVIOUS
  <2>2. /\ malloc /\ conf' = SetAlt(b) /\ blocks' = blocks + One(extra > 0)
        /\ extra' = 0 /\ place' = "endpoint" /\ UNCHANGED <<input, pos, size, result>>
    BY <1>3, <2>1 DEF SkippedEndpoint
  <2>3. /\ Alt \in Alts /\ blocks = Held(conf) + 2 /\ pos > 0 /\ size \in Int /\ extra \in Nat
        /\ Alt.num \in Nat /\ Len(conf.ifaces) <= raw.num /\ Len(Alt.eps) \in Nat
        /\ GoodAlt(Alt) /\ Alt.eps \in Seq(Endpts) /\ Before(pos - 1) /\ Alt.backed \in BOOLEAN
    BY <1>1, SettingFacts DEF ParserInv, Compared
  <2>4. Alt.eps # <<>> /\ Alt.eps[Len(Alt.eps)].extra = 0 /\ (Alt.backed <=> Alt.num > 0)
    BY <1>1 DEF ParserInv, Shape
  <2>5. Alt.backed
    <3>1. Len(Alt.eps) # 0
      BY <2>3, <2>4, EmptySeq
    <3> QED
      BY <2>3, <3>1 DEF GoodAlt
  <2>6. /\ b \in Alts /\ clear_altsetting(b) = clear_altsetting(Alt) + One(extra > 0)
        /\ Len(b.eps) = Len(Alt.eps) /\ b.num = Alt.num /\ b.backed = Alt.backed
        /\ \A j \in 1 .. Len(Alt.eps) : b.eps[j].addr = Alt.eps[j].addr
    <3>1. PICK x \in Nat : x = extra
      BY <2>3
    <3>2. PICK a \in Alts : a = Alt
      BY <2>3
    <3>3. a.backed /\ a.eps # <<>> /\ a.eps[Len(a.eps)].extra = 0
      BY <2>4, <2>5, <3>2
    <3>4. b = WithExtra(a, x)
      BY <2>1, <3>1, <3>2 DEF WithExtra
    <3>5. /\ b \in Alts /\ clear_altsetting(b) = clear_altsetting(a) + One(x > 0)
          /\ Len(b.eps) = Len(a.eps) /\ b.num = a.num /\ b.backed = a.backed
          /\ \A j \in 1 .. Len(a.eps) : b.eps[j].addr = a.eps[j].addr
      <4>1. b \in Alts
        BY <3>3, <3>4, EndpointExtra, ZenonT(30)
      <4>2. clear_altsetting(b) = clear_altsetting(a) + One(x > 0)
        BY <3>3, <3>4, EndpointExtra, ZenonT(30)
      <4>3. Len(b.eps) = Len(a.eps)
        BY <3>3, <3>4, EndpointExtra, ZenonT(30)
      <4>5. b.num = a.num
        BY <3>4 DEF WithExtra, Alts
      <4>6. b.backed = a.backed
        BY <3>4 DEF WithExtra, Alts
      <4>4. \A j \in 1 .. Len(a.eps) : b.eps[j].addr = a.eps[j].addr
        BY <3>3, <3>4, ExtraAddrs
      <4> QED
        BY <4>1, <4>2, <4>3, <4>4, <4>5, <4>6
    <3> QED
      BY <3>1, <3>2, <3>5
  <2>7. GoodAlt(b)
    <3>1. DOMAIN b.eps = 1 .. Len(Alt.eps) /\ DOMAIN Alt.eps = 1 .. Len(Alt.eps)
      BY <2>3, <2>6, LenProperties DEF Alts
    <3> QED
      BY <2>3, <2>6, <3>1 DEF GoodAlt
  <2>8. PICK n \in Nat : n = One(extra > 0)
    BY DEF One
  <2>9. /\ ConfType' /\ AltsGood' /\ conf' \in Confs /\ conf'.ifaces # <<>> /\ Iface' # <<>>
        /\ Alt' = b /\ Len(conf'.ifaces) = Len(conf.ifaces) /\ raw' = raw
        /\ blocks' = Held(conf') + 2 /\ blocks' \in Nat
        /\ failures' \in 0 .. MaxFailures
    <3>1. clear_altsetting(b) = clear_altsetting(Alt) + n /\ blocks' = blocks + n
      BY <2>2, <2>6, <2>8
    <3> QED
      BY <1>1, <2>2, <2>6, <2>7, <3>1, SettingReplaced
  <2>10. CallType' /\ BufferType' /\ SizeLeft' /\ InBounds'
    BY <2>2, BufferKept
  <2>11. ParserPlace' /\ Account' /\ Freed'
    BY <2>2, <2>9 DEF ParserInv, ParserPlace, ParserPlaces, Account, Freed, InSetting, Held
  <2>12. Shape'
    <3>1. b.backed <=> b.num > 0
      BY <2>4, <2>6
    <3> QED
      BY <2>2, <2>3, <2>9, <3>1 DEF Shape, InSetting
  <2>13. Compared'
    <3>1. Before(pos - 1)'
      BY <2>2, <2>3, <2>9 DEF Before
    <3> QED
      BY <2>2, <3>1 DEF Compared
  <2> QED
    BY <2>9, <2>10, <2>11, <2>12, <2>13 DEF ParserInv
<1> QED
  BY <1>2, <1>3

LEMMA StepNextAltsetting ==
  ParserInv /\ NextAltsetting => ParserInv'
<1> SUFFICES ASSUME ParserInv, NextAltsetting PROVE ParserInv'
  OBVIOUS
<1>1. /\ place = "endpoint" /\ place \in InSetting
      /\ UNCHANGED <<input, buffer, conf, blocks, result, failures>>
      /\ IF Alternate THEN place' = "altsetting" ELSE InterfaceDone
  BY DEF NextAltsetting, InSetting
<1>2. /\ conf \in Confs /\ blocks = Held(conf) + 2 /\ pos > 0 /\ size \in Int /\ extra \in Nat
      /\ Len(conf.ifaces) <= raw.num /\ conf.ifaces # <<>> /\ Iface # <<>> /\ Before(pos - 1)
  BY <1>1, SettingFacts DEF ParserInv, Compared
<1>3. UNCHANGED <<input, pos, size, result>> /\ extra' \in Nat /\ conf' = conf /\ malloc
      /\ blocks' = Held(conf) + 2
  BY <1>1, <1>2 DEF buffer, malloc
<1>4. CASE Alternate
  <2>1. place' = "altsetting" /\ raw' = raw
    BY <1>1, <1>4, BodyKept
  <2>2. CallType' /\ BufferType' /\ SizeLeft' /\ InBounds'
    BY <1>3, BufferKept
  <2>3. ParserPlace' /\ ConfType' /\ AltsGood'
    BY <1>1, <1>3, <2>1, AltsKept DEF ParserInv, ParserPlace, ParserPlaces, ConfType
  <2>4. Account' /\ Freed'
    BY <1>1, <1>2, <1>3, <2>1 DEF ParserInv, Account, Freed, InSetting, Held
  <2>5. Shape'
    BY <1>2, <1>3, <2>1 DEF Shape, InSetting
  <2>6. Compared'
    <3>1. size' >= 9 /\ Iface' # <<>>
      BY <1>2, <1>3, <1>4 DEF Alternate, Iface
    <3>2. Before(pos - 1)' /\ Uncompared(Header)'
      BY <1>2, <1>3, <1>4, <2>1 DEF Before, Uncompared, Alternate, Header
    <3> QED
      BY <2>1, <3>1, <3>2 DEF Compared
  <2> QED
    BY <2>2, <2>3, <2>4, <2>5, <2>6 DEF ParserInv
<1>5. CASE ~Alternate
  <2>1. InterfaceDone
    BY <1>1, <1>5
  <2>2. PICK d : d = conf
    OBVIOUS
  <2>3. conf' = d /\ d \in Confs /\ Len(d.ifaces) = Len(conf.ifaces) /\ blocks' = Held(d) + 2
        /\ \A b \in AltsIn(d) : GoodAlt(b) \/ b \in AltsIn(conf)
    BY <1>2, <1>3, <2>2
  <2>4. place \notin {"start", "configuration", "done", "got", "find"}
    BY <1>1
  <2> QED
    BY <1>3, <2>1, <2>3, <2>4, InterfaceOver
<1> QED
  BY <1>4, <1>5

\* The configuration stays as it was parsed.
LEMMA ConfKept ==
  ASSUME ParserInv, UNCHANGED <<input, buffer, conf>>, pos > 0 \/ place' = "done",
         place' \in {"got", "find", "done"}
  PROVE  /\ CallType' /\ BufferType' /\ SizeLeft' /\ InBounds' /\ ConfType' /\ AltsGood'
         /\ Shape' /\ Compared' /\ conf' = conf /\ size' = size
<1>1. UNCHANGED <<input, pos, size>> /\ extra' \in Nat /\ conf' = conf
  BY DEF buffer, ParserInv, BufferType
<1>2. CallType' /\ BufferType' /\ SizeLeft' /\ InBounds'
  BY <1>1, BufferKept
<1>3. ConfType' /\ AltsGood'
  BY <1>1, AltsKept DEF ParserInv, ConfType
<1>4. Shape'
  BY <1>1, BodyKept DEF ParserInv, Shape, InSetting
<1>5. Compared'
  BY DEF Compared
<1> QED
  BY <1>1, <1>2, <1>3, <1>4, <1>5

LEMMA StepParsed ==
  ParserInv /\ Parsed => ParserInv'
<1> SUFFICES ASSUME ParserInv, Parsed PROVE ParserInv'
  OBVIOUS
<1>1. /\ place = "left" /\ UNCHANGED <<input, buffer, conf, failures>>
      /\ \/ size < 0 /\ blocks' = blocks - 2 /\ result' = "error" /\ place' = "done"
         \/ blocks' = blocks - 1 /\ result' = "ok" /\ place' \in {"got", "find"}
  BY DEF Parsed, Return
<1>2. PICK h \in Nat : h = Held(conf)
  BY HeldType DEF ParserInv, ConfType
<1>3. blocks = h + 2 /\ pos > 0
  BY <1>1, <1>2 DEF ParserInv, Account, Shape
<1>4. /\ CallType' /\ BufferType' /\ SizeLeft' /\ InBounds' /\ ConfType' /\ AltsGood'
      /\ Shape' /\ Compared' /\ conf' = conf /\ size' = size
  BY <1>1, <1>3, ConfKept
<1>5. ParserPlace'
  BY <1>1 DEF ParserInv, ParserPlace, ParserPlaces
<1>6. Account'
  <2>1. Held(conf)' = h
    BY <1>2, <1>4 DEF Held
  <2>2. blocks' \in Nat /\ (place' # "done" => blocks' = h + 1)
    BY <1>1, <1>3
  <2> QED
    BY <1>1, <2>1, <2>2 DEF Account, InSetting
<1>7. Freed'
  BY <1>1, <1>4 DEF Freed
<1> QED
  BY <1>4, <1>5, <1>6, <1>7 DEF ParserInv

LEMMA StepFree ==
  ParserInv /\ libusb_free_config_descriptor => ParserInv'
<1> SUFFICES ASSUME ParserInv, libusb_free_config_descriptor PROVE ParserInv'
  OBVIOUS
<1>1. /\ place = "got" /\ UNCHANGED <<input, buffer, conf, result, failures>>
      /\ blocks' = blocks - clear_configuration - 1 /\ place' = "done"
  BY DEF libusb_free_config_descriptor
<1>2. PICK h \in Nat : h = Held(conf)
  BY HeldType DEF ParserInv, ConfType
<1>3. blocks' = 0
  <2>1. blocks = h + 1 /\ clear_configuration = h
    BY <1>1, <1>2, HeldNow DEF ParserInv, Account
  <2> QED
    BY <1>1, <2>1
<1>4. /\ CallType' /\ BufferType' /\ SizeLeft' /\ InBounds' /\ ConfType' /\ AltsGood'
      /\ Shape' /\ Compared'
  BY <1>1, ConfKept
<1>5. ParserPlace' /\ Account' /\ Freed'
  <2>1. result' = result /\ failures' = failures /\ place' = "done"
    BY <1>1
  <2> QED
    BY <1>3, <2>1 DEF ParserInv, ParserPlace, ParserPlaces, Account, Freed, InSetting
<1> QED
  BY <1>4, <1>5 DEF ParserInv

LEMMA StepGetMaxPacketSize ==
  ParserInv /\ GetMaxPacketSize => ParserInv'
<1> SUFFICES ASSUME ParserInv, GetMaxPacketSize PROVE ParserInv'
  OBVIOUS
<1>1. find_endpoint \in {"missing", "ok", "crashed"}
  BY DEF find_endpoint
<1>2. /\ place = "find" /\ UNCHANGED <<input, buffer, conf, failures>>
      /\ result' = find_endpoint /\ place' = "done"
      /\ blocks' = IF find_endpoint = "ok" THEN blocks - clear_configuration - 1 ELSE blocks
  BY DEF GetMaxPacketSize, Return
<1>3. PICK h \in Nat : h = Held(conf)
  BY HeldType DEF ParserInv, ConfType
<1>4. blocks' \in Nat /\ (result' = "ok" => blocks' = 0)
  <2>1. blocks = h + 1 /\ clear_configuration = h
    BY <1>2, <1>3, HeldNow DEF ParserInv, Account
  <2> QED
    BY <1>2, <2>1
<1>5. /\ CallType' /\ BufferType' /\ SizeLeft' /\ InBounds' /\ ConfType' /\ AltsGood'
      /\ Shape' /\ Compared'
  BY <1>2, ConfKept
<1>6. ParserPlace' /\ Account' /\ Freed'
  BY <1>1, <1>2, <1>4 DEF ParserInv, ParserPlace, ParserPlaces, Account, Freed, InSetting
<1> QED
  BY <1>5, <1>6 DEF ParserInv

-----------------------------------------------------------------------------
(* The invariant of every step, and what follows *)

LEMMA ParserInvStutter ==
  ParserInv /\ UNCHANGED parser_vars => ParserInv'
<1> SUFFICES ASSUME ParserInv, UNCHANGED parser_vars PROVE ParserInv'
  OBVIOUS
<1>1. UNCHANGED <<raw, call, endpoint, place, pos, size, extra, conf, blocks, result, failures>>
  BY DEF parser_vars
<1>2. UNCHANGED <<input, pos, size>> /\ extra' \in Nat /\ conf' = conf /\ raw' = raw
  BY <1>1 DEF input, ParserInv, BufferType
<1>3. CallType' /\ BufferType' /\ SizeLeft' /\ InBounds'
  BY <1>2, BufferKept
<1>4. ParserPlace' /\ ConfType' /\ AltsGood'
  BY <1>1, <1>2, AltsKept DEF ParserInv, ParserPlace, ConfType
<1>5. Account' /\ Freed'
  BY <1>1 DEF ParserInv, Account, Freed, Held
<1>6. Shape' /\ Compared'
  BY <1>1 DEF ParserInv, Shape, Compared, Before, Uncompared, Header, Proper, Iface, Alt
<1> QED
  BY <1>3, <1>4, <1>5, <1>6 DEF ParserInv

LEMMA ParserInvStep ==
  ParserInv /\ [ParserNext]_parser_vars => ParserInv'
<1> SUFFICES ASSUME ParserInv, [ParserNext]_parser_vars PROVE ParserInv'
  OBVIOUS
<1>1. CASE GetActiveConfig
  BY <1>1, StepGetActiveConfig
<1>2. CASE Configuration
  BY <1>2, StepConfiguration
<1>3. CASE Skip
  BY <1>3, StepSkip
<1>4. CASE SkippedConfig
  BY <1>4, StepSkippedConfig
<1>5. CASE Altsetting
  BY <1>5, StepAltsetting
<1>6. CASE SkippedInterface
  BY <1>6, StepSkippedInterface
<1>7. CASE Endpoint
  BY <1>7, StepEndpoint
<1>8. CASE SkippedEndpoint
  BY <1>8, StepSkippedEndpoint
<1>9. CASE NextAltsetting
  BY <1>9, StepNextAltsetting
<1>10. CASE Parsed
  BY <1>10, StepParsed
<1>11. CASE libusb_free_config_descriptor
  BY <1>11, StepFree
<1>12. CASE GetMaxPacketSize
  BY <1>12, StepGetMaxPacketSize
<1>13. CASE UNCHANGED parser_vars
  BY <1>13, ParserInvStutter
<1> QED
  BY <1>1, <1>2, <1>3, <1>4, <1>5, <1>6, <1>7, <1>8, <1>9, <1>10, <1>11, <1>12, <1>13
  DEF ParserNext

\* The inductive invariant.
THEOREM ParserInvariant ==
  ParserSpec => []ParserInv
BY ParserInvStart, ParserInvStep, PTL DEF ParserSpec

\* Whatever a device sends, however long its descriptors claim to be and
\* whichever allocation fails, a call that is over has freed all that it
\* allocated, except in the two ways of losing it that Freed names.
THEOREM FreedCorrect ==
  ParserSpec => []Freed
<1>1. ParserInv => Freed
  BY DEF ParserInv
<1> QED
  BY <1>1, ParserInvariant, PTL

\* All settings of a configuration that is under construction or has been
\* parsed.
LEMMA AllAltsIn ==
  ASSUME ConfType, NEW k \in DOMAIN AllAlts
  PROVE  AllAlts[k] \in AltsIn(conf)
<1>1. \A i \in DOMAIN conf.ifaces : conf.ifaces[i] \in Seq(AltsIn(conf))
  <2> TAKE i \in DOMAIN conf.ifaces
  <2>1. conf.ifaces[i] \in Seq(Alts)
    <3>1. conf.ifaces \in Seq(Seq(Alts))
      BY DEF ConfType, Confs
    <3> QED
      BY <3>1, LenProperties, ElementOfSeq
  <2>2. \A n \in DOMAIN conf.ifaces[i] : conf.ifaces[i][n] \in AltsIn(conf)
    BY AltsInMember
  <2>3. DOMAIN conf.ifaces[i] = 1 .. Len(conf.ifaces[i])
    BY <2>1, LenProperties
  <2> QED
    BY <2>1, <2>2, <2>3
<1>2. conf.ifaces \in Seq(Seq(AltsIn(conf)))
  <2>1. conf.ifaces \in Seq(Seq(Alts))
    BY DEF ConfType, Confs
  <2>2. PICK w \in Seq(Seq(Alts)) : w = conf.ifaces
    BY <2>1
  <2>3. PICK S : S = AltsIn(conf)
    OBVIOUS
  <2>4. Len(w) \in Nat /\ DOMAIN w = 1 .. Len(w) /\ w = [i \in 1 .. Len(w) |-> w[i]]
    BY LenProperties
  <2>5. \A i \in 1 .. Len(w) : w[i] \in Seq(S)
    BY <1>1, <2>2, <2>3, <2>4
  <2>6. w \in Seq(Seq(S))
    <3>1. [i \in 1 .. Len(w) |-> w[i]] \in Seq(Seq(S))
      BY <2>4, <2>5, IsASeq
    <3> QED
      BY <2>4, <3>1
  <2> QED
    BY <2>2, <2>3, <2>6
<1>3. AllAlts \in Seq(AltsIn(conf))
  BY <1>2, FlattenType DEF AllAlts
<1> QED
  BY <1>3, LenProperties, ElementOfSeq

LEMMA ParserOKHolds ==
  ParserInv => ParserOK
<1> SUFFICES ASSUME ParserInv PROVE ParserOK
  OBVIOUS
<1>1. \A k \in DOMAIN AllAlts : AllAlts[k] \in Alts /\ GoodAlt(AllAlts[k])
  <2> TAKE k \in DOMAIN AllAlts
  <2>1. AllAlts[k] \in AltsIn(conf)
    BY AllAltsIn DEF ParserInv
  <2> QED
    BY <2>1, AltsInType DEF ParserInv, ConfType, AltsGood
<1>2. EndpointsSent
  <2> SUFFICES ASSUME NEW k \in DOMAIN AllAlts, NEW j \in DOMAIN AllAlts[k].eps,
                      AllAlts[k].eps[j].addr # 0
               PROVE  \E q \in Positions("endpoint") :
                        /\ raw.body[q].addr = AllAlts[k].eps[j].addr
                        /\ 9 + Bytes(SubSeq(raw.body, 1, q)) <= raw.total
    BY DEF EndpointsSent
  <2>1. SentAddr(AllAlts[k].eps[j].addr)
    BY <1>1 DEF GoodAlt
  <2> QED
    BY <2>1 DEF SentAddr, Ends
<1>3. ParserTypes
  <2>1. raw \in [total : Nat, num : Nat, body : Seq(Descriptor)]
    BY RawsAssumption DEF ParserInv, CallType
  <2>2. call \in Calls /\ endpoint \in Endpoints \cup {0}
    BY DEF ParserInv, CallType
  <2>3. /\ place \in {"start", "configuration", "skip", "altsetting", "iskip", "endpoint", "eskip",
                       "left", "find", "got", "done"}
        /\ result \in {"none", "ok", "error", "missing", "crashed"} /\ failures \in 0..MaxFailures
    BY DEF ParserInv, ParserPlace, ParserPlaces
  <2>4. pos \in 0..(Len(raw.body) + 1) /\ size \in Int /\ extra \in Nat
    BY DEF ParserInv, BufferType
  <2>5. blocks \in Nat
    BY DEF ParserInv, Account
  <2>6. conf.extra \in Nat /\ Len(conf.ifaces) <= raw.num
    BY DEF ParserInv, ConfType, Confs, Shape
  <2>7. \A k \in DOMAIN AllAlts :
          /\ AllAlts[k].num \in Nat /\ AllAlts[k].extra \in Nat
          /\ Len(AllAlts[k].eps) <= IF AllAlts[k].backed THEN AllAlts[k].num ELSE 0
    BY <1>1 DEF Alts, GoodAlt
  <2> QED
    BY <2>1, <2>2, <2>3, <2>4, <2>5, <2>6, <2>7 DEF ParserTypes
<1> QED
  BY <1>2, <1>3 DEF ParserInv, ParserOK

\* The parser takes no endpoint that was not sent, gives no setting more
\* endpoints than it has memory for, and stays within the buffer as long as
\* the lengths that it does not compare stay there.
THEOREM ParserCorrect ==
  ParserSpec => []ParserOK
BY ParserOKHolds, ParserInvariant, PTL
-----------------------------------------------------------------------------
(* What follows what *)

\* The first position behind p that is in P.
LEMMA AfterFacts ==
  ASSUME CallType, NEW P \in SUBSET (1 .. Len(raw.body)), NEW p \in 0 .. Len(raw.body)
  PROVE  /\ After(p, P) \in 1 .. Len(raw.body) + 1 /\ p < After(p, P)
         /\ After(p, P) = Len(raw.body) + 1 \/ After(p, P) \in P
         /\ \A q \in P : q > p => After(p, P) <= q
<1>1. Len(raw.body) \in Nat
  BY EndsFacts DEF CallType
<1> DEFINE later == {q \in P : q > p}
<1>2. CASE later = {}
  <2>1. After(p, P) = Len(raw.body) + 1 /\ \A q \in P : ~ (q > p)
    BY <1>2 DEF After
  <2> QED
    BY <1>1, <2>1
<1>3. CASE later # {}
  <2>1. later \subseteq Nat
    <3>1. \A q \in P : q \in Nat
      BY <1>1
    <3> QED
      BY <3>1
  <2>2. \E q \in later : \A s \in later : q <= s
    <3> HIDE DEF later
    <3> QED
      BY <1>3, <2>1, LeastNat
  <2>3. After(p, P) = CHOOSE q \in later : \A s \in later : q <= s
    BY <1>3 DEF After
  <2>4. After(p, P) \in later /\ \A s \in later : After(p, P) <= s
    <3> HIDE DEF later
    <3> QED
      BY <2>2, <2>3
  <2>5. PICK a : a = After(p, P)
    OBVIOUS
  <2>6. a \in P /\ a > p /\ \A q \in P : q > p => a <= q
    BY <2>4, <2>5
  <2>7. a \in 1 .. Len(raw.body)
    BY <2>6
  <2>8. a \in 1 .. Len(raw.body) + 1 /\ p < a
    BY <1>1, <2>6, <2>7
  <2> QED
    BY <2>5, <2>6, <2>8
<1> QED
  BY <1>2, <1>3

LEMMA AfterIs ==
  ASSUME CallType, NEW P \in SUBSET (1 .. Len(raw.body)), NEW p \in 0 .. Len(raw.body),
         NEW q \in P, p < q, \A s \in P : s > p => q <= s
  PROVE  After(p, P) = q
<1>1. /\ After(p, P) \in 1 .. Len(raw.body) + 1 /\ p < After(p, P)
      /\ After(p, P) = Len(raw.body) + 1 \/ After(p, P) \in P
      /\ q > p => After(p, P) <= q
  BY AfterFacts
<1>2. PICK a \in 1 .. Len(raw.body) + 1 : a = After(p, P)
  BY <1>1
<1>3. q \in 1 .. Len(raw.body) /\ Len(raw.body) \in Nat
  BY EndsFacts DEF CallType
<1>4. a <= q /\ a > p
  BY <1>1, <1>2, <1>3
<1>5. a \in P
  BY <1>1, <1>2, <1>3, <1>4
<1>6. q <= a
  BY <1>4, <1>5
<1> QED
  BY <1>2, <1>3, <1>4, <1>6

\* How many of P are not behind p.
LEMMA RankFacts ==
  ASSUME NEW n \in Nat, NEW P \in SUBSET (1 .. n)
  PROVE  /\ IsFiniteSet(P) /\ Cardinality(P) \in Nat
         /\ \A p \in 0 .. n : Rank(p, P) \in 0 .. Cardinality(P)
         /\ \A p \in P : Rank(p, P) \in 1 .. Cardinality(P)
         /\ \A p \in 0 .. n : \A q \in P : p < q => Rank(p, P) < Rank(q, P)
<1>1. IsFiniteSet(P) /\ Cardinality(P) \in Nat
  <2>1. IsFiniteSet(1 .. n)
    BY FS_Interval
  <2> QED
    BY <2>1, FS_Subset, FS_CardinalityType
<1>2. ASSUME NEW p
      PROVE  LET R == {q \in P : q <= p} IN
             IsFiniteSet(R) /\ Cardinality(R) \in Nat /\ Cardinality(R) <= Cardinality(P)
  <2> DEFINE R == {q \in P : q <= p}
  <2>1. R \in SUBSET P
    OBVIOUS
  <2>2. IsFiniteSet(R) /\ Cardinality(R) <= Cardinality(P)
    <3> HIDE DEF R
    <3> QED
      BY <1>1, <2>1, FS_Subset
  <2>3. Cardinality(R) \in Nat
    <3> HIDE DEF R
    <3> QED
      BY <2>2, FS_CardinalityType
  <2> QED
    BY <2>2, <2>3
<1>3. \A p : Rank(p, P) \in 0 .. Cardinality(P)
  BY <1>1, <1>2 DEF Rank
<1>4. ASSUME NEW p \in 0 .. n, NEW q \in P, p < q
      PROVE  Rank(p, P) < Rank(q, P)
  <2> DEFINE R == {x \in P : x <= p}
             T == {x \in P : x <= q}
  <2>7. (\A x \in P : x \in Nat) /\ p \in Nat
    OBVIOUS
  <2>8. \A x \in P : x <= p => x <= q
    BY <1>4, <2>7
  <2>1. R \in SUBSET T
    BY <2>8
  <2>2. q \in T /\ q \notin R
    BY <1>4, <2>7
  <2>3. IsFiniteSet(T) /\ Cardinality(T) \in Nat /\ Cardinality(R) \in Nat
    BY <1>2
  <2>4. Cardinality(R) <= Cardinality(T) /\ (Cardinality(R) = Cardinality(T) => T = R)
    <3> HIDE DEF R, T
    <3> QED
      BY <2>1, <2>3, FS_Subset
  <2>5. R # T
    BY <2>2
  <2>6. Rank(p, P) = Cardinality(R) /\ Rank(q, P) = Cardinality(T)
    BY DEF Rank
  <2> HIDE DEF R, T
  <2> QED
    BY <2>3, <2>4, <2>5, <2>6
<1>5. ASSUME NEW p \in P
      PROVE  Rank(p, P) \in 1 .. Cardinality(P)
  <2>1. Rank(0, P) < Rank(p, P)
    BY <1>4
  <2> QED
    BY <1>1, <1>3, <2>1
<1> QED
  BY <1>1, <1>3, <1>4, <1>5

\* The ordered elements of P are those of P, each at its rank.
LEMMA OrderedFacts ==
  ASSUME NEW n \in Nat, NEW P \in SUBSET (1 .. n)
  PROVE  /\ \A i \in 1 .. Cardinality(P) : Ordered(P)[i] \in P /\ Rank(Ordered(P)[i], P) = i
         /\ \A p \in P : Ordered(P)[Rank(p, P)] = p
<1> DEFINE f == [p \in P |-> Rank(p, P)]
           T == 1 .. Cardinality(P)
<1>1. /\ IsFiniteSet(P) /\ Cardinality(P) \in Nat
      /\ \A p \in P : Rank(p, P) \in 1 .. Cardinality(P)
      /\ \A p \in 0 .. n : \A q \in P : p < q => Rank(p, P) < Rank(q, P)
  BY RankFacts
<1>2. ASSUME NEW p \in P, NEW q \in P, Rank(p, P) = Rank(q, P)
      PROVE  p = q
  <2>1. p \in 0 .. n /\ q \in 0 .. n
    OBVIOUS
  <2>2. ~ (p < q) /\ ~ (q < p)
    <3>1. Rank(p, P) \in Nat /\ Rank(q, P) \in Nat
      BY <1>1
    <3> QED
      BY <1>1, <1>2, <2>1, <3>1
  <2> QED
    BY <2>1, <2>2
<1>3. f \in Injection(P, T)
  BY <1>1, <1>2 DEF Injection, IsInjective
<1>4. IsFiniteSet(T) /\ Cardinality(T) = Cardinality(P)
  BY <1>1, FS_Interval
<1>5. f \in Surjection(P, T)
  <2> HIDE DEF f, T
  <2> QED
    BY <1>3, <1>4, FS_Injection
<1>6. ASSUME NEW i \in T
      PROVE  \E p \in P : Rank(p, P) = i
  BY <1>5 DEF Surjection
<1>7. ASSUME NEW i \in T
      PROVE  Ordered(P)[i] \in P /\ Rank(Ordered(P)[i], P) = i
  BY <1>6 DEF Ordered
<1>8. ASSUME NEW p \in P
      PROVE  Ordered(P)[Rank(p, P)] = p
  BY <1>1, <1>2, <1>7
<1> QED
  BY <1>7, <1>8

\* What follows p in P is the next one in their order.
LEMMA NextOrdered ==
  ASSUME CallType, NEW P \in SUBSET (1 .. Len(raw.body)), NEW p \in 0 .. Len(raw.body),
         NEW i, i = Rank(p, P)
  PROVE  /\ i \in 0 .. Cardinality(P) /\ Cardinality(P) \in Nat
         /\ After(p, P) \in P <=> i < Cardinality(P)
         /\ After(p, P) \in P => Ordered(P)[i + 1] = After(p, P) /\ Rank(After(p, P), P) = i + 1
<1>1. Len(raw.body) \in Nat
  BY EndsFacts DEF CallType
<1>2. i \in 0 .. Cardinality(P) /\ Cardinality(P) \in Nat /\ IsFiniteSet(P)
  BY <1>1, RankFacts
<1>3. /\ After(p, P) \in 1 .. Len(raw.body) + 1 /\ p < After(p, P)
      /\ After(p, P) = Len(raw.body) + 1 \/ After(p, P) \in P
      /\ \A q \in P : q > p => After(p, P) <= q
  BY AfterFacts
<1>4. ASSUME After(p, P) \in P
      PROVE  Rank(After(p, P), P) = i + 1
  <2>1. PICK a \in P : a = After(p, P)
    BY <1>4
  <2> DEFINE R == {x \in P : x <= p}
             T == {x \in P : x <= a}
  <2>2. T = R \cup {a} /\ a \notin R
    <3>1. a \in 1 .. Len(raw.body) /\ p < a /\ \A q \in P : q > p => a <= q
      BY <1>3, <2>1
    <3>2. ASSUME NEW x \in P
          PROVE  x <= a <=> x <= p \/ x = a
      <4>1. x \in 1 .. Len(raw.body) /\ (x > p => a <= x)
        BY <3>1
      <4> QED
        BY <3>1, <4>1
    <3>3. T \subseteq R \cup {a} /\ R \cup {a} \subseteq T
      BY <2>1, <3>2
    <3> QED
      BY <3>1, <3>3
  <2>3. IsFiniteSet(R)
    <3>1. R \in SUBSET P
      OBVIOUS
    <3> QED
      BY <1>2, <3>1, FS_Subset
  <2>4. Cardinality(T) = Cardinality(R) + 1
    <3> HIDE DEF R, T
    <3> QED
      BY <2>2, <2>3, FS_AddElement
  <2> QED
    BY <2>1, <2>4 DEF Rank
<1>5. ASSUME After(p, P) \notin P
      PROVE  i = Cardinality(P)
  <2>1. ASSUME NEW q \in P
        PROVE  q <= p
    <3>1. q \in 1 .. Len(raw.body) /\ (q > p => Len(raw.body) + 1 <= q)
      BY <1>3, <1>5
    <3> QED
      BY <1>1, <3>1
  <2>2. {q \in P : q <= p} = P
    BY <2>1
  <2> QED
    BY <2>2 DEF Rank
<1>6. After(p, P) \in P => Ordered(P)[i + 1] = After(p, P) /\ i + 1 <= Cardinality(P)
  <2> SUFFICES ASSUME After(p, P) \in P
               PROVE  Ordered(P)[i + 1] = After(p, P) /\ i + 1 <= Cardinality(P)
    OBVIOUS
  <2>1. /\ Ordered(P)[Rank(After(p, P), P)] = After(p, P)
        /\ Rank(After(p, P), P) \in 1 .. Cardinality(P)
    BY <1>1, OrderedFacts, RankFacts
  <2> QED
    BY <1>2, <1>4, <2>1
<1> QED
  BY <1>2, <1>4, <1>5, <1>6

\* Nothing is before the first.
LEMMA RankFirst ==
  ASSUME NEW n \in Nat, NEW P \in SUBSET (1 .. n)
  PROVE  Rank(0, P) = 0
<1>1. {q \in P : q <= 0} = {}
  <2>1. \A q \in P : q \in Nat /\ ~ (q <= 0)
    OBVIOUS
  <2> QED
    BY <2>1
<1> QED
  BY <1>1, FS_EmptySet DEF Rank
-----------------------------------------------------------------------------
(* Well-formed configurations *)

LEMMA PositionSets ==
  ASSUME CallType
  PROVE  /\ InterfaceStarts \in SUBSET (1 .. Len(raw.body))
         /\ Positions("endpoint") \in SUBSET (1 .. Len(raw.body))
         /\ Heads \in SUBSET (1 .. Len(raw.body)) /\ Firsts \in SUBSET (1 .. Len(raw.body))
         /\ \A p : /\ SettingsOf(p) \in SUBSET (1 .. Len(raw.body))
                   /\ EndpointsOf(p) \in SUBSET (1 .. Len(raw.body))
<1>1. DOMAIN raw.body = 1 .. Len(raw.body)
  BY EndsFacts DEF CallType
<1>2. \A type : Positions(type) \in SUBSET (1 .. Len(raw.body))
  BY <1>1 DEF Positions
<1>3. /\ InterfaceStarts \in SUBSET (1 .. Len(raw.body))
      /\ Positions("endpoint") \in SUBSET (1 .. Len(raw.body))
  BY <1>2 DEF InterfaceStarts
<1> QED
  BY <1>3 DEF Heads, Firsts, SettingsOf, EndpointsOf

\* Each descriptor is of a known kind and has a length that is enough for it.
LEMMA WellFacts ==
  ASSUME CallType, WellFormed, NEW p \in 1 .. Len(raw.body)
  PROVE  /\ raw.body[p].len \in Nat /\ raw.body[p].len >= 2
         /\ p \in Heads <=> raw.body[p].type # "other"
         /\ p \in Heads <=> p \in InterfaceStarts \/ p \in Positions("endpoint")
         /\ p \in InterfaceStarts <=> raw.body[p].type = "interface"
         /\ p \in Positions("endpoint") <=> raw.body[p].type = "endpoint"
         /\ p \in InterfaceStarts =>
              /\ raw.body[p].len = 9 /\ raw.body[p].num = Cardinality(EndpointsOf(p))
              /\ raw.body[p].num <= MaxEndpoints
         /\ p \in Positions("endpoint") => raw.body[p].len >= 7
<1>1. DOMAIN raw.body = 1 .. Len(raw.body) /\ raw.body[p] \in Descriptor
  BY EndsFacts DEF CallType
<1>2. (CASE raw.body[p].type = "interface" ->
             /\ raw.body[p].len = 9 /\ raw.body[p].num = Cardinality(EndpointsOf(p))
             /\ raw.body[p].num <= MaxEndpoints
        [] raw.body[p].type = "endpoint" -> raw.body[p].len \in {7, 9}
        [] raw.body[p].type = "other" -> raw.body[p].len >= 2
        [] OTHER -> FALSE)
  BY <1>1 DEF WellFormed
<1>3. raw.body[p].type \in Types /\ raw.body[p].len \in Nat
  BY <1>1 DEF Descriptor
<1>4. \/ /\ raw.body[p].type = "interface"
         /\ raw.body[p].len = 9 /\ raw.body[p].num = Cardinality(EndpointsOf(p))
         /\ raw.body[p].num <= MaxEndpoints
      \/ raw.body[p].type = "endpoint" /\ raw.body[p].len \in {7, 9}
      \/ raw.body[p].type = "other" /\ raw.body[p].len >= 2
  <2>1. CASE raw.body[p].type = "interface"
    BY <1>2, <2>1
  <2>2. CASE raw.body[p].type = "endpoint"
    BY <1>2, <2>2
  <2>3. CASE raw.body[p].type = "other"
    BY <1>2, <2>3
  <2>4. CASE raw.body[p].type \notin {"interface", "endpoint", "other"}
    BY <1>2, <2>4
  <2> QED
    BY <2>1, <2>2, <2>3, <2>4
<1>5. /\ p \in InterfaceStarts <=> raw.body[p].type = "interface"
      /\ p \in Positions("endpoint") <=> raw.body[p].type = "endpoint"
  BY <1>1 DEF InterfaceStarts, Positions
<1>6. p \in Heads <=> p \in InterfaceStarts \/ p \in Positions("endpoint")
  BY DEF Heads
<1> QED
  BY <1>3, <1>4, <1>5, <1>6

\* No descriptor ends behind the last one.
LEMMA EndsTotal ==
  ASSUME CallType, WellFormed
  PROVE  /\ raw.total = Ends(Len(raw.body))
         /\ \A p \in 0 .. Len(raw.body) : Ends(p) <= raw.total
<1> DEFINE n == Len(raw.body)
<1>1. /\ n \in Nat /\ raw.body \in Seq(Descriptor)
      /\ \A p \in 0 .. n : Ends(p) \in Nat
      /\ \A p \in 1 .. n : Ends(p) = Ends(p - 1) + raw.body[p].len
  BY EndsFacts DEF CallType
<1>2. raw.total = Ends(n)
  <2>1. SubSeq(raw.body, 1, n) = raw.body
    BY <1>1
  <2> QED
    BY <2>1 DEF WellFormed, Ends
<1> DEFINE T == {k \in 0 .. n : Ends(n - k) <= Ends(n)}
<1>3. 0 \in T
  BY <1>1
<1>4. ASSUME NEW k \in 0 .. n - 1, k \in T
      PROVE  k + 1 \in T
  <2>1. n - k \in 1 .. n /\ n - (k + 1) = (n - k) - 1 /\ n - (k + 1) \in 0 .. n /\ k + 1 \in 0 .. n
    BY <1>1
  <2>2. PICK m : m = n - k
    OBVIOUS
  <2>3. Ends(m) = Ends(m - 1) + raw.body[m].len /\ raw.body[m].len \in Nat
    BY <1>1, <2>1, <2>2, WellFacts
  <2>4. Ends(m) \in Nat /\ Ends(m - 1) \in Nat /\ Ends(n) \in Nat
    BY <1>1, <2>1, <2>2
  <2>5. Ends(m) <= Ends(n)
    BY <1>4, <2>2
  <2>6. Ends(m - 1) <= Ends(n)
    BY <2>3, <2>4, <2>5
  <2> QED
    BY <2>1, <2>2, <2>6
<1>5. \A k \in 0 .. n : k \in T
  <2> HIDE DEF T
  <2> QED
    BY <1>1, <1>3, <1>4, UpTo
<1>6. ASSUME NEW p \in 0 .. n
      PROVE  Ends(p) <= Ends(n)
  <2>1. n - p \in 0 .. n /\ n - (n - p) = p
    BY <1>1
  <2>2. n - p \in T
    BY <1>5, <2>1
  <2> QED
    BY <2>1, <2>2
<1> QED
  BY <1>2, <1>6

\* There is room for the descriptor at hand, if there is one.
LEMMA WellLeft ==
  ASSUME CallType, BufferType, SizeLeft, WellFormed, pos > 0
  PROVE  /\ pos \in 1 .. Len(raw.body) + 1 /\ Len(raw.body) \in Nat
         /\ pos = Len(raw.body) + 1 => size = 0 /\ ~Readable
         /\ pos # Len(raw.body) + 1 =>
              /\ pos \in 1 .. Len(raw.body) /\ Header = raw.body[pos]
              /\ Readable /\ ~Bad /\ ~TooLong /\ Header.len <= size
<1> DEFINE n == Len(raw.body)
<1>1. /\ n \in Nat /\ \A p \in 0 .. n : Ends(p) \in Nat
      /\ \A p \in 1 .. n : Ends(p) = Ends(p - 1) + raw.body[p].len
  BY EndsFacts DEF CallType
<1>2. pos \in 1 .. n + 1 /\ size = raw.total - Ends(pos - 1) /\ size \in Int
  BY <1>1 DEF BufferType, SizeLeft
<1>3. raw.total = Ends(n) /\ \A p \in 0 .. n : Ends(p) <= raw.total
  BY EndsTotal
<1>4. CASE pos = n + 1
  <2>1. pos - 1 = n
    BY <1>1, <1>4
  <2>2. PICK e \in Nat : e = Ends(n)
    BY <1>1
  <2>3. size = 0
    BY <1>2, <1>3, <2>1, <2>2
  <2> QED
    BY <1>1, <1>2, <1>4, <2>3 DEF Readable
<1>5. CASE pos # n + 1
  <2>1. pos \in 1 .. n /\ pos - 1 \in 0 .. n /\ pos \in 0 .. n
    BY <1>1, <1>2, <1>5
  <2>2. Header = raw.body[pos]
    BY DEF Header
  <2>3. PICK l \in Nat : l = Header.len /\ l >= 2
    BY <2>1, <2>2, WellFacts
  <2>4. PICK e \in Nat : e = Ends(pos - 1)
    BY <1>1, <2>1
  <2>5. PICK t \in Nat : t = raw.total
    BY <1>1, <1>3
  <2>6. e + l <= t /\ size = t - e
    <3>1. Ends(pos) = e + l /\ Ends(pos) <= t
      BY <1>1, <1>3, <2>1, <2>2, <2>3, <2>4, <2>5
    <3> QED
      BY <1>2, <2>4, <2>5, <3>1
  <2>7. l <= size /\ size >= 2
    BY <2>3, <2>4, <2>5, <2>6
  <2>8. Readable /\ ~ (Header.len > size) /\ ~ (Header.len < 2)
    BY <1>2, <2>3, <2>7 DEF Readable
  <2> QED
    BY <1>1, <1>2, <1>5, <2>1, <2>2, <2>3, <2>7, <2>8 DEF Bad, TooLong
<1> QED
  BY <1>4, <1>5
-----------------------------------------------------------------------------
(* What was understood *)

\* Of a well-formed configuration: the first m interfaces of d are done.
Finished(d, m) == \A i \in 1 .. m : d.ifaces[i] = InterfaceAt(Ordered(Firsts)[i])

\* The interface that begins at f is being parsed, and n of its settings are
\* done.
InInterface(d, f, n) ==
  LET m == Len(d.ifaces) IN
  /\ m \in 1 .. Cardinality(Firsts) /\ f = Ordered(Firsts)[m]
  /\ Finished(d, m - 1) /\ d.extra = Meaning.extra
  /\ \A k \in 1 .. n : Last(d.ifaces)[k] = SettingAt(Ordered(SettingsOf(f))[k])

\* The setting that begins at p is being parsed, and n of its endpoints are
\* done.
AtSetting(d, p, n) ==
  LET k == Len(Last(d.ifaces))
      a == Last(Last(d.ifaces)) IN
  \E f \in Firsts :
    /\ InInterface(d, f, k - 1)
    /\ k \in 1 .. Cardinality(SettingsOf(f)) /\ p = Ordered(SettingsOf(f))[k]
    /\ a.num = raw.body[p].num
    /\ \A j \in 1 .. n : a.eps[j] = EndpointAt(Ordered(EndpointsOf(p))[j])

\* The parser is between the descriptor at h and the next one it knows.
Passing(h) == h < pos /\ pos <= After(h, Heads) /\ extra = Run(h, pos)

AtSkip ==
  LET m == Len(conf.ifaces) IN
  /\ Finished(conf, m)
  /\ IF m = 0 THEN conf.extra = 0 /\ Passing(0)
     ELSE conf.extra = Meaning.extra /\ extra = 0 /\ pos = Ordered(Firsts)[m + 1]
AtAltsetting ==
  LET k == Len(Iface) IN
  /\ extra = 0
  /\ \E f \in Firsts : /\ InInterface(conf, f, k) /\ k + 1 \in 1 .. Cardinality(SettingsOf(f))
                       /\ pos = Ordered(SettingsOf(f))[k + 1]
AtInterfaceSkip == \E p \in InterfaceStarts : AtSetting(conf, p, 0) /\ Passing(p)
AtEndpoint ==
  LET e == Len(Alt.eps) IN
  \E p \in InterfaceStarts :
    /\ AtSetting(conf, p, e) /\ e \in 0 .. Cardinality(EndpointsOf(p)) /\ extra = 0
    /\ Alt.extra = Run(p, After(p, Heads))
    /\ pos = After(IF e = 0 THEN p ELSE Ordered(EndpointsOf(p))[e], Heads)
AtEndpointSkip ==
  LET e == Len(Alt.eps) IN
  \E p \in InterfaceStarts :
    /\ AtSetting(conf, p, e - 1) /\ e \in 1 .. Cardinality(EndpointsOf(p))
    /\ Alt.extra = Run(p, After(p, Heads))
    /\ Alt.eps[e].addr = raw.body[Ordered(EndpointsOf(p))[e]].addr
    /\ Passing(Ordered(EndpointsOf(p))[e])

\* What is parsed so far is what the bytes up to here mean.
Understood ==
  /\ place \in {"start", "configuration"} => extra = 0
  /\ place = "skip" => AtSkip
  /\ place = "altsetting" => AtAltsetting
  /\ place = "iskip" => AtInterfaceSkip
  /\ place = "endpoint" => AtEndpoint
  /\ place = "eskip" => AtEndpointSkip
  /\ place \in {"left", "find", "got"} => conf = Meaning
  /\ result = "error" => failures > 0

FaithInv == WellFormed => Understood

\* The meaning of the bytes stays as it is.
LEMMA MeaningKept ==
  ASSUME UNCHANGED raw
  PROVE  /\ WellFormed' <=> WellFormed
         /\ Heads' = Heads /\ Firsts' = Firsts /\ InterfaceStarts' = InterfaceStarts
         /\ Meaning' = Meaning
         /\ \A p : /\ After(p, Heads)' = After(p, Heads) /\ After(p, Firsts)' = After(p, Firsts)
                   /\ SettingsOf(p)' = SettingsOf(p) /\ EndpointsOf(p)' = EndpointsOf(p)
                   /\ InterfaceAt(p)' = InterfaceAt(p) /\ SettingAt(p)' = SettingAt(p)
                   /\ EndpointAt(p)' = EndpointAt(p)
                   /\ Ordered(SettingsOf(p))' = Ordered(SettingsOf(p))
                   /\ Ordered(EndpointsOf(p))' = Ordered(EndpointsOf(p))
         /\ Ordered(Firsts)' = Ordered(Firsts)
         /\ \A p, q : Run(p, q)' = Run(p, q)
<1>1. \A type : Positions(type)' = Positions(type)
  BY DEF Positions
<1>2. Heads' = Heads /\ Firsts' = Firsts /\ InterfaceStarts' = InterfaceStarts
  BY <1>1 DEF Heads, Firsts, InterfaceStarts
<1>3. \A p, P : After(p, P)' = After(p, P)
  BY DEF After
<1>4. \A p : /\ After(p, Heads)' = After(p, Heads) /\ After(p, Firsts)' = After(p, Firsts)
             /\ After(p, InterfaceStarts)' = After(p, InterfaceStarts)
             /\ After(p, Positions("endpoint"))' = After(p, Positions("endpoint"))
  BY DEF After, Heads, InterfaceStarts, Firsts, Positions
<1>5. \A p : SettingsOf(p)' = SettingsOf(p) /\ EndpointsOf(p)' = EndpointsOf(p)
  BY <1>1, <1>2, <1>4 DEF SettingsOf, EndpointsOf
<1>6. \A p, q : Run(p, q)' = Run(p, q)
  BY DEF Run
<1>7. /\ Ordered(Firsts)' = Ordered(Firsts)
      /\ \A p : /\ Ordered(SettingsOf(p))' = Ordered(SettingsOf(p))
                /\ Ordered(EndpointsOf(p))' = Ordered(EndpointsOf(p))
  BY DEF Ordered, Rank, SettingsOf, EndpointsOf, After, Firsts, InterfaceStarts, Positions
<1>8. \A p : EndpointAt(p)' = EndpointAt(p)
  BY <1>4, <1>6 DEF EndpointAt, Run
<1>9. \A p : SettingAt(p)' = SettingAt(p)
  <2> TAKE p
  <2>1. SettingAt(p)' = SettingAt(p)
    BY <1>4, <1>5, <1>6, <1>7, <1>8 DEF SettingAt, Run
  <2> QED
    BY <2>1
<1>10. \A p : InterfaceAt(p)' = InterfaceAt(p)
  BY <1>5, <1>7, <1>9 DEF InterfaceAt
<1>11. Meaning' = Meaning
  BY <1>2, <1>4, <1>6, <1>7, <1>10 DEF Meaning, Run
<1>12. WellFormed' <=> WellFormed
  BY <1>1, <1>2, <1>4, <1>5 DEF WellFormed
<1> QED
  BY <1>2, <1>4, <1>5, <1>6, <1>7, <1>8, <1>9, <1>10, <1>11, <1>12
-----------------------------------------------------------------------------
(* The bytes between two descriptors *)

LEMMA RunFacts ==
  ASSUME CallType, NEW h \in 0 .. Len(raw.body)
  PROVE  /\ Run(h, h + 1) = 0
         /\ \A q \in h + 1 .. Len(raw.body) :
              Run(h, q) \in Nat /\ Run(h, q + 1) = Run(h, q) + raw.body[q].len
<1>1. PICK s \in Seq(Descriptor) : s = raw.body
  BY EndsFacts DEF CallType
<1>2. /\ Len(s) \in Nat /\ DOMAIN s = 1 .. Len(s)
      /\ \A p \in 1 .. Len(s) : s[p] \in Descriptor
  BY LenProperties, ElementOfSeq
<1>3. \A q \in h + 1 .. Len(s) + 1 :
        /\ SubSeq(s, h + 1, q - 1) \in Seq(Descriptor) /\ Len(SubSeq(s, h + 1, q - 1)) = q - 1 - h
        /\ \A i \in 1 .. q - 1 - h : SubSeq(s, h + 1, q - 1)[i] = s[h + i]
  <2> TAKE q \in h + 1 .. Len(s) + 1
  <2>1. h + 1 \in Nat /\ q - 1 \in Nat /\ h \in 0 .. Len(s)
    BY <1>1, <1>2
  <2>2. \A i \in h + 1 .. q - 1 : s[i] \in Descriptor
    BY <1>2, <2>1
  <2>3. /\ SubSeq(s, h + 1, q - 1) \in Seq(Descriptor)
        /\ Len(SubSeq(s, h + 1, q - 1)) = IF h + 1 <= q - 1 THEN q - 1 - (h + 1) + 1 ELSE 0
        /\ \A i \in 1 .. q - 1 - (h + 1) + 1 : SubSeq(s, h + 1, q - 1)[i] = s[h + 1 + i - 1]
    BY <1>2, <2>1, <2>2, SubSeqProperties
  <2> QED
    BY <1>2, <2>1, <2>3
<1>4. Run(h, h + 1) = 0
  <2>1. h + 1 \in h + 1 .. Len(s) + 1 /\ (h + 1) - 1 - h = 0
    BY <1>1, <1>2
  <2>2. PICK t \in Seq(Descriptor) : t = SubSeq(s, h + 1, (h + 1) - 1) /\ Len(t) = 0
    BY <1>3, <2>1
  <2>3. t = <<>>
    BY <2>2, EmptySeq
  <2>4. Lengths(<<>>) = <<>> /\ Bytes(<<>>) = Sum(Lengths(<<>>))
    BY DEF Lengths, Bytes
  <2> QED
    BY <1>1, <2>2, <2>3, <2>4, SumEmpty DEF Run
<1>5. ASSUME NEW q \in h + 1 .. Len(s)
      PROVE  Run(h, q) \in Nat /\ Run(h, q + 1) = Run(h, q) + s[q].len
  <2>1. /\ q \in h + 1 .. Len(s) + 1 /\ q + 1 \in h + 1 .. Len(s) + 1 /\ (q + 1) - 1 = q
        /\ q \in 1 .. Len(s) /\ h \in Nat /\ q \in Nat
    BY <1>1, <1>2
  <2> DEFINE n == q - 1 - h
  <2>2. n \in Nat /\ (q + 1) - 1 - h = n + 1 /\ h + (n + 1) = q
    BY <2>1
  <2>3. PICK g \in Seq(Descriptor) : g = SubSeq(s, h + 1, q - 1) /\ Len(g) = n
                                       /\ \A i \in 1 .. n : g[i] = s[h + i]
    BY <1>3, <2>1
  <2>4. PICK t \in Seq(Descriptor) : t = SubSeq(s, h + 1, (q + 1) - 1) /\ Len(t) = n + 1
                                       /\ \A i \in 1 .. n + 1 : t[i] = s[h + i]
    BY <1>3, <2>1, <2>2
  <2> HIDE DEF n
  <2>5. DOMAIN t = 1 .. n + 1 /\ DOMAIN g = 1 .. n
    BY <2>3, <2>4, LenProperties
  <2>6. PICK w \in Seq(Nat) : w = Lengths(t) /\ Len(w) = n + 1
    BY <2>4, LengthsType
  <2>7. PICK v \in Seq(Nat) : v = Lengths(g) /\ Len(v) = n
    BY <2>3, LengthsType
  <2>8. /\ \A i \in 1 .. n + 1 : w[i] = s[h + i].len
        /\ \A i \in 1 .. n : v[i] = s[h + i].len
    BY <2>3, <2>4, <2>5, <2>6, <2>7 DEF Lengths
  <2>9. (\A i \in 1 .. Len(v) : v[i] = w[i]) /\ w[Len(w)] = s[q].len /\ Len(w) = Len(v) + 1
    <3>1. n + 1 \in 1 .. n + 1 /\ \A i \in 1 .. n : i \in 1 .. n + 1
      BY <2>2
    <3> QED
      BY <2>2, <2>6, <2>7, <2>8, <3>1
  <2>10. Sum(w) = Sum(v) + w[Len(w)] /\ Sum(v) \in Nat
    BY <2>9, SumMore, SumType
  <2>11. Bytes(t) = Sum(w) /\ Bytes(g) = Sum(v)
    BY <2>6, <2>7 DEF Bytes, Lengths
  <2>12. Run(h, q) = Bytes(g) /\ Run(h, q + 1) = Bytes(t)
    BY <1>1, <2>3, <2>4 DEF Run
  <2> QED
    BY <2>9, <2>10, <2>11, <2>12
<1> QED
  BY <1>1, <1>4, <1>5

\* A descriptor is passed over that belongs to the one at h.
LEMMA PassingOn ==
  ASSUME CallType, BufferType, WellFormed, NEW h \in 0 .. Len(raw.body), Passing(h),
         pos \in 1 .. Len(raw.body), ~Proper, UNCHANGED raw,
         pos' = pos + 1, extra' = extra + Header.len
  PROVE  Passing(h)'
<1>1. /\ h < pos /\ pos <= After(h, Heads) /\ extra = Run(h, pos) /\ Header = raw.body[pos]
      /\ Len(raw.body) \in Nat
  BY EndsFacts DEF Passing, Header, CallType
<1>2. pos \notin Heads
  BY <1>1, WellFacts DEF Proper
<1>3. /\ After(h, Heads) \in 1 .. Len(raw.body) + 1
      /\ After(h, Heads) = Len(raw.body) + 1 \/ After(h, Heads) \in Heads
  BY PositionSets, AfterFacts
<1>4. pos # After(h, Heads)
  BY <1>1, <1>2, <1>3
<1>5. pos + 1 <= After(h, Heads) /\ h < pos + 1
  BY <1>1, <1>3, <1>4
<1>6. Run(h, pos + 1) = extra + Header.len
  <2>1. pos \in h + 1 .. Len(raw.body)
    BY <1>1
  <2> QED
    BY <1>1, <2>1, RunFacts
<1>7. After(h, Heads)' = After(h, Heads) /\ \A q : Run(h, q)' = Run(h, q)
  BY MeaningKept
<1>8. Run(h, pos)' = Run(h, pos + 1)
  BY DEF Run
<1> QED
  BY <1>5, <1>6, <1>7, <1>8 DEF Passing

\* All that belongs to the descriptor at h has been passed over.
LEMMA PassedOver ==
  ASSUME CallType, BufferType, SizeLeft, WellFormed, pos > 0,
         NEW h \in 0 .. Len(raw.body), Passing(h), Skipped
  PROVE  pos = After(h, Heads) /\ extra = Run(h, After(h, Heads))
<1>1. h < pos /\ pos <= After(h, Heads) /\ extra = Run(h, pos)
  BY DEF Passing
<1>2. /\ After(h, Heads) \in 1 .. Len(raw.body) + 1
      /\ \A q \in Heads : q > h => After(h, Heads) <= q
  BY PositionSets, AfterFacts
<1>3. /\ pos \in 1 .. Len(raw.body) + 1 /\ Len(raw.body) \in Nat
      /\ pos # Len(raw.body) + 1 =>
           pos \in 1 .. Len(raw.body) /\ Header = raw.body[pos] /\ Readable
  BY WellLeft
<1>4. pos = After(h, Heads)
  <2>1. CASE pos = Len(raw.body) + 1
    BY <1>1, <1>2, <1>3, <2>1
  <2>2. CASE pos # Len(raw.body) + 1
    <3>1. pos \in Heads
      BY <1>3, <2>2, WellFacts DEF Skipped, Proper
    <3>2. After(h, Heads) <= pos
      BY <1>1, <1>2, <1>3, <3>1
    <3> QED
      BY <1>1, <1>2, <1>3, <3>2
  <2> QED
    BY <2>1, <2>2
<1> QED
  BY <1>1, <1>4

\* A descriptor is at hand and nothing has been passed over behind it.
LEMMA PassingNothing ==
  ASSUME CallType, NEW h \in 0 .. Len(raw.body), UNCHANGED raw, pos' = h + 1, extra' = 0
  PROVE  Passing(h)'
<1>1. After(h, Heads) \in 1 .. Len(raw.body) + 1 /\ h < After(h, Heads)
  BY PositionSets, AfterFacts
<1>2. Run(h, h + 1) = 0
  BY RunFacts
<1>3. After(h, Heads)' = After(h, Heads) /\ Run(h, h + 1)' = Run(h, h + 1)
  BY MeaningKept
<1>4. Run(h, pos)' = Run(h, h + 1)'
  BY DEF Run
<1>5. h < h + 1 /\ h + 1 <= After(h, Heads)
  BY <1>1
<1> QED
  BY <1>2, <1>3, <1>4, <1>5 DEF Passing
-----------------------------------------------------------------------------
(* Interfaces, settings and endpoints in their order *)

\* A configuration without interfaces is empty; in another one the first
\* descriptor that is known begins an interface.
LEMMA FirstInterface ==
  ASSUME CallType, WellFormed
  PROVE  /\ raw.num = Cardinality(Firsts) /\ Cardinality(Firsts) \in Nat /\ raw.num <= MaxInterfaces
         /\ Cardinality(Firsts) = 0 => Meaning = NoConf
         /\ Cardinality(Firsts) > 0 =>
              /\ After(0, Heads) = Ordered(Firsts)[1] /\ After(0, Heads) \in Firsts
              /\ Meaning.extra = Run(0, After(0, Heads))
<1>1. /\ Firsts \in SUBSET (1 .. Len(raw.body)) /\ Heads \in SUBSET (1 .. Len(raw.body))
      /\ InterfaceStarts \in SUBSET (1 .. Len(raw.body))
      /\ Positions("endpoint") \in SUBSET (1 .. Len(raw.body)) /\ Len(raw.body) \in Nat
  BY PositionSets, EndsFacts DEF CallType
<1>2. raw.num = Cardinality(Firsts) /\ raw.num <= MaxInterfaces
  BY DEF WellFormed
<1>3. Cardinality(Firsts) \in Nat /\ IsFiniteSet(Firsts)
  BY <1>1, RankFacts
<1>4. ASSUME Cardinality(Firsts) = 0
      PROVE  Meaning = NoConf
  <2>1. [i \in 1 .. Cardinality(Firsts) |-> InterfaceAt(Ordered(Firsts)[i])] = <<>>
    BY <1>4
  <2> QED
    BY <1>2, <1>4, <2>1 DEF Meaning, NoConf
<1>5. ASSUME Cardinality(Firsts) > 0
      PROVE  /\ After(0, Heads) = Ordered(Firsts)[1] /\ After(0, Heads) \in Firsts
             /\ Meaning.extra = Run(0, After(0, Heads))
  <2>1. PICK a : a = After(0, InterfaceStarts)
    OBVIOUS
  <2>2. Firsts # {} /\ InterfaceStarts # {} /\ Firsts \subseteq InterfaceStarts
    <3>1. Firsts # {}
      BY <1>5, FS_EmptySet
    <3> QED
      BY <3>1 DEF Firsts
  <2>3. raw.body[a].alt = 0 /\ (Positions("endpoint") # {} => a < After(0, Positions("endpoint")))
    BY <2>1, <2>2 DEF WellFormed
  <2>4. 0 \in 0 .. Len(raw.body)
    BY <1>1
  <2>5. /\ a \in 1 .. Len(raw.body) + 1 /\ 0 < a
        /\ a = Len(raw.body) + 1 \/ a \in InterfaceStarts
        /\ \A q \in InterfaceStarts : q > 0 => a <= q
    BY <1>1, <2>1, <2>4, AfterFacts
  <2>6. a \in InterfaceStarts
    <3>1. PICK q \in InterfaceStarts : TRUE
      BY <2>2
    <3>2. q \in 1 .. Len(raw.body) /\ a <= q
      BY <1>1, <2>5, <3>1
    <3> QED
      BY <1>1, <2>5, <3>2
  <2>7. a \in Firsts
    BY <2>3, <2>6 DEF Firsts
  <2>8. After(0, Firsts) = a
    BY <1>1, <2>2, <2>4, <2>5, <2>7, AfterIs
  <2>9. After(0, Heads) = a
    <3>1. ASSUME NEW q \in Heads, q > 0
          PROVE  a <= q
      <4>1. CASE q \in InterfaceStarts
        BY <2>5, <3>1, <4>1
      <4>2. CASE q \in Positions("endpoint")
        <5>1. After(0, Positions("endpoint")) <= q /\ a < After(0, Positions("endpoint"))
          BY <1>1, <2>3, <2>4, <3>1, <4>2, AfterFacts
        <5>2. After(0, Positions("endpoint")) \in Nat /\ q \in Nat /\ a \in Nat
          <6>1. After(0, Positions("endpoint")) \in 1 .. Len(raw.body) + 1
            BY <1>1, <2>4, AfterFacts
          <6>2. q \in 1 .. Len(raw.body)
            BY <1>1, <4>2
          <6> QED
            BY <1>1, <2>5, <6>1, <6>2
        <5> QED
          BY <5>1, <5>2
      <4> QED
        BY <4>1, <4>2 DEF Heads
    <3>2. a \in Heads
      BY <2>6 DEF Heads
    <3> QED
      BY <1>1, <2>4, <2>5, <3>1, <3>2, AfterIs
  <2>10. Ordered(Firsts)[1] = a
    <3>1. Rank(0, Firsts) = 0
      BY <1>1, RankFirst
    <3>2. Ordered(Firsts)[0 + 1] = a
      BY <1>1, <2>4, <2>7, <2>8, <3>1, NextOrdered
    <3> QED
      BY <3>2
  <2>11. raw.num # 0
    BY <1>2, <1>3, <1>5
  <2>12. Meaning.extra = Run(0, After(0, Heads))
    BY <2>11 DEF Meaning
  <2> QED
    BY <2>7, <2>9, <2>10, <2>12
<1> QED
  BY <1>2, <1>3, <1>4, <1>5

\* The first setting of an interface is the one it begins with.
LEMMA FirstSetting ==
  ASSUME CallType, NEW f \in Firsts
  PROVE  /\ Cardinality(SettingsOf(f)) \in Nat \ {0} /\ Ordered(SettingsOf(f))[1] = f
         /\ \A q \in SettingsOf(f) : f <= q
<1>1. /\ Firsts \in SUBSET (1 .. Len(raw.body)) /\ Len(raw.body) \in Nat
      /\ SettingsOf(f) \in SUBSET (1 .. Len(raw.body))
  BY PositionSets, EndsFacts DEF CallType
<1>2. f \in 1 .. Len(raw.body) /\ f \in InterfaceStarts /\ 0 \in 0 .. Len(raw.body)
  BY <1>1 DEF Firsts
<1>3. f < After(f, Firsts)
  BY <1>1, <1>2, AfterFacts
<1>4. f \in SettingsOf(f) /\ \A q \in SettingsOf(f) : f <= q
  BY <1>2, <1>3 DEF SettingsOf
<1>5. After(0, SettingsOf(f)) = f
  <2>1. 0 < f
    BY <1>2
  <2> QED
    BY <1>1, <1>2, <1>4, <2>1, AfterIs
<1>6. Rank(0, SettingsOf(f)) = 0
  BY <1>1, RankFirst
<1>7. Ordered(SettingsOf(f))[0 + 1] = f /\ 0 < Cardinality(SettingsOf(f))
  BY <1>1, <1>2, <1>4, <1>5, <1>6, NextOrdered
<1>8. Cardinality(SettingsOf(f)) \in Nat
  BY <1>1, RankFacts
<1> QED
  BY <1>4, <1>7, <1>8

\* Behind a setting or an endpoint of it comes its next endpoint, if it has
\* more, and the next interface descriptor, if not.
LEMMA NextEndpoint ==
  ASSUME CallType, WellFormed, NEW p \in InterfaceStarts,
         NEW e \in 0 .. Cardinality(EndpointsOf(p)),
         NEW h, h = IF e = 0 THEN p ELSE Ordered(EndpointsOf(p))[e]
  PROVE  /\ h \in 1 .. Len(raw.body) /\ Cardinality(EndpointsOf(p)) \in Nat
         /\ e < Cardinality(EndpointsOf(p)) =>
              /\ After(h, Heads) = Ordered(EndpointsOf(p))[e + 1]
              /\ After(h, Heads) \in EndpointsOf(p)
         /\ e = Cardinality(EndpointsOf(p)) => After(h, Heads) = After(p, InterfaceStarts)
<1> DEFINE E == EndpointsOf(p)
           a == After(p, InterfaceStarts)
           b == After(h, Heads)
<1>1. /\ Heads \in SUBSET (1 .. Len(raw.body)) /\ InterfaceStarts \in SUBSET (1 .. Len(raw.body))
      /\ E \in SUBSET (1 .. Len(raw.body)) /\ Len(raw.body) \in Nat
  BY PositionSets, EndsFacts DEF CallType
<1>2. p \in 1 .. Len(raw.body) /\ p \in 0 .. Len(raw.body)
  BY <1>1
<1>3. /\ a \in 1 .. Len(raw.body) + 1 /\ p < a
      /\ a = Len(raw.body) + 1 \/ a \in InterfaceStarts
      /\ \A q \in InterfaceStarts : q > p => a <= q
  BY <1>1, <1>2, AfterFacts
<1>4. \A q : q \in E <=> q \in Positions("endpoint") /\ p < q /\ q < a
  BY DEF EndpointsOf
<1>5. Cardinality(E) \in Nat
  BY <1>1, RankFacts
<1>6. h \in 1 .. Len(raw.body) /\ p <= h /\ h < a /\ Rank(h, E) = e
  <2>1. CASE e = 0
    <3>1. h = p
      BY <2>1
    <3>2. {q \in E : q <= p} = {}
      <4>1. \A q \in E : q \in Nat /\ p < q
        BY <1>1, <1>4
      <4>2. \A q \in E : ~ (q <= p)
        BY <1>2, <4>1
      <4> QED
        BY <4>2
    <3>3. Rank(h, E) = 0
      BY <3>1, <3>2, FS_EmptySet DEF Rank
    <3> QED
      BY <1>2, <1>3, <2>1, <3>1, <3>3
  <2>2. CASE e # 0
    <3>1. e \in 1 .. Cardinality(E) /\ h = Ordered(E)[e]
      BY <1>5, <2>2
    <3>2. h \in E /\ Rank(h, E) = e
      <4>1. \A i \in 1 .. Cardinality(E) : Ordered(E)[i] \in E /\ Rank(Ordered(E)[i], E) = i
        <5> HIDE DEF E
        <5> QED
          BY <1>1, OrderedFacts
      <4> QED
        BY <3>1, <4>1
    <3>3. h \in 1 .. Len(raw.body) /\ p < h /\ h < a
      BY <1>1, <1>4, <3>2
    <3> QED
      BY <1>2, <3>2, <3>3
  <2> QED
    BY <2>1, <2>2
<1>7. h \in 0 .. Len(raw.body)
  BY <1>6
<1>8. /\ b \in 1 .. Len(raw.body) + 1 /\ h < b
      /\ b = Len(raw.body) + 1 \/ b \in Heads
      /\ \A q \in Heads : q > h => b <= q
  BY <1>1, <1>7, AfterFacts
<1>9. \A q : q \in Heads <=> q \in InterfaceStarts \/ q \in Positions("endpoint")
  BY DEF Heads
<1>10. b <= a
  <2>1. CASE a = Len(raw.body) + 1
    BY <1>1, <1>8, <2>1
  <2>2. CASE a # Len(raw.body) + 1
    <3>1. a \in Heads
      BY <1>3, <1>9, <2>2
    <3>2. a > h
      BY <1>1, <1>3, <1>6
    <3> QED
      BY <1>8, <3>1, <3>2
  <2> QED
    BY <2>1, <2>2
<1>11. b \in E \/ b = a
  <2> SUFFICES ASSUME b # a PROVE b \in E
    OBVIOUS
  <2>1. b < a /\ b \in Heads /\ p < b
    BY <1>2, <1>3, <1>6, <1>8, <1>10
  <2>2. b \notin InterfaceStarts
    <3> SUFFICES ASSUME b \in InterfaceStarts PROVE FALSE
      OBVIOUS
    <3>1. a <= b
      BY <1>3, <2>1
    <3> QED
      BY <1>3, <1>8, <2>1, <3>1
  <2>3. b \in Positions("endpoint")
    BY <1>9, <2>1, <2>2
  <2> QED
    BY <1>4, <2>1, <2>3
<1>12. /\ After(h, E) \in E <=> e < Cardinality(E)
       /\ After(h, E) \in E => Ordered(E)[e + 1] = After(h, E)
  <2> HIDE DEF E
  <2> QED
    BY <1>1, <1>6, <1>7, NextOrdered
<1>13. /\ After(h, E) \in 1 .. Len(raw.body) + 1 /\ h < After(h, E)
       /\ \A q \in E : q > h => After(h, E) <= q
       /\ After(h, E) = Len(raw.body) + 1 \/ After(h, E) \in E
  <2> HIDE DEF E
  <2> QED
    BY <1>1, <1>7, AfterFacts
<1>14. \A q \in E : q \in Heads /\ q \in 1 .. Len(raw.body)
  BY <1>1, <1>4, <1>9
<1> HIDE DEF E, a, b
<1>15. CASE b \in E
  <2>1. After(h, E) <= b
    BY <1>8, <1>13, <1>15
  <2>2. After(h, E) \in E
    <3>1. b \in 1 .. Len(raw.body)
      BY <1>14, <1>15
    <3> QED
      BY <1>1, <1>13, <2>1, <3>1
  <2>3. b <= After(h, E)
    BY <1>8, <1>13, <1>14, <2>2
  <2>4. b = After(h, E)
    BY <1>8, <1>13, <2>1, <2>3
  <2> QED
    BY <1>5, <1>6, <1>12, <1>15, <2>2, <2>4 DEF E, a, b
<1>16. CASE b \notin E
  <2>1. b = a
    BY <1>11, <1>16
  <2>2. After(h, E) \notin E
    <3> SUFFICES ASSUME After(h, E) \in E PROVE FALSE
      OBVIOUS
    <3>1. b <= After(h, E) /\ After(h, E) < a
      BY <1>4, <1>8, <1>13, <1>14
    <3> QED
      BY <1>3, <1>13, <2>1, <3>1
  <2> QED
    BY <1>5, <1>6, <1>12, <2>1, <2>2 DEF E, a, b
<1> QED
  BY <1>15, <1>16

\* Behind a setting of an interface comes its next one, if an alternate
\* setting comes next, and the next interface or the end, if not.
LEMMA NextSetting ==
  ASSUME CallType, NEW f \in Firsts, NEW k \in 1 .. Cardinality(SettingsOf(f)),
         NEW p, p = Ordered(SettingsOf(f))[k],
         NEW a, a = After(p, InterfaceStarts)
  PROVE  /\ p \in InterfaceStarts /\ Cardinality(SettingsOf(f)) \in Nat
         /\ a \in 1 .. Len(raw.body) + 1
         /\ a = Len(raw.body) + 1 \/ a \in InterfaceStarts
         /\ (a # Len(raw.body) + 1 /\ raw.body[a].alt # 0) =>
              k < Cardinality(SettingsOf(f)) /\ a = Ordered(SettingsOf(f))[k + 1]
         /\ (a = Len(raw.body) + 1 \/ raw.body[a].alt = 0) =>
              k = Cardinality(SettingsOf(f)) /\ a = After(f, Firsts)
<1> DEFINE S == SettingsOf(f)
           b == After(f, Firsts)
<1>1. /\ Firsts \in SUBSET (1 .. Len(raw.body)) /\ InterfaceStarts \in SUBSET (1 .. Len(raw.body))
      /\ S \in SUBSET (1 .. Len(raw.body)) /\ Len(raw.body) \in Nat
  BY PositionSets, EndsFacts DEF CallType
<1>2. f \in 0 .. Len(raw.body) /\ f \in 1 .. Len(raw.body)
  BY <1>1
<1>3. /\ b \in 1 .. Len(raw.body) + 1 /\ f < b
      /\ b = Len(raw.body) + 1 \/ b \in Firsts
      /\ \A q \in Firsts : q > f => b <= q
  BY <1>1, <1>2, AfterFacts
<1>4. /\ \A q : q \in S <=> q \in InterfaceStarts /\ f <= q /\ q < b
      /\ \A q : q \in Firsts <=> q \in InterfaceStarts /\ raw.body[q].alt = 0
  BY DEF SettingsOf, Firsts
<1>5. Cardinality(S) \in Nat
  BY <1>1, RankFacts
<1>6. p \in S /\ Rank(p, S) = k
  <2>1. \A i \in 1 .. Cardinality(S) : Ordered(S)[i] \in S /\ Rank(Ordered(S)[i], S) = i
    <3> HIDE DEF S
    <3> QED
      BY <1>1, OrderedFacts
  <2> QED
    BY <2>1
<1>7. p \in InterfaceStarts /\ f <= p /\ p < b /\ p \in 1 .. Len(raw.body) /\ p \in 0 .. Len(raw.body)
  BY <1>1, <1>4, <1>6
<1>8. /\ a \in 1 .. Len(raw.body) + 1 /\ p < a
      /\ a = Len(raw.body) + 1 \/ a \in InterfaceStarts
      /\ \A q \in InterfaceStarts : q > p => a <= q
  BY <1>1, <1>7, AfterFacts
<1>9. /\ After(p, S) \in S <=> k < Cardinality(S)
      /\ After(p, S) \in S => Ordered(S)[k + 1] = After(p, S)
      /\ k <= Cardinality(S)
  <2> HIDE DEF S
  <2> QED
    BY <1>1, <1>6, <1>7, NextOrdered
<1>10. /\ After(p, S) \in 1 .. Len(raw.body) + 1 /\ p < After(p, S)
       /\ \A q \in S : q > p => After(p, S) <= q
  <2> HIDE DEF S
  <2> QED
    BY <1>1, <1>7, AfterFacts
<1> HIDE DEF S, b
<1>11. a <= b
  <2>1. CASE b = Len(raw.body) + 1
    BY <1>1, <1>8, <2>1
  <2>2. CASE b # Len(raw.body) + 1
    <3>1. b \in InterfaceStarts /\ b > p
      BY <1>1, <1>3, <1>4, <1>7, <2>2
    <3> QED
      BY <1>8, <3>1
  <2> QED
    BY <2>1, <2>2
<1>12. a \in S <=> a # b
  BY <1>1, <1>2, <1>3, <1>4, <1>7, <1>8, <1>11
<1>13. a \in S <=> (a # Len(raw.body) + 1 /\ raw.body[a].alt # 0)
  <2>1. ASSUME a \in S
        PROVE  a # Len(raw.body) + 1 /\ raw.body[a].alt # 0
    <3>1. a \in InterfaceStarts /\ a < b /\ a \in 1 .. Len(raw.body)
      BY <1>1, <1>4, <2>1
    <3>2. a \notin Firsts
      <4>1. f < a
        BY <1>2, <1>7, <1>8
      <4>2. ~ (b <= a)
        BY <1>3, <1>8, <3>1
      <4> QED
        BY <1>3, <4>1, <4>2
    <3> QED
      BY <1>1, <1>4, <3>1, <3>2
  <2>2. ASSUME a # Len(raw.body) + 1, raw.body[a].alt # 0
        PROVE  a \in S
    <3>1. a \notin Firsts
      BY <1>4, <2>2
    <3> QED
      BY <1>3, <1>12, <2>2, <3>1
  <2> QED
    BY <2>1, <2>2
<1>14. CASE a \in S
  <2>1. After(p, S) = a
    <3>1. \A q \in S : q > p => a <= q
      BY <1>4, <1>8
    <3> QED
      BY <1>1, <1>7, <1>8, <1>14, <3>1, AfterIs
  <2> QED
    BY <1>5, <1>7, <1>8, <1>9, <1>13, <1>14, <2>1 DEF S, b
<1>15. CASE a \notin S
  <2>1. After(p, S) \notin S
    <3> SUFFICES ASSUME After(p, S) \in S PROVE FALSE
      OBVIOUS
    <3>1. After(p, S) \in InterfaceStarts /\ After(p, S) < b
      BY <1>4
    <3>2. a <= After(p, S)
      BY <1>7, <1>8, <1>10, <3>1
    <3>3. a = b
      BY <1>12, <1>15
    <3> QED
      BY <1>3, <1>10, <3>1, <3>2, <3>3
  <2>2. k = Cardinality(S)
    BY <1>5, <1>9, <2>1
  <2>3. a = b
    BY <1>12, <1>15
  <2> QED
    BY <1>5, <1>7, <1>8, <1>13, <1>15, <2>2, <2>3 DEF S, b
<1> QED
  BY <1>14, <1>15

\* Behind an interface comes the next one, if there are more.
LEMMA NextInterface ==
  ASSUME CallType, NEW m \in 1 .. Cardinality(Firsts), NEW f, f = Ordered(Firsts)[m]
  PROVE  /\ f \in Firsts /\ f \in 1 .. Len(raw.body) /\ Cardinality(Firsts) \in Nat
         /\ m < Cardinality(Firsts) =>
              After(f, Firsts) \in Firsts /\ After(f, Firsts) = Ordered(Firsts)[m + 1]
         /\ m = Cardinality(Firsts) => After(f, Firsts) = Len(raw.body) + 1
<1>1. Firsts \in SUBSET (1 .. Len(raw.body)) /\ Len(raw.body) \in Nat
  BY PositionSets, EndsFacts DEF CallType
<1>2. f \in Firsts /\ Rank(f, Firsts) = m
  BY <1>1, OrderedFacts
<1>3. f \in 0 .. Len(raw.body) /\ f \in 1 .. Len(raw.body)
  BY <1>1, <1>2
<1>4. After(f, Firsts) = Len(raw.body) + 1 \/ After(f, Firsts) \in Firsts
  BY <1>1, <1>3, AfterFacts
<1>5. /\ Cardinality(Firsts) \in Nat
      /\ After(f, Firsts) \in Firsts <=> m < Cardinality(Firsts)
      /\ After(f, Firsts) \in Firsts => Ordered(Firsts)[m + 1] = After(f, Firsts)
  BY <1>1, <1>2, <1>3, NextOrdered
<1> QED
  BY <1>2, <1>3, <1>4, <1>5
-----------------------------------------------------------------------------
(* What the next configuration keeps of what was understood *)

LEMMA StandsStill ==
  ASSUME UNCHANGED raw
  PROVE  /\ \A d, m : Finished(d, m)' <=> Finished(d, m)
         /\ \A d, f, n : InInterface(d, f, n)' <=> InInterface(d, f, n)
         /\ \A d, p, n : AtSetting(d, p, n)' <=> AtSetting(d, p, n)
<1>1. /\ Firsts' = Firsts /\ Meaning' = Meaning /\ Ordered(Firsts)' = Ordered(Firsts)
      /\ \A p : /\ SettingsOf(p)' = SettingsOf(p) /\ EndpointsOf(p)' = EndpointsOf(p)
                /\ InterfaceAt(p)' = InterfaceAt(p) /\ SettingAt(p)' = SettingAt(p)
                /\ EndpointAt(p)' = EndpointAt(p)
                /\ Ordered(SettingsOf(p))' = Ordered(SettingsOf(p))
                /\ Ordered(EndpointsOf(p))' = Ordered(EndpointsOf(p))
  BY MeaningKept
<1>2. \A d, m : Finished(d, m)' <=> Finished(d, m)
  BY <1>1 DEF Finished
<1>3. \A d, f, n : InInterface(d, f, n)' <=> InInterface(d, f, n)
  BY <1>1, <1>2 DEF InInterface
<1>4. \A d, p, n : AtSetting(d, p, n)' <=> AtSetting(d, p, n)
  BY <1>1, <1>3 DEF AtSetting
<1> QED
  BY <1>2, <1>3, <1>4

\* The last interface has changed: of the settings, n are still as they should
\* be.
LEMMA InterfaceContinues ==
  ASSUME NEW c, NEW d, SameBut(c, d), NEW f, NEW i, NEW n, InInterface(c, f, i),
         \A k \in 1 .. n : Last(d.ifaces)[k] = SettingAt(Ordered(SettingsOf(f))[k])
  PROVE  InInterface(d, f, n)
<1>1. /\ d.extra = c.extra /\ Len(d.ifaces) = Len(c.ifaces)
      /\ \A j \in 1 .. Len(c.ifaces) - 1 : d.ifaces[j] = c.ifaces[j]
  BY DEF SameBut
<1>2. Finished(c, Len(c.ifaces) - 1) /\ c.extra = Meaning.extra
      /\ Len(c.ifaces) \in 1 .. Cardinality(Firsts) /\ f = Ordered(Firsts)[Len(c.ifaces)]
  BY DEF InInterface
<1>3. Finished(d, Len(d.ifaces) - 1)
  BY <1>1, <1>2 DEF Finished
<1> QED
  BY <1>1, <1>2, <1>3 DEF InInterface

\* The last setting has changed: of the endpoints, n are as they should be.
LEMMA SettingContinues ==
  ASSUME NEW c, NEW d, SameBut(c, d), NEW p, NEW i, NEW n, AtSetting(c, p, i),
         Len(Last(d.ifaces)) = Len(Last(c.ifaces)),
         \A k \in 1 .. Len(Last(c.ifaces)) - 1 : Last(d.ifaces)[k] = Last(c.ifaces)[k],
         NEW a, a = Last(Last(d.ifaces)), a.num = Last(Last(c.ifaces)).num,
         \A j \in 1 .. n : a.eps[j] = EndpointAt(Ordered(EndpointsOf(p))[j])
  PROVE  AtSetting(d, p, n)
<1> DEFINE k == Len(Last(c.ifaces))
<1>1. PICK f \in Firsts :
        /\ InInterface(c, f, k - 1)
        /\ k \in 1 .. Cardinality(SettingsOf(f)) /\ p = Ordered(SettingsOf(f))[k]
        /\ Last(Last(c.ifaces)).num = raw.body[p].num
  BY DEF AtSetting
<1>2. \A l \in 1 .. k - 1 : Last(d.ifaces)[l] = SettingAt(Ordered(SettingsOf(f))[l])
  BY <1>1 DEF InInterface
<1>3. InInterface(d, f, k - 1)
  <2> HIDE DEF k
  <2> QED
    BY <1>1, <1>2, InterfaceContinues
<1> QED
  BY <1>1, <1>3 DEF AtSetting
-----------------------------------------------------------------------------
(* Every step understands what it reads *)

LEMMA FaithStart ==
  ParserInit => FaithInv
BY DEF ParserInit, FaithInv, Understood

\* Something has failed, and all is given up.
LEMMA FaithErr ==
  ASSUME ParserInv, Fails, place' = "done", result' = "error"
  PROVE  FaithInv'
<1>1. failures \in Nat /\ failures' = failures + 1
  BY LimitsAssumption DEF ParserInv, ParserPlace, Fails
<1>2. failures' > 0
  BY <1>1
<1> QED
  BY <1>2 DEF FaithInv, Understood

LEMMA FaithGetActiveConfig ==
  ParserInv /\ FaithInv /\ GetActiveConfig => FaithInv'
<1> SUFFICES ASSUME ParserInv, FaithInv, GetActiveConfig PROVE FaithInv'
  OBVIOUS
<1>1. place = "start" /\ UNCHANGED <<input, buffer, conf>>
  BY DEF GetActiveConfig
<1>2. CASE Fails /\ Return("error")
  BY <1>2, FaithErr DEF Return
<1>3. CASE malloc /\ place' = "configuration" /\ UNCHANGED result
  <2>1. WellFormed' <=> WellFormed
    BY <1>1, BodyKept, MeaningKept
  <2>2. extra' = extra /\ failures' = failures
    BY <1>1, <1>3 DEF buffer, malloc
  <2> QED
    BY <1>1, <1>3, <2>1, <2>2 DEF FaithInv, Understood
<1> QED
  BY <1>2, <1>3 DEF GetActiveConfig

LEMMA FaithConfiguration ==
  ParserInv /\ FaithInv /\ Configuration => FaithInv'
<1> SUFFICES ASSUME ParserInv, FaithInv, Configuration PROVE FaithInv'
  OBVIOUS
<1>1. place = "configuration" /\ UNCHANGED <<input, conf>>
  BY DEF Configuration
<1>2. CASE Fails /\ Return("error")
  BY <1>2, FaithErr DEF Return
<1>3. CASE ~ (Fails /\ Return("error"))
  <2>1. raw' = raw /\ (WellFormed' <=> WellFormed)
    BY <1>1, BodyKept, MeaningKept
  <2> SUFFICES ASSUME WellFormed PROVE Understood'
    BY <2>1 DEF FaithInv
  <2>2. /\ raw.num = Cardinality(Firsts) /\ raw.num \in Nat /\ raw.num <= MaxInterfaces
        /\ raw.num = 0 => Meaning = NoConf
    BY FirstInterface DEF ParserInv
  <2>3. MaxInterfaces \in Nat
    BY LimitsAssumption
  <2>4. /\ malloc /\ pos' = 1 /\ place' = (IF raw.num = 0 THEN "left" ELSE "skip")
        /\ UNCHANGED <<extra, result>>
    BY <1>3, <2>2, <2>3 DEF Configuration
  <2>5. extra = 0 /\ conf' = NoConf /\ (result' = "error" => failures' > 0)
    BY <1>1, <2>4 DEF FaithInv, Understood, ParserInv, Shape, malloc
  <2>6. Meaning' = Meaning
    BY <2>1, MeaningKept
  <2>7. AtSkip'
    <3>1. Passing(0)'
      <4>1. 0 \in 0 .. Len(raw.body) /\ pos' = 0 + 1 /\ extra' = 0
        BY <2>4, <2>5, EndsFacts DEF ParserInv, CallType
      <4> QED
        BY <2>1, <4>1, PassingNothing DEF ParserInv
    <3>2. Len(conf'.ifaces) = 0 /\ conf'.extra = 0
      BY <2>5 DEF NoConf
    <3>3. Finished(conf, 0)'
      BY DEF Finished
    <3> QED
      BY <3>1, <3>2, <3>3 DEF AtSkip
  <2> QED
    BY <2>2, <2>4, <2>5, <2>6, <2>7 DEF Understood
<1> QED
  BY <1>2, <1>3

LEMMA FaithParsed ==
  ParserInv /\ FaithInv /\ Parsed => FaithInv'
<1> SUFFICES ASSUME ParserInv, FaithInv, Parsed PROVE FaithInv'
  OBVIOUS
<1>1. place = "left" /\ UNCHANGED <<input, buffer, conf, failures>>
  BY DEF Parsed
<1>2. raw' = raw /\ (WellFormed' <=> WellFormed) /\ Meaning' = Meaning
  BY <1>1, BodyKept, MeaningKept
<1> SUFFICES ASSUME WellFormed PROVE Understood'
  BY <1>2 DEF FaithInv
<1>3. ~ (size < 0)
  <2>1. pos > 0
    BY <1>1 DEF ParserInv, Shape
  <2>2. size = 0 \/ size >= 2
    BY <2>1, WellLeft DEF ParserInv, Readable
  <2> QED
    BY <2>2 DEF ParserInv, BufferType
<1>4. result' = "ok" /\ place' \in {"got", "find"}
  BY <1>3 DEF Parsed
<1> QED
  BY <1>1, <1>2, <1>4 DEF FaithInv, Understood

LEMMA FaithFree ==
  ParserInv /\ FaithInv /\ libusb_free_config_descriptor => FaithInv'
<1> SUFFICES ASSUME FaithInv, libusb_free_config_descriptor PROVE FaithInv'
  OBVIOUS
<1>1. UNCHANGED <<input, result, failures>> /\ place' = "done"
  BY DEF libusb_free_config_descriptor
<1>2. WellFormed' <=> WellFormed
  BY <1>1, BodyKept, MeaningKept
<1> QED
  BY <1>1, <1>2 DEF FaithInv, Understood

LEMMA FaithGetMaxPacketSize ==
  ParserInv /\ FaithInv /\ GetMaxPacketSize => FaithInv'
<1> SUFFICES ASSUME FaithInv, GetMaxPacketSize PROVE FaithInv'
  OBVIOUS
<1>1. result' \in {"missing", "ok", "crashed"} /\ place' = "done"
  BY DEF GetMaxPacketSize, Return, find_endpoint
<1> QED
  BY <1>1 DEF FaithInv, Understood

LEMMA FaithSkip ==
  ParserInv /\ FaithInv /\ Skip => FaithInv'
<1> SUFFICES ASSUME ParserInv, FaithInv, Skip PROVE FaithInv'
  OBVIOUS
<1>1. place \in {"skip", "iskip", "eskip"} /\ Readable /\ malloc
  BY DEF Skip, malloc
<1>2. raw' = raw /\ (WellFormed' <=> WellFormed)
  <2>1. UNCHANGED input
    BY DEF Skip, Err
  <2> QED
    BY <2>1, BodyKept, MeaningKept
<1> SUFFICES ASSUME WellFormed PROVE Understood'
  BY <1>2 DEF FaithInv
<1>3. /\ CallType /\ BufferType /\ SizeLeft /\ pos > 0 /\ Len(raw.body) \in Nat
      /\ conf \in Confs /\ (place # "skip" => Alt \in Alts)
  BY <1>1, EndsFacts, SettingFacts DEF ParserInv, Shape, CallType, ConfType, InSetting
<1>4. pos \in 1 .. Len(raw.body) /\ Header = raw.body[pos] /\ ~Bad
  BY <1>1, <1>3, WellLeft
<1>5. /\ ~Proper /\ Advance(Header) /\ extra' = extra + Header.len
      /\ UNCHANGED <<input, place, conf, blocks, result, failures>>
  BY <1>1, <1>4 DEF Skip, malloc
<1>6. pos' = pos + 1
  <2>1. Header.len \in Nat /\ Header.len >= 2
    BY <1>3, <1>4, WellFacts
  <2> QED
    BY <1>5, <2>1 DEF Advance
<1>7. ASSUME NEW h \in 0 .. Len(raw.body), Passing(h)
      PROVE  Passing(h)'
  BY <1>2, <1>3, <1>4, <1>5, <1>6, <1>7, PassingOn
<1>8. /\ Alt' = Alt /\ Len(Alt.eps)' = Len(Alt.eps) /\ InterfaceStarts' = InterfaceStarts
      /\ \A p : /\ EndpointsOf(p)' = EndpointsOf(p) /\ After(p, Heads)' = After(p, Heads)
                /\ Ordered(EndpointsOf(p))' = Ordered(EndpointsOf(p))
      /\ \A p, q : Run(p, q)' = Run(p, q)
  BY <1>2, <1>5, MeaningKept DEF Alt, Iface
<1>9. \A p, n : AtSetting(conf, p, n)' <=> AtSetting(conf, p, n)
  BY <1>2, <1>5, StandsStill
<1>10. CASE place = "skip"
  <2>1. AtSkip
    BY <1>10 DEF FaithInv, Understood
  <2>2. Len(conf.ifaces) = 0
    <3> SUFFICES ASSUME Len(conf.ifaces) # 0 PROVE FALSE
      OBVIOUS
    <3>1. pos = Ordered(Firsts)[Len(conf.ifaces) + 1]
      BY <2>1 DEF AtSkip
    <3>2. Len(conf.ifaces) < raw.num /\ Len(conf.ifaces) \in Nat
      BY <1>3, <1>10, LenProperties DEF ParserInv, Shape, Confs
    <3>3. raw.num = Cardinality(Firsts) /\ Cardinality(Firsts) \in Nat
      BY <1>3, FirstInterface
    <3>4. Len(conf.ifaces) + 1 \in 1 .. Cardinality(Firsts)
      BY <3>2, <3>3
    <3>5. pos \in Firsts
      BY <1>3, <3>1, <3>4, NextInterface
    <3>6. Header.type = "interface"
      BY <1>3, <1>4, <3>5, WellFacts DEF Firsts
    <3> QED
      BY <1>5, <3>6 DEF Proper
  <2>3. AtSkip'
    <3>1. Passing(0)'
      <4>1. Passing(0) /\ 0 \in 0 .. Len(raw.body)
        BY <1>3, <2>1, <2>2 DEF AtSkip
      <4> QED
        BY <1>7, <4>1
    <3>2. Len(conf'.ifaces) = 0 /\ conf'.extra = 0
      BY <1>5, <2>1, <2>2 DEF AtSkip
    <3>3. Finished(conf, 0)'
      BY DEF Finished
    <3> QED
      BY <3>1, <3>2, <3>3 DEF AtSkip
  <2> QED
    BY <1>5, <1>10, <2>3 DEF FaithInv, Understood
<1>11. CASE place = "iskip"
  <2>1. PICK p \in InterfaceStarts : AtSetting(conf, p, 0) /\ Passing(p)
    BY <1>11 DEF FaithInv, Understood, AtInterfaceSkip
  <2>2. p \in 0 .. Len(raw.body)
    BY <1>3, <2>1, PositionSets
  <2>3. AtSetting(conf, p, 0)' /\ Passing(p)' /\ p \in InterfaceStarts'
    BY <1>7, <1>8, <1>9, <2>1, <2>2
  <2>4. AtInterfaceSkip'
    BY <2>3 DEF AtInterfaceSkip
  <2> QED
    BY <1>5, <1>11, <2>4 DEF FaithInv, Understood
<1>12. CASE place = "eskip"
  <2> DEFINE e == Len(Alt.eps)
  <2>1. PICK p \in InterfaceStarts :
          /\ AtSetting(conf, p, e - 1) /\ e \in 1 .. Cardinality(EndpointsOf(p))
          /\ Alt.extra = Run(p, After(p, Heads))
          /\ Alt.eps[e].addr = raw.body[Ordered(EndpointsOf(p))[e]].addr
          /\ Passing(Ordered(EndpointsOf(p))[e])
    BY <1>12 DEF FaithInv, Understood, AtEndpointSkip
  <2>2. PICK q : q = Ordered(EndpointsOf(p))[e]
    OBVIOUS
  <2>3. q \in 0 .. Len(raw.body)
    <3>1. e \in 0 .. Cardinality(EndpointsOf(p)) /\ e # 0
      BY <2>1
    <3>2. q \in 1 .. Len(raw.body)
      <4> HIDE DEF e
      <4> QED
        BY <1>3, <2>1, <2>2, <3>1, NextEndpoint
    <3> QED
      BY <3>2
  <2>4. Passing(q)'
    BY <1>7, <2>1, <2>2, <2>3
  <2>5. PICK n : n = e
    OBVIOUS
  <2>6. AtSetting(conf, p, n - 1)'
    BY <1>9, <2>1, <2>5
  <2>7. /\ e' = n /\ Ordered(EndpointsOf(p))'[n] = q /\ Alt' = Alt
        /\ Cardinality(EndpointsOf(p))' = Cardinality(EndpointsOf(p))
        /\ Run(p, After(p, Heads))' = Run(p, After(p, Heads))
    BY <1>8, <2>2, <2>5
  <2>8. AtEndpointSkip'
    BY <1>2, <1>8, <2>1, <2>2, <2>4, <2>5, <2>6, <2>7 DEF AtEndpointSkip
  <2> QED
    BY <1>5, <1>12, <2>8 DEF FaithInv, Understood
<1> QED
  BY <1>1, <1>10, <1>11, <1>12

LEMMA FaithSkippedConfig ==
  ParserInv /\ FaithInv /\ SkippedConfig => FaithInv'
<1> SUFFICES ASSUME ParserInv, FaithInv, SkippedConfig PROVE FaithInv'
  OBVIOUS
<1> DEFINE keep == extra > 0 /\ conf.extra = 0
           x == IF keep THEN extra ELSE conf.extra
           m == Len(conf.ifaces)
<1>1. place = "skip" /\ Skipped
  BY DEF SkippedConfig
<1>2. CASE Fails /\ Err
  BY <1>2, FaithErr DEF Err, Return
<1>3. CASE ~ (Fails /\ Err)
  <2>1. /\ malloc /\ conf' = [extra |-> x, ifaces |-> Append(conf.ifaces, <<>>)]
        /\ extra' = 0 /\ place' = "altsetting" /\ UNCHANGED <<input, pos, size, result>>
    BY <1>3 DEF SkippedConfig
  <2>2. raw' = raw /\ (WellFormed' <=> WellFormed)
    BY <2>1, BodyKept, MeaningKept
  <2> SUFFICES ASSUME WellFormed PROVE Understood'
    BY <2>2 DEF FaithInv
  <2>3. /\ conf \in Confs /\ extra \in Nat /\ conf.extra \in Nat /\ x \in Nat
        /\ m \in Nat /\ m < raw.num /\ pos > 0 /\ CallType /\ Len(raw.body) \in Nat
    BY <1>1, LenProperties, EndsFacts DEF ParserInv, ConfType, Confs, BufferType, Shape, CallType
  <2>4. /\ raw.num = Cardinality(Firsts) /\ Cardinality(Firsts) \in Nat
        /\ Cardinality(Firsts) > 0 =>
             After(0, Heads) = Ordered(Firsts)[1] /\ Meaning.extra = Run(0, After(0, Heads))
    BY <2>3, FirstInterface
  <2>5. m + 1 \in 1 .. Cardinality(Firsts)
    BY <2>3, <2>4
  <2>6. AtSkip
    BY <1>1 DEF FaithInv, Understood
  <2>7. x = Meaning.extra /\ pos = Ordered(Firsts)[m + 1]
    <3>1. CASE m = 0
      <4>1. 0 \in 0 .. Len(raw.body) /\ Passing(0) /\ conf.extra = 0
        BY <2>3, <2>6, <3>1 DEF AtSkip
      <4>2. pos = After(0, Heads) /\ extra = Run(0, After(0, Heads))
        BY <1>1, <2>3, <4>1, PassedOver DEF ParserInv
      <4>3. x = extra
        BY <2>3, <4>1
      <4> HIDE DEF x
      <4> QED
        BY <2>4, <2>5, <3>1, <4>2, <4>3
    <3>2. CASE m # 0
      BY <2>6, <3>2 DEF AtSkip
    <3> QED
      BY <3>1, <3>2
  <2>8. PICK d : d = conf'
    OBVIOUS
  <2> HIDE DEF x
  <2>9. /\ d \in Confs /\ d.extra = x /\ Len(d.ifaces) = m + 1 /\ Last(d.ifaces) = <<>>
        /\ \A i \in 1 .. m : d.ifaces[i] = conf.ifaces[i]
    <3>1. d = [extra |-> x, ifaces |-> Append(conf.ifaces, <<>>)] /\ conf \in Confs /\ x \in Nat
      BY <2>1, <2>3, <2>8
    <3> HIDE DEF m
    <3>2. /\ d \in Confs /\ d.extra = x /\ Len(d.ifaces) = Len(conf.ifaces) + 1
          /\ Last(d.ifaces) = <<>>
          /\ \A i \in 1 .. Len(conf.ifaces) : d.ifaces[i] = conf.ifaces[i]
      BY <3>1, AddIfaceFacts
    <3> QED
      BY <3>2 DEF m
  <2>10. PICK f : f = Ordered(Firsts)[m + 1]
    OBVIOUS
  <2>11. f \in Firsts
    BY <2>3, <2>5, <2>10, NextInterface
  <2>12. InInterface(d, f, 0)
    <3>1. Finished(d, (m + 1) - 1)
      <4>1. (m + 1) - 1 = m
        BY <2>3
      <4> QED
        BY <2>6, <2>9, <4>1 DEF AtSkip, Finished
    <3> QED
      BY <2>5, <2>7, <2>9, <2>10, <3>1 DEF InInterface
  <2>13. 0 + 1 \in 1 .. Cardinality(SettingsOf(f)) /\ pos = Ordered(SettingsOf(f))[0 + 1]
    BY <2>3, <2>7, <2>10, <2>11, FirstSetting
  <2>14. AtAltsetting'
    <3>1. Iface' = <<>>
      BY <2>8, <2>9 DEF Iface
    <3>2. Len(Iface)' = 0
      BY <3>1
    <3>3. InInterface(conf, f, 0)'
      BY <2>2, <2>8, <2>12, StandsStill
    <3>4. /\ Firsts' = Firsts /\ SettingsOf(f)' = SettingsOf(f)
          /\ Ordered(SettingsOf(f))' = Ordered(SettingsOf(f))
      BY <2>2, MeaningKept
    <3> QED
      BY <2>1, <2>11, <2>13, <3>2, <3>3, <3>4 DEF AtAltsetting
  <2>15. result' = "error" => failures' > 0
    BY <2>1 DEF FaithInv, Understood, malloc
  <2> QED
    BY <2>1, <2>14, <2>15 DEF Understood
<1> QED
  BY <1>2, <1>3

LEMMA FaithAltsetting ==
  ParserInv /\ FaithInv /\ Altsetting => FaithInv'
<1> SUFFICES ASSUME ParserInv, FaithInv, Altsetting PROVE FaithInv'
  OBVIOUS
<1> DEFINE a == [num |-> Header.num, eps |-> <<>>, extra |-> 0, backed |-> FALSE]
           k == Len(Iface)
<1>1. place = "altsetting"
  BY DEF Altsetting
<1>2. raw' = raw /\ (WellFormed' <=> WellFormed)
  <2>1. UNCHANGED input
    BY DEF Altsetting, Err
  <2> QED
    BY <2>1, BodyKept, MeaningKept
<1> SUFFICES ASSUME WellFormed PROVE Understood'
  BY <1>2 DEF FaithInv
<1>3. CASE Fails /\ Err
  <2>1. FaithInv'
    BY <1>3, FaithErr DEF Err, Return
  <2> QED
    BY <1>2, <2>1 DEF FaithInv
<1>4. CASE ~ (Fails /\ Err)
  <2>1. /\ conf \in Confs /\ conf.ifaces # <<>> /\ CallType /\ BufferType /\ SizeLeft /\ pos > 0
        /\ size \in Int /\ Len(raw.body) \in Nat
    BY <1>1, EndsFacts DEF ParserInv, Shape, InSetting, ConfType, BufferType, CallType
  <2>2. PICK f \in Firsts :
          /\ InInterface(conf, f, k) /\ k + 1 \in 1 .. Cardinality(SettingsOf(f))
          /\ pos = Ordered(SettingsOf(f))[k + 1]
    BY <1>1 DEF FaithInv, Understood, AtAltsetting
  <2>3. extra = 0
    BY <1>1 DEF FaithInv, Understood, AtAltsetting
  <2>4. pos \in InterfaceStarts /\ pos \in 1 .. Len(raw.body)
    <3>1. pos \in InterfaceStarts
      <4> HIDE DEF k
      <4> QED
        BY <2>1, <2>2, NextSetting
    <3> QED
      BY <2>1, <3>1, PositionSets
  <2>5. Header = raw.body[pos] /\ Header.len = 9 /\ Header.len <= size /\ Header \in Descriptor
    <3>1. pos # Len(raw.body) + 1
      BY <2>1, <2>4
    <3> QED
      BY <2>1, <2>4, <3>1, WellLeft, WellFacts, EndsFacts DEF CallType
  <2>6. /\ malloc /\ conf' = SetIface(Append(Iface, a)) /\ Advance(Header) /\ place' = "iskip"
        /\ UNCHANGED <<input, extra, result>>
    BY <1>4, <2>1, <2>5 DEF Altsetting
  <2>7. pos' = pos + 1
    BY <2>5, <2>6 DEF Advance
  <2>8. a \in Alts /\ a.eps = <<>> /\ a.extra = 0 /\ a.backed = FALSE /\ a.num = Header.num
    BY <2>5 DEF Alts, Descriptor
  <2> HIDE DEF a
  <2>9. PICK d : d = conf'
    OBVIOUS
  <2>10. /\ SameBut(conf, d) /\ Last(Last(d.ifaces)) = a /\ Len(Last(d.ifaces)) = k + 1
         /\ \A l \in 1 .. k : Last(d.ifaces)[l] = Iface[l]
    <3>1. clear_altsetting(a) = 0
      BY <2>8, AltFilled DEF One
    <3> QED
      BY <2>1, <2>6, <2>8, <2>9, <3>1, AddAltFacts
  <2>11. InInterface(d, f, k)
    <3>1. \A l \in 1 .. k : Last(d.ifaces)[l] = SettingAt(Ordered(SettingsOf(f))[l])
      BY <2>2, <2>10 DEF InInterface, Iface
    <3> HIDE DEF k
    <3> QED
      BY <2>2, <2>10, <3>1, InterfaceContinues
  <2>12. AtSetting(d, pos, 0)
    <3>1. k \in Nat
      BY <2>1, IfaceType, LenProperties
    <3>2. (k + 1) - 1 = k
      BY <3>1
    <3>3. \A j \in 1 .. 0 : a.eps[j] = EndpointAt(Ordered(EndpointsOf(pos))[j])
      OBVIOUS
    <3> QED
      BY <2>2, <2>5, <2>8, <2>10, <2>11, <3>2, <3>3 DEF AtSetting
  <2>13. AtInterfaceSkip'
    <3>1. PICK p \in InterfaceStarts : p = pos
      BY <2>4
    <3>2. Passing(p)'
      <4>1. p \in 0 .. Len(raw.body) /\ pos' = p + 1 /\ extra' = 0
        BY <2>3, <2>4, <2>6, <2>7, <3>1
      <4> QED
        BY <1>2, <2>1, <4>1, PassingNothing
    <3>3. AtSetting(conf, p, 0)'
      BY <1>2, <2>9, <2>12, <3>1, StandsStill
    <3>4. p \in InterfaceStarts'
      BY <1>2, MeaningKept
    <3> QED
      BY <3>2, <3>3, <3>4 DEF AtInterfaceSkip
  <2>14. result' = "error" => failures' > 0
    BY <2>6 DEF FaithInv, Understood, malloc
  <2> QED
    BY <2>6, <2>13, <2>14 DEF Understood
<1> QED
  BY <1>3, <1>4

\* The setting at p has as many endpoints as it says.
LEMMA SettingKnown ==
  ASSUME ParserInv, WellFormed, place \in InSetting, NEW p \in InterfaceStarts, NEW n,
         AtSetting(conf, p, n)
  PROVE  /\ p \in 1 .. Len(raw.body) /\ Cardinality(EndpointsOf(p)) \in Nat
         /\ Alt.num = raw.body[p].num /\ Alt.num = Cardinality(EndpointsOf(p))
         /\ Alt.num <= MaxEndpoints
<1>1. p \in 1 .. Len(raw.body) /\ EndpointsOf(p) \in SUBSET (1 .. Len(raw.body))
      /\ Len(raw.body) \in Nat
  BY PositionSets, EndsFacts DEF ParserInv, CallType
<1>2. Cardinality(EndpointsOf(p)) \in Nat
  BY <1>1, RankFacts
<1>3. raw.body[p].num = Cardinality(EndpointsOf(p)) /\ raw.body[p].num <= MaxEndpoints
  BY <1>1, WellFacts DEF ParserInv
<1>4. Alt.num = raw.body[p].num
  BY DEF AtSetting, Alt, Iface
<1> QED
  BY <1>1, <1>2, <1>3, <1>4

\* The setting at p is filled on.
LEMMA SettingFilled ==
  ASSUME ParserInv, place \in InSetting, UNCHANGED raw, NEW p, NEW i, AtSetting(conf, p, i),
         NEW a \in Alts, a.num = Alt.num, conf' = SetAlt(a), NEW n,
         \A j \in 1 .. n : a.eps[j] = EndpointAt(Ordered(EndpointsOf(p))[j])
  PROVE  AtSetting(conf, p, n)' /\ Alt' = a
<1>1. conf \in Confs /\ conf.ifaces # <<>> /\ Iface # <<>>
  BY SettingFacts
<1>2. PICK d : d = conf'
  OBVIOUS
<1>3. /\ SameBut(conf, d) /\ Last(Last(d.ifaces)) = a /\ Len(Last(d.ifaces)) = Len(Iface)
      /\ \A k \in 1 .. Len(Iface) - 1 : Last(d.ifaces)[k] = Iface[k]
  BY <1>1, <1>2, SetAltFacts
<1>4. AtSetting(d, p, n)
  BY <1>3, SettingContinues DEF Alt, Iface
<1>5. AtSetting(conf, p, n)'
  BY <1>2, <1>4, StandsStill
<1>6. Alt' = a
  BY <1>2, <1>3 DEF Alt, Iface
<1> QED
  BY <1>5, <1>6

LEMMA FaithSkippedInterface ==
  ParserInv /\ FaithInv /\ SkippedInterface => FaithInv'
<1> SUFFICES ASSUME ParserInv, FaithInv, SkippedInterface PROVE FaithInv'
  OBVIOUS
<1> DEFINE ended == Readable /\ Header.type \in {"config", "device"}
           more == ~ended /\ Alt.num > 0
           a == [Alt EXCEPT !.extra = extra, !.backed = more]
<1>1. place = "iskip" /\ Skipped /\ place \in InSetting
  BY DEF SkippedInterface, InSetting
<1>2. raw' = raw /\ (WellFormed' <=> WellFormed)
  <2>1. UNCHANGED input
    BY DEF SkippedInterface, Err
  <2> QED
    BY <2>1, BodyKept, MeaningKept
<1> SUFFICES ASSUME WellFormed PROVE Understood'
  BY <1>2 DEF FaithInv
<1>3. CASE Fails /\ Err
  <2>1. FaithInv'
    BY <1>3, FaithErr DEF Err, Return
  <2> QED
    BY <1>2, <2>1 DEF FaithInv
<1>4. CASE ~ (Fails /\ Err)
  <2>1. /\ CallType /\ BufferType /\ SizeLeft /\ pos > 0 /\ Alt \in Alts /\ extra \in Nat
        /\ Alt.num \in Nat /\ Alt.eps = <<>>
    BY <1>1, SettingFacts DEF ParserInv, Shape
  <2>2. PICK p \in InterfaceStarts : AtSetting(conf, p, 0) /\ Passing(p)
    BY <1>1 DEF FaithInv, Understood, AtInterfaceSkip
  <2>3. /\ p \in 1 .. Len(raw.body) /\ Cardinality(EndpointsOf(p)) \in Nat
        /\ Alt.num = raw.body[p].num /\ Alt.num <= MaxEndpoints
    BY <1>1, <2>2, SettingKnown
  <2>4. ~ended
    <3> SUFFICES ASSUME ended PROVE FALSE
      OBVIOUS
    <3>1. pos \in 1 .. Len(raw.body) /\ Header = raw.body[pos]
      BY <2>1, WellLeft
    <3> QED
      BY <2>1, <3>1, WellFacts
  <2>5. MaxEndpoints \in Nat
    BY LimitsAssumption
  <2>6. /\ malloc /\ conf' = SetAlt(a) /\ extra' = 0 /\ UNCHANGED <<input, pos, size, result>>
        /\ place' = "endpoint"
    BY <1>4, <2>1, <2>3, <2>4, <2>5 DEF SkippedInterface
  <2>7. more \in BOOLEAN
    OBVIOUS
  <2> HIDE DEF more
  <2>8. a \in Alts /\ a.eps = <<>> /\ a.extra = extra /\ a.num = Alt.num
    BY <2>1, <2>7 DEF Alts
  <2> HIDE DEF a
  <2>9. AtSetting(conf, p, 0)' /\ Alt' = a
    <3>1. \A j \in 1 .. 0 : a.eps[j] = EndpointAt(Ordered(EndpointsOf(p))[j])
      OBVIOUS
    <3> QED
      BY <1>1, <1>2, <2>2, <2>6, <2>8, <3>1, SettingFilled
  <2>10. pos = After(p, Heads) /\ extra = Run(p, After(p, Heads))
    <3>1. p \in 0 .. Len(raw.body)
      BY <2>3
    <3> QED
      BY <1>1, <2>1, <2>2, <3>1, PassedOver
  <2>11. AtEndpoint'
    <3>1. Len(Alt.eps)' = 0
      BY <2>8, <2>9
    <3>2. /\ p \in InterfaceStarts' /\ EndpointsOf(p)' = EndpointsOf(p)
          /\ After(p, Heads)' = After(p, Heads)
      BY <1>2, <2>2, MeaningKept
    <3>3. Run(p, After(p, Heads))' = Run(p, After(p, Heads))
      <4>1. \A q : Run(p, q)' = Run(p, q)
        BY <1>2, MeaningKept
      <4> QED
        BY <3>2, <4>1
    <3>4. AtSetting(conf, p, Len(Alt.eps))'
      BY <2>9, <3>1
    <3>5. 0 \in 0 .. Cardinality(EndpointsOf(p))'
      BY <2>3, <3>2
    <3>6. Alt'.extra = Run(p, After(p, Heads))' /\ extra' = 0 /\ pos' = After(p, Heads)'
      BY <2>6, <2>8, <2>9, <2>10, <3>2, <3>3
    <3> QED
      BY <3>1, <3>2, <3>4, <3>5, <3>6 DEF AtEndpoint
  <2>12. result' = "error" => failures' > 0
    BY <2>6 DEF FaithInv, Understood, malloc
  <2> QED
    BY <2>6, <2>11, <2>12 DEF Understood
<1> QED
  BY <1>3, <1>4

LEMMA FaithEndpoint ==
  ParserInv /\ FaithInv /\ Endpoint => FaithInv'
<1> SUFFICES ASSUME ParserInv, FaithInv, Endpoint PROVE FaithInv'
  OBVIOUS
<1>0. PICK e : e = Len(Alt.eps)
  OBVIOUS
<1>1. place = "endpoint" /\ e < Alt.num /\ malloc /\ place \in InSetting
  BY <1>0 DEF Endpoint, InSetting
<1>2. raw' = raw /\ (WellFormed' <=> WellFormed)
  <2>1. UNCHANGED input
    BY DEF Endpoint, Err
  <2> QED
    BY <2>1, BodyKept, MeaningKept
<1> SUFFICES ASSUME WellFormed PROVE Understood'
  BY <1>2 DEF FaithInv
<1>3. /\ CallType /\ BufferType /\ SizeLeft /\ pos > 0 /\ Alt \in Alts /\ size \in Int
      /\ Alt.num \in Nat /\ e \in Nat /\ Alt.eps \in Seq(Endpts) /\ Len(raw.body) \in Nat
  BY <1>0, <1>1, SettingFacts, EndsFacts DEF ParserInv, CallType
<1>4. PICK p \in InterfaceStarts :
        /\ AtSetting(conf, p, e) /\ e \in 0 .. Cardinality(EndpointsOf(p)) /\ extra = 0
        /\ Alt.extra = Run(p, After(p, Heads))
        /\ pos = After(IF e = 0 THEN p ELSE Ordered(EndpointsOf(p))[e], Heads)
  BY <1>0, <1>1 DEF FaithInv, Understood, AtEndpoint
<1>5. /\ p \in 1 .. Len(raw.body) /\ Cardinality(EndpointsOf(p)) \in Nat
      /\ Alt.num = Cardinality(EndpointsOf(p))
  BY <1>1, <1>4, SettingKnown
<1>6. PICK q : q = pos
  OBVIOUS
<1>7. q \in EndpointsOf(p) /\ q = Ordered(EndpointsOf(p))[e + 1]
  <2>1. PICK h : h = IF e = 0 THEN p ELSE Ordered(EndpointsOf(p))[e]
    OBVIOUS
  <2> QED
    BY <1>1, <1>3, <1>4, <1>5, <1>6, <2>1, NextEndpoint
<1>8. q \in 1 .. Len(raw.body) /\ q \in Positions("endpoint")
  BY <1>3, <1>7, PositionSets DEF EndpointsOf
<1>9. /\ Header = raw.body[q] /\ Readable /\ ~TooLong /\ Header.type = "endpoint"
      /\ Header.len >= 7 /\ Header \in Descriptor
  <2>1. pos # Len(raw.body) + 1
    BY <1>3, <1>6, <1>8
  <2> QED
    BY <1>3, <1>6, <1>8, <2>1, WellLeft, WellFacts, EndsFacts DEF CallType
<1> DEFINE x == [Zeroed EXCEPT !.addr = Header.addr]
           b == [Alt EXCEPT !.eps = Append(@, x)]
<1>10. /\ conf' = SetAlt(b) /\ UNCHANGED <<input, blocks, result>>
       /\ Advance(Header) /\ place' = "eskip" /\ extra' = extra
  <2>1. ~ (size \in 0 .. 1)
    BY <1>3, <1>9 DEF Readable
  <2> QED
    BY <1>9, <2>1 DEF Endpoint
<1>11. x \in Endpts /\ x.addr = raw.body[q].addr
  BY <1>9 DEF Zeroed, Endpts, Descriptor
<1> HIDE DEF x
<1>12. /\ b \in Alts /\ b.eps = Append(Alt.eps, x) /\ b.num = Alt.num /\ b.extra = Alt.extra
  BY <1>3, <1>11, SMTT(30) DEF Alts
<1> HIDE DEF b
<1>13. /\ Len(b.eps) = e + 1 /\ b.eps[e + 1] = x
       /\ \A j \in 1 .. e : b.eps[j] = Alt.eps[j]
  BY <1>0, <1>3, <1>11, <1>12, AppendProperties
<1>14. AtSetting(conf, p, e)' /\ Alt' = b
  <2>1. \A j \in 1 .. e : Alt.eps[j] = EndpointAt(Ordered(EndpointsOf(p))[j])
    BY <1>4 DEF AtSetting, Alt, Iface
  <2>2. \A j \in 1 .. e : b.eps[j] = EndpointAt(Ordered(EndpointsOf(p))[j])
    BY <1>13, <2>1
  <2> QED
    BY <1>1, <1>2, <1>4, <1>10, <1>12, <2>2, SettingFilled
<1>15. Passing(q)'
  <2>1. q \in 0 .. Len(raw.body) /\ pos' = q + 1 /\ extra' = 0
    BY <1>4, <1>6, <1>8, <1>9, <1>10 DEF Advance, Descriptor
  <2> QED
    BY <1>2, <1>3, <2>1, PassingNothing
<1>16. AtEndpointSkip'
  <2>1. PICK n : n = e + 1
    OBVIOUS
  <2>2. Len(Alt.eps)' = n
    BY <1>13, <1>14, <2>1
  <2>3. /\ p \in InterfaceStarts' /\ EndpointsOf(p)' = EndpointsOf(p)
        /\ After(p, Heads)' = After(p, Heads) /\ \A y : Run(p, y)' = Run(p, y)
        /\ Ordered(EndpointsOf(p))' = Ordered(EndpointsOf(p))
    BY <1>2, <1>4, MeaningKept
  <2>4. Run(p, After(p, Heads))' = Run(p, After(p, Heads))
    BY <2>3
  <2>5. n \in 1 .. Cardinality(EndpointsOf(p))' /\ q = Ordered(EndpointsOf(p))'[n] /\ n - 1 = e
    BY <1>1, <1>3, <1>5, <1>7, <2>1, <2>3
  <2>6. AtSetting(conf, p, n - 1)'
    BY <1>14, <2>5
  <2>7. /\ Alt'.extra = Run(p, After(p, Heads))'
        /\ Alt'.eps[n].addr = raw'.body[q].addr
    BY <1>2, <1>4, <1>11, <1>12, <1>13, <1>14, <2>1, <2>4
  <2> QED
    BY <1>15, <2>2, <2>3, <2>5, <2>6, <2>7 DEF AtEndpointSkip
<1>17. result' = "error" => failures' > 0
  BY <1>1, <1>10 DEF FaithInv, Understood, malloc
<1> QED
  BY <1>10, <1>16, <1>17 DEF Understood

LEMMA FaithSkippedEndpoint ==
  ParserInv /\ FaithInv /\ SkippedEndpoint => FaithInv'
<1> SUFFICES ASSUME ParserInv, FaithInv, SkippedEndpoint PROVE FaithInv'
  OBVIOUS
<1>0. PICK e : e = Len(Alt.eps)
  OBVIOUS
<1>1. place = "eskip" /\ Skipped /\ place \in InSetting
  BY DEF SkippedEndpoint, InSetting
<1>2. raw' = raw /\ (WellFormed' <=> WellFormed)
  <2>1. UNCHANGED input
    BY DEF SkippedEndpoint, Err
  <2> QED
    BY <2>1, BodyKept, MeaningKept
<1> SUFFICES ASSUME WellFormed PROVE Understood'
  BY <1>2 DEF FaithInv
<1>3. CASE Fails /\ Err
  <2>1. FaithInv'
    BY <1>3, FaithErr DEF Err, Return
  <2> QED
    BY <1>2, <2>1 DEF FaithInv
<1>4. CASE ~ (Fails /\ Err)
  <2>1. /\ CallType /\ BufferType /\ SizeLeft /\ pos > 0 /\ Alt \in Alts /\ extra \in Nat
        /\ Alt.num \in Nat /\ e \in Nat /\ Alt.eps \in Seq(Endpts) /\ Len(raw.body) \in Nat
    BY <1>0, <1>1, SettingFacts, EndsFacts DEF ParserInv, CallType
  <2>2. PICK p \in InterfaceStarts :
          /\ AtSetting(conf, p, e - 1) /\ e \in 1 .. Cardinality(EndpointsOf(p))
          /\ Alt.extra = Run(p, After(p, Heads))
          /\ Alt.eps[e].addr = raw.body[Ordered(EndpointsOf(p))[e]].addr
          /\ Passing(Ordered(EndpointsOf(p))[e])
    BY <1>0, <1>1 DEF FaithInv, Understood, AtEndpointSkip
  <2>3. PICK b : b = [Alt EXCEPT !.eps[e].extra = extra]
    OBVIOUS
  <2>4. /\ malloc /\ conf' = SetAlt(b) /\ extra' = 0 /\ place' = "endpoint"
        /\ UNCHANGED <<input, pos, size, result>>
    BY <1>0, <1>4, <2>3 DEF SkippedEndpoint
  <2>5. PICK q : q = Ordered(EndpointsOf(p))[e]
    OBVIOUS
  <2>6. q \in 1 .. Len(raw.body) /\ Cardinality(EndpointsOf(p)) \in Nat
    <3>1. e \in 0 .. Cardinality(EndpointsOf(p)) /\ e # 0
      BY <2>1, <2>2
    <3> QED
      BY <2>1, <2>2, <2>5, <3>1, NextEndpoint
  <2>7. pos = After(q, Heads) /\ extra = Run(q, After(q, Heads))
    <3>1. q \in 0 .. Len(raw.body) /\ Passing(q)
      BY <2>2, <2>5, <2>6
    <3> QED
      BY <1>1, <2>1, <3>1, PassedOver
  <2>8. e \in 1 .. Len(Alt.eps) /\ e \in DOMAIN Alt.eps /\ Alt.eps[e] \in Endpts
    <3>1. e \in 1 .. Len(Alt.eps) /\ DOMAIN Alt.eps = 1 .. Len(Alt.eps)
      BY <1>0, <2>1, <2>2, LenProperties
    <3> QED
      BY <2>1, <3>1, ElementOfSeq
  <2> DEFINE x == [Alt.eps[e] EXCEPT !.extra = extra]
             s == [Alt.eps EXCEPT ![e] = x]
  <2>9. x \in Endpts /\ x = EndpointAt(q)
    <3>1. PICK y \in Endpts : y = Alt.eps[e]
      BY <2>8
    <3>2. x \in Endpts /\ x.addr = y.addr /\ x.extra = extra
      <4>1. PICK v \in Nat : v = extra
        BY <2>1
      <4>2. x = [y EXCEPT !.extra = v]
        BY <3>1, <4>1
      <4> HIDE DEF x
      <4>3. x \in Endpts /\ x.addr = y.addr /\ x.extra = v
        BY <4>2 DEF Endpts
      <4> QED
        BY <4>1, <4>3
    <3> HIDE DEF x
    <3>3. x = [addr |-> y.addr, extra |-> extra]
      BY <3>2 DEF Endpts
    <3> QED
      BY <2>2, <2>5, <2>7, <3>1, <3>2, <3>3 DEF EndpointAt
  <2>10. /\ s \in Seq(Endpts) /\ Len(s) = e /\ s[e] = x
         /\ \A j \in 1 .. e - 1 : s[j] = Alt.eps[j]
    <3> HIDE DEF x
    <3>1. s \in Seq(Endpts) /\ Len(s) = Len(Alt.eps)
      BY <2>1, <2>8, <2>9, ExceptSeq
    <3>2. DOMAIN Alt.eps = 1 .. Len(Alt.eps)
      BY <2>1, LenProperties
    <3> QED
      BY <1>0, <2>1, <2>8, <3>1, <3>2
  <2>11. b = [Alt EXCEPT !.eps = s]
    BY <2>1, <2>3, <2>8 DEF Alts
  <2> HIDE DEF s, x
  <2>12. b \in Alts /\ b.eps = s /\ b.num = Alt.num /\ b.extra = Alt.extra
    BY <2>1, <2>10, <2>11 DEF Alts
  <2>13. AtSetting(conf, p, e)' /\ Alt' = b
    <3>1. \A j \in 1 .. e - 1 : Alt.eps[j] = EndpointAt(Ordered(EndpointsOf(p))[j])
      BY <2>2 DEF AtSetting, Alt, Iface
    <3>2. \A j \in 1 .. e : j = e \/ j \in 1 .. e - 1
      BY <2>1
    <3>3. \A j \in 1 .. e : b.eps[j] = EndpointAt(Ordered(EndpointsOf(p))[j])
      BY <2>5, <2>9, <2>10, <2>12, <3>1, <3>2
    <3> QED
      BY <1>1, <1>2, <2>2, <2>4, <2>12, <3>3, SettingFilled
  <2>14. AtEndpoint'
    <3>2. Len(Alt.eps)' = e /\ e # 0
      BY <2>1, <2>2, <2>10, <2>12, <2>13
    <3>3. /\ p \in InterfaceStarts' /\ EndpointsOf(p)' = EndpointsOf(p)
          /\ \A y : After(y, Heads)' = After(y, Heads) /\ Run(p, y)' = Run(p, y)
          /\ Ordered(EndpointsOf(p))' = Ordered(EndpointsOf(p))
      BY <1>2, <2>2, MeaningKept
    <3>4. Run(p, After(p, Heads))' = Run(p, After(p, Heads))
      BY <3>3
    <3>5. e \in 0 .. Cardinality(EndpointsOf(p))' /\ q = Ordered(EndpointsOf(p))'[e]
      BY <2>1, <2>2, <2>5, <3>3
    <3>7. /\ Alt'.extra = Run(p, After(p, Heads))' /\ extra' = 0 /\ pos' = After(q, Heads)'
      BY <2>2, <2>4, <2>7, <2>12, <2>13, <3>3, <3>4
    <3> QED
      BY <2>13, <3>2, <3>3, <3>5, <3>7 DEF AtEndpoint
  <2>15. result' = "error" => failures' > 0
    BY <2>4 DEF FaithInv, Understood, malloc
  <2> QED
    BY <2>4, <2>14, <2>15 DEF Understood
<1> QED
  BY <1>3, <1>4

\* A setting whose endpoints have all been parsed is what its bytes mean.
LEMMA SettingWhole ==
  ASSUME ParserInv, WellFormed, place = "endpoint", Len(Alt.eps) >= Alt.num,
         NEW p \in InterfaceStarts, NEW e, e = Len(Alt.eps), AtSetting(conf, p, e),
         e <= Cardinality(EndpointsOf(p)), Alt.extra = Run(p, After(p, Heads))
  PROVE  e = Cardinality(EndpointsOf(p)) /\ Alt = SettingAt(p)
<1>1. /\ Alt \in Alts /\ Alt.eps \in Seq(Endpts) /\ e \in Nat /\ Alt.backed \in BOOLEAN
      /\ (Alt.backed <=> Alt.num > 0)
  BY SettingFacts DEF InSetting, ParserInv, Shape
<1>2. /\ Alt.num = raw.body[p].num /\ Alt.num = Cardinality(EndpointsOf(p))
      /\ Cardinality(EndpointsOf(p)) \in Nat
  BY SettingKnown DEF InSetting
<1>3. e = Cardinality(EndpointsOf(p))
  BY <1>1, <1>2
<1>4. \A j \in 1 .. e : Alt.eps[j] = EndpointAt(Ordered(EndpointsOf(p))[j])
  BY DEF AtSetting, Alt, Iface
<1>5. Alt.eps = [j \in 1 .. Cardinality(EndpointsOf(p)) |->
                   EndpointAt(Ordered(EndpointsOf(p))[j])]
  <2>1. Alt.eps = [j \in 1 .. Len(Alt.eps) |-> Alt.eps[j]]
    BY <1>1
  <2> QED
    BY <1>3, <1>4, <2>1
<1>6. Alt.backed = (raw.body[p].num > 0)
  BY <1>1, <1>2
<1>7. Alt = [num |-> Alt.num, backed |-> Alt.backed, extra |-> Alt.extra, eps |-> Alt.eps]
  BY <1>1 DEF Alts
<1> QED
  BY <1>2, <1>3, <1>5, <1>6, <1>7 DEF SettingAt

LEMMA FaithNextAltsetting ==
  ParserInv /\ FaithInv /\ NextAltsetting => FaithInv'
<1> SUFFICES ASSUME ParserInv, FaithInv, NextAltsetting PROVE FaithInv'
  OBVIOUS
<1>1. /\ place = "endpoint" /\ place \in InSetting /\ Len(Alt.eps) >= Alt.num
      /\ UNCHANGED <<input, buffer, conf, result, failures>>
      /\ IF Alternate THEN place' = "altsetting" ELSE InterfaceDone
  BY DEF NextAltsetting, InSetting
<1>2. /\ raw' = raw /\ (WellFormed' <=> WellFormed) /\ UNCHANGED <<pos, size, extra>>
      /\ conf' = conf
  BY <1>1, BodyKept, MeaningKept DEF buffer
<1> SUFFICES ASSUME WellFormed PROVE Understood'
  BY <1>2 DEF FaithInv
<1>3. /\ CallType /\ BufferType /\ SizeLeft /\ pos > 0 /\ size \in Int /\ Len(raw.body) \in Nat
      /\ conf \in Confs /\ conf.ifaces # <<>> /\ Iface # <<>>
  BY <1>1, SettingFacts, EndsFacts DEF ParserInv, CallType
<1>4. PICK e : e = Len(Alt.eps)
  OBVIOUS
<1>5. PICK p \in InterfaceStarts :
        /\ AtSetting(conf, p, e) /\ e \in 0 .. Cardinality(EndpointsOf(p)) /\ extra = 0
        /\ Alt.extra = Run(p, After(p, Heads))
        /\ pos = After(IF e = 0 THEN p ELSE Ordered(EndpointsOf(p))[e], Heads)
  BY <1>1, <1>4 DEF FaithInv, Understood, AtEndpoint
<1>6. e = Cardinality(EndpointsOf(p)) /\ Alt = SettingAt(p)
  <2>1. e <= Cardinality(EndpointsOf(p))
    <3>1. Cardinality(EndpointsOf(p)) \in Nat
      BY <1>1, <1>5, SettingKnown
    <3> QED
      BY <1>5, <3>1
  <2> QED
    BY <1>1, <1>4, <1>5, <2>1, SettingWhole
<1>7. PICK a : a = After(p, InterfaceStarts)
  OBVIOUS
<1>8. pos = a
  <2>1. PICK h : h = IF e = 0 THEN p ELSE Ordered(EndpointsOf(p))[e]
    OBVIOUS
  <2> QED
    BY <1>3, <1>5, <1>6, <1>7, <2>1, NextEndpoint
<1>9. PICK k : k = Len(Iface)
  OBVIOUS
<1>10. PICK f \in Firsts :
         /\ InInterface(conf, f, k - 1)
         /\ k \in 1 .. Cardinality(SettingsOf(f)) /\ p = Ordered(SettingsOf(f))[k]
  BY <1>5, <1>9 DEF AtSetting, Iface
<1>11. InInterface(conf, f, k)
  <2>1. \A l \in 1 .. k : Iface[l] = SettingAt(Ordered(SettingsOf(f))[l])
    <3>1. \A l \in 1 .. k : l = k \/ l \in 1 .. k - 1
      BY <1>10
    <3>2. Iface[k] = SettingAt(p)
      BY <1>3, <1>6, <1>9, IfaceType
    <3> QED
      BY <1>10, <3>1, <3>2 DEF InInterface, Iface
  <2> QED
    BY <1>10, <2>1 DEF InInterface, Iface
<1>12. /\ Cardinality(SettingsOf(f)) \in Nat
       /\ a \in 1 .. Len(raw.body) + 1
       /\ a = Len(raw.body) + 1 \/ a \in InterfaceStarts
       /\ (a # Len(raw.body) + 1 /\ raw.body[a].alt # 0) =>
            k < Cardinality(SettingsOf(f)) /\ a = Ordered(SettingsOf(f))[k + 1]
       /\ (a = Len(raw.body) + 1 \/ raw.body[a].alt = 0) =>
            k = Cardinality(SettingsOf(f)) /\ a = After(f, Firsts)
  BY <1>3, <1>7, <1>10, NextSetting
<1>13. Alternate <=> a # Len(raw.body) + 1 /\ raw.body[a].alt # 0
  <2>1. CASE a = Len(raw.body) + 1
    <3>1. size = 0
      BY <1>3, <1>8, <2>1, WellLeft
    <3> QED
      BY <2>1, <3>1 DEF Alternate
  <2>2. CASE a # Len(raw.body) + 1
    <3>1. a \in 1 .. Len(raw.body) /\ Header = raw.body[a] /\ Header.len <= size
      BY <1>3, <1>8, <2>2, WellLeft
    <3>2. Header.len = 9 /\ Header.type = "interface"
      BY <1>3, <1>12, <2>2, <3>1, WellFacts
    <3> QED
      BY <1>3, <2>2, <3>1, <3>2 DEF Alternate
  <2> QED
    BY <2>1, <2>2
<1>14. result' = "error" => failures' > 0
  BY <1>1 DEF FaithInv, Understood
<1>15. CASE Alternate
  <2>1. place' = "altsetting"
    BY <1>1, <1>15
  <2>2. k + 1 \in 1 .. Cardinality(SettingsOf(f)) /\ pos = Ordered(SettingsOf(f))[k + 1]
    BY <1>8, <1>10, <1>12, <1>13, <1>15
  <2>3. AtAltsetting'
    <3>1. Len(Iface)' = k
      BY <1>2, <1>9 DEF Iface
    <3>2. InInterface(conf, f, k)'
      BY <1>2, <1>11, StandsStill
    <3>3. /\ Firsts' = Firsts /\ SettingsOf(f)' = SettingsOf(f)
          /\ Ordered(SettingsOf(f))' = Ordered(SettingsOf(f))
      BY <1>2, MeaningKept
    <3> QED
      BY <1>2, <1>5, <2>2, <3>1, <3>2, <3>3 DEF AtAltsetting
  <2> QED
    BY <1>14, <2>1, <2>3 DEF Understood
<1>16. CASE ~Alternate
  <2> DEFINE m == Len(conf.ifaces)
  <2>1. k = Cardinality(SettingsOf(f)) /\ pos = After(f, Firsts)
    BY <1>8, <1>12, <1>13, <1>16
  <2>2. /\ m \in 1 .. Cardinality(Firsts) /\ f = Ordered(Firsts)[m] /\ Finished(conf, m - 1)
        /\ conf.extra = Meaning.extra
        /\ \A l \in 1 .. k : Iface[l] = SettingAt(Ordered(SettingsOf(f))[l])
    BY <1>11 DEF InInterface, Iface
  <2>3. Iface \in Seq(Alts) /\ Iface = conf.ifaces[m]
    BY <1>3, IfaceType
  <2>4. conf.ifaces[m] = InterfaceAt(f)
    <3>1. Iface = [l \in 1 .. k |-> Iface[l]]
      BY <1>9, <2>3
    <3>2. Iface = [l \in 1 .. Cardinality(SettingsOf(f)) |->
                     SettingAt(Ordered(SettingsOf(f))[l])]
      BY <2>1, <2>2, <3>1
    <3> QED
      BY <2>3, <3>2 DEF InterfaceAt
  <2>5. Finished(conf, m)
    <3>1. \A i \in 1 .. m : i = m \/ i \in 1 .. m - 1
      BY <2>2
    <3> HIDE DEF m
    <3> QED
      BY <2>2, <2>4, <3>1 DEF Finished
  <2>6. raw.num = Cardinality(Firsts) /\ Cardinality(Firsts) \in Nat
    BY <1>3, FirstInterface
  <2>7. place' = IF m = raw.num THEN "left" ELSE "skip"
    <3>1. InterfaceDone
      BY <1>1, <1>16
    <3> QED
      BY <1>2, <3>1 DEF InterfaceDone
  <2>8. CASE m = raw.num
    <3>1. conf.ifaces = [i \in 1 .. Cardinality(Firsts) |-> InterfaceAt(Ordered(Firsts)[i])]
      <4>1. conf.ifaces = [i \in 1 .. m |-> conf.ifaces[i]]
        BY <1>3 DEF Confs
      <4> HIDE DEF m
      <4> QED
        BY <2>5, <2>6, <2>8, <4>1 DEF Finished
    <3>2. conf = [extra |-> conf.extra, ifaces |-> conf.ifaces]
      BY <1>3 DEF Confs
    <3>3. Meaning = [extra |-> Meaning.extra, ifaces |-> conf.ifaces]
      BY <3>1 DEF Meaning
    <3>4. conf = Meaning
      BY <2>2, <3>2, <3>3
    <3>5. (conf = Meaning)'
      BY <1>2, <3>4, MeaningKept
    <3> QED
      BY <1>14, <2>7, <2>8, <3>5 DEF Understood
  <2>9. CASE m # raw.num
    <3>1. m < Cardinality(Firsts)
      BY <2>2, <2>6, <2>9
    <3>2. pos = Ordered(Firsts)[m + 1]
      <4> HIDE DEF m
      <4> QED
        BY <1>3, <2>1, <2>2, <3>1, NextInterface
    <3>3. AtSkip'
      <4>1. PICK n : n = m
        OBVIOUS
      <4>2. n # 0 /\ m' = n
        BY <1>2, <2>2, <4>1
      <4>3. Finished(conf, n)'
        BY <1>2, <2>5, <4>1, StandsStill
      <4>4. Meaning' = Meaning /\ Ordered(Firsts)' = Ordered(Firsts)
        BY <1>2, MeaningKept
      <4>5. conf'.extra = Meaning'.extra /\ extra' = 0 /\ pos' = Ordered(Firsts)'[n + 1]
        BY <1>2, <1>5, <2>2, <3>2, <4>1, <4>4
      <4> QED
        BY <4>2, <4>3, <4>5 DEF AtSkip
    <3> QED
      BY <1>14, <2>7, <2>9, <3>3 DEF Understood
  <2> QED
    BY <2>8, <2>9
<1> QED
  BY <1>15, <1>16

LEMMA FaithStutter ==
  FaithInv /\ UNCHANGED parser_vars => FaithInv'
<1> SUFFICES ASSUME FaithInv, UNCHANGED parser_vars PROVE FaithInv'
  OBVIOUS
<1>1. UNCHANGED <<raw, place, pos, size, extra, conf, result, failures>>
  BY DEF parser_vars
<1>2. /\ WellFormed' <=> WellFormed
      /\ InterfaceStarts' = InterfaceStarts /\ Firsts' = Firsts /\ Meaning' = Meaning
      /\ Ordered(Firsts)' = Ordered(Firsts)
      /\ \A p : /\ After(p, Heads)' = After(p, Heads) /\ EndpointsOf(p)' = EndpointsOf(p)
                /\ SettingsOf(p)' = SettingsOf(p)
                /\ Ordered(SettingsOf(p))' = Ordered(SettingsOf(p))
                /\ Ordered(EndpointsOf(p))' = Ordered(EndpointsOf(p))
      /\ \A p, q : Run(p, q)' = Run(p, q)
  BY <1>1, MeaningKept
<1>3. /\ \A d, m : Finished(d, m)' <=> Finished(d, m)
      /\ \A d, f, n : InInterface(d, f, n)' <=> InInterface(d, f, n)
      /\ \A d, p, n : AtSetting(d, p, n)' <=> AtSetting(d, p, n)
  BY <1>1, StandsStill
<1>4. \A h : Passing(h)' <=> Passing(h)
  BY <1>1, <1>2 DEF Passing
<1>5. Iface' = Iface /\ Alt' = Alt
  BY <1>1 DEF Iface, Alt
<1>6. AtSkip' <=> AtSkip
  BY <1>1, <1>2, <1>3, <1>4 DEF AtSkip
<1>7. AtAltsetting' <=> AtAltsetting
  BY <1>1, <1>2, <1>3, <1>5 DEF AtAltsetting
<1>8. AtInterfaceSkip' <=> AtInterfaceSkip
  BY <1>1, <1>2, <1>3, <1>4 DEF AtInterfaceSkip
<1>9. AtEndpoint' <=> AtEndpoint
  BY <1>1, <1>2, <1>3, <1>5 DEF AtEndpoint
<1>10. AtEndpointSkip' <=> AtEndpointSkip
  BY <1>1, <1>2, <1>3, <1>4, <1>5 DEF AtEndpointSkip
<1> QED
  BY <1>1, <1>2, <1>6, <1>7, <1>8, <1>9, <1>10 DEF FaithInv, Understood

LEMMA FaithStep ==
  ParserInv /\ FaithInv /\ [ParserNext]_parser_vars => FaithInv'
<1> SUFFICES ASSUME ParserInv, FaithInv, [ParserNext]_parser_vars PROVE FaithInv'
  OBVIOUS
<1>1. CASE GetActiveConfig
  BY <1>1, FaithGetActiveConfig
<1>2. CASE Configuration
  BY <1>2, FaithConfiguration
<1>3. CASE Skip
  BY <1>3, FaithSkip
<1>4. CASE SkippedConfig
  BY <1>4, FaithSkippedConfig
<1>5. CASE Altsetting
  BY <1>5, FaithAltsetting
<1>6. CASE SkippedInterface
  BY <1>6, FaithSkippedInterface
<1>7. CASE Endpoint
  BY <1>7, FaithEndpoint
<1>8. CASE SkippedEndpoint
  BY <1>8, FaithSkippedEndpoint
<1>9. CASE NextAltsetting
  BY <1>9, FaithNextAltsetting
<1>10. CASE Parsed
  BY <1>10, FaithParsed
<1>11. CASE libusb_free_config_descriptor
  BY <1>11, FaithFree
<1>12. CASE GetMaxPacketSize
  BY <1>12, FaithGetMaxPacketSize
<1>13. CASE UNCHANGED parser_vars
  BY <1>13, FaithStutter
<1> QED
  BY <1>1, <1>2, <1>3, <1>4, <1>5, <1>6, <1>7, <1>8, <1>9, <1>10, <1>11, <1>12, <1>13
  DEF ParserNext

\* Of every configuration whose lengths and counts are what they should be,
\* however many interfaces, settings, endpoints and unknown descriptors it has
\* and in whatever order, libusb_get_active_config_descriptor makes what its
\* bytes mean, and refuses it only if a read or an allocation has failed.
THEOREM FaithfulCorrect ==
  ParserSpec => []ParseFaithful
<1>1. FaithInv => ParseFaithful
  BY DEF FaithInv, Understood, ParseFaithful, ParsedRight, Accepted
<1>2. ParserInit => ParserInv /\ FaithInv
  BY ParserInvStart, FaithStart
<1>3. ParserInv /\ FaithInv /\ [ParserNext]_parser_vars => (ParserInv /\ FaithInv)'
  BY ParserInvStep, FaithStep
<1> QED
  BY <1>1, <1>2, <1>3, PTL DEF ParserSpec
============================================================================
