---------------------------- MODULE LibusbHandle ---------------------------
(***************************************************************************)
(* What the handles of one device do in libusb 1.0.8 besides transfers:    *)
(* interfaces are claimed, released and switched, the configuration is set *)
(* and asked for, its descriptor is read from sysfs or from a cached copy, *)
(* kernel drivers are detached and attached (core.c, descriptor.c,         *)
(* os/linux_usbfs.c).  Several threads use one handle, and other handles   *)
(* and other programs the same device.                                     *)
(*                                                                         *)
(* The kernel's side of each ioctl is one step.  A configuration is its    *)
(* value and its length, what is in it is the subject of Descriptors; which *)
(* setting an interface is switched to is left out.                        *)
(*                                                                         *)
(* Places of a thread (pc): idle, claim claimed, release released, alt,    *)
(* recache recached store (op_set_configuration), value lookup (the two    *)
(* reads of libusb_get_active_config_descriptor from sysfs), header body   *)
(* (the same from the cached copy).                                        *)
(***************************************************************************)
EXTENDS Integers, Sequences, FiniteSets, SequencesExt, Functions

CONSTANTS Threads, Handles,
          Users,      \* which handle a thread uses: assignments to choose from
          Claimers, Configurers, Readers, \* what threads do
          Kernels,    \* subset of {"none", "busnum", "active", "all"}
          Interfaces, \* interfaces of every configuration
          Configs,    \* the configurations: value and wTotalLength
          MaxFaults,  \* bound: failing reads
          MaxLost     \* bound: files left open

Values == {Configs[k].value : k \in DOMAIN Configs}
ASSUME HandlesAssumption ==
    /\ Users \subseteq [Threads -> Handles] /\ "none" \notin Threads
    /\ Handles \cap {"none", "driver"} = {}
    /\ Claimers \cup Configurers \cup Readers \subseteq Threads
ASSUME KernelsAssumption == Kernels \subseteq {"none", "busnum", "active", "all"}
ASSUME ConfigsAssumption ==
    /\ Configs \in Seq([value : 1..255, total : Nat \ {0}])
    /\ \A k, l \in DOMAIN Configs : Configs[k].value = Configs[l].value => k = l
ASSUME BoundsAssumption == MaxFaults \in Nat /\ MaxLost \in Nat

VARIABLES
    HandleOf,    \* the handle a thread uses
    \* the device in the kernel
    kernel,      \* what sysfs has: nothing, busnum, and in the descriptors
                 \* file only the active configuration or all of them
    present, active, bound, \* bound: the driver or handle that has the interface
    \* libusb_device
    cache,       \* priv->config_descriptor: whose copy it is, 0 is NULL
    dangling,    \* it has been freed and not replaced
    \* libusb_device_handle
    opened, claimed_interfaces, lock,
    \* per thread
    pc, arg,     \* the interface or the configuration asked for
    r,           \* what the ioctl under the lock has returned
    want, len,   \* configuration looked for, length of the buffer
    out,         \* what the last call that tells something has told
    lost,        \* history: open files that no code will close
    quiet,       \* history: threads whose call nothing has disturbed
    raced,       \* history: the copy was replaced by two at a time, or by nobody
    behind,      \* history: claims the kernel changed unasked
    faults, health

device == <<HandleOf, kernel, present, active, bound>>
copy == <<cache, dangling>>
handle == <<opened, claimed_interfaces, lock>>
locals == <<arg, r, want, len>>
history == <<lost, quiet, raced, behind, faults>>
vars == <<device, copy, handle, pc, locals, out, history, health>>

Running == health = "ok"
Set(f, t, v) == [f EXCEPT ![t] = v]
Goto(t, place) == pc' = Set(pc, t, place)
H(t) == HandleOf[t]
Idle(t) == Running /\ pc[t] = "idle" /\ opened[H(t)]
Unset == -2    \* a variable nobody has written to
Told(t, op, code, v) == out' = Set(out, t, [op |-> op, r |-> code, value |-> v])
Nothing == [op |-> "none", r |-> "ok", value |-> Unset]

sysfs_can_relate_devices == kernel # "none"
sysfs_has_descriptors == kernel \in {"active", "all"}
ConfigOf(v) == Configs[CHOOSE k \in DOMAIN Configs : Configs[k].value = v]
Total(v) == ConfigOf(v).total
----------------------------------------------------------------------------
(* Opening and closing *)

libusb_open(h) ==
    /\ Running /\ ~opened[h] /\ present /\ h \in Range(HandleOf)
    /\ opened' = Set(opened, h, TRUE) /\ claimed_interfaces' = Set(claimed_interfaces, h, {})
    /\ UNCHANGED <<device, copy, lock, pc, locals, out, history, health>>

\* The kernel gives up the claims of a file that is closed.
Unclaim(h) == /\ bound' = [i \in Interfaces |-> IF bound[i] = h THEN "none" ELSE bound[i]]
              /\ behind' = {b \in behind : b[1] # h}
libusb_close(h) ==
    /\ Running /\ opened[h] /\ \A t \in Threads : H(t) = h => pc[t] = "idle"
    /\ opened' = Set(opened, h, FALSE) /\ Unclaim(h)
    /\ UNCHANGED <<HandleOf, kernel, present, active, copy, claimed_interfaces, lock,
                   pc,
                   locals, out, lost, quiet, raced, faults, health>>
----------------------------------------------------------------------------
(* Claiming *)

LockFrame == UNCHANGED <<device, copy, opened, want, len, out, history, health>>
\* The call returns: its locals are gone.
Back(t) == Goto(t, "idle") /\ arg' = Set(arg, t, 0) /\ r' = Set(r, t, "ok")
Unlock(t) == lock' = Set(lock, H(t), "none") /\ Back(t)

\* Under the handle's lock: an interface that is claimed is not claimed again.
libusb_claim_interface(t) ==
    /\ Idle(t) /\ lock[H(t)] = "none"
    /\ \E i \in Interfaces \ claimed_interfaces[H(t)] :
         arg' = Set(arg, t, i) /\ lock' = Set(lock, H(t), t) /\ Goto(t, "claim")
    /\ LockFrame /\ UNCHANGED <<claimed_interfaces, r>>

libusb_release_interface(t) ==
    /\ Idle(t) /\ lock[H(t)] = "none"
    /\ \E i \in claimed_interfaces[H(t)] :
         arg' = Set(arg, t, i) /\ lock' = Set(lock, H(t), t) /\ Goto(t, "release")
    /\ LockFrame /\ UNCHANGED <<claimed_interfaces, r>>

op_claim_interface(t) ==
    LET i == arg[t]
        code == CASE ~present -> "no device" [] present /\ active = 0 -> "not found"
                  [] present /\ active # 0 /\ bound[i] \notin {"none", H(t)} -> "busy"
                  [] OTHER -> "ok"
    IN
    /\ Running /\ pc[t] = "claim" /\ Goto(t, "claimed")
    /\ r' = Set(r, t, code)
    /\ bound' = IF code = "ok" THEN Set(bound, i, H(t)) ELSE bound
    /\ UNCHANGED <<HandleOf, kernel, present, active, copy, handle, arg, want, len,
                   out,
                   history, health>>

op_release_interface(t) ==
    LET i == arg[t]
        code == CASE ~present -> "no device"
                  [] present /\ bound[i] # H(t) -> "other" [] OTHER -> "ok"
    IN
    /\ Running /\ pc[t] = "release" /\ Goto(t, "released")
    /\ r' = Set(r, t, code)
    /\ bound' = IF code = "ok" THEN Set(bound, i, "none") ELSE bound
    /\ UNCHANGED <<HandleOf, kernel, present, active, copy, handle, arg, want, len,
                   out,
                   history, health>>

\* Mutant: the bit is set, whatever the kernel has answered.
Claimed_Always(t) ==
    /\ Running /\ pc[t] = "claimed"
    /\ claimed_interfaces' = [claimed_interfaces EXCEPT ![H(t)] = @ \cup {arg[t]}]
    /\ Unlock(t) /\ LockFrame

Claimed(t) ==
    /\ Running /\ pc[t] = "claimed"
    /\ claimed_interfaces' = [claimed_interfaces EXCEPT
                                ![H(t)] = IF r[t] = "ok" THEN @ \cup {arg[t]} ELSE @]
    /\ Unlock(t) /\ LockFrame

Released(t) ==
    /\ Running /\ pc[t] = "released"
    /\ claimed_interfaces' = [claimed_interfaces EXCEPT
                                ![H(t)] = IF r[t] = "ok" THEN @ \ {arg[t]} ELSE @]
    /\ Unlock(t) /\ LockFrame

\* libusb_set_interface_alt_setting looks at the bit under the lock and asks
\* the kernel without it.
libusb_set_interface_alt_setting(t) ==
    /\ Idle(t) /\ lock[H(t)] = "none"
    /\ \E i \in claimed_interfaces[H(t)] : arg' = Set(arg, t, i) /\ Goto(t, "alt")
    /\ LockFrame /\ UNCHANGED <<claimed_interfaces, lock, r>>

\* An interface that nobody has claimed any more: some kernels claim it for
\* whoever uses it.
op_set_interface(t) ==
    LET i == arg[t] IN
    /\ Running /\ pc[t] = "alt" /\ Back(t)
    /\ \/ /\ present /\ active # 0 /\ bound[i] \in {"none", H(t)}
          /\ bound' = Set(bound, i, H(t))
          /\ behind' = IF bound[i] = "none" THEN behind \cup {<<H(t), i>>} ELSE behind
       \/ /\ ~present \/ active = 0 \/ bound[i] # H(t)
          /\ UNCHANGED <<bound, behind>>
    /\ UNCHANGED <<HandleOf, kernel, present, active, copy, handle, want, len, out,
                   lost, quiet, raced, faults, health>>

\* op_detach_kernel_driver: for the kernel a claim of usbfs is a driver, too.
libusb_detach_kernel_driver(t) ==
    /\ Idle(t) /\ present /\ active # 0
    /\ \E i \in Interfaces :
         /\ bound[i] # "none"
         /\ bound' = Set(bound, i, "none")
         /\ behind' = IF bound[i] = "driver" THEN behind ELSE behind \cup {<<bound[i], i>>}
    /\ UNCHANGED <<HandleOf, kernel, present, active, copy, handle, pc, locals, out,
                   lost, quiet, raced, faults, health>>

libusb_attach_kernel_driver(t) ==
    /\ Idle(t) /\ present /\ active # 0
    /\ \E i \in Interfaces : bound[i] = "none" /\ bound' = Set(bound, i, "driver")
    /\ UNCHANGED <<HandleOf, kernel, present, active, copy, handle, pc, locals, out,
                   history, health>>
----------------------------------------------------------------------------
(* The configuration *)

Configure(v) ==
    /\ \A i \in Interfaces : bound[i] = "none"
    /\ active' = IF v = -1 THEN 0 ELSE v
    /\ \E b \in IF v = -1 THEN {"none"} ELSE {"none", "driver"} :
         bound' = [i \in Interfaces |-> b]
    /\ quiet' = {}
    /\ UNCHANGED <<HandleOf, kernel, present>>

Recaching(t) == pc[t] \in {"recache", "recached", "store"}

\* op_set_configuration.  It is refused while any interface has a driver.
libusb_set_configuration(t) ==
    /\ Idle(t) /\ present
    /\ \E v \in Values \cup {-1} :
         /\ Configure(v)
         /\ IF sysfs_has_descriptors THEN UNCHANGED <<arg, pc>>
            ELSE arg' = Set(arg, t, v) /\ Goto(t, "recache")
    /\ raced' = (raced \/ (~sysfs_has_descriptors /\ \E u \in Threads : Recaching(u)))
    /\ UNCHANGED <<copy, handle, r, want, len, out, lost, behind, faults, health>>

\* cache_active_config finds the configuration by its value and reads it; if
\* that fails the old copy stays.
Recache(t) ==
    /\ Running /\ pc[t] = "recache"
    /\ \/ /\ arg[t] = -1 \/ present
          /\ Goto(t, "recached") /\ UNCHANGED <<faults, raced, arg, r>>
       \/ /\ arg[t] # -1 /\ ~present
          /\ Back(t) /\ raced' = TRUE /\ UNCHANGED faults
       \/ /\ arg[t] # -1 /\ faults < MaxFaults /\ faults' = faults + 1
          /\ Back(t) /\ raced' = TRUE
    /\ UNCHANGED <<device, copy, handle, want, len, out, lost, quiet, behind, health>>

\* The old copy is freed, if there is one, and then replaced; nothing keeps a
\* reader or another writer out.
FreeCopy(t) ==
    /\ Running /\ pc[t] = "recached" /\ Goto(t, "store")
    /\ health' = IF dangling THEN "copy freed twice" ELSE health
    /\ dangling' = (cache # 0)
    /\ UNCHANGED <<device, cache, handle, locals, out, history>>

\* Mutants: the first configuration, whichever was set; the pointer to the
\* freed copy is kept.
StoreCopy_First(t) ==
    /\ Running /\ pc[t] = "store" /\ Back(t)
    /\ cache' = (IF arg[t] = -1 THEN 0 ELSE Configs[1].value) /\ dangling' = FALSE
    /\ UNCHANGED <<device, handle, want, len, out, history, health>>
StoreCopy_Kept(t) ==
    /\ Running /\ pc[t] = "store" /\ Back(t)
    /\ cache' = (IF arg[t] = -1 THEN cache ELSE arg[t]) /\ dangling' = (dangling /\ arg[t] = -1)
    /\ UNCHANGED <<device, handle, want, len, out, history, health>>
StoreCopy(t) ==
    /\ Running /\ pc[t] = "store" /\ Back(t)
    /\ cache' = (IF arg[t] = -1 THEN 0 ELSE arg[t]) /\ dangling' = FALSE
    /\ UNCHANGED <<device, handle, want, len, out, history, health>>

\* sysfs_get_active_config reads bConfigurationValue into four bytes, one of
\* which must be left: three digits and the end of line are an error.
Digits(v) == IF v >= 100 THEN {} ELSE {v}

\* An error of sysfs_get_active_config is dropped: the call succeeds, and the
\* caller's variable is as it was.
op_get_configuration(t) ==
    \/ /\ present
       /\ \E v \in IF active = 0 THEN {0} ELSE Digits(active) :
            Told(t, "configuration", "ok", v)
    \/ /\ ~present \/ (active # 0 /\ Digits(active) = {})
       /\ Told(t, "configuration", "ok", Unset)

\* Without sysfs the device itself is asked.
libusb_get_configuration(t) ==
    /\ Idle(t)
    /\ \/ sysfs_can_relate_devices /\ op_get_configuration(t)
       \/ ~sysfs_can_relate_devices /\ present /\ Told(t, "configuration", "ok", active)
       \/ ~sysfs_can_relate_devices /\ ~present /\ Told(t, "configuration", "error", Unset)
    /\ UNCHANGED <<device, copy, handle, pc, locals, history, health>>

libusb_reset_device(t) ==
    /\ Idle(t) /\ present
    /\ present' = FALSE /\ quiet' = {}     \* else it is as it was
    /\ UNCHANGED <<HandleOf, kernel, active, bound, copy, handle, pc, locals, out,
                   lost, raced, behind, faults, health>>
----------------------------------------------------------------------------
(* libusb_get_active_config_descriptor: once for the length, once for all *)

libusb_get_active_config_descriptor(t) ==
    /\ Idle(t)
    /\ len' = Set(len, t, 0) /\ out' = Set(out, t, Nothing)
    /\ quiet' = IF ~present \/ \E u \in Threads : Recaching(u) THEN quiet \ {t}
                ELSE quiet \cup {t}
    /\ Goto(t, IF sysfs_has_descriptors THEN "value" ELSE "header")
    /\ UNCHANGED <<device, copy, handle, arg, r, want, lost, raced, behind, faults,
                   health>>

ReadFrame == UNCHANGED <<device, copy, handle, arg, r, raced, behind>>
End(t, code, v) == /\ Goto(t, "idle") /\ Told(t, "descriptor", code, v)
                   /\ want' = Set(want, t, 0) /\ len' = Set(len, t, 0)
Fault(what) == health' = what /\ UNCHANGED <<pc, out, want, len>>

\* parse_configuration takes the length from the bytes it was given: it must
\* not be more than was asked for.
Parse(t, v) ==
    IF Total(v) > len[t]
    THEN Fault("parsed past the buffer")
    ELSE End(t, "ok", v) /\ UNCHANGED health

ReadValue(t) ==
    /\ Running /\ pc[t] = "value"
    /\ \/ ~present /\ End(t, "error", Unset)
       \/ present /\ active = 0 /\ End(t, "not found", Unset)
       \/ present /\ active # 0 /\ Digits(active) = {} /\ End(t, "error", Unset)
       \/ /\ present /\ active # 0
          /\ \E v \in Digits(active) : want' = Set(want, t, v)
          /\ Goto(t, "lookup") /\ UNCHANGED <<len, out>>
    /\ ReadFrame /\ UNCHANGED <<lost, quiet, faults, health>>

\* What the descriptors file holds from the configuration v on: a read may go
\* on into the next one.
Contents == IF kernel = "all" THEN Configs
            ELSE IF active = 0 THEN <<>> ELSE <<ConfigOf(active)>>
BytesFrom(v) ==
    LET upto[k \in 0..Len(Contents)] == IF k = 0 THEN 0 ELSE upto[k - 1] + Contents[k].total
        at == CHOOSE k \in DOMAIN Contents : Contents[k].value = v
    IN  upto[Len(Contents)] - upto[at - 1]

\* sysfs_get_active_config_descriptor, from the opening of the file on.  It is
\* searched for the value read before.  Where the search fails, the file is
\* left open.
Found(t) == \E k \in DOMAIN Contents : Contents[k].value = want[t]
LookupFails(t) ==
    /\ Running /\ pc[t] = "lookup"
    /\ \/ ~present /\ End(t, "error", Unset) /\ UNCHANGED <<lost, faults, quiet>>
       \/ /\ present /\ ~Found(t)
          /\ Contents # <<>> => lost < MaxLost
          /\ lost' = lost + (IF Contents # <<>> THEN 1 ELSE 0)
          /\ End(t, IF Contents = <<>> THEN "not found" ELSE "error", Unset)
          /\ UNCHANGED <<faults, quiet>>
       \/ /\ present /\ faults < MaxFaults /\ faults' = faults + 1 /\ quiet' = quiet \ {t}
          /\ lost < MaxLost /\ lost' = lost + 1
          /\ End(t, "error", Unset)
    /\ ReadFrame /\ UNCHANGED health

Lookup(t) ==
    /\ Running /\ pc[t] = "lookup" /\ present /\ Found(t)
    /\ \/ /\ len[t] = 0
          /\ len' = Set(len, t, Total(want[t])) /\ Goto(t, "value")
          /\ UNCHANGED <<want, out, health>>
       \/ len[t] > BytesFrom(want[t]) /\ End(t, "error", Unset) /\ UNCHANGED health
       \/ len[t] \in 1..BytesFrom(want[t]) /\ Parse(t, want[t])
    /\ ReadFrame /\ UNCHANGED <<lost, quiet, faults>>

\* usbfs_get_active_config_descriptor copies as many bytes as it is told.
ReadHeader(t) ==
    /\ Running /\ pc[t] = "header"
    /\ \/ cache = 0 /\ End(t, "not found", Unset) /\ UNCHANGED health
       \/ cache # 0 /\ dangling /\ Fault("copy used after free")
       \/ /\ cache # 0 /\ ~dangling /\ len' = Set(len, t, Total(cache))
          /\ Goto(t, "body") /\ UNCHANGED <<want, out, health>>
    /\ ReadFrame /\ UNCHANGED <<lost, quiet, faults>>

ReadBody(t) ==
    /\ Running /\ pc[t] = "body"
    /\ \/ cache = 0 /\ End(t, "not found", Unset) /\ UNCHANGED health
       \/ cache # 0 /\ dangling /\ Fault("copy used after free")
       \/ /\ cache # 0 /\ ~dangling /\ len[t] > Total(cache)
          /\ Fault("read past the copy")
       \/ cache # 0 /\ ~dangling /\ len[t] <= Total(cache) /\ Parse(t, cache)
    /\ ReadFrame /\ UNCHANGED <<lost, quiet, faults>>
----------------------------------------------------------------------------
(* Others *)

Unplug ==
    /\ Running /\ present /\ present' = FALSE /\ quiet' = {}
    /\ UNCHANGED <<HandleOf, kernel, active, bound, copy, handle, pc, locals, out,
                   lost, raced, behind, faults, health>>

\* Another program sets the configuration; no copy of ours is replaced.
OtherProgram ==
    /\ Running /\ present /\ \E v \in Values : Configure(v)
    /\ raced' = (raced \/ ~sysfs_has_descriptors)
    /\ UNCHANGED <<copy, handle, pc, locals, out, lost, behind, faults, health>>

\* The device was found with the configuration it has, which is then cached.
Init ==
    /\ HandleOf \in Users /\ kernel \in Kernels /\ present = TRUE /\ active \in Values \cup {0}
    /\ \E b \in IF active = 0 THEN {"none"} ELSE {"none", "driver"} :
         bound = [i \in Interfaces |-> b]
    /\ cache = (IF sysfs_has_descriptors THEN 0 ELSE active) /\ dangling = FALSE
    /\ opened = [h \in Handles |-> FALSE] /\ lock = [h \in Handles |-> "none"]
    /\ claimed_interfaces = [h \in Handles |-> {}]
    /\ pc = [t \in Threads |-> "idle"] /\ arg = [t \in Threads |-> 0]
    /\ r = [t \in Threads |-> "ok"] /\ want = [t \in Threads |-> 0]
    /\ len = [t \in Threads |-> 0] /\ out = [t \in Threads |-> Nothing]
    /\ lost = 0 /\ quiet = {} /\ raced = FALSE /\ behind = {}
    /\ faults = 0 /\ health = "ok"

Claiming(t) == \/ libusb_claim_interface(t) \/ op_claim_interface(t) \/ Claimed(t)
               \/ libusb_release_interface(t) \/ op_release_interface(t) \/ Released(t)
               \/ libusb_set_interface_alt_setting(t) \/ op_set_interface(t)
               \/ libusb_detach_kernel_driver(t) \/ libusb_attach_kernel_driver(t)
Configuring(t) == \/ libusb_set_configuration(t) \/ Recache(t) \/ FreeCopy(t) \/ StoreCopy(t)
                  \/ libusb_reset_device(t)
Reading(t) == \/ libusb_get_configuration(t) \/ libusb_get_active_config_descriptor(t)
              \/ ReadValue(t) \/ LookupFails(t) \/ Lookup(t) \/ ReadHeader(t) \/ ReadBody(t)
Next == \/ \E t \in Claimers : Claiming(t)
        \/ \E t \in Configurers : Configuring(t)
        \/ \E t \in Readers : Reading(t)
        \/ \E h \in Handles : libusb_open(h) \/ libusb_close(h)
        \/ Unplug \/ OtherProgram

Spec == Init /\ [][Next]_vars
----------------------------------------------------------------------------
(* Properties *)

\* Types of all variables.
TypeOK ==
    /\ HandleOf \in Users /\ kernel \in Kernels
    /\ present \in BOOLEAN /\ active \in Values \cup {0}
    /\ bound \in [Interfaces -> Handles \cup {"none", "driver"}]
    /\ cache \in Values \cup {0} /\ dangling \in BOOLEAN
    /\ opened \in [Handles -> BOOLEAN] /\ lock \in [Handles -> Threads \cup {"none"}]
    /\ claimed_interfaces \in [Handles -> SUBSET Interfaces]
    /\ pc \in [Threads -> {"idle", "claim", "claimed", "release", "released", "alt", "recache",
                           "recached", "store", "value", "lookup", "header", "body"}]
    /\ arg \in [Threads -> Interfaces \cup Values \cup {-1, 0}]
    /\ r \in [Threads -> {"ok", "no device", "not found", "busy", "other"}]
    /\ want \in [Threads -> Values \cup {0}] /\ len \in [Threads -> Nat]
    /\ out \in [Threads -> [op : {"none", "configuration", "descriptor"},
                            r : {"ok", "error", "not found"}, value : Values \cup {0, Unset}]]
    /\ lost \in 0..MaxLost /\ quiet \subseteq Threads /\ raced \in BOOLEAN
    /\ behind \subseteq Handles \X Interfaces /\ faults \in 0..MaxFaults
    /\ health \in {"ok", "copy freed twice", "copy used after free", "read past the copy",
                   "parsed past the buffer"}

\* While nobody is about to change them, the bits of a handle are the claims
\* the kernel has noted for its file, however threads, handles and programs
\* interleave: except for those the kernel has changed unasked.
ClaimsAgree ==
    present => \A h \in Handles : opened[h] /\ lock[h] = "none" =>
        \A i \in Interfaces : <<h, i>> \notin behind =>
            (i \in claimed_interfaces[h] <=> bound[i] = h)

\* A call that nothing disturbs returns the descriptor of the configuration
\* that is active, or says that there is none; if sysfs has the descriptors
\* the value must have two digits.
QuietRead ==
    \A t \in quiet :
        (pc[t] = "idle" /\ out[t].op = "descriptor" /\ ~raced) =>
            \/ out[t].r = "ok" /\ out[t].value = active
            \/ out[t].r = "not found" /\ active = 0
            \/ out[t].r = "error" /\ sysfs_has_descriptors /\ active >= 100

\* A call that nothing disturbs stays within the copy and the buffer, and
\* uses no copy that was freed.
QuietSafe ==
    \A t \in quiet :
        /\ pc[t] \in {"header", "body"} => ~dangling
        /\ pc[t] = "body" => cache # 0 /\ len[t] = Total(cache)

\* Unless two threads have set the configuration at a time, or it was set
\* behind libusb's back, the cached copy is that of the active configuration.
CacheCurrent ==
    (present /\ ~sysfs_has_descriptors /\ ~raced /\ ~\E t \in Threads : Recaching(t))
        => cache = active /\ ~dangling

\* What the handles believe to own is what the kernel has noted for them.
ClaimsOK == TypeOK /\ ClaimsAgree

\* A call that nothing disturbs tells the truth, and touches no memory that is
\* not its own.
ReadOK == QuietRead /\ QuietSafe

\* libusb_get_configuration: the value is valid if it returns 0.
ConfigurationTold ==
    \A t \in Threads : out[t].op = "configuration" /\ out[t].r = "ok" => out[t].value # Unset

\* An interface a handle believes to have claimed is its own.
ClaimsOwned ==
    present => \A h \in Handles : opened[h] /\ lock[h] = "none" =>
        \A i \in claimed_interfaces[h] : bound[i] = h

\* libusb_get_active_config_descriptor reads no memory but its own.
ReadsSafe == health = "ok"
============================================================================
