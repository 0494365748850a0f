--------------------------- MODULE LibusbDevices ---------------------------
(***************************************************************************)
(* How libusb 1.0.8 finds the devices of a Linux system and counts who     *)
(* uses them: libusb_get_device_list with the scan of sysfs or usbfs below *)
(* it (core.c, os/linux_usbfs.c), references, opening and closing.         *)
(*                                                                         *)
(* Devices come and go during a scan, files cannot be read, memory runs    *)
(* out.  The bus numbers its devices; an address is not seen again (the    *)
(* FIXME of enumerate_device), and all are on one bus.  The poll set that  *)
(* libusb_open and libusb_close change is the subject of LibusbIo.         *)
(*                                                                         *)
(* Places of a thread (pc): idle, opendir next (the directory loops), stat *)
(* busnum devnum (sysfs_scan_device), lookup alloc append                  *)
(* (enumerate_device), init open active read (initialize_device), sanitize,*)
(* unref destroy (libusb_unref_device), done fail (libusb_get_device_list).*)
(***************************************************************************)
EXTENDS Integers, Sequences, FiniteSets, SequencesExt

CONSTANTS Threads,
          Scanners,   \* the threads that call libusb_get_device_list
          Kernels,    \* subset of {"none", "old", "busnum", "descriptors"}
          Addrs,      \* device addresses
          Odd,        \* those whose descriptor names no configuration
          Step,       \* DISCOVERED_DEVICES_SIZE_STEP, scaled
          MaxDevs,    \* bound: libusb_device structures
          MaxHandles, \* bound: handles open at a time
          MaxScans,   \* bound: scans of a thread
          MaxErrors   \* bound: failing calls

ASSUME ThreadsAssumption == Scanners \subseteq Threads /\ IsFiniteSet(Threads)
ASSUME KernelsAssumption == Kernels \subseteq {"none", "old", "busnum", "descriptors"}
ASSUME DeviceBounds ==
    /\ Addrs \subseteq Nat \ {0} /\ Odd \subseteq Addrs /\ Step \in Nat \ {0}
    /\ MaxDevs \in Nat /\ MaxHandles \in Nat /\ MaxScans \in Nat /\ MaxErrors \in Nat

VARIABLES
    kernel,    \* what sysfs offers: see Kernels
    plugged, seen,                 \* addresses on the bus, now and ever
    sysfs_can_relate_devices, sysfs_has_descriptors,
    ldev,       \* libusb_device, by number
    usb_devs,  \* the list of known devices, newest first
    files,     \* open files of the process
    unpolled,  \* history: opens that failed after the file was opened
    handles,   \* open handles: the device of each, 0 is a free slot
    lists,     \* per thread: the list it was given
    scan,      \* per thread: locals of the scan
    drop, then,\* per thread: references to give back, and where to go then
    pc, result, scans,
    quiet,     \* history: threads whose scan nothing has disturbed
    steady,    \* history: per thread, what was plugged in all through its scan
    errors, health

world == <<kernel, plugged, seen>>
globals == <<sysfs_can_relate_devices, sysfs_has_descriptors>>
devices == <<ldev, usb_devs>>
app == <<handles, lists, unpolled>>
walk == <<drop, then>>
history == <<quiet, steady, errors>>
devices_vars == <<world, globals, devices, files, app, scan, walk, pc, result, scans,
          history, health>>

Objs == 1..MaxDevs
Sound == health = "ok"
NoDev == [addr |-> 0, refcnt |-> 0, dir |-> FALSE, desc |-> FALSE, state |-> "none"]
NoScan == [via |-> "none", todo |-> {}, at |-> 0, cur |-> 0, fresh |-> FALSE,
           devs |-> <<>>, cap |-> 0, moved |-> FALSE, configured |-> FALSE]
MoveTo(t, place) == pc' = [pc EXCEPT ![t] = place]

\* A call of t may fail, as often as the bound allows, or not.
Fails(t) == /\ errors < MaxErrors /\ errors' = errors + 1
            /\ quiet' = quiet \ {t} /\ UNCHANGED steady
Works == UNCHANGED history
----------------------------------------------------------------------------
(* References *)

\* libusb_ref_device and the first half of libusb_unref_device, under the
\* device's lock.
Ref(o) == /\ ldev' = [ldev EXCEPT ![o].refcnt = @ + 1]
          /\ health' = IF ldev[o].state = "freed" THEN "used_after_free" ELSE health

\* The references in s are given back one by one, then t goes on at place.
GiveBack(t, s, place) ==
    /\ drop' = [drop EXCEPT ![t] = s] /\ then' = [then EXCEPT ![t] = place]
    /\ MoveTo(t, IF s = <<>> THEN place ELSE "unref")

libusb_unref_device(t) ==
    LET o == Head(drop[t]) IN
    /\ Sound /\ pc[t] = "unref"
    /\ ldev' = [ldev EXCEPT ![o].refcnt = @ - 1]
    /\ health' = IF ldev[o].state = "freed" THEN "used_after_free" ELSE health
    /\ IF ldev[o].refcnt = 1
       THEN MoveTo(t, "destroy") /\ UNCHANGED walk
       ELSE GiveBack(t, Tail(drop[t]), then[t])
    /\ UNCHANGED <<world, globals, usb_devs, files, app, scan, result, scans, history>>

\* The place on the list of the newest device that is one of objs.
Newest(objs) == LET places == {k \in DOMAIN usb_devs : usb_devs[k] \in objs}
                IN  CHOOSE k \in places : \A l \in places : k <= l

\* The last reference is gone: off the list, under usb_devs_lock, and freed.
\* The count was lowered before, so that the device could be found meanwhile.
destroy_device(t) ==
    LET o == Head(drop[t]) IN
    /\ Sound /\ pc[t] = "destroy"
    /\ ldev' = [ldev EXCEPT ![o].state = "freed", ![o].dir = FALSE, ![o].desc = FALSE]
    /\ usb_devs' = IF o \in Range(usb_devs) THEN RemoveAt(usb_devs, Newest({o})) ELSE usb_devs
    /\ health' = IF ldev[o].state = "freed" THEN "freed_twice" ELSE health
    /\ GiveBack(t, Tail(drop[t]), then[t])
    /\ UNCHANGED <<world, globals, files, app, scan, result, scans, history>>
----------------------------------------------------------------------------
(* libusb_get_device_list *)

libusb_get_device_list(t) ==
    /\ Sound /\ pc[t] = "idle" /\ t \in Scanners
    /\ scans[t] < MaxScans /\ lists[t] = <<>>
    /\ scans' = [scans EXCEPT ![t] = @ + 1]
    /\ scan' = [scan EXCEPT ![t] = [NoScan EXCEPT !.cap = Step,
                  !.via = IF sysfs_can_relate_devices # 0 THEN "sysfs" ELSE "usbfs"]]
    /\ quiet' = quiet \cup {t}
    /\ steady' = [steady EXCEPT ![t] = plugged]
    /\ result' = [result EXCEPT ![t] = "none"]
    /\ MoveTo(t, "opendir")
    /\ UNCHANGED <<world, globals, devices, files, app, walk, errors, health>>

\* What one step of a scan leaves alone unless it says otherwise.
ScanFrame == UNCHANGED <<world, app, result, scans>>
NoDevice == UNCHANGED <<devices, health>>

\* The scan fails: a new device is given up, then all that was found.
Abort(t) == /\ GiveBack(t, IF scan[t].fresh THEN <<scan[t].cur>> ELSE <<>>, "fail")
            /\ scan' = [scan EXCEPT ![t].fresh = FALSE]

\* The directory of sysfs, or of usbfs, is opened.
OpenDir(t) ==
    /\ Sound /\ pc[t] = "opendir"
    /\ \/ /\ Works
          /\ scan' = [scan EXCEPT ![t].todo = plugged]
          /\ MoveTo(t, "next") /\ UNCHANGED walk
       \/ Fails(t) /\ Abort(t)
    /\ ScanFrame /\ NoDevice /\ UNCHANGED <<globals, files>>

\* readdir: the names come in any order.
ReadDir(t) ==
    /\ Sound /\ pc[t] = "next"
    /\ IF scan[t].todo = {}
       THEN MoveTo(t, "done") /\ UNCHANGED scan
       ELSE \E a \in scan[t].todo :
              /\ scan' = [scan EXCEPT ![t].at = a, ![t].todo = @ \ {a}, ![t].fresh = FALSE]
              /\ MoveTo(t, IF scan[t].via = "sysfs" THEN "stat" ELSE "lookup")
    /\ ScanFrame /\ NoDevice /\ Works /\ UNCHANGED <<globals, files, walk>>
----------------------------------------------------------------------------
(* sysfs_scan_device *)

Present(t) == scan[t].at \in plugged

\* Whether there are descriptors files is asked once, of the first device.
StatDescriptors(t) ==
    /\ Sound /\ pc[t] = "stat"
    /\ sysfs_has_descriptors' =
         IF sysfs_has_descriptors # -1 THEN sysfs_has_descriptors
         ELSE IF kernel = "descriptors" /\ Present(t) THEN 1 ELSE 0
    /\ MoveTo(t, "busnum")
    /\ ScanFrame /\ NoDevice /\ Works
    /\ UNCHANGED <<sysfs_can_relate_devices, files, scan, walk>>

\* Mutant: what was found so far is all.
FallBack_Done(t) ==
    /\ Sound /\ pc[t] = "busnum"
    /\ kernel = "old" \/ ~Present(t)
    /\ sysfs_can_relate_devices' = 0
    /\ MoveTo(t, "done")
    /\ ScanFrame /\ NoDevice /\ Works /\ UNCHANGED <<sysfs_has_descriptors, files, scan, walk>>

\* No busnum file: the kernel has none, or the device has just gone.  Either
\* way the scan starts again in usbfs, with what it has found so far.
FallBack(t) ==
    /\ Sound /\ pc[t] = "busnum"
    /\ kernel = "old" \/ ~Present(t)
    /\ sysfs_can_relate_devices' = 0
    /\ scan' = [scan EXCEPT ![t].via = "usbfs"]
    /\ MoveTo(t, "opendir")
    /\ ScanFrame /\ NoDevice /\ Works /\ UNCHANGED <<sysfs_has_descriptors, files, walk>>

ReadBusnum(t) ==
    /\ Sound /\ pc[t] = "busnum"
    /\ kernel # "old" /\ Present(t)
    /\ \/ /\ Works
          /\ sysfs_can_relate_devices' = 1
          /\ MoveTo(t, "devnum") /\ UNCHANGED <<scan, walk>>
       \/ Fails(t) /\ Abort(t) /\ UNCHANGED sysfs_can_relate_devices
    /\ ScanFrame /\ NoDevice /\ UNCHANGED <<sysfs_has_descriptors, files>>

ReadDevnum(t) ==
    /\ Sound /\ pc[t] = "devnum"
    /\ IF Present(t) THEN MoveTo(t, "lookup") /\ UNCHANGED <<scan, walk>> ELSE Abort(t)
    /\ ScanFrame /\ NoDevice /\ Works /\ UNCHANGED <<globals, files>>
----------------------------------------------------------------------------
(* enumerate_device *)

\* usbi_get_device_by_session_id: the device is found under usb_devs_lock but
\* no reference to it is taken there.
Known(a) == {o \in Range(usb_devs) : ldev[o].addr = a}

Lookup(t) ==
    LET known == Known(scan[t].at) IN
    /\ Sound /\ pc[t] = "lookup"
    /\ IF known = {}
       THEN MoveTo(t, "alloc") /\ UNCHANGED scan
       ELSE /\ scan' = [scan EXCEPT ![t].cur = usb_devs[Newest(known)]]
            /\ MoveTo(t, "append")
    /\ ScanFrame /\ NoDevice /\ Works /\ UNCHANGED <<globals, files, walk>>

\* A device is on usb_devs, with one reference, before it is initialized.
usbi_alloc_device(t) ==
    LET new == {o \in Objs : ldev[o].state = "none"}
        o == CHOOSE o \in new : \A p \in new : o <= p
    IN
    /\ Sound /\ pc[t] = "alloc" /\ new # {}
    /\ \/ /\ Works
          /\ ldev' = [ldev EXCEPT ![o] = [NoDev EXCEPT !.addr = scan[t].at, !.refcnt = 1,
                                                     !.state = "live"]]
          /\ usb_devs' = <<o>> \o usb_devs
          /\ scan' = [scan EXCEPT ![t].cur = o, ![t].fresh = TRUE]
          /\ MoveTo(t, "init") /\ UNCHANGED walk
       \/ Fails(t) /\ Abort(t) /\ UNCHANGED devices
    /\ ScanFrame /\ UNCHANGED <<globals, files, health>>

\* The reference a new device was made with (need_unref).
FirstRef(t) == IF scan[t].fresh THEN <<scan[t].cur>> ELSE <<>>

\* discovered_devs_append takes a reference.  A full block is grown, in place
\* or by moving it.
discovered_devs_append(t) ==
    LET full == Len(scan[t].devs) = scan[t].cap
        o == scan[t].cur
    IN
    /\ Sound /\ pc[t] = "append"
    /\ \/ /\ Works /\ Ref(o)
          /\ \E move \in IF full THEN BOOLEAN ELSE {FALSE} :
               scan' = [scan EXCEPT ![t].devs = Append(@, o), ![t].fresh = FALSE,
                                    ![t].cap = IF full THEN @ + Step ELSE @,
                                    ![t].moved = @ \/ move]
          /\ GiveBack(t, FirstRef(t), "next")
       \/ full /\ Fails(t) /\ Abort(t) /\ UNCHANGED <<ldev, health>>
    /\ ScanFrame /\ UNCHANGED <<globals, usb_devs, files>>
----------------------------------------------------------------------------
(* initialize_device and usbi_sanitize_device *)

\* Mutant: the directory is not remembered.
sysfs_dir_Forgotten(t) == FALSE
sysfs_dir(t) == scan[t].via = "sysfs"

\* With descriptors in sysfs there is nothing to read now.  Otherwise the
\* active configuration comes from sysfs, where devices can be related to it.
InitDevice(t) ==
    LET related == sysfs_can_relate_devices # 0
    IN
    /\ Sound /\ pc[t] = "init"
    /\ ldev' = [ldev EXCEPT ![scan[t].cur].dir = sysfs_dir(t)]
    /\ \/ /\ Works /\ sysfs_has_descriptors # 0
          /\ MoveTo(t, "sanitize") /\ UNCHANGED <<scan, walk>>
       \/ /\ Works /\ sysfs_has_descriptors = 0
          /\ IF related /\ ~(sysfs_dir(t) /\ Present(t)) THEN Abort(t)
             ELSE /\ \E yes \in IF related THEN BOOLEAN ELSE {TRUE} :
                       scan' = [scan EXCEPT ![t].configured = yes]
                  /\ MoveTo(t, "open") /\ UNCHANGED walk
       \/ Fails(t) /\ Abort(t)
    /\ ScanFrame /\ UNCHANGED <<globals, usb_devs, files, health>>

\* The usbfs node, for reading and writing or for reading only: then the
\* active configuration cannot be asked for.
OpenNode(t) ==
    /\ Sound /\ pc[t] = "open"
    /\ \/ /\ Works /\ Present(t)
          /\ files' = files + 1
          /\ \E place \in IF sysfs_can_relate_devices # 0 THEN {"read"}
                          ELSE {"read", "active"} : MoveTo(t, place)
          /\ UNCHANGED <<scan, walk>>
       \/ Works /\ ~Present(t) /\ Abort(t) /\ UNCHANGED files
       \/ Fails(t) /\ Abort(t) /\ UNCHANGED files
    /\ ScanFrame /\ NoDevice /\ UNCHANGED globals

\* usbfs_get_active_config: a device that gives no answer, or 0, counts as
\* unconfigured; one that is gone ends the scan.
GetActiveConfig(t) ==
    /\ Sound /\ pc[t] = "active"
    /\ IF Present(t)
       THEN /\ \E yes \in BOOLEAN : scan' = [scan EXCEPT ![t].configured = yes]
            /\ MoveTo(t, "read") /\ UNCHANGED <<walk, files>>
       ELSE files' = files - 1 /\ Abort(t)
    /\ ScanFrame /\ NoDevice /\ Works /\ UNCHANGED globals

\* The device descriptor and, of a configured device, that of the active
\* configuration are cached; whatever fails, the file is closed.
ReadDescriptors(t) ==
    /\ Sound /\ pc[t] = "read"
    /\ files' = files - 1
    /\ \/ /\ Works /\ Present(t)
          /\ ldev' = [ldev EXCEPT ![scan[t].cur].desc = TRUE]
          /\ MoveTo(t, "sanitize") /\ UNCHANGED <<scan, walk>>
       \/ Works /\ ~Present(t) /\ Abort(t) /\ UNCHANGED ldev
       \/ Fails(t) /\ Abort(t) /\ UNCHANGED ldev
    /\ ScanFrame /\ UNCHANGED <<globals, usb_devs, health>>

\* The descriptor of o, from sysfs or from the cache, can be read.
Readable(o) == IF sysfs_has_descriptors # 0
               THEN ldev[o].dir /\ ldev[o].addr \in plugged ELSE ldev[o].desc

Sane(o) == Readable(o) /\ ldev[o].addr \notin Odd

usbi_sanitize_device(t) ==
    LET o == scan[t].cur IN
    /\ Sound /\ pc[t] = "sanitize"
    /\ \/ /\ Works
          /\ IF Sane(o) THEN MoveTo(t, "append") /\ UNCHANGED <<scan, walk>> ELSE Abort(t)
       \/ sysfs_has_descriptors # 0 /\ Fails(t) /\ Abort(t)
    /\ ScanFrame /\ NoDevice /\ UNCHANGED <<globals, files>>
----------------------------------------------------------------------------
(* The end of a scan *)

\* Mutant: the references of the collection pass to the list of a failed call.
Failed_Kept(t) == <<>>
Failed(t) == scan[t].devs

\* What was found is given back.  A scan of usbfs leaves its caller the block
\* it started with, which is gone if it was moved.
ScanFails(t) ==
    /\ Sound /\ pc[t] = "fail"
    /\ IF scan[t].moved /\ scan[t].via = "usbfs"
       THEN /\ health' = "collection_freed"
            /\ UNCHANGED <<scan, walk, pc, result>>
       ELSE /\ health' = health
            /\ scan' = [scan EXCEPT ![t] = NoScan]
            /\ result' = [result EXCEPT ![t] = "error"]
            /\ GiveBack(t, Failed(t), "idle")
    /\ UNCHANGED <<world, globals, devices, files, app, scans, history>>

\* The list takes a reference to each device before the collection gives its
\* own back: the counts end as they were.
ScanDone(t) ==
    /\ Sound /\ pc[t] = "done"
    /\ \/ /\ Works
          /\ lists' = [lists EXCEPT ![t] = scan[t].devs]
          /\ scan' = [scan EXCEPT ![t] = NoScan]
          /\ result' = [result EXCEPT ![t] = "ok"]
          /\ MoveTo(t, "idle") /\ UNCHANGED walk
       \/ /\ Fails(t)   \* no memory for the list
          /\ lists' = lists
          /\ scan' = [scan EXCEPT ![t] = NoScan]
          /\ result' = [result EXCEPT ![t] = "error"]
          /\ GiveBack(t, scan[t].devs, "idle")
    /\ UNCHANGED <<world, globals, devices, files, handles, unpolled, scans, health>>

libusb_free_device_list(t) ==
    /\ Sound /\ pc[t] = "idle" /\ lists[t] # <<>>
    /\ lists' = [lists EXCEPT ![t] = <<>>]
    /\ result' = [result EXCEPT ![t] = "none"]
    /\ GiveBack(t, lists[t], "idle")
    /\ UNCHANGED <<world, globals, devices, files, handles, unpolled, scan, scans,
                   history, health>>
----------------------------------------------------------------------------
(* Handles *)

\* libusb_open of a device of t's list.  A handle that cannot be opened gives
\* its reference back; if only the poll set has no room for it, its file
\* stays open.
libusb_open(t) ==
    /\ Sound /\ pc[t] = "idle"
    /\ \E o \in Range(lists[t]), h \in 1..MaxHandles :
         /\ handles[h] = 0 /\ \A k \in 1..(h - 1) : handles[k] # 0
         /\ \/ /\ Works /\ ldev[o].addr \in plugged
               /\ Ref(o)
               /\ files' = files + 1 /\ handles' = [handles EXCEPT ![h] = o]
               /\ UNCHANGED unpolled
            \/ /\ Fails(t) /\ ldev[o].addr \in plugged
               /\ files' = files + 1 /\ unpolled' = unpolled + 1
               /\ UNCHANGED <<ldev, health, handles>>
    /\ UNCHANGED <<world, globals, usb_devs, lists, scan, walk, pc, result, scans>>

\* libusb_close, by any thread.
libusb_close(t) ==
    /\ Sound /\ pc[t] = "idle"
    /\ \E h \in 1..MaxHandles :
         /\ handles[h] # 0
         /\ handles' = [handles EXCEPT ![h] = 0]
         /\ GiveBack(t, <<handles[h]>>, "idle")
    /\ files' = files - 1
    /\ UNCHANGED <<world, globals, devices, lists, unpolled, scan, result, scans,
                   history, health>>
----------------------------------------------------------------------------
(* The bus *)

Attach ==
    /\ Sound
    /\ \E a \in Addrs \ seen : plugged' = plugged \cup {a} /\ seen' = seen \cup {a}
    /\ quiet' = {}
    /\ UNCHANGED <<kernel, globals, devices, files, app, scan, walk, pc, result, scans,
                   steady, errors, health>>

Detach ==
    /\ Sound
    /\ \E a \in plugged :
         /\ plugged' = plugged \ {a}
         /\ steady' = [t \in Threads |-> steady[t] \ {a}]
    /\ quiet' = {}
    /\ UNCHANGED <<kernel, seen, globals, devices, files, app, scan, walk, pc, result,
                   scans, errors, health>>
----------------------------------------------------------------------------
\* op_init asks whether sysfs is there at all.
DevicesInit ==
    /\ kernel \in Kernels
    /\ sysfs_can_relate_devices = IF kernel = "none" THEN 0 ELSE -1
    /\ sysfs_has_descriptors = IF kernel = "none" THEN 0 ELSE -1
    /\ plugged \in SUBSET Addrs /\ seen = plugged
    /\ ldev = [o \in Objs |-> NoDev] /\ usb_devs = <<>>
    /\ files = 0 /\ unpolled = 0
    /\ handles = [h \in 1..MaxHandles |-> 0]
    /\ lists = [t \in Threads |-> <<>>]
    /\ scan = [t \in Threads |-> NoScan]
    /\ drop = [t \in Threads |-> <<>>] /\ then = [t \in Threads |-> "idle"]
    /\ pc = [t \in Threads |-> "idle"] /\ result = [t \in Threads |-> "none"]
    /\ scans = [t \in Threads |-> 0]
    /\ quiet = {} /\ steady = [t \in Threads |-> {}]
    /\ errors = 0 /\ health = "ok"

Call(t) == libusb_get_device_list(t) \/ libusb_free_device_list(t)
             \/ libusb_open(t) \/ libusb_close(t)
Inside(t) ==
    \/ libusb_unref_device(t) \/ destroy_device(t)
    \/ OpenDir(t) \/ ReadDir(t) \/ StatDescriptors(t) \/ FallBack(t)
    \/ ReadBusnum(t) \/ ReadDevnum(t)
    \/ Lookup(t) \/ usbi_alloc_device(t) \/ discovered_devs_append(t)
    \/ InitDevice(t) \/ OpenNode(t) \/ GetActiveConfig(t) \/ ReadDescriptors(t)
    \/ usbi_sanitize_device(t) \/ ScanFails(t) \/ ScanDone(t)
DevicesNext == Attach \/ Detach \/ \E t \in Threads : Call(t) \/ Inside(t)

DevicesSpec == DevicesInit /\ [][DevicesNext]_devices_vars
----------------------------------------------------------------------------
(* Properties *)

\* Types of all variables.
DevicesTypes ==
    /\ kernel \in Kernels /\ plugged \subseteq seen /\ seen \subseteq Addrs
    /\ sysfs_can_relate_devices \in {-1, 0, 1} /\ sysfs_has_descriptors \in {-1, 0, 1}
    /\ ldev \in [Objs -> [addr : Addrs \cup {0}, refcnt : Nat, dir : BOOLEAN,
                         desc : BOOLEAN, state : {"none", "live", "freed"}]]
    /\ usb_devs \in Seq(Objs) /\ files \in Nat /\ unpolled \in Nat
    /\ handles \in [1..MaxHandles -> Objs \cup {0}]
    /\ lists \in [Threads -> Seq(Objs)]
    /\ scan \in [Threads -> [via : {"none", "sysfs", "usbfs"}, todo : SUBSET Addrs,
                             at : Addrs \cup {0}, cur : Objs \cup {0}, fresh : BOOLEAN,
                             devs : Seq(Objs), cap : Nat, moved : BOOLEAN,
                             configured : BOOLEAN]]
    /\ drop \in [Threads -> Seq(Objs)] /\ then \in [Threads -> {"idle", "next", "fail"}]
    /\ pc \in [Threads -> {"idle", "opendir", "next", "stat", "busnum", "devnum",
                           "lookup", "alloc", "append", "init", "open", "active", "read",
                           "sanitize", "unref", "destroy", "done", "fail"}]
    /\ result \in [Threads -> {"none", "ok", "error"}]
    /\ scans \in [Threads -> 0..MaxScans]
    /\ quiet \subseteq Threads /\ steady \in [Threads -> SUBSET Addrs]
    /\ errors \in 0..MaxErrors
    /\ health \in {"ok", "used_after_free", "freed_twice",
                   "collection_freed"}

\* References to o that somebody has: the scan that made it, collections,
\* lists, handles and the ones about to be given back.
Count(s, o) == Cardinality({i \in DOMAIN s : s[i] = o})
HeldBy(t, o) ==
    Count(lists[t], o) + Count(scan[t].devs, o) + Count(drop[t], o)
      + (IF scan[t].fresh /\ scan[t].cur = o THEN 1 ELSE 0)
      - (IF pc[t] = "destroy" /\ Head(drop[t]) = o THEN 1 ELSE 0)
Holders(o) == Count(handles, o)
                + Cardinality(UNION {{t} \X (1..HeldBy(t, o)) : t \in Threads})

\* The reference count of a device is the number of those that hold it,
\* through every failure half way of a scan: so that when nobody holds a
\* device any more it is off the list and freed.
RefsMatch ==
    Sound => \A o \in Objs : ldev[o].state = "live" =>
        /\ ldev[o].refcnt = Holders(o)
        /\ ldev[o].refcnt = 0 =>
             \E t \in Threads : pc[t] = "destroy" /\ Head(drop[t]) = o
        /\ o \in Range(usb_devs)

\* Every file opened during a scan is closed, whatever fails: what stays open
\* belongs to a handle, to a read under way, or to an open that could not be
\* added to the poll set.
FilesClosed ==
    files = Cardinality({h \in 1..MaxHandles : handles[h] # 0}) + unpolled
              + Cardinality({t \in Threads : pc[t] \in {"active", "read"}})

\* Whatever fails in the middle of a scan, no reference and no file is lost.
DevicesOK == DevicesTypes /\ RefsMatch /\ FilesClosed

\* A device on a list has a descriptor to show, although where that comes from
\* was decided by a global once and can be another than when the device was
\* first seen.  (Otherwise usbfs_get_device_descriptor reads through NULL.)
DescriptorsAvailable ==
    Sound => \A t \in Threads : \A o \in Range(lists[t]) :
        ldev[o].state = "live" =>
            IF sysfs_has_descriptors # 0 THEN ldev[o].dir ELSE ldev[o].desc

\* A list that is handed out has every device that was plugged in from the
\* beginning of the call to its end.
ScanComplete ==
    \A t \in Threads : (Sound /\ pc[t] = "idle" /\ result[t] = "ok") =>
        steady[t] \subseteq {ldev[o].addr : o \in Range(lists[t])}

\* A list has all the devices it should, and each of them can be asked for its
\* descriptor.
ListsOK == ScanComplete /\ DescriptorsAvailable

\* A scan that nothing disturbs succeeds, unless an earlier one fell back to
\* usbfs although the kernel has descriptors in sysfs.
FellBack == sysfs_has_descriptors = 1 /\ sysfs_can_relate_devices = 0
SteadyScan ==
    \A t \in quiet : result[t] = "error" => FellBack \/ plugged \cap Odd # {}

\* A scan that nothing disturbs succeeds (libusb_get_device_list: returns a
\* list of the devices currently attached).
SteadyScanSucceeds == \A t \in quiet : result[t] # "error"

\* What somebody holds has not been freed (core.c: thread safe).
HeldAlive ==
    \A o \in Objs : Holders(o) > 0 => ldev[o].state = "live"

\* Every device is on a list once.
ListedOnce == \A t \in Threads : IsInjective(lists[t])
============================================================================
