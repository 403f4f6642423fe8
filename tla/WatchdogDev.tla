----------------------------- MODULE WatchdogDev -----------------------------
(***************************************************************************)
(* The character-device half of the watchdog core, watchdog_dev.c, for one *)
(* watchdog device behind /dev/watchdog (id 0, the misc node): its         *)
(* registration and removal by the driver thread, open, write, ioctl and   *)
(* release by user threads, the heartbeat hrtimer and the watchdogd        *)
(* kthread worker that the timer queues.                                   *)
(*                                                                         *)
(* Time is left out here: a timer that is armed may expire at any moment,  *)
(* and a timeout is known only by what watchdog_need_worker can tell apart *)
(* (zero, within the hardware's reach, beyond it).  What is kept is every  *)
(* lock, reference count, status bit and timer command, in source order.   *)
(* watchdog_update_worker decides in one step and programs the timer in    *)
(* the next, because watchdog_open, the tail of watchdog_dev_register and  *)
(* the stop of watchdog_cdev_unregister call it without wd_data->lock.     *)
(* The timer commands one handler issues in a row count as its last one.   *)
(***************************************************************************)
EXTENDS Integers, FiniteSets

CONSTANTS
    Thread,     \* user threads that may use /dev/watchdog (sharing one fd)
    Device,     \* the watchdog devices to consider, records of DeviceType
    Timeout,    \* the classes of timeout WDIOC_SETTIMEOUT may select
    EarlyOpen   \* can user space open the node before registration returns?

TimeoutClass == {"zero", "short", "long"}

(***************************************************************************)
(* What the driver and the module parameters fix for one device:           *)
(*   boot              the hardware is running when the driver registers   *)
(*   canStop           ops->stop really stops it (dw_wdt: a reset line)    *)
(*   noWayOut, magicClose, stopOnUnregister   WDOG_NO_WAY_OUT,             *)
(*                     WDIOF_MAGICCLOSE, WDOG_STOP_ON_UNREGISTER           *)
(*   handleBoot        handle_boot_enabled                                 *)
(*   mayFail           the driver's start, stop, ping may return an error  *)
(*   throttle          min_hw_heartbeat_ms is not zero                     *)
(*   timeout           wdd->timeout at registration                        *)
(*   removal           how the driver goes away: not at all, by unloading  *)
(*                     its module, or by unbinding it through sysfs        *)
(***************************************************************************)
DeviceType ==
    [boot : BOOLEAN, canStop : BOOLEAN, noWayOut : BOOLEAN,
     magicClose : BOOLEAN, stopOnUnregister : BOOLEAN, handleBoot : BOOLEAN,
     mayFail : BOOLEAN, throttle : BOOLEAN, timeout : TimeoutClass,
     removal : {"never", "rmmod", "unbind"}]

ASSUME ConstantsAssumption ==
    /\ Device \subseteq DeviceType
    /\ Timeout \subseteq TimeoutClass
    /\ EarlyOpen \in BOOLEAN
    /\ Thread \cap {"free", "worker"} = {}

VARIABLES
    device,      \* the device this behaviour is about; never changes
    reg,         \* how far the driver thread is with registration or removal
    status,      \* wdd->status: WDOG_ACTIVE and WDOG_HW_RUNNING
    hw,          \* is the hardware counting down?
    timeout,     \* class of wdd->timeout
    core,        \* wd_data->status: _WDOG_DEV_OPEN and _WDOG_ALLOW_RELEASE
    kref,        \* references to wd_data->dev; wd_data is freed at 0
    modref,      \* module reference count of the driver; 1 is its base
    lock,        \* who holds wd_data->lock
    timer,       \* is the hrtimer armed?
    work,        \* is the kthread work queued?
    wk,          \* the watchdogd worker inside watchdog_ping_work
    tm,          \* timer command decided on but not yet issued, by section
    pc,          \* what each user thread is doing
    hw_running,  \* the local variable of the watchdog_open in progress
    file,        \* is there a struct file open on the node?
    lastWrite    \* history: the last write, seen from the current session

vars == <<device, reg, status, hw, timeout, core, kref, modref, lock, timer,
          work, wk, tm, pc, hw_running, file, lastWrite>>

StatusBit == {"ACTIVE", "HW_RUNNING"}
CoreBit   == {"DEV_OPEN", "ALLOW_RELEASE"}
TimerCmd  == {"none", "arm", "cancel"}

\* The places that call watchdog_update_worker: under wd_data->lock, in
\* watchdog_open, and in the driver thread.
Section == {"lock", "open", "driver"}

RegState == {"off", "misc", "cdev", "tail", "program", "on",
             "del", "dereg", "stopped", "clear", "cancel", "drain", "put",
             "gone", "failed"}

PcState == {"idle", "open", "opened", "write", "ioctl", "unlock",
            "release", "released", "put"}

WorkerState == {"idle", "wait", "pinged", "skipped", "oops"}

-----------------------------------------------------------------------------
(* Views of the driver thread's progress.                                  *)

Registering == {"off", "misc", "cdev", "tail", "program"}

\* /dev/watchdog can be opened between misc_register and misc_deregister.
NodeExists == reg \in {"misc", "cdev", "tail", "program", "on", "del"}

\* wd_data->wdd is not NULL.
HasWdd == reg \notin {"off", "cancel", "drain", "put", "gone", "failed"}

\* misc_open holds misc_mtx around watchdog_open, and misc_deregister takes it.
OpenInProgress == \E t \in Thread : pc[t] \in {"open", "opened"}

\* A system call on the open file that has not returned holds the struct file.
FileInUse == \E t \in Thread : pc[t] \in {"write", "ioctl", "unlock"}

-----------------------------------------------------------------------------
(* watchdog_start, watchdog_stop, watchdog_ping and what they call, as     *)
(* operators from the state d of the device to the set of states it may be *)
(* in afterwards.  d.tm is the last timer command, d.ok is err >= 0.       *)

Dev == [status |-> status, hw |-> hw, timeout |-> timeout,
        tm |-> "none", ok |-> TRUE]

DevState == [status : SUBSET StatusBit, hw : BOOLEAN, timeout : TimeoutClass,
             tm : TimerCmd, ok : BOOLEAN]

watchdog_active(d)     == "ACTIVE" \in d.status
watchdog_hw_running(d) == "HW_RUNNING" \in d.status

watchdog_need_worker(d) ==
    \/ watchdog_active(d) /\ d.timeout = "long"
    \/ ~watchdog_active(d) /\ watchdog_hw_running(d) /\ d.timeout # "zero"

\* Is the interval that watchdog_next_keepalive computes positive?  While the
\* watchdog is inactive it is half a heartbeat; while it is active the last
\* useful heartbeat may already be in the past.
watchdog_next_keepalive(d) ==
    IF watchdog_active(d) THEN BOOLEAN ELSE {TRUE}

watchdog_update_worker(d) ==
    IF watchdog_need_worker(d)
    THEN {[d EXCEPT !.tm = IF positive THEN "arm" ELSE @]
            : positive \in watchdog_next_keepalive(d)}
    ELSE {[d EXCEPT !.tm = "cancel"]}

\* The outcomes S of a driver operation that returned an error.
IfOpsFail(S) == IF device.mayFail THEN S ELSE {}

\* Mutant: the ping is not followed by watchdog_update_worker.
hw_watchdog_ping_once(d) == {[d EXCEPT !.ok = TRUE]}

\* __watchdog_ping: a ping too close to the previous one is only scheduled.
hw_watchdog_ping(d) ==
    (IF device.throttle THEN {[d EXCEPT !.tm = "arm", !.ok = TRUE]} ELSE {})
    \cup watchdog_update_worker([d EXCEPT !.ok = TRUE])
    \cup IfOpsFail(watchdog_update_worker([d EXCEPT !.ok = FALSE]))

watchdog_ping(d) ==
    IF ~watchdog_active(d) /\ ~watchdog_hw_running(d)
    THEN {[d EXCEPT !.ok = TRUE]}
    ELSE hw_watchdog_ping(d)

\* A running device is pinged, one that is not is started.
watchdog_start(d) ==
    IF watchdog_active(d)
    THEN {[d EXCEPT !.ok = TRUE]}
    ELSE watchdog_update_worker(
             [d EXCEPT !.status = @ \cup {"ACTIVE"},
                       !.hw = @ \/ ~watchdog_hw_running(d), !.ok = TRUE])
         \cup IfOpsFail({[d EXCEPT !.ok = FALSE]})

\* Mutant: the worker is not updated.
watchdog_stop_no_update(d) ==
    IF ~watchdog_active(d) THEN {[d EXCEPT !.ok = TRUE]}
    ELSE IF device.noWayOut THEN {[d EXCEPT !.ok = FALSE]}
    ELSE {[d EXCEPT !.status = IF device.canStop THEN {} ELSE {"HW_RUNNING"},
                    !.hw = @ /\ ~device.canStop, !.ok = TRUE]}

\* Mutant: a device that cannot be stopped is not marked as running.
watchdog_stop_forgets_running(d) ==
    IF ~watchdog_active(d) THEN {[d EXCEPT !.ok = TRUE]}
    ELSE IF device.noWayOut THEN {[d EXCEPT !.ok = FALSE]}
    ELSE watchdog_update_worker(
             [d EXCEPT !.status = {}, !.hw = @ /\ ~device.canStop, !.ok = TRUE])

\* Mutant: WDOG_HW_RUNNING is not cleared before ops->stop.
watchdog_stop_keeps_running_bit(d) ==
    IF ~watchdog_active(d) THEN {[d EXCEPT !.ok = TRUE]}
    ELSE IF device.noWayOut THEN {[d EXCEPT !.ok = FALSE]}
    ELSE watchdog_update_worker(
             [d EXCEPT !.status = @ \ {"ACTIVE"},
                       !.hw = @ /\ ~device.canStop, !.ok = TRUE])

\* Mutant: nowayout is not tested.
watchdog_stop_despite_nowayout(d) ==
    IF ~watchdog_active(d) THEN {[d EXCEPT !.ok = TRUE]}
    ELSE watchdog_update_worker(
             [d EXCEPT !.status = IF device.canStop THEN {} ELSE {"HW_RUNNING"},
                       !.hw = @ /\ ~device.canStop, !.ok = TRUE])

\* A driver that cannot stop leaves the device marked as running, either
\* here (no ops->stop) or in its own stop operation (dw_wdt_stop).
watchdog_stop(d) ==
    IF ~watchdog_active(d)
    THEN {[d EXCEPT !.ok = TRUE]}
    ELSE IF device.noWayOut
    THEN {[d EXCEPT !.ok = FALSE]}
    ELSE watchdog_update_worker(
             [d EXCEPT !.status = IF device.canStop THEN {} ELSE {"HW_RUNNING"},
                       !.hw = @ /\ ~device.canStop, !.ok = TRUE])
         \cup (IF device.canStop
               THEN IfOpsFail({[d EXCEPT !.status = @ \ {"HW_RUNNING"},
                                         !.ok = FALSE]})
               ELSE {})

\* Mutant: an invalid value is not refused.
watchdog_set_timeout_unchecked(d) ==
    UNION {watchdog_update_worker([d EXCEPT !.timeout = t, !.ok = TRUE])
             : t \in Timeout \cup {"invalid"}}

\* An invalid value is refused at once; otherwise the worker is updated even
\* when the driver's set_timeout failed.
watchdog_set_timeout(d) ==
    {[d EXCEPT !.ok = FALSE]}
    \cup (UNION {watchdog_update_worker([d EXCEPT !.timeout = t, !.ok = TRUE])
                   : t \in Timeout})
    \cup IfOpsFail(watchdog_update_worker([d EXCEPT !.ok = FALSE]))

\* WDIOC_SETOPTIONS with the option bits given.
watchdog_set_options(d, options) ==
    UNION {IF s.ok /\ "ENABLECARD" \in options THEN watchdog_start(s) ELSE {s}
             : s \in IF "DISABLECARD" \in options THEN watchdog_stop(d)
                                                  ELSE {d}}

\* The switch of watchdog_ioctl.  The commands that only read, or that fail,
\* leave the device as it is.
watchdog_ioctl(d) ==
    {d}
    \cup (UNION {watchdog_set_options(d, options)
                   : options \in SUBSET {"DISABLECARD", "ENABLECARD"}})
    \cup watchdog_ping(d)
    \cup (UNION {IF s.ok THEN watchdog_ping(s) ELSE {s}
                   : s \in watchdog_set_timeout(d)})

\* watchdog_release up to its last watchdog_update_worker: stop if allowed,
\* ping if that failed.
watchdog_release(d, allowed) ==
    LET stopped == IF ~watchdog_active(d) THEN {[d EXCEPT !.ok = TRUE]}
                   ELSE IF allowed \/ ~device.magicClose THEN watchdog_stop(d)
                   ELSE {[d EXCEPT !.ok = FALSE]}
        pinged  == UNION {IF s.ok THEN {s} ELSE watchdog_ping(s)
                            : s \in stopped}
    IN  UNION {watchdog_update_worker(s) : s \in pinged}

-----------------------------------------------------------------------------
(* Initial state and shared pieces of the actions.                         *)

Init ==
    /\ device \in Device
    /\ reg = "off"
    /\ status = IF device.boot THEN {"HW_RUNNING"} ELSE {}
    /\ hw = device.boot
    /\ timeout = device.timeout
    /\ core = {}
    /\ kref = 0
    /\ modref = 1
    /\ lock = "free"
    /\ timer = FALSE
    /\ work = FALSE
    /\ wk = "idle"
    /\ tm = [s \in Section |-> "none"]
    /\ pc = [t \in Thread |-> "idle"]
    /\ hw_running = FALSE
    /\ file = FALSE
    /\ lastWrite = "unopened"

\* The device state becomes d; its timer command is issued by section s later.
Becomes(d, s) ==
    /\ status' = d.status
    /\ hw' = d.hw
    /\ timeout' = d.timeout
    /\ tm' = [tm EXCEPT ![s] = d.tm]

\* hrtimer_start or hrtimer_cancel, as section s decided.
ProgramTimer(s) ==
    /\ timer' = CASE tm[s] = "arm"    -> TRUE
                  [] tm[s] = "cancel" -> FALSE
                  [] OTHER            -> timer
    /\ tm' = [tm EXCEPT ![s] = "none"]

Goto(t, label) == pc' = [pc EXCEPT ![t] = label]

\* module_put and put_device stop at zero (the kernel only warns).
module_put(n) == IF n > 0 THEN n - 1 ELSE 0
put_device(n) == IF n > 0 THEN n - 1 ELSE 0

\* try_module_get fails once rmmod has begun, or when the count has underflowed.
CanGetModule == modref > 0 /\ ~(device.removal = "rmmod" /\ reg = "del")

devVars   == <<status, hw, timeout>>
refVars   == <<kref, modref>>
timerVars == <<timer, work, wk>>
fileVars  == <<pc, hw_running, file, lastWrite>>

-----------------------------------------------------------------------------
(* Registration: watchdog_dev_register.                                    *)

\* watchdog_cdev_register up to misc_register.  From here on the node exists.
RegisterMisc ==
    /\ reg = "off"
    /\ \/ reg' = "misc" /\ kref' = 1
       \/ reg' = "failed" /\ kref' = 0
    /\ UNCHANGED <<device, devVars, core, modref, lock, timerVars, tm, fileVars>>

\* cdev_device_add and the rest of watchdog_cdev_register: pin the driver and
\* feed at once if the hardware is already running.
RegisterCdev ==
    /\ reg = "misc"
    /\ reg' = "cdev"
    /\ IF "HW_RUNNING" \in status
       THEN /\ modref' = modref + 1
            /\ kref' = kref + 2
            /\ timer' = (timer \/ device.handleBoot)
       ELSE kref' = kref + 1 /\ UNCHANGED <<modref, timer>>
    /\ UNCHANGED <<device, devVars, core, lock, work, wk, tm, fileVars>>

\* cdev_device_add failed: the misc node and the reference go away again.
RegisterCdevFails ==
    /\ reg = "misc"
    /\ ~OpenInProgress
    /\ reg' = "failed"
    /\ kref' = put_device(kref)
    /\ UNCHANGED <<device, devVars, core, modref, lock, timerVars, tm, fileVars>>

\* The tail of watchdog_dev_register, without wd_data->lock: mark the hardware
\* running and start it; the result of ops->start is ignored.
RegisterStart ==
    /\ reg = "cdev"
    /\ reg' = "tail"
    /\ status' = status \cup {"HW_RUNNING"}
    /\ hw' \in {TRUE} \cup IfOpsFail({hw})
    /\ UNCHANGED <<device, timeout, core, refVars, lock, timerVars, tm, fileVars>>

\* ... and update the worker, in two steps.
RegisterUpdateWorker ==
    /\ reg = "tail"
    /\ reg' = "program"
    /\ \E d \in watchdog_update_worker(Dev) : Becomes(d, "driver")
    /\ UNCHANGED <<device, core, refVars, lock, timerVars, fileVars>>

RegisterDone ==
    /\ reg = "program"
    /\ reg' = "on"
    /\ ProgramTimer("driver")
    /\ UNCHANGED <<device, devVars, core, refVars, lock, work, wk, fileVars>>

-----------------------------------------------------------------------------
(* Removal: watchdog_dev_unregister, called from the driver's remove.      *)

\* rmmod needs an unused module; unbinding through sysfs does not.
Unregister ==
    /\ reg = "on"
    /\ \/ device.removal = "unbind"
       \/ device.removal = "rmmod" /\ modref = 1
    /\ reg' = "del"
    /\ kref' = put_device(kref)
    /\ UNCHANGED <<device, devVars, core, modref, lock, timerVars, tm, fileVars>>

MiscDeregister ==
    /\ reg = "del"
    /\ ~OpenInProgress
    /\ reg' = "dereg"
    /\ UNCHANGED <<device, devVars, core, refVars, lock, timerVars, tm, fileVars>>

\* The watchdog_stop of WDOG_STOP_ON_UNREGISTER, without wd_data->lock.
UnregisterStop ==
    /\ reg = "dereg"
    /\ reg' = "stopped"
    /\ \E d \in IF "ACTIVE" \in status /\ device.stopOnUnregister
                THEN watchdog_stop(Dev) ELSE {Dev} : Becomes(d, "driver")
    /\ UNCHANGED <<device, core, refVars, lock, timerVars, fileVars>>

UnregisterStopped ==
    /\ reg = "stopped"
    /\ reg' = "clear"
    /\ ProgramTimer("driver")
    /\ UNCHANGED <<device, devVars, core, refVars, lock, work, wk, fileVars>>

\* Mutant: wdd is cleared without taking the lock.
UnregisterClearWdd_unlocked ==
    /\ reg = "clear"
    /\ reg' = "cancel"
    /\ UNCHANGED <<device, devVars, core, refVars, lock, timerVars, tm, fileVars>>

\* Mutant: the lock is still held when the timer and the work are cancelled.
UnregisterClearWdd_keeps_lock ==
    /\ reg = "clear"
    /\ lock = "free"
    /\ lock' = "driver"
    /\ reg' = "cancel"
    /\ UNCHANGED <<device, devVars, core, refVars, timerVars, tm, fileVars>>

\* wd_data->wdd = NULL under the lock.
UnregisterClearWdd ==
    /\ reg = "clear"
    /\ lock = "free"
    /\ reg' = "cancel"
    /\ UNCHANGED <<device, devVars, core, refVars, lock, timerVars, tm, fileVars>>

UnregisterCancelTimer ==
    /\ reg = "cancel"
    /\ reg' = "drain"
    /\ timer' = FALSE
    /\ UNCHANGED <<device, devVars, core, refVars, lock, work, wk, tm, fileVars>>

\* kthread_cancel_work_sync removes a queued work and waits for a running one.
UnregisterCancelWork ==
    /\ reg = "drain"
    /\ wk = "idle"
    /\ reg' = "put"
    /\ work' = FALSE
    /\ UNCHANGED <<device, devVars, core, refVars, lock, timer, wk, tm, fileVars>>

UnregisterPut ==
    /\ reg = "put"
    /\ reg' = "gone"
    /\ kref' = put_device(kref)
    /\ UNCHANGED <<device, devVars, core, modref, lock, timerVars, tm, fileVars>>

-----------------------------------------------------------------------------
(* watchdog_open.  It never takes wd_data->lock.                           *)

\* Mutant: the single-open bit is set but not tested.
Open_untested(t) ==
    /\ NodeExists
    /\ EarlyOpen \/ reg \notin Registering
    /\ pc[t] = "idle"
    /\ ~OpenInProgress
    /\ hw_running' = ("HW_RUNNING" \in status)
    /\ IF hw_running' THEN UNCHANGED modref
                      ELSE CanGetModule /\ modref' = modref + 1
    /\ core' = core \cup {"DEV_OPEN"}
    /\ Goto(t, "open")
    /\ UNCHANGED <<device, reg, devVars, kref, lock, timerVars, tm, file, lastWrite>>

\* Mutant: the module reference is never taken.
Open_unpinned(t) ==
    /\ NodeExists
    /\ EarlyOpen \/ reg \notin Registering
    /\ pc[t] = "idle"
    /\ ~OpenInProgress
    /\ "DEV_OPEN" \notin core
    /\ hw_running' = ("HW_RUNNING" \in status)
    /\ core' = core \cup {"DEV_OPEN"}
    /\ Goto(t, "open")
    /\ UNCHANGED <<device, reg, devVars, kref, modref, lock, timerVars, tm, file,
                   lastWrite>>

\* The single-open test, the read of hw_running and the module reference.  An
\* open that finds the bit set, or cannot get the module, changes nothing.
Open(t) ==
    /\ NodeExists
    /\ EarlyOpen \/ reg \notin Registering
    /\ pc[t] = "idle"
    /\ ~OpenInProgress
    /\ "DEV_OPEN" \notin core
    /\ hw_running' = ("HW_RUNNING" \in status)
    /\ IF hw_running' THEN UNCHANGED modref
                      ELSE CanGetModule /\ modref' = modref + 1
    /\ core' = core \cup {"DEV_OPEN"}
    /\ Goto(t, "open")
    /\ UNCHANGED <<device, reg, devVars, kref, lock, timerVars, tm, file, lastWrite>>

\* watchdog_start; an error gives the module back and clears the open bit.
OpenStart(t) ==
    /\ pc[t] = "open"
    /\ \E d \in watchdog_start(Dev) :
         /\ Becomes(d, "open")
         /\ IF d.ok
            THEN Goto(t, "opened") /\ UNCHANGED <<modref, core>>
            ELSE /\ Goto(t, "idle")
                 /\ modref' = module_put(modref)
                 /\ core' = core \ {"DEV_OPEN"}
    /\ UNCHANGED <<device, reg, kref, lock, timerVars, hw_running, file, lastWrite>>

\* Mutant: get_device is missing.
OpenDone_no_get(t) ==
    /\ pc[t] = "opened"
    /\ ProgramTimer("open")
    /\ file' = TRUE
    /\ lastWrite' = IF lastWrite \in {"magic", "stale"} THEN "stale" ELSE "none"
    /\ Goto(t, "idle")
    /\ UNCHANGED <<device, reg, devVars, core, refVars, lock, work, wk, hw_running>>

OpenDone(t) ==
    /\ pc[t] = "opened"
    /\ ProgramTimer("open")
    /\ kref' = IF hw_running THEN kref ELSE kref + 1
    /\ file' = TRUE
    /\ lastWrite' = IF lastWrite \in {"magic", "stale"} THEN "stale" ELSE "none"
    /\ Goto(t, "idle")
    /\ UNCHANGED <<device, reg, devVars, core, modref, lock, work, wk, hw_running>>

-----------------------------------------------------------------------------
(* watchdog_write and watchdog_ioctl.                                      *)

\* Mutant: a write does not forget the magic character of an earlier one.
Write_keeps_magic(t) ==
    /\ file
    /\ pc[t] = "idle"
    /\ \E magic \in BOOLEAN :
         /\ core' = IF magic THEN core \cup {"ALLOW_RELEASE"} ELSE core
         /\ lastWrite' = IF magic THEN "magic" ELSE "plain"
    /\ Goto(t, "write")
    /\ UNCHANGED <<device, reg, devVars, refVars, lock, timerVars, tm, hw_running, file>>

\* The scan for the magic character, without the lock.  A fault in the user
\* buffer returns before the ping, with what was scanned so far.
Write(t) ==
    /\ file
    /\ pc[t] = "idle"
    /\ \E magic \in BOOLEAN :
         /\ core' = IF magic THEN core \cup {"ALLOW_RELEASE"}
                             ELSE core \ {"ALLOW_RELEASE"}
         /\ lastWrite' = IF magic THEN "magic" ELSE "plain"
    /\ \E next \in {"write", "idle"} : Goto(t, next)
    /\ UNCHANGED <<device, reg, devVars, refVars, lock, timerVars, tm, hw_running, file>>

Ioctl(t) ==
    /\ file
    /\ pc[t] = "idle"
    /\ Goto(t, "ioctl")
    /\ UNCHANGED <<device, reg, devVars, core, refVars, lock, timerVars, tm,
                   hw_running, file, lastWrite>>

\* Take the lock; without a wdd the call ends with -ENODEV, otherwise the
\* device moves to one of the states in After and the timer is left to do.
Locked(t, After, next) ==
    /\ lock = "free"
    /\ IF HasWdd
       THEN /\ \E d \in After : Becomes(d, "lock")
            /\ lock' = t
            /\ Goto(t, next)
       ELSE Goto(t, "idle") /\ UNCHANGED <<devVars, tm, lock>>
    /\ UNCHANGED <<device, reg, core, refVars, timerVars, hw_running, file, lastWrite>>

WriteLocked(t) ==
    /\ pc[t] = "write"
    /\ Locked(t, watchdog_ping(Dev), "unlock")

IoctlLocked(t) ==
    /\ pc[t] = "ioctl"
    /\ Locked(t, watchdog_ioctl(Dev), "unlock")

Unlock(t) ==
    /\ pc[t] = "unlock"
    /\ ProgramTimer("lock")
    /\ lock' = "free"
    /\ Goto(t, "idle")
    /\ UNCHANGED <<device, reg, devVars, core, refVars, work, wk, hw_running,
                   file, lastWrite>>

-----------------------------------------------------------------------------
(* watchdog_release, called when the last user of the struct file is gone. *)

Release(t) ==
    /\ file
    /\ pc[t] = "idle"
    /\ ~FileInUse
    /\ file' = FALSE
    /\ Goto(t, "release")
    /\ UNCHANGED <<device, reg, devVars, core, refVars, lock, timerVars, tm,
                   hw_running, lastWrite>>

\* The magic character is consumed only when the watchdog is active.
ReleaseLocked(t) ==
    /\ pc[t] = "release"
    /\ lock = "free"
    /\ IF HasWdd
       THEN /\ \E d \in watchdog_release(Dev, "ALLOW_RELEASE" \in core) :
                 Becomes(d, "lock")
            /\ core' = IF "ACTIVE" \in status THEN core \ {"ALLOW_RELEASE"}
                                              ELSE core
            /\ lock' = t
            /\ Goto(t, "released")
       ELSE Goto(t, "put") /\ UNCHANGED <<devVars, tm, core, lock>>
    /\ UNCHANGED <<device, reg, refVars, timerVars, hw_running, file, lastWrite>>

\* The node can be opened again; the references stay while the core believes
\* the hardware is running.
ReleaseUnlock(t) ==
    /\ pc[t] = "released"
    /\ ProgramTimer("lock")
    /\ core' = core \ {"DEV_OPEN"}
    /\ lock' = "free"
    /\ Goto(t, IF "HW_RUNNING" \in status THEN "idle" ELSE "put")
    /\ UNCHANGED <<device, reg, devVars, refVars, work, wk, hw_running, file, lastWrite>>

\* module_put and put_device, after the unlock.  Before cdev_device_add has
\* returned, cdev.owner is still NULL and module_put does nothing.
ReleasePut(t) ==
    /\ pc[t] = "put"
    /\ modref' = IF reg = "misc" THEN modref ELSE module_put(modref)
    /\ kref' = put_device(kref)
    /\ Goto(t, "idle")
    /\ UNCHANGED <<device, reg, devVars, core, lock, timerVars, tm, hw_running,
                   file, lastWrite>>

-----------------------------------------------------------------------------
(* The heartbeat: watchdog_timer_expired and watchdog_ping_work.           *)

watchdog_timer_expired ==
    /\ timer
    /\ timer' = FALSE
    /\ work' = TRUE
    /\ UNCHANGED <<device, reg, devVars, core, refVars, lock, wk, tm, fileVars>>

\* The worker starts.  Its first statement prints wd_data->wdd->timeout before
\* the lock is taken, and dies of it if wdd is NULL.
WorkerEnter ==
    /\ work
    /\ wk = "idle"
    /\ work' = FALSE
    /\ wk' = IF HasWdd THEN "wait" ELSE "oops"
    /\ UNCHANGED <<device, reg, devVars, core, refVars, lock, timer, tm, fileVars>>

\* Under the lock it prints wdd->timeout again, then pings if it should.
WorkerLocked ==
    /\ wk = "wait"
    /\ lock = "free"
    /\ lock' = "worker"
    /\ \/ /\ ~HasWdd
          /\ wk' = "oops"
          /\ UNCHANGED <<devVars, tm>>
       \/ /\ HasWdd
          /\ status = {}
          /\ wk' = "skipped"
          /\ Becomes(Dev, "lock")
       \/ /\ HasWdd
          /\ status # {}
          /\ wk' = "pinged"
          /\ \E d \in hw_watchdog_ping(Dev) : Becomes(d, "lock")
    /\ UNCHANGED <<device, reg, core, refVars, timer, work, fileVars>>

WorkerUnlock ==
    /\ wk \in {"pinged", "skipped"}
    /\ ProgramTimer("lock")
    /\ lock' = "free"
    /\ wk' = "idle"
    /\ UNCHANGED <<device, reg, devVars, core, refVars, work, fileVars>>

-----------------------------------------------------------------------------
Register == \/ RegisterMisc \/ RegisterCdev \/ RegisterCdevFails
            \/ RegisterStart \/ RegisterUpdateWorker \/ RegisterDone

Remove == \/ MiscDeregister \/ UnregisterStop \/ UnregisterStopped
          \/ UnregisterClearWdd \/ UnregisterCancelTimer
          \/ UnregisterCancelWork \/ UnregisterPut

Call(t) == Open(t) \/ Write(t) \/ Ioctl(t) \/ Release(t)

Acquire(t) == WriteLocked(t) \/ IoctlLocked(t) \/ ReleaseLocked(t)

Continue(t) == \/ OpenStart(t) \/ OpenDone(t) \/ Unlock(t)
               \/ ReleaseUnlock(t) \/ ReleasePut(t)

Worker == WorkerEnter \/ WorkerUnlock

Next == \/ Register
        \/ Unregister
        \/ Remove
        \/ \E t \in Thread : Call(t) \/ Acquire(t) \/ Continue(t)
        \/ watchdog_timer_expired
        \/ Worker
        \/ WorkerLocked

Spec == Init /\ [][Next]_vars

\* Registration, removal and calls in progress go on, an armed timer expires, the
\* worker runs, and nobody waits for wd_data->lock or, in misc_deregister, for
\* misc_mtx for ever (the handoff of a mutex is fair).  User threads need not
\* call anything and nobody needs to remove the driver.
Fairness ==
    /\ WF_vars(Register)
    /\ SF_vars(Remove)
    /\ WF_vars(watchdog_timer_expired)
    /\ WF_vars(Worker)
    /\ SF_vars(WorkerLocked)
    /\ \A t \in Thread : WF_vars(Continue(t)) /\ SF_vars(Acquire(t))

FairSpec == Spec /\ Fairness

-----------------------------------------------------------------------------
(* Properties.                                                             *)

\* Every variable keeps its type; the counters are those of
\* watchdog_cdev_register, watchdog_open and watchdog_release.
TypeOK ==
    /\ device \in Device
    /\ reg \in RegState
    /\ status \in SUBSET StatusBit
    /\ hw \in BOOLEAN
    /\ timeout \in TimeoutClass
    /\ core \in SUBSET CoreBit
    /\ kref \in Nat
    /\ modref \in Nat
    /\ lock \in {"free", "worker"} \cup Thread
    /\ timer \in BOOLEAN
    /\ work \in BOOLEAN
    /\ wk \in WorkerState
    /\ tm \in [Section -> TimerCmd]
    /\ pc \in [Thread -> PcState]
    /\ hw_running \in BOOLEAN
    /\ file \in BOOLEAN
    /\ lastWrite \in {"unopened", "none", "plain", "magic", "stale"}

Active    == "ACTIVE" \in status
HwRunning == "HW_RUNNING" \in status

\* Somebody is bound to ping the hardware: the timer is armed, the work is
\* queued or has begun, or the lock holder is about to arm the timer.
FeedPending ==
    \/ timer
    \/ work
    \/ wk = "wait"
    \/ lock # "free" /\ tm["lock"] = "arm"

\* Once registered, a watchdog whose hardware runs although no user activated
\* it is being fed by the kernel, whatever raced with whatever: the promise of
\* watchdog_need_worker and of dw_wdt.c's header comment.
KernelFeeds == reg = "on" /\ hw /\ ~Active => FeedPending

\* The same once the last user has closed the device and left it inactive, in
\* the words of dw_wdt.c's header comment: the core "will continue to send
\* heartbeat requests after the watchdog device has been closed".
ClosedIsFed ==
    reg = "on" /\ hw /\ ~Active /\ "DEV_OPEN" \notin core => FeedPending

\* The hardware never counts down without one of the status bits saying so
\* (nobody would ping, stop or pin it): no path through watchdog_stop,
\* watchdog_start and the register tail loses it.
NoOrphanedHardware == hw => Active \/ HwRunning

\* An active watchdog really has its hardware counting: watchdog_start may ping
\* instead of starting only when HW_RUNNING is true of the hardware.
ActiveMeansCounting == reg = "on" /\ Active => hw

\* _WDOG_DEV_OPEN admits one session at a time, from the test in watchdog_open
\* to the clear_bit in watchdog_release.
Session(t) == pc[t] \in {"open", "opened", "release", "released"}
SingleOpen ==
    /\ \A t, u \in Thread : Session(t) /\ Session(u) => t = u
    /\ file => \A t \in Thread : ~Session(t)

\* wd_data is not freed while the driver thread, the file, a call, the timer or
\* the worker can still reach it: get_device and put_device balance over
\* boot-time running, open, stop, release and removal in any order.
InUse ==
    \/ reg \notin {"off", "gone", "failed"}
    \/ file
    \/ \E t \in Thread : pc[t] # "idle"
    \/ timer \/ work \/ wk # "idle"
NoUseAfterFree == InUse => kref > 0

\* After watchdog_cdev_unregister nothing of the heartbeat is left: no armed
\* timer, no queued or running work, although users may still hold the file
\* and were allowed to re-arm the timer until wdd was cleared.
QuiescentAfterRemoval ==
    reg \in {"put", "gone"} => ~timer /\ ~work /\ wk = "idle"

\* watchdog_release stops the watchdog only if the last write to the device
\* held the magic character (and the driver asks for it with WDIOF_MAGICCLOSE).
\* The code does not mind if that was in an earlier session ("stale").
StoppedByRelease ==
    Active /\ ~Active' /\ \E t \in Thread : ReleaseLocked(t)
StopNeedsMagic ==
    [][StoppedByRelease /\ device.magicClose
         => lastWrite \in {"magic", "stale"}]_vars

\* Under nowayout no ioctl, release, watchdog_dev_unregister or failing
\* operation ever stops hardware that counts.  (A reboot notifier and what a
\* driver's own remove does to the reset line are not modelled.)
NoWayOutKeepsCounting == [][device.noWayOut /\ hw => hw']_vars

\* The removal that rmmod starts never meets an open file or a call on it.
NoRmmodUnderUser ==
    /\ device.removal = "rmmod" /\ ~device.mayFail
    /\ reg \in {"dereg", "stopped", "clear", "cancel", "drain", "put", "gone"}
    => ~file /\ \A t \in Thread : pc[t] \in {"idle", "put"}

\* Every call on the device returns and a removal that has begun ends: users,
\* worker and removal, which wait for the mutex, for the running work and for
\* opens in progress, never wait in a circle.  The exception is the worker that
\* meets the cleared wdd in the debugging output of watchdog_ping_work and dies:
\* removal may then wait for it for ever, and calls too if it died with the lock.
Removing ==
    reg \in {"del", "dereg", "stopped", "clear", "cancel", "drain", "put"}
DiedLocked == wk = "oops" /\ lock = "worker"
CallsReturn ==
    /\ \A t \in Thread : (pc[t] # "idle") ~> (pc[t] = "idle" \/ DiedLocked)
    /\ Removing ~> (reg = "gone" \/ wk = "oops")

\* A watchdog that runs without an active user is pinged again and again.
KernelKeepsFeeding == <>[](reg = "on" /\ hw /\ ~Active) => []<>(wk = "pinged")

=============================================================================
