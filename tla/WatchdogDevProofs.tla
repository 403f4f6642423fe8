-------------------------- MODULE WatchdogDevProofs --------------------------
(***************************************************************************)
(* Proofs about WatchdogDev, for any set of threads and of devices.        *)
(*                                                                         *)
(* Sound is closed under every operator on the device state, so that one   *)
(* lemma per operator is all the actions need.  Inv is the inductive       *)
(* invariant behind KernelFeeds: a pending cancel, wherever it is pending, *)
(* implies that the kernel has nothing to feed.                            *)
(***************************************************************************)
EXTENDS WatchdogDev, TLAPS

\* The hardware runs without an active user, and its timeout is known: the
\* kernel has to feed it.
MustFeed(S, T) == "ACTIVE" \notin S /\ "HW_RUNNING" \in S /\ T # "zero"

\* A device whose hardware is accounted for by its status bits.
Accounted(T, d) ==
    /\ d \in DevState
    /\ d.timeout \in Timeout \cup {T}
    /\ d.hw => d.status # {}

\* A state d that a handler, entered with the status bits S and the timeout T,
\* may reach: if the kernel has to feed the hardware then the timer is about
\* to be armed, or it had to before and nothing was decided.
Sound(S, T, d) ==
    /\ Accounted(T, d)
    /\ MustFeed(d.status, d.timeout)
         => d.tm = "arm" \/ (d.tm = "none" /\ MustFeed(S, T))

\* No timeout of 0 is configured or accepted.
NoZeroTimeout ==
    "zero" \notin Timeout /\ \A d \in Device : d.timeout # "zero"

-----------------------------------------------------------------------------
(* Lemmas about the operators on the device state.                         *)

\* watchdog_update_worker changes nothing but the timer command, and always
\* arms the timer of a device the kernel has to feed.
LEMMA UpdateWorkerSound ==
    ASSUME NEW S, NEW T, NEW d, Accounted(T, d),
           NEW e \in watchdog_update_worker(d)
    PROVE  /\ Sound(S, T, e)
           /\ e.status = d.status /\ e.timeout = d.timeout /\ e.ok = d.ok
           /\ MustFeed(e.status, e.timeout) => e.tm = "arm"
  <1>1. \A c \in TimerCmd :
          LET f == [d EXCEPT !.tm = c]
          IN  /\ f \in DevState
              /\ f.status = d.status /\ f.hw = d.hw /\ f.timeout = d.timeout
              /\ f.ok = d.ok /\ f.tm = c
    BY DEF Accounted, DevState
  <1>2. \E c \in TimerCmd :
          /\ e = [d EXCEPT !.tm = c]
          /\ MustFeed(d.status, d.timeout) => c = "arm"
    <2>1. CASE watchdog_need_worker(d)
      <3>1. PICK positive \in watchdog_next_keepalive(d) :
               e = [d EXCEPT !.tm = IF positive THEN "arm" ELSE d.tm]
        BY <2>1 DEF watchdog_update_worker
      <3>2. (IF positive THEN "arm" ELSE d.tm) \in TimerCmd
        BY DEF Accounted, DevState, TimerCmd
      <3>3. MustFeed(d.status, d.timeout) => positive = TRUE
        BY DEF MustFeed, watchdog_next_keepalive, watchdog_active
      <3> QED BY <3>1, <3>2, <3>3
    <2>2. CASE ~watchdog_need_worker(d)
      <3>1. e = [d EXCEPT !.tm = "cancel"]
        BY <2>2 DEF watchdog_update_worker
      <3>2. ~MustFeed(d.status, d.timeout)
        BY <2>2 DEF watchdog_need_worker, watchdog_active, watchdog_hw_running,
                    MustFeed
      <3> QED BY <3>1, <3>2 DEF TimerCmd
    <2> QED BY <2>1, <2>2
  <1> QED BY <1>1, <1>2 DEF Sound, Accounted

\* A ping, sent or scheduled, leaves a device that is to be fed with an armed
\* timer.
LEMMA HwPingSound ==
    ASSUME NEW S, NEW T, NEW d, Sound(S, T, d), NEW e \in hw_watchdog_ping(d)
    PROVE  /\ Sound(S, T, e)
           /\ e.status = d.status /\ e.timeout = d.timeout
           /\ MustFeed(e.status, e.timeout) => e.tm = "arm"
  <1> DEFINE on == [d EXCEPT !.ok = TRUE]
             off == [d EXCEPT !.ok = FALSE]
  <1>1. /\ Accounted(T, on)
        /\ Accounted(T, off)
        /\ on.status = d.status /\ off.status = d.status
        /\ on.timeout = d.timeout /\ off.timeout = d.timeout
    BY DEF Sound, Accounted, DevState
  <1> HIDE DEF on, off
  <1>2. CASE e = [d EXCEPT !.tm = "arm", !.ok = TRUE]
    BY <1>2 DEF Sound, Accounted, DevState, TimerCmd
  <1>3. CASE e \in watchdog_update_worker(on)
    BY <1>1, <1>3, UpdateWorkerSound
  <1>4. CASE e \in watchdog_update_worker(off)
    BY <1>1, <1>4, UpdateWorkerSound
  <1> QED BY <1>2, <1>3, <1>4 DEF hw_watchdog_ping, IfOpsFail, on, off

\* watchdog_ping.
LEMMA PingSound ==
    ASSUME NEW S, NEW T, NEW d, Sound(S, T, d), NEW e \in watchdog_ping(d)
    PROVE  Sound(S, T, e)
  <1>1. CASE e = [d EXCEPT !.ok = TRUE]
    BY <1>1 DEF Sound, Accounted, DevState
  <1>2. CASE e \in hw_watchdog_ping(d)
    BY <1>2, HwPingSound
  <1> QED BY <1>1, <1>2 DEF watchdog_ping

\* Starting marks the device active before anything else is decided.
LEMMA StartSound ==
    ASSUME NEW S, NEW T, NEW d, Sound(S, T, d), NEW e \in watchdog_start(d)
    PROVE  /\ Sound(S, T, e)
           /\ e.ok => "ACTIVE" \in e.status
           /\ ~e.ok => e.status = d.status /\ e.timeout = d.timeout
  <1> DEFINE on == [d EXCEPT !.status = @ \cup {"ACTIVE"},
                             !.hw = @ \/ ~watchdog_hw_running(d), !.ok = TRUE]
  <1>1. /\ Accounted(T, on)
        /\ "ACTIVE" \in on.status /\ on.ok
    BY DEF Sound, Accounted, DevState, StatusBit
  <1> HIDE DEF on
  <1>2. CASE watchdog_active(d) /\ e = [d EXCEPT !.ok = TRUE]
    BY <1>2 DEF Sound, Accounted, DevState, watchdog_active
  <1>3. CASE e \in watchdog_update_worker(on)
    <2>1. Sound(S, T, e) /\ e.status = on.status
      BY <1>1, <1>3, UpdateWorkerSound
    <2>2. e.ok
      BY <1>1, <1>3, UpdateWorkerSound
    <2> QED BY <1>1, <2>1, <2>2
  <1>4. CASE e = [d EXCEPT !.ok = FALSE]
    BY <1>4 DEF Sound, Accounted, DevState
  <1> QED BY <1>2, <1>3, <1>4 DEF watchdog_start, IfOpsFail, on

\* Stopping never leaves counting hardware without a status bit.
LEMMA StopSound ==
    ASSUME NEW S, NEW T, NEW d, Sound(S, T, d), NEW e \in watchdog_stop(d)
    PROVE  Sound(S, T, e)
  <1> DEFINE off == [d EXCEPT !.status = IF device.canStop THEN {}
                                                           ELSE {"HW_RUNNING"},
                              !.hw = @ /\ ~device.canStop, !.ok = TRUE]
  <1>1. Accounted(T, off)
    BY DEF Sound, Accounted, DevState, StatusBit
  <1>2. CASE \E b \in BOOLEAN : e = [d EXCEPT !.ok = b]
    BY <1>2 DEF Sound, Accounted, DevState
  <1>3. CASE e \in watchdog_update_worker(off)
    BY <1>1, <1>3, UpdateWorkerSound
  <1>4. CASE watchdog_active(d)
             /\ e = [d EXCEPT !.status = @ \ {"HW_RUNNING"}, !.ok = FALSE]
    <2>1. /\ e \in DevState
          /\ e.status = d.status \ {"HW_RUNNING"}
          /\ e.timeout = d.timeout
      BY <1>4 DEF Sound, Accounted, DevState
    <2>2. "ACTIVE" \in e.status
      BY <1>4, <2>1 DEF watchdog_active
    <2> QED BY <2>1, <2>2 DEF Sound, Accounted, MustFeed
  <1> QED BY <1>2, <1>3, <1>4 DEF watchdog_stop, IfOpsFail

\* watchdog_set_timeout.
LEMMA SetTimeoutSound ==
    ASSUME NEW S, NEW T, NEW d, Sound(S, T, d), NEW e \in watchdog_set_timeout(d)
    PROVE  Sound(S, T, e)
  <1>1. CASE e = [d EXCEPT !.ok = FALSE]
    BY <1>1 DEF Sound, Accounted, DevState
  <1>2. ASSUME NEW t \in Timeout,
               e \in watchdog_update_worker([d EXCEPT !.timeout = t, !.ok = TRUE])
        PROVE  Sound(S, T, e)
    <2> DEFINE f == [d EXCEPT !.timeout = t, !.ok = TRUE]
    <2>1. Accounted(T, f)
      BY ConstantsAssumption DEF Sound, Accounted, DevState
    <2> QED BY <1>2, <2>1, UpdateWorkerSound
  <1>3. CASE e \in watchdog_update_worker([d EXCEPT !.ok = FALSE])
    <2> DEFINE f == [d EXCEPT !.ok = FALSE]
    <2>1. Accounted(T, f)
      BY DEF Sound, Accounted, DevState
    <2> QED BY <1>3, <2>1, UpdateWorkerSound
  <1> QED BY <1>1, <1>2, <1>3 DEF watchdog_set_timeout, IfOpsFail

\* watchdog_ioctl.
LEMMA IoctlSound ==
    ASSUME NEW S, NEW T, NEW d, Sound(S, T, d), NEW e \in watchdog_ioctl(d)
    PROVE  Sound(S, T, e)
  <1>1. ASSUME NEW options, e \in watchdog_set_options(d, options)
        PROVE  Sound(S, T, e)
    <2>1. PICK s \in IF "DISABLECARD" \in options THEN watchdog_stop(d) ELSE {d} :
             e \in IF s.ok /\ "ENABLECARD" \in options THEN watchdog_start(s)
                                                       ELSE {s}
      BY <1>1 DEF watchdog_set_options
    <2>2. Sound(S, T, s)
      BY StopSound
    <2> QED BY <2>1, <2>2, StartSound
  <1>2. ASSUME NEW s \in watchdog_set_timeout(d),
               e \in IF s.ok THEN watchdog_ping(s) ELSE {s}
        PROVE  Sound(S, T, e)
    <2>1. Sound(S, T, s)
      BY SetTimeoutSound
    <2> QED BY <1>2, <2>1, PingSound
  <1>3. CASE e \in watchdog_ping(d)
    BY <1>3, PingSound
  <1> QED BY <1>1, <1>2, <1>3 DEF watchdog_ioctl

\* watchdog_release.
LEMMA ReleaseSound ==
    ASSUME NEW S, NEW T, NEW d, Sound(S, T, d), NEW b, NEW e \in watchdog_release(d, b)
    PROVE  Sound(S, T, e)
  <1> DEFINE stopped == IF ~watchdog_active(d) THEN {[d EXCEPT !.ok = TRUE]}
                        ELSE IF b \/ ~device.magicClose THEN watchdog_stop(d)
                        ELSE {[d EXCEPT !.ok = FALSE]}
  <1> DEFINE pinged(s) == IF s.ok THEN {s} ELSE watchdog_ping(s)
  <1>1. PICK s \in stopped :
          \E p \in pinged(s) : e \in watchdog_update_worker(p)
    BY DEF watchdog_release
  <1>2. Sound(S, T, s)
    <2>1. ASSUME NEW r \in BOOLEAN PROVE Sound(S, T, [d EXCEPT !.ok = r])
      BY DEF Sound, Accounted, DevState
    <2> QED BY <2>1, StopSound
  <1>3. PICK p \in pinged(s) : e \in watchdog_update_worker(p)
    BY <1>1
  <1>4. Sound(S, T, p)
    BY <1>2, PingSound
  <1>5. Accounted(T, p)
    BY <1>4 DEF Sound
  <1> QED BY <1>3, <1>5, UpdateWorkerSound

-----------------------------------------------------------------------------
(* The inductive invariants.                                               *)

\* Types, the accounting of the hardware, and where a timeout can come from.
TypeInv ==
    /\ TypeOK
    /\ NoOrphanedHardware
    /\ timeout \in Timeout \cup {device.timeout}

\* Who is in a session with the node and who holds the lock.
SessionInv ==
    /\ SingleOpen
    /\ \A t \in Thread : pc[t] \in {"write", "ioctl", "unlock"} => file
    /\ HasWdd /\ (file \/ \E t \in Thread : Session(t)) => "DEV_OPEN" \in core
    /\ OpenInProgress => NodeExists
    /\ \A t \in Thread : pc[t] \in {"unlock", "released"} => lock = t
    /\ wk \in {"pinged", "skipped"} => lock = "worker"
    /\ reg = "off" => ~file /\ \A t \in Thread : pc[t] = "idle"

\* Before the device is registered nobody uses it, and only boot-time running
\* hardware has a heartbeat.
RegisteringInv ==
    /\ reg \in Registering \cup {"failed"} =>
         /\ \A t \in Thread : pc[t] = "idle"
         /\ ~file
         /\ ~Active
    /\ reg = "off" => ~timer /\ ~work /\ wk = "idle" /\ lock = "free"
    /\ reg \in Registering =>
         /\ timer \/ work \/ wk # "idle" => HwRunning
         /\ lock # "free" /\ timeout # "zero" => tm["lock"] = "arm"
    /\ reg \in {"tail", "program"} => HwRunning
    /\ reg = "program" /\ timeout # "zero" => tm["driver"] = "arm"

\* A pending cancel means that there is nothing to feed, and what is to be fed
\* is going to be.
FeedInv ==
    /\ reg = "on" /\ lock # "free" /\ tm["lock"] = "cancel"
         => ~MustFeed(status, timeout)
    /\ \A t \in Thread : pc[t] = "opened" => Active
    /\ reg = "on" /\ MustFeed(status, timeout) => FeedPending

Inv == TypeInv /\ SessionInv /\ RegisteringInv /\ FeedInv

-----------------------------------------------------------------------------
(* TypeInv is inductive.                                                   *)

\* The fields of the device as one record.
LEMMA DevSound ==
    ASSUME TypeInv
    PROVE  Sound(status, timeout, Dev)
  <1>1. Dev \in DevState
    BY DEF TypeInv, TypeOK, Dev, DevState, TimerCmd
  <1>2. /\ Dev.status = status /\ Dev.hw = hw /\ Dev.timeout = timeout
        /\ Dev.tm = "none"
    BY DEF Dev
  <1>3. hw => status # {}
    BY DEF TypeInv, NoOrphanedHardware, Active, HwRunning
  <1> QED BY <1>1, <1>2, <1>3 DEF Sound, Accounted

\* What a handler leaves behind has the right types and loses no hardware.
LEMMA BecomesTyped ==
    ASSUME TypeInv, NEW d, Sound(status, timeout, d),
           NEW s \in Section, Becomes(d, s), device' = device
    PROVE  /\ status' \in SUBSET StatusBit
           /\ hw' \in BOOLEAN
           /\ timeout' \in TimeoutClass
           /\ tm' \in [Section -> TimerCmd]
           /\ NoOrphanedHardware'
           /\ timeout' \in Timeout \cup {device'.timeout}
  <1>1. /\ d.status \in SUBSET StatusBit /\ d.hw \in BOOLEAN
        /\ d.timeout \in TimeoutClass /\ d.tm \in TimerCmd
        /\ d.timeout \in Timeout \cup {timeout}
        /\ d.hw => d.status # {}
    BY DEF Sound, Accounted, DevState
  <1>2. d.status # {} => "ACTIVE" \in d.status \/ "HW_RUNNING" \in d.status
    BY <1>1 DEF StatusBit
  <1> QED BY <1>1, <1>2 DEF Becomes, TypeInv, TypeOK, NoOrphanedHardware,
                            Active, HwRunning

\* The pending timer command of a critical section is carried out.
LEMMA ProgramTimerTyped ==
    ASSUME TypeInv, NEW s \in Section, ProgramTimer(s)
    PROVE  timer' \in BOOLEAN /\ tm' \in [Section -> TimerCmd]
  BY DEF TypeInv, TypeOK, ProgramTimer, TimerCmd

\* Registration keeps the types.
LEMMA RegisterTyped ==
    ASSUME TypeInv, Register
    PROVE  TypeInv'
  <1> USE DEF devVars, refVars, timerVars, fileVars, RegState
  <1>1. CASE RegisterMisc
    BY <1>1 DEF RegisterMisc, TypeInv, TypeOK, NoOrphanedHardware, Active,
                HwRunning
  <1>2. CASE RegisterCdev
    <2>1. timer' \in BOOLEAN
      BY <1>2 DEF RegisterCdev, TypeInv, TypeOK
    <2>2. kref' \in Nat /\ modref' \in Nat
      BY <1>2 DEF RegisterCdev, TypeInv, TypeOK
    <2> QED BY <1>2, <2>1, <2>2
            DEF RegisterCdev, TypeInv, TypeOK, NoOrphanedHardware, Active,
                HwRunning
  <1>3. CASE RegisterCdevFails
    BY <1>3 DEF RegisterCdevFails, put_device, TypeInv, TypeOK,
                NoOrphanedHardware, Active, HwRunning
  <1>4. CASE RegisterStart
    BY <1>4 DEF RegisterStart, IfOpsFail, StatusBit, TypeInv, TypeOK,
                NoOrphanedHardware, Active, HwRunning
  <1>5. CASE RegisterUpdateWorker
    <2>1. PICK d \in watchdog_update_worker(Dev) : Becomes(d, "driver")
      BY <1>5 DEF RegisterUpdateWorker
    <2>2. Sound(status, timeout, d)
      BY DevSound, UpdateWorkerSound DEF Sound
    <2> QED BY <1>5, <2>1, <2>2, BecomesTyped
            DEF RegisterUpdateWorker, TypeInv, TypeOK, Section
  <1>6. CASE RegisterDone
    BY <1>6, ProgramTimerTyped
       DEF RegisterDone, Section, TypeInv, TypeOK, NoOrphanedHardware, Active,
           HwRunning
  <1> QED BY <1>1, <1>2, <1>3, <1>4, <1>5, <1>6 DEF Register

\* Removal keeps the types.
LEMMA RemoveTyped ==
    ASSUME TypeInv, Unregister \/ Remove
    PROVE  TypeInv'
  <1> USE DEF devVars, refVars, timerVars, fileVars, RegState
  <1>1. CASE Unregister
    BY <1>1 DEF Unregister, put_device, TypeInv, TypeOK, NoOrphanedHardware,
                Active, HwRunning
  <1>2. CASE MiscDeregister
    BY <1>2 DEF MiscDeregister, TypeInv, TypeOK, NoOrphanedHardware, Active,
                HwRunning
  <1>3. CASE UnregisterStop
    <2>1. PICK d \in IF "ACTIVE" \in status /\ device.stopOnUnregister
                     THEN watchdog_stop(Dev) ELSE {Dev} : Becomes(d, "driver")
      BY <1>3 DEF UnregisterStop
    <2>2. Sound(status, timeout, d)
      BY DevSound, StopSound
    <2> QED BY <1>3, <2>1, <2>2, BecomesTyped
            DEF UnregisterStop, TypeInv, TypeOK, Section
  <1>4. CASE UnregisterStopped
    BY <1>4, ProgramTimerTyped
       DEF UnregisterStopped, Section, TypeInv, TypeOK, NoOrphanedHardware,
           Active, HwRunning
  <1>5. CASE UnregisterClearWdd
    BY <1>5 DEF UnregisterClearWdd, TypeInv, TypeOK, NoOrphanedHardware,
                Active, HwRunning
  <1>6. CASE UnregisterCancelTimer
    BY <1>6 DEF UnregisterCancelTimer, TypeInv, TypeOK, NoOrphanedHardware,
                Active, HwRunning
  <1>7. CASE UnregisterCancelWork
    BY <1>7 DEF UnregisterCancelWork, TypeInv, TypeOK, NoOrphanedHardware,
                Active, HwRunning
  <1>8. CASE UnregisterPut
    BY <1>8 DEF UnregisterPut, put_device, TypeInv, TypeOK, NoOrphanedHardware,
                Active, HwRunning
  <1> QED BY <1>1, <1>2, <1>3, <1>4, <1>5, <1>6, <1>7, <1>8 DEF Remove

\* open() keeps the types.
LEMMA OpenTyped ==
    ASSUME TypeInv, NEW t \in Thread, Open(t) \/ OpenStart(t) \/ OpenDone(t)
    PROVE  TypeInv'
  <1> USE DEF devVars, refVars, timerVars, fileVars, PcState, CoreBit
  <1>1. CASE Open(t)
    BY <1>1 DEF Open, Goto, TypeInv, TypeOK, NoOrphanedHardware, Active,
                HwRunning
  <1>2. CASE OpenStart(t)
    <2>1. PICK d \in watchdog_start(Dev) :
            /\ Becomes(d, "open")
            /\ IF d.ok
               THEN Goto(t, "opened") /\ UNCHANGED <<modref, core>>
               ELSE /\ Goto(t, "idle")
                    /\ modref' = module_put(modref)
                    /\ core' = core \ {"DEV_OPEN"}
      BY <1>2 DEF OpenStart
    <2>2. Sound(status, timeout, d)
      BY DevSound, StartSound
    <2>3. /\ modref' \in Nat /\ core' \in SUBSET CoreBit
          /\ pc' \in [Thread -> PcState]
      <3>1. CASE d.ok
        BY <2>1, <3>1 DEF Goto, TypeInv, TypeOK
      <3>2. CASE ~d.ok
        <4>1. /\ modref' = module_put(modref)
              /\ core' = core \ {"DEV_OPEN"}
              /\ pc' = [pc EXCEPT ![t] = "idle"]
          BY <2>1, <3>2 DEF Goto
        <4> QED BY <4>1 DEF module_put, TypeInv, TypeOK
      <3> QED BY <3>1, <3>2
    <2> QED BY <1>2, <2>1, <2>2, <2>3, BecomesTyped
            DEF OpenStart, TypeInv, TypeOK, Section
  <1>3. CASE OpenDone(t)
    BY <1>3, ProgramTimerTyped
       DEF OpenDone, Goto, Section, TypeInv, TypeOK, NoOrphanedHardware, Active,
           HwRunning
  <1> QED BY <1>1, <1>2, <1>3

\* A critical section of the file operations keeps the types.
LEMMA LockedTyped ==
    ASSUME TypeInv, NEW t \in Thread, NEW After,
           \A d \in After : Sound(status, timeout, d),
           Locked(t, After, "unlock")
    PROVE  TypeInv'
  <1> USE DEF devVars, refVars, timerVars, PcState
  <1>1. CASE HasWdd
    <2>1. PICK d \in After : Becomes(d, "lock")
      BY <1>1 DEF Locked
    <2> QED BY <1>1, <2>1, BecomesTyped DEF Locked, Goto, TypeInv, TypeOK, Section
  <1>2. CASE ~HasWdd
    BY <1>2 DEF Locked, Goto, TypeInv, TypeOK, NoOrphanedHardware, Active,
                HwRunning
  <1> QED BY <1>1, <1>2

\* write() and ioctl() keep the types.
LEMMA WriteIoctlTyped ==
    ASSUME TypeInv, NEW t \in Thread,
           \/ Write(t) \/ Ioctl(t) \/ WriteLocked(t) \/ IoctlLocked(t)
           \/ Unlock(t)
    PROVE  TypeInv'
  <1> USE DEF devVars, refVars, timerVars, PcState, CoreBit
  <1>1. CASE Write(t)
    BY <1>1 DEF Write, Goto, TypeInv, TypeOK, NoOrphanedHardware, Active,
                HwRunning
  <1>2. CASE Ioctl(t)
    BY <1>2 DEF Ioctl, Goto, TypeInv, TypeOK, NoOrphanedHardware, Active,
                HwRunning
  <1>3. CASE WriteLocked(t)
    BY <1>3, DevSound, PingSound, LockedTyped DEF WriteLocked
  <1>4. CASE IoctlLocked(t)
    BY <1>4, DevSound, IoctlSound, LockedTyped DEF IoctlLocked
  <1>5. CASE Unlock(t)
    BY <1>5, ProgramTimerTyped
       DEF Unlock, Goto, Section, TypeInv, TypeOK, NoOrphanedHardware, Active,
           HwRunning
  <1> QED BY <1>1, <1>2, <1>3, <1>4, <1>5

\* close() keeps the types.
LEMMA ReleaseTyped ==
    ASSUME TypeInv, NEW t \in Thread,
           \/ Release(t) \/ ReleaseLocked(t) \/ ReleaseUnlock(t)
           \/ ReleasePut(t)
    PROVE  TypeInv'
  <1> USE DEF devVars, refVars, timerVars, PcState, CoreBit
  <1>1. CASE Release(t)
    BY <1>1 DEF Release, Goto, TypeInv, TypeOK, NoOrphanedHardware, Active,
                HwRunning
  <1>2. CASE ReleaseLocked(t) /\ HasWdd
    <2>1. PICK d \in watchdog_release(Dev, "ALLOW_RELEASE" \in core) :
            Becomes(d, "lock")
      BY <1>2 DEF ReleaseLocked
    <2>2. Sound(status, timeout, d)
      BY DevSound, ReleaseSound
    <2>3. /\ core' \in SUBSET CoreBit /\ lock' = t
          /\ pc' \in [Thread -> PcState]
      BY <1>2 DEF ReleaseLocked, Goto, TypeInv, TypeOK
    <2> QED BY <1>2, <2>1, <2>2, <2>3, BecomesTyped
            DEF ReleaseLocked, TypeInv, TypeOK, Section
  <1>3. CASE ReleaseLocked(t) /\ ~HasWdd
    BY <1>3 DEF ReleaseLocked, Goto, TypeInv, TypeOK, NoOrphanedHardware,
                Active, HwRunning
  <1>4. CASE ReleaseUnlock(t)
    BY <1>4, ProgramTimerTyped
       DEF ReleaseUnlock, Goto, Section, TypeInv, TypeOK, NoOrphanedHardware,
           Active, HwRunning
  <1>5. CASE ReleasePut(t)
    BY <1>5 DEF ReleasePut, Goto, module_put, put_device, TypeInv, TypeOK,
                NoOrphanedHardware, Active, HwRunning
  <1> QED BY <1>1, <1>2, <1>3, <1>4, <1>5

\* The timer and the worker keep the types.
LEMMA WorkerTyped ==
    ASSUME TypeInv, watchdog_timer_expired \/ Worker \/ WorkerLocked
    PROVE  TypeInv'
  <1> USE DEF devVars, refVars, timerVars, fileVars, WorkerState
  <1>1. CASE watchdog_timer_expired
    BY <1>1 DEF watchdog_timer_expired, TypeInv, TypeOK, NoOrphanedHardware,
                Active, HwRunning
  <1>2. CASE WorkerEnter
    BY <1>2 DEF WorkerEnter, TypeInv, TypeOK, NoOrphanedHardware, Active,
                HwRunning
  <1>3. CASE WorkerUnlock
    BY <1>3, ProgramTimerTyped
       DEF WorkerUnlock, Section, TypeInv, TypeOK, NoOrphanedHardware, Active,
           HwRunning
  <1>4. CASE WorkerLocked /\ UNCHANGED <<devVars, tm>>
    BY <1>4 DEF WorkerLocked, TypeInv, TypeOK, NoOrphanedHardware, Active,
                HwRunning
  <1>5. ASSUME WorkerLocked, NEW d, Sound(status, timeout, d), Becomes(d, "lock")
        PROVE  TypeInv'
    <2>1. /\ device' = device /\ wk' \in WorkerState /\ lock' = "worker"
          /\ UNCHANGED <<reg, core, refVars, timer, work, fileVars>>
      BY <1>5 DEF WorkerLocked
    <2> QED BY <1>5, <2>1, BecomesTyped DEF TypeInv, TypeOK, Section
  <1>6. CASE WorkerLocked
    BY <1>4, <1>5, <1>6, DevSound, HwPingSound DEF WorkerLocked
  <1> QED BY <1>1, <1>2, <1>3, <1>6 DEF Worker

\* Every step keeps the types.
LEMMA NextTyped == TypeInv /\ [Next]_vars => TypeInv'
  <1> SUFFICES ASSUME TypeInv, [Next]_vars PROVE TypeInv'
    OBVIOUS
  <1>1. CASE UNCHANGED vars
    BY <1>1 DEF vars, TypeInv, TypeOK, NoOrphanedHardware, Active, HwRunning
  <1>2. ASSUME NEW t \in Thread, Call(t) \/ Acquire(t) \/ Continue(t)
        PROVE  TypeInv'
    BY <1>2, OpenTyped, WriteIoctlTyped, ReleaseTyped
       DEF Call, Acquire, Continue
  <1> QED BY <1>1, <1>2, RegisterTyped, RemoveTyped, WorkerTyped DEF Next

\* The types hold at the start.
LEMMA InitTyped == Init => TypeInv
  <1> SUFFICES ASSUME Init PROVE TypeInv
    OBVIOUS
  <1>1. device \in DeviceType
    BY ConstantsAssumption DEF Init
  <1>2. device.boot \in BOOLEAN /\ device.timeout \in TimeoutClass
    BY <1>1 DEF DeviceType
  <1>3. status \in SUBSET StatusBit /\ (device.boot => "HW_RUNNING" \in status)
    BY <1>2 DEF Init, StatusBit
  <1>4. tm \in [Section -> TimerCmd] /\ pc \in [Thread -> PcState]
    BY DEF Init, TimerCmd, PcState
  <1>5. TypeOK
    BY <1>2, <1>3, <1>4 DEF Init, TypeOK, RegState, CoreBit, WorkerState
  <1> QED BY <1>3, <1>5 DEF Init, TypeInv, NoOrphanedHardware, HwRunning

\* Every variable keeps its type, whatever the driver's operations return and
\* whenever user space opens the node: the timeout is one that was checked.
THEOREM TypeCorrect == Spec => []TypeOK
  <1>1. TypeInv => TypeOK
    BY DEF TypeInv
  <1> QED BY <1>1, InitTyped, NextTyped, PTL DEF Spec

\* Counting hardware always carries WDOG_ACTIVE or WDOG_HW_RUNNING, so that
\* somebody answers for it.
THEOREM NothingOrphaned == Spec => []NoOrphanedHardware
  <1>1. TypeInv => NoOrphanedHardware
    BY DEF TypeInv
  <1> QED BY <1>1, InitTyped, NextTyped, PTL DEF Spec

-----------------------------------------------------------------------------
(* SessionInv is inductive: one session at a time, one lock holder.        *)

\* The driver opens and closes nothing.
LEMMA DriverSession ==
    ASSUME TypeInv, SessionInv, Register \/ Unregister \/ Remove
    PROVE  SessionInv'
  <1> USE DEF devVars, refVars, timerVars, fileVars
  <1>1. pc' = pc /\ file' = file /\ core' = core /\ lock' = lock /\ wk' = wk
    BY DEF Register, Remove, RegisterMisc, RegisterCdev, RegisterCdevFails,
           RegisterStart, RegisterUpdateWorker, RegisterDone, Unregister,
           MiscDeregister, UnregisterStop, UnregisterStopped,
           UnregisterClearWdd, UnregisterCancelTimer, UnregisterCancelWork,
           UnregisterPut
  <1>2. /\ reg' # "off"
        /\ HasWdd' => HasWdd \/ reg = "off"
        /\ NodeExists => NodeExists' \/ ~OpenInProgress
    BY DEF Register, Remove, RegisterMisc, RegisterCdev, RegisterCdevFails,
           RegisterStart, RegisterUpdateWorker, RegisterDone, Unregister,
           MiscDeregister, UnregisterStop, UnregisterStopped,
           UnregisterClearWdd, UnregisterCancelTimer, UnregisterCancelWork,
           UnregisterPut, HasWdd, NodeExists
  <1>3. SingleOpen'
    BY <1>1 DEF SessionInv, SingleOpen, Session
  <1>4. OpenInProgress' => NodeExists'
    BY <1>1, <1>2 DEF SessionInv, OpenInProgress
  <1> QED BY <1>1, <1>2, <1>3, <1>4 DEF SessionInv, Session

\* What a step of thread t does to the sessions, in terms of the new label.
LEMMA OpenSession ==
    ASSUME TypeInv, SessionInv, NEW t \in Thread,
           Open(t) \/ OpenStart(t) \/ OpenDone(t)
    PROVE  SessionInv'
  <1> USE DEF devVars, refVars, timerVars
  <1>0. /\ pc \in [Thread -> PcState] /\ reg' = reg
        /\ lock' = lock /\ wk' = wk
        /\ HasWdd' = HasWdd /\ NodeExists' = NodeExists
        /\ NodeExists => HasWdd /\ reg # "off"
    BY DEF Open, OpenStart, OpenDone, HasWdd, NodeExists, TypeInv, TypeOK
  <1>1. CASE Open(t)
    <2>1. /\ NodeExists /\ pc[t] = "idle" /\ "DEV_OPEN" \notin core
          /\ core' = core \cup {"DEV_OPEN"} /\ file' = file
          /\ pc' = [pc EXCEPT ![t] = "open"]
      BY <1>1 DEF Open, Goto
    <2>2. ~file /\ \A u \in Thread : ~Session(u)
      BY <1>0, <2>1 DEF SessionInv
    <2>3. \A u \in Thread : pc'[u] = IF u = t THEN "open" ELSE pc[u]
      BY <1>0, <2>1
    <2>4. SingleOpen'
      BY <2>1, <2>2, <2>3 DEF SingleOpen, Session
    <2> QED BY <1>0, <2>1, <2>3, <2>4 DEF SessionInv
  <1>2. CASE OpenStart(t)
    <2>1. /\ pc[t] = "open" /\ file' = file
          /\ \/ pc' = [pc EXCEPT ![t] = "opened"] /\ core' = core
             \/ pc' = [pc EXCEPT ![t] = "idle"]
      BY <1>2 DEF OpenStart, Goto
    <2>2. /\ ~file /\ \A u \in Thread : Session(u) => u = t
          /\ NodeExists
      BY <2>1 DEF SessionInv, SingleOpen, Session, OpenInProgress
    <2>3. CASE pc' = [pc EXCEPT ![t] = "opened"] /\ core' = core
      <3>1. \A u \in Thread : pc'[u] = IF u = t THEN "opened" ELSE pc[u]
        BY <1>0, <2>3
      <3>2. SingleOpen'
        BY <2>1, <2>2, <3>1 DEF SingleOpen, Session
      <3>3. "DEV_OPEN" \in core
        BY <1>0, <2>1, <2>2 DEF SessionInv, Session
      <3> QED BY <1>0, <2>1, <2>2, <2>3, <3>1, <3>2, <3>3 DEF SessionInv
    <2>4. CASE pc' = [pc EXCEPT ![t] = "idle"]
      <3>1. \A u \in Thread : pc'[u] = IF u = t THEN "idle" ELSE pc[u]
        BY <1>0, <2>4
      <3>2. ~file' /\ \A u \in Thread : ~Session(u)'
        BY <2>1, <2>2, <3>1 DEF Session
      <3>3. SingleOpen'
        BY <3>2 DEF SingleOpen
      <3> QED BY <1>0, <2>1, <2>2, <3>1, <3>2, <3>3 DEF SessionInv
    <2> QED BY <2>1, <2>3, <2>4
  <1>3. CASE OpenDone(t)
    <2>1. /\ pc[t] = "opened" /\ file' = TRUE /\ core' = core
          /\ pc' = [pc EXCEPT ![t] = "idle"]
      BY <1>3 DEF OpenDone, Goto
    <2>2. /\ \A u \in Thread : Session(u) => u = t
          /\ NodeExists
      BY <2>1 DEF SessionInv, SingleOpen, Session, OpenInProgress
    <2>3. \A u \in Thread : pc'[u] = IF u = t THEN "idle" ELSE pc[u]
      BY <1>0, <2>1
    <2>4. \A u \in Thread : ~Session(u)'
      BY <2>2, <2>3 DEF Session
    <2>5. SingleOpen'
      BY <2>4 DEF SingleOpen
    <2>6. "DEV_OPEN" \in core
      BY <1>0, <2>1, <2>2 DEF SessionInv, Session
    <2> QED BY <1>0, <2>1, <2>2, <2>3, <2>5, <2>6 DEF SessionInv
  <1> QED BY <1>1, <1>2, <1>3

\* write() and ioctl() belong to the one session.
LEMMA WriteIoctlSession ==
    ASSUME TypeInv, SessionInv, NEW t \in Thread,
           \/ Write(t) \/ Ioctl(t) \/ WriteLocked(t) \/ IoctlLocked(t)
           \/ Unlock(t)
    PROVE  SessionInv'
  <1> USE DEF devVars, refVars, timerVars
  <1>0. /\ pc \in [Thread -> PcState] /\ reg' = reg
        /\ wk' = wk /\ file' = file
        /\ HasWdd' = HasWdd /\ NodeExists' = NodeExists
        /\ "DEV_OPEN" \in core => "DEV_OPEN" \in core'
        /\ t \notin {"free", "worker"}
    BY ConstantsAssumption
       DEF Write, Ioctl, WriteLocked, IoctlLocked, Unlock, Locked, HasWdd,
           NodeExists, TypeInv, TypeOK
  <1>1. /\ file /\ ~Session(t) /\ pc[t] # "released"
        /\ \E next \in {"idle", "write", "ioctl", "unlock"} :
             /\ pc' = [pc EXCEPT ![t] = next]
             /\ \/ lock' = lock /\ next # "unlock"
                \/ lock = "free" /\ lock' = t
                \/ lock = t /\ lock' = "free" /\ next # "unlock"
    BY DEF Write, Ioctl, WriteLocked, IoctlLocked, Unlock, Locked, Goto,
           SessionInv, SingleOpen, Session
  <1>2. PICK next \in {"idle", "write", "ioctl", "unlock"} :
          /\ pc' = [pc EXCEPT ![t] = next]
          /\ \/ lock' = lock /\ next # "unlock"
             \/ lock = "free" /\ lock' = t
             \/ lock = t /\ lock' = "free" /\ next # "unlock"
    BY <1>1
  <1>3. \A u \in Thread : pc'[u] = IF u = t THEN next ELSE pc[u]
    BY <1>0, <1>2
  <1>4. \A u \in Thread : ~Session(u)'
    BY <1>1, <1>3 DEF SessionInv, SingleOpen, Session
  <1>5. SingleOpen'
    BY <1>4 DEF SingleOpen
  <1>6. ~OpenInProgress'
    BY <1>4 DEF OpenInProgress, Session
  <1>7. \A u \in Thread : pc'[u] \in {"unlock", "released"} => lock' = u
    BY <1>0, <1>2, <1>3, ConstantsAssumption DEF SessionInv
  <1>8. wk' \in {"pinged", "skipped"} => lock' = "worker"
    BY <1>0, <1>2 DEF SessionInv
  <1> QED BY <1>0, <1>1, <1>3, <1>5, <1>6, <1>7, <1>8 DEF SessionInv

\* close() ends the one session.
LEMMA ReleaseSession ==
    ASSUME TypeInv, SessionInv, NEW t \in Thread,
           \/ Release(t) \/ ReleaseLocked(t) \/ ReleaseUnlock(t)
           \/ ReleasePut(t)
    PROVE  SessionInv'
  <1> USE DEF devVars, refVars, timerVars
  <1>0. /\ pc \in [Thread -> PcState] /\ reg' = reg /\ wk' = wk
        /\ HasWdd' = HasWdd /\ NodeExists' = NodeExists
        /\ t \notin {"free", "worker"}
    BY ConstantsAssumption
       DEF Release, ReleaseLocked, ReleaseUnlock, ReleasePut, HasWdd,
           NodeExists, TypeInv, TypeOK
  <1>1. CASE ReleasePut(t)
    <2>1. /\ pc' = [pc EXCEPT ![t] = "idle"] /\ file' = file
          /\ core' = core /\ lock' = lock
      BY <1>1 DEF ReleasePut, Goto
    <2>2. \A u \in Thread : pc'[u] = IF u = t THEN "idle" ELSE pc[u]
      BY <1>0, <2>1
    <2>3. SingleOpen'
      BY <2>1, <2>2 DEF SessionInv, SingleOpen, Session
    <2>4. OpenInProgress' => OpenInProgress
      BY <2>2 DEF OpenInProgress
    <2> QED BY <1>0, <2>1, <2>2, <2>3, <2>4 DEF SessionInv, Session
  <1>2. CASE ~ReleasePut(t)
    <2>1. /\ file' = FALSE
          /\ \A u \in Thread : Session(u) => u = t
          /\ \A u \in Thread : pc[u] \notin {"write", "ioctl", "unlock"}
      BY <1>2 DEF Release, ReleaseLocked, ReleaseUnlock, FileInUse,
                  SessionInv, SingleOpen, Session
    <2>2. \E next \in {"release", "released", "put", "idle"} :
            /\ pc' = [pc EXCEPT ![t] = next]
            /\ next \in {"release", "released"} /\ HasWdd
                 => "DEV_OPEN" \in core'
            /\ \/ lock' = lock /\ next # "released"
               \/ lock = "free" /\ lock' = t
               \/ lock = t /\ lock' = "free" /\ next # "released"
      BY <1>2 DEF Release, ReleaseLocked, ReleaseUnlock, Goto, SessionInv,
                  Session
    <2>3. PICK next \in {"release", "released", "put", "idle"} :
            /\ pc' = [pc EXCEPT ![t] = next]
            /\ next \in {"release", "released"} /\ HasWdd
                 => "DEV_OPEN" \in core'
            /\ \/ lock' = lock /\ next # "released"
               \/ lock = "free" /\ lock' = t
               \/ lock = t /\ lock' = "free" /\ next # "released"
      BY <2>2
    <2>4. \A u \in Thread : pc'[u] = IF u = t THEN next ELSE pc[u]
      BY <1>0, <2>3
    <2>5. \A u \in Thread :
            /\ Session(u)' => u = t /\ next \in {"release", "released"}
            /\ pc'[u] \notin {"open", "opened", "write", "ioctl", "unlock"}
      BY <2>1, <2>4 DEF Session
    <2>6. SingleOpen'
      BY <2>1, <2>5 DEF SingleOpen
    <2>7. \A u \in Thread : pc'[u] \in {"unlock", "released"} => lock' = u
      BY <1>0, <2>3, <2>4, ConstantsAssumption DEF SessionInv
    <2>8. reg # "off"
      BY <1>2 DEF Release, ReleaseLocked, ReleaseUnlock, SessionInv
    <2>9. wk' \in {"pinged", "skipped"} => lock' = "worker"
      BY <1>0, <2>3 DEF SessionInv
    <2>10. ~OpenInProgress'
      BY <2>5 DEF OpenInProgress
    <2>11. HasWdd' /\ (file' \/ \E u \in Thread : Session(u)')
             => "DEV_OPEN" \in core'
      BY <1>0, <2>1, <2>3, <2>5
    <2> QED BY <1>0, <2>5, <2>6, <2>7, <2>8, <2>9, <2>10, <2>11 DEF SessionInv
  <1> QED BY <1>1, <1>2

\* The timer and the worker have no session.
LEMMA WorkerSession ==
    ASSUME TypeInv, SessionInv, watchdog_timer_expired \/ Worker \/ WorkerLocked
    PROVE  SessionInv'
  <1> USE DEF devVars, refVars, timerVars, fileVars
  <1>1. /\ pc' = pc /\ file' = file /\ core' = core /\ reg' = reg
        /\ HasWdd' = HasWdd /\ NodeExists' = NodeExists
    BY DEF watchdog_timer_expired, Worker, WorkerEnter, WorkerUnlock,
           WorkerLocked, HasWdd, NodeExists
  <1>2. /\ \A t \in Thread : pc[t] \in {"unlock", "released"} => lock' = t
        /\ wk' \in {"pinged", "skipped"} => lock' = "worker"
    BY ConstantsAssumption
       DEF watchdog_timer_expired, Worker, WorkerEnter, WorkerUnlock,
           WorkerLocked, SessionInv
  <1>3. SingleOpen' /\ (OpenInProgress' => NodeExists')
    BY <1>1 DEF SessionInv, SingleOpen, Session, OpenInProgress
  <1> QED BY <1>1, <1>2, <1>3 DEF SessionInv, Session

\* Every step keeps the session invariant.
LEMMA NextSession == TypeInv /\ SessionInv /\ [Next]_vars => SessionInv'
  <1> SUFFICES ASSUME TypeInv, SessionInv, [Next]_vars PROVE SessionInv'
    OBVIOUS
  <1>1. CASE UNCHANGED vars
    BY <1>1 DEF vars, SessionInv, SingleOpen, Session, HasWdd, NodeExists,
                OpenInProgress
  <1>2. ASSUME NEW t \in Thread, Call(t) \/ Acquire(t) \/ Continue(t)
        PROVE  SessionInv'
    BY <1>2, OpenSession, WriteIoctlSession, ReleaseSession
       DEF Call, Acquire, Continue
  <1> QED BY <1>1, <1>2, DriverSession, WorkerSession DEF Next

\* Nobody has the device open.
LEMMA InitSession == Init => SessionInv
  BY DEF Init, SessionInv, SingleOpen, Session, OpenInProgress, HasWdd

\* _WDOG_DEV_OPEN lets one user at a time into watchdog_open, the open file
\* and watchdog_release, for any number of threads.
THEOREM OneSession == Spec => []SingleOpen
  <1>1. SessionInv => SingleOpen
    BY DEF SessionInv
  <1> QED BY <1>1, InitTyped, NextTyped, InitSession, NextSession, PTL DEF Spec

-----------------------------------------------------------------------------
(* RegisteringInv and FeedInv are inductive if nobody opens the node early: *)
(* not before watchdog_dev_register has returned.                          *)

\* Registration starts the worker where it is needed.
LEMMA RegisterFeeds ==
    ASSUME Inv, Register
    PROVE  RegisteringInv' /\ FeedInv'
  <1> USE DEF devVars, refVars, timerVars, fileVars, Registering
  <1>1. /\ reg \in Registering /\ pc' = pc /\ file' = file /\ lock' = lock
        /\ \A t \in Thread : pc[t] = "idle"
        /\ ~file /\ ~Active
    BY DEF Register, RegisterMisc, RegisterCdev, RegisterCdevFails,
           RegisterStart, RegisterUpdateWorker, RegisterDone, Inv,
           RegisteringInv
  <1>2. CASE RegisterMisc \/ RegisterCdevFails
    BY <1>1, <1>2 DEF RegisterMisc, RegisterCdevFails, Inv, RegisteringInv,
                      FeedInv, Active, HwRunning
  <1>3. CASE RegisterCdev
    BY <1>1, <1>3 DEF RegisterCdev, Inv, RegisteringInv, FeedInv, Active,
                      HwRunning
  <1>4. CASE RegisterStart
    BY <1>1, <1>4 DEF RegisterStart, Inv, RegisteringInv, FeedInv, Active,
                      HwRunning
  <1>5. CASE RegisterUpdateWorker
    <2>1. PICK d \in watchdog_update_worker(Dev) : Becomes(d, "driver")
      BY <1>5 DEF RegisterUpdateWorker
    <2>2. /\ d.status = status /\ d.timeout = timeout
          /\ MustFeed(status, timeout) => d.tm = "arm"
      <3>1. Accounted(timeout, Dev)
        BY DevSound DEF Inv, Sound
      <3> QED BY <3>1, UpdateWorkerSound DEF Dev
    <2>3. /\ status' = status /\ timeout' = timeout
          /\ tm'["lock"] = tm["lock"] /\ tm'["driver"] = d.tm
      BY <2>1, <2>2 DEF Becomes, Inv, TypeInv, TypeOK, Section
    <2>4. HwRunning /\ (timeout # "zero" => d.tm = "arm")
      BY <1>1, <1>5, <2>2
         DEF RegisterUpdateWorker, Inv, RegisteringInv, Active, HwRunning,
             MustFeed
    <2>5. reg = "tail" /\ reg' = "program" /\ UNCHANGED timerVars
      BY <1>5 DEF RegisterUpdateWorker
    <2> QED BY <1>1, <2>3, <2>4, <2>5
            DEF Inv, RegisteringInv, FeedInv, Active, HwRunning
  <1>6. CASE RegisterDone
    <2>1. /\ reg' = "on" /\ status' = status /\ timeout' = timeout
          /\ tm'["lock"] = tm["lock"]
          /\ tm["driver"] = "arm" => timer'
      BY <1>6 DEF RegisterDone, ProgramTimer, Inv, TypeInv, TypeOK, Section
    <2>2. timeout # "zero" =>
            timer' /\ (lock # "free" => tm["lock"] = "arm")
      BY <1>6, <2>1 DEF RegisterDone, Inv, RegisteringInv
    <2> QED BY <1>1, <2>1, <2>2
            DEF RegisteringInv, FeedInv, MustFeed, FeedPending
  <1> QED BY <1>2, <1>3, <1>4, <1>5, <1>6 DEF Register

\* Removal ends what the worker is needed for.
LEMMA RemoveFeeds ==
    ASSUME Inv, Unregister \/ Remove
    PROVE  RegisteringInv' /\ FeedInv'
  <1> USE DEF devVars, refVars, timerVars, fileVars
  <1>1. pc' = pc /\ reg' \notin Registering \cup {"failed", "on"}
    BY DEF Remove, Unregister, MiscDeregister, UnregisterStop,
           UnregisterStopped, UnregisterClearWdd, UnregisterCancelTimer,
           UnregisterCancelWork, UnregisterPut, Registering
  <1>2. ASSUME NEW t \in Thread, pc[t] = "opened" PROVE status' = status
    <2>1. NodeExists
      BY <1>2 DEF Inv, SessionInv, OpenInProgress
    <2> QED BY <2>1 DEF Remove, Unregister, MiscDeregister, UnregisterStop,
                        UnregisterStopped, UnregisterClearWdd,
                        UnregisterCancelTimer, UnregisterCancelWork,
                        UnregisterPut, NodeExists
  <1>3. \A t \in Thread : pc'[t] = "opened" => Active'
    BY <1>1, <1>2 DEF Inv, FeedInv, Active
  <1> QED BY <1>1, <1>3 DEF RegisteringInv, FeedInv, Registering

\* open() leaves the worker to the start it makes.
LEMMA OpenFeeds ==
    ASSUME Inv, ~EarlyOpen, NEW t \in Thread,
           Open(t) \/ OpenStart(t) \/ OpenDone(t)
    PROVE  RegisteringInv' /\ FeedInv'
  <1> USE DEF devVars, refVars, timerVars
  <1>0. /\ pc \in [Thread -> PcState] /\ tm \in [Section -> TimerCmd]
        /\ reg' = reg /\ lock' = lock /\ work' = work /\ wk' = wk
        /\ tm'["lock"] = tm["lock"]
    BY DEF Open, OpenStart, OpenDone, Becomes, ProgramTimer, Inv, TypeInv,
           TypeOK, Section
  <1>1. reg' \notin Registering \cup {"failed"}
    BY DEF Open, OpenStart, OpenDone, NodeExists, Registering, Inv,
           RegisteringInv
  <1>2. RegisteringInv'
    BY <1>1 DEF RegisteringInv, Registering
  <1>3. CASE Open(t)
    <2>1. /\ status' = status /\ timeout' = timeout /\ timer' = timer
          /\ tm' = tm /\ pc' = [pc EXCEPT ![t] = "open"]
      BY <1>3 DEF Open, Goto
    <2>2. \A u \in Thread : pc'[u] = "opened" => pc[u] = "opened"
      BY <1>0, <2>1
    <2> QED BY <1>0, <1>2, <2>1, <2>2 DEF Inv, FeedInv, FeedPending, Active
  <1>4. CASE OpenStart(t)
    <2>1. PICK d \in watchdog_start(Dev) :
            /\ Becomes(d, "open")
            /\ IF d.ok THEN Goto(t, "opened") ELSE Goto(t, "idle")
      BY <1>4 DEF OpenStart
    <2>2. /\ d.ok => "ACTIVE" \in d.status
          /\ ~d.ok => d.status = status /\ d.timeout = timeout
      BY DevSound, StartSound DEF Inv, Dev
    <2>3. /\ status' = d.status /\ timeout' = d.timeout
      BY <2>1 DEF Becomes
    <2>4. timer' = timer /\ \A u \in Thread : Session(u) => u = t
      BY <1>4 DEF OpenStart, Inv, SessionInv, SingleOpen, Session
    <2>5. CASE d.ok
      <3>1. "ACTIVE" \in status'
        BY <2>2, <2>3, <2>5
      <3> QED BY <1>2, <3>1 DEF FeedInv, MustFeed, Active
    <2>6. CASE ~d.ok
      <3>1. \A u \in Thread : pc'[u] = IF u = t THEN "idle" ELSE pc[u]
        BY <1>0, <2>1, <2>6 DEF Goto
      <3>2. \A u \in Thread : pc'[u] # "opened"
        BY <2>4, <3>1 DEF Session
      <3>3. status' = status /\ timeout' = timeout
        BY <2>2, <2>3, <2>6
      <3> QED BY <1>0, <1>2, <2>4, <3>2, <3>3 DEF Inv, FeedInv, FeedPending
    <2> QED BY <2>5, <2>6
  <1>5. CASE OpenDone(t)
    <2>1. "ACTIVE" \in status /\ status' = status /\ timeout' = timeout
      BY <1>5 DEF OpenDone, Inv, FeedInv, Active
    <2> QED BY <1>2, <2>1 DEF FeedInv, MustFeed, Active
  <1> QED BY <1>3, <1>4, <1>5

\* A handler that took the free lock and left the device in a sound state.
LEMMA LockedFeeds ==
    ASSUME Inv, lock = "free", NEW d, Sound(status, timeout, d),
           Becomes(d, "lock"), lock' # "free",
           timer' = timer, work' = work,
           reg' = reg, reg \notin Registering \cup {"failed"},
           wk = "wait" => wk' = "wait" \/ ~MustFeed(d.status, d.timeout)
                                       \/ d.tm = "arm",
           \A u \in Thread : pc'[u] = "opened" => Active'
    PROVE  RegisteringInv' /\ FeedInv'
  <1>1. RegisteringInv'
    BY DEF RegisteringInv, Registering
  <1>2. /\ status' = d.status /\ timeout' = d.timeout /\ tm'["lock"] = d.tm
    BY DEF Becomes, Inv, TypeInv, TypeOK, Section
  <1>3. /\ d.tm = "cancel" => ~MustFeed(d.status, d.timeout)
        /\ MustFeed(d.status, d.timeout)
             => d.tm = "arm" \/ MustFeed(status, timeout)
    BY DEF Sound
  <1>4. reg = "on" /\ MustFeed(d.status, d.timeout) => FeedPending'
    BY <1>2, <1>3 DEF Inv, FeedInv, FeedPending
  <1> QED BY <1>1, <1>2, <1>3, <1>4 DEF FeedInv

\* The end of a locked section: the pending command is issued, lock released.
LEMMA UnlockFeeds ==
    ASSUME Inv, lock # "free", ProgramTimer("lock"), lock' = "free",
           status' = status, timeout' = timeout, work' = work, reg' = reg,
           wk = "wait" => wk' = "wait"
    PROVE  reg = "on" /\ MustFeed(status, timeout) => FeedPending'
  <1> SUFFICES ASSUME reg = "on", MustFeed(status, timeout) PROVE FeedPending'
    OBVIOUS
  <1>1. tm["lock"] # "cancel"
    BY DEF Inv, FeedInv
  <1>2. CASE tm["lock"] = "arm"
    BY <1>2 DEF ProgramTimer, FeedPending
  <1>3. CASE tm["lock"] # "arm"
    <2>1. timer' = timer
      BY <1>1, <1>3 DEF ProgramTimer
    <2> QED BY <1>3, <2>1 DEF Inv, FeedInv, FeedPending
  <1> QED BY <1>2, <1>3

\* The handlers of a user thread other than watchdog_open.
LEMMA CallFeeds ==
    ASSUME Inv, NEW t \in Thread,
           \/ Write(t) \/ Ioctl(t) \/ WriteLocked(t) \/ IoctlLocked(t)
           \/ Unlock(t) \/ Release(t) \/ ReleaseLocked(t) \/ ReleaseUnlock(t)
           \/ ReleasePut(t)
    PROVE  RegisteringInv' /\ FeedInv'
  <1> USE DEF devVars, refVars, timerVars
  <1>0. /\ pc \in [Thread -> PcState] /\ reg' = reg /\ wk' = wk
        /\ t \notin {"free", "worker"}
    BY ConstantsAssumption
       DEF Write, Ioctl, WriteLocked, IoctlLocked, Unlock, Locked, Release,
           ReleaseLocked, ReleaseUnlock, ReleasePut, Inv, TypeInv, TypeOK
  <1>1. reg \notin Registering \cup {"failed"}
    BY DEF Write, Ioctl, WriteLocked, IoctlLocked, Unlock, Release,
           ReleaseLocked, ReleaseUnlock, ReleasePut, Inv, RegisteringInv
  <1>2. \A u \in Thread : pc'[u] = "opened" => pc[u] = "opened"
    BY <1>0 DEF Write, Ioctl, WriteLocked, IoctlLocked, Unlock, Locked,
                Release, ReleaseLocked, ReleaseUnlock, ReleasePut, Goto
  <1>3. RegisteringInv'
    BY <1>0, <1>1 DEF RegisteringInv, Registering
  \* Steps that touch neither the device nor the lock.
  <1>4. CASE UNCHANGED <<devVars, timerVars, tm, lock>>
    BY <1>0, <1>2, <1>3, <1>4 DEF Inv, FeedInv, FeedPending, Active
  <1>5. ASSUME NEW d, Sound(status, timeout, d), Becomes(d, "lock"),
               lock = "free", lock' = t, UNCHANGED timerVars,
               file \/ pc[t] = "release"
        PROVE  FeedInv'
    <2>1. \A u \in Thread : pc'[u] # "opened"
      BY <1>2, <1>5 DEF Inv, SessionInv, SingleOpen, Session
    <2> QED BY <1>0, <1>1, <1>5, <2>1, LockedFeeds
  <1>6. CASE WriteLocked(t)
    <2>1. CASE HasWdd
      <3>1. PICK d \in watchdog_ping(Dev) : Becomes(d, "lock")
        BY <1>6, <2>1 DEF WriteLocked, Locked
      <3>2. Sound(status, timeout, d)
        BY DevSound, PingSound DEF Inv
      <3>3. file /\ lock = "free" /\ lock' = t /\ UNCHANGED timerVars
        BY <1>6, <2>1 DEF WriteLocked, Locked, Inv, SessionInv
      <3> QED BY <1>3, <1>5, <3>1, <3>2, <3>3
    <2> QED BY <1>4, <1>6, <2>1 DEF WriteLocked, Locked
  <1>7. CASE IoctlLocked(t)
    <2>1. CASE HasWdd
      <3>1. PICK d \in watchdog_ioctl(Dev) : Becomes(d, "lock")
        BY <1>7, <2>1 DEF IoctlLocked, Locked
      <3>2. Sound(status, timeout, d)
        BY DevSound, IoctlSound DEF Inv
      <3>3. file /\ lock = "free" /\ lock' = t /\ UNCHANGED timerVars
        BY <1>7, <2>1 DEF IoctlLocked, Locked, Inv, SessionInv
      <3> QED BY <1>3, <1>5, <3>1, <3>2, <3>3
    <2> QED BY <1>4, <1>7, <2>1 DEF IoctlLocked, Locked
  <1>8. CASE ReleaseLocked(t)
    <2>1. CASE HasWdd
      <3>1. PICK d \in watchdog_release(Dev, "ALLOW_RELEASE" \in core) :
              Becomes(d, "lock")
        BY <1>8, <2>1 DEF ReleaseLocked
      <3>2. Sound(status, timeout, d)
        BY DevSound, ReleaseSound DEF Inv
      <3>3. /\ pc[t] = "release" /\ lock = "free" /\ lock' = t
            /\ UNCHANGED timerVars
        BY <1>8, <2>1 DEF ReleaseLocked
      <3> QED BY <1>3, <1>5, <3>1, <3>2, <3>3
    <2> QED BY <1>4, <1>8, <2>1 DEF ReleaseLocked
  <1>9. CASE Unlock(t) \/ ReleaseUnlock(t)
    <2>1. /\ lock = t /\ lock' = "free" /\ ProgramTimer("lock")
          /\ status' = status /\ timeout' = timeout /\ work' = work
      BY <1>9 DEF Unlock, ReleaseUnlock, Inv, SessionInv
    <2>2. reg = "on" /\ MustFeed(status, timeout) => FeedPending'
      BY <1>0, <2>1, UnlockFeeds
    <2> QED BY <1>0, <1>2, <1>3, <2>1, <2>2 DEF Inv, FeedInv, Active
  <1>10. CASE Write(t) \/ Ioctl(t) \/ Release(t) \/ ReleasePut(t)
    BY <1>4, <1>10 DEF Write, Ioctl, Release, ReleasePut
  <1> QED BY <1>6, <1>7, <1>8, <1>9, <1>10

\* The worker goes on as long as it is needed.
LEMMA WorkerFeeds ==
    ASSUME Inv, watchdog_timer_expired \/ Worker \/ WorkerLocked
    PROVE  RegisteringInv' /\ FeedInv'
  <1> USE DEF devVars, refVars, timerVars, fileVars
  <1>0. /\ pc' = pc /\ reg' = reg /\ file' = file
        /\ reg \in Registering \cup {"failed", "on"} /\ HasWdd'
             => HasWdd
    BY DEF watchdog_timer_expired, Worker, WorkerEnter, WorkerUnlock,
           WorkerLocked, HasWdd
  <1>1. CASE watchdog_timer_expired
    BY <1>1 DEF watchdog_timer_expired, Inv, RegisteringInv, FeedInv,
                FeedPending, Active, HwRunning
  <1>2. CASE WorkerEnter
    <2>1. reg = "on" => HasWdd
      BY DEF HasWdd
    <2> QED BY <1>2, <2>1 DEF WorkerEnter, Inv, RegisteringInv, FeedInv,
                              FeedPending, Active, HwRunning
  <1>3. CASE WorkerUnlock
    <2>1. /\ lock = "worker" /\ lock' = "free" /\ ProgramTimer("lock")
          /\ status' = status /\ timeout' = timeout /\ work' = work
          /\ wk # "wait" /\ wk # "idle" /\ wk' = "idle"
      BY <1>3 DEF WorkerUnlock, Inv, SessionInv
    <2>2. reg = "on" /\ MustFeed(status, timeout) => FeedPending'
      BY <1>0, <2>1, UnlockFeeds
    <2>3. tm'["driver"] = tm["driver"]
      BY <2>1 DEF ProgramTimer, Inv, TypeInv, TypeOK, Section
    <2>4. RegisteringInv'
      BY <1>0, <2>1, <2>3 DEF Inv, RegisteringInv, Active, HwRunning
    <2> QED BY <1>0, <2>1, <2>2, <2>4 DEF Inv, FeedInv, Active
  <1>4. CASE WorkerLocked
    <2>1. /\ wk = "wait" /\ lock = "free" /\ lock' = "worker"
          /\ timer' = timer /\ work' = work
      BY <1>4 DEF WorkerLocked
    <2>2. CASE ~HasWdd
      <3>1. UNCHANGED <<devVars, tm>> /\ reg \notin Registering \cup {"on"}
        BY <1>4, <2>1, <2>2 DEF WorkerLocked, Inv, RegisteringInv, HasWdd,
                                Registering
      <3> QED BY <1>0, <3>1 DEF Inv, RegisteringInv, FeedInv, Active, HwRunning,
                                Registering
    <2>3. CASE HasWdd
      <3>1. \E d : /\ Becomes(d, "lock") /\ Sound(status, timeout, d)
                   /\ d.status = status /\ d.timeout = timeout
                   /\ MustFeed(status, timeout) => d.tm = "arm"
        <4>1. CASE status = {}
          <5>1. Becomes(Dev, "lock") /\ Dev.status = status
                  /\ Dev.timeout = timeout
            BY <1>4, <2>3, <4>1 DEF WorkerLocked, Dev
          <5>2. ~MustFeed(status, timeout)
            BY <4>1 DEF MustFeed
          <5> QED BY <5>1, <5>2, DevSound DEF Inv
        <4>2. CASE status # {}
          <5>1. PICK d \in hw_watchdog_ping(Dev) : Becomes(d, "lock")
            BY <1>4, <2>3, <4>2 DEF WorkerLocked
          <5>2. Dev.status = status /\ Dev.timeout = timeout
            BY DEF Dev
          <5> QED BY <5>1, <5>2, DevSound, HwPingSound DEF Inv
        <4> QED BY <4>1, <4>2
      <3>2. PICK d : /\ Becomes(d, "lock") /\ Sound(status, timeout, d)
                     /\ d.status = status /\ d.timeout = timeout
                     /\ MustFeed(status, timeout) => d.tm = "arm"
        BY <3>1
      <3>3. /\ status' = status /\ timeout' = timeout /\ tm'["lock"] = d.tm
            /\ tm'["driver"] = tm["driver"]
        BY <3>2 DEF Becomes, Inv, TypeInv, TypeOK, Section
      <3>4. \A u \in Thread : pc'[u] = "opened" => Active'
        BY <1>0, <3>3 DEF Inv, FeedInv, Active
      <3>5. CASE reg \notin Registering \cup {"failed"}
        BY <1>0, <2>1, <3>2, <3>4, <3>5, LockedFeeds
      <3>6. CASE reg \in Registering \cup {"failed"}
        <4>1. reg \in Registering \ {"off"} /\ HwRunning /\ ~Active
          BY <2>1, <2>3, <3>6 DEF HasWdd, Inv, RegisteringInv
        <4>2. timeout # "zero" => d.tm = "arm"
          BY <3>2, <4>1 DEF MustFeed, Active, HwRunning
        <4> QED BY <1>0, <3>3, <3>4, <4>1, <4>2
                DEF Inv, RegisteringInv, FeedInv, Active, HwRunning,
                    Registering
      <3> QED BY <3>5, <3>6
    <2> QED BY <2>2, <2>3
  <1> QED BY <1>1, <1>2, <1>3, <1>4 DEF Worker

\* Nothing has to be fed at the start.
LEMMA InitFeeds == Init => RegisteringInv /\ FeedInv
  BY DEF Init, RegisteringInv, FeedInv, Active, HwRunning, Registering

\* Every step keeps the invariant.
LEMMA NextFeeds ==
    ASSUME ~EarlyOpen
    PROVE  Inv /\ [Next]_vars => Inv'
  <1> SUFFICES ASSUME Inv, [Next]_vars PROVE RegisteringInv' /\ FeedInv'
    BY NextTyped, NextSession DEF Inv
  <1>1. CASE UNCHANGED vars
    BY <1>1 DEF vars, Inv, RegisteringInv, FeedInv, FeedPending, Active,
                HwRunning
  <1>2. ASSUME NEW t \in Thread, Call(t) \/ Acquire(t) \/ Continue(t)
        PROVE  RegisteringInv' /\ FeedInv'
    BY <1>2, OpenFeeds, CallFeeds DEF Call, Acquire, Continue
  <1> QED BY <1>1, <1>2, RegisterFeeds, RemoveFeeds, WorkerFeeds DEF Next

\* If the node is not opened before watchdog_dev_register returns and no
\* timeout of 0 seconds is in use, the kernel always feeds hardware that runs
\* without an active user: for any number of threads, any mix of open, write,
\* ioctl and close with the timer and the worker, and failing driver operations.
THEOREM KernelAlwaysFeeds ==
    ASSUME ~EarlyOpen, NoZeroTimeout
    PROVE  Spec => []KernelFeeds
  <1>1. Init => Inv
    BY InitTyped, InitSession, InitFeeds DEF Inv
  <1>2. Inv /\ [Next]_vars => Inv'
    BY NextFeeds
  <1>3. Inv => KernelFeeds
    <2>1. Inv => timeout # "zero"
      BY NoZeroTimeout DEF Inv, TypeInv, TypeOK, NoZeroTimeout
    <2> QED BY <2>1 DEF Inv, TypeInv, NoOrphanedHardware, FeedInv, KernelFeeds,
                        MustFeed, Active, HwRunning
  <1> QED BY <1>1, <1>2, <1>3, PTL DEF Spec

-----------------------------------------------------------------------------
(* Under nowayout, no operator on the device state stops the hardware.     *)

Counting(d) == d \in DevState /\ d.hw

\* watchdog_update_worker leaves the hardware alone.
LEMMA UpdateWorkerCounts ==
    ASSUME NEW d, Counting(d), NEW e \in watchdog_update_worker(d)
    PROVE  Counting(e)
  <1>1. \A c \in TimerCmd : Counting([d EXCEPT !.tm = c])
    BY DEF Counting, DevState
  <1>2. d.tm \in TimerCmd /\ {"arm", "cancel"} \subseteq TimerCmd
    BY DEF Counting, DevState, TimerCmd
  <1>3. CASE watchdog_need_worker(d)
    <2>1. PICK positive \in watchdog_next_keepalive(d) :
            e = [d EXCEPT !.tm = IF positive THEN "arm" ELSE d.tm]
      BY <1>3 DEF watchdog_update_worker
    <2> QED BY <1>1, <1>2, <2>1
  <1>4. CASE ~watchdog_need_worker(d)
    BY <1>1, <1>2, <1>4 DEF watchdog_update_worker
  <1> QED BY <1>3, <1>4

\* So does the result of an operation.
LEMMA OkCounts ==
    ASSUME NEW d, Counting(d), NEW b \in BOOLEAN
    PROVE  Counting([d EXCEPT !.ok = b])
  BY DEF Counting, DevState

\* A ping does not stop the hardware.
LEMMA PingCounts ==
    ASSUME NEW d, Counting(d), NEW e \in watchdog_ping(d) \cup hw_watchdog_ping(d)
    PROVE  Counting(e)
  <1>1. CASE e = [d EXCEPT !.ok = TRUE]
    BY <1>1, OkCounts
  <1>2. CASE e = [d EXCEPT !.tm = "arm", !.ok = TRUE]
    BY <1>2 DEF Counting, DevState, TimerCmd
  <1>3. ASSUME NEW b \in BOOLEAN, e \in watchdog_update_worker([d EXCEPT !.ok = b])
        PROVE  Counting(e)
    BY <1>3, OkCounts, UpdateWorkerCounts
  <1> QED BY <1>1, <1>2, <1>3 DEF watchdog_ping, hw_watchdog_ping, IfOpsFail

\* Nor does a stop, with nowayout.
LEMMA StartStopCount ==
    ASSUME device.noWayOut, NEW d, Counting(d),
           NEW e \in watchdog_start(d) \cup watchdog_stop(d)
    PROVE  Counting(e)
  <1> DEFINE on == [d EXCEPT !.status = @ \cup {"ACTIVE"},
                             !.hw = @ \/ ~watchdog_hw_running(d), !.ok = TRUE]
  <1>1. Counting(on)
    BY DEF Counting, DevState, StatusBit
  <1> HIDE DEF on
  <1>2. CASE \E b \in BOOLEAN : e = [d EXCEPT !.ok = b]
    BY <1>2, OkCounts
  <1>3. CASE e \in watchdog_update_worker(on)
    BY <1>1, <1>3, UpdateWorkerCounts
  <1> QED BY <1>2, <1>3 DEF watchdog_start, watchdog_stop, IfOpsFail, on

\* Nor does an ioctl.
LEMMA IoctlCounts ==
    ASSUME device.noWayOut, NEW d, Counting(d), NEW e \in watchdog_ioctl(d)
    PROVE  Counting(e)
  <1>1. ASSUME NEW options, e \in watchdog_set_options(d, options)
        PROVE  Counting(e)
    BY <1>1, StartStopCount DEF watchdog_set_options
  <1>2. ASSUME NEW s \in watchdog_set_timeout(d) PROVE Counting(s)
    <2>1. ASSUME NEW b \in BOOLEAN, NEW t \in Timeout
          PROVE  Counting([d EXCEPT !.timeout = t, !.ok = b])
      BY ConstantsAssumption DEF Counting, DevState
    <2> QED BY <1>2, <2>1, OkCounts, UpdateWorkerCounts
            DEF watchdog_set_timeout, IfOpsFail
  <1> QED BY <1>1, <1>2, PingCounts DEF watchdog_ioctl

\* Nor does a close.
LEMMA ReleaseCounts ==
    ASSUME device.noWayOut, NEW d, Counting(d), NEW b,
           NEW e \in watchdog_release(d, b)
    PROVE  Counting(e)
  <1> DEFINE stopped == IF ~watchdog_active(d) THEN {[d EXCEPT !.ok = TRUE]}
                        ELSE IF b \/ ~device.magicClose THEN watchdog_stop(d)
                        ELSE {[d EXCEPT !.ok = FALSE]}
             pinged(s) == IF s.ok THEN {s} ELSE watchdog_ping(s)
  <1>1. PICK s \in stopped :
          \E p \in pinged(s) : e \in watchdog_update_worker(p)
    BY DEF watchdog_release
  <1>2. Counting(s)
    BY StartStopCount, OkCounts
  <1> QED BY <1>1, <1>2, PingCounts, UpdateWorkerCounts

\* With nowayout set, no step of any actor, a failing driver operation and the
\* stop of WDOG_STOP_ON_UNREGISTER included, stops counting hardware.
THEOREM NoWayOutHolds == Spec => NoWayOutKeepsCounting
  <1>1. ASSUME TypeInv, Next, device.noWayOut, hw PROVE hw'
    <2> USE DEF devVars, refVars, timerVars, fileVars
    <2>1. Counting(Dev)
      BY <1>1 DEF Counting, Dev, DevState, TypeInv, TypeOK, TimerCmd
    <2>2. \A d, s : Counting(d) /\ Becomes(d, s) => hw'
      BY DEF Counting, Becomes
    <2>3. CASE Register
      BY <1>1, <2>1, <2>2, <2>3, UpdateWorkerCounts
         DEF Register, RegisterMisc, RegisterCdev, RegisterCdevFails,
             RegisterStart, RegisterUpdateWorker, RegisterDone, IfOpsFail
    <2>4. CASE Unregister \/ Remove
      BY <1>1, <2>1, <2>2, <2>4, StartStopCount
         DEF Remove, Unregister, MiscDeregister, UnregisterStop,
             UnregisterStopped, UnregisterClearWdd, UnregisterCancelTimer,
             UnregisterCancelWork, UnregisterPut
    <2>5. ASSUME NEW t \in Thread, Call(t) \/ Acquire(t) \/ Continue(t)
          PROVE  hw'
      <3>1. CASE UNCHANGED hw
        BY <1>1, <3>1
      <3>2. CASE OpenStart(t)
        BY <1>1, <2>1, <2>2, <3>2, StartStopCount DEF OpenStart
      <3>3. CASE WriteLocked(t)
        BY <1>1, <2>1, <2>2, <3>3, PingCounts DEF WriteLocked, Locked
      <3>4. CASE IoctlLocked(t)
        BY <1>1, <2>1, <2>2, <3>4, IoctlCounts DEF IoctlLocked, Locked
      <3>5. CASE ReleaseLocked(t)
        BY <1>1, <2>1, <2>2, <3>5, ReleaseCounts DEF ReleaseLocked
      <3> QED BY <2>5, <3>1, <3>2, <3>3, <3>4, <3>5
              DEF Call, Acquire, Continue, Open, OpenDone, Write, Ioctl,
                  Unlock, Release, ReleaseUnlock, ReleasePut
    <2>6. CASE watchdog_timer_expired \/ Worker \/ WorkerLocked
      BY <1>1, <2>1, <2>2, <2>6, PingCounts
         DEF watchdog_timer_expired, Worker, WorkerEnter, WorkerUnlock,
             WorkerLocked
    <2> QED BY <1>1, <2>3, <2>4, <2>5, <2>6 DEF Next
  <1>2. TypeInv /\ [Next]_vars => [device.noWayOut /\ hw => hw']_vars
    BY <1>1
  <1> QED BY <1>2, InitTyped, NextTyped, PTL DEF Spec, NoWayOutKeepsCounting

-----------------------------------------------------------------------------
(* Nobody waits in a circle.                                               *)

\* Who has wd_data->lock is on the way to release it, or dead.
LockHeld ==
    /\ lock \in Thread => pc[lock] \in {"unlock", "released"}
    /\ lock = "worker" => wk \in {"pinged", "skipped", "oops"}

\* A call waits for the mutex, or removal for an open, for the mutex or for
\* the worker, or the worker for the mutex.
SomebodyWaits ==
    \/ \E t \in Thread : pc[t] \in {"write", "ioctl", "release"}
    \/ reg \in {"del", "clear", "drain"}
    \/ wk = "wait"

\* A call, the worker or the removal has what it needs for its next step.
CallGoesOn(t) ==
    \/ pc[t] \in {"open", "opened", "unlock", "released"}
    \/ pc[t] \in {"write", "ioctl", "release"} /\ lock = "free"

WorkerGoesOn == wk \in {"pinged", "skipped"} \/ (wk = "wait" /\ lock = "free")

RemovalGoesOn ==
    \/ reg = "del" /\ ~OpenInProgress
    \/ reg = "clear" /\ lock = "free"
    \/ reg = "drain" /\ wk = "idle"

SomebodyGoesOn ==
    WorkerGoesOn \/ RemovalGoesOn \/ \E t \in Thread : CallGoesOn(t)

\* Calls, worker and removal do not wait for each other in a circle, unless
\* the worker has died of a NULL wdd.
NoCircularWait == SomebodyWaits /\ wk # "oops" => SomebodyGoesOn

\* The holder of the lock does nothing else before it releases it.
LEMMA NextHeld == TypeInv /\ LockHeld /\ [Next]_vars => LockHeld'
  <1> SUFFICES ASSUME TypeInv, LockHeld, [Next]_vars PROVE LockHeld'
    OBVIOUS
  <1> USE DEF devVars, refVars, timerVars, fileVars
  <1>1. /\ pc \in [Thread -> PcState]
        /\ Thread \cap {"free", "worker"} = {}
    BY ConstantsAssumption DEF TypeInv, TypeOK
  <1>2. CASE UNCHANGED vars
    BY <1>2 DEF vars, LockHeld
  <1>3. CASE Register \/ Unregister \/ Remove
    <2>1. pc' = pc /\ lock' = lock /\ wk' = wk
      BY <1>3 DEF Register, Remove, RegisterMisc, RegisterCdev,
           RegisterCdevFails, RegisterStart, RegisterUpdateWorker,
           RegisterDone, Unregister, MiscDeregister, UnregisterStop,
           UnregisterStopped, UnregisterClearWdd, UnregisterCancelTimer,
           UnregisterCancelWork, UnregisterPut
    <2> QED BY <2>1 DEF LockHeld
  <1>4. ASSUME NEW t \in Thread, Call(t) \/ Acquire(t) \/ Continue(t)
        PROVE  LockHeld'
    <2>1. wk' = wk
      BY <1>4 DEF Call, Acquire, Continue, Open, OpenStart, OpenDone, Write,
           Ioctl, WriteLocked, IoctlLocked, Locked, Unlock, Release,
           ReleaseLocked, ReleaseUnlock, ReleasePut
    <2>2. \E next \in PcState :
            /\ pc' = [pc EXCEPT ![t] = next]
            /\ \/ lock' = "free"
               \/ lock' = t /\ next \in {"unlock", "released"}
               \/ lock' = lock /\ pc[t] \notin {"unlock", "released"}
      BY <1>4 DEF Call, Acquire, Continue, Open, OpenStart, OpenDone, Write,
           Ioctl, WriteLocked, IoctlLocked, Locked, Unlock, Release,
           ReleaseLocked, ReleaseUnlock, ReleasePut, Goto, PcState
    <2>3. PICK next \in PcState :
            /\ pc' = [pc EXCEPT ![t] = next]
            /\ \/ lock' = "free"
               \/ lock' = t /\ next \in {"unlock", "released"}
               \/ lock' = lock /\ pc[t] \notin {"unlock", "released"}
      BY <2>2
    <2>4. \A u \in Thread : pc'[u] = IF u = t THEN next ELSE pc[u]
      BY <1>1, <2>3
    <2> QED BY <1>1, <2>1, <2>3, <2>4 DEF LockHeld
  <1>5. CASE watchdog_timer_expired \/ Worker \/ WorkerLocked
    BY <1>1, <1>5 DEF watchdog_timer_expired, Worker, WorkerEnter,
         WorkerUnlock, WorkerLocked, LockHeld
  <1> QED BY <1>2, <1>3, <1>4, <1>5 DEF Next

\* Nobody has the lock.
LEMMA InitHeld == Init => LockHeld
  BY ConstantsAssumption DEF Init, LockHeld

\* wd_data->lock, misc_mtx around watchdog_open and the synchronous
\* cancellation of the work cannot deadlock: watchdog_open never takes the
\* lock, the worker waits for nothing but the lock, and removal waits for the
\* worker without the lock.  Only a worker that died of a NULL wdd under the
\* lock leaves everybody waiting.
THEOREM LocksDoNotCircle == Spec => []NoCircularWait
  <1>1. TypeInv /\ LockHeld => NoCircularWait
    <2>1. SUFFICES ASSUME TypeInv, LockHeld, SomebodyWaits, wk # "oops"
                   PROVE  SomebodyGoesOn
      BY DEF NoCircularWait
    <2>2. /\ wk \in WorkerState
          /\ lock \in {"free", "worker"} \cup Thread
      BY <2>1 DEF TypeInv, TypeOK
    <2>3. CASE lock = "worker"
      BY <2>1, <2>3 DEF LockHeld, SomebodyGoesOn, WorkerGoesOn
    <2>4. CASE lock \in Thread
      BY <2>1, <2>4 DEF LockHeld, SomebodyGoesOn, CallGoesOn
    <2>5. CASE lock = "free"
      BY <2>1, <2>2, <2>5 DEF SomebodyWaits, SomebodyGoesOn, WorkerGoesOn,
           RemovalGoesOn, CallGoesOn, OpenInProgress, WorkerState
    <2> QED BY <2>2, <2>3, <2>4, <2>5
  <1> QED BY <1>1, InitTyped, NextTyped, InitHeld, NextHeld, PTL DEF Spec

\* The worker lives: there is no heartbeat before watchdog_cdev_register is
\* through, and wdd is not cleared.
WorkerLives ==
    /\ reg \in {"off", "misc", "failed"} =>
         /\ ~timer /\ ~work /\ wk = "idle"
         /\ ~file /\ \A t \in Thread : pc[t] = "idle"
    /\ reg \in Registering \cup {"on", "failed"}
    /\ wk # "oops"

\* A built-in driver, which is not removed and registers before there is a
\* user space to open the node.
LEMMA NextLives ==
    ASSUME \A d \in Device : d.removal = "never", EarlyOpen = FALSE,
           TypeInv, WorkerLives, [Next]_vars
    PROVE  WorkerLives'
  <1> USE DEF devVars, refVars, timerVars, fileVars
  <1>1. device.removal = "never" /\ pc \in [Thread -> PcState]
    BY DEF TypeInv, TypeOK
  <1>2. CASE UNCHANGED vars
    BY <1>2 DEF vars, WorkerLives
  <1>3. CASE Register
    <2>1. /\ wk' = wk /\ pc' = pc /\ file' = file /\ work' = work
          /\ reg' \in Registering \cup {"on", "failed"}
          /\ reg' \in {"off", "misc", "failed"} =>
               reg \in {"off", "misc"} /\ timer' = timer
      BY <1>3 DEF Register, RegisterMisc, RegisterCdev, RegisterCdevFails,
           RegisterStart, RegisterUpdateWorker, RegisterDone, Registering
    <2>2. reg' \in {"off", "misc", "failed"} =>
            /\ ~timer' /\ ~work' /\ wk' = "idle"
            /\ ~file' /\ \A t \in Thread : pc'[t] = "idle"
      BY <2>1, Zenon DEF WorkerLives
    <2> QED BY <2>1, <2>2 DEF WorkerLives
  <1>4. CASE Unregister \/ Remove
    BY <1>1, <1>4 DEF Unregister, Remove, MiscDeregister, UnregisterStop,
         UnregisterStopped, UnregisterClearWdd, UnregisterCancelTimer,
         UnregisterCancelWork, UnregisterPut, WorkerLives, Registering
  <1>5. ASSUME NEW t \in Thread, Call(t) \/ Acquire(t) \/ Continue(t)
        PROVE  WorkerLives'
    <2>1. reg' = reg /\ wk' = wk
      BY <1>5 DEF Call, Acquire, Continue, Open, OpenStart, OpenDone, Write,
           Ioctl, WriteLocked, IoctlLocked, Locked, Unlock, Release,
           ReleaseLocked, ReleaseUnlock, ReleasePut
    <2>2. reg \notin {"off", "misc", "failed"}
      BY <1>5 DEF Call, Acquire, Continue, Open, OpenStart, OpenDone, Write,
           Ioctl, WriteLocked, IoctlLocked, Locked, Unlock, Release,
           ReleaseLocked, ReleaseUnlock, ReleasePut, WorkerLives, NodeExists,
           Registering
    <2> QED BY <2>1, <2>2 DEF WorkerLives
  <1>6. CASE watchdog_timer_expired \/ Worker \/ WorkerLocked
    <2>1. reg' = reg /\ HasWdd = (reg \notin {"off", "failed"})
      BY <1>6 DEF watchdog_timer_expired, Worker, WorkerEnter, WorkerUnlock,
           WorkerLocked, HasWdd, WorkerLives, Registering
    <2>2. reg \notin {"off", "misc", "failed"}
      BY <1>6 DEF watchdog_timer_expired, Worker, WorkerEnter, WorkerUnlock,
           WorkerLocked, WorkerLives
    <2>3. wk' # "oops"
      BY <1>6, <2>1, <2>2 DEF watchdog_timer_expired, Worker, WorkerEnter,
           WorkerUnlock, WorkerLocked, WorkerLives
    <2> QED BY <2>1, <2>2, <2>3 DEF WorkerLives
  <1> QED BY <1>2, <1>3, <1>4, <1>5, <1>6 DEF Next

\* For a built-in driver nothing is left to be assumed: the worker does not
\* die, and whoever waits for the mutex waits for somebody who goes on.
THEOREM BuiltInNeverStuck ==
    ASSUME \A d \in Device : d.removal = "never", EarlyOpen = FALSE
    PROVE  Spec => [](SomebodyWaits => SomebodyGoesOn)
  <1>1. Init => WorkerLives
    BY DEF Init, WorkerLives, Registering
  <1>2. TypeInv /\ WorkerLives /\ [Next]_vars => WorkerLives'
    BY NextLives
  <1>3. WorkerLives /\ NoCircularWait => (SomebodyWaits => SomebodyGoesOn)
    BY DEF WorkerLives, NoCircularWait
  <1> QED BY <1>1, <1>2, <1>3, InitTyped, NextTyped, LocksDoNotCircle, PTL
          DEF Spec

=============================================================================
