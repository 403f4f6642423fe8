------------------------ MODULE WatchdogRemovalProofs ------------------------
(***************************************************************************)
(* More proofs about WatchdogDev: what a close may stop, what the status   *)
(* bits say of the hardware, and what is left when the driver goes away.   *)
(*                                                                         *)
(* The reference counts are bounded from below: NeedRef and NeedMod are    *)
(* the references that are still going to be dropped, and RefInv says that *)
(* they were all taken.  The counts may be larger, because a stop while    *)
(* the file is open can leave a reference behind for good.                 *)
(***************************************************************************)
EXTENDS WatchdogDevProofs, FiniteSetTheorems

-----------------------------------------------------------------------------
(* The magic character.                                                    *)

\* The bit that lets watchdog_release stop was set by the last write, of this
\* session or of an earlier one.
MagicInv == "ALLOW_RELEASE" \in core => lastWrite \in {"magic", "stale"}

\* Every step keeps it.
LEMMA NextMagic == TypeInv /\ MagicInv /\ [Next]_vars => MagicInv'
  <1> SUFFICES ASSUME TypeInv, MagicInv, [Next]_vars PROVE MagicInv'
    OBVIOUS
  <1> USE DEF devVars, refVars, timerVars, fileVars
  <1>1. CASE UNCHANGED <<core, lastWrite>>
    BY <1>1 DEF MagicInv
  <1>2. ASSUME NEW t \in Thread, Call(t) \/ Acquire(t) \/ Continue(t)
        PROVE  MagicInv'
    <2>1. CASE Write(t)
      BY <2>1 DEF Write, MagicInv
    <2>2. CASE OpenDone(t)
      BY <2>2 DEF OpenDone, MagicInv
    <2>3. CASE lastWrite' = lastWrite /\ core' \ {"DEV_OPEN"} \subseteq core
      BY <2>3 DEF MagicInv
    <2>4. CASE Open(t)
      BY <2>3, <2>4 DEF Open
    <2>5. CASE OpenStart(t)
      BY <2>3, <2>5 DEF OpenStart
    <2>6. CASE Ioctl(t) \/ WriteLocked(t) \/ IoctlLocked(t) \/ Unlock(t)
      BY <2>3, <2>6 DEF Ioctl, WriteLocked, IoctlLocked, Locked, Unlock
    <2>7. CASE Release(t) \/ ReleaseLocked(t)
      BY <2>3, <2>7 DEF Release, ReleaseLocked
    <2>8. CASE ReleaseUnlock(t) \/ ReleasePut(t)
      BY <2>3, <2>8 DEF ReleaseUnlock, ReleasePut
    <2> QED BY <1>2, <2>1, <2>2, <2>4, <2>5, <2>6, <2>7, <2>8
            DEF Call, Acquire, Continue
  <1>3. CASE Register
    BY <1>1, <1>3
       DEF Register, RegisterMisc, RegisterCdev, RegisterCdevFails,
           RegisterStart, RegisterUpdateWorker, RegisterDone
  <1>4. CASE Unregister \/ Remove
    BY <1>1, <1>4
       DEF Remove, Unregister, MiscDeregister, UnregisterStop,
           UnregisterStopped, UnregisterClearWdd, UnregisterCancelTimer,
           UnregisterCancelWork, UnregisterPut
  <1>5. CASE watchdog_timer_expired \/ Worker \/ WorkerLocked
    BY <1>1, <1>5 DEF watchdog_timer_expired, Worker, WorkerEnter,
                      WorkerUnlock, WorkerLocked
  <1>6. CASE UNCHANGED vars
    BY <1>1, <1>6 DEF vars
  <1> QED BY <1>2, <1>3, <1>4, <1>5, <1>6 DEF Next

\* Without the magic character the release of an active watchdog only pings.
LEMMA ReleaseKeepsActive ==
    ASSUME NEW S, NEW T, NEW d, Sound(S, T, d), "ACTIVE" \in d.status,
           device.magicClose, NEW b, ~b, NEW e \in watchdog_release(d, b)
    PROVE  "ACTIVE" \in e.status
  <1> DEFINE s == [d EXCEPT !.ok = FALSE]
  <1>1. Sound(S, T, s) /\ s.status = d.status /\ s.ok = FALSE
    BY DEF Sound, Accounted, DevState
  <1>2. \E p \in watchdog_ping(s) : e \in watchdog_update_worker(p)
    BY <1>1 DEF watchdog_release, watchdog_active
  <1> HIDE DEF s
  <1>3. PICK p \in watchdog_ping(s) : e \in watchdog_update_worker(p)
    BY <1>2
  <1>4. p \in hw_watchdog_ping(s)
    BY <1>1 DEF watchdog_ping, watchdog_active
  <1>5. Sound(S, T, p) /\ p.status = s.status
    BY <1>1, <1>4, HwPingSound
  <1>6. Accounted(T, p)
    BY <1>5 DEF Sound
  <1>7. e.status = p.status
    BY <1>3, <1>6, UpdateWorkerSound
  <1> QED BY <1>1, <1>5, <1>7

\* Whatever the threads that share the file do, a watchdog whose driver asks
\* for the magic character is stopped by a close only if the last write held it.
THEOREM MagicStops == Spec => StopNeedsMagic
  <1>1. ASSUME TypeInv, MagicInv, StoppedByRelease, device.magicClose
        PROVE  lastWrite \in {"magic", "stale"}
    <2>1. PICK t \in Thread : ReleaseLocked(t)
      BY <1>1 DEF StoppedByRelease
    <2>2. SUFFICES ASSUME "ALLOW_RELEASE" \notin core PROVE FALSE
      BY <1>1 DEF MagicInv
    <2>3. "ACTIVE" \in status /\ "ACTIVE" \notin status'
      BY <1>1 DEF StoppedByRelease, Active
    <2>4. HasWdd
      BY <2>1, <2>3 DEF ReleaseLocked, devVars
    <2>5. PICK d \in watchdog_release(Dev, "ALLOW_RELEASE" \in core) :
             Becomes(d, "lock")
      BY <2>1, <2>4 DEF ReleaseLocked
    <2>6. "ACTIVE" \in d.status
      BY <1>1, <2>2, <2>3, DevSound, ReleaseKeepsActive DEF Dev
    <2> QED BY <2>3, <2>5, <2>6 DEF Becomes
  <1>2. TypeInv /\ MagicInv /\ [Next]_vars
          => [StoppedByRelease /\ device.magicClose
                => lastWrite \in {"magic", "stale"}]_vars
    BY <1>1
  <1>3. Init => MagicInv
    BY DEF Init, MagicInv
  <1> QED BY <1>2, <1>3, InitTyped, NextTyped, NextMagic, PTL
          DEF Spec, StopNeedsMagic

-----------------------------------------------------------------------------
(* Removal.                                                                *)

\* Once wdd is NULL nobody is inside a section that could still arm the timer,
\* and what was armed or queued before is cancelled, in this order.
DrainInv ==
    /\ reg \in {"cancel", "drain", "put", "gone"} =>
         /\ \A t \in Thread : pc[t] \notin {"unlock", "released"}
         /\ wk \notin {"pinged", "skipped"}
    /\ reg \in {"drain", "put", "gone"} => ~timer
    /\ reg \in {"put", "gone"} => ~work /\ wk = "idle"

\* Every step keeps it.
LEMMA NextDrain ==
    TypeInv /\ SessionInv /\ DrainInv /\ [Next]_vars => DrainInv'
  <1> SUFFICES ASSUME TypeInv, SessionInv, DrainInv, [Next]_vars
               PROVE  DrainInv'
    OBVIOUS
  <1> USE DEF devVars, refVars, timerVars, fileVars
  <1>1. CASE UNCHANGED <<reg, timer, work, wk, pc>>
    BY <1>1 DEF DrainInv
  <1>2. ASSUME NEW t \in Thread, Call(t) \/ Acquire(t) \/ Continue(t)
        PROVE  DrainInv'
    <2>1. /\ reg' = reg /\ work' = work /\ wk' = wk
          /\ pc \in [Thread -> PcState]
      BY <1>2 DEF Call, Acquire, Continue, Open, OpenStart, OpenDone, Write,
                  Ioctl, WriteLocked, IoctlLocked, Locked, Unlock, Release,
                  ReleaseLocked, ReleaseUnlock, ReleasePut, TypeInv, TypeOK
    <2>2. SUFFICES ASSUME reg \in {"cancel", "drain", "put", "gone"}
                   PROVE  /\ timer' = timer
                          /\ \A u \in Thread : pc'[u] \notin {"unlock", "released"}
      BY <2>1 DEF DrainInv
    <2>3. /\ ~HasWdd /\ ~NodeExists
          /\ pc[t] \notin {"open", "opened", "unlock", "released"}
      BY <2>2 DEF HasWdd, NodeExists, DrainInv, SessionInv, OpenInProgress
    <2>4. /\ timer' = timer
          /\ \E next \in {"write", "idle", "ioctl", "release", "put"} :
               pc' = [pc EXCEPT ![t] = next]
      BY <1>2, <2>3
         DEF Call, Acquire, Continue, Open, OpenStart, OpenDone, Write,
             Ioctl, WriteLocked, IoctlLocked, Locked, Unlock, Release,
             ReleaseLocked, ReleaseUnlock, ReleasePut, Goto
    <2> QED BY <2>1, <2>2, <2>4 DEF DrainInv
  <1>3. CASE Register \/ Unregister
    <2>1. reg' \notin {"cancel", "drain", "put", "gone"}
      BY <1>3 DEF Register, RegisterMisc, RegisterCdev, RegisterCdevFails,
                  RegisterStart, RegisterUpdateWorker, RegisterDone,
                  Unregister
    <2> QED BY <2>1 DEF DrainInv
  <1>4. CASE Remove
    <2>1. CASE MiscDeregister \/ UnregisterStop \/ UnregisterStopped
      BY <2>1 DEF MiscDeregister, UnregisterStop, UnregisterStopped, DrainInv
    <2>2. CASE UnregisterClearWdd
      BY <2>2, ConstantsAssumption
         DEF UnregisterClearWdd, DrainInv, SessionInv
    <2>3. CASE UnregisterCancelTimer \/ UnregisterCancelWork \/ UnregisterPut
      BY <2>3 DEF UnregisterCancelTimer, UnregisterCancelWork, UnregisterPut,
                  DrainInv
    <2> QED BY <1>4, <2>1, <2>2, <2>3 DEF Remove
  <1>5. CASE watchdog_timer_expired \/ Worker \/ WorkerLocked
    <2>1. /\ reg' = reg /\ pc' = pc
          /\ reg \in {"cancel", "drain", "put", "gone"} => ~HasWdd
      BY <1>5 DEF watchdog_timer_expired, Worker, WorkerEnter, WorkerUnlock,
                  WorkerLocked, HasWdd
    <2>2. CASE watchdog_timer_expired \/ WorkerEnter
      BY <2>1, <2>2 DEF watchdog_timer_expired, WorkerEnter, DrainInv
    <2>3. CASE WorkerUnlock
      BY <2>1, <2>3 DEF WorkerUnlock, DrainInv
    <2>4. CASE WorkerLocked
      BY <2>1, <2>4 DEF WorkerLocked, DrainInv
    <2> QED BY <1>5, <2>2, <2>3, <2>4 DEF Worker
  <1>6. CASE UNCHANGED vars
    BY <1>1, <1>6 DEF vars
  <1> QED BY <1>2, <1>3, <1>4, <1>5, <1>6 DEF Next

\* Nothing of the heartbeat outlives watchdog_cdev_unregister, although the
\* file may stay open, its users never stop calling, and the node may have been
\* opened at any time: clearing wdd under the lock before the cancels is enough.
THEOREM RemovalQuiesces == Spec => []QuiescentAfterRemoval
  <1>1. Init => DrainInv
    BY DEF Init, DrainInv
  <1>2. DrainInv => QuiescentAfterRemoval
    BY DEF DrainInv, QuiescentAfterRemoval
  <1> QED BY <1>1, <1>2, InitTyped, NextTyped, InitSession, NextSession,
             NextDrain, PTL DEF Spec

-----------------------------------------------------------------------------
(* The status bits tell the truth about the hardware, unless the driver's  *)
(* start fails in watchdog_dev_register, which ignores the error.          *)

\* Either status bit means that the hardware counts.
Honest(d) == d \in DevState /\ (d.status # {} => d.hw)

\* A start that fails at registration finds the hardware running already.
StartSafe == \A d \in Device : d.boot \/ ~d.mayFail

\* watchdog_update_worker leaves the status and the hardware alone.
LEMMA UpdateWorkerHonest ==
    ASSUME NEW d, Honest(d), NEW e \in watchdog_update_worker(d)
    PROVE  Honest(e)
  <1>1. \A c \in TimerCmd : Honest([d EXCEPT !.tm = c])
    BY DEF Honest, DevState
  <1>2. d.tm \in TimerCmd /\ {"arm", "cancel"} \subseteq TimerCmd
    BY DEF Honest, DevState, TimerCmd
  <1>3. CASE watchdog_need_worker(d)
    <2>1. PICK positive \in watchdog_next_keepalive(d) :
            e = [d EXCEPT !.tm = IF positive THEN "arm" ELSE d.tm]
      BY <1>3 DEF watchdog_update_worker
    <2> QED BY <1>1, <1>2, <2>1
  <1>4. CASE ~watchdog_need_worker(d)
    BY <1>1, <1>2, <1>4 DEF watchdog_update_worker
  <1> QED BY <1>3, <1>4

\* So does the result of an operation.
LEMMA OkHonest ==
    ASSUME NEW d, Honest(d), NEW b \in BOOLEAN
    PROVE  Honest([d EXCEPT !.ok = b])
  BY DEF Honest, DevState

\* A ping keeps the status true.
LEMMA PingHonest ==
    ASSUME NEW d, Honest(d), NEW e \in watchdog_ping(d) \cup hw_watchdog_ping(d)
    PROVE  Honest(e)
  <1>1. CASE e = [d EXCEPT !.ok = TRUE]
    BY <1>1, OkHonest
  <1>2. CASE e = [d EXCEPT !.tm = "arm", !.ok = TRUE]
    BY <1>2 DEF Honest, DevState, TimerCmd
  <1>3. ASSUME NEW b \in BOOLEAN, e \in watchdog_update_worker([d EXCEPT !.ok = b])
        PROVE  Honest(e)
    BY <1>3, OkHonest, UpdateWorkerHonest
  <1> QED BY <1>1, <1>2, <1>3 DEF watchdog_ping, hw_watchdog_ping, IfOpsFail

\* watchdog_start pings instead of starting only if HW_RUNNING is true.
LEMMA StartHonest ==
    ASSUME NEW d, Honest(d), NEW e \in watchdog_start(d)
    PROVE  Honest(e)
  <1> DEFINE on == [d EXCEPT !.status = @ \cup {"ACTIVE"},
                             !.hw = @ \/ ~watchdog_hw_running(d), !.ok = TRUE]
  <1>1. Honest(on)
    BY DEF Honest, DevState, StatusBit, watchdog_hw_running
  <1> HIDE DEF on
  <1>2. CASE \E b \in BOOLEAN : e = [d EXCEPT !.ok = b]
    BY <1>2, OkHonest
  <1>3. CASE e \in watchdog_update_worker(on)
    BY <1>1, <1>3, UpdateWorkerHonest
  <1> QED BY <1>2, <1>3 DEF watchdog_start, IfOpsFail, on

\* So does a stop.
LEMMA StopHonest ==
    ASSUME NEW d, Honest(d), NEW e \in watchdog_stop(d)
    PROVE  Honest(e)
  <1> DEFINE off == [d EXCEPT !.status = IF device.canStop THEN {}
                                                           ELSE {"HW_RUNNING"},
                              !.hw = @ /\ ~device.canStop, !.ok = TRUE]
  <1>1. CASE \E b \in BOOLEAN : e = [d EXCEPT !.ok = b]
    BY <1>1, OkHonest
  <1>2. CASE watchdog_active(d) /\ e \in watchdog_update_worker(off)
    <2>1. d.hw
      BY <1>2 DEF Honest, watchdog_active
    <2>2. Honest(off)
      BY <2>1 DEF Honest, DevState, StatusBit
    <2> HIDE DEF off
    <2> QED BY <1>2, <2>2, UpdateWorkerHonest
  <1>3. CASE watchdog_active(d)
             /\ e = [d EXCEPT !.status = @ \ {"HW_RUNNING"}, !.ok = FALSE]
    BY <1>3 DEF Honest, DevState, watchdog_active
  <1> QED BY <1>1, <1>2, <1>3 DEF watchdog_stop, IfOpsFail

\* So does an ioctl.
LEMMA IoctlHonest ==
    ASSUME NEW d, Honest(d), NEW e \in watchdog_ioctl(d)
    PROVE  Honest(e)
  <1>1. ASSUME NEW options, e \in watchdog_set_options(d, options)
        PROVE  Honest(e)
    BY <1>1, StartHonest, StopHonest DEF watchdog_set_options
  <1>2. ASSUME NEW s \in watchdog_set_timeout(d) PROVE Honest(s)
    <2>1. ASSUME NEW b \in BOOLEAN, NEW t \in Timeout
          PROVE  Honest([d EXCEPT !.timeout = t, !.ok = b])
      BY ConstantsAssumption DEF Honest, DevState
    <2> QED BY <1>2, <2>1, OkHonest, UpdateWorkerHonest
            DEF watchdog_set_timeout, IfOpsFail
  <1> QED BY <1>1, <1>2, PingHonest DEF watchdog_ioctl

\* So does a close.
LEMMA ReleaseHonest ==
    ASSUME NEW d, Honest(d), NEW b, NEW e \in watchdog_release(d, b)
    PROVE  Honest(e)
  <1> DEFINE stopped == IF ~watchdog_active(d) THEN {[d EXCEPT !.ok = TRUE]}
                        ELSE IF b \/ ~device.magicClose THEN watchdog_stop(d)
                        ELSE {[d EXCEPT !.ok = FALSE]}
             pinged(s) == IF s.ok THEN {s} ELSE watchdog_ping(s)
  <1>1. PICK s \in stopped :
          \E p \in pinged(s) : e \in watchdog_update_worker(p)
    BY DEF watchdog_release
  <1>2. Honest(s)
    BY StopHonest, OkHonest
  <1> QED BY <1>1, <1>2, PingHonest, UpdateWorkerHonest

HonestInv == status # {} => hw

\* What the boot loader started is known to be running until the device is
\* registered: nobody can stop it before.
BootInv == device.boot /\ reg \in Registering => HwRunning

\* Every step keeps BootInv.
LEMMA NextBoot ==
    ASSUME ~EarlyOpen
    PROVE  Inv /\ BootInv /\ [Next]_vars => BootInv'
  <1> SUFFICES ASSUME Inv, BootInv, [Next]_vars, reg' \in Registering
               PROVE  BootInv'
    BY DEF BootInv
  <1> USE DEF devVars, refVars, timerVars, fileVars, Registering, HwRunning
  <1>1. CASE /\ device' = device /\ reg \in Registering
             /\ status' \in {status, status \cup {"HW_RUNNING"}}
    BY <1>1 DEF BootInv
  <1>2. ASSUME NEW t \in Thread, Call(t) \/ Acquire(t) \/ Continue(t)
        PROVE  FALSE
    <2>1. reg \in Registering
      BY <1>2 DEF Call, Acquire, Continue, Open, OpenStart, OpenDone, Write,
                  Ioctl, WriteLocked, IoctlLocked, Locked, Unlock, Release,
                  ReleaseLocked, ReleaseUnlock, ReleasePut
    <2>2. pc[t] = "idle" /\ ~file
      BY <2>1 DEF Inv, RegisteringInv
    <2> QED BY <1>2, <2>1, <2>2
            DEF Call, Acquire, Continue, Open, OpenStart, OpenDone, Write,
                Ioctl, WriteLocked, IoctlLocked, Unlock, Release,
                ReleaseLocked, ReleaseUnlock, ReleasePut
  <1>3. CASE Register
    <2>1. CASE RegisterUpdateWorker
      <3>1. PICK d \in watchdog_update_worker(Dev) : Becomes(d, "driver")
        BY <2>1 DEF RegisterUpdateWorker
      <3>2. Accounted(timeout, Dev) /\ Dev.status = status
        BY DevSound DEF Inv, Sound, Dev
      <3>3. d.status = status
        BY <3>2, UpdateWorkerSound
      <3> QED BY <1>1, <2>1, <3>1, <3>3 DEF RegisterUpdateWorker, Becomes
    <2> QED BY <1>1, <1>3, <2>1
            DEF Register, RegisterMisc, RegisterCdev, RegisterCdevFails,
                RegisterStart, RegisterDone
  <1>4. CASE Unregister \/ Remove
    BY <1>4
       DEF Remove, Unregister, MiscDeregister, UnregisterStop,
           UnregisterStopped, UnregisterClearWdd, UnregisterCancelTimer,
           UnregisterCancelWork, UnregisterPut
  <1>5. CASE watchdog_timer_expired \/ Worker \/ WorkerLocked
    <2>1. CASE WorkerLocked /\ \E d \in hw_watchdog_ping(Dev) : Becomes(d, "lock")
      <3>1. PICK d \in hw_watchdog_ping(Dev) : Becomes(d, "lock")
        BY <2>1
      <3>2. d.status = status
        BY DevSound, HwPingSound DEF Inv, Dev
      <3> QED BY <1>1, <2>1, <3>1, <3>2 DEF WorkerLocked, Becomes
    <2> QED BY <1>1, <1>5, <2>1
            DEF watchdog_timer_expired, Worker, WorkerEnter, WorkerUnlock,
                WorkerLocked, Becomes, Dev
  <1>6. CASE UNCHANGED vars
    BY <1>1, <1>6 DEF vars
  <1> QED BY <1>2, <1>3, <1>4, <1>5, <1>6 DEF Next

\* Every step keeps HonestInv where a start at registration is safe.
LEMMA NextHonest ==
    ASSUME StartSafe
    PROVE  TypeInv /\ BootInv /\ HonestInv /\ [Next]_vars => HonestInv'
  <1> SUFFICES ASSUME TypeInv, BootInv, HonestInv, [Next]_vars PROVE HonestInv'
    OBVIOUS
  <1> USE DEF devVars, refVars, timerVars, fileVars
  <1>1. Honest(Dev)
    BY DEF Honest, Dev, DevState, TypeInv, TypeOK, TimerCmd, HonestInv
  <1>2. \A d, s : Honest(d) /\ Becomes(d, s) => HonestInv'
    BY DEF Honest, Becomes, HonestInv
  <1>3. CASE UNCHANGED <<status, hw>>
    BY <1>3 DEF HonestInv
  <1>4. ASSUME NEW t \in Thread, Call(t) \/ Acquire(t) \/ Continue(t)
        PROVE  HonestInv'
    <2>1. CASE OpenStart(t)
      BY <1>1, <1>2, <2>1, StartHonest DEF OpenStart
    <2>2. CASE WriteLocked(t)
      BY <1>1, <1>2, <1>3, <2>2, PingHonest DEF WriteLocked, Locked
    <2>3. CASE IoctlLocked(t)
      BY <1>1, <1>2, <1>3, <2>3, IoctlHonest DEF IoctlLocked, Locked
    <2>4. CASE ReleaseLocked(t)
      BY <1>1, <1>2, <1>3, <2>4, ReleaseHonest DEF ReleaseLocked
    <2> QED BY <1>3, <1>4, <2>1, <2>2, <2>3, <2>4
            DEF Call, Acquire, Continue, Open, OpenDone, Write, Ioctl,
                Unlock, Release, ReleaseUnlock, ReleasePut
  <1>5. CASE Register
    <2>1. CASE RegisterStart
      <3>1. device.boot \/ ~device.mayFail
        BY DEF StartSafe, TypeInv, TypeOK
      <3>2. device.boot => hw
        BY <2>1 DEF RegisterStart, BootInv, Registering, HwRunning, HonestInv
      <3> QED BY <2>1, <3>1, <3>2 DEF RegisterStart, IfOpsFail, HonestInv
    <2>2. CASE RegisterUpdateWorker
      BY <1>1, <1>2, <2>2, UpdateWorkerHonest DEF RegisterUpdateWorker
    <2> QED BY <1>3, <1>5, <2>1, <2>2
            DEF Register, RegisterMisc, RegisterCdev, RegisterCdevFails,
                RegisterDone
  <1>6. CASE Unregister \/ Remove
    BY <1>1, <1>2, <1>3, <1>6, StopHonest
       DEF Remove, Unregister, MiscDeregister, UnregisterStop,
           UnregisterStopped, UnregisterClearWdd, UnregisterCancelTimer,
           UnregisterCancelWork, UnregisterPut
  <1>7. CASE watchdog_timer_expired \/ Worker \/ WorkerLocked
    BY <1>1, <1>2, <1>3, <1>7, PingHonest
       DEF watchdog_timer_expired, Worker, WorkerEnter, WorkerUnlock,
           WorkerLocked
  <1>8. CASE UNCHANGED vars
    BY <1>3, <1>8 DEF vars
  <1> QED BY <1>4, <1>5, <1>6, <1>7, <1>8 DEF Next

\* An active watchdog is counting, under every interleaving and every failing
\* start, stop or ping after registration.  StartSafe is needed: if ops->start
\* fails for idle hardware in watchdog_dev_register, HW_RUNNING is set all the
\* same and the first open only pings.
THEOREM ActiveIsCounting ==
    ASSUME ~EarlyOpen, StartSafe
    PROVE  Spec => []ActiveMeansCounting
  <1>1. Init => Inv /\ BootInv /\ HonestInv
    BY InitTyped, InitSession, InitFeeds
       DEF Init, Inv, BootInv, HonestInv, HwRunning
  <1>2. Inv /\ [Next]_vars => Inv'
    BY NextFeeds
  <1>3. Inv /\ BootInv /\ [Next]_vars => BootInv'
    BY NextBoot
  <1>4. Inv /\ BootInv /\ HonestInv /\ [Next]_vars => HonestInv'
    BY NextHonest DEF Inv
  <1>5. HonestInv => ActiveMeansCounting
    BY DEF HonestInv, ActiveMeansCounting, Active
  <1> QED BY <1>1, <1>2, <1>3, <1>4, <1>5, PTL DEF Spec

-----------------------------------------------------------------------------
(* The references to wd_data and to the driver's module.                   *)

\* Calls that are about to drop a module and a device reference.
Leaving == {t \in Thread : pc[t] = "put"}

\* A session that has passed watchdog_open and not yet reached its last unlock.
InSession == file \/ \E t \in Thread : pc[t] \in {"release", "released"}

\* The reference taken for running hardware, by watchdog_cdev_register or left
\* behind by a close, that the last unlock of a later session may hand on.
HwPinned ==
    /\ reg \in {"cdev", "tail", "program", "on", "del"}
    /\ HwRunning

One(b) == IF b THEN 1 ELSE 0

\* device_initialize and cdev_device_add, until cdev_device_del and the last put.
Base == IF reg \in {"off", "failed", "gone"} THEN 0
        ELSE IF reg \in {"cdev", "tail", "program", "on"} THEN 2 ELSE 1

NeedRef == Base + Cardinality(Leaving) + One(InSession \/ HwPinned)
NeedMod == 1 + Cardinality(Leaving)
             + One(InSession \/ HwPinned \/ OpenInProgress)

\* Devices whose module reference count can be trusted: a failing start in
\* watchdog_open drops a reference that was never taken.
Rmmod == device.removal = "rmmod" /\ ~device.mayFail

Removed == {"del", "dereg", "stopped", "clear", "cancel", "drain", "put", "gone"}

\* What is still to be dropped was taken.  Removal by rmmod begins with nobody
\* inside, and lets nobody in.
RefInv ==
    /\ IsFiniteSet(Leaving)
    /\ reg \in Registering => HwRunning
    /\ reg \in {"off", "misc", "failed"} => ~timer /\ ~work /\ wk = "idle"
    /\ OpenInProgress => hw_running = HwRunning
    /\ kref >= NeedRef
    /\ Rmmod => modref >= NeedMod
    /\ Rmmod /\ reg \in Removed =>
         /\ ~file /\ \A t \in Thread : pc[t] = "idle"
         /\ reg = "del" => ~HwRunning

\* How the number of closes that still owe a put changes with one label.
LEMMA LeavingStep ==
    ASSUME TypeInv, IsFiniteSet(Leaving), NEW t \in Thread, NEW next \in PcState,
           pc' = [pc EXCEPT ![t] = next]
    PROVE  /\ IsFiniteSet(Leaving')
           /\ Cardinality(Leaving) \in Nat /\ Cardinality(Leaving') \in Nat
           /\ pc[t] # "put" /\ next # "put"
                => Cardinality(Leaving') = Cardinality(Leaving)
           /\ pc[t] # "put" /\ next = "put"
                => Cardinality(Leaving') = Cardinality(Leaving) + 1
           /\ pc[t] = "put" /\ next # "put"
                => Cardinality(Leaving') = Cardinality(Leaving) - 1
  <1>1. \A u \in Thread : pc'[u] = IF u = t THEN next ELSE pc[u]
    BY DEF TypeInv, TypeOK
  <1>2. CASE pc[t] # "put" /\ next # "put"
    <2>1. Leaving' = Leaving
      BY <1>1, <1>2 DEF Leaving
    <2> QED BY <1>2, <2>1, FS_CardinalityType
  <1>3. CASE pc[t] # "put" /\ next = "put"
    <2>1. Leaving' = Leaving \cup {t} /\ t \notin Leaving
      BY <1>1, <1>3 DEF Leaving
    <2> QED BY <1>3, <2>1, FS_AddElement, FS_CardinalityType
  <1>4. CASE pc[t] = "put" /\ next # "put"
    <2>1. Leaving' = Leaving \ {t} /\ t \in Leaving
      BY <1>1, <1>4 DEF Leaving
    <2> QED BY <1>4, <2>1, FS_RemoveElement, FS_CardinalityType
  <1>5. CASE pc[t] = "put" /\ next = "put"
    <2>1. Leaving' = Leaving
      BY <1>1, <1>5 DEF Leaving
    <2> QED BY <1>5, <2>1, FS_CardinalityType
  <1> QED BY <1>2, <1>3, <1>4, <1>5

\* While the device is registered nobody is inside.
LEMMA RegisteringAlone ==
    ASSUME Inv, reg \in Registering
    PROVE  /\ ~InSession /\ ~OpenInProgress /\ ~file
           /\ Cardinality(Leaving) = 0
           /\ \A t \in Thread : pc[t] = "idle"
  <1>1. ~file /\ \A t \in Thread : pc[t] = "idle"
    BY DEF Inv, RegisteringInv
  <1>2. Leaving = {}
    BY <1>1 DEF Leaving
  <1> QED BY <1>1, <1>2, FS_EmptySet DEF InSession, OpenInProgress

\* The driver thread changes no file and no call.
LEMMA DriverFrame ==
    ASSUME Register \/ Unregister \/ Remove
    PROVE  /\ device' = device /\ pc' = pc /\ file' = file
           /\ Leaving' = Leaving /\ (InSession' <=> InSession)
           /\ (OpenInProgress' <=> OpenInProgress) /\ (Rmmod' <=> Rmmod)
           /\ hw_running' = hw_running
  <1>1. /\ device' = device /\ pc' = pc /\ file' = file
        /\ hw_running' = hw_running
    BY DEF Register, Remove, RegisterMisc, RegisterCdev, RegisterCdevFails,
           RegisterStart, RegisterUpdateWorker, RegisterDone, Unregister,
           MiscDeregister, UnregisterStop, UnregisterStopped,
           UnregisterClearWdd, UnregisterCancelTimer, UnregisterCancelWork,
           UnregisterPut, fileVars
  <1> QED BY <1>1 DEF Leaving, InSession, OpenInProgress, Rmmod

\* Registration takes the references it owes.
LEMMA RegisterRefs ==
    ASSUME Inv, RefInv, Register
    PROVE  RefInv'
  <1> USE DEF devVars, refVars, timerVars, fileVars
  <1>1. reg \in Registering
    BY DEF Register, RegisterMisc, RegisterCdev, RegisterCdevFails,
           RegisterStart, RegisterUpdateWorker, RegisterDone, Registering
  <1>2. /\ Leaving' = Leaving /\ Cardinality(Leaving') = 0
        /\ ~InSession /\ ~InSession' /\ ~OpenInProgress'
        /\ (Rmmod' <=> Rmmod)
    BY <1>1, RegisteringAlone, DriverFrame
  <1>3. HwRunning /\ HwRunning'
    <2>1. HwRunning
      BY <1>1 DEF RefInv
    <2>2. CASE RegisterUpdateWorker
      <3>1. PICK d \in watchdog_update_worker(Dev) : Becomes(d, "driver")
        BY <2>2 DEF RegisterUpdateWorker
      <3>2. Accounted(timeout, Dev) /\ Dev.status = status
        BY DevSound DEF Inv, Sound, Dev
      <3>3. d.status = status
        BY <3>2, UpdateWorkerSound
      <3> QED BY <2>1, <3>1, <3>3 DEF Becomes, HwRunning
    <2> QED BY <2>1, <2>2
            DEF Register, RegisterMisc, RegisterCdev, RegisterCdevFails,
                RegisterStart, RegisterDone, HwRunning
  <1>4. kref \in Nat /\ modref \in Nat
    BY DEF Inv, TypeInv, TypeOK
  <1>5. /\ kref >= Base + One(HwPinned)
        /\ Rmmod => modref >= 1 + One(HwPinned)
    BY <1>1, <1>2, <1>4, RegisteringAlone
       DEF RefInv, NeedRef, NeedMod, One, Base
  <1>6. SUFFICES /\ kref' >= Base' + One(HwPinned)'
                 /\ Rmmod => modref' >= 1 + One(HwPinned)'
                 /\ reg' \notin Removed
                 /\ reg' \in {"misc", "failed"} => UNCHANGED <<timer, work, wk>>
                 /\ reg' # "off"
                 /\ reg' \in {"misc", "failed"} => reg \in {"off", "misc"}
    <2>1. /\ NeedRef' = Base' + One(HwPinned)'
          /\ NeedMod' = 1 + One(HwPinned)'
      BY <1>2 DEF NeedRef, NeedMod, One, Base
    <2>2. reg' \in {"off", "misc", "failed"} => ~timer' /\ ~work' /\ wk' = "idle"
      BY <1>6 DEF RefInv
    <2> QED BY <1>2, <1>3, <1>6, <2>1, <2>2 DEF RefInv
  <1>7. CASE RegisterMisc
    BY <1>3, <1>4, <1>5, <1>7 DEF RegisterMisc, Base, One, HwPinned, Removed
  <1>8. CASE RegisterCdev
    BY <1>3, <1>4, <1>5, <1>8
       DEF RegisterCdev, Base, One, HwPinned, HwRunning, Removed
  <1>9. CASE RegisterCdevFails
    BY <1>3, <1>4, <1>5, <1>9
       DEF RegisterCdevFails, Base, One, HwPinned, Removed, put_device
  <1>10. CASE RegisterStart \/ RegisterUpdateWorker \/ RegisterDone
    BY <1>3, <1>4, <1>5, <1>10
       DEF RegisterStart, RegisterUpdateWorker, RegisterDone, Base, One,
           HwPinned, Removed
  <1> QED BY <1>7, <1>8, <1>9, <1>10 DEF Register

\* rmmod waits for the last module reference: then no thread is inside.
LEMMA UnregisterRefs ==
    ASSUME Inv, RefInv, Unregister
    PROVE  RefInv'
  <1> USE DEF devVars, refVars, timerVars, fileVars
  <1>1. /\ reg = "on" /\ reg' = "del" /\ status' = status /\ modref' = modref
        /\ kref' = put_device(kref)
        /\ Rmmod => modref = 1
    BY DEF Unregister, Rmmod
  <1>2. /\ kref \in Nat /\ modref \in Nat /\ Cardinality(Leaving) \in Nat
        /\ IsFiniteSet(Leaving)
    BY FS_CardinalityType DEF Inv, TypeInv, TypeOK, RefInv
  <1>3. /\ Leaving' = Leaving /\ (InSession' <=> InSession)
        /\ (OpenInProgress' <=> OpenInProgress) /\ (Rmmod' <=> Rmmod)
        /\ pc' = pc /\ file' = file /\ hw_running' = hw_running
        /\ (HwPinned' <=> HwPinned) /\ HwRunning' = HwRunning
    BY <1>1, DriverFrame DEF HwPinned, HwRunning
  <1>4. kref' >= NeedRef'
    BY <1>1, <1>2, <1>3 DEF RefInv, NeedRef, Base, One, put_device
  <1>5. Rmmod => modref' >= NeedMod'
    BY <1>1, <1>2, <1>3 DEF RefInv, NeedMod, One
  <1>6. Rmmod => ~file /\ (\A t \in Thread : pc[t] = "idle") /\ ~HwRunning
    <2> SUFFICES ASSUME Rmmod
                 PROVE  ~file /\ (\A t \in Thread : pc[t] = "idle") /\ ~HwRunning
      OBVIOUS
    <2>1. /\ Cardinality(Leaving) = 0
          /\ ~InSession /\ ~HwPinned /\ ~OpenInProgress
      BY <1>1, <1>2 DEF RefInv, NeedMod, One
    <2>2. Leaving = {}
      BY <1>2, <2>1, FS_EmptySet
    <2>3. ~file /\ ~HwRunning
      BY <1>1, <2>1 DEF InSession, HwPinned
    <2>4. \A t \in Thread : pc[t] \in PcState
      BY DEF Inv, TypeInv, TypeOK
    <2> QED BY <2>1, <2>2, <2>3, <2>4
            DEF Leaving, InSession, OpenInProgress, Inv, SessionInv, PcState
  <1> QED BY <1>1, <1>2, <1>3, <1>4, <1>5, <1>6 DEF RefInv, Registering

\* Removal drops its own reference.
LEMMA RemoveRefs ==
    ASSUME Inv, RefInv, Remove
    PROVE  RefInv'
  <1> USE DEF devVars, refVars, timerVars, fileVars
  <1>1. /\ reg \in Removed /\ reg' \in Removed \ {"del"}
        /\ reg = "del" => ~OpenInProgress
        /\ modref' = modref
        /\ \/ kref' = kref /\ Base' = Base
           \/ kref' = put_device(kref) /\ Base' = Base - 1
    BY DEF Remove, MiscDeregister, UnregisterStop, UnregisterStopped,
           UnregisterClearWdd, UnregisterCancelTimer, UnregisterCancelWork,
           UnregisterPut, Base, Removed
  <1>2. /\ kref \in Nat /\ modref \in Nat /\ Cardinality(Leaving) \in Nat
        /\ IsFiniteSet(Leaving)
    BY FS_CardinalityType DEF Inv, TypeInv, TypeOK, RefInv
  <1>3. /\ Leaving' = Leaving /\ (InSession' <=> InSession)
        /\ (OpenInProgress' <=> OpenInProgress) /\ (Rmmod' <=> Rmmod)
        /\ pc' = pc /\ file' = file
    BY DriverFrame
  <1>4. ~HwPinned' /\ ~OpenInProgress'
    BY <1>1, <1>3 DEF HwPinned, Removed, Inv, SessionInv, NodeExists
  <1>5. kref' >= NeedRef'
    BY <1>1, <1>2, <1>3, <1>4 DEF RefInv, NeedRef, One, put_device, Base
  <1>6. Rmmod => modref' >= NeedMod'
    BY <1>1, <1>2, <1>3, <1>4 DEF RefInv, NeedMod, One
  <1>7. reg' \notin Registering \cup {"off", "misc", "failed"}
    BY <1>1 DEF Removed, Registering
  <1> QED BY <1>1, <1>2, <1>3, <1>4, <1>5, <1>6, <1>7 DEF RefInv

\* watchdog_start never touches WDOG_HW_RUNNING, and fails only if the driver's
\* operations may.
LEMMA StartKeepsRunning ==
    ASSUME TypeInv, NEW e \in watchdog_start(Dev)
    PROVE  "HW_RUNNING" \in e.status <=> "HW_RUNNING" \in status
  <1> DEFINE on == [Dev EXCEPT !.status = @ \cup {"ACTIVE"},
                               !.hw = @ \/ ~watchdog_hw_running(Dev), !.ok = TRUE]
  <1>1. Sound(status, timeout, Dev)
    BY DevSound
  <1>2. /\ Accounted(timeout, on)
        /\ "HW_RUNNING" \in on.status <=> "HW_RUNNING" \in status
    BY <1>1 DEF Sound, Accounted, DevState, StatusBit, Dev
  <1> HIDE DEF on
  <1>3. CASE e \in watchdog_update_worker(on)
    BY <1>2, <1>3, UpdateWorkerSound
  <1>4. CASE \E b \in BOOLEAN : e = [Dev EXCEPT !.ok = b]
    BY <1>4 DEF Dev
  <1> QED BY <1>3, <1>4 DEF watchdog_start, IfOpsFail, on

\* The start of a driver that cannot fail succeeds.
LEMMA StartOk ==
    ASSUME TypeInv, NEW e \in watchdog_start(Dev), ~device.mayFail
    PROVE  e.ok
  <1> DEFINE on == [Dev EXCEPT !.status = @ \cup {"ACTIVE"},
                               !.hw = @ \/ ~watchdog_hw_running(Dev), !.ok = TRUE]
  <1>1. Sound(status, timeout, Dev)
    BY DevSound
  <1>2. Accounted(timeout, on) /\ on.ok
    BY <1>1 DEF Sound, Accounted, DevState, StatusBit, Dev
  <1> HIDE DEF on
  <1>3. CASE e \in watchdog_update_worker(on)
    BY <1>2, <1>3, UpdateWorkerSound
  <1>4. CASE e = [Dev EXCEPT !.ok = TRUE]
    BY <1>4 DEF Dev
  <1> QED BY <1>3, <1>4 DEF watchdog_start, IfOpsFail, on

\* A call finds the device registered, and leaves the driver thread alone.
LEMMA CallFrame ==
    ASSUME ~EarlyOpen, Inv, RefInv,
           NEW t \in Thread, Call(t) \/ Acquire(t) \/ Continue(t)
    PROVE  /\ reg' = reg /\ reg \notin Registering \cup {"failed"}
           /\ Base' = Base /\ (Rmmod' <=> Rmmod)
           /\ kref \in Nat /\ modref \in Nat
           /\ pc[t] # "idle" \/ file => ~(Rmmod /\ reg \in Removed)
           /\ \A u \in Thread : pc[u] \in PcState
           /\ reg \in {"on"} \cup Removed
  <1>1. reg' = reg /\ device' = device
    BY DEF Call, Acquire, Continue, Open, OpenStart, OpenDone, Write, Ioctl,
           WriteLocked, IoctlLocked, Locked, Unlock, Release, ReleaseLocked,
           ReleaseUnlock, ReleasePut, devVars, refVars, timerVars, fileVars
  <1>2. (NodeExists /\ reg \notin Registering) \/ pc[t] # "idle" \/ file
    BY DEF Call, Acquire, Continue, Open, OpenStart, OpenDone, Write, Ioctl,
           WriteLocked, IoctlLocked, Unlock, Release, ReleaseLocked,
           ReleaseUnlock, ReleasePut
  <1>3. reg \notin Registering \cup {"failed"}
    BY <1>2 DEF Inv, RegisteringInv, NodeExists
  <1>4. reg \in {"on"} \cup Removed
    BY <1>3 DEF Inv, TypeInv, TypeOK, RegState, Registering, Removed
  <1> QED BY <1>1, <1>3, <1>4 DEF Base, Rmmod, RefInv, Inv, TypeInv, TypeOK

\* What is left to show for a step of thread t from one label to the next.
LEMMA CallRefs ==
    ASSUME ~EarlyOpen, Inv, RefInv,
           NEW t \in Thread, Call(t) \/ Acquire(t) \/ Continue(t),
           NEW next \in PcState, pc' = [pc EXCEPT ![t] = next],
           Rmmod /\ reg \in Removed => pc[t] # "idle" \/ file,
           OpenInProgress' => hw_running' = HwRunning',
           kref' >= NeedRef',
           Rmmod => modref' >= NeedMod'
    PROVE  RefInv'
  <1>1. /\ reg' = reg /\ reg \notin Registering \cup {"failed"}
        /\ (Rmmod' <=> Rmmod) /\ ~(Rmmod /\ reg \in Removed)
    BY CallFrame
  <1>2. IsFiniteSet(Leaving')
    BY LeavingStep DEF Inv, RefInv
  <1> QED BY <1>1, <1>2 DEF RefInv, Registering

\* open() takes the references that its close will drop.
LEMMA OpenRefs ==
    ASSUME ~EarlyOpen, Inv, RefInv, NEW t \in Thread,
           Open(t) \/ OpenStart(t) \/ OpenDone(t)
    PROVE  RefInv'
  <1> USE DEF devVars, refVars, timerVars
  <1>0. Call(t) \/ Acquire(t) \/ Continue(t)
    BY DEF Call, Acquire, Continue
  <1>1. /\ reg' = reg /\ reg \in {"on"} \cup Removed
        /\ Base' = Base /\ Base \in Nat /\ (Rmmod' <=> Rmmod)
        /\ kref \in Nat /\ modref \in Nat
        /\ pc \in [Thread -> PcState]
    BY <1>0, CallFrame DEF Inv, TypeInv, TypeOK, Base
  <1>2. NodeExists
    BY DEF Open, OpenStart, OpenDone, Inv, SessionInv, OpenInProgress
  <1>3. HwPinned <=> HwRunning
    BY <1>1, <1>2 DEF HwPinned, NodeExists, Removed
  <1>4. HwPinned' <=> HwRunning'
    BY <1>1, <1>2 DEF HwPinned, NodeExists, Removed
  <1>5. /\ kref >= NeedRef
        /\ Rmmod => modref >= NeedMod
    BY DEF RefInv
  <1>6. CASE Open(t)
    <2>1. /\ pc[t] = "idle" /\ ~OpenInProgress /\ "DEV_OPEN" \notin core
          /\ pc' = [pc EXCEPT ![t] = "open"] /\ file' = file
          /\ status' = status /\ kref' = kref
          /\ hw_running' = HwRunning
          /\ HwRunning => modref' = modref
          /\ ~HwRunning => CanGetModule /\ modref' = modref + 1
      BY <1>6 DEF Open, Goto, HwRunning
    <2>2. \A u \in Thread : pc'[u] = IF u = t THEN "open" ELSE pc[u]
      BY <1>1, <2>1
    <2>3. HasWdd
      BY <1>2 DEF HasWdd, NodeExists
    <2>4. ~file /\ \A u \in Thread : ~Session(u)
      BY <2>1, <2>3 DEF Inv, SessionInv
    <2>5. ~InSession /\ ~InSession'
      BY <2>1, <2>2, <2>4 DEF InSession, Session
    <2>6. "open" \in PcState /\ HwRunning' = HwRunning
      BY <2>1 DEF PcState, HwRunning
    <2>7. /\ Cardinality(Leaving') = Cardinality(Leaving)
          /\ Cardinality(Leaving) \in Nat
      BY <2>1, <2>6, LeavingStep DEF Inv, RefInv
    <2>8. kref' >= NeedRef'
      BY <1>1, <1>3, <1>4, <1>5, <2>1, <2>5, <2>6, <2>7 DEF NeedRef, One
    <2>9. Rmmod => modref' >= NeedMod'
      BY <1>1, <1>3, <1>4, <1>5, <2>1, <2>5, <2>6, <2>7 DEF NeedMod, One
    <2>10. ~(Rmmod /\ reg \in Removed)
      BY <1>2, <2>1 DEF Rmmod, Removed, NodeExists, RefInv, CanGetModule
    <2> QED BY <1>0, <2>1, <2>6, <2>8, <2>9, <2>10, CallRefs
  <1>7. CASE OpenStart(t)
    <2>1. PICK d \in watchdog_start(Dev) :
            /\ Becomes(d, "open")
            /\ IF d.ok THEN pc' = [pc EXCEPT ![t] = "opened"] /\ modref' = modref
                       ELSE pc' = [pc EXCEPT ![t] = "idle"]
      BY <1>7 DEF OpenStart, Goto
    <2>2. /\ pc[t] = "open" /\ file' = file /\ kref' = kref
          /\ hw_running' = hw_running
      BY <1>7 DEF OpenStart
    <2>3. \E next \in {"opened", "idle"} :
            /\ pc' = [pc EXCEPT ![t] = next]
            /\ next = "opened" => modref' = modref
            /\ next = "idle" => device.mayFail
      BY <2>1, StartOk DEF Inv
    <2>4. PICK next \in {"opened", "idle"} :
            /\ pc' = [pc EXCEPT ![t] = next]
            /\ next = "opened" => modref' = modref
            /\ next = "idle" => device.mayFail
      BY <2>3
    <2>5. \A u \in Thread : pc'[u] = IF u = t THEN next ELSE pc[u]
      BY <1>1, <2>4
    <2>6. ~InSession /\ ~InSession' /\ OpenInProgress
      BY <2>2, <2>5 DEF InSession, Session, Inv, SessionInv, SingleOpen,
                        OpenInProgress
    <2>7. HwRunning' <=> HwRunning
      BY <2>1, StartKeepsRunning DEF Becomes, HwRunning, Dev, Inv
    <2>8. /\ Cardinality(Leaving') = Cardinality(Leaving)
          /\ Cardinality(Leaving) \in Nat
      BY <2>2, <2>4, LeavingStep DEF Inv, RefInv, PcState
    <2>9. kref' >= NeedRef'
      BY <1>1, <1>3, <1>4, <1>5, <2>2, <2>6, <2>7, <2>8 DEF NeedRef, One
    <2>10. Rmmod => next = "opened"
      BY <2>4 DEF Rmmod
    <2>11. Rmmod => modref' >= NeedMod'
      BY <1>1, <1>3, <1>4, <1>5, <2>4, <2>6, <2>7, <2>8, <2>10
         DEF NeedMod, One
    <2>12. hw_running' = HwRunning'
      BY <2>2, <2>6, <2>7 DEF RefInv, HwRunning
    <2>13. next \in PcState
      BY DEF PcState
    <2> QED BY <1>0, <2>2, <2>4, <2>9, <2>11, <2>12, <2>13, CallRefs
  <1>8. CASE OpenDone(t)
    <2>1. /\ pc[t] = "opened" /\ file' = TRUE /\ modref' = modref
          /\ pc' = [pc EXCEPT ![t] = "idle"] /\ status' = status
          /\ kref' = IF hw_running THEN kref ELSE kref + 1
      BY <1>8 DEF OpenDone, Goto
    <2>2. \A u \in Thread : pc'[u] = IF u = t THEN "idle" ELSE pc[u]
      BY <1>1, <2>1
    <2>3. OpenInProgress /\ ~OpenInProgress'
      BY <2>1, <2>2 DEF OpenInProgress, Inv, SessionInv, SingleOpen, Session
    <2>4. hw_running = HwRunning /\ HwRunning' = HwRunning /\ InSession'
      BY <2>1, <2>3 DEF RefInv, HwRunning, InSession
    <2>5. "idle" \in PcState
      BY DEF PcState
    <2>6. /\ Cardinality(Leaving') = Cardinality(Leaving)
          /\ Cardinality(Leaving) \in Nat
      BY <2>1, <2>5, LeavingStep DEF Inv, RefInv
    <2>7. kref' >= NeedRef'
      <3>1. CASE HwRunning
        BY <1>1, <1>3, <1>5, <2>1, <2>4, <2>6, <3>1 DEF NeedRef, One
      <3>2. CASE ~HwRunning
        BY <1>1, <1>3, <1>5, <2>1, <2>4, <2>6, <3>2 DEF NeedRef, One
      <3> QED BY <3>1, <3>2
    <2>8. Rmmod => modref' >= NeedMod'
      BY <1>1, <1>3, <1>4, <1>5, <2>1, <2>3, <2>4, <2>6 DEF NeedMod, One
    <2> QED BY <1>0, <2>1, <2>3, <2>5, <2>7, <2>8, CallRefs
  <1> QED BY <1>6, <1>7, <1>8

\* write() and ioctl() owe no new reference.
LEMMA FileRefs ==
    ASSUME ~EarlyOpen, Inv, RefInv, NEW t \in Thread,
           \/ Write(t) \/ Ioctl(t) \/ WriteLocked(t) \/ IoctlLocked(t)
           \/ Unlock(t)
    PROVE  RefInv'
  <1> USE DEF devVars, refVars, timerVars
  <1>0. Call(t) \/ Acquire(t) \/ Continue(t)
    BY DEF Call, Acquire, Continue
  <1>1. /\ Base' = Base /\ Base \in Nat /\ (Rmmod' <=> Rmmod)
        /\ pc \in [Thread -> PcState]
    BY <1>0, CallFrame DEF Inv, TypeInv, TypeOK, Base
  <1>2. /\ file /\ file' = file /\ kref' = kref /\ modref' = modref
        /\ pc[t] # "put"
        /\ \E next \in {"idle", "write", "ioctl", "unlock"} :
             pc' = [pc EXCEPT ![t] = next]
    BY DEF Write, Ioctl, WriteLocked, IoctlLocked, Unlock, Locked, Goto, Inv,
           SessionInv
  <1>3. PICK next \in {"idle", "write", "ioctl", "unlock"} :
          pc' = [pc EXCEPT ![t] = next]
    BY <1>2
  <1>4. \A u \in Thread : pc'[u] = IF u = t THEN next ELSE pc[u]
    BY <1>1, <1>3
  <1>5. InSession /\ InSession' /\ ~OpenInProgress'
    BY <1>2, <1>4 DEF InSession, OpenInProgress, Inv, SessionInv, SingleOpen,
                      Session
  <1>6. next \in PcState
    BY DEF PcState
  <1>7. Cardinality(Leaving') = Cardinality(Leaving)
    BY <1>2, <1>3, <1>6, LeavingStep DEF Inv, RefInv
  <1>8. kref' >= NeedRef'
    BY <1>1, <1>2, <1>5, <1>7 DEF RefInv, NeedRef, One
  <1>9. Rmmod => modref' >= NeedMod'
    BY <1>1, <1>2, <1>5, <1>7 DEF RefInv, NeedMod, One
  <1> QED BY <1>0, <1>2, <1>3, <1>5, <1>6, <1>8, <1>9, CallRefs

\* close() drops what it owes, after the session is over.
LEMMA ReleaseRefs ==
    ASSUME ~EarlyOpen, Inv, RefInv, NEW t \in Thread,
           \/ Release(t) \/ ReleaseLocked(t) \/ ReleaseUnlock(t)
           \/ ReleasePut(t)
    PROVE  RefInv'
  <1> USE DEF devVars, refVars, timerVars
  <1>0. Call(t) \/ Acquire(t) \/ Continue(t)
    BY DEF Call, Acquire, Continue
  <1>1. /\ reg' = reg /\ reg \in {"on"} \cup Removed
        /\ Base' = Base /\ Base \in Nat /\ (Rmmod' <=> Rmmod)
        /\ kref \in Nat /\ modref \in Nat
        /\ pc \in [Thread -> PcState]
    BY <1>0, CallFrame DEF Inv, TypeInv, TypeOK, Base
  <1>2. /\ kref >= NeedRef
        /\ Rmmod => modref >= NeedMod
    BY DEF RefInv
  <1>3. {"release", "released", "put", "idle"} \subseteq PcState
    BY DEF PcState
  <1>4. CASE ReleasePut(t)
    <2>1. /\ pc[t] = "put" /\ pc' = [pc EXCEPT ![t] = "idle"]
          /\ file' = file /\ status' = status /\ hw_running' = hw_running
          /\ kref' = put_device(kref)
          /\ modref' = module_put(modref)
      BY <1>1, <1>4 DEF ReleasePut, Goto, Removed
    <2>2. \A u \in Thread : pc'[u] = IF u = t THEN "idle" ELSE pc[u]
      BY <1>1, <2>1
    <2>3. /\ InSession' <=> InSession
          /\ OpenInProgress' <=> OpenInProgress
          /\ HwPinned' <=> HwPinned
          /\ HwRunning' = HwRunning
      BY <1>1, <2>1, <2>2 DEF InSession, OpenInProgress, HwPinned, HwRunning
    <2>4. /\ Cardinality(Leaving') = Cardinality(Leaving) - 1
          /\ Cardinality(Leaving) \in Nat /\ Cardinality(Leaving') \in Nat
      BY <1>3, <2>1, LeavingStep DEF Inv, RefInv
    <2>5. kref' >= NeedRef'
      BY <1>1, <1>2, <2>1, <2>3, <2>4 DEF NeedRef, One, put_device
    <2>6. Rmmod => modref' >= NeedMod'
      BY <1>1, <1>2, <2>1, <2>3, <2>4 DEF NeedMod, One, module_put
    <2>7. OpenInProgress' => hw_running' = HwRunning'
      BY <2>1, <2>3 DEF RefInv
    <2> QED BY <1>0, <1>3, <2>1, <2>5, <2>6, <2>7, CallRefs
  <1>5. CASE ~ReleasePut(t)
    <2>1. /\ file' = FALSE /\ kref' = kref /\ modref' = modref
          /\ pc[t] # "put"
          /\ file \/ pc[t] \in {"release", "released"}
          /\ \A u \in Thread : Session(u) => u = t /\ ~file
      BY <1>5 DEF Release, ReleaseLocked, ReleaseUnlock, Inv, SessionInv,
                  SingleOpen, Session
    <2>2. \E next \in {"release", "released", "put", "idle"} :
            /\ pc' = [pc EXCEPT ![t] = next]
            /\ next = "put" => ~HwPinned'
      BY <1>1, <1>5 DEF Release, ReleaseLocked, ReleaseUnlock, Goto, HwPinned,
                        HwRunning, HasWdd
    <2>3. PICK next \in {"release", "released", "put", "idle"} :
            /\ pc' = [pc EXCEPT ![t] = next]
            /\ next = "put" => ~HwPinned'
      BY <2>2
    <2>4. \A u \in Thread : pc'[u] = IF u = t THEN next ELSE pc[u]
      BY <1>1, <2>3
    <2>5. /\ InSession /\ ~OpenInProgress'
          /\ next = "put" => ~InSession'
      BY <2>1, <2>4 DEF InSession, OpenInProgress, Session
    <2>6. /\ Cardinality(Leaving) \in Nat
          /\ Cardinality(Leaving') = Cardinality(Leaving) + One(next = "put")
      <3>1. next \in PcState /\ TypeInv /\ IsFiniteSet(Leaving)
        BY <1>3 DEF Inv, RefInv
      <3>2. CASE next = "put"
        BY <2>1, <2>3, <3>1, <3>2, LeavingStep DEF One
      <3>3. CASE next # "put"
        <4>1. /\ Cardinality(Leaving) \in Nat
              /\ Cardinality(Leaving') = Cardinality(Leaving)
          BY <2>1, <2>3, <3>1, <3>3, LeavingStep
        <4> QED BY <3>3, <4>1 DEF One
      <3> QED BY <3>2, <3>3
    <2>7. kref' >= NeedRef'
      BY <1>1, <1>2, <2>1, <2>3, <2>5, <2>6 DEF NeedRef, One
    <2>8. Rmmod => modref' >= NeedMod'
      BY <1>1, <1>2, <2>1, <2>3, <2>5, <2>6 DEF NeedMod, One
    <2>9. pc[t] # "idle" \/ file
      BY <2>1
    <2> QED BY <1>0, <1>3, <2>3, <2>5, <2>7, <2>8, <2>9, CallRefs
  <1> QED BY <1>4, <1>5

\* The timer and the worker take and drop no reference.
LEMMA WorkerRefs ==
    ASSUME Inv, RefInv, watchdog_timer_expired \/ Worker \/ WorkerLocked
    PROVE  RefInv'
  <1> USE DEF devVars, refVars, timerVars, fileVars
  <1>1. /\ device' = device /\ reg' = reg /\ pc' = pc /\ file' = file
        /\ kref' = kref /\ modref' = modref /\ hw_running' = hw_running
    BY DEF watchdog_timer_expired, Worker, WorkerEnter, WorkerUnlock,
           WorkerLocked
  <1>2. status' = status
    <2>1. CASE WorkerLocked /\ \E d \in hw_watchdog_ping(Dev) : Becomes(d, "lock")
      <3>1. PICK d \in hw_watchdog_ping(Dev) : Becomes(d, "lock")
        BY <2>1
      <3>2. d.status = status
        BY DevSound, HwPingSound DEF Inv, Dev
      <3> QED BY <3>1, <3>2 DEF Becomes
    <2> QED BY <2>1 DEF watchdog_timer_expired, Worker, WorkerEnter,
                        WorkerUnlock, WorkerLocked, Becomes, Dev
  <1>3. reg \notin {"off", "misc", "failed"}
    BY DEF watchdog_timer_expired, Worker, WorkerEnter, WorkerUnlock,
           WorkerLocked, RefInv
  <1> QED BY <1>1, <1>2, <1>3
          DEF RefInv, NeedRef, NeedMod, Leaving, InSession, HwPinned,
              HwRunning, OpenInProgress, Base, One, Rmmod

\* Every step keeps RefInv.
LEMMA NextRefs ==
    ASSUME ~EarlyOpen
    PROVE  Inv /\ RefInv /\ [Next]_vars => RefInv'
  <1> SUFFICES ASSUME Inv, RefInv, [Next]_vars PROVE RefInv'
    OBVIOUS
  <1>1. CASE UNCHANGED vars
    BY <1>1 DEF vars, RefInv, NeedRef, NeedMod, Leaving, InSession, HwPinned,
                HwRunning, OpenInProgress, Base, One, Rmmod
  <1>2. ASSUME NEW t \in Thread, Call(t) \/ Acquire(t) \/ Continue(t)
        PROVE  RefInv'
    BY <1>2, OpenRefs, FileRefs, ReleaseRefs DEF Call, Acquire, Continue
  <1> QED BY <1>1, <1>2, RegisterRefs, UnregisterRefs, RemoveRefs, WorkerRefs
          DEF Next

\* No device is left idle by the boot loader.  watchdog_dev_register marks idle
\* hardware as running without the references that RegisterCdev takes for it.
BootRunning == \A d \in Device : d.boot

\* At the start no reference to the device is owed.
LEMMA InitRefs ==
    ASSUME BootRunning, Init
    PROVE  RefInv
  <1>1. device.boot
    BY DEF BootRunning, Init
  <1>2. Leaving = {} /\ ~InSession /\ ~OpenInProgress /\ ~HwPinned /\ Base = 0
    BY DEF Init, Leaving, InSession, OpenInProgress, HwPinned, Base
  <1>3. IsFiniteSet(Leaving) /\ Cardinality(Leaving) = 0
    BY <1>2, FS_EmptySet
  <1>4. NeedRef = 0 /\ NeedMod = 1
    BY <1>2, <1>3 DEF NeedRef, NeedMod, One
  <1>5. HwRunning
    BY <1>1 DEF Init, HwRunning
  <1>6. /\ kref >= NeedRef /\ modref >= NeedMod
        /\ reg = "off" /\ ~timer /\ ~work /\ wk = "idle"
    BY <1>4 DEF Init
  <1> QED BY <1>2, <1>3, <1>5, <1>6 DEF RefInv, Removed

\* Whatever keeps wd_data in use keeps a reference to it.
LEMMA RefsSuffice ==
    ASSUME Inv, DrainInv, RefInv
    PROVE  NoUseAfterFree
  <1> SUFFICES ASSUME InUse PROVE kref > 0
    BY DEF NoUseAfterFree
  <1>1. /\ kref \in Nat /\ Cardinality(Leaving) \in Nat
        /\ Base \in Nat /\ One(InSession \/ HwPinned) \in Nat
        /\ kref >= NeedRef
    BY FS_CardinalityType DEF Inv, TypeInv, TypeOK, RefInv, Base, One
  <1>2. CASE reg \notin {"off", "gone", "failed"}
    <2>1. Base > 0
      BY <1>2 DEF Base
    <2> QED BY <1>1, <2>1 DEF NeedRef
  <1>3. CASE InSession
    BY <1>1, <1>3 DEF NeedRef, One
  <1>4. CASE Leaving # {}
    <2>1. Cardinality(Leaving) # 0
      BY <1>4, FS_EmptySet DEF RefInv
    <2> QED BY <1>1, <2>1 DEF NeedRef
  <1>5. ASSUME reg \in {"off", "gone", "failed"}, ~InSession, Leaving = {}
        PROVE  FALSE
    <2>1. ~timer /\ ~work /\ wk = "idle"
      BY <1>5 DEF DrainInv, RefInv
    <2>2. ~file /\ \A t \in Thread : pc[t] \notin {"put", "release", "released"}
      BY <1>5 DEF InSession, Leaving
    <2>3. \A t \in Thread : pc[t] \notin {"open", "opened"}
      BY <1>5 DEF Inv, SessionInv, NodeExists, OpenInProgress
    <2>4. \A t \in Thread : pc[t] = "idle"
      BY <2>2, <2>3 DEF Inv, SessionInv, TypeInv, TypeOK, PcState
    <2> QED BY <1>5, <2>1, <2>2, <2>4 DEF InUse
  <1> QED BY <1>2, <1>3, <1>4, <1>5

\* wd_data is never freed under the driver thread, a file, a call, the timer or
\* the worker, for any number of threads and any order of opens, closes,
\* removal and failing operations, if the boot loader left the watchdog running
\* and nobody opens the node before it is registered.
THEOREM DeviceOutlivesUsers ==
    ASSUME ~EarlyOpen, BootRunning
    PROVE  Spec => []NoUseAfterFree
  <1>1. Init => Inv /\ DrainInv /\ RefInv
    BY InitTyped, InitSession, InitFeeds, InitRefs DEF Init, Inv, DrainInv
  <1>2. Inv /\ [Next]_vars => Inv'
    BY NextFeeds
  <1>3. Inv /\ DrainInv /\ [Next]_vars => DrainInv'
    BY NextDrain DEF Inv
  <1>4. Inv /\ RefInv /\ [Next]_vars => RefInv'
    BY NextRefs
  <1>5. Inv /\ DrainInv /\ RefInv => NoUseAfterFree
    BY RefsSuffice
  <1> QED BY <1>1, <1>2, <1>3, <1>4, <1>5, PTL DEF Spec

\* rmmod never removes the driver under an open file or a call, when the
\* driver's operations do not fail.
THEOREM ModuleOutlivesUsers ==
    ASSUME ~EarlyOpen, BootRunning
    PROVE  Spec => []NoRmmodUnderUser
  <1>1. Init => Inv /\ RefInv
    BY InitTyped, InitSession, InitFeeds, InitRefs DEF Inv
  <1>2. Inv /\ [Next]_vars => Inv'
    BY NextFeeds
  <1>3. Inv /\ RefInv /\ [Next]_vars => RefInv'
    BY NextRefs
  <1>4. RefInv => NoRmmodUnderUser
    BY DEF RefInv, Rmmod, Removed, NoRmmodUnderUser
  <1> QED BY <1>1, <1>2, <1>3, <1>4, PTL DEF Spec

=============================================================================
