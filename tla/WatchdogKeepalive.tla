------------------------- MODULE WatchdogKeepalive -------------------------
(***************************************************************************)
(* The heartbeat arithmetic of kernel/driver/watchdog_dev.c against the    *)
(* clock: the hrtimer, the worker that pings when the hardware cannot wait *)
(* as long as user space asked, the minimum distance between two pings,    *)
(* and the hardware that resets the machine when it is not pinged.         *)
(*                                                                         *)
(* WatchdogDev has the interleavings of the handlers; here each handler is *)
(* one step, taken at an instant of the clock, and the question is when    *)
(* the reset comes.  Times are ticks of ktime_get(); the driver's ping,    *)
(* start and stop succeed.                                                 *)
(***************************************************************************)
EXTENDS Integers

CONSTANTS Timeouts,   \* the values of wdd->timeout user space asks for
          MaxHw,      \* wdd->max_hw_heartbeat_ms, 0 when not given
          MinHw,      \* wdd->min_hw_heartbeat_ms
          Latency,    \* the longest delay of the kthread worker
          MaxTime     \* bound of the clock

\* What min_not_zero(timeout_ms, max_hw_heartbeat_ms) gives for timeout to.
hw_heartbeat(to) == IF MaxHw # 0 /\ MaxHw < to THEN MaxHw ELSE to

\* A heartbeat is many ticks.  The hardware leaves time for a worker ping
\* that was deferred by the minimum distance, replaced by the periodic one
\* and then late.
ASSUME KeepaliveAssumption ==
  /\ Timeouts \subseteq Nat /\ Timeouts # {}
  /\ MaxHw \in Nat /\ MinHw \in Nat /\ Latency \in Nat /\ MaxTime \in Nat
  /\ \A to \in Timeouts :
       /\ 1 < hw_heartbeat(to)
       /\ MinHw + Latency + hw_heartbeat(to) \div 2 < hw_heartbeat(to)

VARIABLES now,      \* ktime_get()
          wd,       \* wd_data and wdd
          queued,   \* when the work was queued on watchdog_kworker, or Off
          hw,       \* the instant at which the hardware resets, or Off
          reset     \* the hardware has reset the machine

vars == <<now, wd, queued, hw, reset>>

Off == -2

TypeOK ==
  /\ now \in 0..MaxTime
  /\ wd \in [timeout: Timeouts, active: BOOLEAN, running: BOOLEAN,
             can_stop: BOOLEAN, open: BOOLEAN, last_keepalive: 0..MaxTime,
             last_hw_keepalive: -1..MaxTime, timer: Nat \cup {Off}]
  /\ queued \in 0..MaxTime \cup {Off}
  /\ hw \in Nat \cup {Off}
  /\ reset \in BOOLEAN

(***************************************************************************)
(* The helpers work on a wd_data record w at the instant now.              *)
(***************************************************************************)
need_worker(w) ==
  \/ MaxHw # 0 /\ w.active /\ w.timeout > MaxHw
  \/ w.timeout # 0 /\ ~w.active /\ w.running

\* Mutant: the ping is due when the hardware resets.
next_keepalive_full(w) ==
  LET interval == hw_heartbeat(w.timeout)
      latest == w.last_keepalive + w.timeout - hw_heartbeat(w.timeout) - now
  IN  IF w.active /\ latest < interval THEN latest ELSE interval

\* Mutant: the worker goes on whatever user space does.
next_keepalive_forever(w) == hw_heartbeat(w.timeout) \div 2

\* How long from now the next worker ping is due; not positive when the
\* last one is already out.
next_keepalive(w) ==
  LET interval == hw_heartbeat(w.timeout) \div 2
      virt_timeout == w.last_keepalive + w.timeout
      latest == virt_timeout - hw_heartbeat(w.timeout) - now
  IN  IF w.active /\ latest < interval THEN latest ELSE interval

update_worker(w) ==
  LET t == next_keepalive(w)
  IN  IF ~need_worker(w) THEN [w EXCEPT !.timer = Off]
      ELSE IF t > 0 THEN [w EXCEPT !.timer = now + t]
      ELSE w

\* __watchdog_ping: too early, and the ping is only scheduled.
TooEarly(w) == w.last_hw_keepalive + MinHw > now

\* Mutant: the difference of the two instants is taken the wrong way.
ping_inner_swapped(w) ==
  IF TooEarly(w)
  THEN [w EXCEPT !.timer = now - (w.last_hw_keepalive + MinHw - now)]
  ELSE update_worker([w EXCEPT !.last_hw_keepalive = now])

ping_inner(w) ==
  IF TooEarly(w)
  THEN [w EXCEPT !.timer = w.last_hw_keepalive + MinHw]
  ELSE update_worker([w EXCEPT !.last_hw_keepalive = now])

Alive(w) == w.active \/ w.running

\* watchdog_ping
ping(w) ==
  IF Alive(w) THEN ping_inner([w EXCEPT !.last_keepalive = now]) ELSE w

\* The instant the hardware resets after a ping of w, if it gets one.
Reloaded(w) ==
  IF Alive(w) /\ ~TooEarly(w) THEN now + hw_heartbeat(w.timeout) ELSE hw

\* Mutant: the start does not count as a sign of life.
start_unfed(w) ==
  IF w.active THEN w
  ELSE update_worker([w EXCEPT !.active = TRUE, !.last_hw_keepalive = now])

\* watchdog_start
start(w) ==
  IF w.active THEN w
  ELSE update_worker([w EXCEPT !.active = TRUE, !.last_keepalive = now,
                               !.last_hw_keepalive = now])

Started(w) == IF w.active THEN hw ELSE now + hw_heartbeat(w.timeout)

\* watchdog_stop of an active watchdog without nowayout
stop(w) == update_worker([w EXCEPT !.active = FALSE, !.running = ~w.can_stop])

Stopped == IF wd.can_stop THEN Off ELSE hw

-----------------------------------------------------------------------------
(***************************************************************************)
(* watchdog_dev_register has marked the hardware as running, started it    *)
(* and armed the timer, whatever handle_boot_enabled says.  The immediate  *)
(* ping that watchdog_cdev_register schedules for a watchdog the firmware  *)
(* left running may have expired before.                                   *)
(***************************************************************************)
Init ==
  /\ now = 0
  /\ queued \in {Off, 0}
  /\ reset = FALSE
  /\ \E to \in Timeouts, can_stop \in BOOLEAN :
       /\ wd = update_worker(
                 [timeout |-> to, active |-> FALSE, running |-> TRUE,
                  can_stop |-> can_stop, open |-> FALSE, last_keepalive |-> 0,
                  last_hw_keepalive |-> 0, timer |-> Off])
       /\ hw = hw_heartbeat(to)

watchdog_open ==
  /\ ~reset /\ ~wd.open
  /\ wd' = [start(wd) EXCEPT !.open = TRUE]
  /\ hw' = Started(wd)
  /\ UNCHANGED <<now, queued, reset>>

\* write(2) and WDIOC_KEEPALIVE
watchdog_write ==
  /\ ~reset /\ wd.open
  /\ wd' = ping(wd)
  /\ hw' = Reloaded(wd)
  /\ UNCHANGED <<now, queued, reset>>

\* WDIOC_SETTIMEOUT: set, update the worker, ping
ioctl_settimeout(to) ==
  LET w == update_worker([wd EXCEPT !.timeout = to])
  IN  /\ ~reset /\ wd.open
      /\ wd' = ping(w)
      /\ hw' = Reloaded(w)
      /\ UNCHANGED <<now, queued, reset>>

\* WDIOC_SETOPTIONS
ioctl_disablecard ==
  /\ ~reset /\ wd.open /\ wd.active
  /\ wd' = stop(wd)
  /\ hw' = Stopped
  /\ UNCHANGED <<now, queued, reset>>

ioctl_enablecard ==
  /\ ~reset /\ wd.open
  /\ wd' = start(wd)
  /\ hw' = Started(wd)
  /\ UNCHANGED <<now, queued, reset>>

\* close(2).  allowed: the magic character came, or is not required, and
\* nowayout is not set; otherwise the watchdog keeps running and is pinged.
watchdog_release(allowed) ==
  LET kept == wd.active /\ ~allowed
      w == IF ~wd.active THEN wd
           ELSE IF allowed THEN stop(wd) ELSE ping(wd)
  IN  /\ ~reset /\ wd.open
      /\ wd' = [update_worker(w) EXCEPT !.open = FALSE]
      /\ hw' = IF kept THEN Reloaded(wd)
               ELSE IF wd.active THEN Stopped ELSE hw
      /\ UNCHANGED <<now, queued, reset>>

watchdog_timer_expired ==
  /\ ~reset
  /\ wd.timer # Off /\ wd.timer <= now
  /\ wd' = [wd EXCEPT !.timer = Off]
  /\ queued' = IF queued = Off THEN now ELSE queued
  /\ UNCHANGED <<now, hw, reset>>

watchdog_ping_work ==
  /\ ~reset
  /\ queued # Off
  /\ queued' = Off
  /\ wd' = IF Alive(wd) THEN ping_inner(wd) ELSE wd
  /\ hw' = Reloaded(wd)
  /\ UNCHANGED <<now, reset>>

\* The hardware: counts down and resets.
Fire ==
  /\ ~reset
  /\ hw # Off /\ hw <= now
  /\ reset' = TRUE
  /\ UNCHANGED <<now, wd, queued, hw>>

\* The clock: timer interrupts and resets are not late, the worker is by
\* at most Latency.
Tick ==
  /\ ~reset
  /\ now < MaxTime
  /\ wd.timer = Off \/ now < wd.timer
  /\ queued = Off \/ now < queued + Latency
  /\ hw = Off \/ now < hw
  /\ now' = now + 1
  /\ UNCHANGED <<wd, queued, hw, reset>>

Next ==
  \/ watchdog_open
  \/ watchdog_write
  \/ \E to \in Timeouts : ioctl_settimeout(to)
  \/ ioctl_disablecard
  \/ ioctl_enablecard
  \/ \E allowed \in BOOLEAN : watchdog_release(allowed)
  \/ watchdog_timer_expired
  \/ watchdog_ping_work
  \/ Fire
  \/ Tick

Spec == Init /\ [][Next]_vars

-----------------------------------------------------------------------------
\* One timeout after the last sign of life: when the reset should come.
Due == wd.last_keepalive + wd.timeout

\* An active watchdog does not reset the machine more than the minimum ping
\* distance before its time: the worker's pings come often enough, and the
\* one that watchdog_release schedules and then cancels costs no more.
NeverEarly == reset /\ wd.active => now >= Due - MinHw

\* And not later than a deferred and delayed worker ping can make it:
\* watchdog_next_keepalive stops one hardware period before the time.
NeverLate == ~reset /\ wd.active => now <= Due + MinHw + Latency

\* Hardware that runs without an active user is fed in time whenever the
\* kernel has armed the timer or queued the work to feed it.
KernelFeedsInTime ==
  reset /\ ~wd.active => wd.timer = Off /\ queued = Off

\* The ping that instant t stands for comes in time, even if the minimum
\* distance defers it and the worker is late.
InTime(t) ==
  /\ t # Off
  /\ t + Latency < hw
  /\ wd.last_hw_keepalive + MinHw + Latency < hw

\* Who answers for the machine, and the instant user space was promised.
Mode ==
  IF wd.active THEN "user"
  ELSE IF ~wd.running THEN "off"
  ELSE IF InTime(wd.timer) \/ InTime(queued) THEN "kernel"
  ELSE "unfed"

Promised == IF wd.active THEN Due ELSE 0

Promise == INSTANCE WatchdogPromise WITH
  Early <- MinHw,
  Late <- MinHw + Latency,
  held <- wd.open,
  mode <- Mode,
  due <- Promised

\* Timer, worker and hardware together are the watchdog user space is
\* promised: open, write and ioctl move the instant of the reset, a close
\* hands the watchdog back, and once the kernel feeds it, it stays fed as
\* long as nobody opens the device.
PromiseKept == Promise!Spec
=============================================================================
