-------------------------- MODULE WatchdogPromise --------------------------
(***************************************************************************)
(* What the watchdog core promises the user of /dev/watchdog, whatever     *)
(* timer, worker and hardware it uses to keep the promise: the machine is  *)
(* reset one timeout after the last sign of life from user space, and      *)
(* never while nobody is responsible for it.  Early and Late are the       *)
(* slack of an implementation on either side of that instant.              *)
(***************************************************************************)
EXTENDS Integers

CONSTANTS Timeouts,     \* the timeouts user space may ask for
          Early, Late   \* how far from the promised instant a reset may be

VARIABLES now,      \* the monotonic clock
          held,     \* user space has the device open
          mode,     \* who answers for the machine
          due,      \* the promised instant of the reset, 0 when none is
          reset     \* the machine has been reset

vars == <<now, held, mode, due, reset>>

\* "unfed":  the hardware runs and nobody is sure to feed it in time
\* "kernel": the hardware runs and the kernel feeds it
\* "user":   user space has to give signs of life
\* "off":    the hardware is stopped
Modes == {"unfed", "kernel", "user", "off"}

Init ==
  /\ now = 0
  /\ held = FALSE
  /\ mode = "kernel"
  /\ due = 0
  /\ reset = FALSE

\* A sign of life: an open, a write, an ioctl, a close that does not hand
\* the watchdog back.  It moves the promised instant to one timeout from now.
Feed ==
  /\ ~reset
  /\ held \/ held'
  /\ \E t \in Timeouts : due' = now + t
  /\ mode' = "user"
  /\ UNCHANGED <<now, reset>>

\* A watchdog that was kept running is opened again, and not yet pinged.
Reopen ==
  /\ ~reset
  /\ ~held /\ held' = TRUE
  /\ mode = "user"
  /\ UNCHANGED <<now, mode, due, reset>>

\* The user gives the watchdog back, or closes the device after that: it is
\* stopped, or, where it cannot be stopped, the kernel takes over, perhaps
\* too late for this period.
HandBack ==
  /\ ~reset
  /\ held
  /\ held' \in BOOLEAN
  /\ \/ mode # "off" /\ mode' \in {"kernel", "unfed"}
     \/ mode \in {"user", "off"} /\ mode' = "off"
  /\ due' = 0
  /\ UNCHANGED <<now, reset>>

\* The first ping of the kernel after taking over.
TakeOver ==
  /\ ~reset
  /\ mode = "unfed"
  /\ mode' = "kernel"
  /\ UNCHANGED <<now, held, due, reset>>

\* Time passes, but never beyond the latest instant of a promised reset.
Tick ==
  /\ ~reset
  /\ mode = "user" => now < due + Late
  /\ now' = now + 1
  /\ UNCHANGED <<held, mode, due, reset>>

Reset ==
  /\ ~reset
  /\ \/ mode = "unfed"
     \/ mode = "user" /\ now >= due - Early
  /\ reset' = TRUE
  /\ UNCHANGED <<now, held, mode, due>>

Next == Feed \/ Reopen \/ HandBack \/ TakeOver \/ Tick \/ Reset

Spec == Init /\ [][Next]_vars
=============================================================================
