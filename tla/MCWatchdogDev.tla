---------------------------- MODULE MCWatchdogDev ----------------------------
(***************************************************************************)
(* Instances of WatchdogDev for TLC: the sets of devices the runs consider *)
(* and the symmetry of user threads.                                       *)
(***************************************************************************)
EXTENDS WatchdogDev, TLC

\* Devices that the boot loader left running with a usable timeout.  Drivers
\* whose operations may fail and that have a minimum heartbeat show every
\* behaviour of the ones without; they are unbound.  Drivers that do not fail,
\* like dw_wdt, are unloaded.
BootRunningDevices ==
    {d \in DeviceType :
        /\ d.boot /\ d.timeout = "short"
        /\ \/ d.mayFail /\ d.throttle /\ d.removal = "unbind"
           \/ ~d.mayFail /\ ~d.throttle /\ d.removal = "rmmod"}

\* dw_wdt as this repository configures it: magic close, no stop on unregister,
\* no minimum heartbeat, operations that cannot fail.
DwDevice(boot, canStop, removal) ==
    [boot |-> boot, canStop |-> canStop, noWayOut |-> FALSE,
     magicClose |-> TRUE, stopOnUnregister |-> FALSE,
     handleBoot |-> TRUE, mayFail |-> FALSE, throttle |-> FALSE,
     timeout |-> "short", removal |-> removal]

\* Started by the boot loader, with a reset line or without, and removed or not:
\* nobody has to remove a device that can be.  One that cannot be stopped pins
\* its module, so that only unbinding removes it.
DwRemovable ==
    {DwDevice(TRUE, TRUE, "rmmod")}
    \cup {DwDevice(TRUE, c, "unbind") : c \in BOOLEAN}

\* Started by the boot loader, built in and without a reset line: it cannot be
\* stopped.
DwUnstoppable == {DwDevice(TRUE, FALSE, "never")}

ThreadSymmetry == Permutations(Thread)

=============================================================================
