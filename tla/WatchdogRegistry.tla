--------------------------- MODULE WatchdogRegistry ---------------------------
(***************************************************************************)
(* The registry half of the watchdog core, watchdog_core.c: registration   *)
(* deferred until watchdog_init, ids from watchdog_ida with aliases and    *)
(* the retry after a legacy watchdog module, the reboot and restart        *)
(* notifiers, and what a driver believes after watchdog_register_device    *)
(* returned.                                                               *)
(*                                                                         *)
(* Registering and unregistering run under wtd_deferred_reg_mutex, so each *)
(* is one step; watchdog_deferred_registration holds the mutex over all of *)
(* its steps.  watchdog_dev_register and watchdog_dev_unregister appear by *)
(* their results only (WatchdogDev models them).  A thread that follows a  *)
(* wd_data pointer that is NULL or belongs to a failed registration is     *)
(* taken to die of it, and never unlocks.                                  *)
(***************************************************************************)
EXTENDS Integers, Sequences, FiniteSets

CONSTANTS
    Wdd,           \* the watchdog devices, one per driver instance
    MaxDogs,       \* MAX_DOGS: ids are below this
    Alias,         \* the watchdog alias of each device, or NoAlias
    StopOnReboot,  \* the devices with WDOG_STOP_ON_REBOOT
    Restart,       \* the devices with ops->restart
    MayFail        \* may allocation, nodes, notifiers and governors fail?

NoAlias == -1

ASSUME RegistryAssumption ==
    /\ MaxDogs \in Nat \ {0}
    /\ Alias \in [Wdd -> Nat \cup {NoAlias}]
    /\ StopOnReboot \subseteq Wdd
    /\ Restart \subseteq Wdd
    /\ MayFail \in BOOLEAN
    /\ Wdd \cap {"none", "legacy"} = {}

VARIABLES
    init,      \* watchdog_init: not run yet, succeeded, or failed
    mutex,     \* wtd_deferred_reg_mutex: free, held by the init call, or
               \* held by a thread that died
    done,      \* wtd_deferred_reg_done
    deferred,  \* wtd_deferred_reg_list
    ida,       \* the ids allocated from watchdog_ida
    id,        \* wdd->id
    wd_data,   \* wdd->wd_data: NULL, a live node, or one that failed
    misc,      \* who owns the misc minor of /dev/watchdog
    reboot,    \* the devices on the reboot notifier chain
    restart,   \* the devices on the restart handler chain
    driver     \* is the driver bound, its wdd allocated?

vars == <<init, mutex, done, deferred, ida, id, wd_data, misc, reboot,
          restart, driver>>

-----------------------------------------------------------------------------
(* The registry state as a record: ret is the result of the last call.     *)

Registry == [ida |-> ida, id |-> id, wd_data |-> wd_data, misc |-> misc,
             reboot |-> reboot, restart |-> restart, ret |-> "OK"]

\* The outcomes S of a step that failed.
IfFails(S) == IF MayFail THEN S ELSE {}

\* The lowest free id in low .. high - 1, or -1.
ida_simple_get(s, low, high) ==
    LET free == {i \in low .. high - 1 : i \notin s.ida}
    IN  IF free = {} THEN -1
        ELSE CHOOSE i \in free : \A j \in free : i <= j

ida_simple_remove(s, i) == [s EXCEPT !.ida = @ \ {i}]

\* watchdog_dev_register of the device with the id it was given.  The misc node
\* goes with id 0.  A failure leaves wdd->wd_data pointing to what failed, freed
\* or not; if only the pretimeout governor fails, the node is unregistered and
\* then used.
watchdog_dev_register(s, w) ==
    LET failed == [s EXCEPT !.wd_data[w] = "failed"]
    IN  IF s.id[w] = 0 /\ s.misc # "none"
        THEN {[failed EXCEPT !.ret = "EBUSY"]}
             \cup IfFails({[s EXCEPT !.ret = "ENOMEM"]})
        ELSE {[s EXCEPT !.wd_data[w] = "live",
                        !.misc = IF s.id[w] = 0 THEN w ELSE @, !.ret = "OK"]}
             \cup IfFails({[failed EXCEPT !.ret = "ENOMEM"],
                           [s EXCEPT !.ret = "ENOMEM"],
                           [s EXCEPT !.wd_data[w] = "NULL", !.ret = "oops"]})

\* Mutant: the misc node stays.
watchdog_dev_unregister_keeps_misc(s, w) ==
    IF s.wd_data[w] = "live"
    THEN [s EXCEPT !.wd_data[w] = "NULL", !.ret = "OK"]
    ELSE [s EXCEPT !.ret = "oops"]

\* watchdog_dev_unregister follows wdd->wd_data without looking at it.
watchdog_dev_unregister(s, w) ==
    IF s.wd_data[w] = "live"
    THEN [s EXCEPT !.wd_data[w] = "NULL",
                   !.misc = IF s.id[w] = 0 THEN "none" ELSE @, !.ret = "OK"]
    ELSE [s EXCEPT !.ret = "oops"]

\* Mutant: the id is not checked.
WithId_unchecked(s, w, i) ==
    {IF n.ret \in {"OK", "oops"} THEN n ELSE ida_simple_remove(n, i)
       : n \in watchdog_dev_register(
                   [s EXCEPT !.ida = @ \cup {i}, !.id[w] = i], w)}

\* Take id i and make the node; give the id back if that fails.
WithId(s, w, i) ==
    IF i < 0 THEN {[s EXCEPT !.ret = "ENOSPC"]}
    ELSE {IF n.ret \in {"OK", "oops"} THEN n ELSE ida_simple_remove(n, i)
            : n \in watchdog_dev_register(
                        [s EXCEPT !.ida = @ \cup {i}, !.id[w] = i], w)}

\* The alias if the device has one and it is free, else the lowest id.
FirstId(s, w) ==
    LET alias == IF Alias[w] = NoAlias THEN -1
                 ELSE ida_simple_get(s, Alias[w], Alias[w] + 1)
    IN  IF alias < 0 THEN ida_simple_get(s, 0, MaxDogs) ELSE alias

\* Mutant: a reboot notifier that cannot be registered leaves the id behind.
Notifiers_leak_id(s, w) ==
    LET rebooted == IF w \notin StopOnReboot THEN {s}
                    ELSE {[s EXCEPT !.reboot = @ \cup {w}]}
                         \cup IfFails({[watchdog_dev_unregister(s, w)
                                          EXCEPT !.ret = "ENOMEM"]})
    IN  UNION {IF r.ret = "OK" /\ w \in Restart
               THEN {[r EXCEPT !.restart = @ \cup {w}]} \cup IfFails({r})
               ELSE {r} : r \in rebooted}

\* The reboot notifier is needed, the restart handler is not.
Notifiers(s, w) ==
    LET undone   == ida_simple_remove(watchdog_dev_unregister(s, w), s.id[w])
        rebooted == IF w \notin StopOnReboot THEN {s}
                    ELSE {[s EXCEPT !.reboot = @ \cup {w}]}
                         \cup IfFails({[undone EXCEPT !.ret = "ENOMEM"]})
    IN  UNION {IF r.ret = "OK" /\ w \in Restart
               THEN {[r EXCEPT !.restart = @ \cup {w}]} \cup IfFails({r})
               ELSE {r} : r \in rebooted}

\* __watchdog_register_device, with the retry when a legacy watchdog module
\* owns the misc node.
core_register_device(s, w) ==
    LET first == WithId(s, w, FirstId(s, w))
        again == UNION {IF n.ret = "EBUSY" /\ n.id[w] = 0
                        THEN WithId(n, w, ida_simple_get(n, 1, MaxDogs))
                        ELSE {n} : n \in first}
    IN  UNION {IF n.ret = "OK" THEN Notifiers(n, w) ELSE {n} : n \in again}

\* Mutant: the reboot notifier is not unregistered.
core_unregister_device_keeps_nb(s, w) ==
    LET n == watchdog_dev_unregister([s EXCEPT !.restart = @ \ {w}], w)
    IN  IF n.ret = "oops" THEN n ELSE ida_simple_remove(n, s.id[w])

\* __watchdog_unregister_device.
core_unregister_device(s, w) ==
    LET n == watchdog_dev_unregister(
                 [s EXCEPT !.restart = @ \ {w},
                           !.reboot = IF w \in StopOnReboot THEN @ \ {w}
                                                            ELSE @], w)
    IN  IF n.ret = "oops" THEN n ELSE ida_simple_remove(n, s.id[w])

-----------------------------------------------------------------------------
Init ==
    /\ init = "pending"
    /\ mutex = "free"
    /\ done = FALSE
    /\ deferred = <<>>
    /\ ida = {}
    /\ id = [w \in Wdd |-> 0]
    /\ wd_data = [w \in Wdd |-> "NULL"]
    /\ misc = "none"
    /\ reboot = {}
    /\ restart = {}
    /\ driver = [w \in Wdd |-> "unbound"]

RegistryBecomes(s) ==
    /\ ida' = s.ida
    /\ id' = s.id
    /\ wd_data' = s.wd_data
    /\ misc' = s.misc
    /\ reboot' = s.reboot
    /\ restart' = s.restart

registryVars == <<ida, id, wd_data, misc, reboot, restart>>

\* The list without the first entry for w, if it has one.
watchdog_deferred_registration_del(list, w) ==
    LET at    == {i \in DOMAIN list : list[i] = w}
        first == CHOOSE i \in at : \A j \in at : i <= j
    IN  IF at = {} THEN list
        ELSE [i \in 1 .. Len(list) - 1 |->
                IF i < first THEN list[i] ELSE list[i + 1]]

Fresh(s, w) == [s EXCEPT !.id[w] = 0, !.wd_data[w] = "NULL"]

\* A driver probes and calls watchdog_register_device with a new wdd; an error
\* fails the probe and frees it.
Probe(w) ==
    /\ driver[w] = "unbound"
    /\ mutex = "free"
    /\ IF done
       THEN /\ \E s \in core_register_device(Registry, w) :
                 /\ RegistryBecomes(IF s.ret \in {"OK", "oops"}
                                    THEN s ELSE Fresh(s, w))
                 /\ driver' = [driver EXCEPT
                                 ![w] = IF s.ret \in {"OK", "oops"} THEN "bound"
                                                                    ELSE @]
                 /\ mutex' = IF s.ret = "oops" THEN "dead" ELSE "free"
            /\ UNCHANGED deferred
       ELSE /\ deferred' = Append(deferred, w)
            /\ driver' = [driver EXCEPT ![w] = "bound"]
            /\ UNCHANGED <<registryVars, mutex>>
    /\ UNCHANGED <<init, done>>

\* Mutant: a deferred device is not taken off the list.
Remove_keeps_deferred(w) ==
    /\ driver[w] = "bound"
    /\ mutex = "free"
    /\ LET s == IF done THEN core_unregister_device(Registry, w) ELSE Registry
       IN  /\ RegistryBecomes(IF s.ret = "oops" THEN s ELSE Fresh(s, w))
           /\ driver' = [driver EXCEPT
                           ![w] = IF s.ret = "oops" THEN @ ELSE "unbound"]
           /\ mutex' = IF s.ret = "oops" THEN "dead" ELSE "free"
    /\ UNCHANGED <<init, done, deferred>>

\* The driver is unbound and calls watchdog_unregister_device; then its wdd is
\* freed.
Remove(w) ==
    /\ driver[w] = "bound"
    /\ mutex = "free"
    /\ LET s == IF done THEN core_unregister_device(Registry, w) ELSE Registry
       IN  /\ RegistryBecomes(IF s.ret = "oops" THEN s ELSE Fresh(s, w))
           /\ driver' = [driver EXCEPT
                           ![w] = IF s.ret = "oops" THEN @ ELSE "unbound"]
           /\ mutex' = IF s.ret = "oops" THEN "dead" ELSE "free"
    /\ deferred' = IF done THEN deferred
                   ELSE watchdog_deferred_registration_del(deferred, w)
    /\ UNCHANGED <<init, done>>

\* watchdog_init: if watchdog_dev_init fails nothing else happens, and drivers
\* go on deferring themselves.
InitFails ==
    /\ MayFail
    /\ init = "pending"
    /\ init' = "failed"
    /\ UNCHANGED <<mutex, done, deferred, registryVars, driver>>

InitDeferred ==
    /\ init = "pending"
    /\ mutex = "free"
    /\ init' = "running"
    /\ mutex' = "init"
    /\ done' = TRUE
    /\ UNCHANGED <<deferred, registryVars, driver>>

\* One round of watchdog_deferred_registration; nobody looks at the result.
DeferredNext ==
    /\ init = "running"
    /\ deferred # <<>>
    /\ deferred' = Tail(deferred)
    /\ \E s \in core_register_device(Registry, Head(deferred)) :
         /\ RegistryBecomes(s)
         /\ mutex' = IF s.ret = "oops" THEN "dead" ELSE mutex
         /\ init' = IF s.ret = "oops" THEN "failed" ELSE init
    /\ UNCHANGED <<done, driver>>

DeferredDone ==
    /\ init = "running"
    /\ deferred = <<>>
    /\ init' = "done"
    /\ mutex' = "free"
    /\ UNCHANGED <<done, deferred, registryVars, driver>>

\* A watchdog driver that does not use the core comes and goes.
LegacyLoad ==
    /\ misc = "none"
    /\ misc' = "legacy"
    /\ UNCHANGED <<init, mutex, done, deferred, ida, id, wd_data, reboot,
                   restart, driver>>

LegacyUnload ==
    /\ misc = "legacy"
    /\ misc' = "none"
    /\ UNCHANGED <<init, mutex, done, deferred, ida, id, wd_data, reboot,
                   restart, driver>>

Next == \/ \E w \in Wdd : Probe(w) \/ Remove(w)
        \/ InitFails \/ InitDeferred \/ DeferredNext \/ DeferredDone
        \/ LegacyLoad \/ LegacyUnload

Spec == Init /\ [][Next]_vars

-----------------------------------------------------------------------------
(* Properties.                                                             *)

Live == {w \in Wdd : wd_data[w] = "live"}
Listed(w) == \E i \in DOMAIN deferred : deferred[i] = w

\* No thread has died inside watchdog_register_device or its opposite.
Alive == mutex # "dead"

\* Every variable keeps its type.
TypeOK ==
    /\ init \in {"pending", "running", "done", "failed"}
    /\ mutex \in {"free", "init", "dead"}
    /\ done \in BOOLEAN
    /\ deferred \in Seq(Wdd)
    /\ ida \subseteq Nat
    /\ id \in [Wdd -> Nat]
    /\ wd_data \in [Wdd -> {"NULL", "live", "failed"}]
    /\ misc \in {"none", "legacy"} \cup Wdd
    /\ reboot \subseteq Wdd
    /\ restart \subseteq Wdd
    /\ driver \in [Wdd -> {"unbound", "bound"}]

\* An id is allocated exactly while one registered device has it: neither the
\* retry of __watchdog_register_device, nor any of its error paths, nor an
\* unregister leaks an id or gives one away twice.
IdsExact ==
    Alive => /\ ida = {id[w] : w \in Live}
             /\ \A v, w \in Live : id[v] = id[w] => v = w

\* /dev/watchdog belongs to the registered device with id 0, and no device
\* gets id 0 while a legacy watchdog module owns the node.
MiscIsZero == Alive => \A w \in Wdd : misc = w <=> w \in Live /\ id[w] = 0

\* The notifier chains hold registered devices only: a reboot never calls
\* ops->stop of a driver that is gone.
NotifiersLive == reboot \cup restart \subseteq Live

\* Nothing refers to the wdd of an unbound driver, which is freed: it is not on
\* the deferred list, has no node and is on no chain.
UnboundForgotten ==
    \A w \in Wdd : driver[w] = "unbound" =>
        ~Listed(w) /\ w \notin Live \cup reboot \cup restart

\* Once registration is immediate, a driver that was told 0 by
\* watchdog_register_device has its device registered.
ZeroMeansRegistered ==
    done /\ mutex = "free" => \A w \in Wdd : driver[w] = "bound" => w \in Live

=============================================================================
