-------------------------------- MODULE Psci --------------------------------
(***************************************************************************)
(* Power state coordination of the Arm Trusted Firmware,                   *)
(* atf-marvell/lib/psci: CPU_ON, CPU_OFF, CPU_SUSPEND and SYSTEM_SUSPEND   *)
(* calls of the normal world on several CPUs at once, the warm boot of a   *)
(* CPU, the lock of every power domain above the CPUs and the spin lock of *)
(* every CPU.                                                              *)
(*                                                                         *)
(* psci_locks are the locks BakeryLock models, here as what FairLock says  *)
(* they are.  The platform hooks (pwr_domain_on and the like) and the      *)
(* Secure Payload Dispatcher are external.                                 *)
(***************************************************************************)
EXTENDS Integers

CONSTANTS CPUs,       \* cpu indices
          Primary,    \* the CPU that boots cold
          MaxLvl,     \* PLAT_MAX_PWR_LVL
          Domains,    \* psci_non_cpu_pd_nodes
          Anc,        \* Anc[c][l]: the ancestor of CPU c at level l
          Requests,   \* the power states CPU_SUSPEND is called with
          None        \* nobody, no call

\* plat_local_state_t, one value of each type
RUN == 0
RETN == 1
OFF == 2

Levels == 1..MaxLvl
States == {RUN, RETN, OFF}

\* psci_validate_suspend_req: no level deeper than the one below it, and
\* something to do.
ValidRequest(s) ==
  /\ s \in [0..MaxLvl -> States]
  /\ s[0] # RUN
  /\ \A l \in Levels : s[l] <= s[l - 1]
  /\ s[0] = OFF \/ \A l \in Levels : s[l] # OFF

ASSUME PsciAssumption ==
  /\ MaxLvl \in Nat \ {0}
  /\ {0, Primary} \subseteq CPUs
  /\ Anc \in [CPUs -> [Levels -> Domains]]
  /\ \A s \in Requests : ValidRequest(s)
  /\ None \notin CPUs

Under(d) == {c \in CPUs : \E l \in Levels : Anc[c][l] = d}

\* A domain is at one level, and domains form a tree.
ASSUME TreeAssumption ==
  \A c, e \in CPUs : \A l, k \in Levels :
    Anc[c][l] = Anc[e][k] =>
      l = k /\ \A j \in l..MaxLvl : Anc[c][j] = Anc[e][j]

VARIABLES aff,       \* aff_info_state, as the CPUs in coherency see it
          mem,       \* aff_info_state in memory, below the caches
          local,     \* local_state of the CPU power domain
          susplvl,   \* target_pwrlvl, -1 for PSCI_INVALID_PWR_LVL
          req,       \* psci_req_local_pwr_states
          node,      \* local_state of the non-CPU power domains
          owner,     \* who has psci_locks[d]
          spin,      \* who has the cpu_lock of a CPU
          ctx,       \* a re-entry context is stored and not yet used
          powered,   \* pwr_domain_on has switched the CPU on
          pc,        \* where a CPU is
          call       \* the call it is executing

cpuVars == <<local, susplvl, req, node>>
psciVars == <<aff, mem, cpuVars>>
lockVars == <<owner, spin>>
vars == <<psciVars, lockVars, ctx, powered, pc, call>>

INVALID == -1

\* run:    in the normal world        lock/locked/unlock: domain locks
\* on_*:   in psci_cpu_on_start       off_*: end of psci_do_cpu_off
\* wfi:    in standby                 standby: in CPU-only standby
\* asleep: suspended, power down      down: powered down by CPU_OFF
Labels == {"run", "on_lock", "on_set", "on_flush", "on_again", "on_reflush",
           "on_power", "on_undo", "on_ctx", "last_on", "lock", "locked",
           "unlock", "off_set", "off_inv", "wfi", "standby", "asleep",
           "down"}

\* kind: the operation; end: end_pwrlvl; lvl: the level of the lock loops;
\* next: where it goes on after the locks are released.
Idle == [kind |-> "none", end |-> 0, lvl |-> 0, next |-> "run",
         states |-> [l \in 0..MaxLvl |-> RUN], target |-> None]

Kinds == {"none", "on", "off", "suspend", "system", "standby", "wake",
          "boot"}

TypeOK ==
  /\ {aff, mem} \subseteq [CPUs -> {"OFF", "ON_PENDING", "ON"}]
  /\ local \in [CPUs -> States]
  /\ susplvl \in [CPUs -> 0..MaxLvl \cup {INVALID}]
  /\ req \in [CPUs -> [Levels -> States]]
  /\ node \in [Domains -> States]
  /\ owner \in [Domains -> CPUs \cup {None}]
  /\ spin \in [CPUs -> CPUs \cup {None}]
  /\ ctx \in [CPUs -> BOOLEAN]
  /\ powered \in [CPUs -> BOOLEAN]
  /\ pc \in [CPUs -> Labels]
  /\ call \in [CPUs -> [kind: Kinds, end: 0..MaxLvl, lvl: 0..MaxLvl,
                        next: Labels, states: [0..MaxLvl -> States],
                        target: CPUs \cup {None}]]

\* psci_setup: all off, then the primary CPU and its ancestors to run.
Init ==
  /\ aff = [c \in CPUs |-> IF c = Primary THEN "ON" ELSE "OFF"]
  /\ mem = aff
  /\ local = [c \in CPUs |-> IF c = Primary THEN RUN ELSE OFF]
  /\ susplvl = [c \in CPUs |-> INVALID]
  /\ req = [c \in CPUs |-> [l \in Levels |-> IF c = Primary THEN RUN ELSE OFF]]
  /\ node = [d \in Domains |-> IF Primary \in Under(d) THEN RUN ELSE OFF]
  /\ owner = [d \in Domains |-> None]
  /\ spin = [c \in CPUs |-> None]
  /\ ctx = [c \in CPUs |-> FALSE]
  /\ powered = [c \in CPUs |-> FALSE]
  /\ pc = [c \in CPUs |-> IF c = Primary THEN "run" ELSE "down"]
  /\ call = [c \in CPUs |-> Idle]

Goto(c, l) == pc' = [pc EXCEPT ![c] = l]

\* Back to the normal world, or to sleep: the call's locals are gone.
Return(c, l) == Goto(c, l) /\ call' = [call EXCEPT ![c] = Idle]

-----------------------------------------------------------------------------
(***************************************************************************)
(* CPU_ON: psci_cpu_on_start under the spin lock of the target.            *)
(***************************************************************************)
psci_cpu_on(c, t) ==
  /\ pc[c] = "run"
  /\ Goto(c, "on_lock")
  /\ call' = [call EXCEPT ![c] = [Idle EXCEPT !.kind = "on", !.target = t]]
  /\ UNCHANGED <<psciVars, lockVars, ctx, powered>>

\* The lock, and cpu_on_validate_state: the target has to be OFF.
on_lock(c) ==
  LET t == call[c].target
  IN  /\ pc[c] = "on_lock"
      /\ spin[t] = None
      /\ IF aff[t] = "OFF"
         THEN /\ spin' = [spin EXCEPT ![t] = c]
              /\ Goto(c, "on_set")
              /\ UNCHANGED call
         ELSE Return(c, "run") /\ UNCHANGED spin
      /\ UNCHANGED <<psciVars, owner, ctx, powered>>

\* psci_set_aff_info_state_by_idx: a store into the caches.
Store(c, from, state, to) ==
  /\ pc[c] = from
  /\ aff' = [aff EXCEPT ![call[c].target] = state]
  /\ Goto(c, to)
  /\ UNCHANGED <<mem, cpuVars, lockVars, ctx, powered, call>>

on_set(c) == Store(c, "on_set", "ON_PENDING", "on_flush")

\* Mutant: the store is not checked and not repeated.
on_flush_unchecked(c) ==
  LET t == call[c].target
  IN  /\ pc[c] = "on_flush"
      /\ mem' = [mem EXCEPT ![t] = aff[t]]
      /\ Goto(c, "on_power")
      /\ UNCHANGED <<aff, cpuVars, lockVars, ctx, powered, call>>

\* flush_cpu_data_by_index, and the check whether the target has thrown the
\* store away in the meantime.
on_flush(c) ==
  LET t == call[c].target
  IN  /\ pc[c] = "on_flush"
      /\ mem' = [mem EXCEPT ![t] = aff[t]]
      /\ Goto(c, IF aff[t] = "ON_PENDING" THEN "on_power" ELSE "on_again")
      /\ UNCHANGED <<aff, cpuVars, lockVars, ctx, powered, call>>

on_again(c) == Store(c, "on_again", "ON_PENDING", "on_reflush")

on_reflush(c) ==
  LET t == call[c].target
  IN  /\ pc[c] = "on_reflush"
      /\ mem' = [mem EXCEPT ![t] = aff[t]]
      /\ Goto(c, "on_power")
      /\ UNCHANGED <<aff, cpuVars, lockVars, ctx, powered, call>>

\* Mutant: the spin lock is dropped before the context is stored.
pwr_domain_on_unlocked(c) ==
  /\ pc[c] = "on_power"
  /\ powered' = [powered EXCEPT ![call[c].target] = TRUE]
  /\ spin' = [spin EXCEPT ![call[c].target] = None]
  /\ Goto(c, "on_ctx")
  /\ UNCHANGED <<psciVars, owner, ctx, call>>

\* The platform switches the target on.
pwr_domain_on(c) ==
  /\ pc[c] = "on_power"
  /\ powered' = [powered EXCEPT ![call[c].target] = TRUE]
  /\ Goto(c, "on_ctx")
  /\ UNCHANGED <<psciVars, lockVars, ctx, call>>

\* Or it fails, and the state is restored and flushed.
pwr_domain_on_fails(c) == Store(c, "on_power", "OFF", "on_undo")

on_undo(c) ==
  LET t == call[c].target
  IN  /\ pc[c] = "on_undo"
      /\ mem' = [mem EXCEPT ![t] = aff[t]]
      /\ spin' = [spin EXCEPT ![t] = None]
      /\ Return(c, "run")
      /\ UNCHANGED <<aff, cpuVars, owner, ctx, powered>>

\* cm_init_context_by_index, when the target may already be booting.
on_ctx(c) ==
  LET t == call[c].target
  IN  /\ pc[c] = "on_ctx"
      /\ ctx' = [ctx EXCEPT ![t] = TRUE]
      /\ spin' = [spin EXCEPT ![t] = None]
      /\ Return(c, "run")
      /\ UNCHANGED <<psciVars, owner, powered>>

-----------------------------------------------------------------------------
(***************************************************************************)
(* The domain locks, in increasing order of level, and back.               *)
(***************************************************************************)
Begin(c, kind, end, s) ==
  /\ Goto(c, IF end = 0 THEN "locked" ELSE "lock")
  /\ call' = [call EXCEPT ![c] =
       [Idle EXCEPT !.kind = kind, !.end = end, !.states = s,
                    !.lvl = IF end = 0 THEN 0 ELSE 1]]

\* Mutant: the loop runs up to and including the level after the last one.
acquire_lock_past_end(c) ==
  LET d == Anc[c][call[c].lvl]
      last == call[c].lvl > call[c].end
  IN  /\ pc[c] = "lock"
      /\ owner[d] = None
      /\ owner' = [owner EXCEPT ![d] = c]
      /\ Goto(c, IF last THEN "locked" ELSE "lock")
      /\ call' = [call EXCEPT ![c].lvl = IF last THEN @ ELSE @ + 1]
      /\ UNCHANGED <<psciVars, spin, ctx, powered>>

acquire_lock(c) ==
  LET d == Anc[c][call[c].lvl]
      last == call[c].lvl = call[c].end
  IN  /\ pc[c] = "lock"
      /\ owner[d] = None
      /\ owner' = [owner EXCEPT ![d] = c]
      /\ Goto(c, IF last THEN "locked" ELSE "lock")
      /\ call' = [call EXCEPT ![c].lvl = IF last THEN @ ELSE @ + 1]
      /\ UNCHANGED <<psciVars, spin, ctx, powered>>

\* The critical section of c is over: release, then go on at next.
Release(c, next) ==
  IF call[c].end = 0 THEN Return(c, next)
  ELSE Goto(c, "unlock") /\ call' = [call EXCEPT ![c].next = next]

release_lock(c) ==
  LET d == Anc[c][call[c].lvl]
  IN  /\ pc[c] = "unlock"
      /\ owner' = [owner EXCEPT ![d] = None]
      /\ IF call[c].lvl > 1
         THEN call' = [call EXCEPT ![c].lvl = @ - 1] /\ UNCHANGED pc
         ELSE IF call[c].next = "wfi"
         THEN Goto(c, "wfi") /\ UNCHANGED call
         ELSE Return(c, call[c].next)
      /\ UNCHANGED <<psciVars, spin, ctx, powered>>

\* Mutant: the deepest state that is asked for.
TargetPwrStateDeepest(asked, d, l) ==
  CHOOSE x \in {asked[e][l] : e \in Under(d)} :
    \A e \in Under(d) : x >= asked[e][l]

\* plat_get_target_pwr_state: the shallowest state the CPUs of domain d, at
\* level l, ask for.
TargetPwrState(asked, d, l) ==
  CHOOSE x \in {asked[e][l] : e \in Under(d)} :
    \A e \in Under(d) : x <= asked[e][l]

\* psci_do_state_coordination and psci_set_target_local_pwr_states: every
\* level gets the shallowest state its CPUs ask for, and stays in RUN above
\* a level that does.
StateCoordination(c) ==
  LET s == call[c].states
      asked == [req EXCEPT ![c] =
                  [l \in Levels |-> IF l <= call[c].end THEN s[l] ELSE @[l]]]
      target(l) == IF \E k \in 1..l : TargetPwrState(asked, Anc[c][k], k) = RUN
                   THEN RUN ELSE TargetPwrState(asked, Anc[c][l], l)
      mine == {Anc[c][l] : l \in 1..call[c].end}
  IN  /\ req' = asked
      /\ node' = [d \in Domains |->
                    IF d \in mine
                    THEN target(CHOOSE l \in Levels : Anc[c][l] = d)
                    ELSE node[d]]
      /\ local' = [local EXCEPT ![c] = s[0]]

\* psci_set_pwr_domains_to_run
SetToRun(c) ==
  LET mine == {Anc[c][l] : l \in 1..call[c].end}
  IN  /\ req' = [req EXCEPT ![c] =
                   [l \in Levels |-> IF l <= call[c].end THEN RUN ELSE @[l]]]
      /\ node' = [d \in Domains |-> IF d \in mine THEN RUN ELSE node[d]]
      /\ aff' = [aff EXCEPT ![c] = "ON"]
      /\ mem' = [mem EXCEPT ![c] = "ON"]
      /\ local' = [local EXCEPT ![c] = RUN]

-----------------------------------------------------------------------------
(***************************************************************************)
(* CPU_OFF: psci_do_cpu_off.                                               *)
(***************************************************************************)
psci_cpu_off(c) ==
  /\ pc[c] = "run"
  /\ Begin(c, "off", MaxLvl, [l \in 0..MaxLvl |-> OFF])
  /\ UNCHANGED <<psciVars, lockVars, ctx, powered>>

\* The Secure Payload refuses.
svc_off_denied(c) ==
  /\ pc[c] = "locked" /\ call[c].kind = "off"
  /\ Release(c, "run")
  /\ UNCHANGED <<psciVars, lockVars, ctx, powered>>

pwr_domain_off(c) ==
  /\ pc[c] = "locked" /\ call[c].kind = "off"
  /\ StateCoordination(c)
  /\ Release(c, "off_set")
  /\ UNCHANGED <<aff, mem, susplvl, lockVars, ctx, powered>>

\* Without the locks: OFF is stored in memory, then the cache line is
\* invalidated, with whatever a CPU_ON has put there in between.
off_set(c) ==
  /\ pc[c] = "off_set"
  /\ aff' = [aff EXCEPT ![c] = "OFF"]
  /\ mem' = [mem EXCEPT ![c] = "OFF"]
  /\ Goto(c, "off_inv")
  /\ UNCHANGED <<cpuVars, lockVars, ctx, powered, call>>

off_inv(c) ==
  /\ pc[c] = "off_inv"
  /\ aff' = [aff EXCEPT ![c] = mem[c]]
  /\ Goto(c, "down")
  /\ UNCHANGED <<mem, cpuVars, lockVars, ctx, powered, call>>

-----------------------------------------------------------------------------
(***************************************************************************)
(* CPU_SUSPEND and SYSTEM_SUSPEND: psci_cpu_suspend_start.                 *)
(***************************************************************************)
\* psci_find_target_suspend_lvl
target_suspend_lvl(s) ==
  CHOOSE l \in 0..MaxLvl : s[l] # RUN /\ \A k \in (l + 1)..MaxLvl : s[k] = RUN

psci_cpu_suspend(c, s) ==
  LET end == target_suspend_lvl(s)
  IN  /\ pc[c] = "run"
      /\ IF s[0] # OFF /\ end = 0
         THEN /\ local' = [local EXCEPT ![c] = s[0]]
              /\ Goto(c, "standby")
              /\ UNCHANGED call
         ELSE /\ Begin(c, IF s[0] = OFF THEN "suspend" ELSE "standby", end, s)
              /\ UNCHANGED local
      /\ UNCHANGED <<aff, mem, susplvl, req, node, lockVars, ctx, powered>>

\* SYSTEM_SUSPEND first asks psci_is_last_on_cpu, which loads the state of
\* one CPU after the other.
psci_system_suspend(c) ==
  /\ pc[c] = "run"
  /\ Goto(c, "last_on")
  /\ call' = [call EXCEPT ![c] = [Idle EXCEPT !.kind = "system", !.target = 0]]
  /\ UNCHANGED <<psciVars, lockVars, ctx, powered>>

is_last_on_cpu(c) ==
  LET t == call[c].target
  IN  /\ pc[c] = "last_on"
      /\ IF t # c /\ aff[t] # "OFF" THEN Return(c, "run")
         ELSE IF t + 1 \in CPUs
         THEN call' = [call EXCEPT ![c].target = @ + 1] /\ UNCHANGED pc
         ELSE Begin(c, "system", MaxLvl, [l \in 0..MaxLvl |-> OFF])
      /\ UNCHANGED <<psciVars, lockVars, ctx, powered>>

\* Mutant: the early exit forgets the locks.
suspend_abandoned_locked(c) ==
  /\ pc[c] = "locked" /\ call[c].kind \in {"suspend", "system", "standby"}
  /\ Return(c, "run")
  /\ UNCHANGED <<psciVars, lockVars, ctx, powered>>

\* An interrupt is pending once the locks are taken: nothing is done.
suspend_abandoned(c) ==
  /\ pc[c] = "locked" /\ call[c].kind \in {"suspend", "system", "standby"}
  /\ Release(c, "run")
  /\ UNCHANGED <<psciVars, lockVars, ctx, powered>>

suspend_start(c) ==
  LET down == call[c].kind # "standby"
  IN  /\ pc[c] = "locked" /\ call[c].kind \in {"suspend", "system", "standby"}
      /\ StateCoordination(c)
      /\ susplvl' = [susplvl EXCEPT ![c] = IF down THEN call[c].end ELSE @]
      /\ ctx' = [ctx EXCEPT ![c] = IF down THEN TRUE ELSE @]
      /\ Release(c, IF down THEN "asleep" ELSE "wfi")
      /\ UNCHANGED <<aff, mem, lockVars, powered>>

\* Wake-up from standby of the CPU alone.
standby_wakes(c) ==
  /\ pc[c] = "standby"
  /\ local' = [local EXCEPT ![c] = RUN]
  /\ Goto(c, "run")
  /\ UNCHANGED <<aff, mem, susplvl, req, node, lockVars, ctx, powered,
                 call>>

\* Wake-up from retention: psci_suspend_to_standby_finisher.
wfi_wakes(c) ==
  /\ pc[c] = "wfi"
  /\ Begin(c, "wake", call[c].end, Idle.states)
  /\ UNCHANGED <<psciVars, lockVars, ctx, powered>>

standby_finisher(c) ==
  /\ pc[c] = "locked" /\ call[c].kind = "wake"
  /\ SetToRun(c)
  /\ Release(c, "run")
  /\ UNCHANGED <<susplvl, lockVars, ctx, powered>>

-----------------------------------------------------------------------------
(***************************************************************************)
(* psci_warmboot_entrypoint, of a CPU that was switched on or wakes up     *)
(* from a suspend to power down.                                           *)
(***************************************************************************)
Entering(c) ==
  \/ pc[c] = "down" /\ powered[c]
  \/ pc[c] = "asleep"

\* psci_warmboot_entrypoint up to the locks.  The data cache is still off: the
\* CPU sees what was flushed to memory.
warmboot(c) ==
  /\ Entering(c)
  /\ mem[c] # "OFF"    \* else panic()
  /\ powered' = [powered EXCEPT ![c] = FALSE]
  /\ Begin(c, "boot", IF susplvl[c] = INVALID THEN MaxLvl ELSE susplvl[c],
           Idle.states)
  /\ UNCHANGED <<psciVars, lockVars, ctx>>

\* psci_cpu_on_finish: the spin lock is taken and dropped at once, to wait
\* for the context; the rest of the warm boot follows under the locks.
cpu_on_finish(c) ==
  /\ pc[c] = "locked" /\ call[c].kind = "boot"
  /\ aff[c] = "ON_PENDING"
  /\ spin[c] = None
  /\ ctx' = [ctx EXCEPT ![c] = FALSE]
  /\ SetToRun(c)
  /\ Release(c, "run")
  /\ UNCHANGED <<susplvl, lockVars, powered>>

\* Mutant: the suspend level stays valid after the wake-up.
cpu_suspend_finish_stale(c) ==
  /\ pc[c] = "locked" /\ call[c].kind = "boot"
  /\ aff[c] # "ON_PENDING"
  /\ ctx' = [ctx EXCEPT ![c] = FALSE]
  /\ SetToRun(c)
  /\ Release(c, "run")
  /\ UNCHANGED <<susplvl, lockVars, powered>>

cpu_suspend_finish(c) ==
  /\ pc[c] = "locked" /\ call[c].kind = "boot"
  /\ aff[c] # "ON_PENDING"
  /\ susplvl' = [susplvl EXCEPT ![c] = INVALID]
  /\ ctx' = [ctx EXCEPT ![c] = FALSE]
  /\ SetToRun(c)
  /\ Release(c, "run")
  /\ UNCHANGED <<lockVars, powered>>

-----------------------------------------------------------------------------
\* What the normal world may do with a CPU, and interrupts.
Request(c) ==
  \/ \E t \in CPUs : psci_cpu_on(c, t)
  \/ psci_cpu_off(c)
  \/ \E s \in Requests : psci_cpu_suspend(c, s)
  \/ psci_system_suspend(c)
  \/ standby_wakes(c)
  \/ wfi_wakes(c)
  \/ Entering(c) /\ pc[c] = "asleep" /\ warmboot(c)

\* What the firmware does without being asked again.
Progress(c) ==
  \/ on_lock(c) \/ on_set(c) \/ on_flush(c) \/ on_again(c) \/ on_reflush(c)
  \/ pwr_domain_on(c) \/ pwr_domain_on_fails(c) \/ on_undo(c) \/ on_ctx(c)
  \/ is_last_on_cpu(c)
  \/ acquire_lock(c) \/ release_lock(c)
  \/ svc_off_denied(c) \/ pwr_domain_off(c) \/ off_set(c) \/ off_inv(c)
  \/ suspend_abandoned(c) \/ suspend_start(c) \/ standby_finisher(c)
  \/ Entering(c) /\ pc[c] = "down" /\ warmboot(c)
  \/ cpu_on_finish(c) \/ cpu_suspend_finish(c)

Next == \E c \in CPUs : Request(c) \/ Progress(c)

Spec == Init /\ [][Next]_vars

\* Code runs to its end; a bakery lock is not taken past a waiting CPU for
\* ever (FairLock).
FairSpec ==
  /\ Spec
  /\ \A c \in CPUs : WF_vars(Progress(c)) /\ SF_vars(acquire_lock(c))

-----------------------------------------------------------------------------
\* A CPU that comes up is expected: psci_warmboot_entrypoint does not find
\* it OFF in memory and panic, though its own cache invalidation on the way
\* down may have raced with the store and the flush of the CPU_ON that woke it.
NeverPanics == \A c \in CPUs : Entering(c) => mem[c] # "OFF"

Executing(c) ==
  \/ pc[c] \in {"run", "on_lock", "on_set", "on_flush", "on_again",
                "on_reflush", "on_power", "on_undo", "on_ctx", "last_on",
                "standby"}
  \/ pc[c] \in {"lock", "locked"} /\ call[c].kind \notin {"boot", "wake"}

\* A CPU that executes is ON and all its ancestors are in RUN, whatever the
\* other CPUs have asked for and in whatever order they come and go.
RunsInPoweredDomains ==
  \A c \in CPUs : Executing(c) =>
    /\ aff[c] = "ON"
    /\ \A l \in Levels : node[Anc[c][l]] = RUN

\* Between two critical sections, a domain is in the shallowest state that
\* its CPUs have asked for: psci_do_state_coordination stops at the first
\* domain that stays in RUN and still leaves the ones above it right.
ShallowestWins ==
  \A l \in Levels, c \in CPUs :
    LET d == Anc[c][l]
    IN  owner[d] = None =>
          /\ \A e \in Under(d) : node[d] <= req[e][l]
          /\ \E e \in Under(d) : node[d] = req[e][l]

\* A CPU gets to the end of the warm boot with a context to return to, and
\* the assertions of psci_cpu_on_finish and psci_cpu_suspend_finish hold:
\* it was switched on, or suspended down to the level it now wakes.
EntersWithContext ==
  \A c \in CPUs :
    pc[c] = "locked" /\ call[c].kind = "boot" /\ spin[c] = None =>
      /\ ctx[c]
      /\ \/ aff[c] = "ON_PENDING" /\ susplvl[c] = INVALID
         \/ aff[c] = "ON" /\ local[c] = OFF /\ susplvl[c] = call[c].end

\* A CPU that the platform has switched on gets to the normal world, past
\* the CPUs that hold its locks or wait for them.
SwitchedOnRuns == \A c \in CPUs : powered[c] ~> pc[c] = "run"
=============================================================================
