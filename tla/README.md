# A verification of the watchdog stack and the firmware below it

This repository collects kernel, boot loader and device tree material for
Marvell and Rockchip boards. The code its owner works on is the watchdog stack
of the Linux kernel in `src/kernel/driver/`: the watchdog core, patched so that
every watchdog is started at registration and fed by the kernel from then on,
and the Synopsys DesignWare driver below it. Everything else is vendored
(U-Boot, Arm Trusted Firmware, mv-ddr, the kernel's device tree documentation)
or data (device trees, keys, an environment script).

The project models that stack in TLA+, and of the vendored firmware the three
parts whose correctness is a matter of concurrency or of failure: the bakery
lock and the power state coordination (PSCI) of the Arm Trusted Firmware, and
the redundant environment of U-Boot. It model-checks them with TLC and proves
every safety property that the passing runs check with TLAPS, for all values of
the constants, some of them under hypotheses that section 5 names and justifies.

## 1. The system

### Components

| Part | Source | State | Operations |
|---|---|---|---|
| Device node | `kernel/driver/watchdog_dev.c` | `wdd->status` (ACTIVE, HW_RUNNING, options), `wdd->timeout`; per device `wd_data`: `lock`, `status` (DEV_OPEN, ALLOW_RELEASE, KEEPALIVE), `last_keepalive`, `last_hw_keepalive`, the heartbeat hrtimer, the kthread work, the embedded `struct device` and its reference count; the driver's module count | `open`, `write`, `ioctl`, `release`; timer expiry; `watchdog_ping_work`; register, unregister |
| Registry | `kernel/driver/watchdog_core.c` | deferred list and `wtd_deferred_reg_done` under `wtd_deferred_reg_mutex`; `watchdog_ida`; the reboot and restart notifier chains | register, unregister, deferred registration at `subsys_initcall_sync`, the notifiers, `watchdog_init_timeout` |
| DesignWare driver | `kernel/driver/dw_wdt.c` (`src/dw_wdt.c` is the same driver without debugging output) | registers CONTROL and TIMEOUT_RANGE, two clocks, an optional reset line, saved registers | probe, remove, start, stop, ping, set_timeout, restart, suspend, resume |
| Pretimeout governors, sysfs | called from `watchdog_dev.c`, not in this repository | | |
| Bakery lock | `uboot-marvell/atf-marvell/lib/locks/bakery/bakery_lock_normal.c` | one word per CPU: a choosing bit and a 15-bit ticket; the event registers of the CPUs | `bakery_lock_get`, `bakery_lock_release` |
| PSCI | `uboot-marvell/atf-marvell/lib/psci/`, `plat/common/plat_psci_common.c` | per CPU `aff_info_state`, `target_pwrlvl`, `local_state`, in caches and in memory; the states each CPU asks for; the state and the lock of each power domain; a spin lock per CPU | CPU_ON, CPU_OFF, CPU_SUSPEND, SYSTEM_SUSPEND, warm boot |
| U-Boot environment | `uboot-marvell/u-boot-marvell/env/` (`common.c`, `sf.c`, `mmc.c`, `nand.c`) | two copies with checksum and flags; `env_htab`, `env_flags`, `gd->env_valid` | `env_load`, `env_save` |
| Rest of boot loader and firmware | `uboot-marvell/` (U-Boot, ATF, mv-ddr, binaries) | | vendored |
| USB controllers | `usb/` | | vendored from U-Boot |
| Bindings and device trees | `devicetree/`, `*.dts` | | data |

### Interactions

The driver fills in a `watchdog_device` and registers it (or is put on the
deferred list until `watchdog_init`). `watchdog_dev_register` creates
`/dev/watchdogN` and, for id 0, `/dev/watchdog`, takes references if the
hardware is already running, and then (the patch) marks it running, starts it
and updates the worker. From that moment three kinds of actor share the
device: user threads in the file operations, the heartbeat timer, and the
`watchdogd` worker the timer queues. They meet in `wd_data->lock`, but
`watchdog_open`, the tail of `watchdog_dev_register` and the stop inside
`watchdog_cdev_unregister` do not take it. Removal clears `wd_data->wdd` under
the lock and then cancels timer and work; an open file may outlive it.

In the firmware, the normal world of every CPU calls PSCI at any time. A call
takes the bakery locks of the CPU's ancestors from the bottom up, changes the
tree and gives them back; CPU_ON takes the spin lock of its target instead and
meets the target in `aff_info_state`, which the target writes with its caches
off. U-Boot's environment meets nobody but the power supply: what a save leaves
behind is read by the next boot.

### What is hard

* decisions about the timer taken without the lock, issued later
  (`watchdog_update_worker` decides, `hrtimer_start`/`hrtimer_cancel` acts);
* references whose taking and dropping depend on HW_RUNNING, which start, stop
  and registration change in between;
* the magic character, which lives in `wd_data` and not in the session;
* removal racing with an expired timer, a queued work and an open file;
* driver operations that fail half-way;
* the arithmetic of heartbeats and of the sixteen hardware periods;
* a lock made of plain loads and stores, with sleeping waiters;
* a CPU that goes down while another one switches it on, with a cache line
  between them; locks of a tree taken from several leaves;
* a save cut off by a loss of power, and what later saves make of it.

### What makes each part correct

* Device node: hardware that runs without an active user is being fed; the
  status bits tell the truth about the hardware; one session at a time;
  nothing is freed or unloaded under a user; removal leaves nothing behind; a
  close stops the watchdog only when it may; nowayout means no way out; calls
  return.
* Registry: an id is allocated exactly while its device is registered; a
  notifier exists only for a registered device; what a driver was told is true.
* DesignWare driver: `wdd->timeout` says what the hardware was programmed to,
  running hardware is known to the core, the boot loader's period survives
  registration, clocks are balanced, suspend and resume lose nothing, and a
  restart fires.

* Bakery lock: one holder, first come first served, nobody sleeps for ever.
* PSCI: nobody boots unexpectedly or without a context, whoever executes is in
  powered domains, a domain is as deep as all its CPUs allow, and a CPU that is
  switched on runs.
* Environment: a save is atomic, and a successful one is found by the next boot.

PROJECT.json lists the hazards behind these, line by line.

## 2. Modules

### WatchdogDev

One device behind `/dev/watchdog`. The state variables carry the names of the
fields they model; `reg` is the program counter of the driver thread through
registration and removal, `pc[t]` that of a user thread, `wk` that of the
worker. `device` holds what the driver and the module parameters fix (is it
running at boot, can it be stopped, nowayout, magic close, stop on unregister,
may its operations fail, minimum heartbeat, how it is removed).

`watchdog_start`, `watchdog_stop`, `watchdog_ping`, `watchdog_ioctl` and the
others are operators from a device state to the set of states it may be in
afterwards; the record carries the last timer command (`tm`) and the result
(`ok`). The actions are the atomic pieces of the handlers:

| Actions | Code |
|---|---|
| RegisterMisc, RegisterCdev, RegisterCdevFails, RegisterStart, RegisterUpdateWorker, RegisterDone | `watchdog_cdev_register`, tail of `watchdog_dev_register` |
| Unregister, MiscDeregister, UnregisterStop, UnregisterStopped, UnregisterClearWdd, UnregisterCancelTimer, UnregisterCancelWork, UnregisterPut | `watchdog_cdev_unregister` |
| Open, OpenStart, OpenDone | `watchdog_open` |
| Write, WriteLocked, Unlock | `watchdog_write` |
| Ioctl, IoctlLocked, Unlock | `watchdog_ioctl` |
| Release, ReleaseLocked, ReleaseUnlock, ReleasePut | `watchdog_release` |
| watchdog_timer_expired, WorkerEnter, WorkerLocked, WorkerUnlock | the heartbeat |

Abstractions: an armed timer may expire at any moment; a timeout is one of
three classes (zero, short, long: beyond the hardware) because
`watchdog_need_worker` distinguishes no more; the timer commands that one
handler issues in a row count as the last of them; reading commands of `ioctl`
change nothing. `EarlyOpen` says whether user space can open the node before
`watchdog_dev_register` returns: during boot it cannot, with a driver loaded
later it can.

### WatchdogRegistry

`watchdog_core.c`, for several drivers at once. Registering and unregistering
run under `wtd_deferred_reg_mutex` and are one action each (`Probe`, `Remove`:
the driver's call together with the life of its `wdd`, which is freed when the
probe fails or the driver is unbound). `watchdog_init` is `InitFails`, or
`InitDeferred`, one `DeferredNext` per listed device, `DeferredDone`: the mutex
is held over all of them, and only legacy modules come and go in between.
`core_register_device` (`__watchdog_register_device`) goes from a registry record to the set of its
outcomes: `FirstId` takes the alias if it is free, `WithId` allocates, makes the
node and gives the id back on failure, the retry takes an id from 1 up after
EBUSY on id 0, and `Notifiers` undoes everything when the reboot notifier fails
but only warns when the restart handler does. `watchdog_dev_register` appears by
its results: node made, failed with `wd_data` left pointing to what failed, or
(the pretimeout governor fails) dead by a NULL pointer. A thread that follows a
`wd_data` that is not live dies and never unlocks: `mutex = "dead"`.
`LegacyLoad` and `LegacyUnload` are a watchdog driver outside the core that owns
the misc node.

Abstractions: arguments are valid (the -EINVAL checks on info and ops are about
malformed drivers); the contents of notifiers are left out; every failure except
EBUSY, ENOSPC and death is ENOMEM, because nothing else is told apart.

### DwWdt

`dw_wdt.c` over its registers. `en`, `resp` and `top` are the fields of the two
registers, `period` is the TOP with which the running countdown was loaded (a
kick or an enable loads it, a write of TOP does not), `clk`, `pclk` and
`deassert` count what the driver has enabled. Each function of the driver is an
operator on the record `Dw`, and the actions are its entry points in the order
in which the core calls them.

| Actions | Code |
|---|---|
| Probe, ProbeFails, Register, RegisterFails, Remove | `dw_wdt_drv_probe`, `dw_wdt_drv_remove`, and the start in the tail of `watchdog_dev_register` |
| Start, Stop, Ping, SetTimeout | the operations, as `watchdog_start`, `watchdog_stop`, `watchdog_ping`, `WDIOC_SETTIMEOUT` call them |
| Restart | `dw_wdt_restart`; the system is going down |
| Suspend, Resume, ResumeFails | the sleep operations; the registers may be lost in between |

The reset line is absent, the driver's own, or shared with a device in use
(`devm_reset_control_get_optional_shared`): asserting a shared line only drops
one deassert. After a failed registration the line stays deasserted; the count
is forgotten with a line of its own and leaks on a shared one, which
`MaxDeassert` bounds. The boot loader may leave any mode and period.

Abstractions: `2 ^ (Shift + top)` cycles at `Rate` Hz stand for `1U << (16 + top)`;
with 16 and 15 the product is 2^31 and fits its unsigned int, so the width does
not matter. Rates whose longest period exceeds an int of milliseconds (below
1 kHz) are left out. `get_timeleft` reads only.

### WatchdogKeepalive and WatchdogPromise

The same handlers as in WatchdogDev, each in one step, against a clock: `now` is
`ktime_get()`, `wd.timer` the expiry of the hrtimer, `queued` the instant at
which the work was queued, `hw` the instant at which the hardware resets.
`next_keepalive`, `update_worker`, `ping_inner` (`__watchdog_ping`), `ping`,
`start` and `stop` are the functions of the source on the record `wd`. `Tick`
lets time pass as long as no interrupt is due; the worker is late by at most
`Latency`. `Init` is the state in which the patched `watchdog_dev_register`
returns: hardware started and marked running, timer armed.

`WatchdogPromise` is what a user of `/dev/watchdog` and an administrator rely
on: a variable says who answers for the machine (user, kernel, nobody in time,
off), a sign of life moves the promised instant of the reset, and the reset
comes in the window from `Early` before to `Late` after it, or where nobody
feeds. `held` says whether the device is open: only who holds it can feed it or
hand it back, and a watchdog kept running over a close is opened again by
`Reopen`. The mapping (`Promise`) takes `due` to last_keepalive + timeout, and the
kernel answers for the machine when the armed timer or the queued work comes in
time for the hardware even if the minimum distance defers the ping and the
worker is late (`InTime`). The slack is the code's: `watchdog_release` may
schedule a ping that came too early and then replace the timer, which costs up
to `MinHw` at the front; a deferred and delayed last worker ping costs
`MinHw + Latency` at the back.

Abstractions: `hw_heartbeat` divides evenly into ticks; the driver programs
exactly the timeout it is asked for (DwWdt has the rounding); operations do not
fail (WatchdogDev has that).

### BakeryLock and FairLock

One step per load and store of `lock_data`, per WFE and SEV, with the loop
index and the locals of `bakery_lock_get`. `enter_doorway`, `scan` and
`publish` are `bakery_get_ticket`; `look`, `wfe` and `recheck` the loop of
`bakery_lock_get`; `bakery_lock_release` and `sev` the release. The wait for
the choosing bit is a guard. The event register starts with any value, because
a WFE may also return at once. `FairLock` is the lock they implement: ask,
take when nobody has it, drop, and nobody who asks is passed over for ever. The
mapping reads the phase off the program counter.

The cache operations and barriers are taken to work: a load sees the last
store. `TicketRange` stands for 2^15; a CPU asks only while tickets have room
(`RoomForTickets`), which with as many tickets and as few CPUs as here the code
takes for granted.

### Psci

The tree of power domains is `Anc`, any tree; the states are RUN, retention
and OFF. `pc` and `call` are where a CPU is in a call: before the lock loops,
holding the locks, releasing them, asleep, down. The locks are those of
BakeryLock, used as FairLock describes them: one at a time, and granted
eventually. `aff` is `aff_info_state` as the CPUs in coherency see it and `mem`
what is in memory: CPU_ON stores in the cache and flushes (`on_set`,
`on_flush`, and again `on_again`, `on_reflush`), a CPU on its way down writes
memory and then invalidates the line (`off_set`, `off_inv`), which discards
what was not flushed.

| Actions | Code |
|---|---|
| psci_cpu_on, on_lock, on_set, on_flush, on_again, on_reflush, pwr_domain_on, pwr_domain_on_fails, on_undo, on_ctx | `psci_cpu_on`, `psci_cpu_on_start` |
| acquire_lock, release_lock | `psci_acquire_pwr_domain_locks`, `psci_release_pwr_domain_locks` |
| psci_cpu_off, svc_off_denied, pwr_domain_off, off_set, off_inv | `psci_cpu_off`, `psci_do_cpu_off` |
| psci_cpu_suspend, psci_system_suspend, is_last_on_cpu, suspend_abandoned, suspend_start, standby_wakes, wfi_wakes, standby_finisher | `psci_cpu_suspend`, `psci_system_suspend`, `psci_cpu_suspend_start` |
| warmboot, cpu_on_finish, cpu_suspend_finish | `psci_warmboot_entrypoint` and its finishers |

`StateCoordination` is `psci_do_state_coordination` with the early break: the
requests of all levels are recorded, the levels above the first one that stays
in RUN stay in RUN. What happens under the domain locks is one step, because
nobody else reads or writes that part of the tree then. Argument checks of the
calls are left out; requests are the ones that `psci_validate_suspend_req`
accepts. The platform's hooks and the Secure Payload are external: switching a
CPU on may fail, CPU_OFF may be denied.

### UbootEnv and EnvStore

`copy` is the medium: two copies with a good or bad checksum, a flags byte and
a content. `env_load`, `env_load_one` and `env_load_none` are
`env_import_redund` with two, one and no readable copy; `env_export` takes the
next serial number and the drivers' choice of the copy to write; `erase`,
`write` and `obsolete` are the steps of a save: SPI flash erases, writes and
then marks the other copy obsolete, NAND erases and writes, MMC writes in
place. `device_error` is an operation that reports an error with or without
effect; the NAND driver then goes on with the other copy. `power_failure` may
come between any two steps and loses all that is in RAM.

`EnvStore` is what a save promises: a set `may` of the environments the next
boot may find. A save adds its own content at most; success leaves nothing
else; after a boot that could not read all of the medium, and only then, later
saves may spare the wrong copy. The mapping takes `may` to the copy a boot would
select and the copy the running U-Boot believes in. `LastSerial` stands for 255.

### MC modules and proofs

The `MC` modules hold the instances for TLC,
and the `Proofs` modules the theorems (section 5), one for each specification
and a second one, `WatchdogRemovalProofs`, for WatchdogDev.

## 3. Runs

The `dev_` runs use two user threads, which may share the open file. Two
suffice: the protocol knows the opener, the holder of the lock, and one more.
The `registry_` runs use three drivers and two ids, so that ids run out, an
alias is taken by somebody else (two want id 0), and the retry after a legacy
watchdog finds an id or none. The `dw_` runs use eight periods of 0, 1, 3, 6,
12, 25, 51 and 102 seconds: one below a second, rounding that differs from step
to step, requests on, between and beyond them, a timeout-sec (9) that is between
two. `keepalive` uses a timeout of 7 and one of 17 ticks on hardware that can do
8, so that the worker pings up to three times for one sign of life, a minimum
distance of 2 and a worker late by up to 1; 26 ticks hold one and a half long
timeouts. `bakery_lock` uses three CPUs (the third may overtake between two that
compare tickets) and seven tickets. `psci` uses a cluster of two CPUs and one of
one in a system, so that a cluster is shared, another one is not, and the top
level is shared by both, and a request for every way through CPU_SUSPEND. The
`env_` runs use three contents and serial numbers up to 4, which wrap after five
saves. CHECK_DEADLOCK is off where the system may stop for good: a removed
device, a restarting system, a dead thread, the end of the clock, all CPUs off.

| Run | Checks |
|---|---|
| `dev_safety` | TypeOK, KernelFeeds, NoOrphanedHardware, ActiveMeansCounting, SingleOpen, NoUseAfterFree, NoRmmodUnderUser, QuiescentAfterRemoval, StopNeedsMagic, NoWayOutKeepsCounting, over every device that is running at boot, with failing operations, a minimum heartbeat and unbinding, or without and with unloading |
| `dev_liveness` | CallsReturn and KernelKeepsFeeding for the DesignWare driver, under FairSpec, with a device that may be unbound or unloaded at any time after registration |
| `dev_early_open` | violates ClosedIsFed, and so KernelFeeds, for a device that cannot be stopped: the unlocked update of the worker at the end of registration decides to cancel the timer while the device is open, and does so after a close with the magic character has armed it |
| `registry_safety` | TypeOK, IdsExact, MiscIsZero, NotifiersLive, UnboundForgotten, with every failure |
| `registry_deferred` | violates ZeroMeansRegistered: the result of a deferred registration is dropped |
| `dw_safety` | TypeOK, PeriodApplied, NoSilentHardware, AlwaysResets, ClocksFollowPhase, BootPeriodKept, without a reset line and with one of its own |
| `keepalive` | TypeOK, NeverEarly, NeverLate, PromiseKept (the refinement of WatchdogPromise) |
| `keepalive_handback` | violates KernelFeedsInTime: a watchdog that cannot be stopped is handed back late in its period and resets before the kernel's first ping |
| `bakery_lock` | TypeOK, HolderIsFirst, NoLostWakeup, LockPromise (the refinement of FairLock, with its fairness), and no deadlock |
| `psci` | TypeOK, NeverPanics, RunsInPoweredDomains, ShallowestWins, EntersWithContext, SwitchedOnRuns |
| `env_atomic` | TypeOK, SavedIsStored, AtomicSave (the refinement of EnvStore), with loss of power everywhere and device and read errors on SPI flash |
| `env_stale_serial` | violates SavedIsStored on MMC and NAND: after a boot that could not read copy 2, or neither copy, a save gives copy 2 the serial number 1 that copy 1 has already, and the tie is decided for copy 1, the old one |

Fairness. WatchdogDev (`FairSpec`): calls, registration and removal in progress continue, an
armed timer expires, the worker runs (it is a SCHED_FIFO thread of the highest
priority), and a waiter gets the mutex eventually (kernel mutexes hand over to a
starved waiter): strong fairness of the steps that take `wd_data->lock`, those of
removal included, which also waits for `misc_mtx`. With weak fairness TLC lets a
worker that re-arms the timer again and again keep removal from the lock. Nobody
has to open, write, close or remove. A worker that died is the exception that
CallsReturn names: removal waits for it for ever, and if it died holding the lock
(`watchdog_dev.c:225`) so do all later calls; without the exception TLC finds both.
BakeryLock: a CPU
that is in `bakery_lock_get` or holds the lock goes on (weak fairness of its
steps); nobody has to ask, and nothing is assumed of the order in which CPUs
run. Psci (`FairSpec`): the firmware goes on by itself, and a lock that is free
again and again is taken by a waiting CPU (strong fairness of `acquire_lock`,
which LockPromise justifies); calls and interrupts need not come.

## 4. Findings

Each violation run above is a finding in PROJECT.json, with the line of the
source or comment that the code disagrees with. The models show more of what the
code does, which no property states:

* `watchdog_open` starts the device without `wd_data->lock`: a worker that holds
  the lock may re-arm the timer after the open has cancelled it, and feed once
  on behalf of a user who has fallen silent.
* The magic character is consumed only by the close of an active watchdog and
  survives into the next session (`lastWrite = "stale"`).
* A device that the tail of registration marks as running has no module
  reference, and opening it takes none, but closing it drops one: with hardware
  that was idle at boot NoUseAfterFree and NoRmmodUnderUser do not hold, and if
  its start may fail neither does ActiveMeansCounting (the first open finds
  HW_RUNNING and only pings). Closing an active watchdog that was once stopped
  drops the reference although the hardware counts.
* With a minimum distance between pings, a WDIOC_SETTIMEOUT right after a ping
  defers the ping that would put the new timeout into force. A close without the
  magic character then replaces the timer, and the hardware runs on with the old
  period: it resets too early if the new timeout is longer, too late if it is
  shorter. And if a timeout exceeds the hardware's by less than the latency of
  the worker, the last ping of the worker may come after the timeout and the
  reset late by more than planned.
* The debugging output of `watchdog_ping_work` dereferences a cleared `wdd` if
  the timer expires during removal (`wk = "oops"`).
* The race of `dev_early_open` has a counterpart for devices that can be stopped:
  a user's stop decides to cancel before the tail of registration starts the
  hardware again, and cancels after the tail has armed the timer.
* The missing `env_flags` of `env_stale_serial` needs no tie to lose a save: after
  some more saves the copy that was not overwritten has a higher serial number
  than the 1 of the new one.
* With `handle_boot_enabled` off the tail of `watchdog_dev_register` still arms
  the heartbeat, and a failing pretimeout governor makes it use the node it has
  just unregistered.
* With a shared reset line `dw_wdt_stop` neither stops the hardware nor says
  so, and a failed registration leaves the line deasserted.
* SYSTEM_SUSPEND looks at the other CPUs one by one: one that was seen off may be
  on when the look is over. State coordination then keeps its domains in RUN.
* The restore after a failed `pwr_domain_on` may be discarded by the target's
  invalidation and is not repeated: the CPU stays ON_PENDING.
* On NAND and MMC a failed save uses up a serial number; at the wrap, 254 and 0
  compare the wrong way round. The second attempt of the NAND driver erases the
  only good copy. `env_atomic` therefore lets writes fail on SPI flash only.

## 5. Proofs

Each `Proofs` module extends the specification it is about and has the same
shape: lemmas about the operators, an inductive invariant, one lemma per action
or group of actions, and the theorems. TLC has checked every inductive
invariant on the instances of section 3. Together the theorems state all safety
properties of the passing runs, the action properties and the refinements
included, for any number of threads, CPUs, devices, power domains, serial
numbers and periods.

Theorems without hypotheses rest on the assumptions in the modules only:

| Assumption | Why the code justifies it |
|---|---|
| at most 256 CPUs (BakeryLock) | the priority of a ticket is `(ticket << 8) \| cpu` |
| more than two serial numbers (UbootEnv) | the flags byte has 256; with two, next and previous coincide |
| a hardware period of more than a tick, and half of it, minimum distance and latency within it (WatchdogKeepalive) | otherwise the worker cannot ping in time at all |
| CPU 0 exists, domains form a tree, requests are valid (Psci) | `psci_is_last_on_cpu` counts from 0; the topology is a tree with its levels; `psci_validate_suspend_req` rejects the others |
| a period is at least twice the one before (DwWdt) | periods are powers of two |

Where a property needs more, the theorem says so as an ASSUME, and the same
models show that it is needed:

| Hypothesis | Theorems | What happens without it |
|---|---|---|
| `~EarlyOpen` | KernelAlwaysFeeds, ActiveIsCounting, DeviceOutlivesUsers, ModuleOutlivesUsers | run `dev_early_open` |
| `NoZeroTimeout` | KernelAlwaysFeeds | `watchdog_need_worker` gives up feeding at timeout 0 |
| `StartSafe`: the boot loader left the watchdog running, or its operations do not fail | ActiveIsCounting | the observation of section 4 on idle hardware |
| `BootRunning`: the boot loader left the watchdog running | DeviceOutlivesUsers, ModuleOutlivesUsers | the same observation: references not taken are dropped |
| `"shared" \notin ResetLine` | DwKnown, DwFed | stopping stops nothing |
| `Uniform` | ResetsNotEarly, ResetsNotLate, PromiseImplemented | the observation of section 4 on SETTIMEOUT. The DesignWare driver sets no minimum distance: for it `Uniform` only asks that a timeout beyond the hardware is so by the latency of the worker |
| `FaultsOnlyInSf` | SavedFound, SaveIsAtomic | run `env_stale_serial`; a failed save on MMC or NAND uses up a serial number |
| no read fails, and no write of the NAND | GoodCopySurvives | TLC finds both copies lost: a copy that could not be read at boot is taken for the spare one, and the NAND driver erases the copy in use after an error of the other |
| the driver is built in, `~EarlyOpen` | BuiltInNeverStuck | a worker that finds `wdd` NULL dies under the lock, and whoever wants the lock waits for ever |
| `Roomy`: nothing fails, fewer devices than `MAX_DOGS` | RoomyZeroMeansRegistered | run `registry_deferred`; with as many devices as ids and no failure TLC still finds a device without an id, because a legacy module keeps id 0 |

The properties that no run lists (`NoCircularWait`, `NoStandstill`,
`MutualExclusion`, `Exclusive`, `TimeoutIsUsers`, `ResetNeedsUser`, the survival
of a good copy, and `ZeroMeansRegistered` under `Roomy`) are defined next to
their theorems, or are those of a violation run; TLC has confirmed each of them
on an instance of section 3, with the constants changed to meet the hypothesis
where there is one.

### WatchdogDevProofs and WatchdogRemovalProofs

`TypeCorrect`, `NothingOrphaned` (NoOrphanedHardware), `OneSession`
(SingleOpen), `KernelAlwaysFeeds` (KernelFeeds) and `NoWayOutHolds`
(NoWayOutKeepsCounting).

The predicate `Sound(S, T, d)` is closed under every operator on the device
state (one lemma each): a handler entered with status bits S and timeout T ends
in a state that accounts for its hardware, and in which the kernel's duty to
feed comes with a command to arm the timer, or existed before and was left
alone. The inductive invariant `Inv` has four parts. `TypeInv` adds to the types
where timeouts come from. `SessionInv` says who is in a session and who holds
the lock: without it a second thread could close the device under an opener.
`RegisteringInv` describes the time before registration returns. `FeedInv` is
KernelFeeds made inductive: a cancel that is decided but not issued implies
that there is nothing to feed, and a thread about to program the timer in
`watchdog_open` has made the device active.

`MagicStops` (StopNeedsMagic) needs only that the bit that allows a stop was
set by the last write. `RemovalQuiesces` (QuiescentAfterRemoval) follows the
steps of `watchdog_cdev_unregister` (`DrainInv`): once `wdd` is cleared under the
lock nobody arms the timer, so the cancel of the timer is final, and then that
of the work. `ActiveIsCounting` (ActiveMeansCounting) shows that no operator
leaves a status bit set over stopped hardware (`Honest`). `DeviceOutlivesUsers`
(NoUseAfterFree) and `ModuleOutlivesUsers` (NoRmmodUnderUser) count the
references that are still going to be dropped: those of registration, of the
session, of running hardware and of every close that has released the lock and
not yet done its put. `RefInv` says that the counts are at least that; they may be
larger, because a stop while the file is open leaves a reference behind.

`LocksDoNotCircle` is freedom from deadlock as a safety property: whenever a
call, the removal or the worker waits, some other of them has all it needs for
its next step. The holder of `wd_data->lock` is always on the way to release it
(`LockHeld`), `watchdog_open` never takes it, and removal waits for the worker
without it. The one exception is in the statement: a worker that died of a NULL
`wdd` under the lock. `BuiltInNeverStuck` shows that a built-in driver has none
(`WorkerLives`).

### WatchdogRegistryProofs

`TypeCorrect`, `IdsNeverLeak` (IdsExact), `MiscFollowsIdZero` (MiscIsZero),
`ChainsHoldLive` (NotifiersLive) and `NothingDangles` (UnboundForgotten), for
any drivers, aliases, limit of ids and failures. The operators on the registry
record are shown to keep each part of the invariant for each of their outcomes,
including the retry after a legacy module took the misc node, and the death of a
thread in the middle. What the properties do not say and the induction needs:
live devices have different ids, the deferred list has no duplicates and only
devices whose drivers are bound, and it is empty once `watchdog_init` is over.
`ida_simple_get` returns the least free id; that there is one follows, like
every minimum in these proofs, from the well-foundedness of `<` (`LeastNat`).

`RoomyZeroMeansRegistered` says when the promise that `registry_deferred` refutes
does hold: nothing fails and there are more ids than devices. Then by the
pigeonhole principle an unregistered device finds an id other than 0 (`IdLeft`),
so the retry after a legacy module succeeds whatever the aliases, and every bound
driver's device is registered or still on the list (`BoundInv`); no thread dies.

### DwWdtProofs

`DwTypes` (TypeOK), `DwBase` (AlwaysResets, RestartFires), `DwClocks`
(ClocksFollowPhase), `BootPeriodSurvives` (BootPeriodKept), `DwKnown`
(NoSilentHardware) and `DwFed` (PeriodApplied), for every clock rate, number of
periods, default, timeout-sec and set of requests.

The arithmetic comes first: by integer division whole seconds grow strictly from
one second on (`SecondsGrow`), so the search of `dw_wdt_set_timeout` finds a period
again from its own seconds (`TopForFindsAgain`). The inductive invariant is
`BaseInv` (the properties that hold with any reset line, how often it was
deasserted, what resume will restore, and the timeout that probe read) and, with
an unshared line, `FedInv`: PeriodApplied alone is not inductive, because a kick
loads the register (`TopApplied`), a resume what was saved (`SavedApplied`), and a
new timeout is kicked in only if the core knows that the hardware runs
(NoSilentHardware).

`UserTimeoutKept` is about what `WDIOC_GETTIMEOUT` answers, on any reset line:
while the device is registered its timeout changes only to what a valid request
is granted, the shortest period that is long enough or else the longest.
`dw_wdt_start` computes the timeout anew from seconds that were rounded down;
that it finds the same value again (`SecondsAgain`) is why stop, start, suspend
and resume leave it alone. It needs that the timeout is always a whole period
(`WholePeriod`).

### WatchdogKeepaliveProofs

`TypeCorrect`, `ResetsNotEarly` (NeverEarly), `ResetsNotLate` (NeverLate) and
`PromiseImplemented` (PromiseKept, the refinement of WatchdogPromise). The
invariant relates the clock, the armed timer, the queued work and the instant at
which the hardware resets: while a user is silent the next ping comes in time for
the hardware, until the one that would carry it beyond the promised instant.
The operators on `wd_data` each keep it (`Good`). The refinement then maps an
action to at most one step of the promise.

`StoppableResetsForUserOnly` (`ResetNeedsUser`) limits what run
`keepalive_handback` shows: only hardware without a stop operation is left
running unfed by a close. Hardware that can be stopped runs without a user only
until the first open, and until then the kernel feeds it in time (`KernelHolds`);
so it resets the machine only while a user is active. `Uniform` is not needed.

### BakeryLockProofs

`BakeryInvariant`, `TypeCorrect`, `HolderFirst` (HolderIsFirst), `WakeupNotLost`
(NoLostWakeup) and `BakeryImplementsLock` (the safety part of LockPromise). The
heart is `Behind(c, d)`: d has no ticket, or a lower priority than c, or is
choosing a ticket that will have; whoever the loop of c has passed is behind c
(`OrderInv`). That tickets stay within their bits is the harder half
(`RoomInv`). `RoomForTickets` is checked when a CPU enters the doorway, and up to N
CPUs may be in there together; but a CPU with a high ticket waits for all of
them, so until it is served each of them publishes once, and the room that is
left is counted by the CPUs outside the doorway.

`OneHolder` is mutual exclusion in so many words. `LockNeverStuck` adds to
NoLostWakeup that the lock cannot come to a standstill: if nobody moved, all who
have asked would sleep, each on the ticket of one that sleeps too and is ahead
of it; but one of them is first.

### PsciProofs

`TypeCorrect`, `NoPanic` (NeverPanics), `ExecutesPowered`
(RunsInPoweredDomains), `DomainsCoordinated` (ShallowestWins) and
`BootsWithContext` (EntersWithContext), for any number of CPUs and any tree. Two
arguments meet in `IInv`. `CoordInv`: every domain is always in the shallowest
state that its CPUs ask for. The early break of `psci_do_state_coordination`
keeps that true because no CPU asks for a deeper state at a higher level
(`MonoInv`), so whoever keeps a domain in RUN keeps the domains above it in RUN,
and because a CPU that takes its own request back asks for RUN above the level it
suspended to (`RunAbove` in `PhaseInv`). `SpinInv` follows `psci_cpu_on_start`
step by step against the CPU that goes down: after the flush either the state in
memory is ON_PENDING, or the target has finished its invalidation and the
second store is final. Mutual exclusion of the domain locks is not needed for
these properties, because a critical section is one step of the model.

That it may be one is the subject of a second invariant, `LockInv`: `owner`
agrees with the labels, that is, a CPU has exactly the locks of the levels it has
passed in `psci_acquire_pwr_domain_locks` and not yet in the release. From it
follow `SectionsExclude` (two CPUs below a domain are never both in their
sections), `DomainLockImplements` (every `psci_locks[d]` is used as the safety part
of FairLock says, which `BakeryImplementsLock` shows of the real lock: the two
models fit) and `SomebodyGoesOn` (no circle of waiting CPUs: domain locks are taken
from the lowest level up, so the CPU that waits at the highest level waits for
one that has all it wants, or in `psci_cpu_on_finish` for the spin lock of a CPU
that waits for nobody).

### UbootEnvProofs

`TypeCorrect`, `SavedFound` (SavedIsStored) and `SaveIsAtomic` (AtomicSave, the
refinement of EnvStore). The invariant: a save writes the copy that is not in use,
and on MMC and NAND the serial number in RAM is that of the copy a boot would
select, or the next one during a save (`SerialInv`). `Choice` states what a boot
selects as a case distinction, for the two copies of every state.

`GoodCopySurvives`: after the first successful save every boot finds a good copy
and none falls back to the compiled-in environment, whatever power failures, and
whatever errors of erases and writes on SPI flash and MMC, come in between. Its
invariant needs no serial numbers, only that a save spares the copy in use
(`SpareInv`) and that this one is good (`Kept`).

### With TLC only

Liveness is out of the prover's reach: CallsReturn, KernelKeepsFeeding,
SwitchedOnRuns and the fairness half of LockPromise stay with TLC, as do the four
violation runs. `ENABLED` is out of reach too: the three theorems on deadlock say
"goes on" in terms of labels and locks, and TLC has confirmed on the instances of
section 3 that whoever goes on in this sense has an enabled step.

## 6. Plan

Done: all modules of section 2 with their runs, proofs of all safety properties
of the passing runs, and of the freedom from deadlock of the three parts that
lock. What is left:

1. State the hypotheses more weakly: `Uniform` asks more of a minimum distance
   than the counterexamples of section 4 need, and DeviceOutlivesUsers holds for
   an idle device that is not opened.
2. Replace the variable `owner` of Psci by instances of BakeryLock.
   DomainLockImplements and BakeryImplementsLock meet in FairLock, so that the
   composition would repeat what the two halves show, with the states of both.

## 7. Not modelled

The cdev node of devices other than id 0, pretimeouts, sysfs attributes, the
bodies of the notifiers in the registry, `watchdog_exit` (the core is built in),
the clean copy `src/dw_wdt.c` (DwWdt speaks for it).

Of PSCI: SYSTEM_OFF and SYSTEM_RESET, memory protection, MIGRATE, statistics, the
calls that only read, the platforms' hooks. Of the environment: the hash table,
import and export formats, other drivers, several locations, builds with a
single copy (which promise nothing about a loss of power), and the reset of the
hash table to the default when a probe of the SPI flash fails before a save. Of
nowayout: what the reboot notifier and the reset line in `dw_wdt_drv_remove` do
to it (NoWayOutKeepsCounting is about the paths through `watchdog_dev.c`).

The rest of the vendored trees: register descriptions, board support, drivers
and DDR training are sequential code whose meaning is in hardware that the
repository does not describe, and boot loader, USB and device tree sources are
kept unchanged. They make up nearly all of the repository's lines, so the share
of lines this project covers stays small whatever is added.
