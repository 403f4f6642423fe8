-------------------------------- MODULE DwWdt --------------------------------
(***************************************************************************)
(* The Synopsys DesignWare watchdog driver, dw_wdt.c, between the watchdog *)
(* core and the hardware: probe and remove with their clocks and reset     *)
(* line, the operations the core calls, restart, suspend and resume.       *)
(*                                                                         *)
(* The hardware is the WDT_EN and RESP_MODE bits of the control register,  *)
(* the TOP field of the timeout range register, and the period that the    *)
(* running countdown was loaded with: a new TOP counts from the next kick  *)
(* on.  The core appears by the order in which it calls the driver: it     *)
(* serialises the calls and pings a running device instead of starting it. *)
(***************************************************************************)
EXTENDS Integers

CONSTANTS
    Rate,        \* clk_get_rate, in Hz
    Shift,       \* the shortest period is 2^Shift cycles (16 in hardware)
    MaxTop,      \* DW_WDT_MAX_TOP (15 in hardware)
    Default,     \* DW_WDT_DEFAULT_SECONDS
    TimeoutSec,  \* timeout-sec of the device tree, 0 if there is none
    Request,     \* the seconds user space may ask for
    ResetLine,   \* kinds of reset line: "none", the device's "own", or one
                 \* "shared" with a device that is in use
    MaxDeassert  \* bound on the deassert count, which failed probes leak

ASSUME DwAssumption ==
    /\ Rate \in Nat \ {0}
    /\ Shift \in Nat
    /\ MaxTop \in Nat
    /\ Default \in Nat
    /\ TimeoutSec \in Nat
    /\ Request \subseteq Nat
    /\ ResetLine \subseteq {"none", "own", "shared"}
    /\ MaxDeassert \in Nat

\* What the proofs need to know of powers of two.
ASSUME PowersAssumption ==
    \A i \in 0 .. MaxTop :
        /\ 2 ^ (Shift + i) \in Nat
        /\ \A j \in i + 1 .. MaxTop : 2 * 2 ^ (Shift + i) <= 2 ^ (Shift + j)

VARIABLES
    line,       \* the kind of reset line this board has; never changes
    phase,      \* how far the driver is
    en,         \* WDT_EN
    resp,       \* RESP_MODE: raise an interrupt before resetting the system
    top,        \* TOP
    period,     \* the TOP with which the countdown was loaded
    clk, pclk,  \* how often the driver has enabled its two clocks
    deassert,   \* deassert count of the reset line
    timeout,    \* wdd->timeout
    active,     \* WDOG_ACTIVE
    hw_running, \* WDOG_HW_RUNNING
    saved       \* dw_wdt->control and dw_wdt->timeout

hwVars  == <<en, resp, top, period>>
clkVars == <<clk, pclk, deassert>>
wddVars == <<timeout, active, hw_running>>
vars == <<line, phase, hwVars, clkVars, wddVars, saved>>

Phase == {"off", "probed", "on", "suspended", "crippled", "restarting"}
Top   == 0 .. MaxTop
Regs  == [en : BOOLEAN, resp : BOOLEAN, top : Top]

-----------------------------------------------------------------------------
(* Periods and timeouts.                                                   *)

\* The period in whole seconds, rounded down.
dw_wdt_top_in_seconds(i) == (2 ^ (Shift + i)) \div Rate

\* Mutant: the first period that is longer, and not just as long.
TopFor_longer(s) ==
    LET enough == {i \in Top : dw_wdt_top_in_seconds(i) > s}
    IN  IF enough = {} THEN MaxTop
        ELSE CHOOSE i \in enough : \A j \in enough : i <= j

\* Mutant: the index after the loop, when no period is long enough.
TopFor_past_end(s) ==
    LET enough == {i \in Top : dw_wdt_top_in_seconds(i) >= s}
    IN  IF enough = {} THEN MaxTop + 1
        ELSE CHOOSE i \in enough : \A j \in enough : i <= j

\* The search of dw_wdt_set_timeout: the first period that is long enough, or
\* the longest.
TopFor(s) ==
    LET enough == {i \in Top : dw_wdt_top_in_seconds(i) >= s}
    IN  IF enough = {} THEN MaxTop
        ELSE CHOOSE i \in enough : \A j \in enough : i <= j

\* min_timeout, which watchdog_check_min_max_timeout resets if the driver has
\* no maximal heartbeat to offer.
min_timeout == IF dw_wdt_top_in_seconds(MaxTop) = 0 THEN 0 ELSE 1

\* Its other test, for values whose milliseconds exceed an unsigned int, is left
\* out: every request is far below.
watchdog_timeout_invalid(s) == s < min_timeout

\* watchdog_init_timeout without a module parameter: the device tree's value if
\* it is valid, else what was there.
watchdog_init_timeout(old) ==
    IF ~watchdog_timeout_invalid(TimeoutSec) /\ TimeoutSec # 0 THEN TimeoutSec
                                                               ELSE old

-----------------------------------------------------------------------------
(* Operations on the registers and on the timeout, as operators on d.      *)

Dw == [en |-> en, resp |-> resp, top |-> top, period |-> period,
       timeout |-> timeout]

dw_wdt_ping(d) == [d EXCEPT !.period = d.top]

dw_wdt_set_timeout(d, s) ==
    [d EXCEPT !.top = TopFor(s), !.timeout = dw_wdt_top_in_seconds(TopFor(s))]

\* Enabling the counter loads it.
dw_wdt_arm_system_reset(d) ==
    [d EXCEPT !.resp = FALSE, !.en = TRUE,
              !.period = IF d.en THEN @ ELSE d.top]

\* Mutant: a counter that is enabled is not armed again.
dw_wdt_start_once(d) ==
    LET p == dw_wdt_ping(dw_wdt_set_timeout(d, d.timeout))
    IN  IF p.en THEN p ELSE dw_wdt_arm_system_reset(p)

dw_wdt_start(d) ==
    dw_wdt_arm_system_reset(dw_wdt_ping(dw_wdt_set_timeout(d, d.timeout)))

\* What an asserted reset line leaves in the registers.
ResetRegs(d) ==
    [d EXCEPT !.en = FALSE, !.resp = FALSE, !.top = 0, !.period = 0]

\* The line is asserted when the last of those who deasserted it asserts it.
Asserts(n) == line # "none" /\ n = 1

DwBecomes(d) ==
    /\ en' = d.en
    /\ resp' = d.resp
    /\ top' = d.top
    /\ period' = d.period
    /\ timeout' = d.timeout

\* clk_disable_unprepare of a clock that is off only warns.
ClkDisable(n) == IF n > 0 THEN n - 1 ELSE 0

-----------------------------------------------------------------------------
\* The boot loader may leave the watchdog running in any mode and period.
Init ==
    /\ line \in ResetLine
    /\ phase = "off"
    /\ en \in BOOLEAN
    /\ resp \in BOOLEAN
    /\ top \in Top
    /\ period = top
    /\ clk = 0
    /\ pclk = 0
    /\ deassert = IF line = "shared" THEN 1 ELSE 0
    /\ timeout = 0
    /\ active = FALSE
    /\ hw_running = FALSE
    /\ saved = [en |-> FALSE, resp |-> FALSE, top |-> 0]

\* dw_wdt_drv_probe up to watchdog_register_device.  A running watchdog keeps
\* its period.
Probe ==
    /\ phase = "off"
    /\ deassert < MaxDeassert
    /\ phase' = "probed"
    /\ clk' = clk + 1
    /\ pclk' = pclk + 1
    /\ deassert' = IF line = "none" THEN deassert ELSE deassert + 1
    /\ timeout' = IF en THEN dw_wdt_top_in_seconds(top)
                        ELSE watchdog_init_timeout(Default)
    /\ hw_running' = en
    /\ active' = FALSE
    /\ UNCHANGED <<line, hwVars, saved>>

\* A probe that fails after it has enabled c clocks disables them.
ProbeFails ==
    /\ phase = "off"
    /\ \E c \in 0 .. 2 :
         /\ clk' = IF c > 0 THEN ClkDisable(clk + 1) ELSE clk
         /\ pclk' = IF c > 1 THEN ClkDisable(pclk + 1) ELSE pclk
    /\ UNCHANGED <<line, phase, hwVars, deassert, wddVars, saved>>

\* Mutant: only one of the two clocks is disabled.
RegisterFails_keeps_pclk ==
    /\ phase = "probed"
    /\ phase' = "off"
    /\ clk' = ClkDisable(clk)
    /\ UNCHANGED <<line, hwVars, pclk, deassert, wddVars, saved>>

\* watchdog_register_device fails: the clocks go off, the reset line stays
\* deasserted, and only a line of its own forgets how often.
RegisterFails ==
    /\ phase = "probed"
    /\ phase' = "off"
    /\ clk' = ClkDisable(clk)
    /\ pclk' = ClkDisable(pclk)
    /\ deassert' = IF line = "own" THEN 0 ELSE deassert
    /\ UNCHANGED <<line, hwVars, wddVars, saved>>

\* watchdog_dev_register marks the device as running and starts it.
Register ==
    /\ phase = "probed"
    /\ phase' = "on"
    /\ hw_running' = TRUE
    /\ DwBecomes(dw_wdt_start(Dw))
    /\ UNCHANGED <<line, clkVars, active, saved>>

\* watchdog_start: a running device is only pinged.
Start ==
    /\ phase = "on"
    /\ ~active
    /\ active' = TRUE
    /\ DwBecomes(IF hw_running THEN dw_wdt_ping(Dw) ELSE dw_wdt_start(Dw))
    /\ UNCHANGED <<line, phase, clkVars, hw_running, saved>>

\* Mutant: without a reset line the device is not marked as running.
Stop_forgets_running ==
    /\ phase = "on"
    /\ active
    /\ active' = FALSE
    /\ hw_running' = FALSE
    /\ DwBecomes(IF Asserts(deassert) THEN ResetRegs(Dw) ELSE Dw)
    /\ UNCHANGED <<line, phase, clkVars, saved>>

\* watchdog_stop and dw_wdt_stop: assert and deassert the reset line, if there
\* is one; it has an effect only if nobody else needs it deasserted.
Stop ==
    /\ phase = "on"
    /\ active
    /\ active' = FALSE
    /\ hw_running' = (line = "none")
    /\ DwBecomes(IF Asserts(deassert) THEN ResetRegs(Dw) ELSE Dw)
    /\ UNCHANGED <<line, phase, clkVars, saved>>

\* watchdog_ping.
Ping ==
    /\ phase = "on"
    /\ active \/ hw_running
    /\ DwBecomes(dw_wdt_ping(Dw))
    /\ UNCHANGED <<line, phase, clkVars, active, hw_running, saved>>

\* WDIOC_SETTIMEOUT: set the timeout, then ping.
SetTimeout ==
    /\ phase = "on"
    /\ \E s \in Request :
         /\ ~watchdog_timeout_invalid(s)
         /\ LET d == dw_wdt_set_timeout(Dw, s)
            IN  DwBecomes(IF active \/ hw_running THEN dw_wdt_ping(d) ELSE d)
    /\ UNCHANGED <<line, phase, clkVars, active, hw_running, saved>>

\* dw_wdt_restart: the shortest period, now.
Restart ==
    /\ phase = "on"
    /\ phase' = "restarting"
    /\ LET d == [Dw EXCEPT !.top = 0]
       IN  DwBecomes(IF d.en THEN dw_wdt_ping(d)
                             ELSE dw_wdt_arm_system_reset(d))
    /\ UNCHANGED <<line, clkVars, active, hw_running, saved>>

\* dw_wdt_suspend, after which the hardware may lose its registers.
Suspend ==
    /\ phase = "on"
    /\ phase' = "suspended"
    /\ saved' = [en |-> en, resp |-> resp, top |-> top]
    /\ pclk' = ClkDisable(pclk)
    /\ clk' = ClkDisable(clk)
    /\ \E lost \in BOOLEAN : DwBecomes(IF lost THEN ResetRegs(Dw) ELSE Dw)
    /\ UNCHANGED <<line, deassert, active, hw_running>>

\* Mutant: the timeout register is not restored.
Resume_control_only ==
    /\ phase = "suspended"
    /\ phase' = "on"
    /\ clk' = clk + 1
    /\ pclk' = pclk + 1
    /\ DwBecomes(dw_wdt_ping([Dw EXCEPT !.en = saved.en, !.resp = saved.resp]))
    /\ UNCHANGED <<line, deassert, active, hw_running, saved>>

\* dw_wdt_resume: clocks, timeout register, control register, ping.
Resume ==
    /\ phase = "suspended"
    /\ phase' = "on"
    /\ clk' = clk + 1
    /\ pclk' = pclk + 1
    /\ DwBecomes(dw_wdt_ping([Dw EXCEPT !.top = saved.top, !.en = saved.en,
                                        !.resp = saved.resp]))
    /\ UNCHANGED <<line, deassert, active, hw_running, saved>>

\* One of the clocks cannot be enabled; both stay off.
ResumeFails ==
    /\ phase = "suspended"
    /\ phase' = "crippled"
    /\ \E c \in 0 .. 1 : clk' = IF c > 0 THEN ClkDisable(clk + 1) ELSE clk
    /\ UNCHANGED <<line, hwVars, pclk, deassert, wddVars, saved>>

\* dw_wdt_drv_remove: unregister, assert the reset line, disable the clocks.
Remove ==
    /\ phase \in {"probed", "on", "crippled"}
    /\ phase' = "off"
    /\ DwBecomes(IF Asserts(deassert) THEN ResetRegs(Dw) ELSE Dw)
    /\ deassert' = IF line = "none" THEN deassert ELSE deassert - 1
    /\ pclk' = ClkDisable(pclk)
    /\ clk' = ClkDisable(clk)
    /\ UNCHANGED <<line, active, hw_running, saved>>

Next == \/ Probe \/ ProbeFails \/ Register \/ RegisterFails \/ Remove
        \/ Start \/ Stop \/ Ping \/ SetTimeout \/ Restart
        \/ Suspend \/ Resume \/ ResumeFails

Spec == Init /\ [][Next]_vars

-----------------------------------------------------------------------------
(* Properties.                                                             *)

\* Every variable keeps its type; TOP never leaves its field.
TypeOK ==
    /\ line \in ResetLine
    /\ phase \in Phase
    /\ en \in BOOLEAN /\ resp \in BOOLEAN
    /\ top \in Top /\ period \in Top
    /\ clk \in Nat /\ pclk \in Nat /\ deassert \in Nat
    /\ timeout \in Nat
    /\ active \in BOOLEAN /\ hw_running \in BOOLEAN
    /\ saved \in Regs

\* wdd->timeout, from which the core computes its heartbeat and what it tells
\* user space, is the period the running countdown was loaded with: through
\* start, stop, set_timeout, suspend and resume.
PeriodApplied == phase = "on" /\ en => dw_wdt_top_in_seconds(period) = timeout

\* Hardware that counts is one the core knows to count, so that it is fed or
\* its user is in charge.
NoSilentHardware == phase = "on" /\ en => active \/ hw_running

\* A registered watchdog never sits in interrupt mode, whatever the boot loader
\* left and whatever a suspend lost.
AlwaysResets == phase = "on" /\ en => ~resp

\* Both clocks are enabled once while the device is in use, and not at all
\* when it is unbound, suspended or could not resume.
ClocksFollowPhase ==
    IF phase \in {"probed", "on", "restarting"} THEN clk = 1 /\ pclk = 1
                                                 ELSE clk = 0 /\ pclk = 0

\* dw_wdt_restart leaves a countdown of the shortest period that ends in a
\* reset, whether the watchdog was running or not.
RestartFires == phase = "restarting" => en /\ ~resp /\ period = 0

\* Registration does not change the period of a watchdog that the boot loader
\* started, if it is at least one second: dw_wdt_start finds the period again
\* from the rounded seconds.
BootPeriodKept ==
    [][phase = "probed" /\ phase' = "on" /\ en /\ timeout >= 1
         => period' = top]_vars

=============================================================================
