----------------------------- MODULE BakeryLock -----------------------------
(***************************************************************************)
(* The bakery lock of the Arm Trusted Firmware,                            *)
(* atf-marvell/lib/locks/bakery/bakery_lock_normal.c, which the PSCI code  *)
(* uses around the power domain tree.  CPUs take it with plain loads and   *)
(* stores of one 16-bit word each, and sleep with WFE until a release      *)
(* sends an event with SEV.                                                *)
(*                                                                         *)
(* Every load and store of lock_data is one step.  The cache maintenance   *)
(* and barriers of the code make the words coherent: loads see the last    *)
(* store.                                                                  *)
(***************************************************************************)
EXTENDS Integers

CONSTANTS N,            \* BAKERY_LOCK_MAX_CPUS
          TicketRange   \* 2^15: the tickets lock_data has room for

\* PRIORITY leaves eight bits for the position of a CPU.
ASSUME BakeryAssumption ==
  /\ N \in 1..256
  /\ TicketRange \in Nat \ {0}

CPUs == 0..(N - 1)

VARIABLES choosing,     \* bit 0 of lock_data, per CPU
          number,       \* bits 1 to 15 of lock_data, per CPU
          pc,           \* where in bakery_lock_get / release a CPU is
          they,         \* the loop index of both loops
          my_ticket,    \* the local my_ticket
          their_ticket, \* the local their_ticket of bakery_lock_get
          event         \* the event register WFE waits for and clears

vars == <<choosing, number, pc, they, my_ticket, their_ticket, event>>

\* scan:    in the loop of bakery_get_ticket
\* publish: about to store the chosen ticket
\* look:    in the loop of bakery_lock_get, about to load lock_data[they]
\* wfe:     asleep until the event register is set
\* recheck: woken, about to load their ticket again
\* cs:      has the lock
\* sev:     has dropped the lock and is about to send the event
Labels == {"idle", "scan", "publish", "look", "wfe", "recheck", "cs", "sev"}

TypeOK ==
  /\ choosing \in [CPUs -> BOOLEAN]
  /\ number \in [CPUs -> 0..(TicketRange - 1)]
  /\ pc \in [CPUs -> Labels]
  /\ they \in [CPUs -> 0..N]
  /\ my_ticket \in [CPUs -> 0..(TicketRange - 1)]
  /\ their_ticket \in [CPUs -> 0..(TicketRange - 1)]
  /\ event \in [CPUs -> BOOLEAN]

Init ==
  /\ choosing = [c \in CPUs |-> FALSE]
  /\ number = [c \in CPUs |-> 0]
  /\ pc = [c \in CPUs |-> "idle"]
  /\ they = [c \in CPUs |-> 0]
  /\ my_ticket = [c \in CPUs |-> 0]
  /\ their_ticket = [c \in CPUs |-> 0]
  /\ event \in [CPUs -> BOOLEAN]

PRIORITY(t, pos) == t * 256 + pos

\* The next index of a loop "for (they = 0; ...) if (me == they) continue"
\* at or after i; N when the loop is over.
Index(me, i) == IF i = me THEN i + 1 ELSE i

\* Bound: a CPU asks for the lock only while all tickets leave room for
\* one more of each CPU.  The code relies on the lock becoming free before
\* 2^15 tickets have been given out in a row.
RoomForTickets == \A c \in CPUs : number[c] + N < TicketRange

-----------------------------------------------------------------------------
\* bakery_get_ticket up to its loop: through the doorway.
enter_doorway(me) ==
  /\ pc[me] = "idle"
  /\ RoomForTickets
  /\ choosing' = [choosing EXCEPT ![me] = TRUE]
  /\ number' = [number EXCEPT ![me] = 0]
  /\ my_ticket' = [my_ticket EXCEPT ![me] = 0]
  /\ they' = [they EXCEPT ![me] = Index(me, 0)]
  /\ pc' = [pc EXCEPT ![me] = IF Index(me, 0) < N THEN "scan" ELSE "publish"]
  /\ UNCHANGED <<their_ticket, event>>

\* One turn of its loop: one load of another CPU's word.
scan(me) ==
  LET next == Index(me, they[me] + 1)
  IN  /\ pc[me] = "scan"
      /\ my_ticket' = [my_ticket EXCEPT ![me] =
                         IF number[they[me]] > @ THEN number[they[me]] ELSE @]
      /\ they' = [they EXCEPT ![me] = next]
      /\ pc' = [pc EXCEPT ![me] = IF next < N THEN "scan" ELSE "publish"]
      /\ UNCHANGED <<choosing, number, their_ticket, event>>

\* Mutant: twice as many tickets are skipped as needed.
publish_doubled(me) ==
  /\ pc[me] = "publish"
  /\ my_ticket' = [my_ticket EXCEPT ![me] = 2 * (@ + 1)]
  /\ choosing' = [choosing EXCEPT ![me] = FALSE]
  /\ number' = [number EXCEPT ![me] = (2 * (my_ticket[me] + 1)) % TicketRange]
  /\ they' = [they EXCEPT ![me] = Index(me, 0)]
  /\ pc' = [pc EXCEPT ![me] = IF Index(me, 0) < N THEN "look" ELSE "cs"]
  /\ UNCHANGED <<their_ticket, event>>

\* ++my_ticket, stored truncated to 15 bits with the choosing bit clear.
publish(me) ==
  /\ pc[me] = "publish"
  /\ my_ticket' = [my_ticket EXCEPT ![me] = @ + 1]
  /\ choosing' = [choosing EXCEPT ![me] = FALSE]
  /\ number' = [number EXCEPT ![me] = (my_ticket[me] + 1) % TicketRange]
  /\ they' = [they EXCEPT ![me] = Index(me, 0)]
  /\ pc' = [pc EXCEPT ![me] = IF Index(me, 0) < N THEN "look" ELSE "cs"]
  /\ UNCHANGED <<their_ticket, event>>

\* On to the next CPU of the loop of bakery_lock_get, or the lock is taken.
Advance(me) ==
  LET next == Index(me, they[me] + 1)
  IN  /\ they' = [they EXCEPT ![me] = next]
      /\ their_ticket' = [their_ticket EXCEPT ![me] = 0]
      /\ pc' = [pc EXCEPT ![me] = IF next < N THEN "look" ELSE "cs"]

\* Mutant: equal tickets are not told apart by the position.
Ahead_ticket_only(me, t) == t # 0 /\ t < my_ticket[me]

\* They are ahead of me: a ticket, and of higher priority than mine.
Ahead(me, t) ==
  t # 0 /\ PRIORITY(t, they[me]) < PRIORITY(my_ticket[me], me)

\* Mutant: a CPU that is choosing counts as one without a ticket.
look_impatient(me) ==
  LET t == number[they[me]]
  IN  /\ pc[me] = "look"
      /\ IF Ahead(me, t)
         THEN /\ their_ticket' = [their_ticket EXCEPT ![me] = t]
              /\ pc' = [pc EXCEPT ![me] = "wfe"]
              /\ UNCHANGED they
         ELSE Advance(me)
      /\ UNCHANGED <<choosing, number, my_ticket, event>>

\* The load that finds the other CPU not choosing.
look(me) ==
  LET t == number[they[me]]
  IN  /\ pc[me] = "look"
      /\ ~choosing[they[me]]
      /\ IF Ahead(me, t)
         THEN /\ their_ticket' = [their_ticket EXCEPT ![me] = t]
              /\ pc' = [pc EXCEPT ![me] = "wfe"]
              /\ UNCHANGED they
         ELSE Advance(me)
      /\ UNCHANGED <<choosing, number, my_ticket, event>>

wfe(me) ==
  /\ pc[me] = "wfe"
  /\ event[me]
  /\ event' = [event EXCEPT ![me] = FALSE]
  /\ pc' = [pc EXCEPT ![me] = "recheck"]
  /\ UNCHANGED <<choosing, number, they, my_ticket, their_ticket>>

\* The condition of the waiting loop: their ticket has changed, or sleep on.
recheck(me) ==
  /\ pc[me] = "recheck"
  /\ IF number[they[me]] # their_ticket[me]
     THEN Advance(me)
     ELSE pc' = [pc EXCEPT ![me] = "wfe"] /\ UNCHANGED <<they, their_ticket>>
  /\ UNCHANGED <<choosing, number, my_ticket, event>>

\* Mutant: the release sends no event.
bakery_lock_release_silent(me) ==
  /\ pc[me] = "cs"
  /\ choosing' = [choosing EXCEPT ![me] = FALSE]
  /\ number' = [number EXCEPT ![me] = 0]
  /\ pc' = [pc EXCEPT ![me] = "idle"]
  /\ they' = [they EXCEPT ![me] = 0]
  /\ my_ticket' = [my_ticket EXCEPT ![me] = 0]
  /\ UNCHANGED <<their_ticket, event>>

\* bakery_lock_release: the store, and then the event to all CPUs.  The
\* locals of bakery_lock_get are gone, and forgotten here.
bakery_lock_release(me) ==
  /\ pc[me] = "cs"
  /\ choosing' = [choosing EXCEPT ![me] = FALSE]
  /\ number' = [number EXCEPT ![me] = 0]
  /\ pc' = [pc EXCEPT ![me] = "sev"]
  /\ they' = [they EXCEPT ![me] = 0]
  /\ my_ticket' = [my_ticket EXCEPT ![me] = 0]
  /\ UNCHANGED <<their_ticket, event>>

sev(me) ==
  /\ pc[me] = "sev"
  /\ event' = [c \in CPUs |-> TRUE]
  /\ pc' = [pc EXCEPT ![me] = "idle"]
  /\ UNCHANGED <<choosing, number, they, my_ticket, their_ticket>>

\* A CPU that has started goes on by itself; asking is its own choice.
Step(me) ==
  \/ scan(me) \/ publish(me) \/ look(me) \/ wfe(me) \/ recheck(me)
  \/ bakery_lock_release(me) \/ sev(me)

Next == \E me \in CPUs : enter_doorway(me) \/ Step(me)

Spec == Init /\ [][Next]_vars /\ \A me \in CPUs : WF_vars(Step(me))

-----------------------------------------------------------------------------
\* The CPU that has the lock is ahead of every CPU with a ticket, also of
\* those that took theirs after bakery_lock_get had passed them in its loop.
HolderIsFirst ==
  \A c, d \in CPUs :
    pc[c] = "cs" /\ d # c /\ number[d] # 0 =>
      PRIORITY(number[c], c) < PRIORITY(number[d], d)

\* No lost wake-up: a CPU asleep in WFE on a ticket that is gone has an
\* event pending, or the SEV of a release is on its way.
NoLostWakeup ==
  \A c \in CPUs :
    pc[c] = "wfe" /\ number[they[c]] # their_ticket[c] =>
      event[c] \/ \E d \in CPUs : pc[d] = "sev"

\* What a CPU is doing, for its user.
LockState ==
  [c \in CPUs |-> CASE pc[c] \in {"idle", "sev"} -> "idle"
                     [] pc[c] = "cs" -> "holding"
                     [] OTHER -> "waiting"]

Lock == INSTANCE FairLock WITH lock <- LockState

\* Loads, stores and events are a lock: one holder, and every CPU that asks
\* gets it, with no more than each CPU going on by itself.
LockPromise == Lock!Spec
=============================================================================
