------------------------------ MODULE UbootEnv ------------------------------
(***************************************************************************)
(* The redundant environment of U-Boot, u-boot-marvell/env: two copies,    *)
(* each with a checksum and a flags byte, written in turns by the drivers  *)
(* for SPI flash (sf), MMC and NAND, and read back by env_import_redund.   *)
(*                                                                         *)
(* Power may fail between any two steps of a save, an erase or a write may *)
(* report an error, and a read may fail.  A copy that is being erased or   *)
(* written has a wrong checksum.                                           *)
(***************************************************************************)
EXTENDS Integers

CONSTANTS Values,        \* contents of the environment
          Default,       \* the compiled-in environment
          LastSerial,    \* 255: the largest value of the flags byte
          Drivers,       \* the drivers of this run: "sf", "mmc", "nand"
          WriteFaults,   \* the drivers whose erases and writes may fail
          ReadFaults     \* the drivers whose reads may fail

\* With only two serial numbers neither is newer than the other.
ASSUME EnvAssumption ==
  /\ LastSerial \in Nat \ {0, 1}
  /\ Drivers \subseteq {"sf", "mmc", "nand"}
  /\ WriteFaults \subseteq Drivers /\ ReadFaults \subseteq Drivers
  /\ Default \notin Values

VARIABLES driver,      \* where the environment is
          copy,        \* the two copies on the medium
          ram,         \* env_htab
          env_flags,   \* the serial number of the copy in use
          env_valid,   \* gd->env_valid: 1 for ENV_VALID, 2 for ENV_REDUND
          target,      \* the copy a save is writing
          pc,          \* where a save is
          blind        \* a read failed at this boot

vars == <<driver, copy, ram, env_flags, env_valid, target, pc, blind>>

Copies == {1, 2}
Other(i) == 3 - i
ACTIVE_FLAG == 1
OBSOLETE_FLAG == 0

\* Erased, or half written.
Spoilt == [crc_ok |-> FALSE, flags |-> 0, data |-> Default]

\* off: no power, or before env_load     saved: saveenv has printed OK
Labels == {"off", "up", "erase", "write", "obsolete", "saved"}

TypeOK ==
  /\ driver \in Drivers
  /\ copy \in [Copies -> [crc_ok: BOOLEAN, flags: 0..LastSerial,
                          data: Values \cup {Default}]]
  /\ ram \in Values \cup {Default}
  /\ env_flags \in 0..LastSerial
  /\ {env_valid, target} \subseteq Copies
  /\ pc \in Labels
  /\ blind \in BOOLEAN

\* A medium without an environment.
Init ==
  /\ driver \in Drivers
  /\ copy = [i \in Copies |-> Spoilt]
  /\ ram = Default
  /\ env_flags = 0
  /\ env_valid = 1
  /\ target = 2
  /\ pc = "off"
  /\ blind = FALSE

-----------------------------------------------------------------------------
\* Mutant: serial numbers are compared without the wrap-around.
Newer_no_wrap == IF copy[2].flags > copy[1].flags THEN 2 ELSE 1

\* The choice of env_import_redund between two good copies.
Newer ==
  LET f1 == copy[1].flags
      f2 == copy[2].flags
  IN  IF f1 = LastSerial /\ f2 = 0 THEN 2
      ELSE IF f2 = LastSerial /\ f1 = 0 THEN 1
      ELSE IF f2 > f1 THEN 2 ELSE 1

\* The copy env_import_redund would take if it could read both, 0 if none.
Selected ==
  CASE copy[1].crc_ok /\ copy[2].crc_ok -> Newer
    [] copy[1].crc_ok /\ ~copy[2].crc_ok -> 1
    [] ~copy[1].crc_ok /\ copy[2].crc_ok -> 2
    [] OTHER -> 0

\* What env_import makes of copy i.
Content(i) ==
  IF i # 0 /\ copy[i].crc_ok THEN copy[i].data ELSE Default

\* Both copies are read.
env_load ==
  /\ pc = "off"
  /\ ram' = Content(Selected)
  /\ env_valid' = IF Selected = 0 THEN env_valid ELSE Selected
  /\ env_flags' = IF Selected = 0 THEN env_flags ELSE copy[Selected].flags
  /\ pc' = "up"
  /\ UNCHANGED <<driver, copy, target, blind>>

\* Only copy i is read: it is imported if it is good, and env_flags is not
\* touched.
env_load_one(i) ==
  /\ pc = "off"
  /\ driver \in ReadFaults
  /\ ram' = Content(i)
  /\ env_valid' = i
  /\ pc' = "up"
  /\ blind' = TRUE
  /\ UNCHANGED <<driver, copy, env_flags, target>>

env_load_none ==
  /\ pc = "off"
  /\ driver \in ReadFaults
  /\ ram' = Default
  /\ pc' = "up"
  /\ blind' = TRUE
  /\ UNCHANGED <<driver, copy, env_flags, env_valid, target>>

env_set(v) ==
  /\ pc \in {"up", "saved"}
  /\ ram' = v
  /\ pc' = "up"
  /\ UNCHANGED <<driver, copy, env_flags, env_valid, target, blind>>

-----------------------------------------------------------------------------
\* Mutant: the serial number is not a byte.
env_export_int ==
  /\ pc \in {"up", "saved"}
  /\ env_flags' = env_flags + 1
  /\ target' = Other(env_valid)
  /\ pc' = "erase"
  /\ UNCHANGED <<driver, copy, ram, env_valid, blind>>

\* Mutant: the copy in use is overwritten.
env_export_in_place ==
  /\ pc \in {"up", "saved"}
  /\ env_flags' = (env_flags + 1) % (LastSerial + 1)
  /\ target' = env_valid
  /\ pc' = "erase"
  /\ UNCHANGED <<driver, copy, ram, env_valid, blind>>

\* The start of a save: env_export takes a serial number, and the driver
\* turns to the copy that is not in use.
env_export ==
  /\ pc \in {"up", "saved"}
  /\ env_flags' = (env_flags + 1) % (LastSerial + 1)
  /\ target' = Other(env_valid)
  /\ pc' = "erase"
  /\ UNCHANGED <<driver, copy, ram, env_valid, blind>>

\* The copy after each step of the save.
Erased == [copy EXCEPT ![target] = Spoilt]

Written ==
  [copy EXCEPT ![target] =
     [crc_ok |-> TRUE, data |-> ram,
      flags |-> IF driver = "sf" THEN ACTIVE_FLAG ELSE env_flags]]

Obsoleted == [copy EXCEPT ![Other(target)].flags = OBSOLETE_FLAG]

\* The erase, or the first blocks of a write that needs none (mmc).
erase ==
  /\ pc = "erase"
  /\ copy' = Erased
  /\ pc' = "write"
  /\ UNCHANGED <<driver, ram, env_flags, env_valid, target, blind>>

\* The rest of the write.  The NAND driver does not flip env_valid after
\* writing the copy in use, its second choice.
write ==
  /\ pc = "write"
  /\ copy' = Written
  /\ IF driver = "sf" THEN pc' = "obsolete" /\ UNCHANGED env_valid
     ELSE pc' = "saved" /\ env_valid' = target
  /\ UNCHANGED <<driver, ram, env_flags, target, blind>>

\* env_sf_save marks the copy that was in use so far.
obsolete ==
  /\ pc = "obsolete"
  /\ copy' = Obsoleted
  /\ env_valid' = target
  /\ pc' = "saved"
  /\ UNCHANGED <<driver, ram, env_flags, target, blind>>

\* An erase or a write reports an error, with or without having had an
\* effect.  The NAND driver then tries the other copy, once.  When env_save
\* tries the same location again, that is the next env_export.  (Left out: a
\* probe of the SPI flash that fails resets env_htab to the default.)
device_error ==
  /\ driver \in WriteFaults
  /\ \/ pc = "erase" /\ copy' \in {copy, Erased}
     \/ pc = "write" /\ copy' \in {copy, Written}
     \/ pc = "obsolete" /\ copy' \in {copy, Obsoleted}
  /\ IF driver = "nand" /\ target # env_valid
     THEN target' = env_valid /\ pc' = "erase"
     ELSE pc' = "up" /\ UNCHANGED target
  /\ UNCHANGED <<driver, ram, env_flags, env_valid, blind>>

\* Everything in RAM is lost; env_init starts again with ENV_VALID.
power_failure ==
  /\ pc # "off"
  /\ pc' = "off"
  /\ ram' = Default
  /\ env_flags' = 0
  /\ env_valid' = 1
  /\ target' = 2
  /\ blind' = FALSE
  /\ UNCHANGED <<driver, copy>>

Next ==
  \/ env_load
  \/ \E i \in Copies : env_load_one(i)
  \/ env_load_none
  \/ \E v \in Values : env_set(v)
  \/ env_export
  \/ erase
  \/ write
  \/ obsolete
  \/ device_error
  \/ power_failure

Spec == Init /\ [][Next]_vars

-----------------------------------------------------------------------------
\* What the next boot may find: the selected copy, and until then also the
\* copy the running U-Boot believes in, which its next save will spare.
May ==
  IF pc = "off" THEN {Content(Selected)}
  ELSE {Content(Selected), Content(env_valid)}

\* When saveenv says OK, a boot that can read both copies finds what was saved,
\* wherever a loss of power (or a fault of a driver in WriteFaults or
\* ReadFaults) ended the saves and boots before.
SavedIsStored == pc = "saved" => Content(Selected) = ram

Phase == IF pc \in {"erase", "write", "obsolete"} THEN "saving" ELSE pc

Store == INSTANCE EnvStore WITH phase <- Phase, may <- May

\* The reason for two copies: a loss of power or an error at any point of a
\* save leaves the old environment or the new one, and success the new one.
AtomicSave == Store!Spec
=============================================================================
