--------------------------- MODULE UbootEnvProofs ---------------------------
(***************************************************************************)
(* Proofs about UbootEnv, for every set of values, every largest serial    *)
(* number above 1 and every set of drivers: types, and, as long as only    *)
(* the SPI flash has faults, that a save is atomic and is found by the     *)
(* next boot.                                                              *)
(*                                                                         *)
(* For the drivers with serial numbers the invariant says that the copy in *)
(* use is the one the next boot would select, and that env_flags is its    *)
(* serial number, or the next one while a save is under way.  For the SPI  *)
(* flash the order of the steps is enough.                                 *)
(***************************************************************************)
EXTENDS UbootEnv, TLAPS

Saving == {"erase", "write", "obsolete"}

\* The serial number env_export takes after n.
Succ(n) == (n + 1) % (LastSerial + 1)

\* Erases, writes and reads of MMC and NAND do not fail; a serial number would
\* be skipped, or used twice (which run env_stale_serial shows).
FaultsOnlyInSf == WriteFaults \cup ReadFaults \subseteq {"sf"}

\* A save writes the copy that is not in use, and leaves it good.
SaveInv ==
  /\ pc \in Saving => target = Other(env_valid)
  /\ pc = "write" => ~copy[target].crc_ok
  /\ pc = "obsolete" => /\ driver = "sf" /\ copy[target].crc_ok
                        /\ copy[target].data = ram
                        /\ copy[target].flags = ACTIVE_FLAG
  /\ pc = "off" => ~blind

\* The serial numbers of MMC and NAND.
SerialInv ==
  driver # "sf" /\ Selected # 0 =>
    /\ pc # "off" => env_valid = Selected
    /\ pc \in {"up", "saved"} => env_flags = copy[Selected].flags
    /\ pc \in {"erase", "write"} => env_flags = Succ(copy[Selected].flags)

Inv == TypeOK /\ SaveInv /\ SerialInv /\ SavedIsStored

-----------------------------------------------------------------------------
(* Types.                                                                  *)

Serial == 0..LastSerial
Value == Values \cup {Default}
Copy == [crc_ok: BOOLEAN, flags: Serial, data: Value]

\* ++env_flags stays a serial number,
LEMMA SuccTyped == ASSUME NEW n \in Serial PROVE Succ(n) \in Serial
  BY EnvAssumption DEF Succ, Serial

\* and wraps after the last one.
LEMMA SuccValue ==
  ASSUME NEW n \in Serial
  PROVE  Succ(n) = IF n = LastSerial THEN 0 ELSE n + 1
  BY EnvAssumption DEF Succ, Serial

\* What a save writes into a copy is a copy.
LEMMA CopiesTyped ==
  ASSUME TypeOK
  PROVE  /\ copy[1] \in Copy /\ copy[2] \in Copy /\ Spoilt \in Copy
         /\ Erased \in [Copies -> Copy] /\ Written \in [Copies -> Copy]
         /\ Obsoleted \in [Copies -> Copy]
         /\ Selected \in Copies \cup {0} /\ \A i \in Copies : Other(i) \in Copies
  BY EnvAssumption DEF TypeOK, Copy, Serial, Value, Copies, Spoilt, Erased, Written, Obsoleted, Selected, Newer, Other,
   ACTIVE_FLAG, OBSOLETE_FLAG

\* What a copy says is a value.
LEMMA ContentTyped == ASSUME TypeOK, NEW i \in Copies \cup {0} PROVE Content(i) \in Value
  BY CopiesTyped DEF Content, Value, Copies, Copy

\* The types hold at the start.
LEMMA TypeInit == Init => TypeOK
  <1>1. 0 \in 0..LastSerial /\ {1, 2} \subseteq Copies
    BY EnvAssumption DEF Copies
  <1>2. Spoilt \in [crc_ok: BOOLEAN, flags: 0..LastSerial,
                   data: Values \cup {Default}]
    BY <1>1 DEF Spoilt
  <1> QED BY <1>1, <1>2 DEF Init, TypeOK, Labels

\* Every step keeps the types.
LEMMA TypeStep == TypeOK /\ [Next]_vars => TypeOK'
  <1> SUFFICES ASSUME TypeOK, [Next]_vars PROVE TypeOK'
    OBVIOUS
  <1> USE CopiesTyped DEF TypeOK, Copy, Serial, Value, Labels
  <1>1. CASE env_load
    BY <1>1, ContentTyped DEF env_load, Copies
  <1>2. ASSUME NEW i \in Copies, env_load_one(i) PROVE TypeOK'
    BY <1>2, ContentTyped DEF env_load_one, Copies
  <1>3. CASE env_load_none
    BY <1>3 DEF env_load_none
  <1>4. ASSUME NEW v \in Values, env_set(v) PROVE TypeOK'
    BY <1>4 DEF env_set
  <1>5. CASE env_export
    BY <1>5, SuccTyped DEF env_export, Succ
  <1>6. CASE erase
    BY <1>6 DEF erase
  <1>7. CASE write
    BY <1>7 DEF write
  <1>8. CASE obsolete
    BY <1>8 DEF obsolete
  <1>9. CASE device_error
    BY <1>9 DEF device_error
  <1>10. CASE power_failure
    <2>1. 0 \in 0..LastSerial /\ 1 \in Copies /\ 2 \in Copies
      BY EnvAssumption DEF Copies
    <2> QED BY <1>10, <2>1 DEF power_failure
  <1>11. CASE UNCHANGED vars
    BY <1>11 DEF vars
  <1> QED BY <1>1, <1>2, <1>3, <1>4, <1>5, <1>6, <1>7, <1>8, <1>9, <1>10,
             <1>11 DEF Next

\* Every variable has its type, whatever fails.
THEOREM TypeCorrect == Spec => []TypeOK
  BY TypeInit, TypeStep, PTL DEF Spec

-----------------------------------------------------------------------------
(* The choice of the next boot.                                            *)

\* Copy i is newer than the other one, by its serial number or its flag.
IsNewer(i) ==
  \/ copy[i].flags = Succ(copy[Other(i)].flags)
  \/ copy[i].flags = ACTIVE_FLAG /\ copy[Other(i)].flags = OBSOLETE_FLAG

\* What a boot selects: nothing if both copies are bad, the good one if one is
\* bad, the newer one if it is one step ahead.  And if one copy is bad then
\* what is found is the content of the other one, good or bad.
Choice ==
  TypeOK =>
    /\ Selected # 0 => Selected \in Copies /\ copy[Selected].crc_ok
    /\ Selected = 0 => \A i \in Copies : ~copy[i].crc_ok
    /\ \A i \in Copies : ~copy[Other(i)].crc_ok =>
          /\ Selected = IF copy[i].crc_ok THEN i ELSE 0
          /\ Content(Selected) = Content(i)
    /\ \A i \in Copies : copy[i].crc_ok /\ IsNewer(i) => Selected = i

\* env_check_redund, as a case distinction on the two copies,
LEMMA ChoiceHolds == Choice
  <1> SUFFICES ASSUME TypeOK
               PROVE  /\ Selected # 0 =>
                           Selected \in Copies /\ copy[Selected].crc_ok
                      /\ Selected = 0 => \A i \in Copies : ~copy[i].crc_ok
                      /\ \A i \in Copies : ~copy[Other(i)].crc_ok =>
                           /\ Selected = IF copy[i].crc_ok THEN i ELSE 0
                           /\ Content(Selected) = Content(i)
                      /\ \A i \in Copies : copy[i].crc_ok /\ IsNewer(i) =>
                           Selected = i
    BY DEF Choice
  <1>1. copy[1] \in Copy /\ copy[2] \in Copy
    BY CopiesTyped
  <1>2. /\ Selected # 0 => Selected \in Copies /\ copy[Selected].crc_ok
        /\ Selected = 0 => \A i \in Copies : ~copy[i].crc_ok
    BY <1>1 DEF Copy, Copies, Selected, Newer
  <1>3. ASSUME NEW i \in Copies, ~copy[Other(i)].crc_ok
        PROVE  /\ Selected = IF copy[i].crc_ok THEN i ELSE 0
               /\ Content(Selected) = Content(i)
    BY <1>1, <1>3 DEF Copy, Copies, Other, Selected, Content
  <1>4. ASSUME NEW i \in Copies, copy[i].crc_ok, IsNewer(i)
        PROVE  Selected = i
    <2>1. CASE ~copy[Other(i)].crc_ok
      BY <1>3, <1>4, <2>1
    <2>2. CASE copy[Other(i)].crc_ok
      <3>1. Selected = Newer
        BY <1>4, <2>2 DEF Selected, Copies, Other
      <3>2. LastSerial \in Nat /\ LastSerial > 1
        BY EnvAssumption
      <3>3. /\ copy[1].flags \in 0..LastSerial /\ copy[2].flags \in 0..LastSerial
            /\ copy[Other(i)].flags \in Serial
        BY <1>1 DEF Copy, Serial, Copies, Other
      <3>4. \/ copy[i].flags = IF copy[Other(i)].flags = LastSerial THEN 0
                               ELSE copy[Other(i)].flags + 1
            \/ copy[i].flags = 1 /\ copy[Other(i)].flags = 0
        BY <1>4, <3>3, SuccValue DEF ACTIVE_FLAG, OBSOLETE_FLAG, IsNewer
      <3>5. CASE i = 1
        BY <3>1, <3>2, <3>3, <3>4, <3>5 DEF Newer, Other
      <3>6. CASE i = 2
        BY <3>1, <3>2, <3>3, <3>4, <3>6 DEF Newer, Other
      <3> QED BY <3>5, <3>6 DEF Copies
    <2> QED BY <2>1, <2>2
  <1> QED BY <1>2, <1>3, <1>4

\* also in the next state.
LEMMA ChoiceHoldsNext == Choice'
  BY ChoiceHolds, PTL

-----------------------------------------------------------------------------
(* The steps of a save.  In each of them the copy in use keeps its content. *)

\* After an erase, complete or not: only the copy in use is left.
LEMMA EraseKeeps ==
  ASSUME Inv, TypeOK', pc = "erase", copy' = Erased, UNCHANGED env_valid
  PROVE  /\ ~copy'[target].crc_ok /\ copy'[env_valid] = copy[env_valid]
         /\ Selected' = IF copy[env_valid].crc_ok THEN env_valid ELSE 0
         /\ Content(Selected)' = Content(env_valid)
         /\ Content(env_valid)' = Content(env_valid)
  <1>1. /\ TypeOK /\ env_valid \in Copies /\ target = Other(env_valid)
        /\ Other(env_valid) \in Copies \ {env_valid}
    BY DEF Inv, SaveInv, Saving, TypeOK, Copies, Other
  <1>2. copy'[target] = Spoilt /\ copy'[env_valid] = copy[env_valid]
    BY <1>1 DEF Erased, TypeOK
  <1>3. /\ Selected' = IF copy'[env_valid].crc_ok THEN env_valid ELSE 0
        /\ Content(Selected)' = Content(env_valid)'
    BY <1>1, <1>2, ChoiceHoldsNext DEF Choice, Spoilt
  <1>4. Content(env_valid)' = Content(env_valid)
    BY <1>2 DEF Content
  <1> QED BY <1>2, <1>3, <1>4 DEF Spoilt

\* After the write: what a boot finds is the new environment, or that of the
\* copy in use, and with serial numbers the new one.
LEMMA WriteKeeps ==
  ASSUME Inv, TypeOK', pc = "write", copy' = Written, UNCHANGED ram
  PROVE  /\ copy'[target].crc_ok /\ copy'[target].data = ram
         /\ driver = "sf" => copy'[target].flags = ACTIVE_FLAG
         /\ driver # "sf" => copy'[target].flags = env_flags
         /\ copy'[env_valid] = copy[env_valid]
         /\ Selected' \in {target, env_valid}
         /\ driver # "sf" => Selected' = target
  <1>1. /\ TypeOK /\ env_valid \in Copies /\ target = Other(env_valid)
        /\ Other(env_valid) \in Copies \ {env_valid} /\ Copies = {env_valid, target}
        /\ Other(target) = env_valid /\ ~copy[target].crc_ok
    BY DEF Inv, SaveInv, Saving, TypeOK, Copies, Other
  <1>2. /\ copy'[target] = [crc_ok |-> TRUE, data |-> ram,
             flags |-> IF driver = "sf" THEN ACTIVE_FLAG ELSE env_flags]
        /\ copy'[env_valid] = copy[env_valid]
    BY <1>1 DEF Written, TypeOK
  <1>3. Selected' \in {target, env_valid}
    BY <1>1, <1>2, ChoiceHoldsNext DEF Choice
  <1>4. ASSUME driver # "sf" PROVE Selected' = target
    <2>1. CASE copy[env_valid].crc_ok
      <3>1. Selected = env_valid
        BY <1>1, <2>1, ChoiceHolds DEF Choice
      <3>2. env_flags = Succ(copy[env_valid].flags)
        BY <1>1, <1>4, <3>1 DEF Inv, SerialInv, TypeOK, Copies
      <3>3. PICK i \in Copies : i = target
        BY <1>1
      <3>4. IsNewer(i)'
        BY <1>1, <1>2, <1>4, <3>2, <3>3 DEF IsNewer
      <3>5. copy'[i].crc_ok
        BY <1>2, <3>3
      <3> QED BY <3>3, <3>4, <3>5, ChoiceHoldsNext DEF Choice
    <2>2. CASE ~copy[env_valid].crc_ok
      BY <1>1, <1>2, <2>2, ChoiceHoldsNext DEF Choice
    <2> QED BY <2>1, <2>2
  <1> QED BY <1>2, <1>3, <1>4

\* After the SPI flash has marked the old copy: the new one is found.
LEMMA ObsoleteKeeps ==
  ASSUME Inv, TypeOK', pc = "obsolete", copy' = Obsoleted
  PROVE  /\ copy'[target] = copy[target] /\ Selected' = target
         /\ copy'[env_valid].data = copy[env_valid].data
         /\ copy'[env_valid].crc_ok = copy[env_valid].crc_ok
  <1>1. /\ TypeOK /\ env_valid \in Copies /\ target = Other(env_valid)
        /\ Other(env_valid) \in Copies \ {env_valid}
        /\ Other(target) = env_valid
        /\ copy[target].crc_ok /\ copy[target].flags = ACTIVE_FLAG
    BY DEF Inv, SaveInv, Saving, TypeOK, Copies, Other
  <1>2. /\ copy'[target] = copy[target]
        /\ copy'[env_valid] = [copy[env_valid] EXCEPT !.flags = OBSOLETE_FLAG]
    BY <1>1 DEF Obsoleted, TypeOK
  <1>3. copy[env_valid] \in Copy
    BY <1>1, CopiesTyped DEF Copies
  <1>4. PICK i \in Copies : i = target
    BY <1>1
  <1>5. IsNewer(i)'
    BY <1>1, <1>2, <1>3, <1>4 DEF IsNewer, Copy
  <1>6. Selected' = target
    BY <1>1, <1>2, <1>4, <1>5, ChoiceHoldsNext DEF Choice
  <1> QED BY <1>2, <1>3, <1>6 DEF Copy

-----------------------------------------------------------------------------
(* The invariant and the refinement, action by action.                     *)

\* Nothing but the RAM changes while no save is under way.
LEMMA BootInv ==
  ASSUME FaultsOnlyInSf, Inv, TypeOK',
         \/ env_load \/ (\E i \in Copies : env_load_one(i)) \/ env_load_none
         \/ (\E v \in Values : env_set(v)) \/ env_export
  PROVE  Inv'
  <1>1. /\ pc \notin Saving /\ copy' = copy /\ driver' = driver
        /\ Selected' = Selected /\ TypeOK
        /\ pc' \in {"up", "erase"}
    BY DEF env_load, env_load_one, env_load_none, env_set, env_export, Saving,
           Selected, Newer, Inv
  <1>2. SaveInv'
    BY <1>1 DEF SaveInv, Saving, env_load, env_load_one, env_load_none, env_set,
                env_export, Inv
  <1>3. SerialInv'
    <2>1. driver # "sf" => driver \notin ReadFaults
      BY DEF FaultsOnlyInSf
    <2>2. CASE env_load
      BY <1>1, <2>2 DEF env_load, SerialInv
    <2>3. CASE env_load_none \/ \E i \in Copies : env_load_one(i)
      BY <1>1, <2>1, <2>3 DEF env_load_none, env_load_one, SerialInv
    <2>4. CASE \E v \in Values : env_set(v)
      BY <1>1, <2>4 DEF env_set, SerialInv, Inv
    <2>5. CASE env_export
      BY <1>1, <2>5 DEF env_export, SerialInv, Inv, Succ
    <2> QED BY <2>2, <2>3, <2>4, <2>5
  <1>4. SavedIsStored'
    BY <1>1 DEF SavedIsStored
  <1> QED BY <1>2, <1>3, <1>4 DEF Inv

\* The spare copy is erased.
LEMMA EraseInv ==
  ASSUME Inv, TypeOK', erase
  PROVE  Inv'
  <1>1. /\ pc = "erase" /\ copy' = Erased /\ pc' = "write"
        /\ UNCHANGED <<driver, ram, env_flags, env_valid, target, blind>>
        /\ target = Other(env_valid)
    BY DEF erase, Inv, SaveInv, Saving
  <1>2. /\ ~copy'[target].crc_ok /\ copy'[env_valid] = copy[env_valid]
        /\ Selected' = IF copy[env_valid].crc_ok THEN env_valid ELSE 0
    BY <1>1, EraseKeeps
  <1>3. SaveInv' /\ SavedIsStored'
    BY <1>1, <1>2 DEF SaveInv, Saving, SavedIsStored, Inv, Other
  <1>4. SerialInv'
    <2> SUFFICES ASSUME driver # "sf", Selected' # 0
                 PROVE  env_flags = Succ(copy[env_valid].flags)
      BY <1>1, <1>2 DEF SerialInv
    <2>1. copy[env_valid].crc_ok /\ env_valid \in Copies /\ TypeOK
      BY <1>2 DEF Inv, TypeOK
    <2>2. Selected # 0
      BY <2>1, ChoiceHolds DEF Choice
    <2> QED BY <1>1, <2>2 DEF Inv, SerialInv
  <1> QED BY <1>3, <1>4 DEF Inv

\* The spare copy is written.
LEMMA WriteInv ==
  ASSUME Inv, TypeOK', write
  PROVE  Inv'
  <1>1. /\ pc = "write" /\ copy' = Written
        /\ pc' = IF driver = "sf" THEN "obsolete" ELSE "saved"
        /\ env_valid' = IF driver = "sf" THEN env_valid ELSE target
        /\ UNCHANGED <<driver, ram, env_flags, target, blind>>
        /\ target = Other(env_valid)
    BY DEF write, Inv, SaveInv, Saving
  <1>2. /\ copy'[target].crc_ok /\ copy'[target].data = ram
        /\ driver = "sf" => copy'[target].flags = ACTIVE_FLAG
        /\ driver # "sf" => copy'[target].flags = env_flags
        /\ driver # "sf" => Selected' = target
    BY <1>1, WriteKeeps
  <1>3. SaveInv'
    BY <1>1, <1>2 DEF SaveInv, Saving, Other
  <1>4. SerialInv'
    BY <1>1, <1>2 DEF SerialInv
  <1>5. SavedIsStored'
    <2>1. target \in Copies
      BY DEF Inv, TypeOK
    <2> QED BY <1>1, <1>2, <2>1 DEF SavedIsStored, Content, Copies
  <1> QED BY <1>3, <1>4, <1>5 DEF Inv

\* The flash driver marks the old copy obsolete.
LEMMA ObsoleteInv ==
  ASSUME Inv, TypeOK', obsolete
  PROVE  Inv'
  <1>1. /\ pc = "obsolete" /\ driver = "sf" /\ copy' = Obsoleted
        /\ pc' = "saved" /\ env_valid' = target
        /\ UNCHANGED <<driver, ram, env_flags, target, blind>>
        /\ copy[target].crc_ok /\ copy[target].data = ram
        /\ target \in Copies
    BY DEF obsolete, Inv, SaveInv, Saving, TypeOK
  <1>2. copy'[target] = copy[target] /\ Selected' = target
    BY <1>1, ObsoleteKeeps
  <1>3. SaveInv' /\ SerialInv'
    BY <1>1 DEF SaveInv, Saving, SerialInv
  <1>4. SavedIsStored'
    BY <1>1, <1>2 DEF SavedIsStored, Content, Copies
  <1> QED BY <1>3, <1>4 DEF Inv

\* An error of the SPI flash ends the save; power may fail at any time.
LEMMA FaultInv ==
  ASSUME FaultsOnlyInSf, Inv, TypeOK', device_error \/ power_failure
  PROVE  Inv'
  <1>1. CASE device_error
    <2>1. driver' = "sf" /\ pc' = "up"
      BY <1>1 DEF device_error, FaultsOnlyInSf
    <2> QED BY <2>1 DEF Inv, SaveInv, Saving, SerialInv, SavedIsStored
  <1>2. CASE power_failure
    BY <1>2 DEF power_failure, Inv, SaveInv, Saving, SerialInv, SavedIsStored
  <1> QED BY <1>1, <1>2

\* The invariant holds at the start.
LEMMA InitInv == Init => Inv
  <1>1. Init => TypeOK
    BY TypeInit
  <1>2. Init => SaveInv /\ SerialInv /\ SavedIsStored
    BY DEF Init, SaveInv, Saving, SerialInv, Selected, Spoilt, SavedIsStored, Copies
  <1> QED BY <1>1, <1>2 DEF Inv

\* Every step keeps the invariant, torn writes and power losses too.
LEMMA NextInv ==
  ASSUME FaultsOnlyInSf
  PROVE  Inv /\ [Next]_vars => Inv'
  <1> SUFFICES ASSUME Inv, [Next]_vars PROVE Inv'
    OBVIOUS
  <1>1. TypeOK'
    BY TypeStep DEF Inv
  <1>2. CASE UNCHANGED vars
    BY <1>1, <1>2 DEF vars, Inv, SaveInv, SerialInv, SavedIsStored, Selected, Newer,
                Content
  <1> QED BY <1>1, <1>2, BootInv, EraseInv, WriteInv, ObsoleteInv, FaultInv
          DEF Next

\* When saveenv has said OK the next boot finds what was saved, however earlier
\* saves and boots ended: for every number of serial numbers and of values.
THEOREM SavedFound ==
  ASSUME FaultsOnlyInSf
  PROVE  Spec => []SavedIsStored
  <1>1. Inv /\ [Next]_vars => Inv'
    BY NextInv
  <1>2. Inv => SavedIsStored
    BY DEF Inv
  <1> QED BY InitInv, <1>1, <1>2, PTL DEF Spec

-----------------------------------------------------------------------------
(* The refinement of EnvStore.                                             *)

\* The store holds one environment at the start.
LEMMA RefinesInit == Init => Store!Init
  BY DEF Init, Store!Init, Phase, May, Content, Selected, Spoilt, Copies

\* A boot, an edit and the start of a save.
LEMMA RefinesBoot ==
  ASSUME Inv, TypeOK'
  PROVE  /\ env_load => Store!Boot
         /\ (\E i \in Copies : env_load_one(i)) \/ env_load_none => Store!BlindBoot
         /\ (\E v \in Values : env_set(v)) => Store!Edit
         /\ env_export => Store!Start
  <1>1. TypeOK
    BY DEF Inv
  <1>2. ASSUME copy' = copy
        PROVE  Selected' = Selected /\ \A i \in Copies \cup {0} : Content(i)' = Content(i)
    BY <1>2 DEF Selected, Newer, Content
  <1>3. Selected \in Copies \cup {0} /\ env_valid \in Copies /\ env_valid' \in Copies
    BY <1>1, CopiesTyped DEF TypeOK
  <1>4. May \subseteq Value
    BY <1>1, <1>3, ContentTyped DEF May
  <1>5. ASSUME copy' = copy, pc' # "off"
        PROVE  May' = {Content(Selected), Content(env_valid')}
    BY <1>2, <1>3, <1>5 DEF May
  <1>6. ASSUME env_load PROVE Store!Boot
    <2>1. /\ May = {Content(Selected)} /\ ram' = Content(Selected)
          /\ Content(env_valid') = Content(Selected)
      BY <1>1, <1>3, <1>6, ChoiceHolds DEF env_load, May, Content, Choice
    <2>2. May' = {ram'}
      BY <1>5, <1>6, <2>1 DEF env_load
    <2> QED BY <1>6, <2>1, <2>2 DEF env_load, Store!Boot, Phase, Inv, SaveInv
  <1>7. ASSUME (\E i \in Copies : env_load_one(i)) \/ env_load_none
        PROVE  Store!BlindBoot
    <2>1. /\ pc = "off" /\ pc' = "up" /\ copy' = copy /\ blind' = TRUE
          /\ ram' \in Value
      BY <1>1, <1>7, ContentTyped DEF env_load_one, env_load_none, Value
    <2>2. May = {Content(Selected)} /\ May' = {Content(Selected), Content(env_valid')}
      BY <1>5, <2>1 DEF May
    <2>3. May \subseteq May' /\ May' \subseteq Value
      BY <1>1, <1>3, <2>2, ContentTyped
    <2> QED BY <2>1, <2>3 DEF Store!BlindBoot, Phase, Value
  <1>8. ASSUME (\E v \in Values : env_set(v)) \/ env_export
        PROVE  May' = May
    <2>1. copy' = copy /\ pc # "off" /\ pc' # "off" /\ env_valid' = env_valid
      BY <1>8 DEF env_set, env_export
    <2> QED BY <1>5, <2>1 DEF May
  <1>9. ASSUME \E v \in Values : env_set(v) PROVE Store!Edit
    BY <1>8, <1>9 DEF env_set, Store!Edit, Phase
  <1>10. ASSUME env_export PROVE Store!Start
    BY <1>8, <1>10 DEF env_export, Store!Start, Phase
  <1> QED BY <1>6, <1>7, <1>9, <1>10

\* A step of a save, with or without an error, stores the old or the new.
LEMMA RefinesSave ==
  ASSUME FaultsOnlyInSf, Inv, Inv',
         erase \/ write \/ obsolete \/ device_error
  PROVE  Store!Save
  <1>1. /\ TypeOK /\ TypeOK' /\ pc \in Saving /\ target = Other(env_valid)
        /\ pc' \in {"write", "obsolete", "up", "saved"}
        /\ UNCHANGED <<driver, ram, target, blind>>
        /\ driver \in WriteFaults => driver = "sf"
    BY DEF Inv, SaveInv, Saving, erase, write, obsolete, device_error, FaultsOnlyInSf
  <1>2. May = {Content(Selected), Content(env_valid)}
    BY <1>1 DEF May, Saving
  <1>3. May' = {Content(Selected)', Content(env_valid)'}
    BY <1>1 DEF May
  <1>4. env_valid \in Copies /\ target \in Copies
    BY <1>1 DEF TypeOK
  <1>5. ASSUME copy' = Erased, pc = "erase", env_valid' = env_valid
        PROVE  May' \subseteq May \cup {ram}
    BY <1>1, <1>2, <1>3, <1>5, EraseKeeps
  <1>6. ASSUME copy' = Written, pc = "write", env_valid' \in {env_valid, target}
        PROVE  May' \subseteq May \cup {ram}
    <2>1. /\ copy'[target].crc_ok /\ copy'[target].data = ram
          /\ copy'[env_valid] = copy[env_valid]
          /\ Selected' \in {target, env_valid}
      BY <1>1, <1>6, WriteKeeps
    <2> QED BY <1>2, <1>3, <1>4, <1>6, <2>1 DEF Content, Copies
  <1>7. ASSUME copy' = Obsoleted, pc = "obsolete", env_valid' \in {env_valid, target}
        PROVE  May' \subseteq May \cup {ram}
    <2>1. /\ copy'[target] = copy[target] /\ Selected' = target
          /\ copy'[env_valid].data = copy[env_valid].data
          /\ copy'[env_valid].crc_ok = copy[env_valid].crc_ok
          /\ copy[target].crc_ok /\ copy[target].data = ram
      BY <1>1, <1>7, ObsoleteKeeps DEF Inv, SaveInv
    <2> QED BY <1>2, <1>3, <1>4, <1>7, <2>1 DEF Content, Copies
  <1>8. May' \subseteq May \cup {ram}
    <2>1. CASE copy' = copy /\ env_valid' = env_valid
      BY <1>2, <1>3, <2>1 DEF Content, Selected, Newer
    <2> QED BY <1>1, <1>5, <1>6, <1>7, <2>1 DEF erase, write, obsolete, device_error
  <1>9. pc' = "saved" => May' = {ram}
    <2>1. ASSUME pc' = "saved" PROVE Content(Selected)' = ram /\ Content(env_valid)' = ram
      <3>1. Content(Selected)' = ram
        BY <1>1, <2>1 DEF Inv, SavedIsStored
      <3>2. CASE write
        <4>1. driver # "sf" /\ pc = "write" /\ copy' = Written /\ env_valid' = target
          BY <2>1, <3>2 DEF write
        <4>2. copy'[target].crc_ok /\ copy'[target].data = ram
          BY <1>1, <4>1, WriteKeeps
        <4> QED BY <1>4, <3>1, <4>1, <4>2 DEF Content, Copies
      <3>3. CASE obsolete
        <4>1. pc = "obsolete" /\ copy' = Obsoleted /\ env_valid' = target
          BY <3>3 DEF obsolete
        <4>2. Selected' = target
          BY <1>1, <4>1, ObsoleteKeeps
        <4> QED BY <3>1, <4>1, <4>2 DEF Content
      <3> QED BY <1>1, <2>1, <3>2, <3>3 DEF erase, device_error
    <2> QED BY <1>3, <2>1
  <1> QED BY <1>1, <1>3, <1>8, <1>9 DEF Store!Save, Phase, Saving

\* Every step is one of the store or leaves it alone.
LEMMA RefinesNext ==
  ASSUME FaultsOnlyInSf
  PROVE  Inv /\ Inv' /\ [Next]_vars => [Store!Next]_(Store!vars)
  <1> SUFFICES ASSUME Inv, Inv', [Next]_vars
               PROVE  Store!Next \/ UNCHANGED Store!vars
    OBVIOUS
  <1>1. TypeOK'
    BY DEF Inv
  <1>2. CASE power_failure
    <2>1. May # {} /\ Content(Selected) \in May
      BY DEF May
    <2>2. May' = {Content(Selected)}
      BY <1>2 DEF power_failure, May, Content, Selected, Newer
    <2>3. Store!PowerFails
      BY <1>2, <2>1, <2>2 DEF power_failure, Store!PowerFails, Phase
    <2> QED BY <2>3 DEF Store!Next
  <1>3. CASE UNCHANGED vars
    BY <1>3 DEF vars, Store!vars, Phase, May, Content, Selected, Newer
  <1> QED BY <1>1, <1>2, <1>3, RefinesBoot, RefinesSave DEF Next, Store!Next

\* The redundant environment implements EnvStore: a loss of power or an error at
\* any point of a save leaves the old environment or the new one.
THEOREM SaveIsAtomic ==
  ASSUME FaultsOnlyInSf
  PROVE  Spec => AtomicSave
  <1>1. Inv /\ [Next]_vars => Inv'
    BY NextInv
  <1>2. Inv /\ Inv' /\ [Next]_vars => [Store!Next]_(Store!vars)
    BY RefinesNext
  <1> QED BY InitInv, RefinesInit, <1>1, <1>2, PTL DEF Spec, AtomicSave, Store!Spec

-----------------------------------------------------------------------------
(* Errors of the medium: what of the above is left when the erases and     *)
(* writes of MMC fail too.                                                 *)

\* There is a good copy, and a running U-Boot knows one.
Kept == IF pc = "off" THEN Selected # 0 ELSE copy[env_valid].crc_ok

\* A save spares the copy in use, and is over when it has written the other.
SpareInv ==
  /\ pc \in Saving => target = Other(env_valid)
  /\ pc = "obsolete" => copy[target].crc_ok
  /\ pc = "saved" => copy[env_valid].crc_ok

\* Without errors of the NAND driver, which would turn to the copy in use.
LEMMA SpareStep ==
  ASSUME ReadFaults = {}, "nand" \notin WriteFaults, TypeOK, SpareInv,
         [Next]_vars
  PROVE  SpareInv' /\ (Kept => Kept')
  <1>1. /\ copy \in [Copies -> Copy] /\ Copies = {1, 2} /\ 1 # 2
        /\ env_valid \in Copies /\ target \in Copies
        /\ Other(1) = 2 /\ Other(2) = 1
    BY DEF TypeOK, Copy, Serial, Value, Copies, Other
  <1>2. /\ Selected \in {0, 1, 2}
        /\ Selected # 0 <=> copy[1].crc_ok \/ copy[2].crc_ok
        /\ Selected # 0 => copy[Selected].crc_ok
    BY DEF Selected, Newer
  <1>3. Selected' # 0 <=> copy'[1].crc_ok \/ copy'[2].crc_ok
    BY DEF Selected, Newer
  <1>4. Spoilt.crc_ok = FALSE
    BY DEF Spoilt
  <1>5. CASE env_load
    <2>1. pc = "off" /\ pc' = "up" /\ copy' = copy
          /\ env_valid' = IF Selected = 0 THEN env_valid ELSE Selected
      BY <1>5 DEF env_load
    <2> QED BY <1>2, <2>1 DEF SpareInv, Saving, Kept
  <1>6. CASE (\E i \in Copies : env_load_one(i)) \/ env_load_none
    BY <1>6 DEF env_load_one, env_load_none
  <1>7. CASE \E v \in Values : env_set(v)
    BY <1>7 DEF env_set, SpareInv, Saving, Kept
  <1>8. CASE env_export
    BY <1>8 DEF env_export, SpareInv, Saving, Kept, Other
  <1>9. CASE erase
    <2>1. copy'[env_valid] = copy[env_valid] /\ target' = target
          /\ env_valid' = env_valid /\ pc = "erase" /\ pc' = "write"
          /\ target = Other(env_valid)
      BY <1>1, <1>9 DEF erase, Erased, SpareInv, Saving
    <2> QED BY <2>1 DEF SpareInv, Saving, Kept, Other
  <1>10. CASE write
    <2>1. /\ copy'[env_valid] = copy[env_valid] /\ copy'[target].crc_ok
          /\ target' = target /\ target = Other(env_valid) /\ pc = "write"
          /\ \/ pc' = "obsolete" /\ env_valid' = env_valid
             \/ pc' = "saved" /\ env_valid' = target
      BY <1>1, <1>10 DEF write, Written, SpareInv, Saving
    <2> QED BY <2>1 DEF SpareInv, Saving, Kept, Other
  <1>11. CASE obsolete
    <2>1. /\ copy'[target].crc_ok
          /\ target' = target /\ pc = "obsolete" /\ pc' = "saved"
          /\ env_valid' = target
      BY <1>1, <1>11 DEF obsolete, Obsoleted, SpareInv, Saving
    <2> QED BY <2>1 DEF SpareInv, Saving, Kept
  <1>12. CASE device_error
    <2>1. /\ pc \in Saving /\ pc' = "up" /\ env_valid' = env_valid
          /\ copy' \in {copy, Erased, Written, Obsoleted}
      BY <1>12 DEF device_error, Saving
    <2>2. copy'[env_valid].crc_ok = copy[env_valid].crc_ok
      <3>1. target = Other(env_valid)
        BY <2>1 DEF SpareInv
      <3>2. Obsoleted[env_valid].crc_ok = copy[env_valid].crc_ok
        BY <1>1, <3>1 DEF Obsoleted, Copy
      <3>3. /\ Erased[env_valid] = copy[env_valid]
            /\ Written[env_valid] = copy[env_valid]
        BY <1>1, <3>1 DEF Erased, Written
      <3> QED BY <2>1, <3>2, <3>3
    <2> QED BY <2>1, <2>2 DEF SpareInv, Saving, Kept
  <1>13. CASE power_failure
    <2>1. pc # "off" /\ pc' = "off" /\ copy' = copy
      BY <1>13 DEF power_failure
    <2>2. Kept => Kept'
      BY <1>1, <1>3, <2>1 DEF Kept
    <2> QED BY <2>1, <2>2 DEF SpareInv, Saving
  <1>14. CASE UNCHANGED vars
    BY <1>14 DEF vars, SpareInv, Kept, Selected, Newer
  <1> QED BY <1>5, <1>6, <1>7, <1>8, <1>9, <1>10, <1>11, <1>12, <1>13, <1>14
          DEF Next

\* Once a save has succeeded, every later boot finds a good copy and never
\* falls back to the compiled-in environment, whatever power failures and
\* whatever errors of erases and writes of the SPI flash and of MMC come in
\* between.  Both hypotheses are needed: after a failed read the copy in use
\* may be the bad one, and the NAND driver erases the copy in use after an
\* error of the other one (env/nand.c).
THEOREM GoodCopySurvives ==
  ASSUME ReadFaults = {}, "nand" \notin WriteFaults
  PROVE  Spec => [](pc = "saved" => [](Selected # 0))
  <1>1. Init => SpareInv
    BY DEF Init, SpareInv, Saving
  <1>2. TypeOK /\ SpareInv /\ [Next]_vars => SpareInv' /\ (Kept => Kept')
    BY SpareStep
  <1>3. TypeOK /\ SpareInv /\ pc = "saved" => Kept
    BY DEF SpareInv, Kept
  <1>4. TypeOK /\ Kept => Selected # 0
    <2>1. TypeOK => env_valid \in {1, 2}
      BY DEF TypeOK, Copies
    <2> QED BY <2>1 DEF Kept, Selected, Newer
  <1> QED BY <1>1, <1>2, <1>3, <1>4, TypeCorrect, PTL DEF Spec
=============================================================================
