------------------------------ MODULE EnvStore ------------------------------
(***************************************************************************)
(* What saveenv promises, whatever the medium: a loss of power leaves an   *)
(* environment that was there before the save or the one being saved, and  *)
(* a save that reports success leaves no other.                            *)
(***************************************************************************)
CONSTANTS Values,     \* contents of the environment
          Default     \* the compiled-in environment

VARIABLES phase,    \* "off", "up", "saving", "saved"
          ram,      \* the environment in use
          may,      \* the environments the next boot may find
          blind     \* a part of the medium could not be read at this boot

vars == <<phase, ram, may, blind>>

Init ==
  /\ phase = "off" /\ ram = Default /\ blind = FALSE
  /\ \E v \in Values \cup {Default} : may = {v}

\* A boot finds a stored environment, and later boots find the same one.
Boot ==
  /\ phase = "off" /\ phase' = "up"
  /\ blind' = FALSE
  /\ ram' \in may /\ may' = {ram'}

\* If it cannot read all of the medium it may use anything, and a save may
\* then spare the wrong part, until one succeeds.
BlindBoot ==
  /\ phase = "off" /\ phase' = "up"
  /\ blind' = TRUE
  /\ ram' \in Values \cup {Default}
  /\ may \subseteq may' /\ may' \subseteq Values \cup {Default}

Edit ==
  /\ phase \in {"up", "saved"} /\ phase' = "up"
  /\ ram' \in Values
  /\ UNCHANGED <<may, blind>>

Start ==
  /\ phase \in {"up", "saved"} /\ phase' = "saving"
  /\ UNCHANGED <<ram, may, blind>>

\* A step of a save, which may also end it.
Save ==
  /\ phase = "saving" /\ phase' \in {"saving", "up", "saved"}
  /\ may' # {} /\ may' \subseteq may \cup {ram}
  /\ phase' = "saved" => may' = {ram}
  /\ UNCHANGED <<ram, blind>>

PowerFails ==
  /\ phase # "off" /\ phase' = "off"
  /\ ram' = Default /\ blind' = FALSE
  /\ may' # {} /\ may' \subseteq may

Next == Boot \/ BlindBoot \/ Edit \/ Start \/ Save \/ PowerFails

Spec == Init /\ [][Next]_vars
=============================================================================
