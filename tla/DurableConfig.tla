---------------------------- MODULE DurableConfig ----------------------------
(***************************************************************************)
(* What the configuration store promises to the rest of the firmware: one  *)
(* durable configuration, replaced in one indivisible step by a save and   *)
(* read back at power-up.  Nothing of sectors, records or allocation       *)
(* tables appears here; NvmStore is shown to implement this module.        *)
(***************************************************************************)
CONSTANTS Configs,    \* the values the configuration structs can hold
          Defaults,   \* what config_clear_all leaves in RAM
          Off         \* the value of running while the board is unpowered

VARIABLES stored,     \* the configuration the next power-up will load
          running,    \* the configuration structs in RAM, or Off
          phase,      \* progress of the current save_configuration call
          outcome     \* what the last completed call returned

vars == <<stored, running, phase, outcome>>

Init == /\ stored \in Configs
        /\ running = Off
        /\ phase = "idle"
        /\ outcome = "none"

\* Power-up: the structs in RAM become the stored configuration.
Boot == /\ running = Off
        /\ running' = stored
        /\ outcome' = "none"
        /\ UNCHANGED <<stored, phase>>

\* A host changes the configuration in RAM only.
Edit(c) == /\ running # Off
           /\ phase = "idle"
           /\ running' = c
           /\ UNCHANGED <<stored, phase, outcome>>

Request == /\ running # Off
           /\ phase = "idle"
           /\ phase' = "pending"
           /\ outcome' = "none"
           /\ UNCHANGED <<stored, running>>

\* The one step at which a save takes effect.
Apply == /\ phase = "pending"
         /\ stored' = running
         /\ phase' = "applied"
         /\ UNCHANGED <<running, outcome>>

Succeed == /\ phase = "applied"
           /\ phase' = "idle"
           /\ outcome' = "saved"
           /\ UNCHANGED <<stored, running>>

\* A save may only fail before it took effect.
Fail == /\ phase = "pending"
        /\ phase' = "idle"
        /\ outcome' = "failed"
        /\ UNCHANGED <<stored, running>>

\* A save that is refused outright changes nothing but its result.
Refuse == /\ running # Off
          /\ phase = "idle"
          /\ outcome' = "failed"
          /\ UNCHANGED <<stored, running, phase>>

Erase == /\ phase = "idle"
         /\ stored' = Defaults
         /\ UNCHANGED <<running, phase, outcome>>

PowerLoss == /\ running # Off
             /\ running' = Off
             /\ phase' = "idle"
             /\ outcome' = "none"
             /\ UNCHANGED stored

Next == \/ Boot \/ Request \/ Apply \/ Succeed \/ Fail \/ Refuse \/ Erase
        \/ PowerLoss
        \/ \E c \in Configs : Edit(c)

Spec == Init /\ [][Next]_vars
=============================================================================
