--------------------------- MODULE CalibrationContract ---------------------------
(* What a calibration session promises: until it commits, the model the user    *)
(* will be left with is the user's business alone; a commit replaces the whole  *)
(* model, in RAM and in flash, in one step; a session that ends otherwise       *)
(* leaves no trace in the model.  What it does not promise: a SAVE while the    *)
(* session tries values out may store some of them.                             *)
EXTENDS Integers

CONSTANTS Groups, Model, MaxSessions

VARIABLES
  phase,   \* of the current session
  id,      \* of the current session
  trying,  \* an experiment has values of its own in force
  model,   \* the configuration once no experiment runs: who set each group
  stored   \* the configuration a power-up would load

vars == <<phase, id, trying, model, stored>>

User == 0
Trial == -1

Init ==
  /\ phase = "none" /\ id = 0 /\ trying = FALSE
  /\ model = [g \in Groups |-> User] /\ stored = model

(* A session begins only when the experiments of the last one are over. *)
Begin ==
  /\ phase # "running" /\ ~trying /\ id < MaxSessions
  /\ phase' = "running" /\ id' = id + 1
  /\ UNCHANGED <<trying, model, stored>>

Try ==
  /\ phase = "running" /\ ~trying /\ trying' = TRUE
  /\ UNCHANGED <<phase, id, model, stored>>

(* An experiment ends, perhaps after its session has. *)
Rest ==
  /\ trying /\ trying' = FALSE
  /\ UNCHANGED <<phase, id, model, stored>>

(* A failure ends the experiment with the session; an abort leaves it to end. *)
Discard ==
  /\ phase = "running" /\ phase' = "discarded"
  /\ trying' \in BOOLEAN /\ (trying' => trying)
  /\ UNCHANGED <<id, model, stored>>

Commit ==
  /\ phase = "running" /\ ~trying /\ phase' = "committed"
  /\ model' = [g \in Groups |-> IF g \in Model THEN id ELSE model[g]]
  /\ stored' = model'
  /\ UNCHANGED <<id, trying>>

(* The user sets a group, by hand or by a calibration outside any session. *)
Set ==
  /\ \E g \in Groups : model' = [model EXCEPT ![g] = User]
  /\ UNCHANGED <<phase, id, trying, stored>>

(* A configuration of which each group is the user's or an experiment's.        *)
Mixed(config) ==
  /\ DOMAIN config = Groups
  /\ \A g \in Groups : config[g] \in {model[g], User, Trial}

(* While an experiment runs, what is saved may be its own value of a group, or  *)
(* one the user wrote over that and that will be undone.                        *)
Save ==
  /\ stored' = model \/ (trying /\ Mixed(stored'))
  /\ UNCHANGED <<phase, id, trying, model>>

Next == Begin \/ Try \/ Rest \/ Discard \/ Commit \/ Set \/ Save

Spec == Init /\ [][Next]_vars
====================================================================================
