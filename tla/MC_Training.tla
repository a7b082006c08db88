----------------------------- MODULE MC_Training -----------------------------
(***************************************************************************)
(* One TLC instance for parts of the training that share no state two of   *)
(* the models keep: the controller's cycles, the tuning of a configuration *)
(* over generations, the loads of training data, the selection stage with  *)
(* its meeting, and the review meetings with the track record of the       *)
(* agents.  `part` is the one that runs in a behaviour; the others stay in *)
(* one of their initial states, in which no fair action is enabled.        *)
(***************************************************************************)
EXTENDS MC_TrainingCycle, MC_Tuning, MC_TrainingData, MC_Meeting, MC_Review

VARIABLE part

training == <<part, cycleVars, tuningVars, dataVars, meetingVars, reviewVars>>

AtRest == Under(CHOOSE p \in Packets : TRUE, "unknown")

TrainingInit ==
  /\ part \in {"cycle", "tuning", "loads", "meeting", "review"}
  /\ CycleInit
  /\ part = "cycle" \/ /\ driver = "body" /\ ~autoApply
                       /\ active = Shipped(CHOOSE m \in Models : TRUE)
  /\ TuningInit
  /\ part = "tuning" \/ ~autoApplied
  /\ DataInit
  /\ part = "loads" \/ bars = {}
  /\ MeetingInit
  /\ part = "meeting" \/ (asked = "unknown" /\ packet = AtRest)
  /\ ReviewInit

Only(p) ==
  /\ part = p /\ part' = p
  /\ p # "cycle"  => UNCHANGED cycleVars
  /\ p # "tuning" => UNCHANGED tuningVars
  /\ p # "loads"  => UNCHANGED dataVars
  /\ p # "meeting" => UNCHANGED meetingVars
  /\ p # "review" => UNCHANGED reviewVars

\* (bound) The body's rounds are one fewer than the attempts of run_continuous.
BodyRounds == driver = "body" => attempts' < MaxAttempts

TrainingNext ==
  \/ Only("cycle")  /\ CycleNext /\ BodyRounds
  \/ Only("tuning") /\ TuningNext
  \/ Only("loads")  /\ DataNext
  \/ Only("meeting") /\ MeetingNext
  \/ Only("review") /\ ReviewNext

TrainingSpec == TrainingInit /\ [][TrainingNext]_training /\ WF_cycleVars(CycleStep)
=============================================================================
