---------------------------- MODULE MC_Commander ----------------------------
(***************************************************************************)
(* One TLC instance for two models that share no state: the runtime around *)
(* its training body, and the experiments a training run may be.  `part`   *)
(* is the one that runs in a behaviour; the other stays in an initial      *)
(* state.                                                                  *)
(***************************************************************************)
EXTENDS Commander, MC_Experiment

VARIABLE part

commanding == <<part, vars, experimentVars>>

MCInit ==
  /\ part \in {"runtime", "experiment"}
  /\ CommanderInit /\ ExperimentInit
  /\ part = "experiment" \/ scheme = CHOOSE s \in Schemes : TRUE

Only(p) ==
  /\ part = p /\ part' = p
  /\ p # "runtime"    => UNCHANGED vars
  /\ p # "experiment" => UNCHANGED experimentVars

\* (bounds) Stops are nested around the first round only, without a restart or a write that
\* raises; a round after the first neither overlaps a reload nor follows either.  Once a write
\* has raised or a process has been restarted, and not both, a reload overlaps no request and
\* no stop.
OneAtATime ==
  /\ stops' = 2 => restarts' + raises' = 0 /\ tally'[Self].total < 2
  /\ tally'[Self].total = 2 => restarts' + raises' = 0 /\ reload' = "out"
  /\ restarts' + raises' = 1 =>
       reload' = "out" \/ (stops' = 0 /\ op' = [u \in User |-> "out"])
  /\ restarts' + raises' < 2

MCNext ==
  \/ Only("runtime") /\ CommanderNext /\ OneAtATime
  \/ Only("experiment") /\ ExperimentNext

MCSpec == MCInit /\ [][MCNext]_commanding
=============================================================================
