---------------------------- MODULE MC_Services ----------------------------
(***************************************************************************)
(* One TLC instance for the services of a runtime that share no state: the *)
(* instance lock, the training body, the file bridge and the cron service. *)
(* `part` is the one that runs in a behaviour; the others stay in their    *)
(* initial states, in which none of their fair actions is enabled, so the  *)
(* fairness of each says of a behaviour what its own specification says.   *)
(***************************************************************************)
EXTENDS RuntimeLock, TrainingBody, Bridge, Cron

VARIABLE part

services == <<part, vars, bodyVars, bridgeVars, cronVars>>

ServicesInit ==
  /\ part \in {"lock", "body", "bridge", "cron"}
  /\ Init /\ BodyInit /\ BridgeInit /\ CronInit

ServicesNext ==
  \/ part = "lock"   /\ Next       /\ UNCHANGED <<part, bodyVars, bridgeVars, cronVars>>
  \/ part = "body"   /\ BodyNext   /\ UNCHANGED <<part, vars, bridgeVars, cronVars>>
  \/ part = "bridge" /\ BridgeNext /\ UNCHANGED <<part, vars, bodyVars, cronVars>>
  \/ part = "cron"   /\ CronNext   /\ UNCHANGED <<part, vars, bodyVars, bridgeVars>>

ServicesSpec ==
  /\ ServicesInit /\ [][ServicesNext]_services
  /\ LockFairness /\ BodyFairness /\ BridgeFairness /\ CronFairness

\* The types of the four.
ServicesTypeOK == TypeOK /\ BodyTypeOK /\ BridgeTypeOK /\ CronTypeOK
=============================================================================
