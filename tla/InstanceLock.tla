---------------------------- MODULE InstanceLock ----------------------------
(***************************************************************************)
(* What the single-instance lock promises to whoever starts the runtime    *)
(* (docs/RUNTIME_STATE_DESIGN.md 2.2), files and pids left out: a process  *)
(* that asks is let in when nobody is in, or is refused; it leaves when it *)
(* likes, or dies; and whoever asks and lives is answered.                 *)
(* RuntimeLock implements it.                                              *)
(***************************************************************************)
CONSTANT Pid

VARIABLE status   \* each process: "out", "asking" or "in"

Becomes(p, from, to) ==
  /\ status[p] \in from
  /\ status' = [status EXCEPT ![p] = to]

LockInit == status = [p \in Pid |-> "out"]

Ask(p)    == Becomes(p, {"out"}, "asking")
Grant(p)  == (\A q \in Pid : status[q] # "in") /\ Becomes(p, {"asking"}, "in")
Refuse(p) == Becomes(p, {"asking"}, "out")
Leave(p)  == Becomes(p, {"in"}, "out")   \* or dies there

Answer(p) == Grant(p) \/ Refuse(p)

LockNext == \E p \in Pid : Ask(p) \/ Answer(p) \/ Leave(p)

LockSafety == LockInit /\ [][LockNext]_status

LockSpec == LockSafety /\ \A p \in Pid : WF_status(Answer(p))
=============================================================================
