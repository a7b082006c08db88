---------------------------- MODULE RuntimeLock ----------------------------
(***************************************************************************)
(* The single-instance lock of the Commander runtime: the file             *)
(* runtime/state/commander.lock that start() creates and stop() removes    *)
(* (app/commander_support/runtime_state.py).                               *)
(*                                                                         *)
(* A process is named by its pid.  Each file operation (exclusive create,  *)
(* write of the payload, read, liveness probe of the pid read, unlink) is  *)
(* a step of its own, because the kernel interleaves them with those of    *)
(* the other processes.  A crash may fall between any two of them; the pid *)
(* of a crashed process may be given to a new one.                         *)
(***************************************************************************)
EXTENDS Naturals

CONSTANTS
  Pid,         \* the pids
  MaxCrash,     \* bound: crashes in a behaviour
  SerialStart   \* TRUE: the operator starts one process at a time

ASSUME PidNumbered == 0 \notin Pid   \* int(payload.get("pid") or 0): 0 is no pid
ASSUME MaxCrashNat == MaxCrash \in Nat
ASSUME SerialStartBool == SerialStart \in BOOLEAN

VARIABLES
  lockFile,   \* the file at the lock's path
  pc,         \* where each process is
  seen,       \* the pid in the payload each process last read
  crashes     \* crashes so far

vars == <<lockFile, pc, seen, crashes>>

NoPid == 0

\* `by` made the file with its O_EXCL open; `payload` is the pid written in it, none
\* until the maker has written.
File   == [by : Pid \cup {NoPid}, payload : Pid \cup {NoPid}]
NoFile == [by |-> NoPid, payload |-> NoPid]

Acquiring == {"open", "read", "probe", "clear", "write"}
Releasing == {"reread", "unlink"}
\* _runtime_lock_acquired is set
Holding   == {"starting", "running"} \cup Releasing
PC        == {"down", "idle"} \cup Acquiring \cup Holding

Alive(q) == q \in Pid /\ pc[q] # "down"

Goto(p, l) == pc' = [pc EXCEPT ![p] = l]

---------------------------------------------------------------------------
Init ==
  /\ lockFile = NoFile
  /\ pc = [p \in Pid |-> "idle"]
  /\ seen = [p \in Pid |-> NoPid]
  /\ crashes = 0

\* start_runtime_flow, up to the call of acquire_runtime_lock
Start(p) ==
  /\ pc[p] = "idle"
  /\ SerialStart => \A q \in Pid : pc[q] \notin Acquiring
  /\ Goto(p, "open")
  /\ UNCHANGED <<lockFile, seen, crashes>>

\* open(O_WRONLY | O_CREAT | O_EXCL) succeeds ...
Create(p) ==
  /\ pc[p] = "open"
  /\ lockFile = NoFile
  /\ lockFile' = [by |-> p, payload |-> NoPid]
  /\ Goto(p, "write")
  /\ UNCHANGED <<seen, crashes>>

\* ... or raises FileExistsError
CreateFails(p) ==
  /\ pc[p] = "open"
  /\ lockFile # NoFile
  /\ Goto(p, "read")
  /\ UNCHANGED <<lockFile, seen, crashes>>

\* read_runtime_lock_payload gives {} for a missing, empty or torn file, and an empty
\* payload is refused at once: "lock exists but is unreadable".
ReadLock(p) ==
  /\ pc[p] = "read"
  /\ seen' = [seen EXCEPT ![p] = lockFile.payload]
  /\ Goto(p, IF lockFile.payload = NoPid THEN "idle" ELSE "probe")
  /\ UNCHANGED <<lockFile, crashes>>

\* (mutant) any lock with a pid taken for stale
ProbeNobody(p) ==
  /\ pc[p] = "probe"
  /\ Goto(p, "clear")
  /\ UNCHANGED <<lockFile, seen, crashes>>

\* is_pid_alive: refused ("already active"), or the lock is stale
Probe(p) ==
  /\ pc[p] = "probe"
  /\ Goto(p, IF Alive(seen[p]) THEN "idle" ELSE "clear")
  /\ UNCHANGED <<lockFile, seen, crashes>>

\* (mutant) the retry without the unlink
RetryOnly(p) ==
  /\ pc[p] = "clear"
  /\ Goto(p, "open")
  /\ UNCHANGED <<lockFile, seen, crashes>>

\* Whatever file is at the path now is unlinked; FileNotFoundError is as good.
ClearStale(p) ==
  /\ pc[p] = "clear"
  /\ lockFile' = NoFile
  /\ Goto(p, "open")
  /\ UNCHANGED <<seen, crashes>>

\* unlink raises another OSError: "Failed to clear stale runtime lock"
ClearFails(p) ==
  /\ pc[p] = "clear"
  /\ lockFile # NoFile
  /\ Goto(p, "idle")
  /\ UNCHANGED <<lockFile, seen, crashes>>

\* The descriptor still names the file this process created, at the path or not.
WriteLock(p) ==
  /\ pc[p] = "write"
  /\ lockFile' = IF lockFile.by = p THEN [lockFile EXCEPT !.payload = p] ELSE lockFile
  /\ Goto(p, "starting")
  /\ UNCHANGED <<seen, crashes>>

\* The write raises: the path is unlinked, whoever's file is there.
WriteFails(p) ==
  /\ pc[p] = "write"
  /\ lockFile' = NoFile
  /\ Goto(p, "idle")
  /\ UNCHANGED <<seen, crashes>>

\* The rest of start_runtime_flow succeeds ...
Started(p) ==
  /\ pc[p] = "starting"
  /\ Goto(p, "running")
  /\ UNCHANGED <<lockFile, seen, crashes>>

\* ... or raises, and its except clause releases; stop_runtime_flow releases too.
BeginRelease(p) ==
  /\ pc[p] \in {"starting", "running"}
  /\ Goto(p, "reread")
  /\ UNCHANGED <<lockFile, seen, crashes>>

\* release_runtime_lock: an empty payload counts as one's own
ReReadLock(p) ==
  /\ pc[p] = "reread"
  /\ seen' = [seen EXCEPT ![p] = lockFile.payload]
  /\ Goto(p, IF lockFile.payload \in {NoPid, p} THEN "unlink" ELSE "idle")
  /\ UNCHANGED <<lockFile, crashes>>

UnlinkLock(p) ==
  /\ pc[p] = "unlink"
  /\ lockFile' = NoFile
  /\ Goto(p, "idle")
  /\ UNCHANGED <<seen, crashes>>

Crash(p) ==
  /\ pc[p] # "down"
  /\ crashes < MaxCrash
  /\ crashes' = crashes + 1
  /\ Goto(p, "down")
  /\ UNCHANGED <<lockFile, seen>>

\* A new process, with the same pid
Respawn(p) ==
  /\ pc[p] = "down"
  /\ Goto(p, "idle")
  /\ UNCHANGED <<lockFile, seen, crashes>>

AcquireStep(p) ==
  \/ Create(p) \/ CreateFails(p) \/ ReadLock(p) \/ Probe(p)
  \/ ClearStale(p) \/ ClearFails(p) \/ WriteLock(p) \/ WriteFails(p)

ReleaseStep(p) == ReReadLock(p) \/ UnlinkLock(p)

Next == \E p \in Pid :
  \/ Start(p) \/ AcquireStep(p)
  \/ Started(p) \/ BeginRelease(p) \/ ReleaseStep(p)
  \/ Crash(p) \/ Respawn(p)

Spec == Init /\ [][Next]_vars

\* The code inside acquire and release never waits: a live process goes on.
LockFairness == \A p \in Pid : WF_vars(AcquireStep(p)) /\ WF_vars(ReleaseStep(p))

FairSpec == Spec /\ LockFairness

---------------------------------------------------------------------------
\* The types, and a file's payload is its maker's pid or nothing: nobody writes into a lock
\* that another process made.
TypeOK ==
  /\ lockFile \in File
  /\ lockFile.payload \in {NoPid, lockFile.by}
  /\ pc \in [Pid -> PC]
  /\ seen \in [Pid -> Pid \cup {NoPid}]
  /\ crashes \in 0..MaxCrash

\* At most one process believes it is the runtime (RUNTIME_STATE_DESIGN.md 2.2).
SingleInstance ==
  \A p, q \in Pid : pc[p] \in Holding /\ pc[q] \in Holding => p = q

\* The holder's claim stays on disk: its payload is at the path until it unlinks it,
\* so no later start can miss it.
HolderOnDisk ==
  \A p \in Pid : pc[p] \in Holding =>
    lockFile = [by |-> p, payload |-> p]

\* What a caller of start() sees of a process.
Status == [p \in Pid |-> IF pc[p] \in Acquiring THEN "asking"
                          ELSE IF pc[p] \in Holding THEN "in" ELSE "out"]

Lock == INSTANCE InstanceLock WITH status <- Status

\* The file protocol implements the abstract lock: a process becomes the runtime only when
\* no other is, and the retry loop of acquire_runtime_lock ends in possession or a refusal.
ImplementsInstanceLock == Lock!LockSpec
=============================================================================
