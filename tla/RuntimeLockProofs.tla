------------------------- MODULE RuntimeLockProofs -------------------------
(***************************************************************************)
(* RuntimeLock keeps its promise, for any set of processes and any number  *)
(* of crashes, when either no process crashes or processes are started one *)
(* at a time.  (Drop both and the run runtime_lock_race breaks it.)        *)
(***************************************************************************)
EXTENDS RuntimeLock, TLAPS

USE DEF NoPid, NoFile, File, Acquiring, Releasing, Holding, PC, Goto

\* The writer's file is still at the path.
WriterOnDisk == \A p \in Pid : pc[p] = "write" => lockFile.by = p

\* Without crashes no lock is ever found stale.
NoneStale == MaxCrash = 0 => \A p \in Pid : pc[p] \notin {"down", "clear"}

OneStarter == SerialStart =>
  \A p, q \in Pid : pc[p] \in Acquiring /\ pc[q] \in Acquiring => p = q

\* A lone starter that has read a payload read that of the holder, if there is one.
ProbeSeesHolder == SerialStart =>
  \A p, q \in Pid : pc[p] = "probe" /\ pc[q] \in Holding => seen[p] = q

\* Only a payload with a pid is probed.
ProbeSeesPid == \A p \in Pid : pc[p] = "probe" => seen[p] \in Pid

\* The file a lone starter is about to unlink is nobody's claim.
ClearIsSafe == SerialStart =>
  \A p, q \in Pid : pc[p] = "clear" => pc[q] \notin Holding

IInv == /\ TypeOK /\ HolderOnDisk /\ WriterOnDisk /\ NoneStale
        /\ OneStarter /\ ProbeSeesPid /\ ProbeSeesHolder /\ ClearIsSafe

\* Type correctness of RuntimeLock on its own: every file step leaves a file the
\* code can meet and every process at a place the code has.
THEOREM TypeCorrect == Spec => []TypeOK
<1>1. Init => TypeOK
  BY MaxCrashNat DEF Init, TypeOK
<1>2. TypeOK /\ [Next]_vars => TypeOK'
  <2> SUFFICES ASSUME TypeOK, [Next]_vars PROVE TypeOK'
    OBVIOUS
  <2>1. CASE UNCHANGED vars
    BY <2>1 DEF TypeOK, vars
  <2>2. ASSUME NEW p \in Pid, Start(p) \/ Create(p) \/ CreateFails(p) \/ ReadLock(p)
        PROVE TypeOK'
    BY <2>2 DEF TypeOK, Start, Create, CreateFails, ReadLock
  <2>3. ASSUME NEW p \in Pid, Probe(p) \/ ClearStale(p) \/ ClearFails(p) PROVE TypeOK'
    BY <2>3 DEF TypeOK, Probe, ClearStale, ClearFails
  <2>4. ASSUME NEW p \in Pid, WriteLock(p) \/ WriteFails(p) PROVE TypeOK'
    BY <2>4 DEF TypeOK, WriteLock, WriteFails
  <2>5. ASSUME NEW p \in Pid, Started(p) \/ BeginRelease(p) \/ ReleaseStep(p) PROVE TypeOK'
    BY <2>5 DEF TypeOK, Started, BeginRelease, ReleaseStep, ReReadLock, UnlinkLock
  <2>6. ASSUME NEW p \in Pid, Crash(p) \/ Respawn(p) PROVE TypeOK'
    BY <2>6, MaxCrashNat DEF TypeOK, Crash, Respawn
  <2> QED
    BY <2>1, <2>2, <2>3, <2>4, <2>5, <2>6 DEF Next, AcquireStep
<1> QED
  BY <1>1, <1>2, PTL DEF Spec

\* The inductive invariant holds at the start ...
LEMMA InitIInv == Init => IInv
BY MaxCrashNat DEF Init, IInv, TypeOK, HolderOnDisk, WriterOnDisk, NoneStale, OneStarter,
     ProbeSeesPid, ProbeSeesHolder, ClearIsSafe

\* ... and every step keeps it, given one of the two assumptions on the environment.
LEMMA StepIInv ==
  ASSUME SerialStart \/ MaxCrash = 0, IInv, TypeOK', [Next]_vars
  PROVE  IInv'
<1> USE PidNumbered DEF IInv, TypeOK
<1>1. CASE UNCHANGED vars
  BY <1>1 DEF vars, HolderOnDisk, WriterOnDisk, NoneStale, OneStarter,
     ProbeSeesPid, ProbeSeesHolder, ClearIsSafe
<1>2. ASSUME NEW p \in Pid, Start(p) PROVE IInv'
  BY <1>2 DEF Start, HolderOnDisk, WriterOnDisk, NoneStale, OneStarter,
     ProbeSeesPid, ProbeSeesHolder, ClearIsSafe
<1>3. ASSUME NEW p \in Pid, Create(p) PROVE IInv'
  BY <1>3 DEF Create, HolderOnDisk, WriterOnDisk, NoneStale, OneStarter,
     ProbeSeesPid, ProbeSeesHolder, ClearIsSafe
<1>4. ASSUME NEW p \in Pid, CreateFails(p) PROVE IInv'
  BY <1>4 DEF CreateFails, HolderOnDisk, WriterOnDisk, NoneStale, OneStarter,
     ProbeSeesPid, ProbeSeesHolder, ClearIsSafe
<1>5. ASSUME NEW p \in Pid, ReadLock(p) PROVE IInv'
  <2>1. HolderOnDisk' /\ WriterOnDisk' /\ NoneStale' /\ OneStarter' /\ ProbeSeesPid'
        /\ ClearIsSafe'
    BY <1>5 DEF ReadLock, HolderOnDisk, WriterOnDisk, NoneStale, OneStarter,
       ProbeSeesPid, ClearIsSafe
  \* p reads the holder's payload: no other process is at "probe"
  <2>2. ProbeSeesHolder'
    <3> SUFFICES ASSUME SerialStart, NEW r \in Pid, NEW q \in Pid,
                        pc'[r] = "probe", pc'[q] \in Holding
                 PROVE  seen'[r] = q
      BY <1>5 DEF ReadLock, ProbeSeesHolder
    <3>1. lockFile.payload = q /\ pc[q] \in Holding
      BY <1>5 DEF ReadLock, HolderOnDisk
    <3>2. r = p
      BY <1>5 DEF ReadLock, OneStarter
    <3> QED
      BY <1>5, <3>1, <3>2 DEF ReadLock
  <2> QED
    BY <2>1, <2>2 
<1>6. ASSUME NEW p \in Pid, Probe(p) PROVE IInv'
  <2>1. CASE Alive(seen[p])
    BY <1>6, <2>1 DEF Probe, HolderOnDisk, WriterOnDisk, NoneStale, OneStarter,
       ProbeSeesPid, ProbeSeesHolder, ClearIsSafe
  \* the pid read is dead: it is not the holder's, and some process did crash
  <2>2. CASE ~Alive(seen[p])
    <3>1. seen[p] \in Pid /\ pc[seen[p]] = "down"
      BY <1>6, <2>2 DEF Probe, ProbeSeesPid, Alive
    <3>2. SerialStart => \A q \in Pid : pc[q] \notin Holding
      BY <1>6, <3>1 DEF Probe, ProbeSeesHolder
    <3>3. pc' = [pc EXCEPT ![p] = "clear"] /\ UNCHANGED <<lockFile, seen, crashes>>
      BY <1>6, <2>2 DEF Probe
    <3>4. MaxCrash # 0
      BY <3>1 DEF NoneStale
    <3> QED
      BY <1>6, <3>2, <3>3, <3>4 DEF Probe, HolderOnDisk, WriterOnDisk, NoneStale, OneStarter,
         ProbeSeesPid, ProbeSeesHolder, ClearIsSafe
  <2> QED
    BY <2>1, <2>2
<1>7. ASSUME NEW p \in Pid, ClearStale(p) PROVE IInv'
  BY <1>7 DEF ClearStale, HolderOnDisk, WriterOnDisk, NoneStale, OneStarter,
     ProbeSeesPid, ProbeSeesHolder, ClearIsSafe
<1>8. ASSUME NEW p \in Pid, ClearFails(p) PROVE IInv'
  BY <1>8 DEF ClearFails, HolderOnDisk, WriterOnDisk, NoneStale, OneStarter,
     ProbeSeesPid, ProbeSeesHolder, ClearIsSafe
<1>9. ASSUME NEW p \in Pid, WriteLock(p) PROVE IInv'
  BY <1>9 DEF WriteLock, HolderOnDisk, WriterOnDisk, NoneStale, OneStarter,
     ProbeSeesPid, ProbeSeesHolder, ClearIsSafe
<1>10. ASSUME NEW p \in Pid, WriteFails(p) PROVE IInv'
  BY <1>10 DEF WriteFails, HolderOnDisk, WriterOnDisk, NoneStale, OneStarter,
     ProbeSeesPid, ProbeSeesHolder, ClearIsSafe
<1>11. ASSUME NEW p \in Pid, Started(p) \/ BeginRelease(p) PROVE IInv'
  BY <1>11 DEF Started, BeginRelease, HolderOnDisk, WriterOnDisk, NoneStale, OneStarter,
     ProbeSeesPid, ProbeSeesHolder, ClearIsSafe
<1>12. ASSUME NEW p \in Pid, ReReadLock(p) PROVE IInv'
  BY <1>12 DEF ReReadLock, HolderOnDisk, WriterOnDisk, NoneStale, OneStarter,
     ProbeSeesPid, ProbeSeesHolder, ClearIsSafe
<1>13. ASSUME NEW p \in Pid, UnlinkLock(p) PROVE IInv'
  BY <1>13 DEF UnlinkLock, HolderOnDisk, WriterOnDisk, NoneStale, OneStarter,
     ProbeSeesPid, ProbeSeesHolder, ClearIsSafe
<1>14. ASSUME NEW p \in Pid, Crash(p) PROVE IInv'
  BY <1>14 DEF Crash, HolderOnDisk, WriterOnDisk, NoneStale, OneStarter,
     ProbeSeesPid, ProbeSeesHolder, ClearIsSafe
<1>15. ASSUME NEW p \in Pid, Respawn(p) PROVE IInv'
  BY <1>15 DEF Respawn, HolderOnDisk, WriterOnDisk, NoneStale, OneStarter,
     ProbeSeesPid, ProbeSeesHolder, ClearIsSafe
<1> QED
  BY <1>1, <1>2, <1>3, <1>4, <1>5, <1>6, <1>7, <1>8, <1>9, <1>10, <1>11, <1>12, <1>13, <1>14, <1>15
  DEF Next, AcquireStep, ReleaseStep

\* The holder's payload stays at the lock's path until the holder itself unlinks it.
THEOREM HolderKeepsFile == ASSUME SerialStart \/ MaxCrash = 0
                           PROVE  Spec => []HolderOnDisk
<1>1. IInv /\ TypeOK' /\ [Next]_vars => IInv'
  BY StepIInv
<1>2. IInv => HolderOnDisk
  BY DEF IInv
<1> QED
  BY InitIInv, TypeCorrect, <1>1, <1>2, PTL DEF Spec

\* Never two runtimes at once: the promise of RUNTIME_STATE_DESIGN.md 2.2.
THEOREM OneRuntime == ASSUME SerialStart \/ MaxCrash = 0
                      PROVE  Spec => []SingleInstance
<1>1. HolderOnDisk => SingleInstance
  BY DEF HolderOnDisk, SingleInstance
<1> QED
  BY HolderKeepsFile, <1>1, PTL

(* The refinement: what processes see of the file protocol is the abstract lock. *)

View(l) == IF l \in Acquiring THEN "asking" ELSE IF l \in Holding THEN "in" ELSE "out"

\* A step that moves one process changes at most that process's status.
LEMMA OneMoves ==
  ASSUME pc \in [Pid -> PC], NEW p \in Pid, NEW l \in PC, pc' = [pc EXCEPT ![p] = l]
  PROVE  /\ Status[p] = View(pc[p])
         /\ Status' = [Status EXCEPT ![p] = View(l)]
BY DEF Status, View

\* Every step of the protocol is a step of the abstract lock, or is not seen there.
LEMMA StepImplements ==
  ASSUME IInv, IInv', [Next]_vars
  PROVE  [Lock!LockNext]_Status
<1> USE DEF Lock!LockNext, Lock!Ask, Lock!Answer, Lock!Grant, Lock!Refuse, Lock!Leave,
            Lock!Becomes
<1>0. pc \in [Pid -> PC]
  BY DEF IInv, TypeOK
<1>1. CASE UNCHANGED vars
  BY <1>1 DEF vars, Status
<1>2. ASSUME NEW p \in Pid, Start(p) PROVE Lock!LockNext
  <2>1. Status[p] = "out" /\ Status' = [Status EXCEPT ![p] = "asking"]
    BY <1>0, <1>2, OneMoves DEF Start, View
  <2> QED
    BY <2>1
\* ask goes on asking ...
<1>3. ASSUME NEW p \in Pid, NEW l \in Acquiring, pc[p] \in Acquiring, Goto(p, l)
      PROVE  UNCHANGED Status
  <2>1. Status[p] = "asking" /\ Status' = [Status EXCEPT ![p] = "asking"]
    BY <1>0, <1>3, OneMoves DEF View
  <2> QED
    BY <2>1 DEF Status
\* ... or is refused ...
<1>4. ASSUME NEW p \in Pid, NEW l \in {"idle", "down"}, pc[p] \in Acquiring, Goto(p, l)
      PROVE  Lock!LockNext
  <2>1. Status[p] = "asking" /\ Status' = [Status EXCEPT ![p] = "out"]
    BY <1>0, <1>4, OneMoves DEF View
  <2> QED
    BY <2>1
\* ... or is let in, and then is the only one: it is its file that is on disk.
<1>5. ASSUME NEW p \in Pid, WriteLock(p) PROVE Lock!LockNext
  <2>1. Status[p] = "asking" /\ Status' = [Status EXCEPT ![p] = "in"]
    BY <1>0, <1>5, OneMoves DEF WriteLock, View
  <2>2. ASSUME NEW q \in Pid PROVE Status[q] # "in"
    <3>1. lockFile.by = p /\ pc[p] = "write"
      BY <1>5 DEF WriteLock, IInv, WriterOnDisk
    <3>2. pc[q] \notin Holding
      BY <3>1 DEF IInv, HolderOnDisk
    <3> QED
      BY <3>2 DEF Status
  <2> QED
    BY <2>1, <2>2
<1>6. ASSUME NEW p \in Pid, NEW l \in Holding, pc[p] \in Holding, Goto(p, l)
      PROVE  UNCHANGED Status
  <2>1. Status[p] = "in" /\ Status' = [Status EXCEPT ![p] = "in"]
    BY <1>0, <1>6, OneMoves DEF View
  <2> QED
    BY <2>1 DEF Status
<1>7. ASSUME NEW p \in Pid, NEW l \in {"idle", "down"}, pc[p] \in Holding, Goto(p, l)
      PROVE  Lock!LockNext
  <2>1. Status[p] = "in" /\ Status' = [Status EXCEPT ![p] = "out"]
    BY <1>0, <1>7, OneMoves DEF View
  <2> QED
    BY <2>1
\* a process outside dies, or comes back
<1>8. ASSUME NEW p \in Pid, NEW l \in {"idle", "down"}, pc[p] \in {"idle", "down"}, Goto(p, l)
      PROVE  UNCHANGED Status
  <2>1. Status[p] = "out" /\ Status' = [Status EXCEPT ![p] = "out"]
    BY <1>0, <1>8, OneMoves DEF View
  <2> QED
    BY <2>1 DEF Status
<1>9. ASSUME NEW p \in Pid, AcquireStep(p) PROVE [Lock!LockNext]_Status
  <2>1. CASE Create(p) \/ CreateFails(p) \/ ClearStale(p)
    BY <2>1, <1>3 DEF Create, CreateFails, ClearStale
  <2>2. CASE ReadLock(p) \/ Probe(p)
    BY <2>2, <1>3, <1>4 DEF ReadLock, Probe
  <2>3. CASE ClearFails(p) \/ WriteFails(p)
    BY <2>3, <1>4 DEF ClearFails, WriteFails
  <2> QED
    BY <1>5, <1>9, <2>1, <2>2, <2>3 DEF AcquireStep
<1>10. ASSUME NEW p \in Pid, Started(p) \/ BeginRelease(p) PROVE UNCHANGED Status
  BY <1>6, <1>10 DEF Started, BeginRelease
<1>11. ASSUME NEW p \in Pid, ReleaseStep(p) PROVE [Lock!LockNext]_Status
  BY <1>6, <1>7, <1>11 DEF ReleaseStep, ReReadLock, UnlinkLock
<1>12. ASSUME NEW p \in Pid, Crash(p) \/ Respawn(p) PROVE [Lock!LockNext]_Status
  <2>1. pc[p] \in PC
    BY <1>0
  <2> QED
    BY <1>4, <1>7, <1>8, <1>12, <2>1 DEF Crash, Respawn
<1> QED
  BY <1>1, <1>2, <1>9, <1>10, <1>11, <1>12 DEF Next

\* The file protocol implements the safety part of the abstract instance lock; that every
\* question is answered (the rest of ImplementsInstanceLock) is left to model checking.
THEOREM ImplementsLock == ASSUME SerialStart \/ MaxCrash = 0
                          PROVE  Spec => Lock!LockSafety
<1>1. Init => Lock!LockInit
  BY DEF Init, Lock!LockInit, Status
<1>2. IInv /\ TypeOK' /\ [Next]_vars => IInv'
  BY StepIInv
<1>3. IInv /\ IInv' /\ [Next]_vars => [Lock!LockNext]_Status
  BY StepImplements
<1> QED
  BY InitIInv, TypeCorrect, <1>1, <1>2, <1>3, PTL DEF Spec, Lock!LockSafety
=============================================================================
