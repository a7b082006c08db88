--------------------------- MODULE ServiceProofs ---------------------------
(***************************************************************************)
(* Bridge and Cron for any messages, jobs and threads and any number of    *)
(* failing file operations, stops and crashes: a message is handled once   *)
(* or the files say why not, and no run that was due is taken for done.    *)
(***************************************************************************)
EXTENDS Bridge, Cron, FiniteSetTheorems, WellFoundedInduction, TLAPS

\* A set of natural numbers that is not empty has a minimum.
LEMMA MinExists ==
  ASSUME NEW S \in SUBSET Nat, S # {}
  PROVE  Min(S) \in S
<1> DEFINE R == OpToRel(<, Nat)
<1>1. IsWellFoundedOn(R, Nat)
  BY NatLessThanWellFounded
<1>2. PICK x \in S : \A y \in S : ~ (<<y, x>> \in R)
  <2> HIDE DEF R
  <2> QED
    BY <1>1, WFMin
<1>3. \A y \in S : ~ (y < x)
  BY <1>2 DEF OpToRel
<1>4. \A y \in S : x <= y
  BY <1>3
<1> QED
  BY <1>4 DEF Min

---------------------------------------------------------------------------
(* The bridge *)

\* Only a message taken is worked on, and a message is worked on by _handle alone.
Working ==
  /\ handling # {} => hub = "handle"
  /\ \A m \in handling : handled[m] > 0
  /\ \A m \in Msg \ sent : file[m] = "none"

\* A message whose file cannot come back is handled at most once: not yet while its file is
\* there or it waits in the batch.
Once ==
  \A m \in Msg \ kept :
    /\ handled[m] <= 1
    /\ file[m] # "none" \/ m \notin sent => handled[m] = 0 /\ m \notin batch
    /\ m \in batch => handled[m] = 0

\* While every file operation succeeds, a message not given up has its replies, but for the
\* one being worked out.
Answered ==
  faults = 0 => \A m \in Msg \ lost :
    handled[m] = replies[m] + (IF m \in handling THEN 1 ELSE 0)

Accounted ==
  \A m \in sent : file[m] # "none" \/ m \in invalid \/ m \in batch \cup handling \cup lost
                    \/ handled[m] > 0

BridgeInv == BridgeTypeOK /\ Working /\ Once /\ Answered /\ Accounted

LEMMA BridgeInitInv == BridgeInit => BridgeInv
<1> SUFFICES ASSUME BridgeInit PROVE BridgeInv
  OBVIOUS
<1> USE BridgeConstants DEF BridgeInit
<1>1. BridgeTypeOK
  BY FS_EmptySet DEF BridgeTypeOK
<1>2. Working /\ Once /\ Answered /\ Accounted
  BY DEF Working, Once, Answered, Accounted
<1> QED
  BY <1>1, <1>2 DEF BridgeInv

\* The writers of the inbox
LEMMA WriterStep ==
  ASSUME BridgeInv, NEW m \in Msg, Begin(m) \/ Fill(m)
  PROVE  BridgeInv'
<1> USE BridgeConstants DEF BridgeInv, BridgeTypeOK
<1>1. /\ UNCHANGED <<invalid, listing, batch, handling, hub, processed, failed, handled, replies,
                     lost, kept, faults>>
      /\ \/ m \notin sent /\ sent' = sent \cup {m} /\ file' = [file EXCEPT ![m] = "partial"]
         \/ file[m] = "partial" /\ sent' = sent /\ file' = [file EXCEPT ![m] = "whole"]
  BY DEF Begin, Fill, turn, tallies, past
<1>2. m \in sent'
  BY <1>1 DEF Working
<1>3. BridgeTypeOK'
  BY <1>1
<1>4. Working'
  BY <1>1, <1>2 DEF Working
<1>5. Once'
  BY <1>1, <1>2 DEF Once
<1>6. Answered' /\ Accounted'
  BY <1>1 DEF Answered, Accounted
<1> QED
  BY <1>3, <1>4, <1>5, <1>6

\* A poll that found files
LEMMA PollStep ==
  ASSUME BridgeInv, Poll
  PROVE  BridgeInv'
<1> USE DEF BridgeInv, BridgeTypeOK
<1>1. /\ UNCHANGED <<file, invalid, sent, batch, handling, processed, failed, handled, replies,
                     lost, kept, faults>>
      /\ hub = "poll" /\ hub' = "read" /\ listing' # {} /\ listing' \subseteq Msg
  BY DEF Poll, inbox, tallies, past
<1>2. handling = {}
  BY <1>1 DEF Working
<1> QED
  BY <1>1, <1>2 DEF Working, Once, Answered, Accounted

\* The effect of reading a file: it is taken or quarantined, or stays where it is.
LEMMA ReadStep ==
  ASSUME BridgeInv, NEW m \in Msg, Take(m) \/ Reject(m)
  PROVE  BridgeInv'
<1> USE BridgeConstants DEF BridgeInv, BridgeTypeOK
<1>1. PICK taken \in {{m}, {}} :
        /\ taken = {m} <=> Take(m)
        /\ batch' = batch \cup taken /\ listing' = listing \ {m}
        /\ hub' = IF listing' # {} THEN "read" ELSE IF batch' # {} THEN "handle" ELSE "poll"
        /\ UNCHANGED <<sent, handling, processed, failed, handled, replies, lost>>
  <2>1. Take(m) => ~Reject(m)
    BY DEF Take, Reject
  <2>2. CASE Take(m)
    BY <2>1, <2>2 DEF Take, AfterRead, tallies
  <2>3. CASE Reject(m)
    BY <2>1, <2>3 DEF Reject, AfterRead, tallies
  <2> QED
    BY <2>2, <2>3
<1>2. hub = "read" /\ file[m] # "none" /\ handling = {}
  BY DEF Take, Reject, Working
<1>3. /\ file' = file \/ file' = [file EXCEPT ![m] = "none"]
      /\ invalid' = invalid \/ invalid' = invalid \cup {m}
      /\ kept' = kept \/ kept' = kept \cup {m}
      /\ faults' \in faults .. MaxFaults
      /\ file'[m] # "none" /\ taken = {m} => m \in kept'
      /\ taken = {} => kept' = kept /\ (file' = file \/ m \in invalid')
  BY <1>1 DEF Take, Reject, Quarantine, Fault
<1>4. BridgeTypeOK'
  <2>1. file' \in [Msg -> {"none", "partial", "whole"}] /\ faults' \in 0 .. MaxFaults
    BY <1>3
  <2>2. invalid' \subseteq Msg /\ kept' \subseteq Msg /\ batch' \subseteq Msg /\ listing' \subseteq Msg
    BY <1>1, <1>3
  <2> QED
    BY <1>1, <1>2, <2>1, <2>2
<1>5. m \in sent
  BY <1>2 DEF Working
<1>6. Working'
  BY <1>1, <1>2, <1>3, <1>5 DEF Working
<1>7. Once'
  <2> SUFFICES ASSUME NEW x \in Msg, x \notin kept'
               PROVE  /\ handled'[x] <= 1
                      /\ file'[x] # "none" \/ x \notin sent' => handled'[x] = 0 /\ x \notin batch'
                      /\ x \in batch' => handled'[x] = 0
    BY DEF Once
  <2>1. x \notin kept
    BY <1>3
  <2>2. CASE x = m
    BY <1>1, <1>2, <1>3, <1>5, <2>1, <2>2 DEF Once
  <2>3. CASE x # m
    BY <1>1, <1>3, <2>1, <2>3 DEF Once
  <2> QED
    BY <2>2, <2>3
<1>8. Answered'
  BY <1>1, <1>3 DEF Answered
<1>9. Accounted'
  BY <1>1, <1>3 DEF Accounted
<1> QED
  BY <1>4, <1>6, <1>7, <1>8, <1>9

\* A message of the batch is handed to the runtime.
LEMMA HandleStep ==
  ASSUME BridgeInv, Handle
  PROVE  BridgeInv'
<1> USE BridgeConstants DEF BridgeInv, BridgeTypeOK
<1> DEFINE m == Min(batch)
<1>1. m \in batch /\ m \in Msg
  BY MinExists DEF Handle
<1>2. /\ hub = "handle" /\ handling = {} /\ handling' = {m} /\ batch' = batch \ {m}
      /\ handled' = [handled EXCEPT ![m] = @ + 1]
      /\ UNCHANGED <<file, invalid, sent, listing, hub, processed, failed, replies, lost, kept,
                     faults>>
  BY DEF Handle, Bump, inbox, tallies
<1> HIDE DEF m
<1>3. BridgeTypeOK'
  <2>1. Cardinality(handling') = 1
    BY <1>2, FS_Singleton
  <2>2. handled' \in [Msg -> Nat]
    BY <1>1, <1>2
  <2>3. batch' \subseteq Msg /\ handling' \subseteq Msg /\ batch' \cup handling' # {}
    BY <1>1, <1>2
  <2> QED
    BY <1>2, <2>1, <2>2, <2>3
<1>4. Working'
  BY <1>1, <1>2 DEF Working
<1>5. Once'
  BY <1>1, <1>2 DEF Once
<1>6. Answered'
  <2> SUFFICES ASSUME faults = 0, NEW x \in Msg, x \notin lost
               PROVE  handled'[x] = replies'[x] + (IF x \in handling' THEN 1 ELSE 0)
    BY <1>2 DEF Answered
  <2>1. handled[x] = replies[x] + 0 /\ replies[x] \in Nat
    BY <1>2 DEF Answered
  <2>2. CASE x = m
    BY <1>1, <1>2, <2>1, <2>2
  <2>3. CASE x # m
    BY <1>1, <1>2, <2>1, <2>3
  <2> QED
    BY <2>2, <2>3
<1>7. Accounted'
  BY <1>1, <1>2 DEF Accounted
<1> QED
  BY <1>3, <1>4, <1>5, <1>6, <1>7

\* The runtime answers or raises, and the reply is written or is not.
LEMMA ReplyStep ==
  ASSUME BridgeInv, NEW m \in Msg, Reply(m)
  PROVE  BridgeInv'
<1> USE BridgeConstants DEF BridgeInv, BridgeTypeOK
<1>1. /\ m \in handling /\ handling' = {} /\ hub' = IF batch = {} THEN "poll" ELSE "handle"
      /\ UNCHANGED <<file, invalid, sent, listing, batch, handled, lost, kept>>
      /\ processed' \in Nat /\ failed' \in Nat
      /\ \/ replies' = [replies EXCEPT ![m] = @ + 1] /\ faults' = faults
         \/ replies' = replies /\ faults' = faults + 1 /\ faults < MaxFaults
  BY DEF Reply, Bump, inbox, Fault
<1>2. hub = "handle" /\ handling = {m}
  <2>1. hub = "handle"
    BY <1>1 DEF Working
  <2>2. IsFiniteSet(handling)
    BY FS_Subset
  <2>3. Cardinality(handling) \in Nat /\ Cardinality(handling) # 0
    BY <1>1, <2>2, FS_CardinalityType, FS_EmptySet
  <2>4. Cardinality(handling) = 1
    BY <2>3
  <2> QED
    BY <1>1, <2>1, <2>2, <2>4, FS_Singleton
<1>3. BridgeTypeOK'
  <2>1. Cardinality(handling') = 0
    BY <1>1, FS_EmptySet
  <2>2. replies' \in [Msg -> Nat] /\ faults' \in 0..MaxFaults
    BY <1>1
  <2>3. listing = {} /\ (hub' = "handle" <=> batch' # {}) /\ hub' \in {"poll", "handle"}
    BY <1>1, <1>2
  <2> QED
    BY <1>1, <2>1, <2>2, <2>3
<1>4. Working' /\ Once' /\ Accounted'
  BY <1>1, <1>2 DEF Working, Once, Accounted
<1>5. Answered'
  <2> SUFFICES ASSUME faults' = 0, NEW x \in Msg, x \notin lost
               PROVE  handled'[x] = replies'[x] + (IF x \in handling' THEN 1 ELSE 0)
    BY <1>1 DEF Answered
  <2>1. faults' = faults /\ replies' = [replies EXCEPT ![m] = @ + 1]
    BY <1>1
  <2>2. handled[x] = replies[x] + (IF x \in handling THEN 1 ELSE 0) /\ replies[x] \in Nat
    BY <2>1 DEF Answered
  <2> QED
    BY <1>1, <1>2, <2>1, <2>2
<1> QED
  BY <1>3, <1>4, <1>5

\* A stop or a crash gives up what was taken and not answered.
LEMMA AbandonStep ==
  ASSUME BridgeInv, Abandon, processed' \in Nat, failed' \in Nat
  PROVE  BridgeInv'
<1> USE BridgeConstants DEF BridgeInv, BridgeTypeOK
<1>1. /\ lost' = lost \cup batch \cup handling
      /\ listing' = {} /\ batch' = {} /\ handling' = {} /\ hub' = "off"
      /\ UNCHANGED <<file, invalid, sent, handled, replies, kept, faults>>
  BY DEF Abandon, inbox
<1>2. BridgeTypeOK'
  BY <1>1, FS_EmptySet
<1>3. Working' /\ Once' /\ Accounted'
  BY <1>1 DEF Working, Once, Accounted
<1>4. Answered'
  BY <1>1 DEF Answered
<1> QED
  BY <1>2, <1>3, <1>4

LEMMA BridgeStepInv == BridgeInv /\ [BridgeNext]_bridgeVars => BridgeInv'
<1> SUFFICES ASSUME BridgeInv, [BridgeNext]_bridgeVars PROVE BridgeInv'
  OBVIOUS
<1>1. CASE \E m \in Msg : Begin(m) \/ Fill(m)
  BY <1>1, WriterStep
<1>2. CASE \E m \in Msg : Take(m) \/ Reject(m)
  BY <1>2, ReadStep
<1>3. CASE \E m \in Msg : Reply(m)
  BY <1>3, ReplyStep
<1>4. CASE Poll
  BY <1>4, PollStep
<1>5. CASE Handle
  BY <1>5, HandleStep
<1>6. CASE BridgeStop \/ BridgeCrash
  BY <1>6, AbandonStep DEF BridgeStop, BridgeCrash, tallies, BridgeInv, BridgeTypeOK
<1>7. CASE BridgeStart
  <2>1. /\ hub = "off" /\ hub' = "poll"
        /\ UNCHANGED <<file, invalid, sent, listing, batch, handling, processed, failed, handled,
                       replies, lost, kept, faults>>
    BY <1>7 DEF BridgeStart, inbox, tallies, past
  <2> QED
    BY <2>1 DEF BridgeInv, BridgeTypeOK, Working, Once, Answered, Accounted
<1>8. CASE UNCHANGED bridgeVars
  BY <1>8 DEF bridgeVars, inbox, turn, tallies, past, BridgeInv, BridgeTypeOK, Working, Once,
              Answered, Accounted
<1> QED
  BY <1>1, <1>2, <1>3, <1>4, <1>5, <1>6, <1>7, <1>8 DEF BridgeNext, BridgeStep

LEMMA BridgeInvariant == BridgeSpec => []BridgeInv
BY BridgeInitInv, BridgeStepInv, PTL DEF BridgeSpec

\* Files are read, or a batch is handled, never both, and one message is handled at a time.
THEOREM BridgeTypeCorrect == BridgeSpec => []BridgeTypeOK
<1>1. BridgeInv => BridgeTypeOK
  BY DEF BridgeInv
<1> QED
  BY <1>1, BridgeInvariant, PTL

\* A message is handled once, or the files say why not, whatever is written, refused, stopped,
\* crashed and started again in between.
THEOREM AlwaysHandledOnce == BridgeSpec => []HandledOnce
<1>1. BridgeInv => HandledOnce
  <2> SUFFICES ASSUME BridgeInv PROVE HandledOnce
    OBVIOUS
  <2>1. AtMostOnce
    BY DEF BridgeInv, Once, AtMostOnce
  <2>2. ASSUME NEW m \in Msg, handled[m] > 0, m \notin handling \cup lost, ~(faults > 0)
        PROVE  replies[m] = handled[m]
    <3>1. faults = 0 /\ replies[m] \in Nat
      BY <2>2, BridgeConstants DEF BridgeInv, BridgeTypeOK
    <3> QED
      BY <2>2, <3>1 DEF BridgeInv, Answered
  <2> QED
    BY <2>1, <2>2 DEF BridgeInv, Accounted, HandledOnce, NoneVanishes
<1> QED
  BY <1>1, BridgeInvariant, PTL

---------------------------------------------------------------------------
(* Cron: nothing that is kept, in memory, in a save under way or in the file, counts more ticks *)
(* of a job as run than its finished runs have served; and what is served has come.             *)

Within(up) == \A j \in Job : up[j] <= served[j]

KeptWithin ==
  /\ Within(upto)
  /\ \A t \in Saver : Within(save[t].payload.upto)
  /\ store # Torn => Within(store.upto)

ServedHasCome == \A j \in Job : served[j] <= ticks[j]

CronInv == CronTypeOK /\ KeptWithin /\ ServedHasCome

\* What is served never becomes less, so what was within it stays within it.
LEMMA WithinGrows ==
  ASSUME NEW up \in [Job -> 0..MaxTicks], Within(up),
         served \in [Job -> 0..MaxTicks], served' \in [Job -> 0..MaxTicks],
         \A j \in Job : served[j] <= served'[j]
  PROVE  \A j \in Job : up[j] <= served'[j]
BY CronConstants DEF Within

LEMMA NothingIsPayload == Nothing \in Payload /\ NoSave.payload = Nothing /\ Nothing # Torn
  /\ NoSave.at = "none"
BY CronConstants DEF Nothing, Payload, NoSave, Torn

LEMMA CronInitInv == CronInit => CronInv
<1> SUFFICES ASSUME CronInit PROVE CronInv
  OBVIOUS
<1>1. CronTypeOK
  <2>1. Cardinality(job) = 0
    BY FS_EmptySet DEF CronInit
  <2>2. save \in [Saver -> [at : {"none", "build", "open", "write"}, payload : Payload]]
    BY NothingIsPayload DEF CronInit, NoSave
  <2> QED
    BY <2>1, <2>2, NothingIsPayload, CronConstants DEF CronInit, CronTypeOK
<1>2. Within(Nothing.upto)
  BY CronConstants DEF CronInit, Within, Nothing
<1>3. KeptWithin /\ ServedHasCome
  BY <1>2, NothingIsPayload, CronConstants
     DEF CronInit, KeptWithin, ServedHasCome, Within
<1> QED
  BY <1>1, <1>3 DEF CronInv

\* A thread puts into its save what it finds in memory, or nothing, or what it had.
LEMMA SaveKept ==
  ASSUME CronInv, NEW t \in Saver, NEW at \in {"none", "build", "open", "write"},
         NEW p \in Payload, SaveAt(t, at, p),
         Within(p.upto), served' \in [Job -> 0..MaxTicks], \A j \in Job : served[j] <= served'[j]
  PROVE  /\ save' \in [Saver -> [at : {"none", "build", "open", "write"}, payload : Payload]]
         /\ \A u \in Saver, j \in Job : save'[u].payload.upto[j] <= served'[j]
<1> USE DEF CronInv, CronTypeOK
<1>1. save' \in [Saver -> [at : {"none", "build", "open", "write"}, payload : Payload]]
  BY DEF SaveAt
<1>2. ASSUME NEW u \in Saver, NEW j \in Job PROVE save'[u].payload.upto[j] <= served'[j]
  <2>1. Within(save'[u].payload.upto)
    BY DEF SaveAt, KeptWithin
  <2>2. save'[u].payload.upto \in [Job -> 0..MaxTicks]
    BY <1>1 DEF Payload
  <2> QED
    BY <2>1, <2>2, WithinGrows
<1> QED
  BY <1>1, <1>2

\* What is in memory is a payload, within what is served.
LEMMA CurrentIsPayload ==
  ASSUME CronInv
  PROVE  Current \in Payload /\ Within(Current.upto) /\ Within(Nothing.upto)
BY CronConstants DEF Current, Nothing, Payload, Within, CronInv, CronTypeOK, KeptWithin

\* The steps of a save.
LEMMA SaveStepInv ==
  ASSUME CronInv, NEW t \in Saver, SaveStep(t)
  PROVE  CronInv'
<1> USE DEF CronInv, CronTypeOK
<1>1. /\ UNCHANGED <<jobs, upto, added, ticks, job, served>>
      /\ pass' \subseteq Job /\ cron' \in {"off", "on", "ended"}
  BY DEF SaveStep, Build, OpenStore, WriteStore, SaveFails, table, running
<1>0. \A j \in Job : served[j] <= served'[j]
  BY <1>1, CronConstants
<1>2. save[t] \in [at : {"none", "build", "open", "write"}, payload : Payload]
      /\ Within(save[t].payload.upto)
  BY DEF KeptWithin
<1>3. PICK at \in {"none", "build", "open", "write"}, p \in Payload :
        SaveAt(t, at, p) /\ Within(p.upto)
  <2>1. CASE Build(t)
    BY <2>1, CurrentIsPayload DEF Build
  <2>2. CASE OpenStore(t)
    BY <2>2, <1>2 DEF OpenStore
  <2>3. CASE WriteStore(t)
    BY <2>3, CurrentIsPayload, NothingIsPayload DEF WriteStore
  <2>4. CASE SaveFails(t)
    BY <2>4, CurrentIsPayload, NothingIsPayload DEF SaveFails
  <2> QED
    BY <2>1, <2>2, <2>3, <2>4 DEF SaveStep
<1>4. /\ save' \in [Saver -> [at : {"none", "build", "open", "write"}, payload : Payload]]
      /\ \A u \in Saver, j \in Job : save'[u].payload.upto[j] <= served'[j]
  BY <1>0, <1>1, <1>3, SaveKept
<1>5. store' \in {store, Torn, save[t].payload}
  <2>1. CASE Build(t) \/ OpenStore(t) \/ WriteStore(t)
    BY <2>1, Zenon DEF Build, OpenStore, WriteStore
  <2>2. CASE SaveFails(t)
    BY <2>2 DEF SaveFails
  <2> QED
    BY <2>1, <2>2 DEF SaveStep
<1>6. store' \in Payload \cup {Torn} /\ (store' # Torn => Within(store'.upto))
  BY <1>2, <1>5 DEF KeptWithin
<1> QED
  BY <1>1, <1>4, <1>6 DEF KeptWithin, Within, ServedHasCome

\* The steps that serve ticks: a job is added at the tick that has come, or its run ends.
LEMMA ServeStepInv ==
  ASSUME CronInv, NEW j \in Job, NEW t \in Saver,
         served' = [served EXCEPT ![j] = ticks[j]],
         upto' = [upto EXCEPT ![j] = ticks[j]],
         SaveAt(t, "build", Nothing),
         UNCHANGED <<ticks, cron, store>>,
         jobs' \subseteq Job, added' \subseteq Job, pass' \subseteq Job,
         job' \subseteq Job, Cardinality(job') <= 1
  PROVE  CronInv'
<1> USE DEF CronInv, CronTypeOK
<1>1. served' \in [Job -> 0..MaxTicks] /\ upto' \in [Job -> 0..MaxTicks]
  OBVIOUS
<1>2. ASSUME NEW k \in Job PROVE served[k] <= served'[k]
  BY <1>1, CronConstants DEF ServedHasCome
<1>3. /\ save' \in [Saver -> [at : {"none", "build", "open", "write"}, payload : Payload]]
      /\ \A u \in Saver, k \in Job : save'[u].payload.upto[k] <= served'[k]
  BY <1>1, <1>2, SaveKept, NothingIsPayload, CurrentIsPayload
<1>4. \A k \in Job : upto'[k] <= served'[k]
  BY CronConstants DEF KeptWithin, Within
<1>5. ASSUME store # Torn PROVE \A k \in Job : store.upto[k] <= served'[k]
  <2>1. store \in Payload /\ Within(store.upto)
    BY <1>5 DEF KeptWithin
  <2>2. store.upto \in [Job -> 0..MaxTicks]
    BY <2>1 DEF Payload
  <2> QED
    BY <1>1, <1>2, <2>1, <2>2, WithinGrows
<1>6. \A k \in Job : served'[k] <= ticks'[k]
  BY CronConstants DEF ServedHasCome
<1> QED
  BY <1>1, <1>3, <1>4, <1>5, <1>6 DEF KeptWithin, Within, ServedHasCome

LEMMA CronStepInv == CronInv /\ [CronNext]_cronVars => CronInv'
<1> SUFFICES ASSUME CronInv, [CronNext]_cronVars PROVE CronInv'
  OBVIOUS
<1> USE DEF CronInv, CronTypeOK
<1>1. ASSUME NEW t \in Api, NEW j \in Job, AddJob(t, j) PROVE CronInv'
  <2>1. t \in Saver /\ jobs' \subseteq Job /\ added' \subseteq Job /\ pass' = pass /\ job' = job
    BY <1>1 DEF AddJob, Saver, running
  <2> QED
    BY <1>1, <2>1, ServeStepInv DEF AddJob, running
<1>2. ASSUME NEW t \in Api, NEW j \in Job, RemoveJob(t, j) PROVE CronInv'
  <2>1. t \in Saver /\ SaveAt(t, "build", Nothing) /\ jobs' \subseteq Job
        /\ UNCHANGED <<upto, added, ticks, pass, job, cron, store, served>>
    BY <1>2 DEF RemoveJob, Saver, running
  <2>2. \A k \in Job : served[k] <= served'[k]
    BY <2>1, CronConstants
  <2>3. /\ save' \in [Saver -> [at : {"none", "build", "open", "write"}, payload : Payload]]
        /\ \A u \in Saver, k \in Job : save'[u].payload.upto[k] <= served'[k]
    BY <2>1, <2>2, SaveKept, NothingIsPayload, CurrentIsPayload
  <2> QED
    BY <2>1, <2>3 DEF KeptWithin, Within, ServedHasCome
<1>3. CASE PassBegin
  BY <1>3 DEF PassBegin, KeptWithin, Within, ServedHasCome, table, saving
<1>4. ASSUME NEW j \in Job, Look(j) PROVE CronInv'
  <2>1. Cardinality(job') = 1
    BY <1>4, FS_Singleton DEF Look
  <2> QED
    BY <1>4, <2>1 DEF Look, KeptWithin, Within, ServedHasCome, table, saving
<1>5. ASSUME NEW j \in Job, JobEnds(j) PROVE CronInv'
  <2>1. Cardinality(job') = 0 /\ Loop \in Saver
    BY <1>5, FS_EmptySet DEF JobEnds, Saver
  <2>2. Cardinality(job') <= 1
    BY <2>1
  <2> QED
    BY <1>5, <2>1, <2>2, ServeStepInv DEF JobEnds
<1>6. ASSUME NEW t \in Saver, SaveStep(t) PROVE CronInv'
  BY <1>6, SaveStepInv
<1>7. ASSUME NEW j \in Job, Tick(j) PROVE CronInv'
  <2>1. /\ ticks' \in [Job -> 0..MaxTicks]
        /\ UNCHANGED <<jobs, upto, added, pass, job, cron, save, store, served>>
    BY <1>7, CronConstants DEF Tick, table, running, saving
  <2>2. \A k \in Job : served'[k] <= ticks'[k]
    BY <1>7, <2>1, CronConstants DEF Tick, ServedHasCome
  <2> QED
    BY <2>1, <2>2 DEF KeptWithin, Within, ServedHasCome
<1>8. CASE CronStart
  <2> DEFINE read == IF store = Torn THEN Nothing ELSE store
  <2>1. read \in Payload /\ Within(read.upto)
    BY NothingIsPayload, CurrentIsPayload DEF KeptWithin
  <2>2. /\ jobs' = read.jobs /\ upto' = read.upto /\ store' = read /\ cron' = "on"
        /\ UNCHANGED <<added, ticks, pass, job, save, served>>
    BY <1>8 DEF CronStart
  <2> HIDE DEF read
  <2>3. CronTypeOK'
    BY <2>1, <2>2 DEF Payload
  <2> QED
    BY <2>1, <2>2, <2>3 DEF KeptWithin, Within, ServedHasCome
<1>9. CASE CronStop
  <2>1. /\ Loop \in Saver /\ SaveAt(Loop, "build", Nothing) /\ cron' = "off" /\ pass' = {}
        /\ job' = {} /\ UNCHANGED <<jobs, upto, added, ticks, store, served>>
    BY <1>9 DEF CronStop, Saver, table
  <2>2. \A k \in Job : served[k] <= served'[k]
    BY <2>1, CronConstants
  <2>3. /\ save' \in [Saver -> [at : {"none", "build", "open", "write"}, payload : Payload]]
        /\ \A u \in Saver, k \in Job : save'[u].payload.upto[k] <= served'[k]
    BY <2>1, <2>2, SaveKept, NothingIsPayload, CurrentIsPayload
  <2>4. Cardinality(job') = 0
    BY <2>1, FS_EmptySet
  <2> QED
    BY <2>1, <2>3, <2>4 DEF KeptWithin, Within, ServedHasCome
<1>10. CASE CronCrash
  <2>1. /\ save' = [t \in Saver |-> NoSave] /\ cron' = "off" /\ pass' = {}
        /\ job' = {} /\ UNCHANGED <<jobs, upto, added, ticks, store, served>>
    BY <1>10 DEF CronCrash, table
  <2>2. Cardinality(job') = 0
    BY <2>1, FS_EmptySet
  <2>3. /\ save' \in [Saver -> [at : {"none", "build", "open", "write"}, payload : Payload]]
        /\ \A u \in Saver : save'[u].payload = Nothing
    BY <2>1, NothingIsPayload DEF NoSave
  <2> QED
    BY <2>1, <2>2, <2>3, CurrentIsPayload DEF KeptWithin, Within, ServedHasCome
<1>11. CASE UNCHANGED cronVars
  BY <1>11 DEF cronVars, table, running, saving, KeptWithin, Within, ServedHasCome
<1> QED
  BY <1>1, <1>2, <1>3, <1>4, <1>5, <1>6, <1>7, <1>8, <1>9, <1>10, <1>11
     DEF CronNext, ApiStep, CronStep, RunStep

LEMMA CronInvariant == CronSpec => []CronInv
BY CronInitInv, CronStepInv, PTL DEF CronSpec

\* The service runs one job at a time.
THEOREM CronTypeCorrect == CronSpec => []CronTypeOK
<1>1. CronInv => CronTypeOK
  BY DEF CronInv
<1> QED
  BY <1>1, CronInvariant, PTL

\* However the saves of the threads interleave, and wherever a crash parts one, no due run is
\* taken for done before it is.
THEOREM NoRunEverSkipped == CronSpec => []NoRunSkipped
<1>1. CronInv => NoRunSkipped
  BY DEF CronInv, KeptWithin, Within, NoRunSkipped
<1> QED
  BY <1>1, CronInvariant, PTL
=============================================================================
