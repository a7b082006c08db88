------------------------------- MODULE Bridge -------------------------------
(***************************************************************************)
(* BridgeHub (brain/bridge.py): messages are files that other programs     *)
(* write into an inbox; a coroutine polls it, takes the files it finds,    *)
(* has each message answered by the runtime, and writes the replies.       *)
(*                                                                         *)
(* A message is named by its file; files are taken in the order of their   *)
(* names, here numbers.  Their writers may be halfway when they are read.  *)
(***************************************************************************)
EXTENDS Naturals, FiniteSets, FiniteSetsExt

CONSTANTS
  Msg,        \* the messages
  MaxFaults   \* bound: file operations that fail

ASSUME BridgeConstants == Msg \subseteq Nat /\ IsFiniteSet(Msg) /\ MaxFaults \in Nat

VARIABLES
  file,       \* a message's file in the inbox: "none", "partial", "whole"
  invalid,    \* the files in inbox/_invalid
  listing,    \* the files the poll under way has still to read
  batch,      \* messages taken and not yet handled
  handling,   \* the message on_message works on, in a set
  hub,        \* the coroutine: "off", "poll", "read", "handle"
  processed, failed,
  sent,       \* history: messages whose file was begun
  handled,    \* history: how often each was handed to on_message
  replies,    \* history: how often each was replied to
  lost,       \* history: messages taken, then given up by a stop or a crash
  kept,       \* history: messages taken whose file stayed in the inbox
  faults      \* file operations, or pairs of them, that failed

inbox      == <<file, invalid, sent>>
turn       == <<listing, batch, handling, hub>>
tallies    == <<processed, failed>>
past       == <<handled, replies, lost, kept>>
bridgeVars == <<inbox, turn, tallies, past, faults>>

Bump(f, m) == [f EXCEPT ![m] = @ + 1]
Fault == faults < MaxFaults /\ faults' = faults + 1

BridgeInit ==
  /\ file = [m \in Msg |-> "none"] /\ invalid = {} /\ sent = {}
  /\ listing = {} /\ batch = {} /\ handling = {} /\ hub = "off"
  /\ processed = 0 /\ failed = 0
  /\ handled = [m \in Msg |-> 0] /\ replies = [m \in Msg |-> 0]
  /\ lost = {} /\ kept = {} /\ faults = 0

\* A writer: its file appears empty, and is whole later.
Begin(m) ==
  /\ m \notin sent
  /\ sent' = sent \cup {m}
  /\ file' = [file EXCEPT ![m] = "partial"]
  /\ UNCHANGED <<invalid, turn, tallies, past, faults>>

Fill(m) ==
  /\ file[m] = "partial"
  /\ file' = [file EXCEPT ![m] = "whole"]
  /\ UNCHANGED <<invalid, sent, turn, tallies, past, faults>>

(* poll_inbox: reads its files without giving way to the event loop *)

\* (mutant) nothing taken while a file is being written
PollWhenWhole ==
  /\ hub = "poll"
  /\ \A m \in Msg : file[m] # "partial"
  /\ listing' = {m \in Msg : file[m] # "none"}
  /\ listing' # {}
  /\ hub' = "read"
  /\ UNCHANGED <<inbox, batch, handling, tallies, past, faults>>

Poll ==
  /\ hub = "poll"
  /\ listing' = {m \in Msg : file[m] # "none"}
  /\ listing' # {}
  /\ hub' = "read"
  /\ UNCHANGED <<inbox, batch, handling, tallies, past, faults>>

\* The file at hand leaves the inbox for _invalid, or the rename fails and it stays.
Quarantine(m) ==
  \/ invalid' = invalid \cup {m} /\ file' = [file EXCEPT ![m] = "none"] /\ UNCHANGED faults
  \/ Fault /\ UNCHANGED <<file, invalid>>

\* After the last file, the batch is handled; an empty one is polled for again.
AfterRead(m, taken) ==
  /\ batch' = batch \cup taken
  /\ listing' = listing \ {m}
  /\ hub' = IF listing' # {} THEN "read" ELSE IF batch' # {} THEN "handle" ELSE "poll"
  /\ UNCHANGED <<sent, handling, tallies, handled, replies, lost>>

\* A whole file is taken, then unlinked; if that fails the message, taken, is quarantined too.
Take(m) ==
  /\ hub = "read" /\ m = Min(listing) /\ file[m] = "whole"
  /\ AfterRead(m, {m})
  /\ \/ file' = [file EXCEPT ![m] = "none"] /\ UNCHANGED <<invalid, kept, faults>>
     \/ /\ Fault
        /\ \/ /\ file' = [file EXCEPT ![m] = "none"]
              /\ invalid' = invalid \cup {m}
              /\ UNCHANGED kept
           \/ kept' = kept \cup {m} /\ UNCHANGED <<file, invalid>>

\* A file that does not parse: malformed, or still being written.
Reject(m) ==
  /\ hub = "read" /\ m = Min(listing) /\ file[m] = "partial"
  /\ AfterRead(m, {})
  /\ Quarantine(m)
  /\ UNCHANGED kept

(* _handle, which awaits the answer of the runtime *)

Handle ==
  /\ hub = "handle" /\ handling = {} /\ batch # {}
  /\ handling' = {Min(batch)}
  /\ batch' = batch \ handling'
  /\ handled' = Bump(handled, Min(batch))
  /\ UNCHANGED <<inbox, listing, hub, tallies, replies, lost, kept, faults>>

\* (mutant) an error reply only when on_message raised
ReplyOrNot(m) ==
  /\ m \in handling
  /\ \/ processed' = processed + 1 /\ UNCHANGED <<failed, faults>> /\ replies' = Bump(replies, m)
     \/ failed' = failed + 1 /\ UNCHANGED <<processed, replies, faults>>
  /\ handling' = {}
  /\ hub' = IF batch = {} THEN "poll" ELSE "handle"
  /\ UNCHANGED <<inbox, listing, batch, handled, lost, kept>>

\* The answer is written.  If on_message raises, or the write, an error reply is written
\* instead; if that fails too there is no reply.
Reply(m) ==
  /\ m \in handling
  /\ \/ /\ processed' = processed + 1 /\ UNCHANGED <<failed, faults>>
        /\ replies' = Bump(replies, m)
     \/ /\ failed' = failed + 1 /\ UNCHANGED processed
        /\ \/ replies' = Bump(replies, m) /\ UNCHANGED faults
           \/ Fault /\ UNCHANGED replies
  /\ handling' = {}
  /\ hub' = IF batch = {} THEN "poll" ELSE "handle"
  /\ UNCHANGED <<inbox, listing, batch, handled, lost, kept>>

(* start, and what ends the coroutine: a stop, at one of its awaits, or a crash, anywhere *)

Abandon ==
  /\ lost' = lost \cup batch \cup handling
  /\ listing' = {} /\ batch' = {} /\ handling' = {} /\ hub' = "off"
  /\ UNCHANGED <<inbox, handled, replies, kept, faults>>

BridgeStart ==
  /\ hub = "off"
  /\ hub' = "poll"
  /\ UNCHANGED <<inbox, listing, batch, handling, tallies, past, faults>>

BridgeStop  == hub \in {"poll", "handle"} /\ Abandon /\ UNCHANGED tallies
BridgeCrash == hub # "off" /\ Abandon /\ processed' = 0 /\ failed' = 0

BridgeStep == Poll \/ Handle \/ \E m \in Msg : Take(m) \/ Reject(m) \/ Reply(m)

BridgeNext ==
  \/ \E m \in Msg : Begin(m) \/ Fill(m)
  \/ BridgeStep
  \/ BridgeStart \/ BridgeStop \/ BridgeCrash

\* The event loop runs, and the runtime answers or raises.
BridgeFairness == WF_bridgeVars(BridgeStep)

BridgeSpec == BridgeInit /\ [][BridgeNext]_bridgeVars /\ BridgeFairness

---------------------------------------------------------------------------
\* The types, and one message at a time: files are read, or a batch is handled, never both.
BridgeTypeOK ==
  /\ file \in [Msg -> {"none", "partial", "whole"}]
  /\ invalid \subseteq Msg /\ sent \subseteq Msg
  /\ listing \subseteq Msg /\ batch \subseteq Msg /\ handling \subseteq Msg
  /\ hub \in {"off", "poll", "read", "handle"}
  /\ listing # {} <=> hub = "read"
  /\ hub = "handle" <=> batch \cup handling # {} /\ listing = {}
  /\ Cardinality(handling) <= 1
  /\ processed \in Nat /\ failed \in Nat
  /\ handled \in [Msg -> Nat] /\ replies \in [Msg -> Nat]
  /\ lost \subseteq Msg /\ kept \subseteq Msg
  /\ faults \in 0..MaxFaults

\* A message is handed to the runtime once, whatever stops, crashes and restarts come in
\* between; only a file that can neither be unlinked nor moved is handled again.
AtMostOnce == \A m \in Msg \ kept : handled[m] <= 1

\* A message taken out of the inbox does not vanish: it is quarantined, waits in the batch,
\* is being answered, has its reply, or was given up by a stop or a crash.  A reply is missing
\* only if the outbox refused it.
NoneVanishes ==
  /\ \A m \in sent : \/ file[m] # "none" \/ m \in invalid
                     \/ m \in batch \cup handling \cup lost
                     \/ handled[m] > 0
  /\ \A m \in Msg : handled[m] > 0 /\ m \notin handling \cup lost
                      => replies[m] = handled[m] \/ faults > 0

\* A message is handled once, or the files say why not.
HandledOnce == AtMostOnce /\ NoneVanishes

\* A running bridge handles every whole file it is given.
BridgeAnswers == \A m \in Msg :
  file[m] = "whole" /\ hub # "off" ~> hub = "off" \/ handled[m] > 0 \/ m \in invalid
=============================================================================
