----------------------------- MODULE WebEvents -----------------------------
(***************************************************************************)
(* The event stream of the web server (app/web_server.py): training        *)
(* threads hand events to _event_sink, which never blocks; one dispatcher  *)
(* thread numbers them and keeps the last few; every client of             *)
(* /api/events is a generator in a Flask thread that reads what is kept.   *)
(*                                                                         *)
(* A step is what a thread does under _event_condition, one operation on   *)
(* the queue, or one event yielded to a client.  An event is the number of *)
(* its acceptance into the queue.                                          *)
(***************************************************************************)
EXTENDS Naturals, Sequences, SequencesExt

CONSTANTS
  Emitter,        \* threads that emit events
  Client,         \* clients of /api/events
  BufferLimit,    \* _EVENT_BUFFER_LIMIT
  HistoryLimit,   \* _EVENT_HISTORY_LIMIT
  MaxEvents,      \* bound: events emitted
  Nobody

ASSUME WebConstants ==
  /\ BufferLimit \in Nat \ {0} /\ HistoryLimit \in Nat \ {0} /\ MaxEvents \in Nat
  /\ Nobody \notin Nat

VARIABLES
  emitted,    \* events emitted so far
  accepted,   \* events the queue took
  at,         \* where each emitter is
  started,    \* _event_dispatcher_started
  hands,      \* per dispatcher thread, the event it took from the queue
  buffer,     \* _event_buffer
  history,    \* _event_history: ids and events
  seq,        \* _event_seq
  phase,      \* where each client's generator is
  last,       \* its last_id
  pending,    \* the ids it has still to yield
  got,        \* history: the ids it has yielded, in order
  from        \* history: its last_id when it connected

emission == <<emitted, accepted, at, started, buffer>>
clients  == <<phase, last, pending, got, from>>
webVars     == <<emission, hands, history, seq, clients>>

Newest == IF history = <<>> THEN 0 ELSE Last(history).id
Oldest == IF history = <<>> THEN 0 ELSE Head(history).id

---------------------------------------------------------------------------
WebInit ==
  /\ emitted = 0 /\ accepted = 0 /\ at = [e \in Emitter |-> "idle"]
  /\ started = FALSE /\ hands = <<>>
  /\ buffer = <<>> /\ history = <<>> /\ seq = 0
  /\ phase = [c \in Client |-> "out"] /\ last = [c \in Client |-> 0]
  /\ pending = [c \in Client |-> <<>>]
  /\ got = [c \in Client |-> <<>>] /\ from = [c \in Client |-> 0]

GoesOn(e, l) == at' = [at EXCEPT ![e] = l]

\* _event_sink; _ensure_event_dispatcher reads the flag without the lock
Emit(e) ==
  /\ at[e] = "idle" /\ emitted < MaxEvents
  /\ emitted' = emitted + 1
  /\ GoesOn(e, IF started THEN "put" ELSE "ensure")
  /\ UNCHANGED <<accepted, started, buffer, hands, history, seq, clients>>

\* (mutant) the flag not read again under the lock
EnsureUnchecked(e) ==
  /\ at[e] = "ensure"
  /\ GoesOn(e, "put")
  /\ started' = TRUE
  /\ hands' = Append(hands, Nobody)
  /\ UNCHANGED <<emitted, accepted, buffer, history, seq, clients>>

\* (mutant) the flag set by a start that failed
EnsureFlagOnly(e) ==
  /\ at[e] = "ensure"
  /\ GoesOn(e, "put")
  /\ started' = TRUE
  /\ UNCHANGED <<emitted, accepted, buffer, hands, history, seq, clients>>

\* ... and again with it.
EnsureDispatcher(e) ==
  /\ at[e] = "ensure"
  /\ GoesOn(e, "put")
  /\ started' = TRUE
  /\ hands' = IF started THEN hands ELSE Append(hands, Nobody)
  /\ UNCHANGED <<emitted, accepted, buffer, history, seq, clients>>

\* put_nowait: a full queue refuses the event, which is lost.
Put(e) ==
  /\ at[e] = "put"
  /\ GoesOn(e, "idle")
  /\ \/ /\ Len(buffer) < BufferLimit
        /\ accepted' = accepted + 1
        /\ buffer' = Append(buffer, accepted + 1)
     \/ Len(buffer) = BufferLimit /\ UNCHANGED <<accepted, buffer>>
  /\ UNCHANGED <<emitted, started, hands, history, seq, clients>>

\* A dispatcher's _event_buffer.get() ...
TakeEvent(d) ==
  /\ hands[d] = Nobody /\ buffer # <<>>
  /\ hands' = [hands EXCEPT ![d] = Head(buffer)]
  /\ buffer' = Tail(buffer)
  /\ UNCHANGED <<emitted, accepted, at, started, history, seq, clients>>

\* ... and its work under the lock: notify_all wakes the clients that wait.
Dispatch(d) ==
  /\ hands[d] # Nobody
  /\ seq' = seq + 1
  /\ LET all == Append(history, [id |-> seq + 1, event |-> hands[d]]) IN
       history' = IF Len(all) > HistoryLimit THEN Tail(all) ELSE all
  /\ hands' = [hands EXCEPT ![d] = Nobody]
  /\ phase' = [c \in Client |-> IF phase[c] = "asleep" THEN "check" ELSE phase[c]]
  /\ UNCHANGED <<emission, last, pending, got, from>>

---------------------------------------------------------------------------
(* A client's generator *)

\* Nothing that happened before is shown: last_id begins at the newest id.
Subscribe(c) ==
  /\ phase[c] = "out"
  /\ phase' = [phase EXCEPT ![c] = "check"]
  /\ last' = [last EXCEPT ![c] = Newest]
  /\ from' = [from EXCEPT ![c] = Newest]
  /\ UNCHANGED <<emission, hands, history, seq, pending, got>>

\* wait_for's predicate
Check(c) ==
  /\ phase[c] = "check"
  /\ phase' = [phase EXCEPT ![c] = IF Newest > last[c] THEN "awake" ELSE "asleep"]
  /\ UNCHANGED <<emission, hands, history, seq, last, pending, got, from>>

\* _EVENT_WAIT_TIMEOUT has passed: a keepalive, and wait_for again.
Keepalive(c) ==
  /\ phase[c] = "asleep"
  /\ phase' = [phase EXCEPT ![c] = "check"]
  /\ UNCHANGED <<emission, hands, history, seq, last, pending, got, from>>

\* How many of the events kept are no newer than an id; their ids ascend.
Seen(since) == CHOOSE k \in 0..Len(history) :
  \A i \in 1..Len(history) : history[i].id > since <=> i > k

\* _snapshot_events_since: a client that lags goes on with the oldest event kept.
Snapshot(c) ==
  /\ phase[c] = "awake"
  /\ LET since == IF last[c] < Oldest - 1 THEN Oldest - 1 ELSE last[c]
         k     == Seen(since)
     IN /\ pending' = [pending EXCEPT ![c] = [i \in 1 .. Len(history) - k |-> history[k + i].id]]
        /\ last' = [last EXCEPT ![c] = IF k = Len(history) THEN since ELSE Newest]
  /\ phase' = [phase EXCEPT ![c] = "yield"]
  /\ UNCHANGED <<emission, hands, history, seq, got, from>>

Yield(c) ==
  /\ phase[c] = "yield"
  /\ \/ /\ pending[c] # <<>>
        /\ got' = [got EXCEPT ![c] = Append(@, Head(pending[c]))]
        /\ pending' = [pending EXCEPT ![c] = Tail(@)]
        /\ UNCHANGED phase
     \/ /\ pending[c] = <<>>
        /\ phase' = [phase EXCEPT ![c] = "check"]
        /\ UNCHANGED <<got, pending>>
  /\ UNCHANGED <<emission, hands, history, seq, last, from>>

\* The client goes away: noticed at a yield, of an event or of a keepalive.
Disconnect(c) ==
  /\ phase[c] \in {"yield", "asleep"}
  /\ phase' = [phase EXCEPT ![c] = "out"]
  /\ pending' = [pending EXCEPT ![c] = <<>>]
  /\ got' = [got EXCEPT ![c] = <<>>]
  /\ last' = [last EXCEPT ![c] = 0] /\ from' = [from EXCEPT ![c] = 0]
  /\ UNCHANGED <<emission, hands, history, seq>>

EmitterStep(e)    == EnsureDispatcher(e) \/ Put(e)
DispatcherStep(d) == TakeEvent(d) \/ Dispatch(d)
ClientStep(c)     == Check(c) \/ Snapshot(c) \/ Yield(c)

WebNext ==
  \/ \E e \in Emitter : Emit(e) \/ EmitterStep(e)
  \/ \E d \in 1..Len(hands) : DispatcherStep(d)
  \/ \E c \in Client : Subscribe(c) \/ ClientStep(c) \/ Keepalive(c) \/ Disconnect(c)

WebSpec == WebInit /\ [][WebNext]_webVars

\* Threads run, and a client that stays reads.  The keepalive's timeout is not relied on.
WebFairness ==
  /\ \A e \in Emitter : WF_webVars(EmitterStep(e))
  /\ WF_webVars(\E d \in 1..Len(hands) : DispatcherStep(d))
  /\ \A c \in Client : WF_webVars(ClientStep(c))

FairWebSpec == WebSpec /\ WebFairness

---------------------------------------------------------------------------
\* The types, and the limits: neither the queue nor the history outgrows its own.
WebTypeOK ==
  /\ emitted \in 0..MaxEvents /\ accepted \in 0..MaxEvents
  /\ at \in [Emitter -> {"idle", "ensure", "put"}]
  /\ started \in BOOLEAN
  /\ hands \in Seq(1..MaxEvents \cup {Nobody})
  /\ buffer \in Seq(1..MaxEvents) /\ Len(buffer) <= BufferLimit
  /\ history \in Seq([id : 1..MaxEvents, event : 1..MaxEvents]) /\ Len(history) <= HistoryLimit
  /\ seq \in 0..MaxEvents
  /\ phase \in [Client -> {"out", "check", "asleep", "awake", "yield"}]
  /\ last \in [Client -> 0..MaxEvents] /\ from \in [Client -> 0..MaxEvents]
  /\ pending \in [Client -> Seq(1..MaxEvents)] /\ got \in [Client -> Seq(1..MaxEvents)]

Ascending(s) == \A i, j \in 1..Len(s) : i < j => s[i] < s[j]

\* However the emitters race to start the dispatcher, events keep the order of their
\* acceptance, and each has one id.
InOrder ==
  LET shown == [i \in 1..Len(history) |-> history[i].event]
      held  == {d \in 1..Len(hands) : hands[d] # Nobody}
  IN /\ Ascending(shown) /\ Ascending(buffer)
     /\ \A i \in 1..Len(shown), j \in 1..Len(buffer) : shown[i] < buffer[j]
     /\ \A d \in held : /\ \A i \in 1..Len(shown) : shown[i] < hands[d]
                        /\ \A j \in 1..Len(buffer) : hands[d] < buffer[j]
     /\ \A d, e \in held : d # e => hands[d] # hands[e]

\* A client is shown every id once, in order, but for those that the history had already
\* dropped when it came to read them.
ShownOnce == \A c \in Client :
  LET ids == got[c] \o pending[c] IN
  /\ Ascending(ids)
  /\ \A i \in from[c] + 1 .. last[c] : Contains(ids, i) \/ i < Oldest

\* Races of emitters, full buffers and slow clients neither reorder events nor repeat or
\* skip one that the history still has.
EventsKeepOrder == InOrder /\ ShownOnce

\* A client that stays catches up with all that was accepted.
CatchesUp == \A c \in Client : phase[c] # "out" ~> phase[c] = "out" \/ last[c] = accepted
=============================================================================
