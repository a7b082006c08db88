--------------------------- MODULE RequestStream ---------------------------
(***************************************************************************)
(* The stream of one chat request: POST /api/chat/stream                   *)
(* (app/interfaces/web/routes/command.py) and the subscriptions of the     *)
(* CommanderRuntime it reads (app/commander.py).                           *)
(*                                                                         *)
(* Three threads serve a stream: the event loop, which runs the request's  *)
(* coroutine and publishes its events; the worker, which waits for the     *)
(* coroutine's result; and the generator, which writes to the client.      *)
(* A subscription matches by request_id, which a client may choose: the    *)
(* streams here are those of one request_id, a request and its retries,    *)
(* and each gets the packets of all.                                       *)
(***************************************************************************)
EXTENDS Naturals, Sequences, FiniteSets

CONSTANTS
  Stream,       \* the streams of the request_id
  Text,         \* display texts
  QueueLimit,   \* maxsize of a subscription's queue
  MaxPackets,   \* bound: events published
  Unset

ASSUME StreamConstants ==
  /\ QueueLimit \in Nat \ {0} /\ MaxPackets \in Nat
  /\ Unset \notin Stream \cup Text

VARIABLES
  subs,        \* _event_subscriptions
  queue,       \* a subscription's event_queue: packet numbers
  lastText,    \* its last_display_by_key, for the one packet key modelled
  recorded,    \* the packets of its emitted_count, in order
  made,        \* packets published so far
  pub,         \* the publication under way in the event loop
  ask,         \* a stream's coroutine: "none", "running", "ended"
  worker,      \* its worker thread: "none", "waiting", "set", "completed"
  result,      \* its result_holder: "reply", "error" or Unset
  gen,         \* where its generator is
  read,        \* history: the packets yielded, in order
  dropped,     \* history: the packets a full queue dropped
  early        \* history: the packets in the queue when `completed` was set

chatLoop == <<made, pub, ask>>
sub     == <<queue, lastText, recorded>>
work    == <<worker, result, early>>
writer  == <<gen, read>>
chatVars    == <<subs, sub, chatLoop, work, writer, dropped>>

Elements(s) == {s[i] : i \in 1..Len(s)}
Set(f, s, v) == [f EXCEPT ![s] = v]

Quiet == [at |-> "offer", n |-> 0, text |-> Unset, todo |-> {}, to |-> Unset]
\* The subscriptions the publication has still to offer its packet to
Proceed(todo) == pub' = IF todo = {} THEN Quiet
                        ELSE [pub EXCEPT !.at = "offer", !.todo = todo, !.to = Unset]

---------------------------------------------------------------------------
ChatInit ==
  /\ subs = {} /\ queue = [s \in Stream |-> <<>>]
  /\ lastText = [s \in Stream |-> Unset] /\ recorded = [s \in Stream |-> <<>>]
  /\ made = 0 /\ pub = Quiet /\ ask = [s \in Stream |-> "none"]
  /\ worker = [s \in Stream |-> "none"] /\ result = [s \in Stream |-> Unset]
  /\ gen = [s \in Stream |-> "none"] /\ read = [s \in Stream |-> <<>>]
  /\ dropped = [s \in Stream |-> {}] /\ early = [s \in Stream |-> {}]

\* The route subscribes, then starts the worker, which submits the coroutine.
Open(s) ==
  /\ gen[s] = "none"
  /\ subs' = subs \cup {s}
  /\ ask' = Set(ask, s, "running")
  /\ worker' = Set(worker, s, "waiting")
  /\ gen' = Set(gen, s, "new")
  /\ UNCHANGED <<sub, made, pub, result, early, read, dropped>>

(* _publish_stream_event, in the event loop: one publication at a time *)

\* An event of this stream's coroutine, or of an earlier stream's, which outlives its client
Publish ==
  /\ pub = Quiet /\ made < MaxPackets
  /\ made' = made + 1
  /\ \E t \in Text :
       pub' = IF subs = {} THEN Quiet
              ELSE [at |-> "offer", n |-> made + 1, text |-> t, todo |-> subs, to |-> Unset]
  /\ UNCHANGED <<subs, sub, ask, work, writer, dropped>>

\* A subscription given up meanwhile: its queue has no reader.
Discard(s) ==
  /\ pub.at = "offer" /\ s \in pub.todo \ subs
  /\ Proceed(pub.todo \ {s})
  /\ UNCHANGED <<subs, sub, made, ask, work, writer, dropped>>

\* _should_emit_stream_packet: the text shown last is not shown again.
Suppress(s) ==
  /\ pub.at = "offer" /\ s \in pub.todo \cap subs
  /\ lastText[s] = pub.text
  /\ Proceed(pub.todo \ {s})
  /\ UNCHANGED <<subs, sub, made, ask, work, writer, dropped>>

\* The packet is recorded, then offered to the queue.
Offer(s) ==
  /\ pub.at = "offer" /\ s \in pub.todo \cap subs
  /\ lastText[s] # pub.text
  /\ lastText' = Set(lastText, s, pub.text)
  /\ recorded' = [recorded EXCEPT ![s] = Append(@, pub.n)]
  /\ \/ /\ Len(queue[s]) < QueueLimit
        /\ queue' = [queue EXCEPT ![s] = Append(@, pub.n)]
        /\ Proceed(pub.todo \ {s})
     \/ /\ Len(queue[s]) = QueueLimit
        /\ pub' = [pub EXCEPT !.at = "full", !.todo = @ \ {s}, !.to = s]
        /\ UNCHANGED queue
  /\ UNCHANGED <<subs, made, ask, work, writer, dropped>>

\* queue.Full: the oldest packet makes room; the reader may have emptied the queue meanwhile.
DropOldest ==
  /\ pub.at = "full"
  /\ LET s == pub.to IN
       \/ /\ queue[s] # <<>>
          /\ dropped' = [dropped EXCEPT ![s] = @ \cup {Head(queue[s])}]
          /\ queue' = [queue EXCEPT ![s] = Tail(@)]
       \/ queue[s] = <<>> /\ UNCHANGED <<dropped, queue>>
  /\ pub' = [pub EXCEPT !.at = "again"]
  /\ UNCHANGED <<subs, lastText, recorded, made, ask, work, writer>>

\* (mutant) room made, and the packet forgotten
OfferOnce ==
  /\ pub.at = "again"
  /\ Proceed(pub.todo)
  /\ UNCHANGED <<subs, sub, made, ask, work, writer, dropped>>

\* Room was made, and the loop thread is alone in filling it.
OfferAgain ==
  /\ pub.at = "again"
  /\ queue' = IF pub.to \in subs THEN [queue EXCEPT ![pub.to] = Append(@, pub.n)] ELSE queue
  /\ Proceed(pub.todo)
  /\ UNCHANGED <<subs, lastText, recorded, made, ask, work, writer, dropped>>

AskEnds(s) ==
  /\ pub = Quiet /\ ask[s] = "running"
  /\ ask' = Set(ask, s, "ended")
  /\ UNCHANGED <<subs, sub, made, pub, work, writer, dropped>>

---------------------------------------------------------------------------
(* run_request, in the worker thread *)

\* The coroutine's reply or exception, or the TimeoutError of future.result(timeout=600),
\* which leaves the coroutine running.
WorkerResult(s) ==
  /\ worker[s] = "waiting"
  /\ \/ ask[s] = "ended" /\ result' \in {Set(result, s, r) : r \in {"reply", "error"}}
     \/ ask[s] = "running" /\ result' = Set(result, s, "error")
  /\ worker' = Set(worker, s, "set")
  /\ UNCHANGED <<subs, sub, chatLoop, writer, dropped, early>>

\* (mutant) completed.set() outside `finally`
CompleteOnReply(s) ==
  /\ worker[s] = "set" /\ result[s] = "reply"
  /\ worker' = Set(worker, s, "completed")
  /\ early' = IF s \in subs THEN Set(early, s, Elements(queue[s])) ELSE early
  /\ UNCHANGED <<subs, sub, chatLoop, writer, dropped, result>>

\* `finally: completed.set()`
Complete(s) ==
  /\ worker[s] = "set"
  /\ worker' = Set(worker, s, "completed")
  /\ early' = IF s \in subs THEN Set(early, s, Elements(queue[s])) ELSE early
  /\ UNCHANGED <<subs, sub, chatLoop, writer, dropped, result>>

---------------------------------------------------------------------------
(* generate, in the thread that writes the response *)

GenGoto(s, l) == gen' = Set(gen, s, l)

Connect(s) ==
  /\ gen[s] = "new"
  /\ GenGoto(s, "stream")
  /\ UNCHANGED <<subs, sub, chatLoop, work, read, dropped>>

\* A packet of the queue, in the first loop or in the second
Write(s) ==
  /\ gen[s] \in {"stream", "drain"}
  /\ queue[s] # <<>>
  /\ read' = [read EXCEPT ![s] = Append(@, Head(queue[s]))]
  /\ queue' = [queue EXCEPT ![s] = Tail(@)]
  /\ UNCHANGED <<subs, lastText, recorded, chatLoop, work, gen, dropped>>

\* queue.Empty, after half a second in the first loop, at once in the second
Empty(s) ==
  /\ gen[s] \in {"stream", "drain"}
  /\ queue[s] = <<>>
  /\ GenGoto(s, IF gen[s] = "stream" THEN "check" ELSE "answer")
  /\ UNCHANGED <<subs, sub, chatLoop, work, read, dropped>>

CheckCompleted(s) ==
  /\ gen[s] = "check"
  /\ GenGoto(s, IF worker[s] = "completed" THEN "drain" ELSE "stream")
  /\ UNCHANGED <<subs, sub, chatLoop, work, read, dropped>>

\* `finally`: unsubscribe_event_stream, and the queue and the generator are garbage.
Over(s) ==
  /\ GenGoto(s, "over")
  /\ subs' = subs \ {s}
  /\ queue' = Set(queue, s, <<>>) /\ lastText' = Set(lastText, s, Unset)
  /\ recorded' = Set(recorded, s, <<>>) /\ read' = Set(read, s, <<>>)
  /\ early' = Set(early, s, {}) /\ dropped' = Set(dropped, s, {})
  /\ UNCHANGED <<chatLoop, worker, result>>

\* The summary and the answer
Answer(s) == gen[s] = "answer" /\ Over(s)

\* The client goes away: GeneratorExit at a yield runs the `finally` too; a generator that
\* was never begun has none to run, and its subscription stays.
Gone(s) ==
  \/ gen[s] \in {"stream", "drain", "answer"} /\ Over(s)
  \/ /\ gen[s] = "new"
     /\ GenGoto(s, "abandoned")
     /\ UNCHANGED <<subs, sub, chatLoop, work, read, dropped>>

PublisherStep == \/ \E s \in Stream : Discard(s) \/ Suppress(s) \/ Offer(s)
                 \/ DropOldest \/ OfferAgain
WorkerStep(s) == WorkerResult(s) \/ Complete(s)
WriterStep(s) == Connect(s) \/ Write(s) \/ Empty(s) \/ CheckCompleted(s) \/ Answer(s)

ChatNext ==
  \/ Publish \/ PublisherStep
  \/ \E s \in Stream : Open(s) \/ AskEnds(s) \/ WorkerStep(s) \/ WriterStep(s) \/ Gone(s)

ChatSpec == ChatInit /\ [][ChatNext]_chatVars

\* Threads run; no coroutine has to end.
StreamFairness ==
  /\ WF_chatVars(PublisherStep)
  /\ \A s \in Stream : WF_chatVars(WorkerStep(s)) /\ WF_chatVars(WriterStep(s))

FairChatSpec == ChatSpec /\ StreamFairness

---------------------------------------------------------------------------
\* The types, and the limit of a subscription's queue.
ChatTypeOK ==
  /\ subs \subseteq Stream
  /\ queue \in [Stream -> Seq(1..MaxPackets)]
  /\ \A s \in Stream : Len(queue[s]) <= QueueLimit
  /\ lastText \in [Stream -> Text \cup {Unset}]
  /\ recorded \in [Stream -> Seq(1..MaxPackets)]
  /\ made \in 0..MaxPackets
  /\ pub \in [at : {"offer", "full", "again"}, n : 0..MaxPackets,
              text : Text \cup {Unset}, todo : SUBSET Stream, to : Stream \cup {Unset}]
  /\ ask \in [Stream -> {"none", "running", "ended"}]
  /\ worker \in [Stream -> {"none", "waiting", "set", "completed"}]
  /\ result \in [Stream -> {"reply", "error", Unset}]
  /\ gen \in [Stream -> {"none", "new", "stream", "check", "drain", "answer", "over", "abandoned"}]
  /\ read \in [Stream -> Seq(1..MaxPackets)]
  /\ dropped \in [Stream -> SUBSET (1..MaxPackets)]
  /\ early \in [Stream -> SUBSET (1..MaxPackets)]

Increasing(q) == \A i, j \in 1..Len(q) : i < j => q[i] < q[j]

\* What was in the queue when the request completed has reached the client when its answer
\* is written, or was dropped by a full queue: the client does not miss the end of the story.
AllBeforeAnswer == \A s \in Stream :
  gen[s] = "answer" => early[s] \subseteq Elements(read[s]) \cup dropped[s]

\* A full queue loses old packets, never the newest, and what is left keeps its order.
NewestKept == \A s \in Stream :
  LET sent == read[s] \o queue[s]
      all  == recorded[s]
  IN /\ Increasing(sent)
     /\ pub.to # s /\ all # <<>> => sent # <<>> /\ sent[Len(sent)] = all[Len(all)]

\* What a chat stream writes: all that a full queue left, in order, and before the answer.
StoryIsTold == AllBeforeAnswer /\ NewestKept

\* Every subscription is given up, but that of a response never begun.
SubscriptionEnds == \A s \in Stream : s \in subs ~> s \notin subs \/ gen[s] = "abandoned"
=============================================================================
