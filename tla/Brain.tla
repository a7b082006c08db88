------------------------------- MODULE Brain -------------------------------
(***************************************************************************)
(* The agent loop of the Commander (brain/runtime.py, brain/guardrails.py, *)
(* brain/tools.py): requests of one chat session, each an explicit tool    *)
(* call, a builtin intent or a loop of LLM replies with tool calls.        *)
(*                                                                         *)
(* Requests are coroutines of one event loop: they interleave where they   *)
(* await, at the LLM's reply and in a tool.  What a tool answers is left   *)
(* out; what it may change, and what is asked of its arguments, is kept.   *)
(***************************************************************************)
EXTENDS Naturals, Sequences, FiniteSets, SequencesExt

CONSTANTS
  Request,        \* the coroutines that take requests of the session, one at a time each
  Calls,          \* the tool calls that may be asked for: a set of Call
  MaxIterations,  \* max_iterations
  MaxCalls,       \* bound: tool calls in one reply of the LLM
  Window          \* memory_window

\* "gated": the guardrails know it, and it asks for confirm = true first: a configuration
\* update, several real rounds of training, a download.  "direct": the guardrails know it, and
\* it changes state at once: a training plan created or executed, a prompt, one round or mock
\* rounds, a minor setting.  "free": it changes state and the guardrails do not know it: a
\* reload, a cron job, the quick test.  "read": it changes nothing.  "unknown": not registered.
Tool == {"gated", "direct", "free", "read", "unknown"}

\* args: a JSON object that fits the tool's schema, one that does not, one with a
\* placeholder such as "<path>", one against the tool's own rule (an empty patch, a patch
\* of another scope, a plan with contradictions or without id), or no JSON object at all
Call == [tool : Tool, args : {"fit", "unfit", "placeholder", "forbidden", "unparsable"},
         confirm : BOOLEAN]

ASSUME BrainConstants ==
  /\ Calls \subseteq Call
  /\ {MaxIterations, MaxCalls, Window} \subseteq Nat \ {0}

VARIABLES
  req,       \* where each request is
  messages,  \* the messages of its loop: the ids of the calls an assistant message asks
             \* for, or of the call a tool message answers
  session,   \* the session's messages: who spoke, in which request
  changes    \* ghost: the calls that changed something

brainVars == <<req, messages, session, changes>>

Fresh == [at |-> "idle", mode |-> "none", left |-> <<>>, rounds |-> 0, next |-> 1]

BrainInit ==
  /\ req = [r \in Request |-> Fresh]
  /\ messages = [r \in Request |-> <<>>]
  /\ session = <<>>
  /\ changes = {}

---------------------------------------------------------------------------
(* Tools *)

Guarded == {"gated", "direct"}         \* RuntimeGuardrails._MUTATING_TOOLS

\* (mutant) a tool that asks for no confirmation is left to its schema
Blocked_GatedOnly(call) == call.tool = "gated" /\ call.args \in {"placeholder", "forbidden"}

\* RuntimeGuardrails.evaluate
Blocked(call) == call.tool \in Guarded /\ call.args \in {"placeholder", "forbidden"}

\* Not run: arguments that are no JSON object come before the guardrails
Refused(call) == call.args = "unparsable" \/ Blocked(call)

\* BrainToolRegistry.execute: an unknown tool and arguments that do not fit are errors;
\* without `confirm` a gated tool answers "confirmation_required"
Changes(call) ==
  /\ call.tool \in {"gated", "direct", "free"}
  /\ call.args \notin {"unfit", "unparsable"}
  /\ call.tool = "gated" => call.confirm

---------------------------------------------------------------------------
(* A turn of the session *)

Trimmed(s) == IF Len(s) > 4 * Window THEN SubSeq(s, Len(s) - 4 * Window + 1, Len(s)) ELSE s

\* What _build_messages shows the LLM of it
Shown == SubSeq(session, IF Len(session) > Window THEN Len(session) - Window + 1 ELSE 1,
                Len(session))

\* _append_turn, at the end of process_direct: there is no await between the two messages
AppendTurn(r) ==
  session' = Trimmed(session \o <<[who |-> "user", r |-> r], [who |-> "assistant", r |-> r]>>)

Answered(r) ==
  /\ req' = [req EXCEPT ![r] = [@ EXCEPT !.at = "done", !.left = <<>>]]
  /\ AppendTurn(r)

\* "/tool <name> <json>": refused at once, or run
AskTool(r, call) ==
  /\ req[r].at \in {"idle", "done"}
  /\ IF Refused(call)
     THEN /\ req' = [req EXCEPT ![r] = [Fresh EXCEPT !.at = "done", !.mode = "explicit"]]
          /\ AppendTurn(r)
     ELSE /\ req' = [req EXCEPT ![r] = [Fresh EXCEPT !.at = "tool", !.mode = "explicit",
                                                     !.left = <<call>>]]
          /\ UNCHANGED session
  /\ messages' = [messages EXCEPT ![r] = <<>>]
  /\ UNCHANGED changes

\* _try_builtin_intent: the words of the message choose a tool, and the code makes its
\* arguments, the number of rounds and `confirm` when the message has such a word; no
\* guardrail is asked
AskBuiltin(r, call) ==
  /\ req[r].at \in {"idle", "done"}
  /\ call.tool # "unknown" /\ call.args \in {"fit", "unfit"}
  /\ req' = [req EXCEPT ![r] = [Fresh EXCEPT !.at = "tool", !.mode = "builtin", !.left = <<call>>]]
  /\ messages' = [messages EXCEPT ![r] = <<>>]
  /\ UNCHANGED <<session, changes>>

\* (mutant) the question is put into the session before the answer is known
AskLoop_Noted(r) ==
  /\ req[r].at \in {"idle", "done"}
  /\ req' = [req EXCEPT ![r] = [Fresh EXCEPT !.at = "llm", !.mode = "loop"]]
  /\ messages' = [messages EXCEPT ![r] = <<>>]
  /\ session' = Trimmed(Append(session, [who |-> "user", r |-> r]))
  /\ UNCHANGED changes

\* The LLM's turn: _build_messages
AskLoop(r) ==
  /\ req[r].at \in {"idle", "done"}
  /\ req' = [req EXCEPT ![r] = [Fresh EXCEPT !.at = "llm", !.mode = "loop"]]
  /\ messages' = [messages EXCEPT ![r] = <<>>]
  /\ UNCHANGED <<session, changes>>

\* The LLM cannot be used: there is an answer all the same.  Without a configured gateway
\* the loop is not entered.
Unavailable(r) ==
  /\ req[r].at = "llm"
  /\ Answered(r)
  /\ UNCHANGED <<messages, changes>>

\* A final text, an empty one too
Reply(r) ==
  /\ req[r].at = "llm"
  /\ Answered(r)
  /\ UNCHANGED <<messages, changes>>

\* A reply with tool calls
ReplyCalls(r, calls) ==
  /\ req[r].at = "llm"
  /\ req' = [req EXCEPT ![r] = [@ EXCEPT !.at = "calls", !.left = calls]]
  /\ messages' = [messages EXCEPT ![r] =
       Append(@, [role |-> "assistant", ids |-> [i \in DOMAIN calls |-> req[r].next + i - 1]])]
  /\ UNCHANGED <<session, changes>>

\* The result of a call, an error or a block too, is appended for the LLM
ToolMessage(r, call) ==
  messages' = [messages EXCEPT ![r] = Append(@, [role |-> "tool", ids |-> <<req[r].next>>])]

\* After the last call of a reply comes the LLM again, max_iterations times in all
AfterCall(q) ==
  IF Len(q.left) > 1 THEN [q EXCEPT !.at = "calls", !.left = Tail(@), !.next = @ + 1]
  ELSE [q EXCEPT !.at = IF q.rounds + 1 < MaxIterations THEN "llm" ELSE "over",
                 !.left = <<>>, !.next = @ + 1, !.rounds = @ + 1]

\* The next call of a reply: refused without running, or run
NextCall(r) ==
  /\ req[r].at = "calls"
  /\ LET call == Head(req[r].left) IN
         IF Refused(call)
         THEN /\ ToolMessage(r, call)
              /\ req' = [req EXCEPT ![r] = AfterCall(@)]
         ELSE /\ req' = [req EXCEPT ![r].at = "tool"]
              /\ UNCHANGED messages
  /\ UNCHANGED <<session, changes>>

\* The tool returns or raises, and may have changed something either way
ToolEnds(r) ==
  /\ req[r].at = "tool"
  /\ LET call == Head(req[r].left) IN
     /\ changes' = IF Changes(call) THEN changes \cup {call} ELSE changes
     /\ IF req[r].mode = "loop"
        THEN /\ ToolMessage(r, call) /\ req' = [req EXCEPT ![r] = AfterCall(@)]
             /\ UNCHANGED session
        ELSE Answered(r) /\ UNCHANGED messages

\* "I could not produce a final response within iteration limits."
OutOfRounds(r) ==
  /\ req[r].at = "over"
  /\ Answered(r)
  /\ UNCHANGED <<messages, changes>>

\* The coroutine is cancelled where it waits; its turn is not appended, and a tool may have
\* done its work
Cancelled(r) ==
  /\ req[r].at \in {"llm", "tool"}
  /\ req' = [req EXCEPT ![r] = [@ EXCEPT !.at = "done", !.left = <<>>]]
  /\ \/ UNCHANGED changes
     \/ /\ req[r].at = "tool" /\ Changes(Head(req[r].left))
        /\ changes' = changes \cup {Head(req[r].left)}
  /\ UNCHANGED <<messages, session>>

RequestStep(r) ==
  \/ Unavailable(r) \/ Reply(r) \/ NextCall(r) \/ ToolEnds(r) \/ OutOfRounds(r)
  \/ \E n \in 1..MaxCalls : \E calls \in [1..n -> Calls] : ReplyCalls(r, calls)

BrainNext == \E r \in Request :
  \/ \E call \in Calls : AskTool(r, call) \/ AskBuiltin(r, call)
  \/ AskLoop(r) \/ RequestStep(r) \/ Cancelled(r)

BrainSpec == BrainInit /\ [][BrainNext]_brainVars

---------------------------------------------------------------------------
(* Properties *)

BrainTypeOK ==
  /\ \A r \in Request : req[r].at \in {"idle", "llm", "calls", "tool", "over", "done"}
  /\ Len(session) <= 4 * Window
  /\ \A r \in Request : Len(messages[r]) <= MaxIterations * (1 + MaxCalls)

\* However requests of a session overlap, and however it is trimmed and cut to the window, the
\* LLM is shown questions beside their own answers; only the first message may be an answer
\* alone, when the window cuts a turn in two.
TurnsPaired == \A i \in 1 .. Len(Shown) :
  /\ Shown[i].who = "user" =>
       i < Len(Shown) /\ Shown[i + 1] = [who |-> "assistant", r |-> Shown[i].r]
  /\ Shown[i].who = "assistant" =>
       i = 1 \/ Shown[i - 1] = [who |-> "user", r |-> Shown[i].r]

\* When the LLM is asked again, every tool call it made has its one result, in order,
\* right behind the message that asked: a chat API refuses anything else.
CallsAnswered == \A r \in Request : req[r].at = "llm" =>
  LET m == messages[r] IN
  /\ \A i \in 1 .. Len(m) : m[i].role = "assistant" =>
       \A j \in 1 .. Len(m[i].ids) :
         i + j <= Len(m) /\ m[i + j] = [role |-> "tool", ids |-> <<m[i].ids[j]>>]
  /\ \A i \in 1 .. Len(m) : m[i].role = "tool" =>
       \E k \in 1 .. i - 1 : m[k].role = "assistant" /\ i <= k + Len(m[k].ids)

\* Whatever way a call comes in, spelled out, made of the words of a message or asked for by
\* the LLM: no placeholder, and nothing else that the guardrails are there to stop, went into a
\* configuration, a prompt, a training plan or a run.
ChangesAllowed == \A c \in changes : c.tool \in Guarded => c.args = "fit"

\* What the LLM is shown is a conversation, every question beside its answer and every call
\* beside its result; and what was changed is what the guardrails let through.
CallsAreSound == TurnsPaired /\ CallsAnswered /\ ChangesAllowed
=============================================================================
