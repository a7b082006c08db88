----------------------------- MODULE MC_Streams -----------------------------
(***************************************************************************)
(* One TLC instance for the two streams of the web server, which share no  *)
(* state: /api/events and the stream of a chat request.  `part` is the one *)
(* that runs; the other stays in its initial state, in which none of its   *)
(* fair actions is enabled.                                                *)
(***************************************************************************)
EXTENDS WebEvents, RequestStream

VARIABLE part

streams == <<part, webVars, chatVars>>

StreamsInit == part \in {"events", "chat"} /\ WebInit /\ ChatInit

StreamsNext ==
  \/ part = "events" /\ WebNext  /\ UNCHANGED <<part, chatVars>>
  \/ part = "chat"   /\ ChatNext /\ UNCHANGED <<part, webVars>>

StreamsSpec == StreamsInit /\ [][StreamsNext]_streams /\ WebFairness /\ StreamFairness
=============================================================================
