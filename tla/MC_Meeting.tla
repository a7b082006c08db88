----------------------------- MODULE MC_Meeting -----------------------------
(* Three candidates; a momentum and a mean-reversion model, each with two  *)
(* agents of its roster, and a contrarian that is shown two of the three   *)
(* candidates or none.  The LLM may name a stock that is no candidate, one *)
(* that was not shown, or one twice.                                       *)
EXTENDS Meeting

Offered(model, reading, score, hint, data, oversold) ==
  [model |-> model, reading |-> reading, candidates |-> <<"a", "b", "c">>,
   algo |-> [a |-> 60, b |-> 60, c |-> 80], score |-> score, hint |-> hint, max |-> 2, data |-> data,
   oversold |-> oversold, rebound |-> [b |-> 75, c |-> 50]]

MCPackets ==
  {Offered("momentum", "bear", [a |-> 30, b |-> 70], [a |-> 6000], {"a", "b"}, <<>>),
   Offered("mean_reversion", "unknown", [c |-> 10], [c |-> 0], {"a", "b", "c", "x"}, <<"b", "c">>),
   Offered("mean_reversion", "unknown", [c |-> 10], [c |-> 0], {"b", "x"}, <<>>)}

Said(picks, conf, selected) ==
  [kind |-> "said", picks |-> picks, conf |-> conf, selected |-> selected]
Pick(c, s) == [code |-> c, score |-> s]

MCReplies ==
  {Said(<<Pick("b", 90), Pick("a", 40)>>, 80, <<>>),
   Said(<<Pick("x", 90)>>, 120, <<"x">>),
   Said(<<Pick("a", 0), Pick("c", 150), Pick("a", 70)>>, 0, <<>>),
   [Said(<<>>, 50, <<>>) EXCEPT !.kind = "broken"],
   [Said(<<>>, 50, <<>>) EXCEPT !.kind = "garbled"]}

Judged(says, conf) == [says |-> says, conf |-> conf, wordy |-> FALSE]

MCVerdicts ==
  {Judged("buy", 80), Judged("avoid", 60), Judged("missing", 0),
   [says |-> "buy", conf |-> 0, wordy |-> TRUE]}

MCWeighings == {[trend_hunter |-> 15, contrarian |-> 5]}

Room(max, size, cash, threshold) ==
  [max |-> max, size |-> size, cash |-> cash, threshold |-> threshold, enforced |-> threshold > 0]

MCAllowance ==
  [unknown |-> Room(3, 5000, 2000, 0), bull |-> Room(2, 4000, 3001, 0),
   oscillation |-> Room(2, 3000, 3000, 0), bear |-> Room(1, 3500, 5000, 35)]
=============================================================================
