---- MODULE MC_Research ----
EXTENDS Research
CONSTANTS s1, s2
MCWatched == {s1, s2}
MCPrices == {[s \in MCWatched |-> IF s = s1 THEN <<100, 97, 105>> ELSE <<100, 90, 101>>],
             [s \in MCWatched |-> IF s = s1 THEN <<100, 101, 98>> ELSE <<100, 93, 92>>]}
MCBuys == {s1}
MCRegimeOf == [d \in 1..3 |-> IF d = 3 THEN "bear" ELSE "bull"]
MCHorizons == {1, 2}
MCIdOrder == [hit |-> 3, miss |-> 5, invalidated |-> 1, not_triggered |-> 2, timeout |-> 4]
ResearchTypeOK ==
  /\ today \in 1..MaxDay /\ fails \in 0..MaxFails /\ begun \in 0..MaxCases
  /\ asker.pc \in {"idle", "case", "writing", "score"}
  /\ trainer.pc \in {"idle", "next", "case", "writing", "score", "feedback"}
====
