--------------------------- MODULE MC_Experiment ---------------------------
(***************************************************************************)
(* The experiments a run of TLC goes through: two to four cycles, three    *)
(* dates and two regimes.                                                  *)
(***************************************************************************)
EXTENDS Experiment

Clean   == [episodes |-> 3, bad |-> FALSE]
Biased  == [episodes |-> 3, bad |-> TRUE]

MCEnd(ret, bench, asked, blocked, fb) ==
  [ret |-> ret, bench |-> bench, sharpe |-> IF ret > 0 THEN 10 ELSE 0, dd |-> IF ret < 0 THEN 20 ELSE 5,
   asked |-> asked, blocked |-> blocked, fb |-> fb, overlay |-> ret < 0, cut |-> blocked > 0]

MCWin    == MCEnd(3, TRUE, 0, 0, Clean)
MCWinWarned == MCEnd(3, TRUE, 0, 0, Biased)
MCLossClean == MCEnd(-2, FALSE, 1, 0, Clean)
MCFlat   == MCEnd(0, FALSE, 0, 0, Silence)
MCLoss   == MCEnd(-2, FALSE, 2, 1, Silence)
MCWarned == MCEnd(-2, FALSE, 1, 0, Biased)
MCRefused == MCEnd(-2, TRUE, 1, 1, Silence)

MCScheme(driver_, mode_, rounds_, routed_, ends_) ==
  [driver |-> driver_, mode |-> mode_, rounds |-> rounds_, routed |-> routed_, seeded |-> driver_ # "validation",
   plan |-> <<>>, spare |-> <<>>, ends |-> ends_, fragile |-> FALSE]

MCSchemes ==
  {MCScheme("training", "fixed", 4, TRUE, {MCWin, MCWinWarned, MCLossClean}),
   MCScheme("training", "fixed", 3, TRUE, {MCFlat, MCLoss, MCWarned, MCRefused}),
   MCScheme("training", "random", 2, TRUE, {MCWin, MCLoss}),
   [MCScheme("training", "fixed", 2, TRUE, {MCWin, MCLoss}) EXCEPT !.fragile = TRUE],
   MCScheme("calibration", "pinned", 2, FALSE, {MCWin, MCLoss}),
   MCScheme("calibration", "balanced", 3, FALSE, {MCWin}),
   [MCScheme("validation", "sequence", 2, FALSE, {MCWin, MCLoss, MCWarned}) EXCEPT
      !.plan = <<1, 2>>, !.spare = <<3>>],
   MCScheme("lab", "rolling", 3, TRUE, {MCWin, MCLoss, MCRefused})}

MCArm(status_, ret_) == [status |-> status_, ret |-> ret_, score |-> ret_, bench |-> ret_ > 0]
MCArms == {MCArm("ok", 1), MCArm("ok", 0), MCArm("error", 0)}
MCTargets == <<"bull", "bear">>
=============================================================================
