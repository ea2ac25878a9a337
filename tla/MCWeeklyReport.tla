--------------------------- MODULE MCWeeklyReport ---------------------------
(* WeeklyReport for TLC.                                                    *)
EXTENDS WeeklyReport, TLC

Symmetric == Permutations(Runs)
=============================================================================
