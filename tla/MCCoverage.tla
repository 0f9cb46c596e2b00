----------------------------- MODULE MCCoverage -----------------------------
(* Series for model checking Coverage: they are interchangeable, and no       *)
(* liveness property is checked with them.                                    *)
EXTENDS Coverage

AnySeries == Permutations(Series)
=============================================================================
