--------------------------- MODULE MCDataSource ---------------------------
(***************************************************************************)
(* Small instances of DataSource for TLC: two sources with one key each,   *)
(* two overlapping requests, one second per attempt and per back-off.      *)
(***************************************************************************)
EXTENDS DataSource, TLC

CONSTANTS weather, currency

Both == {weather, currency}

BothTTL == [s \in Both |-> IF s = weather THEN 3 ELSE 4]

(* The shipped settings.                                                   *)
BothDefaults == {[cache |-> TRUE, fallback |-> TRUE, enabled |-> Both]}

RequestSymmetry == Permutations(Requests)
=============================================================================
