---------------------- MODULE MCDataSourceRefinement ----------------------
(***************************************************************************)
(* DataSourceRefinement on one source and two overlapping requests.        *)
(***************************************************************************)
EXTENDS DataSourceRefinement

CONSTANT weather

One == {weather}

OneTTL == [s \in One |-> 2]

(* The shipped settings, cache and fallback switched off, the source       *)
(* switched off.                                                           *)
SomeSettings ==
    {[cache |-> TRUE, fallback |-> TRUE, enabled |-> One],
     [cache |-> FALSE, fallback |-> FALSE, enabled |-> One],
     [cache |-> TRUE, fallback |-> TRUE, enabled |-> {}]}
=============================================================================
