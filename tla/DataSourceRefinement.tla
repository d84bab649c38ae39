----------------------- MODULE DataSourceRefinement -----------------------
(***************************************************************************)
(* DataSource with the log of everything its upstreams ever answered added *)
(* as a history variable, and the mapping under which it implements        *)
(* SourceLog.                                                              *)
(***************************************************************************)
EXTENDS DataSource

VARIABLE log

LogVars == <<vars, log>>

LogInit == Init /\ log = {}

(* What a fetch that ends with data has learnt is put down.                *)
Log ==
    log' = IF reply' # None /\ reply'.kind = "fresh"
           THEN log \cup {<<reply'.slot, reply'.entry>>} ELSE log

LogNext == Next /\ Log

LogSpec == LogInit /\ [][LogNext]_LogVars

FairLogSpec == LogSpec /\ Fairness

SlotTTL(slot) == TTL[slot[1]]

Promise == INSTANCE SourceLog WITH TTLOf <- SlotTTL

(* Every behaviour of the fetch loop over the two cache layers keeps the   *)
(* promise: what is served was once learnt from that slot's upstream, with *)
(* its own dates, and what is served without warning has not expired.      *)
PromiseKept == Promise!Spec
=============================================================================
