----------------------------- MODULE MCAssistant -----------------------------
(***************************************************************************)
(* Small instances of Assistant for TLC.                                   *)
(***************************************************************************)
EXTENDS Assistant, TLC

CONSTANTS k1, k2

All == {"ask", "voice", "dashboard"}

Protected == [auth |-> TRUE, voice |-> TRUE, secret |-> k1, protected |-> All]
Rotated == [Protected EXCEPT !.secret = k2, !.voice = FALSE]
Misconfigured == [Protected EXCEPT !.secret = NoSecret, !.protected = {"voice"}]
Unlocked == [Protected EXCEPT !.auth = FALSE, !.protected = {}]

OneServer == {Protected}
EveryServer == {Protected, Rotated, Misconfigured, Unlocked}

BrowserSymmetry == Permutations(Browsers)
=============================================================================
