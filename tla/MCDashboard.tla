----------------------------- MODULE MCDashboard -----------------------------
(***************************************************************************)
(* Small instances of Dashboard, and so of Store, for TLC.                 *)
(***************************************************************************)
EXTENDS Dashboard

CONSTANTS server, cli

EventLoop == <<server, 1>>
LoopAndCli == {EventLoop, <<cli, 1>>}
PageThread == {<<server, 2>>}
=============================================================================
