---------------------------- MODULE MCIntegrations ----------------------------
(***************************************************************************)
(* Small instances of Integrations for TLC.                                *)
(***************************************************************************)
EXTENDS Integrations

Entity(domain, name) == [domain |-> domain, name |-> name]

(* A light and a switch of one name, and a camera.                         *)
House == {Entity("light", "desk"), Entity("switch", "desk"), Entity("camera", "hall")}

AllowAll == [ha |-> TRUE, slack |-> TRUE, domains |-> {"light", "switch", "camera"},
             entities |-> House]
AnyLight == [ha |-> TRUE, slack |-> FALSE, domains |-> {"light", "camera"}, entities |-> {}]
NoDevices == [AllowAll EXCEPT !.ha = FALSE]

SomeConfigs == {AllowAll, AnyLight, NoDevices}
=============================================================================
