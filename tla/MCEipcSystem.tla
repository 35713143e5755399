----------------------------- MODULE MCEipcSystem -----------------------------
(* Model of EipcSystem for TLC: the client program run twice.                *)
EXTENDS EipcSystem

CONSTANTS c1, c2

TwoConns == {c1, c2}
OneConn == {c1}
OneService == {"nia.min"}
NotRegistered == "nobody"
Caps == {"ui:control"}
KnownServices == [s \in Known |-> Caps]
Allow == [cap \in Caps |-> {"ui.cursor.move"}]
Handlers == [type \in {"intent"} |-> "ui.cursor.move"]
Moves == {Intent.intent}
ClientTraffic == {Intent, Heartbeat}
Unit == {1}
=============================================================================
