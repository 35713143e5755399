----------------------------- MODULE MCEipcServer -----------------------------
(* Model of EipcServer for TLC, with one of the server's known services, a   *)
(* capability it holds and one it does not.                                  *)
EXTENDS EipcServer, TLC

CONSTANTS c1, c2

TwoConns == {c1, c2}
OneService == {"nia.min"}
NotRegistered == "nobody"
Caps == {"ui:control", "ai:chat"}
KnownServices == [s \in Known |-> {"ui:control"}]
Allow == [cap \in Caps |->
            IF cap = "ui:control" THEN {"ui.cursor.move"} ELSE {"ai.chat.send"}]
Handlers == [type \in {"intent", "chat"} |->
            IF type = "intent" THEN "ui.cursor.move" ELSE "ai.chat.send"]
IntentOnly == [type \in {"intent"} |-> "ui.cursor.move"]
Moves == {"move_left"}
M(type, cap, ok, intent) ==
    [type |-> type, capability |-> cap, wellFormed |-> ok, intent |-> intent]
OneIntent == {M("intent", "ui:control", TRUE, "move_left")}
SomeKinds ==
    {M("intent", "ui:control", TRUE, "move_left"), M("intent", "none", FALSE, NoIntent),
     M("chat", "ai:chat", TRUE, NoIntent), M("chat", "ui:control", TRUE, NoIntent),
     M("heartbeat", "none", FALSE, NoIntent)}
Interchangeable == Permutations(Conns)
Unit == {1}
=============================================================================
