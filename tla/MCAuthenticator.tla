--------------------------- MODULE MCAuthenticator ---------------------------
(* Model of Authenticator for TLC: two known services, three challenges,    *)
(* two sessions, TTLs 0 (never) and 1, a clock of three ticks.              *)
EXTENDS Authenticator

Services == {"nia.min", "ebot.client"}
NotRegistered == "nobody"
Durations == {0, 1}
=============================================================================
