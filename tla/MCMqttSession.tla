--------------------------- MODULE MCMqttSession ---------------------------
(* Two clients one after the other; up to two reconnects of each.            *)
EXTENDS MqttSession
============================================================================
