---------------------------- MODULE MCMqttBridge ----------------------------
(* Small instances of MqttBridge for TLC: what an opening makes the hub    *)
(* write.  The other constants are given in the configurations.            *)
EXTENDS MqttBridge

\* The person of level 60, or nothing (the hub misses some events).
MCPerson == {{60}, {}}
=============================================================================
