---------------------------- MODULE MCMqttClient ----------------------------
(***************************************************************************)
(* Model-checking instance of MqttClient: a publish of each QoS and a few  *)
(* failures, of any kind and at any moment.                                *)
(***************************************************************************)
EXTENDS MqttClient

Second == {2}
=============================================================================
