-------------------------- MODULE MCServiceBodies --------------------------
(* Constants of ServiceBodies for TLC.                                     *)
EXTENDS ServiceBodies

(* A keyword argument outside every schema and every parameter name.      *)
MCOtherKey == {"x"}

(* A keyword argument named like the fixed key of the login and           *)
(* registration flow bodies.                                               *)
MCFlowKey == {"flow"}
=============================================================================
