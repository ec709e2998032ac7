-------------------------- MODULE MCBreakerTraffic --------------------------
(***************************************************************************)
(* BreakerTraffic with the values of the configuration: more requests in   *)
(* flight than failures to open a circuit, and two providers.              *)
(***************************************************************************)
EXTENDS BreakerTraffic
=============================================================================
