------------------------------- MODULE MCProbe -------------------------------
(* TLC instance of Probe: two open ports, two requests a call, pool of one.  *)
EXTENDS Probe
=============================================================================
