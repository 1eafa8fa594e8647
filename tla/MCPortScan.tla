----------------------------- MODULE MCPortScan -----------------------------
(* TLC instance of PortScan: the first target's IP string sorts last, as   *)
(* "10.0.0.9" does before "10.0.0.10", so dispatch order is not report     *)
(* order.                                                                  *)
EXTENDS PortScan

MCIpRank(x) == NTargets - x
=============================================================================
