----------------------------- MODULE MCWifiScan -----------------------------
(***************************************************************************)
(* Instances of WifiScan for TLC.                                          *)
(***************************************************************************)
EXTENDS WifiScan

TwoStrengths == {-70, -50}
=============================================================================
