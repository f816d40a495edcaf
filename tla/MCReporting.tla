---------------------------- MODULE MCReporting ----------------------------
(***************************************************************************)
(* Reporting with seconds for its unit of time, limits that leave room for *)
(* both states of presence, and heights above and below zero.              *)
(***************************************************************************)
EXTENDS Reporting

MCDistances == {0, 3}
MCConfigs == [zeroValue : {2, 3}, lowLimit : {2}, highLimit : {2},
              minStableTime : {0, 2}]
=============================================================================
