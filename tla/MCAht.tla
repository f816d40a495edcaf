------------------------------- MODULE MCAht -------------------------------
(***************************************************************************)
(* Aht with seconds for its unit of time and the real scale, hysteresis    *)
(* and conversions.                                                        *)
(***************************************************************************)
EXTENDS Aht

MCHysteresis == [humidity |-> 10, temperature |-> 50]

\* 50 % and 21.0 degrees; then 9 % and 4.9 degrees more, and 10 % and 5.0.
MCMeasured == {[humidity |-> 524288, temperature |-> 372245],
               [humidity |-> 618660, temperature |-> 397935],
               [humidity |-> 629146, temperature |-> 398459]}
=============================================================================
