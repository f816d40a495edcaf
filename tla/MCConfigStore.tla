--------------------------- MODULE MCConfigStore ---------------------------
(***************************************************************************)
(* ConfigStore with bytes of four values and two numbers: zeroValue, which *)
(* is signed, and minStableTime, which is not.  The check byte is the sum  *)
(* of the bytes: it misses more than a CRC does.                           *)
(***************************************************************************)
EXTENDS ConfigStore

MCnumbers == <<"zeroValue", "minStableTime">>
MCSigned == {"zeroValue"}
MCmMin == [p \in Numbers |-> IF p = "zeroValue" THEN -6 ELSE 0]
MCmMax == [p \in Numbers |-> IF p = "zeroValue" THEN 6 ELSE 10]
MCDefault == [p \in Numbers |-> IF p = "zeroValue" THEN 1 ELSE 8]
MCcrc(b) == (b[1] + b[2] + b[3] + b[4]) % BYTE

\* Erased, and the value 3 of another firmware with a right check byte.
MCFound == {<<3, 3, 3, 3, 3>>, <<3, 0, 0, 0, 3>>}

\* In range, out of range, negative, and 16 and more, which the cast truncates.
MCSent == {0, 2, 5, 6, 8, 9, 10, 13, 15, 18, 250, 254}
=============================================================================
