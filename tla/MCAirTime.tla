----------------------------- MODULE MCAirTime -----------------------------
(***************************************************************************)
(* AirTime with an "hour" of a few "minutes" of a few ms.                  *)
(***************************************************************************)
EXTENDS AirTime

MCItem == 0..MINUTE
=============================================================================
