------------------------------ MODULE MCSoftRtc ------------------------------
(* Instance of SoftRtc: days of 2 hours of 2 minutes of 2 seconds. *)
EXTENDS SoftRtc

\* The first and the last second of the day, and one before the time zone's
\* midnight.
MCSetClock == {<<0, 0, 0>>, <<0, 1, 1>>, <<1, 1, 1>>}
=============================================================================
