--------------------------- MODULE MCScheduleTime ---------------------------
(* ScheduleTime with zones on both sides of UTC whose clocks go forward,   *)
(* back or stay, for TLC.                                                  *)
EXTENDS ScheduleTime

MCOffsets == {-2, -1, 0, 1, 3}
MCZones == [before : MCOffsets, after : MCOffsets, change : {4}]
=============================================================================
