------------------------------ MODULE MCFirmware ------------------------------
(* Model checking of Firmware: the time server answers the last seconds of   *)
(* Februaries of three kinds and of a year.  No symmetry: the run checks     *)
(* liveness.                                                                 *)
EXTENDS Firmware

LastSecond(y, m, d) ==
    [Year |-> y, Month |-> m, Day |-> d, Hour |-> 23, Min |-> 59, Sec |-> 59]

MCServerDates ==
    {LastSecond(2000, 2, 28), LastSecond(2019, 2, 28), LastSecond(2020, 2, 28),
     LastSecond(2019, 12, 31)}
==============================================================================
