--------------------------- MODULE MCMaterializer ---------------------------
(* Instances of Materializer for TLC.  A day has six readings.  At instant  *)
(* 3 the clock goes forward by one, so that reading 3 of the first day does *)
(* not occur; at instant 9 it goes back by two, so that readings 2 and 3 of *)
(* the second day occur twice.                                              *)
EXTENDS Materializer

CONSTANTS t1, t2, s1, s2

\* Never (like 30 February), daily, twice a day, and two readings in a row,
\* which checkGranularity accepts because it only measures the gap to the next
\* day's first reading.
MCCrons == {{}, {3}, {0, 3}, {2, 3}}
=============================================================================
