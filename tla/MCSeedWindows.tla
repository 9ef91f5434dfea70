----------------------------- MODULE MCSeedWindows -----------------------------
(***************************************************************************)
(* Instances of SeedWindows for TLC: December 2022 to June 2023, a range   *)
(* that lies between January 26 and March 7 (the short month in the        *)
(* middle), and the months around it for windows that begin before the     *)
(* range's first day or would pass its last.                               *)
(***************************************************************************)
EXTENDS SeedWindows

\* The first days of the months from December to July.
WinterAndSpring == {0, 31, 62, 90, 121, 151, 182, 212}
\* Some of them, with Mondays (67, 81, 88) and firsts of a month (62, 90).
SomeDays == {56, 62, 67, 71, 76, 81, 88, 90, 96}

\* Greenwich without its summer time, Shanghai, and New York, with it from March 12.
SomeZones ==
    {[ahead |-> 0, summer |-> {}], [ahead |-> 480, summer |-> {}],
     [ahead |-> -300, summer |-> 101 .. 211]}
=============================================================================
