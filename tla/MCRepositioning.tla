-------------------------- MODULE MCRepositioning --------------------------
(***************************************************************************)
(* A corridor of four cells with a side room, on a grid of four by two: a  *)
(* place to explore, a junction, and an end that is out of sight.          *)
(***************************************************************************)
EXTENDS GlobalRepositioning

MCPlaces == (0..3) \X (0..1)
MCFree == { <<0, 0>>, <<1, 0>>, <<2, 0>>, <<3, 0>>, <<1, 1>> }
MCHome == <<0, 0>>
Apart(a, b) == IF a < b THEN b - a ELSE a - b
Within(a, b) == IF a < b THEN a..b ELSE b..a
Sign(a, b) == IF a < b THEN 1 ELSE IF a = b THEN 0 ELSE -1
MCDist(p, q) == Apart(p[1], q[1]) + Apart(p[2], q[2])
MCBetween(p, q) == Within(p[1], q[1]) \X Within(p[2], q[2])
MCBearing(p, q) == <<Sign(p[1], q[1]), Sign(p[2], q[2])>>
MCSemanticPlaces == { <<1, 1>> }
MCSavedMaps ==
    { [vertices |-> { [id |-> 0, place |-> <<0, 0>>, frontier |-> FALSE],
                      [id |-> 1, place |-> <<1, 0>>, frontier |-> TRUE] },
       edges |-> { {0, 1} }] }
MCBudgets == {0, 2}
MCZones == { { <<1, 0>> } }
=============================================================================
