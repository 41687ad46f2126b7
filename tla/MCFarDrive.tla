------------------------------ MODULE MCFarDrive ------------------------------
(***************************************************************************)
(* A corridor with a bend at its end, long enough for the robot to be      *)
(* farther from the map than edge_length_max when a round begins: the      *)
(* odometry timer has laid nothing yet.                                    *)
(***************************************************************************)
EXTENDS MCRepositioning

FarPlaces == (0..4) \X (0..2)
FarFree == { <<0, 0>>, <<1, 0>>, <<2, 0>>, <<3, 0>>, <<3, 1>>, <<3, 2>>, <<4, 2>> }
FarNone == {}
=============================================================================
