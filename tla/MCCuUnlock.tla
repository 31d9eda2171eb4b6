------------------------------ MODULE MCCuUnlock ------------------------------
(* Two shader engines of two arrays, as on the board.                        *)
EXTENDS CuUnlock

MCArrays == << <<0, 0>>, <<0, 1>>, <<1, 0>>, <<1, 1>> >>
=============================================================================
