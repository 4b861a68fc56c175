------------------------------- MODULE MCFrames -------------------------------
(***************************************************************************)
(* Frames for TLC.  The first stop is of a, or of b; at the second, a may  *)
(* be in the same frame again or in another one.                           *)
(***************************************************************************)
EXTENDS Frames

CONSTANTS a, b, f, g

MCTid == {a, b}
MCFrame == {f, g}
MCStopsIn == <<{<<a, f>>, <<b, g>>}, {<<a, f>>, <<a, g>>, <<b, g>>}>>
=============================================================================
