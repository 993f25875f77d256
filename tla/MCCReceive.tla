----------------------------- MODULE MCCReceive -----------------------------
(***************************************************************************)
(* Instances of CDispatch for TLC: frames of different lengths, with       *)
(* bodies of one to three bytes after a header of two and before a CRC of  *)
(* one; a pattern for every frame and one for the second frame only.       *)
(***************************************************************************)
EXTENDS CDispatch

ThreeFrames == <<0, 4, 10, 15>>

AnyAndSecond == {<<"any", f>> : f \in 1 .. 3} \cup {<<"second", 2>>}
=============================================================================
