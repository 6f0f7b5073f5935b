--------------------------- MODULE MCFastcgiStream ---------------------------
(***************************************************************************)
(* FastcgiStream on small instances: two or three requests, pipelined or   *)
(* interleaved under two ids.                                              *)
(***************************************************************************)
EXTENDS FastcgiStream

MCIds == {1, 2}
=============================================================================
