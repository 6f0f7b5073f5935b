---------------------------- MODULE MCHttpDispatch ----------------------------
(***************************************************************************)
(* HttpDispatch with one handler, as the gateway and AWS Lambda dispatch,  *)
(* and with two threads, as http_host does.                                *)
(***************************************************************************)
EXTENDS HttpDispatch, TLC

CONSTANTS h1, h2

MCOneHandler  == {h1}
MCTwoHandlers == {h1, h2}
Symmetry == Permutations(MCTwoHandlers)
=============================================================================
