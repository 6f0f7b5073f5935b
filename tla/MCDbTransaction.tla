--------------------------- MODULE MCDbTransaction ---------------------------
(***************************************************************************)
(* DbTransaction on small programs: one or two transaction blocks, blocks  *)
(* two deep, one or two writes.                                            *)
(***************************************************************************)
EXTENDS DbTransaction

Program(manual, close, time, refuse, rollBack, w, b) ==
  [manual |-> manual, close |-> close, time |-> time, refuse |-> refuse, rollBack |-> rollBack,
   writes |-> w, blocks |-> b]

\* A program of blocks alone, and one that does everything with everything going wrong.
MCPrograms == {Program(FALSE, TRUE, FALSE, FALSE, FALSE, 2, 2), Program(TRUE, TRUE, TRUE, TRUE, TRUE, 1, 1)}
\* Blocks whose COMMIT may be refused.
MCRefused == {Program(FALSE, FALSE, FALSE, TRUE, FALSE, 1, 1)}
=============================================================================
