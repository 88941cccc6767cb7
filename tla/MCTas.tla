------------------------------- MODULE MCTas -------------------------------
(***************************************************************************)
(* The allocator for TLC.                                                  *)
(***************************************************************************)
EXTENDS TasProp

MesLots == {<<13>>}

(* An empty heap; chunks that may merge, or large ones that cannot.         *)
MesDeparts == {<< >>, <<28, 4, 28, 1>>, <<28, 1, 36, 1>>}
=============================================================================
