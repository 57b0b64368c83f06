--------------------------- MODULE MCGameSession ---------------------------
(***************************************************************************)
(* Small instances of one game for TLC.                                    *)
(***************************************************************************)
EXTENDS GameSession, TLC

\* Customers and marks at different times; or ruined by the third change.
Apart == [customer |-> <<1, 2, 2, 2>>, mark |-> <<2, 2, 2>>, ruin |-> 0]
Ruinous == [customer |-> <<3, 2>>, mark |-> <<2, 2>>, ruin |-> 3]

\* A customer and a mark that are due at the same time.
Tied == [customer |-> <<1, 1, 2>>, mark |-> <<1, 2, 2>>, ruin |-> 0]

Untied == {Apart, Ruinous}
TiedOnly == {Tied}

IDSymmetry == Permutations(IDs)
=============================================================================
