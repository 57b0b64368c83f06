--------------------------- MODULE MCSequencer -----------------------------
(***************************************************************************)
(* Small instances of the sequencer for TLC.                               *)
(***************************************************************************)
EXTENDS Sequencer, TLC

Fresh == [status |-> "preparing", elapsed |-> 0, nextScheduled |-> 0, sequence |-> 0]

\* A day restored by replay: paused after the first scheduled action, with
\* two more due at the same later time.
Restored == [status |-> "paused", elapsed |-> 1, nextScheduled |-> 1, sequence |-> 3]

MCDues == <<1, 2, 2>>
OneDue == <<2>>

FreshOnly == {Fresh}
Both      == {Fresh, Restored}

ClientSymmetry == Permutations(Clients)
IDSymmetry     == Permutations(ActionIDs)
Symmetry       == ClientSymmetry \cup IDSymmetry
=============================================================================
