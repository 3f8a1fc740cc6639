-------------------------------- MODULE MCTrie --------------------------------
(***************************************************************************)
(* Four keys: two that differ in the last nibble, one that extends the     *)
(* first, and one that differs from the start; a value that fits into its  *)
(* parent and one that does not.  Deleting the last key could collapse the *)
(* root onto an extension, which loses what is below: it is not deleted.   *)
(***************************************************************************)
EXTENDS Trie

MCKeys == {<<1, 1>>, <<1, 2>>, <<1, 1, 1, 1>>, <<2, 1>>}
MCDeletable == MCKeys \ {<<2, 1>>}
Short == <<"val", 1, 3>>
Long == <<"val", 2, 40>>
MCValues == {Short, Long}
MCStored == {<<>>,
             << <<<<1, 1>>, Short>>, <<<<1, 2>>, Long>> >>,
             << <<<<1, 1, 1, 1>>, Long>>, <<<<2, 1>>, Short>>, <<<<1, 2>>, Short>> >>,
             << <<<<2, 1>>, Long>>, <<<<1, 1, 1, 1>>, Short>>, <<<<1, 1>>, Short>>, <<<<1, 2>>, Long>> >>}
===============================================================================
