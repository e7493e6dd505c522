------------------------------ MODULE MCApiNode -------------------------------
(***************************************************************************)
(* Model-checking instance of ApiNode: the node's bounds of MCPlutosNode, *)
(* one metadata key (a put replaces the record under it), and the index   *)
(* pairs a client may add: none, an "id" pair of 8 bytes, or a short one. *)
(***************************************************************************)
EXTENDS ApiNode

CONSTANTS K1, m1

MCTwoAccounts == {0, 1}
MCAmounts     == {1}
MCNoKeys      == {NoKey}
MCMetaKeys    == {m1}

MCNoUserIndex  == {<<>>}
MCUserIndexes  == {<<>>, <<<<"id", 1>>>>, <<<<"id", Short>>>>}

=============================================================================
