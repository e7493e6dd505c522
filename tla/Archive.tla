------------------------------- MODULE Archive -------------------------------
(***************************************************************************)
(* What the block archiver offers its readers (CheckTxn, Block and the   *)
(* uploaded archives of src/archiver/archiver.go): a pushed value waits   *)
(* until the next rotation, which seals everything waiting, and nothing   *)
(* else, into a new block at the end of the archive; a sealed block      *)
(* never changes.                                                          *)
(*                                                                         *)
(* Archiver implements it with the txns bucket (the refinement mapping     *)
(* ArchiveOf there); uploads, metadata, crashes and recover are           *)
(* stuttering here.                                                        *)
(***************************************************************************)
EXTENDS Sequences

CONSTANTS Items, Versions

VARIABLES
    waiting,   \* item -> value, the values pushed since the last rotation
    sealed     \* the blocks in the order they were made, each item -> value

\* No value waiting.
Nothing == [i \in {} |-> CHOOSE v \in Versions : TRUE]

Init == waiting = Nothing /\ sealed = <<>>

\* A push replaces the value of the item waiting, if any.
Put(i, v) ==
    /\ waiting' = [j \in DOMAIN waiting \cup {i} |-> IF j = i THEN v ELSE waiting[j]]
    /\ UNCHANGED sealed

\* A rotation with something waiting seals all of it as the next block.
Seal ==
    /\ waiting # Nothing
    /\ sealed' = Append(sealed, waiting)
    /\ waiting' = Nothing

Next == (\E i \in Items, v \in Versions : Put(i, v)) \/ Seal

Spec == Init /\ [][Next]_<<waiting, sealed>>

=============================================================================
