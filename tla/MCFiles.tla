------------------------------ MODULE MCFiles ------------------------------
(***************************************************************************)
(* Two files on a partition that ends at block nine or ten: one in two     *)
(* chunks, before and after the other.                                     *)
(***************************************************************************)
EXTENDS Files

CONSTANTS notes, diary

MCFile   == {notes, diary}
MCHeader == <<Mark, Mark, notes, diary, Mark>>
MCChunks == [f \in MCFile |->
                IF f = notes THEN <<<<6, 6>>, <<9, 9>>>> ELSE <<<<7, 8>>>>]
MCSymmetry == Permutations(Data)
=============================================================================
