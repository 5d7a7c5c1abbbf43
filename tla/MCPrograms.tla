------------------------------- MODULE MCPrograms -------------------------------
(* Programs of two segments at any offset in pages of three cells, the file *)
(* of one of them too long, and two arguments: short ones, and ones that    *)
(* take more of the stack than has pages.                                   *)
EXTENDS Naturals, Sequences

Segments(vas, flags) ==
    { s \in [va : vas, filesz : 0..4, memsz : 1..4, flags : {flags}] : s.filesz <= s.memsz + 1 }
MCProgram ==
    { <<s, t>> : s \in Segments({4, 6, 7}, {"R"}), t \in Segments({2, 3, 4, 9, 10, 11}, {"R", "W"}) }
MCKargv == { <<1, 2>>, <<2, 3>> }

=============================================================================
