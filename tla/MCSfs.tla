--------------------------------- MODULE MCSfs ---------------------------------
(* Two files and two descriptors on a disk that fills up.                  *)
EXTENDS SfsProps, TLC

MCFlags == {{}, {"O_TRUNC"}, {"O_CREAT"}, {"O_APPEND"}}

Symmetry == Permutations(File) \cup Permutations(Desc)

=============================================================================
