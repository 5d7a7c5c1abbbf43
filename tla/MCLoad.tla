--------------------------------- MODULE MCLoad ---------------------------------
(* load_icode by itself.                                                   *)
EXTENDS LoadIcode, MCPrograms

=============================================================================
