-------------------------------- MODULE MCStdin --------------------------------
(* Three readers and five keys on a buffer of two characters.              *)
EXTENDS Stdin

=============================================================================
