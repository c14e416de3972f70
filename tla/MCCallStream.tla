---------------------------- MODULE MCCallStream ----------------------------
(* Small instances of CallStream. *)
EXTENDS CallStream

=============================================================================
