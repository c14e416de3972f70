---------------------------- MODULE MCVoiceCall ----------------------------
(* Small instances of VoiceCall.  Streams, calls and accounts are alike.     *)
EXTENDS VoiceCall, TLC

Symmetry ==
  Permutations(Stream) \cup Permutations(Stop) \cup Permutations(Restart) \cup Permutations(User)

=============================================================================
