-------------------------- MODULE MCSessionClient --------------------------
(* Small instances of SessionClient: the app, the isolate and a few pairs.   *)
EXTENDS SessionClient

=============================================================================
