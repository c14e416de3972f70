------------------------------- MODULE Gate -------------------------------
(***************************************************************************)
(* What the controllers behind the login share: the account that is signed *)
(* in (AuthState), whose tokens the interceptor attaches to each request.  *)
(* How the tokens and the state move apart is the subject of SessionClient; *)
(* here both change in one step.                                           *)
(***************************************************************************)

CONSTANTS User, NoUser

ASSUME GateAssumption == NoUser \notin User

VARIABLE account

Account == User \cup {NoUser}

SignedIn == account # NoUser

=============================================================================
