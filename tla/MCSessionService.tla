-------------------------- MODULE MCSessionService -------------------------
(* Model-checking instances of SessionService.                              *)
EXTENDS SessionService, TLC

CONSTANTS t1, t2, t3

(* One thread runs and edits the app, a second runs it or stops it, a third *)
(* is the reaper.                                                           *)
RunAndStop == t1 :> {"post", "patch"} @@ t2 :> {"post", "get", "delete"} @@ t3 :> {"reap"}
(* Run pressed again while a stop is under way.                             *)
RunBesideStop == t1 :> {"post"} @@ t2 :> {"delete"}
=============================================================================
