---------------------------- MODULE MCLoadTester ----------------------------
(***************************************************************************)
(* Values for TLC: the workers, and one request whose payload is no JSON.  *)
(***************************************************************************)
EXTENDS LoadTester

MCBadRequests == {1}
============================================================================
