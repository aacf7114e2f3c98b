--------------------------- MODULE MCBackendJobs ---------------------------
(***************************************************************************)
(* An account with a plan of two conversions, one of them from before the  *)
(* audit log, and two crawls its tabs may still start.                     *)
(***************************************************************************)
EXTENDS BackendJobs

CONSTANTS old, first, second

MCCrawls == {old, first, second}
MCLegacy == {old}

=============================================================================
