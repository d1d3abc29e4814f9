----------------------------- MODULE MCEventJobs -----------------------------
(***************************************************************************)
(* EventJobs for TLC; the constants get their values in MCEventJobs.cfg.    *)
(***************************************************************************)
EXTENDS EventJobs, TLC
==============================================================================
