----------------------------- MODULE WorkCache -----------------------------
(***************************************************************************)
(* PoolServer.current_work (pool_server.py:24), refreshed by the work      *)
(* thread _update_work_loop (lines 51-61) and read by get_work (lines     *)
(* 82-86). A template is identified by the daemon tip it was built on.    *)
(* One assignment replaces the reference, so a reader sees the old or the *)
(* new template whole; get_work returns a copy or None, writing nothing.   *)
(***************************************************************************)
EXTENDS PoolStore

CONSTANTS
    NoWork   \* model value: current_work is None

VARIABLES
    current_work   \* tip the cached template was built on, or NoWork

workVars == <<current_work>>

WorkTypeOK == current_work \in (0..MaxHeight) \cup {NoWork}

WorkInit == current_work = NoWork

(* One iteration of the work loop whose getwork() returns a template       *)
(* (lines 55-57): the daemon builds it on its current tip and the cache    *)
(* is replaced. An iteration whose getwork returns None or raises leaves   *)
(* the cache as it was (lines 56, 59-60), so it is a stuttering step.      *)
RefreshWork ==
    /\ current_work' = tip
    /\ UNCHANGED <<storeVars, daemonVars, ghostVars>>

WorkNext == RefreshWork
=============================================================================
