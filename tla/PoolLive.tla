------------------------------ MODULE PoolLive ------------------------------
(***************************************************************************)
(* The whole process with its work thread (WorkCache) next to the request  *)
(* threads and the payout thread of Pool, and the fairness its loops      *)
(* justify.                                                                *)
(***************************************************************************)
EXTENDS WorkCache, Pool

liveVars == <<registered, total_shares, valid_shares, invalid_shares, pending_balance,
             total_paid, shares, blocks, payments, clock, tip, sent, found,
             counted, distributed, req, submitted, payout, crashes, current_work>>

LiveInit == Init /\ WorkInit

(* A step of the payout thread or of the work thread, the rest unchanged. *)
PayoutStep(A) == A /\ UNCHANGED <<ledgerVars, crashes, workVars>>
WorkStep(A) == A /\ UNCHANGED <<ledgerVars, payoutVars, crashes>>
LedgerStep(A) == A /\ UNCHANGED <<payoutVars, crashes, workVars>>

LiveNext ==
    \/ Next /\ UNCHANGED workVars
    \/ WorkStep(WorkNext)

(* The work and payout loops are `while self.running` loops that catch    *)
(* every exception and sleep a fixed time (lines 53-61, 259-299), so each  *)
(* step of theirs that stays possible is eventually taken. A successful    *)
(* sendmany is possible only intermittently, because a failed attempt ends *)
(* the iteration: it needs strong fairness, i.e. the daemon is assumed to  *)
(* recover. A getwork failure changes nothing, so a refresh that would     *)
(* change the cache stays possible and weak fairness suffices. A request   *)
(* thread inside submit_share runs on to its reply: every RPC it waits on  *)
(* answers or raises on the proxy's HTTP timeout, and its other steps are  *)
(* database work. Starting a submission gets no fairness: a miner may stop *)
(* submitting.                                                             *)
LiveFairness ==
    /\ \A t \in Threads :
         WF_liveVars(LedgerStep(DaemonReply(t) \/ HandleBlockFound(t)
                                \/ ProcessBlockPayments(t) \/ StampShare(t) \/ RecordShare(t)))
    /\ WF_liveVars(WorkStep(RefreshWork))
    /\ WF_liveVars(PayoutStep(SelectPayees))
    /\ SF_liveVars(PayoutStep(SendManyPaid))
    /\ WF_liveVars(PayoutStep(Settle))

LiveSpec == LiveInit /\ [][LiveNext]_liveVars /\ LiveFairness

-----------------------------------------------------------------------------
(* A worker whose pending_balance reaches the payout threshold is          *)
(* eventually paid out, its balance zeroed (spec 4.5), however the payout  *)
(* loop's sweeps interleave with distributions and failed sendmany calls.  *)
DueBalancePaid ==
    \A a \in Addresses :
        (a \in registered /\ pending_balance[a] >= Threshold) ~> pending_balance[a] = 0
=============================================================================
