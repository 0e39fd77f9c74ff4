------------------------- MODULE PayoutDispatcher -------------------------
(***************************************************************************)
(* PoolServer._payment_loop (pool_server.py:257-299), one background      *)
(* thread. An iteration loads every Worker at or above the threshold,      *)
(* sends one sendmany batch, and on a txid moves each loaded balance into  *)
(* total_paid, zeroes it, and confirms the worker's pending Payments, in   *)
(* one commit. The Worker rows stay as loaded at line 263 until that       *)
(* commit; the Payment query at line 283 reads the table as it is then.    *)
(***************************************************************************)
EXTENDS PoolStore

CONSTANTS
    MaxSends,    \* bound: sendmany calls the daemon executes
    LateSends    \* may a sendmany time out after the daemon executed it?

VARIABLES
    payout   \* the payout thread: step, loaded rows, txid

payoutVars == <<payout>>

PayoutTypeOK ==
    /\ payout.pc \in {"sleep", "send", "settle"}
    /\ \A a \in DOMAIN payout.loaded :
         a \in Addresses /\ payout.loaded[a] \in [pending : Nat, paid : Nat]
    /\ payout.txid \in 0..MaxSends

PayoutInit == payout = [pc |-> "sleep", loaded |-> <<>>, txid |-> 0]

SleepingPayout == [payout EXCEPT !.pc = "sleep", !.loaded = <<>>]

(* Fault-injected variant of SelectPayees: a balance equal to the         *)
(* threshold is not due (> for >= at line 264).                            *)
SelectPayeesStrict ==
    LET due == {a \in registered : pending_balance[a] > Threshold} IN
    /\ payout.pc = "sleep"
    /\ IF due = {}
         THEN UNCHANGED payout
         ELSE payout' = [payout EXCEPT !.pc = "send",
                           !.loaded = [a \in due |-> [pending |-> pending_balance[a],
                                                      paid |-> total_paid[a]]]]
    /\ UNCHANGED <<storeVars, daemonVars, ghostVars>>

(* Lines 263-271: load the workers with pending_balance >= threshold. With *)
(* none, the iteration ends having changed nothing.                        *)
SelectPayees ==
    LET due == {a \in registered : pending_balance[a] >= Threshold} IN
    /\ payout.pc = "sleep"
    /\ IF due = {}
         THEN UNCHANGED payout
         ELSE payout' = [payout EXCEPT !.pc = "send",
                           !.loaded = [a \in due |-> [pending |-> pending_balance[a],
                                                      paid |-> total_paid[a]]]]
    /\ UNCHANGED <<storeVars, daemonVars, ghostVars>>

Batch == payout.loaded

(* Line 275: rpc.sendmany("", amounts), as the daemon sees it: it pays the *)
(* loaded balances.                                                        *)
PaidOut == [a \in Addresses |->
              IF a \in DOMAIN Batch THEN sent[a] + Batch[a].pending ELSE sent[a]]

(* The daemon pays the batch and returns a txid (line 276).                *)
SendManyPaid ==
    /\ payout.pc = "send"
    /\ payout.txid < MaxSends
    /\ sent' = PaidOut
    /\ payout' = [payout EXCEPT !.pc = "settle", !.txid = payout.txid + 1]
    /\ UNCHANGED <<storeVars, tip, ghostVars>>

(* The daemon answers a JSON-RPC error (None: nothing paid), or the call    *)
(* raises before the daemon acts; line 294 logs it and the iteration ends. *)
SendManyFailed ==
    /\ payout.pc = "send"
    /\ payout' = SleepingPayout
    /\ UNCHANGED <<storeVars, daemonVars, ghostVars>>

(* With LateSends: the call raises on a timeout after the daemon has paid. *)
SendManyLate ==
    /\ payout.pc = "send"
    /\ LateSends
    /\ payout.txid < MaxSends
    /\ sent' = PaidOut
    /\ payout' = [SleepingPayout EXCEPT !.txid = payout.txid + 1]
    /\ UNCHANGED <<storeVars, tip, ghostVars>>

SendMany == SendManyPaid \/ SendManyFailed \/ SendManyLate

SettlePaidStatus ==
    LET S == DOMAIN Batch IN
    /\ payout.pc = "settle"
    /\ total_paid' = [a \in Addresses |->
                        IF a \in S THEN Batch[a].paid + Batch[a].pending ELSE total_paid[a]]
    /\ pending_balance' = [a \in Addresses |-> IF a \in S THEN 0 ELSE pending_balance[a]]
    /\ payments' = {IF p.worker \in S /\ p.status = "pending"
                      THEN [p EXCEPT !.status = "paid", !.txid = payout.txid]
                      ELSE p : p \in payments}
    /\ payout' = SleepingPayout
    /\ UNCHANGED <<registered, total_shares, valid_shares, invalid_shares,
                   shares, blocks, clock>>
    /\ UNCHANGED <<daemonVars, ghostVars>>

(* Lines 278-291: for every loaded worker, total_paid += pending_balance   *)
(* and pending_balance = 0 on the loaded copy, and every Payment of it     *)
(* still pending is confirmed with the txid; one commit.                   *)
Settle ==
    LET S == DOMAIN Batch
        settled(p) == p.worker \in S /\ p.status = "pending"
    IN
    /\ payout.pc = "settle"
    /\ total_paid' = [a \in Addresses |->
                        IF a \in S THEN Batch[a].paid + Batch[a].pending ELSE total_paid[a]]
    /\ pending_balance' = [a \in Addresses |->
                             IF a \in S THEN 0 ELSE pending_balance[a]]
    /\ payments' = {IF settled(p) THEN [p EXCEPT !.status = "confirmed",
                                                 !.txid = payout.txid]
                                  ELSE p : p \in payments}
    /\ payout' = SleepingPayout
    /\ UNCHANGED <<registered, total_shares, valid_shares, invalid_shares,
                   shares, blocks, clock>>
    /\ UNCHANGED <<daemonVars, ghostVars>>

PayoutNext == SelectPayees \/ SendMany \/ Settle
=============================================================================
