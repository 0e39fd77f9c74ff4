-------------------------------- MODULE Pool --------------------------------
(***************************************************************************)
(* The pool coordinator as app.py runs it: request threads (ShareLedger)   *)
(* and the payout thread (PayoutDispatcher) over one database, next to a   *)
(* daemon whose chain other miners also extend, in a process that may      *)
(* crash and restart with only the database and the daemon surviving.     *)
(***************************************************************************)
EXTENDS ShareLedger, PayoutDispatcher

CONSTANTS
    MaxCrashes   \* bound: process crashes in one behaviour

VARIABLES
    crashes

vars == <<storeVars, daemonVars, ghostVars, ledgerVars, payoutVars, crashes>>

TypeOK ==
    /\ StoreTypeOK
    /\ LedgerTypeOK
    /\ PayoutTypeOK
    /\ crashes \in 0..MaxCrashes

Init ==
    /\ StoreInit
    /\ LedgerInit
    /\ PayoutInit
    /\ crashes = 0

(* Another miner's block reaches the daemon: its chain grows.             *)
NetworkBlock ==
    /\ tip < MaxHeight
    /\ tip' = tip + 1
    /\ UNCHANGED <<storeVars, sent, ghostVars, ledgerVars, payoutVars, crashes>>

(* The process dies and restarts (app.py:54-61). Threads, sessions and     *)
(* everything held in memory are lost; committed rows and whatever the     *)
(* daemon did persist. The daemon's txid sequence is kept.                 *)
Crash ==
    /\ crashes < MaxCrashes
    /\ crashes' = crashes + 1
    /\ req' = [t \in Threads |-> IdleReq]
    /\ payout' = SleepingPayout
    /\ UNCHANGED <<storeVars, daemonVars, ghostVars, submitted>>

Next ==
    \/ LedgerNext /\ UNCHANGED <<payoutVars, crashes>>
    \/ PayoutNext /\ UNCHANGED <<ledgerVars, crashes>>
    \/ NetworkBlock
    \/ Crash

Spec == Init /\ [][Next]_vars

-----------------------------------------------------------------------------
(* Share ledger.                                                           *)

(* A worker's counters count its Share rows: total_shares is the number of *)
(* its shares and valid_shares / invalid_shares the valid / invalid ones   *)
(* (spec section 8, first property). submit_share increments copies of    *)
(* the counters loaded before the daemon call.                             *)
CountersMatchShares ==
    \A a \in Addresses :
        /\ total_shares[a] = Cardinality(SharesOf(a))
        /\ valid_shares[a] = Cardinality({s \in SharesOf(a) : s.valid})
        /\ invalid_shares[a] = Cardinality({s \in SharesOf(a) : ~s.valid})

(* The ledger as the abstract AtomicLedger sees it: the Share rows counted *)
(* per worker and validity, and the Worker counter columns.                *)
Atomic == INSTANCE AtomicLedger WITH
    recorded <- [a \in Addresses |->
                   [k \in {"valid", "invalid"} |->
                      Cardinality({s \in SharesOf(a) : s.valid = (k = "valid")})]],
    counter <- [a \in Addresses |-> Counters(a)]

(* Submissions are linearizable (spec 5 (a)): every step of the request    *)
(* threads, the payout thread and a crash either leaves the Shares and the *)
(* counters alone or is one atomic submission that adds one Share and     *)
(* increments its two counters. submit_share spreads a submission over the *)
(* daemon call and up to three commits (lines 91-127).                     *)
AtomicSubmissions == Atomic!Spec

(* Every block the daemon accepted from a pool worker is fully accounted  *)
(* once the finding request is over: its solving Share is recorded and    *)
(* the block's reward distributed. Spec 4.2 step 4 treats the Share and    *)
(* the Block as one unit of work; _handle_block_found looks the block up by *)
(* the current tip (line 147) and swallows its failures (line 170).        *)
FoundBlocksAccounted ==
    \A h \in found :
        \/ (\E s \in shares : s.solved = h) /\ h \in distributed
        \/ \E t \in Threads : req[t].pc # "idle" /\ req[t].found = h

-----------------------------------------------------------------------------
(* Reward distribution.                                                    *)

(* No share is rewarded in two rounds (spec section 5 (b)): a share is     *)
(* attributed to at most one block. _process_block_payments takes every   *)
(* share since the previous block, with no upper bound.                    *)
RoundsDisjoint ==
    \A x, y \in counted : x[2] = y[2] => x[1] = y[1]

(* No valid share is silently dropped (spec section 5 (b)): between two   *)
(* consecutive recorded blocks that have both been distributed, every     *)
(* valid share stamped from the first block on is attributed to a round.   *)
(* The solving share is recorded after its own block's distribution       *)
(* (submit_share line 102 runs before lines 111-127), so it is carried    *)
(* over only by the next round's cutoff at the previous Block's timestamp. *)
NoShareDropped ==
    \A b1, b2 \in blocks :
        ( /\ b1.height < b2.height
          /\ ~\E b \in blocks : b1.height < b.height /\ b.height < b2.height
          /\ {b1.height, b2.height} \subseteq distributed )
        => \A s \in shares :
              s.valid /\ b1.ts <= s.ts /\ s.ts < b2.ts => \E h \in distributed : <<h, s.ts>> \in counted

(* Every Payment is the net reward times its worker's fraction of the     *)
(* shares its block's distribution attributed (spec 4.4): the grouping     *)
(* loop of _process_block_payments (lines 219-236) splits each round in    *)
(* proportion, whatever the order of the query's rows.                     *)
PaymentsProportional ==
    \A p \in payments :
        LET R == {s \in shares : <<p.height, s.ts>> \in counted}
        IN p.amount * Cardinality(R) = NetReward * Cardinality({s \in R : s.worker = p.worker})

(* The payments created for a block add up to the net reward (spec        *)
(* section 8, second property).                                            *)
BlockPaymentsConserve ==
    \A h \in distributed :
        LET P == {p \in payments : p.height = h}
        IN P # {} => AmountSum(P) = NetReward

-----------------------------------------------------------------------------
(* Payouts.                                                                *)

(* A worker's pending_balance is the sum of its Payments still pending    *)
(* (spec section 3). A distribution adds its share to the balance it       *)
(* loaded at line 234 and commits at line 250; the settlement zeroes the   *)
(* balances it loaded at line 263 and confirms the pending Payments.       *)
PendingMatchesPayments ==
    \A a \in Addresses :
        pending_balance[a] =
            AmountSum({p \in payments : p.worker = a /\ p.status = "pending"})

(* Every Payment created for a worker is either still in its             *)
(* pending_balance or counted in its total_paid: no reward is lost between *)
(* the distribution and the payout thread (spec section 5 (c)).            *)
PaymentsAccounted ==
    \A a \in Addresses :
        AmountSum({p \in payments : p.worker = a}) = pending_balance[a] + total_paid[a]

(* total_paid records exactly what the daemon has transferred to the       *)
(* worker, except for a batch the payout thread has sent and not yet       *)
(* settled: nothing is paid twice or paid without being recorded.          *)
InFlight(a) ==
    IF payout.pc = "settle" /\ a \in DOMAIN Batch THEN Batch[a].pending ELSE 0

PaidMatchesSent ==
    \A a \in Addresses : sent[a] = total_paid[a] + InFlight(a)
=============================================================================
