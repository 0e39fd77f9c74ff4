----------------------------- MODULE PoolStore -----------------------------
(***************************************************************************)
(* The state every thread of the pool coordinator shares: the persisted    *)
(* Worker, Share, Block and Payment tables of models.py, the wall clock    *)
(* that stamps their rows, and the side of the Trinity daemon the pool can *)
(* observe (its chain height and the coins it has really transferred).     *)
(*                                                                         *)
(* Abstractions:                                                           *)
(*  - Worker.difficulty is never assigned after its default (models.py:52) *)
(*    so every Share has the same difficulty: one share = one unit.        *)
(*  - Amounts are integers in a unit in which NetReward, the block reward  *)
(*    after the pool fee (pool_server.py:231), divides exactly by every    *)
(*    round size; floating-point rounding is not modelled.                 *)
(*  - A row's timestamp is the clock value when its INSERT is flushed, at  *)
(*    its commit or (on a server database) just before it; the clock ticks *)
(*    at every stamp, so two rows never share a timestamp.                 *)
(***************************************************************************)
EXTENDS Naturals, FiniteSets, FiniteSetsExt

CONSTANTS
    Addresses,      \* payout addresses miners may present
    ValidAddr,      \* those the daemon's validateaddress accepts
    NoAddr,         \* model value: "no address"
    NetReward,      \* block.reward * (1 - POOL_FEE), in amount units
    Threshold,      \* config.PAYOUT_THRESHOLD, in amount units
    Lookback,       \* the 24h fallback lookback, in clock ticks
    MaxSubmits,     \* bound: submit_share calls in one behaviour
    MaxHeight       \* bound: height of the daemon's chain

ASSUME /\ ValidAddr \subseteq Addresses
       /\ NoAddr \notin Addresses
       /\ Threshold > 0
       /\ \A n \in 1..MaxSubmits : NetReward % n = 0

VARIABLES
    registered,        \* addresses with a Worker row
    total_shares,      \* Worker.total_shares
    valid_shares,      \* Worker.valid_shares
    invalid_shares,    \* Worker.invalid_shares
    pending_balance,   \* Worker.pending_balance
    total_paid,        \* Worker.total_paid
    shares,            \* Share rows (with two observation fields, below)
    blocks,            \* Block rows
    payments,          \* Payment rows
    clock,             \* datetime.utcnow() of the last stamped commit
    tip,               \* the daemon's block count
    sent,              \* coins the daemon has transferred to each address
    found,             \* observation: heights solved by pool shares
    counted,           \* observation: <<height, share ts>> attributed by a distribution
    distributed        \* observation: heights whose distribution has run

storeVars == <<registered, total_shares, valid_shares, invalid_shares,
               pending_balance, total_paid, shares, blocks, payments, clock>>
daemonVars == <<tip, sent>>
ghostVars == <<found, counted, distributed>>

(* What the daemon answered to a submitted solution (rpc.getwork([data])): *)
(* a full block, a share, an explicit rejection, or a JSON-RPC error that  *)
(* rpc_client.getwork turns into None.                                     *)
Replies == {"block", "share", "rejected", "error"}

(* A Share row. `reply` and `solved` are observations, not columns: what   *)
(* the daemon really answered and the height the solution produced (0 if  *)
(* none; the code never fills Share.block_height).                         *)
ShareRow == [worker : Addresses, ts : Nat, valid : BOOLEAN,
             reply : Replies, solved : Nat]
BlockRow == [height : Nat, ts : Nat, finder : Addresses]
PaymentRow == [worker : Addresses, amount : Nat, height : Nat,
               status : {"pending", "confirmed", "failed"}, txid : Nat]

StoreTypeOK ==
    /\ registered \subseteq Addresses
    /\ total_shares \in [Addresses -> Nat]
    /\ valid_shares \in [Addresses -> Nat]
    /\ invalid_shares \in [Addresses -> Nat]
    /\ pending_balance \in [Addresses -> Nat]
    /\ total_paid \in [Addresses -> Nat]
    /\ shares \subseteq ShareRow
    /\ blocks \subseteq BlockRow
    /\ payments \subseteq PaymentRow
    /\ clock \in Nat
    /\ tip \in 0..MaxHeight
    /\ sent \in [Addresses -> Nat]
    /\ found \subseteq 1..MaxHeight
    /\ counted \subseteq (1..MaxHeight) \X Nat
    /\ distributed \subseteq 1..MaxHeight

StoreInit ==
    /\ registered = {}
    /\ total_shares = [a \in Addresses |-> 0]
    /\ valid_shares = [a \in Addresses |-> 0]
    /\ invalid_shares = [a \in Addresses |-> 0]
    /\ pending_balance = [a \in Addresses |-> 0]
    /\ total_paid = [a \in Addresses |-> 0]
    /\ shares = {}
    /\ blocks = {}
    /\ payments = {}
    /\ clock = 0
    /\ tip = 0
    /\ sent = [a \in Addresses |-> 0]
    /\ found = {}
    /\ counted = {}
    /\ distributed = {}

\* The worker's three share counters, as one ORM load reads them.
Counters(a) == [total |-> total_shares[a], valid |-> valid_shares[a],
                invalid |-> invalid_shares[a]]

RecordedHeights == {b.height : b \in blocks}

SharesOf(a) == {s \in shares : s.worker = a}

AmountSum(P) == MapThenSumSet(LAMBDA p : p.amount, P)
=============================================================================
