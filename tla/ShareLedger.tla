---------------------------- MODULE ShareLedger ----------------------------
(***************************************************************************)
(* The request-handling side of PoolServer (pool_server.py): get_work,     *)
(* which creates the Worker row, and submit_share, which classifies a      *)
(* solution through the daemon, on a found block runs _handle_block_found  *)
(* and _process_block_payments synchronously, and records the Share and    *)
(* the worker's counters.                                                  *)
(*                                                                         *)
(* Flask serves requests on concurrent threads, each with its own          *)
(* SQLAlchemy session. submit_share is split at the points where another   *)
(* thread can commit in between: the daemon call (line 97) and each        *)
(* commit. A thread keeps the Worker row as its session loaded it (snap);  *)
(* a commit in its own session expires that copy (fresh), so the next     *)
(* access reloads it.                                                      *)
(***************************************************************************)
EXTENDS PoolStore, Integers, SequencesExt

CONSTANTS
    Threads,           \* request-handling threads
    PipelinedSubmits,  \* may one miner have two submissions in flight?
    ServerDb           \* DATABASE_URL names a server database, not SQLite

VARIABLES
    req,        \* req[t]: what request thread t is doing
    submitted   \* submit_share calls so far (bounded by MaxSubmits)

ledgerVars == <<req, submitted>>

ReqState == [pc : {"idle", "rpc", "block", "payments", "credit", "record", "commit"},
             addr : Addresses \cup {NoAddr},
             reply : Replies \cup {"none"},
             snap : [total : Nat, valid : Nat, invalid : Nat],
             fresh : BOOLEAN,      \* the session's Worker copy is expired
             poisoned : BOOLEAN,   \* the session has a failed flush
             found : Nat,          \* height the daemon accepted, or 0
             blk : Nat,            \* height of the Block row written, or 0
             credit : SUBSET [worker : Addresses, base : Nat, amount : Nat],
                                   \* each payee's balance as loaded, and its share
             round : SUBSET Nat,   \* timestamps of the round's shares
             stamp : Nat]          \* Share.timestamp taken at the flush

IdleReq == [pc |-> "idle", addr |-> NoAddr, reply |-> "none",
            snap |-> [total |-> 0, valid |-> 0, invalid |-> 0],
            fresh |-> FALSE, poisoned |-> FALSE, found |-> 0, blk |-> 0,
            credit |-> {}, round |-> {}, stamp |-> 0]

LedgerTypeOK ==
    /\ req \in [Threads -> ReqState]
    /\ submitted \in 0..MaxSubmits

LedgerInit ==
    /\ req = [t \in Threads |-> IdleReq]
    /\ submitted = 0

Busy(a) == \E t \in Threads : req[t].pc # "idle" /\ req[t].addr = a

(* validateaddress (rpc_client.py:119-127) as get_work reads it (lines    *)
(* 70-72): the daemon's isvalid. A JSON-RPC error gives None and another   *)
(* exception escapes get_work; both leave the address unregistered, like   *)
(* an invalid one, and change nothing.                                     *)
AddressAccepted(a) == a \in ValidAddr

(* get_work for an address without a Worker row: validateaddress, then    *)
(* insert the row. Known addresses only get last_seen updated, and an      *)
(* invalid address or a failed validation returns None: no state changes.  *)
GetWork(a) ==
    /\ a \notin registered
    /\ AddressAccepted(a)
    /\ registered' = registered \cup {a}
    /\ UNCHANGED <<total_shares, valid_shares, invalid_shares, pending_balance,
                   total_paid, shares, blocks, payments, clock>>
    /\ UNCHANGED <<daemonVars, ghostVars, ledgerVars>>

(* submit_share entry (lines 90-93): load the Worker row; an unknown       *)
(* address is answered 'Unknown worker' with nothing written.              *)
SubmitShare(t, a) ==
    /\ req[t].pc = "idle"
    /\ submitted < MaxSubmits
    /\ PipelinedSubmits \/ ~Busy(a)
    /\ submitted' = submitted + 1
    /\ IF a \in registered
         THEN req' = [req EXCEPT ![t] = [IdleReq EXCEPT !.pc = "rpc", !.addr = a,
                                                          !.snap = Counters(a)]]
         ELSE UNCHANGED req
    /\ UNCHANGED <<storeVars, daemonVars, ghostVars>>

(* self.rpc.getwork([data]) and its classification (lines 97-109). True:  *)
(* the daemon extends its chain with the pool's block. False: a share.    *)
(* Anything else, including None from a JSONRPCException, is invalid. A   *)
(* transport exception escapes to line 139 and nothing is recorded.        *)
DaemonReply(t) ==
    /\ req[t].pc = "rpc"
    /\ \/ /\ tip < MaxHeight
          /\ tip' = tip + 1
          /\ found' = found \cup {tip + 1}
          /\ req' = [req EXCEPT ![t].pc = "block", ![t].reply = "block",
                                ![t].found = tip + 1]
       \/ \E r \in {"share", "rejected", "error"} :
            /\ req' = [req EXCEPT ![t].pc = "record", ![t].reply = r]
            /\ UNCHANGED <<tip, found>>
       \/ /\ req' = [req EXCEPT ![t] = IdleReq]
          /\ UNCHANGED <<tip, found>>
    /\ UNCHANGED <<storeVars, sent, counted, distributed, submitted>>

(* getblockcount, getblockhash(count) and getblock(hash)                  *)
(* (rpc_client.py:26-54), chained by _handle_block_found (lines 147-151):  *)
(* each returns None on a JSON-RPC error and lets any other exception      *)
(* escape to line 170; otherwise they yield the block at the daemon's tip. *)
(* 0 stands for no block: a failed call, or a count of 0, which line 148   *)
(* takes as false.                                                         *)
TipLookups == {0, tip}

(* _handle_block_found (lines 143-171): insert a Block row for the block  *)
(* the lookups return; none skips it. A height already recorded makes the *)
(* commit raise IntegrityError, which line 170 logs without a rollback:    *)
(* the session stays failed.                                               *)
HandleBlockFound(t) ==
    /\ req[t].pc = "block"
    /\ \E h \in TipLookups :
         \/ /\ h = 0
            /\ req' = [req EXCEPT ![t].pc = "record"]
            /\ UNCHANGED <<blocks, clock>>
         \/ /\ h > 0
            /\ h \in RecordedHeights
            /\ req' = [req EXCEPT ![t].pc = "record", ![t].poisoned = TRUE]
            /\ UNCHANGED <<blocks, clock>>
         \/ /\ h > 0
            /\ h \notin RecordedHeights
            /\ blocks' = blocks \cup {[height |-> h, ts |-> clock + 1,
                                       finder |-> req[t].addr]}
            /\ clock' = clock + 1
            /\ req' = [req EXCEPT ![t].pc = "payments", ![t].blk = h,
                                  ![t].fresh = TRUE]
    /\ UNCHANGED <<registered, total_shares, valid_shares, invalid_shares,
                   pending_balance, total_paid, shares, payments>>
    /\ UNCHANGED <<daemonVars, ghostVars, submitted>>

(* Fault-injected variant of Cutoff: the previous block is ignored and    *)
(* every round starts at the 24h fallback.                                 *)
CutoffFallbackOnly(h) == clock - Lookback

(* Fault-injected variant of Cutoff: the block itself counts as its own   *)
(* previous block (height <= h for < h at line 211).                       *)
CutoffSelfInclusive(h) ==
    LET prev == {b \in blocks : b.height <= h}
    IN IF prev # {}
         THEN (CHOOSE b \in prev : \A c \in prev : c.height <= b.height).ts
         ELSE clock - Lookback

(* The round of block h (lines 209-216): every valid share stamped at or   *)
(* after the previous block (by height), else after now - 24h. The query   *)
(* has no upper bound: it takes every share committed so far.              *)
Cutoff(h) ==
    LET prev == {b \in blocks : b.height < h}
    IN IF prev # {}
         THEN (CHOOSE b \in prev : \A c \in prev : c.height <= b.height).ts
         ELSE clock - Lookback

RoundShares(h) == {s \in shares : s.ts >= Cutoff(h) /\ s.valid}

RoundPayees(h) == {s.worker : s \in RoundShares(h)}

(* The round's shares in the order the query returns them, as the worker *)
(* each belongs to.                                                        *)
RoundWorkers(h) ==
    LET q == SetToSeq(RoundShares(h)) IN [i \in DOMAIN q |-> q[i].worker]

(* Fault-injected variant of WorkerShares: a worker's first share enters  *)
(* the dict with its difficulty and is then added again.                   *)
RECURSIVE WorkerSharesFirstDoubled(_)
WorkerSharesFirstDoubled(ws) ==
    IF ws = <<>> THEN <<>>
    ELSE LET g == WorkerSharesFirstDoubled(Front(ws))
             w == Last(ws)
         IN IF w \in DOMAIN g THEN [g EXCEPT ![w] = @ + 1] ELSE g @@ (w :> 2)

(* Lines 219-228: walk the round's shares and add each one's difficulty   *)
(* (one unit) to its worker's entry of worker_shares, created at 0.        *)
RECURSIVE WorkerShares(_)
WorkerShares(ws) ==
    IF ws = <<>> THEN <<>>
    ELSE LET g == WorkerShares(Front(ws))
             w == Last(ws)
         IN IF w \in DOMAIN g THEN [g EXCEPT ![w] = @ + 1] ELSE g @@ (w :> 1)

(* Lines 230-236: net_reward * (difficulty / total_difficulty) for each   *)
(* worker of the dict; total_difficulty is the number of shares.           *)
Split(ws) ==
    LET g == WorkerShares(ws) IN [a \in DOMAIN g |-> (NetReward * g[a]) \div Len(ws)]

(* Fault-injected variant of RoundAmount: the total is taken over every   *)
(* valid share instead of the round's.                                     *)
RoundAmountAllShares(h, a) ==
    (NetReward * Cardinality({s \in RoundShares(h) : s.worker = a}))
        \div Cardinality({s \in shares : s.valid})

(* The amount line 236 computes for payee a of block h.                    *)
RoundAmount(h, a) == Split(RoundWorkers(h))[a]

(* _process_block_payments up to its writes (lines 205-236): the round's  *)
(* shares, and each payee's Worker row as Worker.query.get loads it (line *)
(* 234; the session's copies were expired by the Block commit). With no   *)
(* attributable work it returns having written nothing (line 221).         *)
LoadRound(t) ==
    LET h == req[t].blk IN
    /\ req[t].pc = "payments"
    /\ IF RoundShares(h) = {}
         THEN /\ req' = [req EXCEPT ![t].pc = "record"]
              /\ distributed' = distributed \cup {h}
         ELSE /\ req' = [req EXCEPT ![t].pc = "credit",
                  ![t].credit = {[worker |-> a, base |-> pending_balance[a],
                                  amount |-> RoundAmount(h, a)] : a \in RoundPayees(h)},
                  ![t].round = {s.ts : s \in RoundShares(h)}]
              /\ UNCHANGED distributed
    /\ UNCHANGED <<storeVars, daemonVars, found, counted, submitted>>

(* Lines 239-255: pending_balance += amount on the loaded copy, a pending  *)
(* Payment per payee, one commit. If the commit raises (a lock timeout, a *)
(* lost connection), lines 253-255 log it and roll back: nothing of the   *)
(* round is written, the block stays undistributed, and the rollback       *)
(* expires the session's Worker copy. Control then returns to             *)
(* submit_share either way.                                                *)
CommitRoundFailed(t) ==
    /\ req' = [req EXCEPT ![t].pc = "record", ![t].credit = {}, ![t].round = {},
                          ![t].fresh = TRUE]
    /\ UNCHANGED <<storeVars, daemonVars, ghostVars, submitted>>

CommitRound(t) ==
    LET h == req[t].blk
        C == req[t].credit
    IN
    /\ req[t].pc = "credit"
    /\ \/ CommitRoundFailed(t)
       \/ /\ pending_balance' = [a \in Addresses |->
                IF \E c \in C : c.worker = a
                  THEN LET c == CHOOSE c \in C : c.worker = a IN c.base + c.amount
                  ELSE pending_balance[a]]
          /\ payments' = payments \cup
                {[worker |-> c.worker, amount |-> c.amount, height |-> h,
                  status |-> "pending", txid |-> 0] : c \in C}
          /\ counted' = counted \cup {<<h, ts>> : ts \in req[t].round}
          /\ distributed' = distributed \cup {h}
          /\ req' = [req EXCEPT ![t].pc = "record", ![t].credit = {}, ![t].round = {}]
          /\ UNCHANGED <<registered, total_shares, valid_shares, invalid_shares,
                         total_paid, shares, blocks, clock>>
          /\ UNCHANGED <<daemonVars, found, submitted>>

ProcessBlockPayments(t) == LoadRound(t) \/ CommitRound(t)

(* The commit at line 127 flushes the Worker UPDATE and the Share INSERT, *)
(* and the INSERT evaluates the column default timestamp = datetime.utcnow *)
(* (models.py:76). On SQLite the UPDATE has already taken the database's  *)
(* write lock, so no other commit falls between the stamp and the commit   *)
(* and RecordShare stamps. On a server database (config.py:9) row locks    *)
(* let another thread commit in between: the stamp is a step of its own.  *)
(* A failed session raises at the flush, before any default is evaluated.  *)
StampShare(t) ==
    /\ ServerDb
    /\ req[t].pc = "record"
    /\ ~req[t].poisoned
    /\ clock' = clock + 1
    /\ req' = [req EXCEPT ![t].pc = "commit", ![t].stamp = clock + 1]
    /\ UNCHANGED <<registered, total_shares, valid_shares, invalid_shares,
                   pending_balance, total_paid, shares, blocks, payments>>
    /\ UNCHANGED <<daemonVars, ghostVars, submitted>>

(* A request ends with its Share commit, or with the error a failed        *)
(* session raises at line 127.                                             *)
Committing(t) ==
    \/ req[t].pc = "commit"
    \/ req[t].pc = "record" /\ (req[t].poisoned \/ ~ServerDb)

(* The Share's timestamp: taken by StampShare, or at the commit itself.    *)
ShareStamp(t) == IF req[t].pc = "commit" THEN req[t].stamp ELSE clock + 1

NewShare(t) == [worker |-> req[t].addr, ts |-> ShareStamp(t),
                valid |-> req[t].reply \in {"block", "share"},
                reply |-> req[t].reply, solved |-> req[t].found]

(* Fault-injected variant of RecordShare: total_shares is incremented    *)
(* only on the valid branch.                                               *)
RecordShareValidOnlyTotal(t) ==
    LET a     == req[t].addr
        base  == IF req[t].fresh THEN Counters(a) ELSE req[t].snap
    IN
    /\ Committing(t)
    /\ req' = [req EXCEPT ![t] = IdleReq]
    /\ IF req[t].poisoned
         THEN UNCHANGED <<total_shares, valid_shares, invalid_shares, shares, clock>>
         ELSE /\ shares' = shares \cup {NewShare(t)}
              /\ clock' = IF req[t].pc = "commit" THEN clock ELSE clock + 1
              /\ IF NewShare(t).valid
                   THEN /\ total_shares' = [total_shares EXCEPT ![a] = base.total + 1]
                        /\ valid_shares' = [valid_shares EXCEPT ![a] = base.valid + 1]
                        /\ UNCHANGED invalid_shares
                   ELSE /\ invalid_shares' = [invalid_shares EXCEPT ![a] = base.invalid + 1]
                        /\ UNCHANGED <<total_shares, valid_shares>>
    /\ UNCHANGED <<registered, pending_balance, total_paid, blocks, payments>>
    /\ UNCHANGED <<daemonVars, ghostVars, submitted>>

(* Record the Share and bump the counters (lines 111-137). The counters    *)
(* are incremented on the session's copy of the row: the one loaded at     *)
(* line 91, or a reload if a commit of this thread expired it. Only the    *)
(* changed columns are written back. A failed session makes the commit    *)
(* raise; line 139 returns the error and nothing is recorded.              *)
RecordShare(t) ==
    LET a     == req[t].addr
        base  == IF req[t].fresh THEN Counters(a) ELSE req[t].snap
    IN
    /\ Committing(t)
    /\ req' = [req EXCEPT ![t] = IdleReq]
    /\ IF req[t].poisoned
         THEN UNCHANGED <<total_shares, valid_shares, invalid_shares, shares, clock>>
         ELSE /\ shares' = shares \cup {NewShare(t)}
              /\ clock' = IF req[t].pc = "commit" THEN clock ELSE clock + 1
              /\ total_shares' = [total_shares EXCEPT ![a] = base.total + 1]
              /\ IF NewShare(t).valid
                   THEN /\ valid_shares' = [valid_shares EXCEPT ![a] = base.valid + 1]
                        /\ UNCHANGED invalid_shares
                   ELSE /\ invalid_shares' = [invalid_shares EXCEPT ![a] = base.invalid + 1]
                        /\ UNCHANGED valid_shares
    /\ UNCHANGED <<registered, pending_balance, total_paid, blocks, payments>>
    /\ UNCHANGED <<daemonVars, ghostVars, submitted>>

LedgerNext ==
    \/ \E a \in Addresses : GetWork(a)
    \/ \E t \in Threads, a \in Addresses : SubmitShare(t, a)
    \/ \E t \in Threads :
         \/ DaemonReply(t)
         \/ HandleBlockFound(t)
         \/ ProcessBlockPayments(t)
         \/ StampShare(t)
         \/ RecordShare(t)
=============================================================================
