# TLA+ models of the Trinity pool coordinator

This directory holds TLA+ models of the mining-pool coordinator in
`src/pool-explorer/`, and the TLC configurations that check them. The
coordinator is `pool_server.py`. It uses the ORM tables in `models.py`, the
daemon client in `rpc_client.py`, and it is started by `app.py`.

## 1. Inventory

### Components and their state

| Component | Code | State it keeps | Operations |
|---|---|---|---|
| Share Ledger | `PoolServer.get_work`, `PoolServer.submit_share` (pool_server.py:63-141) | Worker rows (`total_shares`, `valid_shares`, `invalid_shares`, `last_seen`) and Share rows | create a worker on its first valid get_work; classify a solution through the daemon and record a Share |
| Reward Distributor | `_handle_block_found`, `_process_block_payments` (143-171, 205-255) | Block rows, Payment rows, `Worker.pending_balance` | record the daemon's tip block; split `reward*(1-fee)` over the round's valid shares |
| Payout Dispatcher | `_payment_loop` (257-299) | `Worker.pending_balance`, `Worker.total_paid`, `Payment.status/txid` | every 300 s: select balances at or above the threshold, `sendmany` them, settle |
| Hashrate Estimator | `_process_shares_loop` (173-203), window append in `submit_share` (129-135) | in-memory `shares_window` dict; `Worker.hashrate` | every 60 s: drop window entries older than 10 min and recompute the hashrate |
| Work Cache | `_update_work_loop` (51-61), end of `get_work` (82-86) | in-memory `current_work` | every 10 s: replace the template when getwork returns one |
| Daemon Adapter | `TrinityRPC` (rpc_client.py) | none (it opens a new connection per call) | every wrapper returns None on a `JSONRPCException`; other exceptions propagate |
| Persistence | `models.py`, Flask-SQLAlchemy | the tables; one session per thread (app context) | commit, expire-on-commit, unique `Block.height`/`hash` and `Worker.address` |
| Dashboard | `app.py` routes, `get_pool_stats` | none | read-only queries and templates |

### How they interact

* Flask serves `/api/getwork` on concurrent request threads. A request with
  `data` runs `submit_share`, and one without runs `get_work`.
* `submit_share` calls the daemon (`getwork([data])`). When the daemon
  accepts a full block, the same thread runs `_handle_block_found` and then
  `_process_block_payments` before it records the Share.
* `PoolServer.start` launches three daemon threads: the work loop, the
  hashrate loop and the payment loop. All of them share the database. The
  hashrate loop also shares the in-memory `shares_window` with the request
  threads.
* Every database step is a commit of a per-thread session. A session keeps
  the rows it loaded until its next commit expires them. The counters and
  balances are therefore read-modify-writes of values that may be stale.

### What makes it hard

* Interleaving. There are request threads, a payout thread and a hashrate
  thread, and the ORM copies can be stale across a daemon round trip. This
  happens in submit_share (load at line 91, RPC at 97, write at 120-127) and
  in the payout loop (load at 263, sendmany at 275, write at 279-291).
* Ordering of commits. The block is distributed before the solving share is
  recorded, and the round query has no upper bound. A Share's timestamp is
  taken at its flush, so on a server database rows can become visible out
  of timestamp order.
* Failure. A crash can fall between a daemon side effect (`sendmany`) and
  the commit that records it, or between the Block insert and its payments.
  RPC calls fail and time out, an `IntegrityError` leaves the session
  failed, and a failed distribution commit is rolled back and not retried.
* Liveness. A due payout is retried forever, and a hashrate must decay to 0.

### Properties that make each component correct

* Share Ledger: the counters equal the counts of Share rows. Only a daemon
  rejection makes a share invalid. Every solution the daemon accepted is
  recorded.
* Reward Distributor: every found block is recorded and distributed exactly
  once. Rounds are disjoint and contain the solving share. Each block's
  payments add up to the net reward.
* Payout Dispatcher: `total_paid` equals what the daemon transferred.
  `pending_balance` equals the sum of the pending Payments. Every Payment is
  either pending or paid. No transfer is below the threshold. A due balance
  is eventually paid if sendmany eventually succeeds.
* Hashrate Estimator: the window contains every recent share of the worker.
  The hashrate is 0 once the window is empty.
* Work Cache: get_work never returns an uninitialised template, and a failed
  refresh keeps the previous one.

The hazards, each at the line where it bites, are listed in `PROJECT.json`.

## 2. Modules

| Module | Models | State | Actions |
|---|---|---|---|
| `PoolStore` | the tables of models.py and what the daemon does (chain tip, coins sent) | `registered`, `total_shares`, `valid_shares`, `invalid_shares`, `pending_balance`, `total_paid`, `shares`, `blocks`, `payments`, `clock`, `tip`, `sent`, plus observation variables `found`, `counted`, `distributed` | none (shared definitions) |
| `ShareLedger` | get_work, submit_share, _handle_block_found, _process_block_payments | `req[t]` per request thread: step, address, daemon reply, the session's copy of the counters (`snap`), whether that copy was expired (`fresh`), whether the session is failed (`poisoned`) | `GetWork`, `SubmitShare`, `DaemonReply`, `HandleBlockFound`, `LoadRound`, `CommitRound` with `CommitRoundFailed` (together `ProcessBlockPayments`), `StampShare` (server database only), `RecordShare` |
| `PayoutDispatcher` | _payment_loop | `payout`: step, the Worker rows as loaded, the daemon's txid counter | `SelectPayees`, `SendMany` (`SendManyPaid`, `SendManyFailed`, `SendManyLate`), `Settle` |
| `Pool` | the process: all of the above over one store, other miners' blocks, crashes | `crashes` | `NetworkBlock`, `Crash`; the properties |
| `MCPool` | Pool for TLC | | symmetry over threads and valid addresses |
| `AtomicLedger` | the Share Ledger's promise (spec 4.2 step 3, 5 (a)), not code | `registered`, `recorded` (Shares per worker and validity), `counter` | `Register`, `Record`: one atomic submission |
| `WorkCache` | `current_work` and the work thread (51-61) | `current_work`: the tip its template was built on, or `NoWork` | `RefreshWork` |
| `PoolLive` | Pool with the work thread, and the fairness of the loops | | `LiveNext`, `LiveFairness`; the liveness properties |
| `MCPoolLive` | PoolLive for TLC | | no symmetry |
| `HashrateEstimator` | the in-memory `shares_window` and `Worker.hashrate`: the end of submit_share (129-135) and `_process_shares_loop` (173-203) | `keys` (the dict's keys in insertion order), `window[a]` (entries with an id and an age in minutes), `hashrate`, `hreq[t]` per request thread, `est` for the estimator (step, keys still to visit, the filtered copy), observation variables `issued`, `expired` | `CheckKey` (130), `CreateList` (131), `AppendEntry` (132-135), `StartSweep` (179-181), `FilterWindow` (183-184), `WriteBack` (185-198), `Tick` (the `sleep(60)` of 203) |
| `MCHashrate` | HashrateEstimator for TLC | | symmetry over threads and addresses (safety runs) |

How the code maps onto the model:

* `submit_share` is split wherever another thread can commit in between.
  `SubmitShare` loads the row (lines 90-93). `DaemonReply` covers the RPC and
  its classification (95-109). `HandleBlockFound` covers 143-171, and
  `LoadRound` covers 205-236: the round query and the payees' Worker rows
  as line 234 loads them. The loop of 219-228 that groups the round by
  worker is the recursive `WorkerShares`, and `Split` is the amount of 236.
  `CommitRound` covers 238-255: the credits on those
  loaded copies and the Payments, in one commit. Its alternative
  `CommitRoundFailed` is the commit raising (a lock timeout, a lost
  connection): lines 253-255 roll back, nothing of the round is written,
  the block stays undistributed and the request goes on to record its
  share.
* The commit of line 127 flushes the Worker UPDATE and then the Share
  INSERT, whose flush evaluates the `Share.timestamp` default
  (models.py:76). The constant `ServerDb` says which database
  `SQLALCHEMY_DATABASE_URI` (config.py:9) names. On the default SQLite the
  UPDATE has already taken the database's write lock when the stamp is
  taken, so no other commit falls in between: `RecordShare` (111-141)
  stamps and commits in one step. On a server database (`DATABASE_URL`) row
  locks let another thread commit between the flush and the commit, so the
  stamp is a step of its own, `StampShare`.
* The record step increments `snap` unless a commit of the same thread
  (the Block insert) expired it. In that case it reloads the current row.
  It writes back only the columns that changed, as the ORM does.
* A daemon reply can be True (block: the chain grows), False (share), an
  explicit rejection, a JSON-RPC error (None, recorded as invalid), or a
  transport exception (nothing recorded).
* `HandleBlockFound` takes the block that `TipLookups` returns: the chain
  of getblockcount, getblockhash and getblock (rpc_client.py:26-54) gives
  the block at the daemon's tip or, on a failure, none, which skips the block.
  `GetWork` registers an address that `AddressAccepted` (validateaddress,
  rpc_client.py:119-127) accepts.
  A tip height that is already recorded raises IntegrityError, which is
  caught without a rollback. The failed session makes the following Share
  commit raise, so nothing is recorded.
* `SendMany` has four outcomes, in three actions. `SendManyPaid`: it pays
  and returns a txid. `SendManyFailed`: it returns a JSON-RPC error, or
  raises before the daemon acts. `SendManyLate`: when
  `LateSends` is set, it can time out after the daemon has paid.
* `Settle` writes `total_paid = loaded.paid + loaded.pending` and
  `pending_balance = 0` for the loaded workers. It confirms every Payment
  that is pending at commit time.
* `Crash` resets every thread and every ORM copy. The committed rows, the
  coins sent and the daemon's txid counter persist.

Abstractions:

* `Worker.difficulty` is never assigned, so every share weighs one unit.
* Amounts are integers. `NetReward` is chosen to divide by every possible
  round size, so the check covers the split and not float rounding.
* The clock ticks at each stamp, so no two rows share a timestamp. A Share
  is stamped at its flush and becomes visible at its commit; on SQLite the
  two are one step. A Block is
  stamped and committed in one step: a commit of another thread between
  those two only adds to the double counting that `double_count` shows.
* The 24 h fallback is the constant `Lookback`, counted in ticks.
* The distribution's reads (205-236) are one step and its commit (238-255)
  another.
* `last_seen`, logging and response formatting are left out.
* In `HashrateEstimator` the two statements of lines 130-131 and the read,
  filter and write-back of lines 183-185 are separate steps, because the
  interpreter can switch threads between them. Time passes only in the
  estimator's minute of sleep, since a sweep takes milliseconds. An entry
  stamped in the current minute gives a span between 0 and 1 minute; the
  model takes one minute, or keeps the old hashrate for a zero span.

## 3. Runs

The `MCPool` runs use two request threads, three
addresses of which two are valid, `NetReward = 12`,
`Threshold = 6`, `Lookback = 3`, `MaxHeight = 3` and `MaxSends = 2`. The
bounds let two blocks be found and distributed, a round hold 1 to 4 shares
of one or two workers, a payout run in the middle of a distribution, and a
worker receive amounts both below and above the threshold. Every run but
`share_dropped` takes the default SQLite database (`ServerDb = FALSE`);
`faults` takes about two minutes.

| Run | Expect | Checks | Shows |
|---|---|---|---|
| `reliable` | pass | PaidMatchesSent, NoShareDropped | With no crash and no lost sendmany reply, the daemon pays exactly what `total_paid` records. On SQLite, a valid share stamped between two consecutive distributed blocks is attributed to a round, the solving share of the first included (the counterpart of `share_dropped`). |
| `faults` | pass | TypeOK, CountersMatchShares, BlockPaymentsConserve, PaymentsProportional | With one crash, late sendmany replies and failed distribution commits: serialised submissions keep the counters right, each block's payments add up to the net reward, and each Payment is its worker's fraction of the shares the round attributed (the grouping loop as the recursive `WorkerShares`). |
| `lost_update` | violation | AtomicSubmissions | `Pool` does not refine `AtomicLedger`: with two submissions of one miner in flight, a commit adds a Share and writes counters that lose the other submission's increment, which is no atomic submission. |
| `block_lost` | violation | FoundBlocksAccounted | A block the daemon accepted ends its request without its Share recorded or its reward distributed. Causes: a failed lookup RPC, the tip moved on, the tip was already recorded and the failed session drops the Share, a distribution commit rolled back (253-255), or a crash between the Block commit and the distribution commit. |
| `double_count` | violation | RoundsDisjoint | A share committed by another thread between the Block insert and the round query is paid twice. |
| `share_dropped` | violation | NoShareDropped | On a server database (`ServerDb = TRUE`), a valid Share is stamped at its flush, and another thread commits a later Block and distributes it before the Share's commit. No round ever attributes the Share: the block's query ran before it was visible, and the next round starts at the block's timestamp. In the counterexample it is the solving share of the previous block. |
| `payout_race` | violation | PaymentsAccounted | A payment distributed during sendmany is confirmed, but it was never sent. |
| `lost_credit` | violation | PendingMatchesPayments | With one request thread, the payout thread settles a balance between the distribution's load (234) and its commit (250). The commit writes the paid balance back on top of the new credit, and the next sweep pays it again. |
| `double_pay` | violation | PaidMatchesSent | A balance is sent twice: after a crash between sendmany and the settlement commit, or after a timed-out sendmany that did execute. |
| `hashrate_drain` | pass | TypeOK, WindowsDrain | Under weak fairness of the estimator loop, every window empties once submissions stop, and no entry outlives the cutoff by more than one sweep. |
| `lost_entry` | violation | NoLostEntries | A just-appended window entry is lost, to a second thread's list creation (131) or to the estimator's write-back of an older copy (185). |
| `progress` | pass | DueBalancePaid | Every balance that reaches the threshold is eventually paid out, despite failing sendmany calls, rolled-back distributions and concurrent distributions. |

`progress` runs `MCPoolLive` with one request thread, three submissions,
`MaxHeight = 2`, `MaxSends = 2` and no crash or late reply. Every
successful sendmany follows a distribution, so two sends are enough. No
symmetry is used, because the run checks liveness. With `NetReward = 12`
and `Threshold = 6`, a share of each worker followed by a block leaves both
exactly at the threshold. Three submissions keep the run under five
minutes with the request threads' fairness; four took longer.

The `MCHashrate` runs use two workers, two request threads, a window
of 2 minutes, `Scale = 4` for 2^32 and 3 submissions. This lets an entry age
out while another is appended, and two threads race on one new key.

Spec 4.2 appends the solving Share before the block is distributed, but
line 102 distributes before the Share insert at 111-127. The share therefore
misses its own round. Only the next round's cutoff, taken at the previous
Block's timestamp (line 211), can still pick it up. With the stamp taken at
the flush and a commit of another thread in between, possible only on a
server database, that fails too (`share_dropped`). On SQLite the stamp and
the commit are not separated and `NoShareDropped` holds (`reliable`).

The violation runs are listed as findings in `PROJECT.json`. Each pass run's
property has a mutant in `PROJECT.json`: a plausible bug in the mapped
definition that TLC must catch under the run's configuration.

Fairness. Each background loop is a `while self.running` loop that sleeps a
fixed time and catches every exception, so it always runs again.
* `hashrate_drain` assumes weak fairness of each step of the estimator loop,
  including its sleep.
* `progress` assumes weak fairness of the work refresh, the payee selection
  and the settlement. It assumes strong fairness of a successful sendmany,
  since a failed attempt ends the iteration. That a sendmany eventually
  succeeds, and a getwork with it, is an assumption about the daemon, not
  something the code guarantees: `DueBalancePaid` holds only for a daemon
  that recovers.
* A request thread already inside submit_share gets weak fairness for its
  next step. Every RPC it waits on answers or raises on the proxy's HTTP
  timeout, and the other steps are database work. Starting a submission
  gets no fairness, because a miner may stop submitting.
* The `MCPool` runs check safety only.

## 4. Not modelled

* Configuration access. `app.py:51` and `:54` pass `app.config`, which is
  Flask's dict subclass. The code then reads attributes from it:
  `config.RPC_USER` (rpc_client.py:15), `self.config.POOL_FEE`
  (pool_server.py:231) and `self.config.PAYOUT_THRESHOLD` (264). A dict has
  no such attributes. As written, `TrinityRPC.__init__` raises
  `AttributeError` and the app never starts. The model reads these settings
  as the values of the `Config` class (`NetReward`, `Threshold`), which is
  what the code evidently means. A start-up failure has no behaviour to
  check.
* `PAYOUT_THRESHOLD` is never checked to be positive (config.py:26). Spec 7
  calls a threshold at or below 0 fatal at start-up. The model assumes
  `Threshold > 0`. At 0, line 264 would put every worker into the batch,
  zero balances included.
* A found block is credited at once (line 165) and never re-checked:
  `Block.confirmations` is never updated. The model's chain only grows, so
  an orphaned block is not modelled.
* Retired run `stale_hashrate`: line 188 skips the update when a worker's
  window is empty, so the hashrate never decays to 0 (spec 8 lists the
  test). A sequential unit test reaches it, so its run slot went to
  `share_dropped`. `HashrateEstimator` still models the skip.

* Modelled but not checked by a run: `DaemonReply` records a JSON-RPC error
  (rpc_client.py:85 returns None) as the worker's invalid share. Spec 4.2
  step 2 wants a daemon failure kept apart from a rejection. One reply is
  enough to show this, and a unit test of submit_share reaches it, so the
  run went to the `lost_credit` race.

* The dashboard, explorer, admin routes and `get_pool_stats` are read-only.
  `/admin/settings` POST only flashes a message. `api_getwork` only
  dispatches to submit_share or get_work (`LedgerNext`).
* `api_getwork` answers "No work available" (503) both when the cache is
  empty and when get_work rejected the address (line 72). Spec 6 wants a
  rejection, distinct from the retryable "no work". This is a response code
  with no state behind it, so no property checks it.
* The first-get_work race (line 76): two requests for a new address both
  insert a Worker, and the unique constraint makes the second raise out of
  get_work, an HTTP 500. No row is lost, and the retry succeeds.
* Templates and log text are not modelled.
* The JSON-RPC transport is pure I/O.
* The `PoolStats` and `Transaction` tables are never written by the
  coordinator.
* Float rounding of amounts (line 236) is not modelled: amounts are exact
  integers, so a rounding gap between the payments and the net reward is
  out of reach.
* Whether the cached template follows the daemon's tip (line 57) is not
  checked: the refresh is one assignment, and whether getwork eventually
  succeeds is a property of the daemon.
* `last_seen` is not modelled.

## 5. Plan

Done in order of importance:

1. `PoolStore`, `ShareLedger`, `PayoutDispatcher`, `Pool`: the money path
   (shares, rounds, balances, payouts) under concurrency, crashes and daemon
   failures.

2. `HashrateEstimator`: `shares_window` shared by request threads (check,
   create and append at lines 130-135) and the estimator thread (filter and
   write-back at 183-185, hashrate at 188-198). The window drains, entries
   are lost to both races, and the hashrate never decays to 0.

3. The failed-session path (line 170) and the lost lookups, folded into
   `FoundBlocksAccounted` (`block_lost`).
4. `WorkCache` and `PoolLive`: the work thread composed with the pool, and
   the liveness of payouts (`progress`).
5. `AtomicLedger` and the refinement `AtomicSubmissions`, which the
   pipelined submissions of `lost_update` violate.
6. `ProcessBlockPayments` split into `LoadRound` and `CommitRound`
   (`lost_credit`). The grouping loop as the recursive `WorkerShares`,
   checked by `PaymentsProportional` (`faults`).
7. The Share commit split at its flush (`StampShare`): a share stamped
   before a later block's distribution but committed after it is dropped
   (`share_dropped`, replacing `stale_hashrate`). The daemon lookups of
   `_handle_block_found` and `get_work` as `TipLookups` and
   `AddressAccepted`.
8. The database as a constant (`ServerDb`): the flush/commit gap exists
   only on a server database. The distribution commit's rollback
   (`CommitRoundFailed`).

Next:

9. The window also receives invalid shares (line 132 runs for every
   recorded share), while spec 4.3 counts valid shares only. Add the
   validity to `CheckKey` and state that the window holds valid shares.
10. An abstract payout specification (pending moves to paid exactly once)
   and its refinement. Today it fails for the reasons `payout_race`,
   `lost_credit` and `double_pay` show.

The project uses all twelve runs. A new question therefore goes into an
existing run's configuration, or replaces a run.
