------------------------- MODULE HashrateEstimator -------------------------
(***************************************************************************)
(* PoolServer.shares_window (pool_server.py:26), a dict of lists kept in   *)
(* process memory, written by the request threads at the end of           *)
(* submit_share (lines 129-135) and by the estimator thread                *)
(* _process_shares_loop (lines 173-203), which also writes                 *)
(* Worker.hashrate. Python runs one bytecode at a time, so a thread can be *)
(* preempted between any two statements; the steps below end where the    *)
(* code reads state and later writes it.                                   *)
(*                                                                         *)
(* Time: an entry's age counts minutes since its utcnow() stamp; Window   *)
(* is the 10-minute cutoff. A sweep takes milliseconds against the minute  *)
(* the loop sleeps, so time passes only in that sleep. Share difficulty is the constant default, so a window's    *)
(* total difficulty is its length, and Scale stands for 2^32.              *)
(***************************************************************************)
EXTENDS Naturals, Sequences, SequencesExt

CONSTANTS
    Addresses,    \* worker addresses with a Worker row
    Threads,      \* request-handling threads
    Window,       \* the 10-minute window, in ticks
    Scale,        \* 2**32 (line 192), scaled down
    MaxSubmits    \* bound: recorded shares in one behaviour

ASSUME Window > 0 /\ Scale > 0

VARIABLES
    keys,       \* the dict's keys, in insertion order
    window,     \* window[a]: entries [id, age] of shares_window[a]
    hashrate,   \* Worker.hashrate
    hreq,       \* hreq[t]: request thread t at the end of submit_share
    est,        \* the estimator thread
    submitted,  \* shares recorded so far
    issued,     \* observation: <<a, id>> of every entry appended
    expired     \* observation: ids the estimator removed as too old

vars == <<keys, window, hashrate, hreq, est, submitted, issued, expired>>

Entry == [id : 1..MaxSubmits, age : 0..Window]

IdleH == [pc |-> "idle", addr |-> CHOOSE a \in Addresses : TRUE, absent |-> FALSE, id |-> 0]
SleepingEst == [pc |-> "sleep", todo |-> <<>>, filtered |-> <<>>, dropped |-> {}]

TypeOK ==
    /\ keys \in Seq(Addresses) /\ Len(keys) <= Cardinality(Addresses)
    /\ window \in [Addresses -> Seq(Entry)]
    /\ hashrate \in [Addresses -> Nat]
    /\ hreq \in [Threads -> [pc : {"idle", "create", "append"},
                             addr : Addresses, absent : BOOLEAN, id : 0..MaxSubmits]]
    /\ est.pc \in {"ready", "filter", "write", "sleep"}
    /\ est.todo \in Seq(Addresses) /\ est.filtered \in Seq(Entry)
    /\ est.dropped \subseteq 1..MaxSubmits
    /\ submitted \in 0..MaxSubmits
    /\ issued \subseteq Addresses \X (1..MaxSubmits)
    /\ expired \subseteq 1..MaxSubmits

Init ==
    /\ keys = <<>>
    /\ window = [a \in Addresses |-> <<>>]
    /\ hashrate = [a \in Addresses |-> 0]
    /\ hreq = [t \in Threads |-> IdleH]
    /\ est = [SleepingEst EXCEPT !.pc = "ready"]
    /\ submitted = 0
    /\ issued = {}
    /\ expired = {}

Ids(s) == {s[i].id : i \in DOMAIN s}

(* submit_share has committed a Share of worker a (line 127) and reaches  *)
(* line 130: does the dict lack the key?                                   *)
CheckKey(t, a) ==
    /\ hreq[t].pc = "idle"
    /\ submitted < MaxSubmits
    /\ submitted' = submitted + 1
    /\ hreq' = [hreq EXCEPT ![t] = [pc |-> "create", addr |-> a, id |-> submitted + 1,
                                     absent |-> a \notin ToSet(keys)]]
    /\ UNCHANGED <<keys, window, hashrate, est, issued, expired>>

(* Line 131: if it was absent, bind the key to a new empty list, replacing *)
(* any list another thread bound meanwhile.                                *)
CreateList(t) ==
    LET a == hreq[t].addr IN
    /\ hreq[t].pc = "create"
    /\ IF hreq[t].absent
         THEN /\ window' = [window EXCEPT ![a] = <<>>]
              /\ keys' = IF a \in ToSet(keys) THEN keys ELSE Append(keys, a)
         ELSE UNCHANGED <<window, keys>>
    /\ hreq' = [hreq EXCEPT ![t].pc = "append"]
    /\ UNCHANGED <<hashrate, est, submitted, issued, expired>>

(* Lines 132-135: append an entry stamped now.                             *)
AppendEntry(t) ==
    LET a == hreq[t].addr IN
    /\ hreq[t].pc = "append"
    /\ window' = [window EXCEPT ![a] = Append(@, [id |-> hreq[t].id, age |-> 0])]
    /\ issued' = issued \cup {<<a, hreq[t].id>>}
    /\ hreq' = [hreq EXCEPT ![t] = IdleH]
    /\ UNCHANGED <<keys, hashrate, est, submitted, expired>>

(* Lines 179-181: a sweep iterates over a copy of the keys; with no keys   *)
(* it goes straight back to sleep.                                         *)
StartSweep ==
    /\ est.pc = "ready"
    /\ est' = IF keys = <<>> THEN SleepingEst ELSE [SleepingEst EXCEPT !.pc = "filter", !.todo = keys]
    /\ UNCHANGED <<keys, window, hashrate, hreq, submitted, issued, expired>>

(* Fault-injected variant of FilterWindow: keeps entries exactly at the    *)
(* cutoff (>= for > at line 184).                                          *)
FilterWindowInclusive ==
    LET a == Head(est.todo)
        young(e) == e.age <= Window
    IN
    /\ est.pc = "filter"
    /\ est' = [est EXCEPT !.pc = "write", !.filtered = SelectSeq(window[a], young),
                          !.dropped = Ids(window[a]) \ Ids(SelectSeq(window[a], young))]
    /\ UNCHANGED <<keys, window, hashrate, hreq, submitted, issued, expired>>

(* Lines 183-184: read the worker's list and keep the entries newer than   *)
(* the cutoff.                                                             *)
FilterWindow ==
    LET a == Head(est.todo)
        young(e) == e.age < Window
    IN
    /\ est.pc = "filter"
    /\ est' = [est EXCEPT !.pc = "write", !.filtered = SelectSeq(window[a], young),
                          !.dropped = Ids(window[a]) \ Ids(SelectSeq(window[a], young))]
    /\ UNCHANGED <<keys, window, hashrate, hreq, submitted, issued, expired>>

(* The hashrate of a non-empty window (lines 188-192): total difficulty    *)
(* times 2^32 over the age of its first entry, when that age is positive.  *)
(* An entry stamped in the current tick may be 0 or a fraction of a tick   *)
(* old; the fraction is taken as one tick, and a zero span (a clock too   *)
(* coarse to tell the stamps apart) keeps the old value.                   *)
Rates(s, old) ==
    IF s[1].age > 0 THEN {(Len(s) * Scale) \div s[1].age}
                    ELSE {Len(s) * Scale, old}

(* Fault-injected variant of WriteBack: the filtered copy is never stored *)
(* (line 185 missing).                                                     *)
WriteBackNoStore ==
    LET a == Head(est.todo) IN
    /\ est.pc = "write"
    /\ UNCHANGED <<window, expired>>
    /\ IF est.filtered = <<>>
         THEN UNCHANGED hashrate
         ELSE \E r \in Rates(est.filtered, hashrate[a]) :
                hashrate' = [hashrate EXCEPT ![a] = r]
    /\ est' = IF Len(est.todo) = 1 THEN SleepingEst
              ELSE [SleepingEst EXCEPT !.pc = "filter", !.todo = Tail(est.todo)]
    /\ UNCHANGED <<keys, hreq, submitted, issued>>

(* Line 185 writes the filtered copy back; lines 188-198 then update       *)
(* Worker.hashrate if the window is non-empty and its span positive, and   *)
(* leave it as it was otherwise.                                           *)
WriteBack ==
    LET a == Head(est.todo) IN
    /\ est.pc = "write"
    /\ window' = [window EXCEPT ![a] = est.filtered]
    /\ expired' = expired \cup est.dropped
    /\ IF est.filtered = <<>>
         THEN UNCHANGED hashrate
         ELSE \E r \in Rates(est.filtered, hashrate[a]) :
                hashrate' = [hashrate EXCEPT ![a] = r]
    /\ est' = IF Len(est.todo) = 1 THEN SleepingEst
              ELSE [SleepingEst EXCEPT !.pc = "filter", !.todo = Tail(est.todo)]
    /\ UNCHANGED <<keys, hreq, submitted, issued>>

(* time.sleep(60) (line 203): a minute passes between sweeps and every    *)
(* entry ages. Ages stop at Window + 1: any older entry is past the cutoff *)
(* of every sweep alike, so the bound loses no behaviour.                  *)
Tick ==
    /\ est.pc = "sleep"
    /\ window' = [a \in Addresses |->
                    [i \in DOMAIN window[a] |->
                       [window[a][i] EXCEPT !.age = IF @ > Window THEN @ ELSE @ + 1]]]
    /\ est' = [est EXCEPT !.pc = "ready"]
    /\ UNCHANGED <<keys, hashrate, hreq, submitted, issued, expired>>

Next ==
    \/ \E t \in Threads, a \in Addresses : CheckKey(t, a)
    \/ \E t \in Threads : CreateList(t) \/ AppendEntry(t)
    \/ StartSweep \/ FilterWindow \/ WriteBack
    \/ Tick

(* The estimator loop never stops: it catches every exception and sleeps  *)
(* a fixed time (lines 175-203). Request threads may stop.                 *)
Fairness ==
    /\ WF_vars(StartSweep) /\ WF_vars(FilterWindow) /\ WF_vars(WriteBack)
    /\ WF_vars(Tick)

Spec == Init /\ [][Next]_vars
FairSpec == Spec /\ Fairness

-----------------------------------------------------------------------------
(* Every entry a request thread appended stays in its worker's window     *)
(* until the estimator removes it as older than the cutoff: no entry is    *)
(* lost to a concurrent list replacement (lines 131 and 185).              *)
NoLostEntries ==
    \A <<a, id>> \in issued : id \in Ids(window[a]) \/ id \in expired

(* Once submissions stop, every worker's window eventually empties: the    *)
(* dict does not keep shares older than the window forever.                *)
WindowsDrain ==
    <>[](\A a \in Addresses : window[a] = <<>>)
=============================================================================
