---------------------------- MODULE AtomicLedger ----------------------------
(***************************************************************************)
(* What the Share Ledger promises (spec 4.2 step 3, 5 (a)): a submission   *)
(* is one atomic step that appends a Share of the worker and increments    *)
(* its total counter and the valid or invalid one with it. Workers are     *)
(* created once and never deleted.                                         *)
(***************************************************************************)
EXTENDS Naturals

CONSTANTS
    Addresses

VARIABLES
    registered,   \* workers that exist
    recorded,     \* recorded[a]: number of a's Shares, by validity
    counter       \* counter[a]: a's total, valid and invalid counters

Kinds == {"valid", "invalid"}

Init ==
    /\ registered = {}
    /\ recorded = [a \in Addresses |-> [k \in Kinds |-> 0]]
    /\ counter = [a \in Addresses |-> [total |-> 0, valid |-> 0, invalid |-> 0]]

Register(a) ==
    /\ a \notin registered
    /\ registered' = registered \cup {a}
    /\ UNCHANGED <<recorded, counter>>

Record(a, k) ==
    /\ a \in registered
    /\ recorded' = [recorded EXCEPT ![a][k] = @ + 1]
    /\ counter' = [counter EXCEPT ![a].total = @ + 1, ![a][k] = @ + 1]
    /\ UNCHANGED registered

Next ==
    \/ \E a \in Addresses : Register(a)
    \/ \E a \in Addresses, k \in Kinds : Record(a, k)

Spec == Init /\ [][Next]_<<registered, recorded, counter>>
=============================================================================
