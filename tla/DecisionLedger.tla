---------------------------- MODULE DecisionLedger ----------------------------
(***************************************************************************)
(* What the decision tables promise to those who read them, without        *)
(* transactions, locks, keys or queues: one atomic entry at a time.        *)
(*                                                                         *)
(*   - every change of state is announced first and leaves a trail entry;  *)
(*   - each entry links at most one evidence, once, and the count never    *)
(*     exceeds what is linked (it may fall behind);                        *)
(*   - a decision is resolved at most once, and the resolver is never      *)
(*     forgotten, but the state may move again afterwards.                 *)
(*                                                                         *)
(* DecisionLifecycle implements it.                                        *)
(***************************************************************************)
EXTENDS Integers, FiniteSets, Sequences

CONSTANTS Decision, Worker, Watcher, Evidence, None

VARIABLES
    ledger,      \* [state, count, resolvedBy] of each decision, or None
    linked,      \* evidence linked to each decision
    trail,       \* audit trail of each decision
    announced    \* [decision, state, by] of the transitions made known

ledgerVars == << ledger, linked, trail, announced >>

Final == { "resolved_true_positive", "resolved_false_positive",
           "resolved_false_negative" }
Computed == { "normal", "weird", "warning" }

LedgerInit ==
    /\ ledger = [d \in Decision |-> None]
    /\ linked = [d \in Decision |-> {}]
    /\ trail = [d \in Decision |-> << >>]
    /\ announced = {}

Announce(d, s, w) ==
    /\ announced' = announced \cup { [ decision |-> d, state |-> s, by |-> w ] }
    /\ UNCHANGED << ledger, linked, trail >>

\* The trail of d gets an entry of w that moves it to s, announced before.
Recorded(d, event, s, w) ==
    /\ [ decision |-> d, state |-> s, by |-> w ] \in announced
    /\ trail' = [trail EXCEPT ![d] =
                   Append(@, [ event |-> event, to |-> s, by |-> w ])]

\* A worker opens d on its first evidence.
Open(d, e, w) ==
    /\ ledger[d] = None
    /\ \E s \in Computed :
         /\ ledger' = [ledger EXCEPT ![d] =
                         [ state |-> s, count |-> 1, resolvedBy |-> None ]]
         /\ IF s = "normal" THEN UNCHANGED trail
                            ELSE Recorded(d, "state_change", s, w)
    /\ linked' = [linked EXCEPT ![d] = {e}]
    /\ UNCHANGED announced

\* A worker links e to d and moves it on, or leaves its state alone.
Absorb(d, e, w) ==
    /\ ledger[d] # None
    /\ e \notin linked[d]
    /\ linked' = [linked EXCEPT ![d] = @ \cup {e}]
    /\ \E n \in 1..(Cardinality(linked[d]) + 1) :
         \/ /\ ledger' = [ledger EXCEPT ![d].count = n]
            /\ UNCHANGED trail
         \/ \E s \in Computed :
              /\ ledger' = [ledger EXCEPT ![d].count = n, ![d].state = s]
              /\ Recorded(d, "state_change", s, w)
    /\ UNCHANGED announced

\* A repeated delivery links nothing, but may restate what the totals give.
Restate(d, w) ==
    /\ ledger[d] # None
    /\ \E s \in Computed :
         /\ ledger' = [ledger EXCEPT ![d].state = s]
         /\ Recorded(d, "state_change", s, w)
    /\ UNCHANGED << linked, announced >>

\* A watcher resolves d, once.
Resolve(d, q) ==
    /\ ledger[d] # None
    /\ ledger[d].resolvedBy = None
    /\ \E s \in Final :
         /\ ledger' = [ledger EXCEPT ![d].state = s, ![d].resolvedBy = q]
         /\ Recorded(d, "resolved", s, q)
    /\ UNCHANGED << linked, announced >>

\* Announcing again what is known is no step.
LedgerNext ==
    /\ ledgerVars' # ledgerVars
    /\ \E d \in Decision :
          \/ \E s \in Computed, w \in Worker : Announce(d, s, w)
          \/ \E s \in Final, q \in Watcher : Announce(d, s, q)
          \/ \E w \in Worker, e \in Evidence : Open(d, e, w) \/ Absorb(d, e, w)
          \/ \E w \in Worker : Restate(d, w)
          \/ \E q \in Watcher : Resolve(d, q)

LedgerSpec == LedgerInit /\ [][LedgerNext]_ledgerVars

=============================================================================
