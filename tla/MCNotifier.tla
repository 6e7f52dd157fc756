------------------------------ MODULE MCNotifier ------------------------------
(***************************************************************************)
(* Two notices about one decision (two transitions to warning) and two     *)
(* configurations.                                                         *)
(***************************************************************************)
EXTENDS Notifier, TLC

CONSTANTS n1, n2, d1, c1, c2

MCDecisionOf == [n \in Notice |-> d1]

=============================================================================
