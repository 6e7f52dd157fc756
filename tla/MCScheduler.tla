----------------------------- MODULE MCScheduler -----------------------------
(***************************************************************************)
(* Two markets in different time zones with a camera each, and all         *)
(* schedules of Sunday and Monday: the week is the same on every other     *)
(* pair of days, except that it begins anew between these two.             *)
(***************************************************************************)
EXTENDS Scheduler, TLC

CONSTANTS c1, c2, ma, mb, m1

MCMarketOf == c1 :> ma @@ c2 :> mb
MCModeOf   == [c \in Camera |-> m1]
MCOffset   == ma :> -1 @@ mb :> 2

MCSchedule == [ mode : Mode, day : {0, 6}, start : Time, end : Time,
                market : {NoMarket, mb} ]

=============================================================================
