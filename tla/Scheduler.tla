------------------------------ MODULE Scheduler ------------------------------
(***************************************************************************)
(* The mode scheduler (workers/scheduler.py): each run goes through the    *)
(* schedules of all tenants and sets the active-mode key of the cameras    *)
(* whose schedule is open; a key lasts 24 hours.  The seed script sets the *)
(* key of its camera too, without a schedule (scripts/seed.py).  The ingest*)
(* API accepts a sequence only while the key of its camera is set.         *)
(*                                                                         *)
(* The clock is UTC and counts the ticks of a week, round and round.  A    *)
(* camera is assigned to one mode (the unique constraint of its            *)
(* assignment), so its key is represented by the ticks it has left.        *)
(***************************************************************************)
EXTENDS Integers, FiniteSets

CONSTANTS
    Camera, Market, Mode,
    NoMarket,      \* a schedule without a market: UTC, cameras of all markets
    MarketOf,      \* the market of each camera
    ModeOf,        \* the mode each camera is assigned to
    SeedCamera,    \* SEED_CAMERA_ID
    Offset,        \* time zone of each market, in ticks ahead of UTC
    TicksPerDay,
    ActiveTTL,     \* ACTIVE_MODE_TTL_SECS, and the seed's ex=86400, in ticks
    Schedule,      \* the schedules an administrator may create
    MaxSchedules,  \* bound: schedules that exist at a time
    Run,           \* runs of the task that may overlap
    RunBound       \* bound: ticks a run may last

Day  == 0..6                   \* _DAY_MAP: Monday is 0
Time == 0..(TicksPerDay - 1)
Week == 7 * TicksPerDay

ASSUME SchedulerAssumption ==
    /\ NoMarket \notin Market
    /\ MarketOf \in [Camera -> Market]
    /\ ModeOf \in [Camera -> Mode]
    /\ SeedCamera \in Camera
    /\ TicksPerDay \in Nat \ {0}
    /\ Offset \in [Market -> (-TicksPerDay)..TicksPerDay]
    /\ ActiveTTL \in Nat \ {0}
    /\ Schedule \subseteq [ mode : Mode, day : Day, start : Time, end : Time,
                            market : Market \cup {NoMarket} ]
    /\ MaxSchedules \in Nat /\ RunBound \in Nat

VARIABLES
    now,         \* ticks since Monday 00:00 UTC
    schedules,   \* context_mode_schedules
    active,      \* ticks the active-mode key of each camera has left
    seeded,      \* history: ticks the key that the seed set last would have left
    run          \* what each run has yet to do

schedulerVars == << now, schedules, active, seeded, run >>

\* read: the schedules it has loaded; todo: those the loop has not reached;
\* keys: cameras of the current schedule whose key is still to be set; age:
\* ticks since the run began.
RunState == [ pc : {"idle", "running"}, read : SUBSET Schedule,
              todo : SUBSET Schedule, keys : SUBSET Camera, age : 0..RunBound ]

Idle == [ pc |-> "idle", read |-> {}, todo |-> {}, keys |-> {}, age |-> 0 ]

SchedulerTypeOK ==
    /\ now \in 0..(Week - 1)
    /\ schedules \subseteq Schedule
    /\ active \in [Camera -> 0..ActiveTTL]
    /\ seeded \in 0..ActiveTTL
    /\ run \in [Run -> RunState]

Init ==
    /\ now \in 0..(Week - 1)
    /\ schedules = {}
    /\ active = [c \in Camera |-> 0]
    /\ seeded = 0
    /\ run = [x \in Run |-> Idle]

-----------------------------------------------------------------------------
\* When a schedule is open

LocalNow(s) == (now + IF s.market = NoMarket THEN 0 ELSE Offset[s.market]) % Week

CurrentDay(s)  == LocalNow(s) \div TicksPerDay
PreviousDay(s) == (CurrentDay(s) - 1) % 7
LocalTime(s)   == LocalNow(s) % TicksPerDay

IsWithinSchedule(start, end, current) ==
    IF start <= end THEN start <= current /\ current <= end
    ELSE current >= start \/ current <= end

\* Mutant: the morning after is looked up under its own day.
DayMatchesToday(s) == CurrentDay(s) = s.day

\* Mutant: the morning of the schedule's own day counts as well.
DayMatchesEither(s) ==
    \/ CurrentDay(s) = s.day
    \/ s.start > s.end /\ PreviousDay(s) = s.day /\ LocalTime(s) <= s.end

\* A schedule over midnight is open in the evening of its day and in the
\* morning of the next one.
DayMatches(s) ==
    IF s.start <= s.end THEN CurrentDay(s) = s.day
    ELSE \/ CurrentDay(s) = s.day /\ LocalTime(s) >= s.start
         \/ PreviousDay(s) = s.day /\ LocalTime(s) <= s.end

MatchesMarket(s, c) == s.market = NoMarket \/ s.market = MarketOf[c]

IsOpen(s) == DayMatches(s) /\ IsWithinSchedule(s.start, s.end, LocalTime(s))

CamerasOf(s) == { c \in Camera : ModeOf[c] = s.mode /\ MatchesMarket(s, c) }

-----------------------------------------------------------------------------
\* What a key has left a tick later.
Older(left) == IF left = 0 THEN 0 ELSE left - 1

\* Time passes for the keys and for the runs.
Tick ==
    /\ \A x \in Run : run[x].pc = "running" => run[x].age < RunBound
    /\ now' = (now + 1) % Week
    /\ active' = [c \in Camera |-> Older(active[c])]
    /\ seeded' = Older(seeded)
    /\ run' = [x \in Run |-> IF run[x].pc = "idle" THEN run[x]
                             ELSE [run[x] EXCEPT !.age = @ + 1]]
    /\ UNCHANGED schedules

\* create_schedule; there is no route that removes one.
CreateSchedule(s) ==
    /\ s \notin schedules /\ Cardinality(schedules) < MaxSchedules
    /\ schedules' = schedules \cup {s}
    /\ UNCHANGED << now, active, seeded, run >>

\* The last statement of seed(): the mode of its camera is active for a day,
\* whatever its schedules say.
SeedActivates ==
    /\ active' = [active EXCEPT ![SeedCamera] = ActiveTTL]
    /\ seeded' = ActiveTTL
    /\ UNCHANGED << now, schedules, run >>

\* The SELECTs at the beginning of _activate_scheduled_modes.
StartRun(x) ==
    /\ run[x].pc = "idle"
    /\ run' = [run EXCEPT ![x] = [ Idle EXCEPT !.pc = "running",
                                                !.read = schedules,
                                                !.todo = schedules ]]
    /\ UNCHANGED << now, schedules, active, seeded >>

\* The next schedule of the loop reads the clock anew.
Evaluate(x, s) ==
    /\ run[x].keys = {} /\ s \in run[x].todo
    /\ run' = [run EXCEPT ![x].todo = @ \ {s},
                          ![x].keys = IF IsOpen(s) THEN CamerasOf(s) ELSE {}]
    /\ UNCHANGED << now, schedules, active, seeded >>

\* Mutant: the key is set without ex and does not run out this week.
SetActiveForEver(x, c) ==
    /\ c \in run[x].keys
    /\ active' = [active EXCEPT ![c] = Week]
    /\ run' = [run EXCEPT ![x].keys = @ \ {c}]
    /\ UNCHANGED << now, schedules, seeded >>

SetActive(x, c) ==
    /\ c \in run[x].keys
    /\ active' = [active EXCEPT ![c] = ActiveTTL]
    /\ run' = [run EXCEPT ![x].keys = @ \ {c}]
    /\ UNCHANGED << now, schedules, seeded >>

RunEnds(x) ==
    /\ run[x].pc = "running" /\ run[x].todo = {} /\ run[x].keys = {}
    /\ run' = [run EXCEPT ![x] = Idle]
    /\ UNCHANGED << now, schedules, active, seeded >>

\* Redis raises, or the worker is killed: nothing continues the run.
RunFails(x) ==
    /\ run[x].pc = "running"
    /\ run' = [run EXCEPT ![x] = Idle]
    /\ active' \in { active } \cup
                   { [active EXCEPT ![c] = ActiveTTL] : c \in run[x].keys }
    /\ UNCHANGED << now, schedules, seeded >>

Next ==
    \/ Tick
    \/ SeedActivates
    \/ \E s \in Schedule : CreateSchedule(s)
    \/ \E x \in Run : \/ StartRun(x) \/ RunEnds(x) \/ RunFails(x)
                      \/ \E s \in Schedule : Evaluate(x, s)
                      \/ \E c \in Camera : SetActive(x, c)

Spec == Init /\ [][Next]_schedulerVars

-----------------------------------------------------------------------------
\* Properties

\* What a schedule means: from its start on its day, in the time zone of its
\* market, to the next time it is its end, both included.
Window(s) ==
    LET opens == s.day * TicksPerDay + s.start
                   - IF s.market = NoMarket THEN 0 ELSE Offset[s.market]
    IN  { (opens + k) % Week : k \in 0..((s.end - s.start) % TicksPerDay) }

\* All instants of the last n ticks and this one.
Since(n) == { (now - k) % Week : k \in 0..n }

\* A camera has an active mode only if a schedule of its mode, for its market,
\* was open within the lifetime of a key before the run that set it, or because
\* it is the seed's camera and the seed was run that long ago: what the seed
\* activates without a schedule ends with the day it was set for, too.
ActiveWasScheduled ==
    \A c \in Camera : active[c] > 0 =>
        \/ \E s \in schedules :
              /\ c \in CamerasOf(s)
              /\ Since(ActiveTTL - active[c] + RunBound) \cap Window(s) # {}
        \/ c = SeedCamera /\ active[c] = seeded

\* A run that comes to its end has activated every camera for which a schedule
\* that it read was open all the time it took: no window is missed, not over
\* midnight, not from Sunday to Monday, not across time zones.
RunActivates ==
    [][ \A x \in Run : RunEnds(x) =>
          \A s \in run[x].read, c \in Camera :
            (c \in CamerasOf(s) /\ Since(run[x].age) \subseteq Window(s)) =>
                active[c] > 0 ]_schedulerVars

=============================================================================
