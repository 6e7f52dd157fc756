---------------------------- MODULE SchedulerProofs ---------------------------
(***************************************************************************)
(* Theorems about Scheduler, for every set of cameras, markets, modes and  *)
(* schedules, any time zones, any length of the day and any number of      *)
(* overlapping runs.                                                       *)
(***************************************************************************)
EXTENDS Scheduler, TLAPS

-----------------------------------------------------------------------------
(* Remainders.                                                             *)

\* The quotient and the remainder of an integer.
LEMMA ModRange ==
    ASSUME NEW a \in Int, NEW w \in Nat \ {0}
    PROVE  /\ a % w \in 0..(w - 1)
           /\ a \div w \in Int
           /\ a = (a \div w) * w + (a % w)
OBVIOUS

\* There are no others.
LEMMA ModUnique ==
    ASSUME NEW w \in Nat \ {0}, NEW q \in Int, NEW r \in 0..(w - 1), NEW a \in Int,
           a = q * w + r
    PROVE  a % w = r /\ a \div w = q
OBVIOUS

\* Remainders repeat with the modulus.
LEMMA ModShift ==
    ASSUME NEW w \in Nat \ {0}, NEW a \in Int, NEW q \in Int, NEW b \in Int,
           b = a + q * w
    PROVE  b % w = a % w
<1> DEFINE d == a \div w
           m == a % w
<1>1. a = d * w + m /\ m \in 0..(w - 1) /\ d \in Int
  BY ModRange
<1> HIDE DEF d, m
<1>2. b = (d + q) * w + m /\ d + q \in Int
  BY <1>1
<1>3. b % w = m
  BY ONLY <1>1, <1>2, ModUnique, w \in Nat \ {0}, b \in Int
<1> QED
  BY <1>3 DEF m

LEMMA ModInside ==
    ASSUME NEW w \in Nat \ {0}, NEW a \in Int
    PROVE  /\ (a + w) % w = a % w
           /\ (a - w) % w = a % w
           /\ a \in 0..(w - 1) => a % w = a
<1>1. (a + w) % w = a % w
  <2>1. a + w \in Int /\ 1 \in Int /\ a + w = a + 1 * w
    OBVIOUS
  <2> QED
    BY ONLY <2>1, ModShift, a \in Int, w \in Nat \ {0}, Zenon
<1>2. (a - w) % w = a % w
  <2>1. a - w \in Int /\ -1 \in Int /\ a - w = a + (-1) * w
    OBVIOUS
  <2> QED
    BY ONLY <2>1, ModShift, a \in Int, w \in Nat \ {0}, Zenon
<1>3. ASSUME a \in 0..(w - 1) PROVE a % w = a
  BY <1>3, ModUnique
<1> QED
  BY <1>1, <1>2, <1>3

\* A remainder may be taken before an addition as well.
LEMMA ModAdd ==
    ASSUME NEW w \in Nat \ {0}, NEW a \in Int, NEW b \in Int
    PROVE  ((a % w) + b) % w = (a + b) % w
<1> DEFINE d == a \div w
           m == a % w
<1>1. a = d * w + m /\ m \in 0..(w - 1) /\ d \in Int
  BY ModRange
<1> HIDE DEF d, m
<1>2. a + b = (m + b) + d * w
  BY <1>1
<1>3. a + b \in Int /\ m + b \in Int /\ d \in Int
  BY <1>1
<1>4. (a + b) % w = (m + b) % w
  BY ONLY <1>2, <1>3, ModShift, w \in Nat \ {0}, Zenon
<1> QED
  BY <1>4 DEF m

-----------------------------------------------------------------------------
(* The clock of a market, and the window of a schedule on it.              *)

Zone(s) == IF s.market = NoMarket THEN 0 ELSE Offset[s.market]

Duration(s) == (s.end - s.start) % TicksPerDay

LEMMA WeekIsLong == /\ TicksPerDay \in Nat \ {0}
                    /\ Week \in Nat \ {0}
                    /\ Week = 7 * TicksPerDay
BY SchedulerAssumption DEF Week

LEMMA ScheduleFields ==
    ASSUME NEW s \in Schedule
    PROVE  /\ s.day \in Day /\ s.start \in Time /\ s.end \in Time
           /\ Zone(s) \in Int
<1>1. /\ s.day \in Day /\ s.start \in Time /\ s.end \in Time
      /\ s.market \in Market \cup {NoMarket}
  BY SchedulerAssumption
<1>2. \A m \in Market : Offset[m] \in (-TicksPerDay)..TicksPerDay
  BY SchedulerAssumption
<1> QED
  BY <1>1, <1>2, WeekIsLong DEF Zone

\* The day and the time of an instant of the week.
LEMMA DayAndTime ==
    ASSUME NEW n \in 0..(Week - 1)
    PROVE  /\ n \div TicksPerDay \in Day
           /\ n % TicksPerDay \in Time
           /\ n = (n \div TicksPerDay) * TicksPerDay + (n % TicksPerDay)
<1> DEFINE d == n \div TicksPerDay
           t == n % TicksPerDay
<1>1. /\ t \in 0..(TicksPerDay - 1) /\ d \in Int
      /\ n = d * TicksPerDay + t
  BY WeekIsLong, ModRange
<1> HIDE DEF d, t
<1>2. d >= 0
  BY <1>1, WeekIsLong
<1>3. d <= 6
  BY <1>1, WeekIsLong
<1>4. d \in Day /\ t \in Time
  BY <1>1, <1>2, <1>3 DEF Day, Time
<1> QED
  BY <1>1, <1>4 DEF d, t

LEMMA LocalClock ==
    ASSUME NEW s \in Schedule, now \in 0..(Week - 1)
    PROVE  /\ LocalNow(s) \in 0..(Week - 1)
           /\ CurrentDay(s) \in Day /\ LocalTime(s) \in Time
           /\ LocalNow(s) = CurrentDay(s) * TicksPerDay + LocalTime(s)
<1>1. LocalNow(s) = (now + Zone(s)) % Week
  BY DEF LocalNow, Zone
<1>2. now + Zone(s) \in Int
  BY WeekIsLong, ScheduleFields
<1>3. LocalNow(s) \in 0..(Week - 1)
  BY <1>1, <1>2, WeekIsLong, ModRange
<1> QED
  BY <1>3, DayAndTime DEF CurrentDay, LocalTime

\* Two instants of the week are the same if day and time are.
LEMMA SameInstant ==
    ASSUME NEW d \in Day, NEW e \in Day, NEW t \in Time, NEW u \in Time,
           d * TicksPerDay + t = e * TicksPerDay + u
    PROVE  d = e /\ t = u
<1> DEFINE n == d * TicksPerDay + t
<1>1. n \in Int /\ TicksPerDay \in Nat \ {0}
  BY WeekIsLong DEF Day, Time
<1>2. n = d * TicksPerDay + t /\ d \in Int /\ t \in 0..(TicksPerDay - 1)
  BY DEF Day, Time
<1>3. n = e * TicksPerDay + u /\ e \in Int /\ u \in 0..(TicksPerDay - 1)
  BY DEF Day, Time
<1> HIDE DEF n
<1>4. n % TicksPerDay = t /\ n \div TicksPerDay = d
  BY ONLY <1>1, <1>2, ModUnique, Zenon
<1>5. n % TicksPerDay = u /\ n \div TicksPerDay = e
  BY ONLY <1>1, <1>3, ModUnique, Zenon
<1> QED
  BY <1>4, <1>5

\* The window of a schedule as the clock of its market shows it.
LEMMA WindowIsLocal ==
    ASSUME NEW s \in Schedule, now \in 0..(Week - 1)
    PROVE  now \in Window(s) <=>
             \E k \in 0..Duration(s) :
                LocalNow(s) = (s.day * TicksPerDay + s.start + k) % Week
<1> DEFINE z == Zone(s)
           x(k) == s.day * TicksPerDay + s.start + k
<1>1. /\ z \in Int /\ now \in Int /\ Week \in Nat \ {0}
      /\ \A k \in Int : x(k) \in Int
  BY WeekIsLong, ScheduleFields DEF Day, Time
<1>2. LocalNow(s) = (now + z) % Week
  BY DEF LocalNow, Zone
<1>3. now \in Window(s) <=> \E k \in 0..Duration(s) : now = (x(k) - z) % Week
  <2>1. Window(s) = { (s.day * TicksPerDay + s.start - z + k) % Week : k \in 0..Duration(s) }
    BY DEF Window, Duration, Zone
  <2>2. \A k \in 0..Duration(s) : s.day * TicksPerDay + s.start - z + k = x(k) - z
    BY <1>1, WeekIsLong, ScheduleFields DEF Day, Time
  <2> HIDE DEF x, z
  <2> QED
    BY <2>1, <2>2
<1> HIDE DEF x, z
<1>4. ASSUME NEW k \in 0..Duration(s)
      PROVE  now = (x(k) - z) % Week <=> (now + z) % Week = x(k) % Week
  <2>1. x(k) \in Int
    BY <1>1
  <2>2. ASSUME now = (x(k) - z) % Week
        PROVE  (now + z) % Week = x(k) % Week
    <3>1. x(k) - z \in Int /\ (x(k) - z) + z = x(k)
      BY <1>1, <2>1
    <3>2. (((x(k) - z) % Week) + z) % Week = ((x(k) - z) + z) % Week
      BY <1>1, <3>1, ModAdd
    <3> QED
      BY <2>2, <3>1, <3>2
  <2>3. ASSUME (now + z) % Week = x(k) % Week
        PROVE  now = (x(k) - z) % Week
    <3>1. now + z \in Int /\ -z \in Int /\ (now + z) + (-z) = now /\ x(k) + (-z) = x(k) - z
      BY <1>1, <2>1
    <3>2. (((now + z) % Week) + (-z)) % Week = ((now + z) + (-z)) % Week
      BY <1>1, <3>1, ModAdd
    <3>3. ((x(k) % Week) + (-z)) % Week = (x(k) + (-z)) % Week
      BY <1>1, <2>1, <3>1, ModAdd
    <3>4. now % Week = now
      BY <1>1, ModInside
    <3> QED
      BY <2>3, <3>1, <3>2, <3>3, <3>4
  <2> QED
    BY <2>2, <2>3
<1>5. \A k \in 0..Duration(s) : x(k) = s.day * TicksPerDay + s.start + k
  BY DEF x
<1> QED
  BY <1>2, <1>3, <1>4, <1>5

\* A time of the next day is a time of the week: Sunday is followed by Monday.
LEMMA IntoNextDay ==
    ASSUME NEW d \in Day, NEW t \in Time
    PROVE  /\ (d * TicksPerDay + t) % Week = d * TicksPerDay + t
           /\ (d * TicksPerDay + TicksPerDay + t) % Week = ((d + 1) % 7) * TicksPerDay + t
           /\ (d + 1) % 7 \in Day
<1>1. ASSUME NEW e \in Day PROVE e * TicksPerDay + t \in 0..(Week - 1)
  <2>1. \/ e = 0 \/ e = 1 \/ e = 2 \/ e = 3 \/ e = 4 \/ e = 5 \/ e = 6
    BY DEF Day
  <2> QED
    BY <2>1, WeekIsLong DEF Time
<1>2. ASSUME NEW e \in Day
      PROVE  (e * TicksPerDay + t) % Week = e * TicksPerDay + t
  <2>1. e * TicksPerDay + t \in 0..(Week - 1) /\ e * TicksPerDay + t \in Int
    BY <1>1, WeekIsLong
  <2> QED
    BY <2>1, WeekIsLong, ModInside, Zenon
<1>3. CASE d # 6
  <2>1. d + 1 \in Day /\ (d + 1) % 7 = d + 1
    BY <1>3 DEF Day
  <2>2. d * TicksPerDay + TicksPerDay + t = (d + 1) * TicksPerDay + t
    BY WeekIsLong DEF Day, Time
  <2> QED
    BY <1>2, <2>1, <2>2
<1>4. CASE d = 6
  <2>1. (d + 1) % 7 = 0 /\ 0 \in Day
    BY <1>4 DEF Day
  <2>2. /\ d * TicksPerDay + TicksPerDay + t = t + Week
        /\ 0 * TicksPerDay + t = t /\ t \in Int
    BY <1>4, WeekIsLong DEF Time
  <2>3. (t + Week) % Week = t % Week
    BY <2>2, WeekIsLong, ModInside
  <2> QED
    BY <1>2, <2>1, <2>2, <2>3
<1> QED
  BY <1>2, <1>3, <1>4

\* How long a schedule lasts, over midnight or not.
LEMMA DurationIs ==
    ASSUME NEW s \in Schedule
    PROVE  Duration(s) = IF s.start <= s.end THEN s.end - s.start
                         ELSE s.end - s.start + TicksPerDay
<1>1. /\ s.start \in 0..(TicksPerDay - 1) /\ s.end \in 0..(TicksPerDay - 1)
      /\ TicksPerDay \in Nat \ {0} /\ s.end - s.start \in Int
  BY WeekIsLong, ScheduleFields DEF Time
<1>2. CASE s.start <= s.end
  <2>1. s.end - s.start \in 0..(TicksPerDay - 1)
    BY <1>1, <1>2
  <2>2. (s.end - s.start) % TicksPerDay = s.end - s.start
    BY <1>1, <2>1, ModInside
  <2> QED
    BY <1>2, <2>2 DEF Duration
<1>3. CASE s.start > s.end
  <2>1. /\ s.end - s.start + TicksPerDay \in 0..(TicksPerDay - 1)
        /\ s.end - s.start + TicksPerDay \in Int
    BY <1>1, <1>3
  <2>2. (s.end - s.start + TicksPerDay) % TicksPerDay = s.end - s.start + TicksPerDay
    BY <1>1, <2>1, ModInside
  <2>3. (s.end - s.start + TicksPerDay) % TicksPerDay = (s.end - s.start) % TicksPerDay
    BY <1>1, ModInside
  <2> QED
    BY <1>1, <1>3, <2>2, <2>3 DEF Duration
<1> QED
  BY <1>1, <1>2, <1>3

\* The window of a schedule on the clock of its market: after k ticks it is on
\* the day of the schedule or, past midnight, on the next one.
LEMMA WindowByDay ==
    ASSUME NEW s \in Schedule, now \in 0..(Week - 1),
           NEW k \in 0..Duration(s)
    PROVE  LocalNow(s) = (s.day * TicksPerDay + s.start + k) % Week <=>
             \/ /\ s.start + k < TicksPerDay
                /\ CurrentDay(s) = s.day /\ LocalTime(s) = s.start + k
             \/ /\ s.start + k >= TicksPerDay
                /\ CurrentDay(s) = (s.day + 1) % 7
                /\ LocalTime(s) = s.start + k - TicksPerDay
<1>1. /\ s.start \in 0..(TicksPerDay - 1) /\ s.end \in 0..(TicksPerDay - 1)
      /\ TicksPerDay \in Nat \ {0} /\ s.day \in 0..6
  BY WeekIsLong, ScheduleFields DEF Time, Day
<1>2. k \in Int /\ 0 <= k /\ s.start + k < 2 * TicksPerDay
  BY <1>1, DurationIs
<1>3. /\ CurrentDay(s) \in Day /\ LocalTime(s) \in Time
      /\ LocalNow(s) = CurrentDay(s) * TicksPerDay + LocalTime(s)
  BY LocalClock
<1>4. CASE s.start + k < TicksPerDay
  <2> DEFINE t == s.start + k
  <2>1. t \in Time
    BY <1>1, <1>2, <1>4 DEF Time
  <2>2. s.day * TicksPerDay + s.start + k = s.day * TicksPerDay + t
    BY <1>1, <1>2
  <2> HIDE DEF t
  <2>3. (s.day * TicksPerDay + s.start + k) % Week = s.day * TicksPerDay + t
    BY <2>1, <2>2, ScheduleFields, IntoNextDay
  <2>4. LocalNow(s) = s.day * TicksPerDay + t
          <=> CurrentDay(s) = s.day /\ LocalTime(s) = t
    BY <1>3, <2>1, ScheduleFields, SameInstant
  <2> QED
    BY <1>1, <1>2, <1>4, <2>3, <2>4 DEF t
<1>5. CASE s.start + k >= TicksPerDay
  <2> DEFINE t == s.start + k - TicksPerDay
             e == (s.day + 1) % 7
  <2>1. t \in Time
    BY <1>1, <1>2, <1>5 DEF Time
  <2>2. s.day * TicksPerDay + s.start + k = s.day * TicksPerDay + TicksPerDay + t
    BY <1>1, <1>2
  <2> HIDE DEF t
  <2>3. /\ (s.day * TicksPerDay + s.start + k) % Week = e * TicksPerDay + t
        /\ e \in Day
    BY <2>1, <2>2, ScheduleFields, IntoNextDay
  <2> HIDE DEF e
  <2>4. LocalNow(s) = e * TicksPerDay + t
          <=> CurrentDay(s) = e /\ LocalTime(s) = t
    BY <1>3, <2>1, <2>3, SameInstant
  <2> QED
    BY <1>1, <1>2, <1>5, <2>3, <2>4 DEF t, e
<1> QED
  BY <1>1, <1>2, <1>4, <1>5

\* _day_matches and is_within_schedule are open exactly in the window.
LEMMA OpenInWindow ==
    ASSUME NEW s \in Schedule, now \in 0..(Week - 1)
    PROVE  IsOpen(s) <=> now \in Window(s)
<1> DEFINE a == s.start
           e == s.end
           t == LocalTime(s)
           d == CurrentDay(s)
<1>1. /\ a \in 0..(TicksPerDay - 1) /\ e \in 0..(TicksPerDay - 1)
      /\ t \in 0..(TicksPerDay - 1) /\ d \in 0..6 /\ s.day \in 0..6
      /\ TicksPerDay \in Nat \ {0}
  BY WeekIsLong, ScheduleFields, LocalClock DEF Time, Day
<1>2. (d - 1) % 7 = s.day <=> d = (s.day + 1) % 7
  BY <1>1
<1>3. now \in Window(s) <=>
        \E k \in 0..Duration(s) :
           \/ a + k < TicksPerDay /\ d = s.day /\ t = a + k
           \/ a + k >= TicksPerDay /\ d = (s.day + 1) % 7 /\ t = a + k - TicksPerDay
  BY WindowIsLocal, WindowByDay
<1>4. Duration(s) = IF a <= e THEN e - a ELSE e - a + TicksPerDay
  BY DurationIs
<1>5. IsOpen(s) <=>
        IF a <= e THEN d = s.day /\ a <= t /\ t <= e
        ELSE \/ d = s.day /\ t >= a
             \/ (d - 1) % 7 = s.day /\ t <= e
  BY DEF IsOpen, DayMatches, IsWithinSchedule, PreviousDay
<1> HIDE DEF a, e, t, d
<1>6. CASE a <= e
  <2>1. now \in Window(s) <=> d = s.day /\ a <= t /\ t <= e
    <3>1. ASSUME d = s.day, a <= t, t <= e
          PROVE  now \in Window(s)
      <4>1. t - a \in 0..Duration(s) /\ a + (t - a) = t /\ t < TicksPerDay
        BY <1>1, <1>4, <1>6, <3>1
      <4> QED
        BY <1>3, <3>1, <4>1
    <3> QED
      BY <1>1, <1>3, <1>4, <1>6, <3>1
  <2> QED
    BY <1>5, <1>6, <2>1
<1>7. CASE a > e
  <2>1. ASSUME d = s.day, t >= a
        PROVE  now \in Window(s)
    <3>1. t - a \in 0..Duration(s) /\ a + (t - a) = t /\ t < TicksPerDay
      BY <1>1, <1>4, <1>7, <2>1
    <3> QED
      BY <1>3, <2>1, <3>1
  <2>2. ASSUME d = (s.day + 1) % 7, t <= e
        PROVE  now \in Window(s)
    <3>1. /\ t - a + TicksPerDay \in 0..Duration(s)
          /\ a + (t - a + TicksPerDay) >= TicksPerDay
          /\ t = a + (t - a + TicksPerDay) - TicksPerDay
      BY <1>1, <1>4, <1>7, <2>2
    <3> QED
      BY <1>3, <2>2, <3>1
  <2>3. ASSUME now \in Window(s)
        PROVE  \/ d = s.day /\ t >= a
               \/ d = (s.day + 1) % 7 /\ t <= e
    BY <1>1, <1>3, <1>4, <1>7, <2>3
  <2> QED
    BY <1>1, <1>2, <1>5, <1>7, <2>1, <2>2, <2>3
<1> QED
  BY <1>1, <1>6, <1>7

-----------------------------------------------------------------------------
(* The instants gone by.                                                   *)

LEMMA SinceGrows ==
    ASSUME NEW m \in Nat, NEW n \in Nat, m <= n
    PROVE  Since(m) \subseteq Since(n)
BY DEF Since

LEMMA NowIsSince ==
    ASSUME now \in 0..(Week - 1), NEW n \in Nat
    PROVE  now \in Since(n)
<1>1. now - 0 = now /\ 0 \in 0..n /\ now \in Int
  BY WeekIsLong
<1>2. now % Week = now
  BY <1>1, WeekIsLong, ModInside
<1> QED
  BY <1>1, <1>2 DEF Since

\* A tick turns the last n ticks into a part of the last n + 1.
LEMMA SinceTick ==
    ASSUME now \in 0..(Week - 1), now' = (now + 1) % Week, NEW n \in Nat
    PROVE  Since(n) \subseteq Since(n + 1)'
<1> SUFFICES ASSUME NEW k \in 0..n
             PROVE  (now - k) % Week \in Since(n + 1)'
  BY DEF Since
<1>1. /\ now + 1 \in Int /\ -(k + 1) \in Int /\ Week \in Nat \ {0}
      /\ (now + 1) + (-(k + 1)) = now - k
  BY WeekIsLong
<1>2. (now' + (-(k + 1))) % Week = (now - k) % Week
  BY <1>1, ModAdd
<1>3. now' \in Int
  BY <1>1, ModRange
<1>4. now' - (k + 1) = now' + (-(k + 1)) /\ k + 1 \in 0..(n + 1)
  BY <1>3
<1> QED
  BY <1>2, <1>4 DEF Since

-----------------------------------------------------------------------------
(* Types.                                                                  *)

LEMMA IdleIsTyped == Idle \in RunState
BY SchedulerAssumption DEF Idle, RunState

LEMMA TypesInit == Init => SchedulerTypeOK
BY SchedulerAssumption, IdleIsTyped DEF Init, SchedulerTypeOK

LEMMA TypesNext == SchedulerTypeOK /\ [Next]_schedulerVars => SchedulerTypeOK'
<1> SUFFICES ASSUME SchedulerTypeOK, [Next]_schedulerVars
             PROVE  SchedulerTypeOK'
  OBVIOUS
<1> USE SchedulerAssumption DEF SchedulerTypeOK
<1>1. CASE Tick
  <2>1. now' \in 0..(Week - 1)
    <3>1. now + 1 \in Int /\ Week \in Nat \ {0}
      BY WeekIsLong
    <3> QED
      BY <1>1, <3>1, ModRange DEF Tick
  <2>2. active' \in [Camera -> 0..ActiveTTL]
    <3>1. \A left \in 0..ActiveTTL : Older(left) \in 0..ActiveTTL
      BY DEF Older
    <3> QED
      BY <1>1, <3>1 DEF Tick
  <2>3. ASSUME NEW x \in Run
        PROVE  (IF run[x].pc = "idle" THEN run[x] ELSE [run[x] EXCEPT !.age = @ + 1])
                  \in RunState
    <3>1. run[x].pc = "running" => run[x].age < RunBound
      BY <1>1 DEF Tick
    <3> QED
      BY <3>1 DEF RunState
  <2>4. seeded' \in 0..ActiveTTL
    BY <1>1 DEF Tick, Older
  <2>5. run' \in [Run -> RunState]
    BY <1>1, <2>3 DEF Tick
  <2>6. schedules' \subseteq Schedule
    BY <1>1 DEF Tick
  <2> QED
    BY <2>1, <2>2, <2>4, <2>5, <2>6
<1>2. ASSUME NEW s \in Schedule, CreateSchedule(s)
      PROVE  SchedulerTypeOK'
  BY <1>2 DEF CreateSchedule
<1>3. ASSUME NEW x \in Run, StartRun(x) \/ RunEnds(x)
      PROVE  SchedulerTypeOK'
  <2>1. [Idle EXCEPT !.pc = "running", !.read = schedules, !.todo = schedules] \in RunState
    BY IdleIsTyped DEF RunState
  <2> QED
    BY <1>3, <2>1, IdleIsTyped DEF StartRun, RunEnds
<1>4. ASSUME NEW x \in Run, RunFails(x)
      PROVE  SchedulerTypeOK'
  <2>1. run' \in [Run -> RunState]
    BY <1>4, IdleIsTyped DEF RunFails
  <2>2. active' \in [Camera -> 0..ActiveTTL]
    <3>1. \/ active' = active
          \/ \E c \in run[x].keys : active' = [active EXCEPT ![c] = ActiveTTL]
      BY <1>4 DEF RunFails
    <3>2. ActiveTTL \in 0..ActiveTTL
      OBVIOUS
    <3> QED
      BY <3>1, <3>2
  <2> QED
    BY <1>4, <2>1, <2>2 DEF RunFails
<1>5. ASSUME NEW x \in Run, NEW s \in Schedule, Evaluate(x, s)
      PROVE  SchedulerTypeOK'
  <2> DEFINE keys == IF IsOpen(s) THEN CamerasOf(s) ELSE {}
             r    == [run[x] EXCEPT !.todo = @ \ {s}, !.keys = keys]
  <2>1. keys \subseteq Camera
    BY DEF CamerasOf
  <2>2. run' = [run EXCEPT ![x] = r] /\ UNCHANGED << now, schedules, active, seeded >>
    BY <1>5 DEF Evaluate, RunState
  <2> HIDE DEF keys
  <2>3. r \in RunState
    BY <2>1 DEF RunState
  <2> HIDE DEF r
  <2> QED
    BY <2>2, <2>3
<1>6. ASSUME NEW x \in Run, NEW c \in Camera, SetActive(x, c)
      PROVE  SchedulerTypeOK'
  BY <1>6 DEF SetActive, RunState
<1>7. CASE SeedActivates
  BY <1>7 DEF SeedActivates
<1>8. CASE UNCHANGED schedulerVars
  BY <1>8 DEF schedulerVars
<1> QED
  BY <1>1, <1>2, <1>3, <1>4, <1>5, <1>6, <1>7, <1>8 DEF Next

\* The scheduler keeps the types of its state, and its keys and runs their bounds.
THEOREM SchedulerTyped == Spec => []SchedulerTypeOK
BY TypesInit, TypesNext, PTL DEF Spec

-----------------------------------------------------------------------------
(* What the steps do to a run and to the keys.                             *)

\* Time ages the runs that are at work, and every key.
LEMMA TickEffect ==
    ASSUME SchedulerTypeOK, Tick, NEW x \in Run
    PROVE  \/ run'[x] = run[x] /\ run[x].pc = "idle"
           \/ /\ run[x].pc = "running" /\ run[x].age < RunBound
              /\ run'[x].pc = "running" /\ run'[x].age = run[x].age + 1
              /\ run'[x].read = run[x].read /\ run'[x].todo = run[x].todo
              /\ run'[x].keys = run[x].keys
BY DEF Tick, SchedulerTypeOK, RunState

\* The loop takes the next schedule and, if it is open, all of its cameras.
LEMMA EvaluateEffect ==
    ASSUME SchedulerTypeOK, NEW x \in Run, NEW s \in Schedule, Evaluate(x, s)
    PROVE  /\ \A y \in Run \ {x} : run'[y] = run[y]
           /\ run'[x].pc = run[x].pc /\ run'[x].age = run[x].age
           /\ run'[x].read = run[x].read /\ run'[x].todo = run[x].todo \ {s}
           /\ run'[x].keys = IF IsOpen(s) THEN CamerasOf(s) ELSE {}
           /\ run[x].keys = {} /\ s \in run[x].todo
           /\ UNCHANGED << now, schedules, active, seeded >>
BY DEF Evaluate, SchedulerTypeOK, RunState

\* A camera is done: its key is set anew.
LEMMA SetActiveEffect ==
    ASSUME SchedulerTypeOK, NEW x \in Run, NEW c \in Camera, SetActive(x, c)
    PROVE  /\ \A y \in Run \ {x} : run'[y] = run[y]
           /\ run'[x].pc = run[x].pc /\ run'[x].age = run[x].age
           /\ run'[x].read = run[x].read /\ run'[x].todo = run[x].todo
           /\ run'[x].keys = run[x].keys \ {c}
           /\ active'[c] = ActiveTTL
           /\ \A d \in Camera \ {c} : active'[d] = active[d]
           /\ c \in run[x].keys
           /\ UNCHANGED << now, schedules, seeded >>
BY DEF SetActive, SchedulerTypeOK, RunState

\* A run begins with what has been committed, and none of it done.
LEMMA StartEffect ==
    ASSUME SchedulerTypeOK, NEW x \in Run, StartRun(x)
    PROVE  /\ \A y \in Run \ {x} : run'[y] = run[y]
           /\ run'[x].pc = "running" /\ run'[x].read = schedules
           /\ run'[x].todo = schedules /\ run'[x].keys = {}
           /\ UNCHANGED << now, schedules, active, seeded >>
<1>1. run' = [run EXCEPT ![x] = [Idle EXCEPT !.pc = "running", !.read = schedules,
                                             !.todo = schedules]]
  BY DEF StartRun
<1>2. run'[x] = [Idle EXCEPT !.pc = "running", !.read = schedules, !.todo = schedules]
  BY <1>1 DEF SchedulerTypeOK
<1>3. /\ run'[x].pc = "running" /\ run'[x].read = schedules
      /\ run'[x].todo = schedules /\ run'[x].keys = {}
  BY <1>2 DEF Idle
<1> QED
  BY <1>1, <1>3 DEF StartRun, SchedulerTypeOK

\* It ends or fails with at most one more key set.
LEMMA EndEffect ==
    ASSUME SchedulerTypeOK, NEW x \in Run, RunEnds(x) \/ RunFails(x)
    PROVE  /\ \A y \in Run \ {x} : run'[y] = run[y]
           /\ run'[x] = Idle
           /\ \A c \in Camera : \/ active'[c] = active[c]
                                \/ c \in run[x].keys /\ active'[c] = ActiveTTL
           /\ UNCHANGED << now, schedules, seeded >>
<1>1. \A c \in Camera : \/ active'[c] = active[c]
                        \/ c \in run[x].keys /\ active'[c] = ActiveTTL
  <2>1. CASE RunEnds(x)
    BY <2>1 DEF RunEnds
  <2>2. CASE RunFails(x)
    BY <2>2 DEF RunFails, SchedulerTypeOK
  <2> QED
    BY <2>1, <2>2
<1> QED
  BY <1>1 DEF RunEnds, RunFails, SchedulerTypeOK

-----------------------------------------------------------------------------
(* Why a camera is active.                                                 *)

\* Some schedule of the camera was open within the last n ticks.
WasOpen(c, n) == \E s \in schedules : c \in CamerasOf(s) /\ Since(n) \cap Window(s) # {}

\* Why the key of c is set: it goes back to a run that found a schedule open, or
\* it is the one the seed has set.
Explained(c) == \/ WasOpen(c, ActiveTTL - active[c] + RunBound)
                \/ c = SeedCamera /\ active[c] = seeded

\* A run holds the keys of schedules that it has found open since it began, and
\* a key that is set goes back to such a run or to the seed.
KeysInv ==
    /\ \A x \in Run : run[x].pc = "idle" => run[x] = Idle
    /\ \A x \in Run : run[x].todo \subseteq run[x].read /\ run[x].read \subseteq schedules
    /\ \A x \in Run : \A c \in run[x].keys : WasOpen(c, run[x].age)
    /\ \A c \in Camera : active[c] > 0 => Explained(c)

LEMMA KeysInit == Init => KeysInv
BY DEF Init, KeysInv, Idle

LEMMA WasOpenGrows ==
    ASSUME NEW c \in Camera, NEW m \in Nat, NEW n \in Nat, m <= n, WasOpen(c, m)
    PROVE  WasOpen(c, n)
BY SinceGrows DEF WasOpen

\* The cameras and the window of a schedule are the same for ever.
LEMMA WasOpenTick ==
    ASSUME SchedulerTypeOK, Tick, NEW c \in Camera, NEW n \in Nat, WasOpen(c, n)
    PROVE  WasOpen(c, n + 1)'
<1>1. Since(n) \subseteq Since(n + 1)'
  BY SinceTick DEF SchedulerTypeOK, Tick
<1>2. \A s : Window(s)' = Window(s) /\ CamerasOf(s)' = CamerasOf(s)
  BY DEF Window, CamerasOf, MatchesMarket
<1>3. schedules' = schedules
  BY DEF Tick
<1> QED
  BY <1>1, <1>2, <1>3 DEF WasOpen

LEMMA WasOpenKept ==
    ASSUME now' = now, schedules \subseteq schedules', NEW c \in Camera, NEW n \in Nat,
           WasOpen(c, n)
    PROVE  WasOpen(c, n)'
<1>1. Since(n)' = Since(n)
  BY DEF Since
<1>2. \A s : Window(s)' = Window(s) /\ CamerasOf(s)' = CamerasOf(s)
  BY DEF Window, CamerasOf, MatchesMarket
<1> QED
  BY <1>1, <1>2 DEF WasOpen

LEMMA TypesHelp ==
    ASSUME SchedulerTypeOK
    PROVE  /\ \A x \in Run : /\ run[x].age \in Nat /\ run[x].age <= RunBound
                             /\ run[x].keys \subseteq Camera
                             /\ run[x].todo \subseteq Schedule
                             /\ run[x].read \subseteq Schedule
                             /\ run[x].pc \in {"idle", "running"}
           /\ \A c \in Camera : /\ active[c] \in Nat
                                /\ ActiveTTL - active[c] \in Nat
                                /\ ActiveTTL - active[c] + RunBound \in Nat
           /\ RunBound \in Nat /\ ActiveTTL \in Nat
           /\ now \in 0..(Week - 1)
<1>1. ActiveTTL \in Nat /\ RunBound \in Nat
  BY SchedulerAssumption
<1> QED
  BY <1>1 DEF SchedulerTypeOK, RunState

LEMMA KeysNext ==
    ASSUME SchedulerTypeOK, KeysInv, [Next]_schedulerVars
    PROVE  KeysInv'
<1>0. /\ \A x \in Run : /\ run[x].age \in Nat /\ run[x].age <= RunBound
                        /\ run[x].keys \subseteq Camera
      /\ \A c \in Camera : /\ active[c] \in Nat
                           /\ ActiveTTL - active[c] + RunBound \in Nat
      /\ RunBound \in Nat /\ ActiveTTL \in Nat
  BY TypesHelp
<1>1. CASE Tick
  <2>1. ASSUME NEW x \in Run
        PROVE  /\ run'[x].pc = "idle" => run'[x] = Idle
               /\ run'[x].todo \subseteq run'[x].read /\ run'[x].read \subseteq schedules'
    BY <1>1, TickEffect DEF KeysInv, Tick
  <2>2. ASSUME NEW x \in Run, NEW c \in run'[x].keys
        PROVE  WasOpen(c, run[x].age)'
    <3>1. run[x].pc = "running" /\ c \in run[x].keys /\ run'[x].age = run[x].age + 1
      BY <1>1, TickEffect DEF KeysInv, Idle
    <3> PICK n \in Nat : n = run[x].age
      BY <1>0
    <3>2. WasOpen(c, n) /\ c \in Camera
      BY <1>0, <3>1 DEF KeysInv
    <3>3. WasOpen(c, n + 1)'
      BY <1>1, <3>2, WasOpenTick
    <3> QED
      BY <3>1, <3>3
  <2>3. ASSUME NEW c \in Camera, active'[c] > 0
        PROVE  Explained(c)'
    <3> PICK n \in Nat : n = ActiveTTL - active[c] + RunBound
      BY <1>0
    <3>1. active[c] > 0 /\ active'[c] = active[c] - 1
      BY <1>0, <1>1, <2>3 DEF Tick, Older
    <3>2. CASE WasOpen(c, n)
      <4>1. ActiveTTL - active'[c] + RunBound = n + 1
        BY <1>0, <3>1
      <4>2. WasOpen(c, n + 1)'
        BY <1>1, <3>2, WasOpenTick
      <4> QED
        BY <4>1, <4>2 DEF Explained
    <3>3. CASE c = SeedCamera /\ active[c] = seeded
      BY <1>1, <3>1, <3>3 DEF Tick, Older, Explained
    <3> QED
      BY <3>1, <3>2, <3>3 DEF KeysInv, Explained
  <2> QED
    BY <2>1, <2>2, <2>3 DEF KeysInv
<1>2. ASSUME now' = now, seeded' = seeded, schedules \subseteq schedules',
             NEW x \in Run, \A y \in Run \ {x} : run'[y] = run[y],
             run'[x].pc = "idle" => run'[x] = Idle,
             run'[x].todo \subseteq run'[x].read, run'[x].read \subseteq schedules',
             \A c \in run'[x].keys : c \in Camera /\ WasOpen(c, run[x].age)',
             \A c \in Camera : \/ active'[c] = active[c]
                               \/ c \in run[x].keys /\ active'[c] = ActiveTTL
      PROVE  KeysInv'
  <2>1. ASSUME NEW y \in Run
        PROVE  /\ run'[y].pc = "idle" => run'[y] = Idle
               /\ run'[y].todo \subseteq run'[y].read /\ run'[y].read \subseteq schedules'
    BY <1>2 DEF KeysInv
  <2>2. ASSUME NEW y \in Run, NEW c \in run'[y].keys
        PROVE  WasOpen(c, run[y].age)'
    <3>1. CASE y = x
      BY <1>2, <2>2, <3>1
    <3>2. CASE y # x
      <4>1. run'[y] = run[y]
        BY <1>2, <3>2
      <4> PICK n \in Nat : n = run[y].age
        BY <1>0
      <4>2. WasOpen(c, n) /\ c \in Camera
        BY <1>0, <2>2, <4>1 DEF KeysInv
      <4>3. WasOpen(c, n)'
        BY <1>2, <4>2, WasOpenKept
      <4> QED
        BY <4>1, <4>3
    <3> QED
      BY <3>1, <3>2
  <2>3. ASSUME NEW c \in Camera, active'[c] > 0
        PROVE  Explained(c)'
    <3>1. CASE active'[c] = active[c]
      <4> PICK n \in Nat : n = ActiveTTL - active[c] + RunBound
        BY <1>0
      <4>1. WasOpen(c, n) \/ (c = SeedCamera /\ active[c] = seeded)
        BY <2>3, <3>1 DEF KeysInv, Explained
      <4>2. WasOpen(c, n) => WasOpen(c, n)'
        BY <1>2, WasOpenKept
      <4> QED
        BY <1>2, <3>1, <4>1, <4>2 DEF Explained
    <3>2. CASE c \in run[x].keys /\ active'[c] = ActiveTTL
      <4>1. WasOpen(c, run[x].age)
        BY <3>2 DEF KeysInv
      <4>2. WasOpen(c, RunBound)
        BY <1>0, <4>1, WasOpenGrows
      <4>3. WasOpen(c, RunBound)'
        BY <1>0, <1>2, <4>2, WasOpenKept
      <4>4. ActiveTTL - active'[c] + RunBound = RunBound
        BY <1>0, <3>2
      <4> QED
        BY <4>3, <4>4 DEF Explained
    <3> QED
      BY <1>2, <3>1, <3>2
  <2> QED
    BY <2>1, <2>2, <2>3 DEF KeysInv
<1>3. ASSUME UNCHANGED << run, active, now, seeded >>, schedules \subseteq schedules'
      PROVE  KeysInv'
  <2>1. ASSUME NEW c \in Camera, NEW n \in Nat, WasOpen(c, n)
        PROVE  WasOpen(c, n)'
    BY <1>3, <2>1, WasOpenKept
  <2>2. UNCHANGED << run, active, now, seeded >> /\ schedules \subseteq schedules'
    BY <1>3
  <2>3. ASSUME NEW x \in Run, NEW c \in run'[x].keys
        PROVE  WasOpen(c, run[x].age)'
    <3> PICK n \in Nat : n = run[x].age
      BY <1>0
    <3>1. WasOpen(c, n) /\ c \in Camera
      BY <1>0, <2>2, <2>3 DEF KeysInv
    <3> QED
      BY <2>1, <2>2, <3>1
  <2>4. ASSUME NEW c \in Camera, active'[c] > 0
        PROVE  Explained(c)'
    <3> PICK n \in Nat : n = ActiveTTL - active[c] + RunBound
      BY <1>0
    <3>1. WasOpen(c, n) \/ (c = SeedCamera /\ active[c] = seeded)
      BY <2>2, <2>4 DEF KeysInv, Explained
    <3>2. WasOpen(c, n) => WasOpen(c, n)'
      BY <2>1
    <3> QED
      BY <2>2, <3>1, <3>2 DEF Explained
  <2> QED
    BY <2>2, <2>3, <2>4 DEF KeysInv
<1>4. ASSUME NEW x \in Run, StartRun(x)
      PROVE  KeysInv'
  BY <1>2, <1>4, StartEffect
<1>5. ASSUME NEW x \in Run, RunEnds(x) \/ RunFails(x)
      PROVE  KeysInv'
  BY <1>2, <1>5, EndEffect DEF Idle
<1>6. ASSUME NEW x \in Run, NEW s \in Schedule, Evaluate(x, s)
      PROVE  KeysInv'
  <2>1. /\ \A y \in Run \ {x} : run'[y] = run[y]
        /\ run'[x].pc = run[x].pc /\ run'[x].age = run[x].age
        /\ run'[x].read = run[x].read /\ run'[x].todo = run[x].todo \ {s}
        /\ run'[x].keys = IF IsOpen(s) THEN CamerasOf(s) ELSE {}
        /\ s \in run[x].todo
        /\ UNCHANGED << now, schedules, active, seeded >>
    BY <1>6, EvaluateEffect
  <2>2. run[x].pc # "idle"
    BY <2>1 DEF KeysInv, Idle
  <2>3. ASSUME NEW c \in run'[x].keys
        PROVE  c \in Camera /\ WasOpen(c, run[x].age)'
    <3> PICK n \in Nat : n = run[x].age
      BY <1>0
    <3>1. c \in CamerasOf(s) /\ IsOpen(s) /\ s \in schedules
      BY <2>1, <2>3 DEF KeysInv
    <3>2. now \in Window(s) /\ now \in Since(n)
      BY <3>1, OpenInWindow, NowIsSince DEF SchedulerTypeOK
    <3>3. WasOpen(c, n) /\ c \in Camera
      BY <3>1, <3>2 DEF WasOpen, CamerasOf
    <3>4. WasOpen(c, n)'
      BY <2>1, <3>3, WasOpenKept
    <3> QED
      BY <2>1, <3>3, <3>4
  <2> QED
    BY <1>2, <2>1, <2>2, <2>3 DEF KeysInv
<1>7. ASSUME NEW x \in Run, NEW c \in Camera, SetActive(x, c)
      PROVE  KeysInv'
  <2>1. /\ \A y \in Run \ {x} : run'[y] = run[y]
        /\ run'[x].pc = run[x].pc /\ run'[x].age = run[x].age
        /\ run'[x].read = run[x].read /\ run'[x].todo = run[x].todo
        /\ run'[x].keys = run[x].keys \ {c}
        /\ active'[c] = ActiveTTL
        /\ \A d \in Camera \ {c} : active'[d] = active[d]
        /\ c \in run[x].keys
        /\ UNCHANGED << now, schedules, seeded >>
    BY <1>7, SetActiveEffect
  <2>2. run[x].pc # "idle"
    BY <2>1 DEF KeysInv, Idle
  <2>3. ASSUME NEW d \in run'[x].keys
        PROVE  d \in Camera /\ WasOpen(d, run[x].age)'
    <3> PICK n \in Nat : n = run[x].age
      BY <1>0
    <3>1. WasOpen(d, n) /\ d \in Camera
      BY <1>0, <2>1, <2>3 DEF KeysInv
    <3>2. WasOpen(d, n)'
      BY <2>1, <3>1, WasOpenKept
    <3> QED
      BY <2>1, <3>1, <3>2
  <2> QED
    BY <1>2, <2>1, <2>2, <2>3 DEF KeysInv
<1>8. ASSUME NEW s \in Schedule, CreateSchedule(s)
      PROVE  KeysInv'
  BY <1>3, <1>8 DEF CreateSchedule
<1>9. CASE SeedActivates
  <2>1. ASSUME NEW c \in Camera, NEW n \in Nat, WasOpen(c, n)
        PROVE  WasOpen(c, n)'
    BY <1>9, <2>1, WasOpenKept DEF SeedActivates
  <2>2. UNCHANGED << run, schedules >>
    BY <1>9 DEF SeedActivates
  <2>3. ASSUME NEW x \in Run, NEW c \in run'[x].keys
        PROVE  WasOpen(c, run[x].age)'
    <3> PICK n \in Nat : n = run[x].age
      BY <1>0
    <3>1. WasOpen(c, n) /\ c \in Camera
      BY <1>0, <2>2, <2>3 DEF KeysInv
    <3> QED
      BY <2>1, <2>2, <3>1
  <2>4. ASSUME NEW c \in Camera, active'[c] > 0
        PROVE  Explained(c)'
    <3>1. CASE c = SeedCamera
      BY <1>9, <3>1 DEF SeedActivates, SchedulerTypeOK, Explained
    <3>2. CASE c # SeedCamera
      <4> PICK n \in Nat : n = ActiveTTL - active[c] + RunBound
        BY <1>0
      <4>1. active'[c] = active[c]
        BY <1>9, <3>2 DEF SeedActivates, SchedulerTypeOK
      <4>2. WasOpen(c, n)
        BY <2>4, <3>2, <4>1 DEF KeysInv, Explained
      <4>3. WasOpen(c, n)'
        BY <2>1, <4>2
      <4> QED
        BY <4>1, <4>3 DEF Explained
    <3> QED
      BY <3>1, <3>2
  <2> QED
    BY <2>2, <2>3, <2>4 DEF KeysInv
<1>10. CASE UNCHANGED schedulerVars
  BY <1>3, <1>10 DEF schedulerVars
<1> QED
  BY <1>1, <1>4, <1>5, <1>6, <1>7, <1>8, <1>9, <1>10 DEF Next

\* A camera is active only because a schedule of its mode and market was open
\* not long ago, or for the day that the seed gave its own camera: no other key
\* is set that no schedule asks for, and none outlives its cause, across
\* midnight, the end of the week and time zones.
THEOREM ActiveOnSchedule == Spec => []ActiveWasScheduled
<1>1. Init => SchedulerTypeOK /\ KeysInv
  BY TypesInit, KeysInit
<1>2. SchedulerTypeOK /\ KeysInv /\ [Next]_schedulerVars => (SchedulerTypeOK /\ KeysInv)'
  BY TypesNext, KeysNext
<1>3. KeysInv => ActiveWasScheduled
  BY DEF KeysInv, Explained, WasOpen, ActiveWasScheduled
<1> QED
  BY <1>1, <1>2, <1>3, PTL DEF Spec

-----------------------------------------------------------------------------
(* What a run achieves.                                                    *)

\* Since the run began, the schedule has been open.
OpenAllAlong(s, n) == Since(n) \subseteq Window(s)

\* The key of c is still to be set, or has been set in the last n ticks.
Served(c, keys, n) == c \in keys \/ active[c] >= ActiveTTL - n

\* A run has served every camera of a schedule it is done with, if the schedule
\* has been open all along.
ServedInv ==
    \A x \in Run : \A s \in run[x].read \ run[x].todo : \A c \in CamerasOf(s) :
        OpenAllAlong(s, run[x].age) => Served(c, run[x].keys, run[x].age)

LEMMA ServedInit == Init => ServedInv
BY DEF Init, ServedInv, Idle

\* A schedule that was open all along and is open now was open before the tick.
LEMMA OpenAllAlongTick ==
    ASSUME SchedulerTypeOK, Tick, NEW s, NEW n \in Nat, OpenAllAlong(s, n + 1)'
    PROVE  OpenAllAlong(s, n)
<1>1. Since(n) \subseteq Since(n + 1)'
  BY SinceTick DEF SchedulerTypeOK, Tick
<1>2. Window(s)' = Window(s)
  BY DEF Window
<1> QED
  BY <1>1, <1>2 DEF OpenAllAlong

LEMMA OpenAllAlongKept ==
    ASSUME now' = now, NEW s, NEW n \in Nat, OpenAllAlong(s, n)'
    PROVE  OpenAllAlong(s, n)
BY DEF OpenAllAlong, Since, Window

LEMMA ServedNext ==
    ASSUME SchedulerTypeOK, KeysInv, ServedInv, [Next]_schedulerVars
    PROVE  ServedInv'
<1>0. /\ \A x \in Run : /\ run[x].age \in Nat
                        /\ run[x].todo \subseteq Schedule
                        /\ run[x].read \subseteq Schedule
      /\ \A c \in Camera : active[c] \in Nat /\ active[c] <= ActiveTTL
      /\ ActiveTTL \in Nat
      /\ \A c \in Camera : active'[c] \in Nat
  BY TypesHelp, TypesNext DEF SchedulerTypeOK
<1>1. CASE Tick
  <2> SUFFICES ASSUME NEW x \in Run, NEW s \in run'[x].read \ run'[x].todo,
                      NEW c \in CamerasOf(s)', OpenAllAlong(s, run[x].age)'
               PROVE  Served(c, run[x].keys, run[x].age)'
    BY DEF ServedInv
  <2> PICK n \in Nat : n = run[x].age
    BY <1>0
  <2>1. /\ run'[x].keys = run[x].keys /\ run'[x].age = n + 1
        /\ s \in run[x].read \ run[x].todo
    BY <1>1, TickEffect DEF KeysInv, Idle
  <2>2. c \in CamerasOf(s) /\ c \in Camera
    BY DEF CamerasOf, MatchesMarket
  <2>3. OpenAllAlong(s, n + 1)'
    BY <2>1
  <2>4. OpenAllAlong(s, n)
    BY <1>1, <2>3, OpenAllAlongTick
  <2>5. Served(c, run[x].keys, n)
    BY <2>1, <2>2, <2>4 DEF ServedInv
  <2>6. active'[c] = IF active[c] = 0 THEN 0 ELSE active[c] - 1
    BY <1>1, <2>2 DEF Tick, Older
  <2> QED
    BY <1>0, <2>1, <2>2, <2>5, <2>6 DEF Served
<1>2. ASSUME now' = now, NEW x \in Run, \A y \in Run \ {x} : run'[y] = run[y],
             \A c \in Camera : active'[c] >= active[c],
             \A s \in run'[x].read \ run'[x].todo : \A c \in CamerasOf(s) :
                OpenAllAlong(s, run[x].age)' => Served(c, run[x].keys, run[x].age)'
      PROVE  ServedInv'
  <2> SUFFICES ASSUME NEW y \in Run, NEW s \in run'[y].read \ run'[y].todo,
                      NEW c \in CamerasOf(s)', OpenAllAlong(s, run[y].age)'
               PROVE  Served(c, run[y].keys, run[y].age)'
    BY DEF ServedInv
  <2>1. c \in CamerasOf(s) /\ c \in Camera
    BY DEF CamerasOf, MatchesMarket
  <2>2. CASE y = x
    BY <1>2, <2>1, <2>2
  <2>3. CASE y # x
    <3> PICK n \in Nat : n = run[y].age
      BY <1>0
    <3>1. run'[y] = run[y]
      BY <1>2, <2>3
    <3>2. OpenAllAlong(s, n)
      BY <1>2, <3>1, OpenAllAlongKept
    <3>3. Served(c, run[y].keys, n)
      BY <2>1, <3>1, <3>2 DEF ServedInv
    <3> QED
      BY <1>0, <1>2, <2>1, <3>1, <3>3 DEF Served
  <2> QED
    BY <2>2, <2>3
<1>3. ASSUME NEW x \in Run, StartRun(x)
      PROVE  ServedInv'
  BY <1>0, <1>2, <1>3, StartEffect
<1>4. ASSUME NEW x \in Run, RunEnds(x) \/ RunFails(x)
      PROVE  ServedInv'
  <2>1. \A c \in Camera : active'[c] >= active[c]
    BY <1>0, <1>4, EndEffect
  <2> QED
    BY <1>2, <1>4, <2>1, EndEffect DEF Idle
<1>5. ASSUME NEW x \in Run, NEW s0 \in Schedule, Evaluate(x, s0)
      PROVE  ServedInv'
  <2>1. /\ \A y \in Run \ {x} : run'[y] = run[y]
        /\ run'[x].age = run[x].age
        /\ run'[x].read = run[x].read /\ run'[x].todo = run[x].todo \ {s0}
        /\ run'[x].keys = IF IsOpen(s0) THEN CamerasOf(s0) ELSE {}
        /\ run[x].keys = {} /\ s0 \in run[x].todo
        /\ UNCHANGED << now, schedules, active, seeded >>
    BY <1>5, EvaluateEffect
  <2>2. ASSUME NEW s \in run'[x].read \ run'[x].todo, NEW c \in CamerasOf(s),
               OpenAllAlong(s, run[x].age)'
        PROVE  Served(c, run[x].keys, run[x].age)'
    <3> PICK n \in Nat : n = run[x].age
      BY <1>0
    <3>1. OpenAllAlong(s, n)
      BY <2>1, <2>2, OpenAllAlongKept
    <3>2. CASE s = s0
      <4>1. now \in Window(s0)
        BY <3>1, <3>2, NowIsSince DEF OpenAllAlong, SchedulerTypeOK
      <4>2. IsOpen(s0)
        BY <4>1, OpenInWindow DEF SchedulerTypeOK
      <4> QED
        BY <2>1, <3>2, <4>2 DEF Served
    <3>3. CASE s # s0
      <4>1. Served(c, {}, n)
        BY <2>1, <2>2, <3>1, <3>3 DEF ServedInv
      <4> QED
        BY <2>1, <4>1 DEF Served
    <3> QED
      BY <3>2, <3>3
  <2> QED
    BY <1>0, <1>2, <2>1, <2>2
<1>6. ASSUME NEW x \in Run, NEW c \in Camera, SetActive(x, c)
      PROVE  ServedInv'
  <2>1. /\ \A y \in Run \ {x} : run'[y] = run[y]
        /\ run'[x].age = run[x].age
        /\ run'[x].read = run[x].read /\ run'[x].todo = run[x].todo
        /\ run'[x].keys = run[x].keys \ {c}
        /\ active'[c] = ActiveTTL
        /\ \A d \in Camera \ {c} : active'[d] = active[d]
        /\ UNCHANGED << now, schedules, seeded >>
    BY <1>6, SetActiveEffect
  <2>2. \A d \in Camera : active'[d] >= active[d]
    BY <1>0, <2>1
  <2>3. ASSUME NEW s \in run'[x].read \ run'[x].todo, NEW d \in CamerasOf(s),
               OpenAllAlong(s, run[x].age)'
        PROVE  Served(d, run[x].keys, run[x].age)'
    <3> PICK n \in Nat : n = run[x].age
      BY <1>0
    <3>1. OpenAllAlong(s, n)
      BY <2>1, <2>3, OpenAllAlongKept
    <3>2. Served(d, run[x].keys, n) /\ d \in Camera
      BY <2>1, <2>3, <3>1 DEF ServedInv, CamerasOf
    <3> QED
      BY <1>0, <2>1, <3>2 DEF Served
  <2> QED
    BY <1>2, <2>1, <2>2, <2>3
<1>7. ASSUME UNCHANGED << run, now >>, \A c \in Camera : active'[c] >= active[c]
      PROVE  ServedInv'
  <2> SUFFICES ASSUME NEW y \in Run, NEW s \in run[y].read \ run[y].todo,
                      NEW c \in CamerasOf(s)', OpenAllAlong(s, run[y].age)'
               PROVE  Served(c, run[y].keys, run[y].age)'
    BY <1>7 DEF ServedInv
  <2> PICK n \in Nat : n = run[y].age
    BY <1>0
  <2>1. c \in CamerasOf(s) /\ OpenAllAlong(s, n)
    BY <1>7, OpenAllAlongKept DEF CamerasOf, MatchesMarket
  <2>2. Served(c, run[y].keys, n) /\ c \in Camera
    BY <2>1 DEF ServedInv, CamerasOf
  <2> QED
    BY <1>0, <1>7, <2>2 DEF Served
<1>8. ASSUME NEW s \in Schedule, CreateSchedule(s)
      PROVE  ServedInv'
  BY <1>0, <1>7, <1>8 DEF CreateSchedule
<1>9. CASE SeedActivates
  <2>1. \A c \in Camera : active'[c] >= active[c]
    BY <1>0, <1>9 DEF SeedActivates, SchedulerTypeOK
  <2> QED
    BY <1>7, <1>9, <2>1 DEF SeedActivates
<1>10. CASE UNCHANGED schedulerVars
  BY <1>0, <1>7, <1>10 DEF schedulerVars
<1> QED
  BY <1>1, <1>3, <1>4, <1>5, <1>6, <1>8, <1>9, <1>10 DEF Next

\* No run lasts as long as a key, which is set for a day (ACTIVE_MODE_TTL_SECS).
RunsAreShort == RunBound < ActiveTTL

\* At its end a run has activated every camera of a schedule that was open while
\* it ran, however other runs, time and new schedules interleave with it.
THEOREM RunsMissNothing == ASSUME RunsAreShort PROVE Spec => RunActivates
<1> DEFINE I == SchedulerTypeOK /\ KeysInv /\ ServedInv
<1>1. Init => I
  BY TypesInit, KeysInit, ServedInit
<1>2. I /\ [Next]_schedulerVars => I'
  BY TypesNext, KeysNext, ServedNext
<1>3. I /\ [Next]_schedulerVars =>
        [ \A x \in Run : RunEnds(x) =>
            \A s \in run[x].read, c \in Camera :
              (c \in CamerasOf(s) /\ Since(run[x].age) \subseteq Window(s)) =>
                  active[c] > 0 ]_schedulerVars
  <2> SUFFICES ASSUME I, NEW x \in Run, RunEnds(x), NEW s \in run[x].read,
                      NEW c \in Camera, c \in CamerasOf(s),
                      Since(run[x].age) \subseteq Window(s)
               PROVE  active[c] > 0
    OBVIOUS
  <2>1. run[x].todo = {} /\ run[x].keys = {}
    BY DEF RunEnds
  <2>2. Served(c, {}, run[x].age)
    BY <2>1 DEF ServedInv, OpenAllAlong
  <2>3. /\ active[c] \in Nat /\ ActiveTTL \in Nat /\ RunBound \in Nat
        /\ run[x].age \in Nat /\ run[x].age <= RunBound
    BY TypesHelp
  <2> QED
    BY <2>2, <2>3, RunsAreShort DEF Served, RunsAreShort
<1> QED
  BY <1>1, <1>2, <1>3, PTL DEF Spec, RunActivates

=============================================================================
