------------------------------- MODULE Cycles -------------------------------
(***************************************************************************)
(* Quota cycles: from the reset day of a month to that of the next, at     *)
(* midnight in the panel's time zone, while administrators change the      *)
(* reset day and the zone, clocks jump over midnight and the panel sleeps  *)
(* through any number of boundaries.                                       *)
(*                                                                         *)
(* Time is a count of ticks of UTC.  The calendar is scaled: a day is      *)
(* DayLen ticks and long and short months alternate.  time.Date and        *)
(* AddDate are Go's, external here; a zone is the sequence of its offsets  *)
(* and of the ticks from which they hold.                                  *)
(***************************************************************************)
EXTENDS Integers, Sequences, FiniteSets

CONSTANTS
    Zones,        \* sequences of [from, offset], the first from below every time
    ResetDays,    \* reset days that administrators choose
    DayLen,       \* ticks of a day
    LongMonth,
    ShortMonth,   \* days of a month
    MaxTime,      \* bound: the clock
    MaxCreation,  \* bound: the user is created by then
    MaxChanges    \* bound: changes of the policy or the zone

ASSUME CalendarAssumption == DayLen \in Nat \ {0} /\ LongMonth \in Nat \ {0} /\ ShortMonth \in 1 .. LongMonth

\* ValidateQuotaPolicy: every month has every reset day.
ASSUME ResetDaysAssumption == ResetDays \subseteq 1 .. ShortMonth

ASSUME BoundsAssumption == MaxTime \in Nat /\ MaxCreation \in 0 .. MaxTime /\ MaxChanges \in Nat

VARIABLES
    now,
    policy,    \* quota_policies.reset_day and panel_settings.quota_timezone
    cycles,    \* the user's quota_cycles in order; the last one is open
    settled,   \* the latest time at which its cycles were settled
    changes

vars == <<now, policy, cycles, settled, changes>>

----------------------------------------------------------------------------
(* Go's calendar.                                                          *)

TwoMonths == LongMonth + ShortMonth

\* Days before month m; month of a day, both counted from zero.
MonthStart(m) == (m \div 2) * TwoMonths + (m % 2) * LongMonth
MonthOf(day) == 2 * (day \div TwoMonths) + (IF day % TwoMonths < LongMonth THEN 0 ELSE 1)

\* Location.lookup: the index of the offset in force at t.
Period(z, t) == CHOOSE i \in DOMAIN z :
                   /\ z[i].from <= t
                   /\ \A j \in DOMAIN z : z[j].from <= t => j <= i

Local(z, t) == t + z[Period(z, t)].offset
Day(z, t) == Local(z, t) \div DayLen
Month(z, t) == MonthOf(Day(z, t))

\* time.Date: the offset at the wall clock read as UTC, corrected once.
Date(z, m, day, clock) ==
    LET wall == (MonthStart(m) + day - 1) * DayLen + clock
        p    == Period(z, wall)
        utc  == wall - z[p].offset
    IN  IF z[p].offset = 0 \/ Period(z, utc) = p THEN utc ELSE wall - z[Period(z, utc)].offset

\* Time.AddDate(0, n, 0).
AddMonths(z, t, n) ==
    Date(z, Month(z, t) + n, Day(z, t) - MonthStart(Month(z, t)) + 1, Local(z, t) % DayLen)

\* The months in which the clock and the cycles around it lie.
Months == -2 .. (MonthOf(MaxTime \div DayLen) + 3)

Boundaries(z, day) == {Date(z, m, day, 0) : m \in Months}

\* The midnight of a reset day falls into its month, and a clock that is put
\* back does not return to an earlier month.  Where a clock is put forward over
\* the midnight that begins a month, in a zone behind UTC, or back over it, a
\* cycle would have to end where it starts: settleCycles then fails for good.
ASSUME ZonesAssumption == \A z \in Zones :
    /\ \A t \in 0 .. MaxTime : {Month(z, t) - 1, Month(z, t), Month(z, t) + 1} \subseteq Months
    /\ \A m \in Months, day \in ResetDays :
          Date(z, m, day, 0) \in Int /\ Month(z, Date(z, m, day, 0)) = m
    /\ \A day \in ResetDays : \A t, u \in (0 .. MaxTime) \cup Boundaries(z, day) :
          t <= u => Month(z, t) <= Month(z, u)

----------------------------------------------------------------------------
(* domain/quota.go.                                                        *)

NextCycleStart(z, start, day) == Date(z, Month(z, start) + 1, day, 0)

\* Seeded fault: a boundary belongs to the cycle that it ends.
CycleBounds_Inclusive(z, t, day) ==
    LET this  == Date(z, Month(z, t), day, 0)
        start == IF t <= this THEN Date(z, Month(z, t) - 1, day, 0) ELSE this
    IN  [start |-> start, end |-> NextCycleStart(z, start, day)]

CycleBounds(z, t, day) ==
    LET this  == Date(z, Month(z, t), day, 0)
        start == IF t < this THEN Date(z, Month(z, t) - 1, day, 0) ELSE this
    IN  [start |-> start, end |-> NextCycleStart(z, start, day)]

\* initialCycleBounds of the user service: the same months, by AddDate, which
\* keeps the hour that a midnight is moved to.
InitialCycleBounds(z, t, day) ==
    LET this  == Date(z, Month(z, t), day, 0)
        start == IF t < this THEN AddMonths(z, this, -1) ELSE this
    IN  [start |-> start, end |-> AddMonths(z, start, 1)]

ASSUME CreationAssumption == \A z \in Zones, day \in ResetDays, t \in 0 .. MaxCreation :
    InitialCycleBounds(z, t, day) \in [start: Int, end: Nat]

----------------------------------------------------------------------------
(* settleCycles.                                                           *)

Cycle(start, end) == [start |-> start, end |-> end, zone |-> policy.zone, day |-> policy.day]

\* Seeded fault: a month after the boundary, whatever the policy is now.
EndAfter_NextMonth(start) == NextCycleStart(policy.zone, start, policy.day)

\* The new cycle ends where the policy's cycle around its start ends.
EndAfter(start) == CycleBounds(policy.zone, start, policy.day).end

\* One turn of the loop.
Cross(cs, at) ==
    LET start == cs[Len(cs)].end
    IN  IF start > at \/ EndAfter(start) <= start THEN cs
        ELSE Append(cs, Cycle(start, EndAfter(start)))

\* Every boundary up to at is crossed in order; an end that is not after its
\* start is an error, and the transaction is rolled back.  There is at most
\* one boundary per tick.
Settle(cs, at) ==
    LET crossed[n \in Nat] == IF n = 0 THEN cs ELSE Cross(crossed[n - 1], at)
        done == crossed[MaxTime + 1]
    IN  IF done[Len(done)].end > at THEN done ELSE cs

\* The scheduler or a collected batch settles the user's cycles, at a time it
\* read a little before.
RolloverCycle(at) ==
    /\ at >= cycles[1].start
    /\ cycles' = Settle(cycles, at)
    /\ settled' = IF at > settled THEN at ELSE settled
    /\ UNCHANGED <<now, policy, changes>>

\* UpdateUser changes the reset day, UpdateSettings the time zone: open
\* cycles keep the bounds they have.
ChangePolicy(z, day) ==
    /\ changes < MaxChanges
    /\ (z = policy.zone) # (day = policy.day)
    /\ policy' = [zone |-> z, day |-> day]
    /\ changes' = changes + 1
    /\ UNCHANGED <<now, cycles, settled>>

\* The panel sleeps for as long as it likes.
Wait(t) ==
    /\ t > now
    /\ now' = t
    /\ UNCHANGED <<policy, cycles, settled, changes>>

\* CreateUser opens the first cycle, and is refused if that would be empty.
Init ==
    /\ now \in 0 .. MaxCreation
    /\ policy \in [zone: Zones, day: ResetDays]
    /\ LET b == InitialCycleBounds(policy.zone, now, policy.day)
       IN  b.start < b.end /\ cycles = <<Cycle(b.start, b.end)>>
    /\ settled = now
    /\ changes = 0

Next ==
    \/ \E t \in 0 .. MaxTime : Wait(t)
    \/ \E at \in {now - 1, now} : RolloverCycle(at)
    \/ \E z \in Zones, day \in ResetDays : ChangePolicy(z, day)

Spec == Init /\ [][Next]_vars

----------------------------------------------------------------------------
(* Properties.                                                             *)

Open == cycles[Len(cycles)]

\* The types of the variables.
CyclesTypeOK ==
    /\ now \in 0 .. MaxTime
    /\ policy \in [zone: Zones, day: ResetDays]
    /\ \A i \in DOMAIN cycles : cycles[i].start \in Int /\ cycles[i].end \in Int
    /\ settled \in 0 .. MaxTime
    /\ changes \in 0 .. MaxChanges

\* The open cycle holds the time at which the cycles were last settled, the
\* user's creation included: no boundary is left behind, however many were
\* missed, and a settlement with an older time undoes nothing.
OpenCycleHoldsNow == cycles[1].start <= settled /\ settled < Open.end

\* A first cycle holds the time at which it is opened.  It does not in a zone
\* behind UTC whose clock was put forward over the reset midnight of the month
\* before: AddDate keeps the hour to which that midnight was moved, and the
\* cycle ends as long before its boundary.
WholeFirstCycles == \A z \in Zones, day \in ResetDays, t \in 0 .. MaxCreation :
    LET b == InitialCycleBounds(z, t, day) IN b.start < b.end => b.start <= t /\ t < b.end

\* No clock is put forward over the midnight of a reset day.
MidnightsExist == \A z \in Zones, day \in ResetDays, m \in Months :
    Local(z, Date(z, m, day, 0)) = (MonthStart(m) + day - 1) * DayLen

\* No cycle is empty, and every cycle but the first starts where the one before
\* it ends and ends at the first boundary after its start, a midnight of the
\* reset day in the zone that were in force when it was opened: no month is
\* skipped and none is counted twice, across changes of the day, of the zone and
\* of the clock.
EndsAtNextBoundary ==
    /\ \A i \in DOMAIN cycles : cycles[i].start < cycles[i].end
    /\ \A i \in 2 .. Len(cycles) :
       LET c == cycles[i] IN
       /\ c.start = cycles[i - 1].end
       /\ c.end \in Boundaries(c.zone, c.day)
       /\ ~ \E b \in Boundaries(c.zone, c.day) : c.start < b /\ b < c.end
=============================================================================
