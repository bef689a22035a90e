---------------------------- MODULE CronSchedule ----------------------------
(***************************************************************************)
(* Five-field cron expressions (src/transport/scheduler_calendar.py) and   *)
(* the loop that runs a job by one (scheduler.py, _run_cron_loop).         *)
(*                                                                         *)
(* Time is counted in minutes from a midnight that starts a year and a     *)
(* week; the calendar is a parameter.  The clock of the job's zone is ahead*)
(* of UTC by 0 before ShiftAt and by ShiftBy from then on: one change of   *)
(* summer time.  A token stands for its text: "a", "a-b", "*", bare or with*)
(* a step; none is written twice in a field.  A run takes up to MaxRun     *)
(* minutes.                                                                *)
(***************************************************************************)
EXTENDS Integers, Sequences, FiniteSetsExt

CONSTANTS
    MinutesPerHour, HoursPerDay, WeekLength,
    MonthLengths,           \* days of every month of a year
    LongestMonth,           \* 31, the last day a month may have
    Expressions,            \* records of the five fields, sets of tokens
    Horizon,                \* minutes that next_cron_run looks ahead
    ShiftAt, ShiftBy, MaxRun, MaxUtc

Token == [star : BOOLEAN, lo : Nat, hi : Nat, step : Nat, bare : BOOLEAN]

CalendarAssumption ==
    /\ {MinutesPerHour, HoursPerDay, WeekLength, LongestMonth, Horizon, MaxUtc}
          \subseteq Nat \ {0}
    /\ ShiftAt \in Nat /\ ShiftBy \in Int /\ MaxRun \in Nat
    /\ MonthLengths \in Seq(1..LongestMonth)
    /\ Expressions \subseteq [minutes : SUBSET Token, hours : SUBSET Token,
                             days : SUBSET Token, months : SUBSET Token,
                             weekdays : SUBSET Token]

VARIABLES
    utc,        \* minutes
    expression, \* of the job
    cron,       \* what _parse_cron_expression made of it
    pc,
    wakeAt,     \* in UTC, by the event loop's clock
    slept       \* the minute the loop computed its sleep in

vars == <<utc, expression, cron, pc, wakeAt, slept>>

Wall(t) == IF t < ShiftAt THEN t ELSE t + ShiftBy

-----------------------------------------------------------------------------
\* The calendar: a date is the wall-clock minute it stands for.

MinuteOf(w) == w % MinutesPerHour
HourOf(w) == (w \div MinutesPerHour) % HoursPerDay
DayNumber(w) == w \div (MinutesPerHour * HoursPerDay)
DaysBefore[m \in 1..(Len(MonthLengths) + 1)] ==
    IF m = 1 THEN 0 ELSE DaysBefore[m - 1] + MonthLengths[m - 1]
YearLength == DaysBefore[Len(MonthLengths) + 1]
DayOfYear(w) == DayNumber(w) % YearLength
MonthOf(w) == CHOOSE m \in 1..Len(MonthLengths) :
                 DayOfYear(w) \in DaysBefore[m]..(DaysBefore[m + 1] - 1)
DayOf(w) == DayOfYear(w) - DaysBefore[MonthOf(w)] + 1
WeekdayOf(w) == DayNumber(w) % WeekLength

-----------------------------------------------------------------------------
\* Parsing.  A star is the whole range of its field, bare or with a step; a field
\* that is nothing but a bare one is special in the two day fields.

Star == [star |-> TRUE, lo |-> 0, hi |-> 0, step |-> 1, bare |-> TRUE]
Low(token, minimum) == IF token.star THEN minimum ELSE token.lo
High(token, maximum) == IF token.star THEN maximum ELSE token.hi

FieldAccepted(field, minimum, maximum) ==
    \A token \in field :
        /\ token.step > 0
        /\ minimum <= Low(token, minimum) /\ High(token, maximum) <= maximum
        /\ Low(token, minimum) <= High(token, maximum)

ParseField(field, minimum, maximum) ==
    UNION {{v \in Low(token, minimum)..High(token, maximum) :
               (v - Low(token, minimum)) % token.step = 0} : token \in field}

\* Both 0 and WeekLength are the first day of the week.
ParseWeekdays(field) ==
    {v % WeekLength : v \in ParseField(field, 0, WeekLength)}

Accepted(e) ==
    /\ FieldAccepted(e.minutes, 0, MinutesPerHour - 1)
    /\ FieldAccepted(e.hours, 0, HoursPerDay - 1)
    /\ FieldAccepted(e.days, 1, LongestMonth)
    /\ FieldAccepted(e.months, 1, Len(MonthLengths))
    /\ FieldAccepted(e.weekdays, 0, WeekLength)

Parse(e) ==
    [minutes |-> ParseField(e.minutes, 0, MinutesPerHour - 1),
     hours |-> ParseField(e.hours, 0, HoursPerDay - 1),
     days |-> ParseField(e.days, 1, LongestMonth),
     months |-> ParseField(e.months, 1, Len(MonthLengths)),
     weekdays |-> ParseWeekdays(e.weekdays),
     anyDay |-> e.days = {Star},
     anyWeekday |-> e.weekdays = {Star}]

\* Mutant: a star in one day field is not special.
EitherDayMatches(c, w) == DayOf(w) \in c.days \/ WeekdayOf(w) \in c.weekdays

\* When both day fields are restricted either may match.
DayMatches(c, w) ==
    \/ c.anyDay /\ c.anyWeekday
    \/ c.anyDay /\ WeekdayOf(w) \in c.weekdays
    \/ c.anyWeekday /\ DayOf(w) \in c.days
    \/ ~c.anyDay /\ ~c.anyWeekday
       /\ (DayOf(w) \in c.days \/ WeekdayOf(w) \in c.weekdays)

Matches(c, w) ==
    /\ MinuteOf(w) \in c.minutes /\ HourOf(w) \in c.hours /\ MonthOf(w) \in c.months
    /\ DayMatches(c, w)

\* Mutant: the minute after is not looked at.
CandidatesFromTwo(c, after) == {w \in (after + 2)..(after + Horizon) : Matches(c, w)}

Candidates(c, after) == {w \in (after + 1)..(after + Horizon) : Matches(c, w)}

-----------------------------------------------------------------------------
NoCron == [minutes |-> {}, hours |-> {}, days |-> {}, months |-> {}, weekdays |-> {},
           anyDay |-> FALSE, anyWeekday |-> FALSE]

Init ==
    /\ utc = 0 /\ expression \in Expressions /\ cron = NoCron
    /\ pc = "load" /\ wakeAt = 0 /\ slept = 0

\* validate_cron refuses the job.
Rejects ==
    /\ pc = "load" /\ ~Accepted(expression)
    /\ pc' = "rejected"
    /\ UNCHANGED <<utc, expression, cron, wakeAt, slept>>

Loads ==
    /\ pc = "load" /\ Accepted(expression)
    /\ cron' = Parse(expression) /\ pc' = "plan"
    /\ UNCHANGED <<utc, expression, wakeAt, slept>>

\* The wait is the difference of two wall-clock times of the same zone.
Plans ==
    /\ pc = "plan" /\ Candidates(cron, Wall(utc)) # {}
    /\ wakeAt' = utc + (Min(Candidates(cron, Wall(utc))) - Wall(utc))
    /\ slept' = utc /\ pc' = "sleep"
    /\ UNCHANGED <<utc, expression, cron>>

\* next_cron_run raises, and the task of the job ends.
FindsNothing ==
    /\ pc = "plan" /\ Candidates(cron, Wall(utc)) = {}
    /\ pc' = "dead"
    /\ UNCHANGED <<utc, expression, cron, wakeAt, slept>>

Wakes ==
    /\ pc = "sleep" /\ utc = wakeAt
    /\ pc' = "run"
    /\ UNCHANGED <<utc, expression, cron, wakeAt, slept>>

RunEnds ==
    /\ pc = "run" /\ pc' = "plan"
    /\ UNCHANGED <<utc, expression, cron, wakeAt, slept>>

Tick ==
    /\ utc < MaxUtc
    /\ \/ pc = "sleep" /\ utc < wakeAt
       \/ pc = "run" /\ utc < wakeAt + MaxRun
    /\ utc' = utc + 1
    /\ UNCHANGED <<expression, cron, pc, wakeAt, slept>>

Next == Rejects \/ Loads \/ Plans \/ FindsNothing \/ Wakes \/ RunEnds \/ Tick

Spec == Init /\ [][Next]_vars

-----------------------------------------------------------------------------
\* What an expression means, token by token.
Hits(field, minimum, maximum, v) ==
    \E token \in field :
        \E k \in 0..maximum : /\ v = Low(token, minimum) + k * token.step
                              /\ v <= High(token, maximum)

Restricted(field) == field # {Star}

Meant(e, w) ==
    LET day == Hits(e.days, 1, LongestMonth, DayOf(w))
        weekday == \E v \in {WeekdayOf(w), WeekdayOf(w) + WeekLength} :
                      Hits(e.weekdays, 0, WeekLength, v)
    IN  /\ Hits(e.minutes, 0, MinutesPerHour - 1, MinuteOf(w))
        /\ Hits(e.hours, 0, HoursPerDay - 1, HourOf(w))
        /\ Hits(e.months, 1, Len(MonthLengths), MonthOf(w))
        /\ Restricted(e.days) /\ Restricted(e.weekdays) => day \/ weekday
        /\ Restricted(e.days) /\ ~Restricted(e.weekdays) => day
        /\ ~Restricted(e.days) /\ Restricted(e.weekdays) => weekday

TypeOK ==
    /\ utc \in 0..MaxUtc /\ expression \in Expressions
    /\ pc \in {"load", "rejected", "plan", "sleep", "run", "dead"}
    /\ cron.weekdays \subseteq 0..(WeekLength - 1)
    /\ wakeAt \in Nat /\ slept \in 0..MaxUtc

\* A job runs only in a minute its expression names, read in its own zone
\* (_run_cron_loop: the cron expression controls trigger timing).
RunsAtItsTimes == pc = "run" /\ utc = wakeAt => Meant(expression, Wall(utc))

\* No minute the expression names goes by while the loop sleeps: a run is only
\* lost to an earlier run that is still going on (_run_cron_loop, next_cron_run).
NoMinuteSleptThrough ==
    pc = "sleep" => \A t \in (slept + 1)..(utc - 1) : ~Meant(expression, Wall(t))

=============================================================================
