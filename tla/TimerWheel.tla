------------------------------ MODULE TimerWheel ------------------------------
(***************************************************************************)
(* The timing wheel (timer/timer_wheel.cpp): five levels of buckets, the   *)
(* thread that moves tasks down a level, runs the first level and counts   *)
(* ticks, and a caller that sets one task and may cancel it.  Tasks share  *)
(* the buckets and nothing else, so one task is enough to follow.          *)
(*                                                                         *)
(* Times are in milliseconds and relative: `left` is the task's expire     *)
(* minus the clock, `ahead` the clock minus the time at which the tick is  *)
(* due.  `tick` counts modulo the period of the wheel; what happens to the *)
(* sleep of the thread when the 32 bits of the counter are used up, after  *)
(* 248 days, is left out.                                                  *)
(***************************************************************************)
EXTENDS Integers, FiniteSets

CONSTANTS
    Size,        \* LevelOneSize .. LevelFiveSize
    tickGap,
    Timeouts,    \* delays of setTimeout
    Intervals,   \* delays of setInterval
    MaxLag,      \* bound: how late the thread is with a tick
    MaxLate,     \* bound: how long the task is overdue
    MaxRuns      \* bound: runs of a periodic task that are counted

Levels == 1 .. 5

ASSUME WheelAssumption ==
    /\ Size \in [Levels -> Nat \ {0, 1}] /\ Size[1] >= 4 /\ Size[2] <= Size[3]
    /\ tickGap \in Nat \ {0}
    /\ Timeouts \subseteq Nat \ {0}
    /\ Intervals \subseteq Nat /\ \A d \in Intervals : d > 2 * tickGap
    /\ MaxLag \in Nat /\ MaxLate \in Nat /\ MaxRuns \in Nat \ {0}

VARIABLES
    tick, ahead,
    stage,       \* of the thread: "sleep", "cascaded", "executed", "stuck" on a bucket's mutex
    task,        \* "none", "setting", "set", or "gone"
    place,       \* the bucket that holds the task, <<level, index>>, or the one it is on its way to
    left,
    interval,    \* delayInterval, 0 for a task that is not isDuplicate
    isCancel,
    runs,        \* history: runs of the call-back
    early,       \* history: what was left when it last ran
    loose        \* history: set while the thread worked on a tick, or for a long delay

wheelVars == <<tick, ahead, stage>>
taskVars  == <<task, place, left, interval, isCancel>>
historyVars == <<runs, early, loose>>
vars == <<wheelVars, taskVars, historyVars>>

Nowhere == <<0, 0>>

\* The masks and shifts of the code: Unit(l) is one shifted to level l.
Unit(l)  == CASE l = 1 -> 1
              [] l = 2 -> Size[1]
              [] l = 3 -> Size[1] * Size[2]
              [] l = 4 -> Size[1] * Size[2] * Size[3]
              [] OTHER -> Size[1] * Size[2] * Size[3] * Size[4]
Period   == Unit(5) * Size[5]
check(l) == (Size[l] - 1) * Unit(l)
Index(l, x) == (x \div Unit(l)) % Size[l]
Least(a, b) == IF a < b THEN a ELSE b
Gaps(delay) == (IF delay < 0 THEN 0 ELSE delay) \div tickGap

\* The clock starts when the tick 0 is due.
Init ==
    /\ tick = 0 /\ ahead = 0 /\ stage = "sleep"
    /\ task = "none" /\ place = Nowhere /\ left = 0 /\ interval = 0 /\ isCancel = FALSE
    /\ runs = 0 /\ early = 0 /\ loose = FALSE

-----------------------------------------------------------------------------
(* setTimerWheelTask *)

LevelOf(gaps) == IF \E l \in 1 .. 4 : gaps <= check(l)
                 THEN CHOOSE l \in 1 .. 4 : gaps <= check(l) /\ \A k \in 1 .. l - 1 : gaps > check(k)
                 ELSE 5

\* Mutant of BucketOf: the first level's index is not wrapped.
BucketUnwrapped(gaps) ==
    LET l == LevelOf(gaps)
    IN  IF l = 1 THEN <<1, Index(1, tick) + gaps>>
        ELSE <<l, (Index(2, tick + gaps) * Unit(2)) \div Unit(IF l = 3 THEN 2 ELSE l)>>

\* The levels above the first mask with checkTwo; the third also shifts as the
\* second does, the last two shift everything away.
BucketOf(gaps) ==
    LET l == LevelOf(gaps)
    IN  IF l = 1 THEN <<1, Index(1, tick + gaps)>>
        ELSE <<l, (Index(2, tick + gaps) * Unit(2)) \div Unit(IF l = 3 THEN 2 ELSE l)>>

\* setTimeout and setInterval: expire is the clock plus the delay, and the
\* bucket follows from the tick; the task gets there once its mutex is free.
SetTask(delay, every) ==
    /\ task = "none"
    /\ task' = "setting"
    /\ place' = BucketOf(Gaps(delay))
    /\ left' = delay
    /\ interval' = every
    /\ loose' = (stage # "sleep" \/ place'[1] > 2)
    /\ UNCHANGED <<wheelVars, isCancel, runs, early>>
SetTimeout  == \E d \in Timeouts : SetTask(d, 0)
SetInterval == \E d \in Intervals : SetTask(d, d)

PushTask ==
    /\ task = "setting"
    /\ task' = "set"
    /\ UNCHANGED <<wheelVars, place, left, interval, isCancel, historyVars>>

\* clearTimeout, and clearInterval, which also makes the task a single one.
ClearTask ==
    /\ task = "set" /\ ~isCancel
    /\ isCancel' = TRUE
    /\ interval' = 0
    /\ UNCHANGED <<wheelVars, task, place, left, historyVars>>

-----------------------------------------------------------------------------
(* The thread *)

\* One millisecond goes by.
Pass ==
    /\ ahead < MaxLag
    /\ ahead' = ahead + 1
    /\ left' = IF task \in {"setting", "set"} /\ left > -MaxLate THEN left - 1 ELSE left
    /\ UNCHANGED <<tick, stage, task, place, interval, isCancel, historyVars>>

\* The hand of level l moves with the next tick.
Moves(l) == Index(l, tick + 1) = (Index(l, tick) + 1) % Size[l]

\* Mutant of Below: always from where the hand will be.
BelowFromNext(l) ==
    LET gaps == IF l <= 3 THEN Least(Gaps(left), check(l - 1)) ELSE Gaps(left)
    IN  <<l - 1, (Index(l - 1, tick + 1) + Index(l - 1, gaps)) % Size[l - 1]>>

\* Where a task of level l goes, by what is left of its delay.
Below(l) ==
    LET gaps == IF l <= 3 THEN Least(Gaps(left), check(l - 1)) ELSE Gaps(left)
        hand == IF l = 2 THEN Index(1, tick) ELSE Index(l - 1, tick + 1)
    IN  <<l - 1, (hand + Index(l - 1, gaps)) % Size[l - 1]>>

Descend(l, p) == IF p = <<l, Index(l, tick + 1)>> /\ Moves(l) THEN Below(l) ELSE p
Descended(p)  == Descend(2, Descend(3, Descend(4, Descend(5, p))))

\* The upper levels hand their tasks down, the fifth first; a cancelled one is
\* dropped.
Cascade ==
    /\ stage = "sleep" /\ ahead >= 0
    /\ stage' = "cascaded"
    /\ IF task = "set" /\ Descended(place) # place
       THEN IF isCancel THEN place' = Nowhere /\ task' = "gone"
                        ELSE place' = Descended(place) /\ UNCHANGED task
       ELSE UNCHANGED <<place, task>>
    /\ loose' = (loose \/ task = "setting")
    /\ UNCHANGED <<tick, ahead, left, interval, isCancel, runs, early>>

\* Mutant of NextDelay: no minimum.
NextDelayAny == left + interval
NextDelay == IF left + interval < 2 * tickGap THEN 2 * tickGap ELSE left + interval

\* A periodic task goes back while the thread owns the bucket's mutex.
Again ==
    LET to == BucketOf(Gaps(NextDelay))
    IN  IF to = place
        THEN stage' = "stuck" /\ UNCHANGED <<task, place, left, loose>>
        ELSE /\ stage' = "executed"
             /\ place' = to
             /\ left' = left + interval
             /\ loose' = (loose \/ to[1] # 1)
             /\ UNCHANGED task

\* The bucket under the hand of the first level: every task runs, in the pool
\* or here, and leaves.
Execute ==
    /\ stage = "cascaded"
    /\ IF task = "set" /\ place = <<1, Index(1, tick)>>
       THEN IF isCancel
            THEN /\ task' = "gone" /\ place' = Nowhere /\ stage' = "executed"
                 /\ UNCHANGED <<left, runs, early, loose>>
            ELSE /\ runs' = Least(runs + 1, MaxRuns)
                 /\ early' = left
                 /\ \/ interval > 0 /\ Again
                    \/ /\ interval = 0
                       /\ task' = "gone" /\ place' = Nowhere /\ stage' = "executed"
                       /\ UNCHANGED <<left, loose>>
       ELSE stage' = "executed" /\ UNCHANGED <<task, place, left, historyVars>>
    /\ UNCHANGED <<tick, ahead, interval, isCancel>>

\* tick + 1, and the sleep until it is due.
Advance ==
    /\ stage = "executed"
    /\ stage' = "sleep"
    /\ tick' = (tick + 1) % Period
    /\ ahead' = ahead - tickGap
    /\ UNCHANGED <<taskVars, historyVars>>

Thread == Cascade \/ Execute \/ Advance
Next == SetTimeout \/ SetInterval \/ PushTask \/ ClearTask \/ Pass \/ Thread

Spec == Init /\ [][Next]_vars
FairSpec == Spec /\ WF_vars(Thread) /\ WF_vars(Pass) /\ WF_vars(PushTask)

-----------------------------------------------------------------------------
(* Properties *)

\* A task that is set while the thread sleeps, and whose delay the first two
\* levels cover, runs when it is due: never more than two ticks and the
\* thread's delay early (one tick the delay is rounded to, one the hand may be about to
\* leave), nor more than one tick and that delay late.
OnTime ==
    ~loose => /\ early <= 2 * tickGap + MaxLag
              /\ task = "set" => left >= -(tickGap + MaxLag)

\* The thread never waits for a bucket's mutex it owns when it sets a periodic task
\* again: one that is late goes at least two ticks ahead.  A timeout that a call-back
\* sets by itself in the thread is not in the model.
NoSelfLock == stage # "stuck"

\* Whatever bucket a task is put in, also the wrong one of a long delay and the
\* one the hand has just left, it is found again: a task that is not cancelled
\* runs, and a periodic one again and again.
RunsAgain ==
    \A n \in 0 .. MaxRuns - 1 :
        (task = "set" /\ runs = n) ~> (runs > n \/ isCancel)
=============================================================================
