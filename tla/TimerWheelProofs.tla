--------------------------- MODULE TimerWheelProofs ---------------------------
(***************************************************************************)
(* Proofs about TimerWheel, for every size of the five levels, every tick  *)
(* and every set of delays.                                                *)
(***************************************************************************)
EXTENDS TimerWheel, TLAPS

-----------------------------------------------------------------------------
(* Arithmetic: the masks and shifts of the code as quotients and remainders *)

\* Products are monotone.
LEMMA Times ==
    ASSUME NEW a \in Nat, NEW b \in Nat, NEW c \in Nat, a <= b
    PROVE  c * a <= c * b /\ c * a \in Nat /\ c * b \in Nat
OBVIOUS

\* Quotient and remainder exist ...
LEMMA DivMod ==
    ASSUME NEW a \in Nat, NEW b \in Nat \ {0}
    PROVE  /\ a \div b \in Nat /\ a % b \in 0 .. b - 1
           /\ a = b * (a \div b) + (a % b)
<1>1. a \div b \in Nat
    OBVIOUS
<1>2. a % b \in 0 .. b - 1
    OBVIOUS
<1>3. a = b * (a \div b) + (a % b)
    OBVIOUS
<1> QED BY <1>1, <1>2, <1>3

\* ... and are unique.
LEMMA DivModUnique ==
    ASSUME NEW a \in Nat, NEW b \in Nat \ {0}, NEW q \in Nat, NEW r \in 0 .. b - 1,
           a = b * q + r
    PROVE  a \div b = q /\ a % b = r
<1> DEFINE Q == a \div b
<1> DEFINE R == a % b
<1>1. Q \in Nat /\ R \in 0 .. b - 1 /\ a = b * Q + R
    BY DivMod
<1> HIDE DEF Q, R
<1>2. ~(q < Q)
    <2> SUFFICES ASSUME q + 1 <= Q PROVE FALSE
        BY <1>1
    <2>1. b * (q + 1) <= b * Q /\ b * (q + 1) = b * q + b
        BY <1>1, Times
    <2> QED BY <1>1, <2>1
<1>3. ~(Q < q)
    <2> SUFFICES ASSUME Q + 1 <= q PROVE FALSE
        BY <1>1
    <2>1. b * (Q + 1) <= b * q /\ b * (Q + 1) = b * Q + b
        BY <1>1, Times
    <2> QED BY <1>1, <2>1
<1>4. q = Q
    BY <1>1, <1>2, <1>3
<1> QED BY <1>1, <1>4 DEF Q, R

\* A multiple has itself as quotient.
LEMMA DivExact ==
    ASSUME NEW q \in Nat, NEW b \in Nat \ {0}
    PROVE  (q * b) \div b = q
<1>1. q * b \in Nat /\ q * b = b * q + 0 /\ 0 \in 0 .. b - 1
    OBVIOUS
<1> QED BY <1>1, DivModUnique

\* Taking the remainder first changes no sum.
LEMMA ModAdd ==
    ASSUME NEW a \in Nat, NEW c \in Nat, NEW b \in Nat \ {0}
    PROVE  ((a % b) + c) % b = (a + c) % b
<1> DEFINE q == a \div b
<1> DEFINE r == a % b
<1>1. q \in Nat /\ r \in Nat /\ a = b * q + r
    BY ONLY DivMod, a \in Nat, b \in Nat \ {0}
<1> HIDE DEF q, r
<1> DEFINE s == (r + c) \div b
<1> DEFINE t == (r + c) % b
<1>2. r + c \in Nat
    BY <1>1
<1>3. s \in Nat /\ t \in 0 .. b - 1 /\ r + c = b * s + t
    BY ONLY <1>2, DivMod, b \in Nat \ {0}
<1> HIDE DEF s, t
<1>4. q + s \in Nat /\ a + c \in Nat /\ a + c = b * (q + s) + t
    <2>1. b * (q + s) = b * q + b * s
        BY <1>1, <1>3
    <2> QED BY <1>1, <1>3, <2>1
<1>5. (a + c) % b = t
    BY <1>3, <1>4, DivModUnique
<1> QED BY <1>5 DEF r, t

\* A number below the divisor is its own remainder.
LEMMA ModSmall ==
    ASSUME NEW b \in Nat \ {0}, NEW a \in 0 .. b - 1
    PROVE  a % b = a
<1>1. a \in Nat /\ a = b * 0 + a /\ 0 \in Nat
    OBVIOUS
<1> QED BY <1>1, DivModUnique

\* A step of less than one turn.
LEMMA ModShift ==
    ASSUME NEW b \in Nat \ {0}, NEW a \in 0 .. b - 1, NEW n \in 0 .. b - 1
    PROVE  (a + n) % b = IF a + n < b THEN a + n ELSE a + n - b
<1>1. CASE a + n < b
    <2>1. a + n \in Nat /\ a + n \in 0 .. b - 1 /\ a + n = b * 0 + (a + n) /\ 0 \in Nat
        BY <1>1
    <2> QED BY <1>1, <2>1, DivModUnique
<1>2. CASE a + n >= b
    <2>1. a + n \in Nat /\ a + n - b \in 0 .. b - 1 /\ a + n = b * 1 + (a + n - b) /\ 1 \in Nat
        BY <1>2
    <2> QED BY <1>2, <2>1, DivModUnique
<1> QED BY <1>1, <1>2
-----------------------------------------------------------------------------
(* The hands of the first two levels *)

\* The sizes and bounds are numbers.
LEMMA Sizes ==
    /\ Size[1] \in Nat \ {0} /\ Size[1] >= 4 /\ Size[2] \in Nat \ {0} /\ Size[2] >= 2
    /\ Size[3] \in Nat \ {0} /\ Size[4] \in Nat \ {0} /\ Size[5] \in Nat \ {0}
    /\ tickGap \in Nat \ {0} /\ MaxLag \in Nat /\ MaxLate \in Nat /\ MaxRuns \in Nat
BY WheelAssumption DEF Levels

\* Products of positive numbers are positive.
LEMMA Positive ==
    ASSUME NEW a \in Nat \ {0}, NEW b \in Nat \ {0}
    PROVE  a * b \in Nat \ {0}
<1>1. a * 1 <= a * b /\ a * 1 = a /\ a * b \in Nat
    BY Times
<1> QED BY <1>1

\* The quotient and the two lowest digits of a number of ticks.
LEMMA Hands ==
    ASSUME NEW t \in Nat
    PROVE  /\ Index(1, t) = t % Size[1] /\ Index(1, t) \in 0 .. Size[1] - 1
           /\ Index(2, t) = (t \div Size[1]) % Size[2] /\ Index(2, t) \in 0 .. Size[2] - 1
           /\ t \div Size[1] \in Nat /\ t = Size[1] * (t \div Size[1]) + Index(1, t)
<1>1. t \div 1 = t
    <2>1. t = 1 * t + 0 /\ 1 \in Nat \ {0} /\ 0 \in 0 .. 1 - 1
        OBVIOUS
    <2> QED BY <2>1, DivModUnique
<1>2. Index(1, t) = t % Size[1]
    BY <1>1 DEF Index, Unit
<1>3. Index(2, t) = (t \div Size[1]) % Size[2]
    BY DEF Index, Unit
<1>4. /\ t \div Size[1] \in Nat /\ t % Size[1] \in 0 .. Size[1] - 1
      /\ t = Size[1] * (t \div Size[1]) + (t % Size[1])
    BY Sizes, DivMod
<1>5. (t \div Size[1]) % Size[2] \in 0 .. Size[2] - 1
    BY <1>4, Sizes, DivMod
<1> QED BY <1>2, <1>3, <1>4, <1>5

\* The hands after g ticks, which carry c over to the second level.
LEMMA HandsAfter ==
    ASSUME NEW t \in Nat, NEW g \in Nat, NEW c \in Nat, NEW r \in 0 .. Size[1] - 1,
           Index(1, t) + g = Size[1] * c + r
    PROVE  Index(1, t + g) = r /\ Index(2, t + g) = (Index(2, t) + c) % Size[2]
<1> DEFINE q == t \div Size[1]
<1>1. /\ q \in Nat /\ t = Size[1] * q + Index(1, t) /\ Index(1, t) \in 0 .. Size[1] - 1
      /\ Index(2, t) = q % Size[2]
    BY Hands
<1> HIDE DEF q
<1>2. q + c \in Nat /\ t + g \in Nat /\ t + g = Size[1] * (q + c) + r
    <2>1. Size[1] * (q + c) = Size[1] * q + Size[1] * c
        BY <1>1, Sizes
    <2>2. Size[1] * q \in Nat /\ Size[1] * c \in Nat
        BY <1>1, Sizes
    <2>3. t + g = Size[1] * q + Size[1] * c + r
        <3> DEFINE x == Size[1] * q
        <3> DEFINE y == Size[1] * c
        <3>1. x \in Nat /\ y \in Nat /\ t = x + Index(1, t) /\ Index(1, t) + g = y + r
            BY <1>1, <2>2
        <3>2. Index(1, t) \in Int /\ r \in Int
            BY <1>1
        <3> HIDE DEF x, y
        <3>3. t + g = x + y + r
            BY ONLY <3>1, <3>2, g \in Nat
        <3> QED BY <3>3 DEF x, y
    <2> QED BY <1>1, <2>1, <2>3
<1>3. (t + g) \div Size[1] = q + c /\ (t + g) % Size[1] = r
    BY <1>2, Sizes, DivModUnique
<1>4. Index(1, t + g) = r /\ Index(2, t + g) = (q + c) % Size[2]
    BY <1>2, <1>3, Hands
<1>5. (q + c) % Size[2] = ((q % Size[2]) + c) % Size[2]
    BY <1>1, Sizes, ModAdd
<1> QED BY <1>1, <1>4, <1>5

\* The next tick: the first hand moves, and the second with every turn of it.
LEMMA NextTick ==
    ASSUME NEW t \in Nat
    PROVE  /\ Index(1, t) < Size[1] - 1 => /\ Index(1, t + 1) = Index(1, t) + 1
                                           /\ Index(2, t + 1) = Index(2, t)
           /\ Index(1, t) = Size[1] - 1 => /\ Index(1, t + 1) = 0
                                           /\ Index(2, t + 1) = (Index(2, t) + 1) % Size[2]
<1>1. Index(1, t) \in 0 .. Size[1] - 1 /\ Index(2, t) \in 0 .. Size[2] - 1
    BY Hands
<1>2. CASE Index(1, t) < Size[1] - 1
    <2>1. Index(1, t) + 1 \in 0 .. Size[1] - 1 /\ Index(1, t) + 1 = Size[1] * 0 + (Index(1, t) + 1)
        BY <1>1, <1>2, Sizes
    <2>2. Index(1, t + 1) = Index(1, t) + 1 /\ Index(2, t + 1) = (Index(2, t) + 0) % Size[2]
        BY <2>1, HandsAfter
    <2>3. (Index(2, t) + 0) % Size[2] = Index(2, t)
        <3>1. Index(2, t) + 0 = Index(2, t)
            BY <1>1
        <3>2. Index(2, t) % Size[2] = Index(2, t)
            BY <1>1, Sizes, ModSmall
        <3> QED BY <3>1, <3>2
    <2> QED BY <1>2, <2>2, <2>3, Sizes
<1>3. CASE Index(1, t) = Size[1] - 1
    <2>1. 0 \in 0 .. Size[1] - 1 /\ Index(1, t) + 1 = Size[1] * 1 + 0
        BY <1>3, Sizes
    <2> QED BY <1>3, <2>1, HandsAfter, Sizes
<1> QED BY <1>1, <1>2, <1>3, Sizes

\* The tick counter wraps after whole turns of both hands.
LEMMA WrapKeepsHands ==
    ASSUME NEW t \in Nat
    PROVE  /\ t % Period \in Nat
           /\ Index(1, t % Period) = Index(1, t) /\ Index(2, t % Period) = Index(2, t)
<1>0. PICK b \in Nat \ {0}, c \in Nat \ {0} : b = Size[1] /\ c = Size[2]
    BY Sizes
<1>1. PICK k \in Nat \ {0} : k = Size[3] * (Size[4] * Size[5])
    BY Sizes, Positive
<1>2. PICK n \in Nat \ {0} : n = c * k
    BY Sizes, Positive
<1>3. PICK m \in Nat \ {0} : m = b * n
    BY Sizes, Positive
<1>4. Period = m
    <2>1. Period = Size[1] * Size[2] * Size[3] * Size[4] * Size[5]
        BY DEF Period, Unit
    <2> QED BY <1>0, <1>1, <1>2, <1>3, <2>1, Sizes
<1> DEFINE q == t \div m
<1> DEFINE r == t % m
<1>5. q \in Nat /\ r \in Nat /\ t = m * q + r
    BY ONLY DivMod, t \in Nat, m \in Nat \ {0}
<1> HIDE DEF q, r
<1> DEFINE s == r \div b
<1> DEFINE d == r % b
<1>6. s \in Nat /\ d \in 0 .. b - 1 /\ r = b * s + d
    BY ONLY <1>5, DivMod, b \in Nat \ {0}
<1> HIDE DEF s, d
<1>7. n * q + s \in Nat /\ t = b * (n * q + s) + d
    <2>1. n * q \in Nat /\ m * q = b * (n * q)
        BY <1>3, <1>5
    <2>2. b * (n * q + s) = b * (n * q) + b * s
        BY <1>6, <2>1
    <2> QED BY <1>5, <1>6, <2>1, <2>2
<1>8. t \div b = n * q + s /\ t % b = d
    BY ONLY <1>6, <1>7, DivModUnique, t \in Nat, b \in Nat \ {0}
<1> DEFINE u == s \div c
<1> DEFINE v == s % c
<1>9. u \in Nat /\ v \in 0 .. c - 1 /\ s = c * u + v
    BY ONLY <1>6, DivMod, c \in Nat \ {0}
<1> HIDE DEF u, v
<1>10. k * q + u \in Nat /\ n * q + s = c * (k * q + u) + v
    <2>1. k * q \in Nat /\ n * q = c * (k * q)
        BY <1>2, <1>5
    <2>2. c * (k * q + u) = c * (k * q) + c * u
        BY <1>9, <2>1
    <2> QED BY <1>9, <2>1, <2>2
<1>11. (n * q + s) % c = v
    BY ONLY <1>7, <1>9, <1>10, DivModUnique, c \in Nat \ {0}
<1>12. (t % Period) % b = t % b /\ ((t % Period) \div b) % c = (t \div b) % c /\ t % Period \in Nat
    BY ONLY <1>4, <1>5, <1>8, <1>11 DEF r, s, d, v
<1> QED BY <1>0, <1>12, Hands

-----------------------------------------------------------------------------
(* The inductive invariant *)

\* The thread is never more than a tick ahead of the clock, and works on a tick
\* only when it is due.
ThreadInv ==
    /\ tick \in Nat /\ ahead \in -tickGap .. MaxLag
    /\ stage \in {"sleep", "cascaded", "executed"}
    /\ stage # "sleep" => ahead >= 0

TaskInv ==
    /\ task \in {"none", "setting", "set", "gone"}
    /\ left \in Int /\ early \in Int /\ runs \in Nat
    /\ interval \in Nat /\ (interval = 0 \/ interval > 2 * tickGap)
    /\ task = "none" => early = 0 /\ ~loose

\* What is left beyond n ticks of the thread: it does not change while time
\* passes and ticks are counted.
Slack(n) == left + ahead - tickGap * n

\* The task is in the first level, n buckets from the hand.
InFirst(n) ==
    /\ n \in 0 .. Size[1] - 1
    /\ place = <<1, (Index(1, tick) + n) % Size[1]>>
    /\ stage = "executed" => n > 0
    /\ Slack(n) \in -tickGap .. 2 * tickGap + MaxLag

\* The ticks until the second hand has moved c times and the first is at r.
Distance(c, r) == Size[1] * c + r - Index(1, tick)

\* The task is in the second level, c buckets from the hand, and aims at the
\* bucket r of the first.
InSecond(c, r) ==
    /\ c \in 1 .. Size[2] - 1 /\ r \in 0 .. Size[1] - 1
    /\ place = <<2, (Index(2, tick) + c) % Size[2]>>
    /\ stage # "sleep" => c > 1 \/ Index(1, tick) < Size[1] - 1
    /\ Slack(Distance(c, r)) \in -tickGap .. tickGap + MaxLag

PlaceInv == (\E n \in 0 .. Size[1] - 1 : InFirst(n))
            \/ (\E c \in 1 .. Size[2] - 1, r \in 0 .. Size[1] - 1 : InSecond(c, r))

OnTimeInv ==
    ~loose => /\ early <= 2 * tickGap + MaxLag
              /\ task = "setting" => stage = "sleep"
              /\ task \in {"setting", "set"} => PlaceInv

IInv == ThreadInv /\ TaskInv /\ OnTimeInv

-----------------------------------------------------------------------------
(* Where a task is put *)

\* A delay in whole ticks.
LEMMA GapsFacts ==
    ASSUME NEW d \in Int
    PROVE  /\ Gaps(d) \in Nat
           /\ d < 0 => Gaps(d) = 0
           /\ d >= 0 => tickGap * Gaps(d) <= d /\ d < tickGap * Gaps(d) + tickGap
<1>1. CASE d >= 0
    <2>1. Gaps(d) = d \div tickGap
        BY <1>1 DEF Gaps
    <2>2. /\ d \div tickGap \in Nat /\ d % tickGap \in 0 .. tickGap - 1
          /\ d = tickGap * (d \div tickGap) + (d % tickGap)
        <3>1. d \in Nat /\ tickGap \in Nat \ {0}
            BY <1>1, Sizes
        <3> QED BY ONLY <3>1, DivMod
    <2>3. tickGap * (d \div tickGap) \in Nat
        BY <2>2, Sizes
    <2> QED BY <1>1, <2>1, <2>2, <2>3, Sizes
<1>2. CASE d < 0
    <2>1. Gaps(d) = 0 \div tickGap
        BY <1>2 DEF Gaps
    <2>2. 0 \div tickGap = 0
        <3>1. 0 = tickGap * 0 + 0 /\ 0 \in 0 .. tickGap - 1 /\ 0 \in Nat
            BY Sizes
        <3> QED BY <3>1, Sizes, DivModUnique
    <2> QED BY <1>2, <2>1, <2>2
<1> QED BY <1>1, <1>2

LEMMA CheckType == \A l \in 1 .. 4 : check(l) \in Int
BY Sizes DEF check, Unit

\* setTimerWheelTask takes the first level whose range covers the delay.
LEMMA LevelFacts ==
    ASSUME NEW g \in Nat
    PROVE  /\ LevelOf(g) \in 1 .. 5
           /\ g <= Size[1] - 1 <=> LevelOf(g) = 1
           /\ LevelOf(g) = 2 => g <= (Size[2] - 1) * Size[1]
<1> DEFINE P(l) == g <= check(l) /\ \A k \in 1 .. l - 1 : g > check(k)
<1>1. check(1) = Size[1] - 1 /\ check(2) = (Size[2] - 1) * Size[1]
    BY Sizes DEF check, Unit
<1>2. CASE \E l \in 1 .. 4 : g <= check(l)
    <2>1. LevelOf(g) = CHOOSE l \in 1 .. 4 : P(l)
        BY <1>2 DEF LevelOf
    <2>2. \E l \in 1 .. 4 : P(l)
        <3>1. CASE g <= check(1)
            <4>1. 1 \in 1 .. 4 /\ P(1)
                BY <3>1
            <4> QED BY <4>1
        <3>2. CASE ~(g <= check(1)) /\ g <= check(2)
            <4>1. 2 \in 1 .. 4 /\ P(2)
                BY <3>2, <1>1, Sizes
            <4> QED BY <4>1
        <3>3. CASE ~(g <= check(1)) /\ ~(g <= check(2)) /\ g <= check(3)
            <4>1. 3 \in 1 .. 4 /\ \A k \in 1 .. 2 : ~(g <= check(k))
                BY <3>3
            <4> QED BY <3>3, <4>1, CheckType
        <3>4. CASE ~(g <= check(1)) /\ ~(g <= check(2)) /\ ~(g <= check(3)) /\ g <= check(4)
            <4>1. 4 \in 1 .. 4 /\ \A k \in 1 .. 3 : ~(g <= check(k))
                BY <3>4
            <4> QED BY <3>4, <4>1, CheckType
        <3> QED BY <1>2, <3>1, <3>2, <3>3, <3>4
    <2>3. LevelOf(g) \in 1 .. 4 /\ P(LevelOf(g))
        <3> HIDE DEF P
        <3> QED BY <2>1, <2>2
    <2>4. LevelOf(g) = 1 => g <= Size[1] - 1
        BY <1>1, <2>3
    <2>5. g <= Size[1] - 1 => LevelOf(g) = 1
        BY <1>1, <2>3, Sizes
    <2> QED BY <1>1, <2>3, <2>4, <2>5
<1>3. CASE ~\E l \in 1 .. 4 : g <= check(l)
    <2>1. LevelOf(g) = 5
        BY <1>3 DEF LevelOf
    <2>2. ~(g <= check(1))
        BY <1>3
    <2> QED BY <1>1, <2>1, <2>2
<1> QED BY <1>2, <1>3

\* A delay the first level covers goes that many buckets from its hand.
LEMMA FirstBucket ==
    ASSUME tick \in Nat, NEW g \in 0 .. Size[1] - 1
    PROVE  BucketOf(g) = <<1, (Index(1, tick) + g) % Size[1]>>
<1>1. LevelOf(g) = 1
    BY LevelFacts, Sizes
<1>2. Index(1, tick) = tick % Size[1] /\ Index(1, tick + g) = (tick + g) % Size[1]
    <2>1. tick + g \in Nat
        BY Sizes
    <2>2. Index(1, tick) = tick % Size[1]
        BY Hands
    <2>3. Index(1, tick + g) = (tick + g) % Size[1]
        BY ONLY <2>1, Hands
    <2> QED BY <2>2, <2>3
<1>3. ((tick % Size[1]) + g) % Size[1] = (tick + g) % Size[1]
    BY ModAdd, Sizes
<1> QED BY <1>1, <1>2, <1>3 DEF BucketOf

\* The other delays do not.
LEMMA OtherBucket ==
    ASSUME NEW g \in Nat, g > Size[1] - 1
    PROVE  BucketOf(g)[1] # 1
<1>1. LevelOf(g) # 1
    BY LevelFacts, Sizes
<1>2. BucketOf(g)[1] = LevelOf(g)
    BY <1>1 DEF BucketOf
<1> QED BY <1>1, <1>2

\* A delay of the second level: how often its hand moves, and where the first
\* hand is then.
LEMMA SecondBucket ==
    ASSUME tick \in Nat, NEW g \in Nat, LevelOf(g) = 2
    PROVE  \E c \in 1 .. Size[2] - 1, r \in 0 .. Size[1] - 1 :
              /\ BucketOf(g) = <<2, (Index(2, tick) + c) % Size[2]>>
              /\ Size[1] * c + r - Index(1, tick) = g
<1> DEFINE u == Index(1, tick)
<1>1. u \in 0 .. Size[1] - 1
    BY Hands
<1>2. g > Size[1] - 1 /\ g <= (Size[2] - 1) * Size[1]
    BY LevelFacts, Sizes
<1> HIDE DEF u
<1> DEFINE c == (u + g) \div Size[1]
<1> DEFINE r == (u + g) % Size[1]
<1>3. c \in Nat /\ r \in 0 .. Size[1] - 1 /\ u + g = Size[1] * c + r
    <2>1. u + g \in Nat /\ Size[1] \in Nat \ {0}
        BY <1>1, Sizes
    <2> QED BY ONLY <2>1, DivMod
<1> HIDE DEF c, r
<1>4. c # 0
    <2> SUFFICES ASSUME c = 0 PROVE FALSE
        OBVIOUS
    <2>1. Size[1] * c = 0
        BY Sizes
    <2> QED BY <1>1, <1>2, <1>3, <2>1, Sizes
<1>5. c < Size[2]
    <2> SUFFICES ASSUME Size[2] <= c PROVE FALSE
        BY <1>3, Sizes
    <2>1. Size[1] * Size[2] <= Size[1] * c
        BY <1>3, Sizes, Times
    <2>2. (Size[2] - 1) * Size[1] = Size[1] * Size[2] - Size[1]
        BY Sizes
    <2> QED BY <1>1, <1>2, <1>3, <2>1, <2>2, Sizes
<1>6. Index(2, tick + g) = (Index(2, tick) + c) % Size[2]
    BY <1>3, HandsAfter DEF u
<1>7. Index(2, tick + g) \in Nat
    BY Hands
<1>8. BucketOf(g) = <<2, (Index(2, tick + g) * Size[1]) \div Size[1]>>
    BY DEF BucketOf, Unit
<1>9. (Index(2, tick + g) * Size[1]) \div Size[1] = Index(2, tick + g)
    BY <1>7, Sizes, DivExact
<1>10. c \in 1 .. Size[2] - 1 /\ Size[1] * c + r - u = g
    BY <1>1, <1>3, <1>4, <1>5, Sizes
<1> QED BY <1>3, <1>6, <1>8, <1>9, <1>10 DEF u

-----------------------------------------------------------------------------
(* The steps *)

\* The invariant holds at the start.
LEMMA InitIInv == Init => IInv
BY Sizes DEF Init, IInv, ThreadInv, TaskInv, OnTimeInv

\* Products of the tick's length.
LEMMA TickTimes ==
    ASSUME NEW n \in Int
    PROVE  /\ tickGap * n \in Int /\ tickGap * (n - 1) = tickGap * n - tickGap
           /\ n >= 0 => tickGap * n >= 0
           /\ n >= 1 => tickGap * n >= tickGap
BY Sizes

\* A task in the second level is at least one tick from where it aims at.
LEMMA DistanceFacts ==
    ASSUME tick \in Nat, NEW c \in 1 .. Size[2] - 1, NEW r \in 0 .. Size[1] - 1
    PROVE  Distance(c, r) \in Nat /\ Distance(c, r) >= 1
<1>1. Index(1, tick) \in 0 .. Size[1] - 1
    BY Hands
<1>2. Size[1] * 1 <= Size[1] * c /\ Size[1] * c \in Nat
    BY Sizes, Times
<1> QED BY <1>1, <1>2, Sizes DEF Distance

\* A task that is set for the first two levels, while the thread sleeps.
LEMMA SetInv ==
    ASSUME IInv, NEW d \in Nat, NEW every \in Nat, every = 0 \/ every > 2 * tickGap,
           SetTask(d, every)
    PROVE  IInv'
<1> DEFINE g == Gaps(d)
<1>0. g \in Nat /\ tickGap * g <= d /\ d < tickGap * g + tickGap /\ tickGap * g \in Int
    BY GapsFacts, TickTimes
<1>1. /\ task = "none" /\ task' = "setting" /\ place' = BucketOf(g) /\ left' = d /\ interval' = every
      /\ loose' = (stage # "sleep" \/ BucketOf(g)[1] > 2)
      /\ UNCHANGED <<tick, ahead, stage, runs, early>>
    BY DEF SetTask, wheelVars
<1> HIDE DEF g
<1>2. ThreadInv'
    BY <1>1 DEF IInv, ThreadInv
<1>3. TaskInv'
    BY <1>1 DEF IInv, TaskInv
<1>4. OnTimeInv'
    <2> SUFFICES ASSUME ~loose' PROVE early' <= 2 * tickGap + MaxLag /\ stage' = "sleep" /\ PlaceInv'
        BY DEF OnTimeInv
    <2>0. stage = "sleep" /\ ~(BucketOf(g)[1] > 2) /\ early = 0 /\ tick \in Nat
        BY <1>1 DEF IInv, TaskInv, ThreadInv
    <2>1. Slack(g)' \in -tickGap .. tickGap + MaxLag
        BY <1>0, <1>1, Sizes DEF Slack, IInv, ThreadInv
    <2>2. CASE g <= Size[1] - 1
        <3>1. g \in 0 .. Size[1] - 1
            BY <1>0, <2>2, Sizes
        <3>2. BucketOf(g) = <<1, (Index(1, tick) + g) % Size[1]>>
            BY <2>0, <3>1, FirstBucket
        <3>3. Slack(g)' \in -tickGap .. 2 * tickGap + MaxLag
            BY <1>0, <1>1, <2>1, Sizes DEF Slack, IInv, ThreadInv
        <3>4. InFirst(g)'
            BY <1>1, <2>0, <3>1, <3>2, <3>3 DEF InFirst
        <3> QED BY <1>1, <2>0, <3>1, <3>4, Sizes DEF PlaceInv
    <2>3. CASE g > Size[1] - 1
        <3>1. LevelOf(g) \in 1 .. 5 /\ LevelOf(g) # 1
            BY <1>0, <2>3, LevelFacts, Sizes
        <3>2. BucketOf(g)[1] = LevelOf(g)
            BY <3>1 DEF BucketOf
        <3>3. LevelOf(g) = 2
            BY <2>0, <3>1, <3>2
        <3>4. PICK c \in 1 .. Size[2] - 1, r \in 0 .. Size[1] - 1 :
                 /\ BucketOf(g) = <<2, (Index(2, tick) + c) % Size[2]>>
                 /\ Size[1] * c + r - Index(1, tick) = g
            BY <1>0, <2>0, <3>3, SecondBucket
        <3>5. Distance(c, r)' = g
            BY <1>1, <3>4 DEF Distance
        <3>6. Slack(Distance(c, r))' \in -tickGap .. tickGap + MaxLag
            BY <2>1, <3>5 DEF Slack
        <3>7. InSecond(c, r)'
            BY <1>1, <2>0, <3>4, <3>6 DEF InSecond
        <3> QED BY <1>1, <2>0, <3>7, Sizes DEF PlaceInv
    <2> QED BY <1>0, <2>2, <2>3, Sizes
<1> QED BY <1>2, <1>3, <1>4 DEF IInv

LEMMA SetStep == ASSUME IInv, SetTimeout \/ SetInterval PROVE IInv'
<1>1. CASE SetTimeout
    BY <1>1, SetInv, WheelAssumption DEF SetTimeout
<1>2. CASE SetInterval
    BY <1>2, SetInv, WheelAssumption DEF SetInterval
<1> QED BY <1>1, <1>2

\* The task arrives in its bucket, or is cancelled there.
LEMMA CallerStep == ASSUME IInv, PushTask \/ ClearTask PROVE IInv'
<1> USE DEF PushTask, ClearTask, wheelVars, historyVars
<1>1. ThreadInv' /\ TaskInv'
    BY DEF IInv, ThreadInv, TaskInv
<1>2. UNCHANGED <<tick, ahead, stage, place, left, early, loose>>
    OBVIOUS
<1>3. PlaceInv => PlaceInv'
    BY <1>2 DEF PlaceInv, InFirst, InSecond, Slack, Distance
<1>4. OnTimeInv'
    BY <1>2, <1>3 DEF IInv, OnTimeInv
<1> QED BY <1>1, <1>4 DEF IInv

\* Time passes: the slack stays, or the task is overdue and has none.
LEMMA PassStep == ASSUME IInv, Pass PROVE IInv'
<1>0. /\ ahead < MaxLag /\ ahead' = ahead + 1
      /\ UNCHANGED <<tick, stage, task, place, interval, runs, early, loose>>
    BY DEF Pass, historyVars
<1>1. (left' = left - 1) \/ (left' = left /\ (left <= 0 \/ task \notin {"setting", "set"}))
    BY Sizes DEF Pass, IInv, TaskInv
<1>2. ThreadInv'
    BY <1>0, Sizes DEF IInv, ThreadInv
<1>3. TaskInv'
    BY <1>0, <1>1 DEF IInv, TaskInv
<1>4. ASSUME NEW n \in Nat, NEW m \in Nat, Slack(n) \in -tickGap .. m + MaxLag, task \in {"setting", "set"}
      PROVE  Slack(n)' \in -tickGap .. m + MaxLag
    <2>1. tickGap * n \in Nat
        BY Sizes
    <2> QED BY <1>0, <1>1, <1>4, <2>1, Sizes DEF Slack, IInv, ThreadInv, TaskInv
<1>5. task \in {"setting", "set"} /\ PlaceInv => PlaceInv'
    <2>1. ASSUME NEW n \in 0 .. Size[1] - 1, InFirst(n), task \in {"setting", "set"} PROVE InFirst(n)'
        <3>1. Slack(n)' \in -tickGap .. 2 * tickGap + MaxLag
            BY <1>4, <2>1, Sizes DEF InFirst
        <3> QED BY <1>0, <2>1, <3>1 DEF InFirst
    <2>2. ASSUME NEW c \in 1 .. Size[2] - 1, NEW r \in 0 .. Size[1] - 1, InSecond(c, r),
                 task \in {"setting", "set"}
          PROVE  InSecond(c, r)'
        <3>1. PICK n \in Nat : n = Distance(c, r)
            BY DistanceFacts DEF IInv, ThreadInv
        <3>2. Slack(n)' \in -tickGap .. tickGap + MaxLag
            BY <1>4, <2>2, <3>1, Sizes DEF InSecond
        <3>3. Distance(c, r)' = n
            BY <1>0, <3>1 DEF Distance
        <3>4. Slack(Distance(c, r))' \in -tickGap .. tickGap + MaxLag
            BY <3>2, <3>3 DEF Slack
        <3> QED BY <1>0, <2>2, <3>4 DEF InSecond
    <2> QED BY <2>1, <2>2 DEF PlaceInv
<1>6. OnTimeInv'
    BY <1>0, <1>5 DEF IInv, OnTimeInv
<1> QED BY <1>2, <1>3, <1>6 DEF IInv

\* Only a task whose bucket the second hand is about to reach goes down, and the
\* hand moves when the first one ends its turn.
LEMMA DescendSecond ==
    ASSUME tick \in Nat, NEW c \in 1 .. Size[2] - 1, NEW x, x = (Index(2, tick) + c) % Size[2]
    PROVE  (x = Index(2, tick + 1) /\ Moves(2)) <=> (c = 1 /\ Index(1, tick) = Size[1] - 1)
<1> DEFINE u == Index(1, tick)
<1> DEFINE v == Index(2, tick)
<1>1. u \in 0 .. Size[1] - 1 /\ v \in 0 .. Size[2] - 1
    BY Hands
<1>2. 1 \in 0 .. Size[2] - 1 /\ c \in 0 .. Size[2] - 1
    BY Sizes
<1>3. /\ (v + 1) % Size[2] = IF v + 1 < Size[2] THEN v + 1 ELSE v + 1 - Size[2]
      /\ (v + c) % Size[2] = IF v + c < Size[2] THEN v + c ELSE v + c - Size[2]
    BY <1>1, <1>2, Sizes, ModShift
<1>4. (v + 1) % Size[2] # v
    BY <1>1, <1>3, Sizes
<1>5. (v + c) % Size[2] = (v + 1) % Size[2] => c = 1
    BY <1>1, <1>3, Sizes
<1>6. CASE u = Size[1] - 1
    <2>1. Index(2, tick + 1) = (v + 1) % Size[2]
        BY <1>6, NextTick
    <2>2. Moves(2)
        BY <2>1 DEF Moves
    <2> QED BY <1>5, <1>6, <2>1, <2>2
<1>7. CASE u < Size[1] - 1
    <2>1. Index(2, tick + 1) = v
        BY <1>7, NextTick
    <2>2. ~Moves(2)
        BY <1>4, <2>1 DEF Moves
    <2> QED BY <1>7, <2>2, <1>1, Sizes
<1> QED BY <1>1, <1>6, <1>7, Sizes

\* A task of the second level goes down to the first, to the bucket that what
\* is left of its delay says, at most one turn ahead.
LEMMA BelowSecond ==
    ASSUME tick \in Nat, left \in Int
    PROVE  \E n \in 0 .. Size[1] - 1 :
              /\ Below(2) = <<1, (Index(1, tick) + n) % Size[1]>>
              /\ \/ n = Gaps(left)
                 \/ n = Size[1] - 1 /\ Gaps(left) > n
<1> DEFINE g == Gaps(left)
<1>1. g \in Nat
    BY GapsFacts
<1>2. check(1) = Size[1] - 1
    BY Sizes DEF check, Unit
<1> DEFINE n == Least(g, check(1))
<1>3. n \in 0 .. Size[1] - 1 /\ (n = g \/ (n = Size[1] - 1 /\ g > n))
    BY <1>1, <1>2, Sizes DEF Least
<1>4. Below(2) = <<1, (Index(1, tick) + Index(1, n)) % Size[1]>>
    BY DEF Below
<1> HIDE DEF n, g
<1>5. n \in Nat
    BY <1>3, Sizes
<1>6. Index(1, n) = n
    <2>1. Index(1, n) = n % Size[1]
        BY <1>5, Hands
    <2>2. n % Size[1] = n
        BY <1>3, Sizes, ModSmall
    <2> QED BY <2>1, <2>2
<1> QED BY <1>3, <1>4, <1>6 DEF g

LEMMA CascadeStep == ASSUME IInv, Cascade PROVE IInv'
<1>0. /\ stage = "sleep" /\ ahead >= 0 /\ stage' = "cascaded"
      /\ loose' = (loose \/ task = "setting")
      /\ UNCHANGED <<tick, ahead, left, interval, runs, early>>
      /\ task' = task \/ task' = "gone"
    BY DEF Cascade
<1>1. ThreadInv'
    BY <1>0 DEF IInv, ThreadInv
<1>2. TaskInv'
    BY <1>0 DEF IInv, TaskInv, Cascade
<1>3. OnTimeInv'
    <2> SUFFICES ASSUME ~loose', task' \in {"setting", "set"} PROVE PlaceInv' /\ task' # "setting"
        BY <1>0 DEF IInv, OnTimeInv
    <2>0. ~loose /\ task = "set" /\ task' = "set" /\ PlaceInv /\ tick \in Nat /\ left \in Int
        BY <1>0 DEF IInv, OnTimeInv, ThreadInv, TaskInv
    <2>1. place' = Descended(place)
        BY <2>0 DEF Cascade
    <2>2. ASSUME NEW n \in 0 .. Size[1] - 1, InFirst(n) PROVE InFirst(n)'
        <3>1. Descended(place) = place
            BY <2>2 DEF InFirst, Descended, Descend
        <3> QED BY <1>0, <2>1, <2>2, <3>1 DEF InFirst, Slack
    <2>3. ASSUME NEW c \in 1 .. Size[2] - 1, NEW r \in 0 .. Size[1] - 1, InSecond(c, r) PROVE PlaceInv'
        <3> DEFINE x == (Index(2, tick) + c) % Size[2]
        <3>0. place = <<2, x>>
            BY <2>3 DEF InSecond
        <3>1. Descended(place) = IF x = Index(2, tick + 1) /\ Moves(2) THEN Below(2) ELSE place
            BY <3>0 DEF Descended, Descend
        <3>2. (x = Index(2, tick + 1) /\ Moves(2)) <=> (c = 1 /\ Index(1, tick) = Size[1] - 1)
            BY <2>0, DescendSecond
        <3> HIDE DEF x
        <3>3. CASE c = 1 /\ Index(1, tick) = Size[1] - 1
            <4>1. PICK n \in 0 .. Size[1] - 1 :
                     /\ Below(2) = <<1, (Index(1, tick) + n) % Size[1]>>
                     /\ \/ n = Gaps(left)
                        \/ n = Size[1] - 1 /\ Gaps(left) > n
                BY <2>0, BelowSecond
            <4>2. Distance(c, r) = r + 1
                BY <3>3, Sizes DEF Distance
            <4>3. left + ahead - tickGap * (r + 1) \in -tickGap .. tickGap + MaxLag
                BY <2>3, <4>2 DEF InSecond, Slack
            <4>4. /\ tickGap * (r + 1) \in Nat /\ tickGap * 1 <= tickGap * (r + 1)
                  /\ tickGap * (r + 1) <= tickGap * Size[1]
                  /\ tickGap * Size[1] \in Nat /\ tickGap * 1 = tickGap
                <5>1. r + 1 \in Nat /\ 1 <= r + 1 /\ r + 1 <= Size[1]
                    BY Sizes
                <5> QED BY <5>1, Sizes, Times
            <4>5. left + ahead >= 0 /\ left + ahead <= tickGap * Size[1] + tickGap + MaxLag
                BY <2>0, <4>3, <4>4, Sizes DEF IInv, ThreadInv
            <4>6. left + ahead - tickGap * n \in -tickGap .. 2 * tickGap + MaxLag
                <5>0. /\ Gaps(left) \in Nat
                      /\ left < 0 => Gaps(left) = 0
                      /\ left >= 0 => tickGap * Gaps(left) <= left /\ left < tickGap * Gaps(left) + tickGap
                    BY <2>0, GapsFacts
                <5>a. ahead \in Int /\ ahead <= MaxLag
                    BY DEF IInv, ThreadInv
                <5>1. CASE n = Gaps(left) /\ left < 0
                    <6>1. tickGap * n = 0
                        BY <5>0, <5>1, Sizes
                    <6> QED BY <1>0, <2>0, <4>5, <5>1, <5>a, <6>1, Sizes
                <5>2. CASE n = Gaps(left) /\ left >= 0
                    <6>1. tickGap * n \in Nat /\ tickGap * n <= left /\ left < tickGap * n + tickGap
                        BY <5>0, <5>2, Sizes
                    <6> QED BY <1>0, <2>0, <5>2, <5>a, <6>1, Sizes
                <5>3. CASE n = Size[1] - 1 /\ Gaps(left) > n
                    <6>1. tickGap * n = tickGap * Size[1] - tickGap
                        BY <5>3, Sizes
                    <6>2. left >= 0
                        BY <2>0, <5>0, <5>3, Sizes
                    <6>3. tickGap * Size[1] <= tickGap * Gaps(left)
                        BY <5>0, <5>3, Sizes, Times
                    <6>4. tickGap * Gaps(left) \in Nat
                        BY <5>0, Sizes
                    <6> QED BY <1>0, <2>0, <4>4, <4>5, <5>0, <5>a, <6>1, <6>2, <6>3, <6>4, Sizes
                <5> QED BY <2>0, <4>1, <5>1, <5>2, <5>3
            <4>7. place' = <<1, (Index(1, tick) + n) % Size[1]>>
                BY <2>1, <3>1, <3>2, <3>3, <4>1
            <4>8. InFirst(n)'
                BY <1>0, <4>6, <4>7 DEF InFirst, Slack
            <4> QED BY <4>8 DEF PlaceInv
        <3>4. CASE ~(c = 1 /\ Index(1, tick) = Size[1] - 1)
            <4>1. c > 1 \/ Index(1, tick) < Size[1] - 1
                <5>1. Index(1, tick) \in 0 .. Size[1] - 1
                    BY <2>0, Hands
                <5> QED BY <3>4, <5>1, Sizes
            <4>2. place' = place
                BY <2>1, <3>1, <3>2, <3>4
            <4>3. InSecond(c, r)'
                BY <1>0, <2>3, <4>1, <4>2 DEF InSecond, Slack, Distance
            <4> QED BY <4>3 DEF PlaceInv
        <3> QED BY <3>3, <3>4
    <2>4. PlaceInv'
        BY <2>0, <2>2, <2>3 DEF PlaceInv
    <2> QED BY <2>0, <2>4
<1> QED BY <1>1, <1>2, <1>3 DEF IInv

\* The first hand is on the task's bucket exactly when it is no bucket away.
LEMMA UnderHand ==
    ASSUME tick \in Nat, NEW n \in 0 .. Size[1] - 1
    PROVE  (Index(1, tick) + n) % Size[1] = Index(1, tick) <=> n = 0
<1>1. Index(1, tick) \in 0 .. Size[1] - 1
    BY Hands
<1>2. (Index(1, tick) + n) % Size[1]
          = IF Index(1, tick) + n < Size[1] THEN Index(1, tick) + n ELSE Index(1, tick) + n - Size[1]
    BY <1>1, Sizes, ModShift
<1> QED BY <1>1, <1>2, Sizes

\* A periodic task goes back at least two ticks ahead, and so to another bucket
\* than the one the thread has locked.
LEMMA NextFacts ==
    ASSUME IInv, NEW g, g = Gaps(NextDelay)
    PROVE  /\ g \in Nat /\ g >= 2
           /\ tickGap * g <= NextDelay /\ NextDelay < tickGap * g + tickGap
           /\ BucketOf(g) # <<1, Index(1, tick)>>
<1>1. NextDelay \in Int /\ NextDelay >= 2 * tickGap /\ NextDelay >= 0
    BY Sizes DEF NextDelay, IInv, TaskInv
<1>2. g \in Nat /\ tickGap * g <= NextDelay /\ NextDelay < tickGap * g + tickGap
    BY <1>1, GapsFacts
<1>3. g >= 2
    <2> SUFFICES ASSUME g <= 1 PROVE FALSE
        BY <1>2
    <2>1. tickGap * g <= tickGap * 1 /\ tickGap * 1 = tickGap /\ tickGap * g \in Nat
        BY <1>2, Sizes, Times
    <2> QED BY <1>1, <1>2, <2>1, Sizes
<1>4. BucketOf(g) # <<1, Index(1, tick)>>
    <2>0. tick \in Nat
        BY DEF IInv, ThreadInv
    <2>1. CASE g <= Size[1] - 1
        <3>1. g \in 0 .. Size[1] - 1 /\ g # 0
            BY <1>2, <1>3, <2>1, Sizes
        <3>2. BucketOf(g) = <<1, (Index(1, tick) + g) % Size[1]>>
            BY <2>0, <3>1, FirstBucket
        <3>3. (Index(1, tick) + g) % Size[1] # Index(1, tick)
            BY <2>0, <3>1, UnderHand
        <3> QED BY <3>2, <3>3
    <2>2. CASE g > Size[1] - 1
        BY <1>2, <2>2, OtherBucket
    <2> QED BY <1>2, <2>1, <2>2, Sizes
<1> QED BY <1>2, <1>3, <1>4

\* A task that runs and is not loose has its last bucket behind it.
LEMMA RunSlack ==
    ASSUME IInv, ~loose, task = "set", place = <<1, Index(1, tick)>>
    PROVE  left + ahead \in -tickGap .. 2 * tickGap + MaxLag
<1>0. tick \in Nat /\ left \in Int /\ ahead \in Int /\ PlaceInv
    BY DEF IInv, ThreadInv, TaskInv, OnTimeInv
<1>1. PICK n \in 0 .. Size[1] - 1 : InFirst(n)
    BY <1>0 DEF PlaceInv, InSecond
<1>2. n = 0
    <2>1. (Index(1, tick) + n) % Size[1] = Index(1, tick)
        BY <1>1 DEF InFirst
    <2> QED BY <1>0, <2>1, UnderHand
<1>3. left + ahead - tickGap * 0 \in -tickGap .. 2 * tickGap + MaxLag
    BY <1>1, <1>2 DEF InFirst, Slack
<1>4. tickGap * 0 = 0
    BY Sizes
<1> QED BY <1>0, <1>3, <1>4, Sizes

\* The periodic task's next bucket.
LEMMA AgainInv ==
    ASSUME IInv, stage = "cascaded", task = "set", place = <<1, Index(1, tick)>>, interval > 0,
           Again, early' = left, runs' \in Nat, UNCHANGED <<tick, ahead, interval>>
    PROVE  IInv'
<1>0. /\ tick \in Nat /\ ahead \in 0 .. MaxLag /\ left \in Int /\ interval \in Nat
      /\ interval > 2 * tickGap
    BY DEF IInv, ThreadInv, TaskInv
<1>1. PICK g : g = Gaps(NextDelay)
    OBVIOUS
<1>2. /\ g \in Nat /\ g >= 2
      /\ tickGap * g <= NextDelay /\ NextDelay < tickGap * g + tickGap
      /\ BucketOf(g) # place
    BY <1>1, NextFacts
<1>3. /\ stage' = "executed" /\ place' = BucketOf(g) /\ left' = left + interval
      /\ loose' = (loose \/ BucketOf(g)[1] # 1) /\ task' = task
    BY <1>1, <1>2 DEF Again
<1>4. ThreadInv' /\ TaskInv'
    BY <1>0, <1>3 DEF IInv, ThreadInv, TaskInv
<1>5. OnTimeInv'
    <2> SUFFICES ASSUME ~loose' PROVE early' <= 2 * tickGap + MaxLag /\ PlaceInv'
        BY <1>3 DEF OnTimeInv
    <2>0. ~loose /\ BucketOf(g)[1] = 1
        BY <1>3
    <2>1. left + ahead \in -tickGap .. 2 * tickGap + MaxLag
        BY <2>0, RunSlack
    <2>2. early' <= 2 * tickGap + MaxLag
        BY <1>0, <2>1, Sizes
    <2>3. g <= Size[1] - 1
        BY <1>2, <2>0, OtherBucket, Sizes
    <2>4. g \in 0 .. Size[1] - 1 /\ g > 0
        BY <1>2, <2>3, Sizes
    <2>5. place' = <<1, (Index(1, tick) + g) % Size[1]>>
        BY <1>0, <1>3, <2>4, FirstBucket
    <2>6. tickGap * g \in Nat /\ tickGap * 2 <= tickGap * g /\ tickGap * 2 = 2 * tickGap
        BY <1>2, Sizes, Times
    <2>7. left' + ahead' - tickGap * g \in -tickGap .. 2 * tickGap + MaxLag
        <3>1. CASE left + interval < 2 * tickGap
            <4>1. NextDelay = 2 * tickGap
                BY <3>1 DEF NextDelay
            <4> QED BY <1>0, <1>2, <1>3, <2>1, <2>6, <3>1, <4>1, Sizes
        <3>2. CASE left + interval >= 2 * tickGap
            <4>1. NextDelay = left + interval
                BY <1>0, <3>2, Sizes DEF NextDelay
            <4> QED BY <1>0, <1>2, <1>3, <2>6, <3>2, <4>1, Sizes
        <3> QED BY <1>0, <3>1, <3>2, Sizes
    <2>8. InFirst(g)'
        BY <2>4, <2>5, <2>7 DEF InFirst, Slack
    <2> QED BY <2>2, <2>4, <2>8 DEF PlaceInv
<1> QED BY <1>4, <1>5 DEF IInv

LEMMA ExecuteStep == ASSUME IInv, Execute PROVE IInv'
<1>0. stage = "cascaded" /\ UNCHANGED <<tick, ahead, interval>>
    BY DEF Execute
<1>a. /\ tick \in Nat /\ ahead \in 0 .. MaxLag /\ left \in Int /\ runs \in Nat /\ early \in Int
      /\ runs + 1 \in Nat
    BY <1>0 DEF IInv, ThreadInv, TaskInv
<1>1. CASE task = "set" /\ place = <<1, Index(1, tick)>> /\ isCancel
    <2>1. task' = "gone" /\ stage' = "executed" /\ UNCHANGED <<left, runs, early, loose>>
        BY <1>1 DEF Execute
    <2> QED BY <1>0, <1>a, <2>1 DEF IInv, ThreadInv, TaskInv, OnTimeInv
<1>2. CASE task = "set" /\ place = <<1, Index(1, tick)>> /\ ~isCancel /\ interval > 0
    <2>1. Again /\ early' = left /\ runs' = Least(runs + 1, MaxRuns)
        BY <1>2 DEF Execute
    <2>2. runs' \in Nat
        BY <1>a, <2>1, Sizes DEF Least
    <2> QED BY <1>0, <1>2, <2>1, <2>2, AgainInv
<1>3. CASE task = "set" /\ place = <<1, Index(1, tick)>> /\ ~isCancel /\ interval = 0
    <2>1. /\ task' = "gone" /\ stage' = "executed" /\ UNCHANGED <<left, loose>>
          /\ early' = left /\ runs' = Least(runs + 1, MaxRuns)
        BY <1>3 DEF Execute, Again
    <2>2. runs' \in Nat
        BY <1>a, <2>1, Sizes DEF Least
    <2>3. ~loose => left <= 2 * tickGap + MaxLag
        <3> SUFFICES ASSUME ~loose PROVE left <= 2 * tickGap + MaxLag
            OBVIOUS
        <3>1. left + ahead \in -tickGap .. 2 * tickGap + MaxLag
            BY <1>3, RunSlack
        <3> QED BY <1>a, <3>1, Sizes
    <2> QED BY <1>0, <1>a, <2>1, <2>2, <2>3 DEF IInv, ThreadInv, TaskInv, OnTimeInv
<1>4. CASE ~(task = "set" /\ place = <<1, Index(1, tick)>>)
    <2>1. stage' = "executed" /\ UNCHANGED <<task, place, left, runs, early, loose>>
        BY <1>4 DEF Execute, historyVars
    <2>2. ASSUME task \in {"setting", "set"}, ~loose PROVE PlaceInv' /\ task # "setting"
        <3>0. PlaceInv /\ task = "set"
            BY <1>0, <2>2 DEF IInv, OnTimeInv
        <3>1. ASSUME NEW n \in 0 .. Size[1] - 1, InFirst(n) PROVE InFirst(n)'
            <4>1. n # 0
                BY <1>4, <1>a, <3>0, <3>1, UnderHand DEF InFirst
            <4>2. n > 0
                BY <4>1
            <4> QED BY <1>0, <2>1, <3>1, <4>2 DEF InFirst, Slack
        <3>2. ASSUME NEW c \in 1 .. Size[2] - 1, NEW r \in 0 .. Size[1] - 1, InSecond(c, r)
              PROVE  InSecond(c, r)'
            BY <1>0, <2>1, <3>2 DEF InSecond, Slack, Distance
        <3> QED BY <3>0, <3>1, <3>2 DEF PlaceInv
    <2> QED BY <1>0, <1>a, <2>1, <2>2 DEF IInv, ThreadInv, TaskInv, OnTimeInv
<1>5. interval = 0 \/ interval > 0
    BY DEF IInv, TaskInv
<1> QED BY <1>1, <1>2, <1>3, <1>4, <1>5

\* The next tick brings every bucket one nearer, and takes the time of one.
LEMMA AdvanceStep == ASSUME IInv, Advance PROVE IInv'
<1>0. /\ stage = "executed" /\ stage' = "sleep" /\ tick' = (tick + 1) % Period /\ ahead' = ahead - tickGap
      /\ UNCHANGED <<task, place, left, interval, runs, early, loose>>
    BY DEF Advance, taskVars, historyVars
<1>1. tick \in Nat /\ tick + 1 \in Nat /\ ahead \in 0 .. MaxLag /\ left \in Int
    BY <1>0 DEF IInv, ThreadInv, TaskInv
<1>2. /\ tick' \in Nat /\ Index(1, tick') = Index(1, tick + 1) /\ Index(2, tick') = Index(2, tick + 1)
    BY <1>0, <1>1, WrapKeepsHands
<1>3. ThreadInv' /\ TaskInv'
    BY <1>0, <1>1, <1>2, Sizes DEF IInv, ThreadInv, TaskInv
<1> DEFINE u == Index(1, tick)
<1> DEFINE v == Index(2, tick)
<1>4. u \in 0 .. Size[1] - 1 /\ v \in 0 .. Size[2] - 1
    BY <1>1, Hands
<1>5. /\ u < Size[1] - 1 => Index(1, tick') = u + 1 /\ Index(2, tick') = v
      /\ u = Size[1] - 1 => Index(1, tick') = 0 /\ Index(2, tick') = (v + 1) % Size[2]
    BY <1>1, <1>2, NextTick
<1>7. ASSUME NEW n \in Int PROVE left' + ahead' - tickGap * (n - 1) = left + ahead - tickGap * n
    BY <1>0, <1>1, TickTimes, Sizes
<1>8. ASSUME NEW n \in 0 .. Size[1] - 1, InFirst(n) PROVE InFirst(n - 1)'
    <2>1. n > 0 /\ n - 1 \in 0 .. Size[1] - 1 /\ n - 1 \in Nat
        BY <1>0, <1>8, Sizes DEF InFirst
    <2>2. (Index(1, tick') + (n - 1)) % Size[1] = (u + n) % Size[1]
        <3>1. Index(1, tick') = (u + 1) % Size[1]
            <4>1. 1 \in 0 .. Size[1] - 1
                BY Sizes
            <4>2. (u + 1) % Size[1] = IF u + 1 < Size[1] THEN u + 1 ELSE u + 1 - Size[1]
                BY <1>4, <4>1, Sizes, ModShift
            <4> QED BY <1>4, <1>5, <4>2, Sizes
        <3>2. u + 1 \in Nat /\ (u + 1) + (n - 1) = u + n
            BY <1>4
        <3>3. (((u + 1) % Size[1]) + (n - 1)) % Size[1] = ((u + 1) + (n - 1)) % Size[1]
            <4>1. Size[1] \in Nat \ {0}
                BY Sizes
            <4> QED BY ONLY <2>1, <3>2, <4>1, ModAdd
        <3> QED BY <3>1, <3>2, <3>3
    <2>3. Slack(n - 1)' \in -tickGap .. 2 * tickGap + MaxLag
        BY <1>7, <1>8 DEF InFirst, Slack
    <2> QED BY <1>0, <1>8, <2>1, <2>2, <2>3 DEF InFirst
<1>9. ASSUME NEW c \in 1 .. Size[2] - 1, NEW r \in 0 .. Size[1] - 1, InSecond(c, r),
             u < Size[1] - 1
      PROVE  InSecond(c, r)'
    <2>1. Distance(c, r)' = Distance(c, r) - 1 /\ Distance(c, r) \in Int
        <3>1. Size[1] * c \in Int
            BY Sizes
        <3> QED BY <1>4, <1>5, <1>9, <3>1, Sizes DEF Distance
    <2>2. Slack(Distance(c, r))' \in -tickGap .. tickGap + MaxLag
        BY <1>7, <1>9, <2>1 DEF InSecond, Slack
    <2> QED BY <1>0, <1>5, <1>9, <2>2 DEF InSecond
<1>10. ASSUME NEW c \in 1 .. Size[2] - 1, NEW r \in 0 .. Size[1] - 1, InSecond(c, r),
              u = Size[1] - 1
       PROVE  c - 1 \in 1 .. Size[2] - 1 /\ InSecond(c - 1, r)'
    <2>0. c > 1 /\ c - 1 \in 1 .. Size[2] - 1 /\ c - 1 \in Nat
        BY <1>0, <1>10, Sizes DEF InSecond
    <2>1. Distance(c - 1, r)' = Distance(c, r) - 1 /\ Distance(c, r) \in Int
        <3>1. Size[1] * c \in Int /\ Size[1] * (c - 1) = Size[1] * c - Size[1]
            BY Sizes
        <3> QED BY <1>4, <1>5, <1>10, <3>1, Sizes DEF Distance
    <2>2. Slack(Distance(c - 1, r))' \in -tickGap .. tickGap + MaxLag
        BY <1>7, <1>10, <2>1 DEF InSecond, Slack
    <2>3. (Index(2, tick') + (c - 1)) % Size[2] = (v + c) % Size[2]
        <3>1. v + 1 \in Nat /\ (v + 1) + (c - 1) = v + c
            BY <1>4
        <3>2. (((v + 1) % Size[2]) + (c - 1)) % Size[2] = ((v + 1) + (c - 1)) % Size[2]
            <4>1. Size[2] \in Nat \ {0}
                BY Sizes
            <4> QED BY ONLY <2>0, <3>1, <4>1, ModAdd
        <3> QED BY <1>5, <1>10, <3>1, <3>2
    <2> QED BY <1>0, <1>10, <2>0, <2>2, <2>3 DEF InSecond
<1>11. PlaceInv => PlaceInv'
    <2>1. ASSUME NEW n \in 0 .. Size[1] - 1, InFirst(n) PROVE PlaceInv'
        <3>1. n - 1 \in 0 .. Size[1] - 1
            BY <1>0, <2>1, Sizes DEF InFirst
        <3> QED BY <1>8, <2>1, <3>1 DEF PlaceInv
    <2>2. ASSUME NEW c \in 1 .. Size[2] - 1, NEW r \in 0 .. Size[1] - 1, InSecond(c, r) PROVE PlaceInv'
        <3>1. u < Size[1] - 1 \/ u = Size[1] - 1
            BY <1>4, Sizes
        <3> QED BY <1>9, <1>10, <2>2, <3>1 DEF PlaceInv
    <2> QED BY <2>1, <2>2 DEF PlaceInv
<1>12. OnTimeInv'
    BY <1>0, <1>11 DEF IInv, OnTimeInv
<1> QED BY <1>3, <1>12 DEF IInv

\* The invariant is inductive.
LEMMA NextIInv == IInv /\ [Next]_vars => IInv'
<1> SUFFICES ASSUME IInv, [Next]_vars PROVE IInv'
    OBVIOUS
<1>1. CASE UNCHANGED vars
    <2>1. UNCHANGED <<tick, ahead, stage, task, place, left, interval, runs, early, loose>>
        BY <1>1 DEF vars, wheelVars, taskVars, historyVars
    <2>2. PlaceInv => PlaceInv'
        BY <2>1 DEF PlaceInv, InFirst, InSecond, Slack, Distance
    <2> QED BY <2>1, <2>2 DEF IInv, ThreadInv, TaskInv, OnTimeInv
<1> QED BY <1>1, SetStep, CallerStep, PassStep, CascadeStep, ExecuteStep, AdvanceStep DEF Next, Thread
-----------------------------------------------------------------------------
(* The theorems *)

\* IInv holds in every reachable state.
LEMMA Invariance == Spec => []IInv
BY InitIInv, NextIInv, PTL DEF Spec

\* Setting a periodic task again, the thread never waits for the mutex of the bucket it
\* is executing, for every size of the wheel and every period setInterval accepts.
THEOREM NeverStuck == Spec => []NoSelfLock
<1>1. IInv => NoSelfLock
    BY DEF IInv, ThreadInv, NoSelfLock
<1> QED BY <1>1, Invariance, PTL

\* A task of the first two levels runs at most two ticks and the thread's delay before
\* its time and at most one tick and that delay after it, for every size of the wheel.
THEOREM RunsOnTime == Spec => []OnTime
<1>1. IInv => OnTime
    <2> SUFFICES ASSUME IInv, ~loose, task = "set" PROVE left >= -(tickGap + MaxLag)
        BY DEF OnTime, IInv, OnTimeInv
    <2>0. tick \in Nat /\ left \in Int /\ ahead \in Int /\ ahead <= MaxLag /\ PlaceInv
        BY DEF IInv, ThreadInv, TaskInv, OnTimeInv
    <2>1. PICK n \in Nat : Slack(n) >= -tickGap
        <3>1. CASE \E n \in 0 .. Size[1] - 1 : InFirst(n)
            BY <3>1, Sizes DEF InFirst
        <3>2. ASSUME NEW c \in 1 .. Size[2] - 1, NEW r \in 0 .. Size[1] - 1, InSecond(c, r)
              PROVE  \E n \in Nat : Slack(n) >= -tickGap
            <4>1. Distance(c, r) \in Nat
                BY <2>0, DistanceFacts
            <4> QED BY <3>2, <4>1, Sizes DEF InSecond
        <3> QED BY <2>0, <3>1, <3>2 DEF PlaceInv
    <2>2. tickGap * n \in Nat
        BY Sizes
    <2> QED BY <2>0, <2>1, <2>2, Sizes DEF Slack
<1> QED BY <1>1, Invariance, PTL
=============================================================================
