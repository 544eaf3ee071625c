---------------------------- MODULE SizingProofs ----------------------------
(***************************************************************************)
(* CalculateNewSize in int64 arithmetic gives what unbounded arithmetic    *)
(* gives whenever ExpandPVC requests its result, for every capacity,       *)
(* configuration, GiB and width.  The argument: each of the two sums that  *)
(* may wrap, when it does, is negative, so that its result is no size      *)
(* above the capacity and is not requested.                                *)
(***************************************************************************)
EXTENDS Sizing, TLAPS

-----------------------------------------------------------------------------
(***************************************************************************)
(* Division                                                                *)
(***************************************************************************)

LEMMA Division ==
    ASSUME NEW a \in Int, NEW b \in Nat \ {0}
    PROVE  /\ a \div b \in Int /\ a % b \in 0..(b - 1)
           /\ a = b * (a \div b) + (a % b)
OBVIOUS

LEMMA Multiples ==
    ASSUME NEW q \in Int, NEW b \in Nat \ {0}
    PROVE  (q * b) % b = 0
<1> DEFINE d == (q * b) \div b
           r == (q * b) % b
           k == q - d
<1>1. q * b \in Int
    OBVIOUS
<1>2. d \in Int /\ r \in 0..(b - 1) /\ q * b = b * d + r
    BY <1>1, Division
<1> HIDE DEF d, r
<1>3. k \in Int /\ b * k = r
    BY <1>2
<1> HIDE DEF k
<1>4. k >= 1 => b * k >= b
    BY <1>2, <1>3
<1>5. k <= -1 => b * k <= -b
    BY <1>2, <1>3
<1>6. k = 0 => r = 0
    BY <1>2, <1>3
<1>7. r = 0
    BY <1>2, <1>3, <1>4, <1>5, <1>6
<1> QED BY <1>7 DEF r

LEMMA GoDivIsInt ==
    ASSUME NEW a \in Int, NEW b \in Nat \ {0}
    PROVE  GoDiv(a, b) \in Int
<1>1. -a \in Int
    OBVIOUS
<1> QED BY <1>1, Division DEF GoDiv

\* Two multiples are at least a divisor apart.
LEMMA Gap ==
    ASSUME NEW x \in Int, NEW y \in Int, NEW b \in Nat \ {0},
           x % b = 0, y % b = 0, x < y
    PROVE  x + b <= y
<1> DEFINE i == x \div b
           j == y \div b
           k == j - i
<1>1. i \in Int /\ j \in Int /\ x = b * i /\ y = b * j
    <2>1. i \in Int /\ x = b * i + (x % b)
        BY Division
    <2>2. j \in Int /\ y = b * j + (y % b)
        BY Division
    <2> HIDE DEF i, j
    <2> QED BY <2>1, <2>2
<1> HIDE DEF i, j
<1>2. k \in Int /\ b * k = y - x
    BY <1>1
<1> HIDE DEF k
<1>3. k <= 0 => b * k <= 0
    BY <1>2
<1>4. k >= 1 => b * k >= b
    BY <1>2
<1> QED BY <1>2, <1>3, <1>4

-----------------------------------------------------------------------------
(***************************************************************************)
(* The two sums                                                            *)
(***************************************************************************)

\* The sum of two int64 numbers is itself, or wraps to the other sign.
LEMMA Int64Sum ==
    ASSUME NEW x \in Int, MinInt64 <= x, x <= 2 * MaxInt64
    PROVE  /\ Int64(x) \in MinInt64..MaxInt64
           /\ Int64(x) = x \/ (x > MaxInt64 /\ Int64(x) <= x - 2 * MaxInt64 - 2)
BY ConfigAssumption DEF Int64, MinInt64

\* Rounding up, when its result is positive or its sum within the range: the least
\* boundary not below.
LEMMA RoundUp ==
    ASSUME NEW t \in MinInt64..MaxInt64
    PROVE  /\ RoundUpToGiB(t) \in Int /\ RoundUpToGiB(t) <= MaxInt64
           /\ RoundUpToGiB(t) % GiB = 0
           /\ RoundUpToGiB(t) > 0 \/ (t >= 0 /\ t + GiB - 1 <= MaxInt64) =>
                 /\ t <= RoundUpToGiB(t)
                 /\ RoundUpToGiB(t) - GiB < t
<1> DEFINE u == Int64(t + GiB - 1)
           q == GoDiv(u, GiB)
<1>1. GiB \in Nat \ {0} /\ MaxInt64 \in Nat /\ GiB <= MaxInt64
    BY ConfigAssumption, SizingAssumption
<1>2. /\ u \in MinInt64..MaxInt64
      /\ u = t + GiB - 1 \/ (u < 0 /\ t + GiB - 1 > MaxInt64)
    BY <1>1, Int64Sum DEF MinInt64
<1>3. RoundUpToGiB(t) = q * GiB
    BY DEF RoundUpToGiB
<1> HIDE DEF u
<1>4. q \in Int
    BY <1>1, <1>2, GoDivIsInt DEF MinInt64
<1>5. CASE u >= 0
    <2> DEFINE m == u % GiB
    <2>1. q = u \div GiB /\ u \in Int
        BY <1>1, <1>2, <1>5 DEF GoDiv, MinInt64
    <2>2. m \in 0..(GiB - 1) /\ u = GiB * q + m
        BY <1>1, <2>1, Division
    <2> HIDE DEF q, m
    <2>3. q * GiB \in Int /\ q * GiB <= u /\ u < q * GiB + GiB
        BY <1>1, <1>4, <2>2
    <2>4. (q * GiB) % GiB = 0
        BY <1>1, <1>4, Multiples
    <2> HIDE DEF q
    <2> QED BY <1>1, <1>2, <1>3, <1>5, <2>3, <2>4 DEF MinInt64
<1>6. CASE u < 0
    <2> DEFINE d == (-u) \div GiB
               m == (-u) % GiB
    <2>1. q = -d /\ -u \in Int
        BY <1>1, <1>2, <1>6 DEF GoDiv, MinInt64
    <2>2. d \in Int /\ m \in 0..(GiB - 1) /\ -u = GiB * d + m
        BY <1>1, <2>1, Division
    <2> HIDE DEF q, d, m
    <2>3. d >= 0
        <3>1. d <= -1 => GiB * d <= -GiB
            BY <1>1, <2>2
        <3> QED BY <1>1, <1>2, <1>6, <2>2, <3>1 DEF MinInt64
    <2>4. q * GiB \in Int /\ q * GiB <= 0
        BY <1>1, <2>1, <2>2, <2>3
    <2>5. (q * GiB) % GiB = 0
        BY <1>1, <1>4, Multiples
    <2>6. ~(t >= 0 /\ t + GiB - 1 <= MaxInt64)
        BY <1>1, <1>2, <1>6 DEF MinInt64
    <2> QED BY <1>1, <1>3, <2>4, <2>5, <2>6
<1> QED BY <1>2, <1>5, <1>6 DEF MinInt64

\* Both sums, when the result is above the capacity: neither wrapped.
LEMMA NewSize ==
    ASSUME NEW s \in 0..MaxInt64, NEW i \in MinInt64..MaxInt64
    PROVE  LET n == RoundUpToGiB(Int64(s + i))
           IN  /\ n \in Int /\ n <= MaxInt64
               /\ n > s => n % GiB = 0 /\ n - GiB < s + i /\ s + i <= n
<1> DEFINE t == Int64(s + i)
           n == RoundUpToGiB(t)
<1>1. GiB \in Nat \ {0} /\ MaxInt64 \in Nat /\ GiB <= MaxInt64
    BY ConfigAssumption, SizingAssumption
<1>2. /\ t \in MinInt64..MaxInt64
      /\ t = s + i \/ t < 0
    BY <1>1, Int64Sum DEF MinInt64
<1> HIDE DEF t
<1>3. /\ n \in Int /\ n <= MaxInt64 /\ n % GiB = 0
      /\ n > 0 => t <= n /\ n - GiB < t
    BY <1>2, RoundUp
<1> HIDE DEF n
<1>4. n > s => n >= GiB
    <2> DEFINE q == n \div GiB
    <2>1. q \in Int /\ n = GiB * q
        <3>1. q \in Int /\ n = GiB * q + (n % GiB)
            BY <1>1, <1>3, Division
        <3> HIDE DEF q
        <3> QED BY <1>1, <1>3, <3>1
    <2> HIDE DEF q
    <2>2. q <= 0 => GiB * q <= 0
        BY <1>1, <2>1
    <2>3. q >= 1 => GiB * q >= GiB
        BY <1>1, <2>1
    <2> QED BY <1>3, <2>1, <2>2, <2>3
<1>5. n > s => t = s + i
    BY <1>1, <1>2, <1>3, <1>4 DEF MinInt64
<1> QED BY <1>3, <1>5 DEF n, t

\* Both sums, when some boundary holds the step: neither wraps, and no boundary is lower.
LEMMA FitsBelow ==
    ASSUME NEW s \in 0..MaxInt64, NEW i \in 1..MaxInt64, NEW b \in Int,
           b <= MaxInt64, b % GiB = 0, s + i <= b
    PROVE  LET n == RoundUpToGiB(Int64(s + i))
           IN  n \in Int /\ s < n /\ n <= b
<1> DEFINE n == RoundUpToGiB(s + i)
<1>1. GiB \in Nat \ {0} /\ MaxInt64 \in Nat /\ (MaxInt64 + 1) % GiB = 0
    BY ConfigAssumption, SizingAssumption
<1>2. Int64(s + i) = s + i /\ s + i \in MinInt64..MaxInt64 /\ s + i >= 0
    BY <1>1 DEF Int64, MinInt64
<1>3. b + GiB <= MaxInt64 + 1
    <2> DEFINE past == MaxInt64 + 1
    <2>1. past \in Int /\ past % GiB = 0 /\ b < past
        BY <1>1
    <2> HIDE DEF past
    <2>2. b + GiB <= past
        BY <1>1, <2>1, Gap
    <2> QED BY <2>2 DEF past
<1>4. s + i + GiB - 1 <= MaxInt64
    BY <1>1, <1>3
<1>5. n \in Int /\ n % GiB = 0 /\ s + i <= n /\ n - GiB < s + i
    BY <1>2, <1>4, RoundUp
<1> HIDE DEF n
<1>6. b < n => b + GiB <= n
    BY <1>1, <1>5, Gap
<1>7. s < n /\ n <= b
    BY <1>1, <1>5, <1>6
<1> QED BY <1>2, <1>5, <1>7 DEF n

-----------------------------------------------------------------------------
(***************************************************************************)
(* The increase                                                            *)
(***************************************************************************)

\* A percentage of the capacity before it is converted, or the bytes to add.
Raw(c, s) ==
    IF c.set.increase.kind = "percent" THEN GoDiv(s * c.set.increase.amount, 100)
    ELSE c.set.increase.amount

\* What a configuration that can be expanded with holds.
LEMMA Settings ==
    ASSUME NEW c \in Configs, c.set.increase # Invalid, NEW s \in 0..MaxInt64
    PROVE  /\ c.set.minScaleUp \in MinInt64..MaxInt64 /\ c.set.maxSize \in Int
           /\ Raw(c, s) \in Int
           /\ c.set.increase.kind # "percent" => Raw(c, s) \in MinInt64..MaxInt64
<1>1. /\ c.set.increase \in Increase
      /\ c.set.minScaleUp \in MinInt64..MaxInt64 /\ c.set.maxSize \in MinInt64..MaxInt64
      /\ c.set.increase.kind = "absolute" => c.set.increase.amount \in MinInt64..MaxInt64
    BY SizingAssumption DEF Complete
<1>2. c.set.increase.amount \in Int /\ c.set.increase.kind \in {"percent", "absolute"}
    BY <1>1 DEF Increase
<1>3. s \in Int /\ s * c.set.increase.amount \in Int
    BY <1>2, ConfigAssumption
<1>4. GoDiv(s * c.set.increase.amount, 100) \in Int
    BY <1>3, GoDivIsInt
<1> QED BY <1>1, <1>2, <1>4, ConfigAssumption DEF Raw, MinInt64

\* The bytes to add are what was asked for, unless that is above the range.
LEMMA Asked ==
    ASSUME NEW c \in Configs, c.set.increase # Invalid, NEW s \in 0..MaxInt64
    PROVE  /\ AskedFor(c, s) \in Int
           /\ IncreaseBytes(c, s) \in MinInt64..MaxInt64
           /\ AskedFor(c, s) <= MaxInt64 => IncreaseBytes(c, s) = AskedFor(c, s)
<1> DEFINE raw == Raw(c, s)
           least == c.set.minScaleUp
           converted == IF c.set.increase.kind = "percent" THEN FloatToInt64(raw) ELSE raw
<1>1. /\ least \in MinInt64..MaxInt64 /\ raw \in Int
      /\ c.set.increase.kind # "percent" => raw \in MinInt64..MaxInt64
    BY Settings
<1>2. AskedFor(c, s) = IF raw < least THEN least ELSE raw
    BY DEF AskedFor, Raw
<1>3. IncreaseBytes(c, s) = IF converted < least THEN least ELSE converted
    BY DEF IncreaseBytes, Raw
<1> HIDE DEF raw, least
<1>4. /\ converted \in MinInt64..MaxInt64
      /\ \/ converted = raw
         \/ converted = MinInt64 /\ raw < MinInt64
         \/ raw > MaxInt64
    BY <1>1, ConfigAssumption DEF FloatToInt64, MinInt64
<1> HIDE DEF converted
<1> QED BY <1>1, <1>2, <1>3, <1>4, ConfigAssumption DEF MinInt64

-----------------------------------------------------------------------------
(***************************************************************************)
(* The theorems                                                            *)
(***************************************************************************)

\* What ExpandPVC requests: the boundary asked for.
LEMMA Expansion ==
    ASSUME TypeOK, Expand
    PROVE  /\ size' \in size..MaxInt64
           /\ size' # size /\ AskedFor(config, size) <= MaxInt64 =>
                 /\ size' % GiB = 0
                 /\ size' - GiB < size + AskedFor(config, size)
                 /\ size + AskedFor(config, size) <= size'
<1> DEFINE i == IncreaseBytes(config, size)
           n == RoundUpToGiB(Int64(size + i))
<1>1. /\ config \in Configs /\ config.set.increase # Invalid /\ size \in 0..MaxInt64
      /\ size' = n /\ n >= size
    BY DEF TypeOK, Expand, CalculateNewSize
<1>2. i \in MinInt64..MaxInt64
    BY <1>1, Asked
<1>3. /\ n \in Int /\ n <= MaxInt64
      /\ n > size => n % GiB = 0 /\ n - GiB < size + i /\ size + i <= n
    <2> HIDE DEF i
    <2> QED BY <1>1, <1>2, NewSize
<1>4. AskedFor(config, size) <= MaxInt64 => i = AskedFor(config, size)
    BY <1>1, Asked
<1>5. AskedFor(config, size) \in Int
    BY <1>1, Asked
<1> HIDE DEF i, n
<1> QED BY <1>1, <1>3, <1>4, <1>5, ConfigAssumption

\* Every capacity is a number the int64 arithmetic can represent.
THEOREM TypeCorrectness == Spec => []TypeOK
<1>1. Init => TypeOK
    BY SizingAssumption DEF Init, TypeOK
<1>2. TypeOK /\ [Next]_vars => TypeOK'
    <2>1. TypeOK /\ Expand => TypeOK'
        BY Expansion, ConfigAssumption DEF TypeOK, Expand
    <2> QED BY <2>1 DEF Next, Reconfigure, TypeOK, vars
<1> QED BY <1>1, <1>2, PTL DEF Spec

\* Every expansion lands on the least GiB boundary that holds the capacity and the step
\* asked for.
THEOREM BoundaryTheorem == Spec => LandsOnBoundary
<1>1. TypeOK /\ [Next]_vars =>
        [size' # size /\ AskedFor(config, size) <= MaxInt64 =>
          /\ size' % GiB = 0
          /\ size' - GiB < size + AskedFor(config, size)
          /\ size + AskedFor(config, size) <= size']_vars
    BY Expansion DEF Next, Reconfigure, vars
<1> QED BY <1>1, TypeCorrectness, PTL DEF Spec, LandsOnBoundary

\* A step is requested exactly when a boundary within the limits holds it.
THEOREM LimitTheorem == Spec => []LimitIsExact
<1>1. TypeOK => LimitIsExact
    <2> DEFINE asked == AskedFor(config, size)
               n == CalculateNewSize(config, size)
               most == config.set.maxSize
    <2> SUFFICES ASSUME TypeOK, config.set.increase # Invalid, asked \in 1..MaxInt64
                 PROVE  ~ExceedsMaxSize(config, n) /\ n > size
                          <=> \E boundary \in size..MaxInt64 :
                                 /\ boundary % GiB = 0
                                 /\ size + asked <= boundary
                                 /\ most # 0 => boundary <= most
        BY DEF LimitIsExact
    <2>1. config \in Configs /\ size \in 0..MaxInt64 /\ MaxInt64 \in Nat
        BY ConfigAssumption DEF TypeOK
    <2>2. n = RoundUpToGiB(Int64(size + asked))
        BY <2>1, Asked DEF CalculateNewSize
    <2>3. most \in Int
        BY <2>1, Settings
    <2>4. asked \in MinInt64..MaxInt64
        BY <2>1 DEF MinInt64
    <2> HIDE DEF asked, n, most
    <2>5. n \in Int /\ (ExceedsMaxSize(config, n) <=> most # 0 /\ n > most)
        BY <2>1, <2>2, <2>4, NewSize DEF ExceedsMaxSize, most
    <2>6. ASSUME ~ExceedsMaxSize(config, n), n > size
          PROVE  \E boundary \in size..MaxInt64 :
                    /\ boundary % GiB = 0
                    /\ size + asked <= boundary
                    /\ most # 0 => boundary <= most
        <3>1. n <= MaxInt64 /\ n % GiB = 0 /\ size + asked <= n
            BY <2>1, <2>2, <2>4, <2>6, NewSize
        <3>2. n \in size..MaxInt64 /\ (most # 0 => n <= most)
            BY <2>1, <2>3, <2>5, <2>6, <3>1
        <3> QED BY <3>1, <3>2
    <2>7. ASSUME NEW b \in size..MaxInt64, b % GiB = 0, size + asked <= b,
                 most # 0 => b <= most
          PROVE  ~ExceedsMaxSize(config, n) /\ n > size
        <3>1. b \in Int /\ b <= MaxInt64
            BY <2>1, <2>7
        <3>2. size < n /\ n <= b
            BY <2>1, <2>2, <2>7, <3>1, FitsBelow
        <3> QED BY <2>1, <2>3, <2>5, <2>7, <3>1, <3>2
    <2> QED BY <2>6, <2>7
<1> QED BY <1>1, TypeCorrectness, PTL

=============================================================================
