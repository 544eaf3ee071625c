-------------------------------- MODULE Sizing --------------------------------
(***************************************************************************)
(* One volume grown over and over by CalculateNewSize: the sequence of     *)
(* legal expansions a claim sees between changes of its configuration.     *)
(* The storage layer always grants exactly what was requested, and the API *)
(* server refuses a request below the capacity.                            *)
(***************************************************************************)
EXTENDS PVCConfig

CONSTANTS
    Configs,      \* the configurations the claim may get
    InitialSizes  \* the capacities it may start from

\* What the Go types guarantee, and that int64 ends at a GiB boundary, as 2^63 does.
ASSUME SizingAssumption ==
    /\ GiB <= MaxInt64
    /\ (MaxInt64 + 1) % GiB = 0
    /\ InitialSizes \subseteq 0..MaxInt64
    /\ \A c \in Configs :
          /\ Complete(c.set)
          /\ {c.set.minScaleUp, c.set.maxSize} \subseteq MinInt64..MaxInt64
          /\ c.set.increase # Invalid /\ c.set.increase.kind = "absolute" =>
                c.set.increase.amount \in MinInt64..MaxInt64

VARIABLES
    size,    \* status.capacity, in bytes
    config   \* the configuration in force

vars == <<size, config>>

Init ==
    /\ size \in InitialSizes
    /\ config \in Configs

\* ExpandPVC with its two early returns, then the API server's validation.
Expand ==
    LET newSize == CalculateNewSize(config, size)
    IN  /\ newSize # Invalid
        /\ ~ExceedsMaxSize(config, newSize)
        /\ newSize >= size
        /\ size' = newSize
        /\ UNCHANGED config

\* The user or an administrator changes the configuration.
Reconfigure ==
    /\ config' \in Configs
    /\ UNCHANGED size

Next == Expand \/ Reconfigure

Spec == Init /\ [][Next]_vars

-----------------------------------------------------------------------------
\* Every size is a size the int64 arithmetic can represent.
TypeOK ==
    /\ size \in 0..MaxInt64
    /\ config \in Configs

\* The step that was asked for, computed without a machine width: the increase,
\* truncated to bytes, but no less than the minimum.
AskedFor(c, s) ==
    LET increase == IF c.set.increase.kind = "percent"
                    THEN GoDiv(s * c.set.increase.amount, 100)
                    ELSE c.set.increase.amount
    IN  IF increase < c.set.minScaleUp THEN c.set.minScaleUp ELSE increase

\* An expansion lands on the least GiB boundary that holds the capacity plus the
\* step asked for: the clamp to min-scale-up, the rounding and the int64 wrap-around
\* of CalculateNewSize never give less, nor a whole GiB more, over any
\* sequence of expansions.  (A percentage whose step alone is past the int64
\* range is converted as the platform likes, and is left out.)
LandsOnBoundary ==
    [][size' # size /\ AskedFor(config, size) <= MaxInt64 =>
          /\ size' % GiB = 0
          /\ size' - GiB < size + AskedFor(config, size)
          /\ size + AskedFor(config, size) <= size']_vars

\* A step is requested if and only if some boundary within the max-size holds it: the
\* rounding before the limit check, the limit check itself and the wrap-around neither
\* let a size past the limit through nor withhold one that fits, a max-size on a
\* boundary or between two, or below the capacity, included.
LimitIsExact ==
    LET asked   == AskedFor(config, size)
        newSize == CalculateNewSize(config, size)
    IN  config.set.increase # Invalid /\ asked \in 1..MaxInt64 =>
            (~ExceedsMaxSize(config, newSize) /\ newSize > size
                <=> \E boundary \in size..MaxInt64 :
                       /\ boundary % GiB = 0
                       /\ size + asked <= boundary
                       /\ config.set.maxSize # 0 => boundary <= config.set.maxSize)

=============================================================================
