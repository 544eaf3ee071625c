------------------------------- MODULE MCSizing -------------------------------
\* A GiB of 4 bytes and an int64 of 8 bits: sizes cross both the rounding boundary
\* and the wrap-around.
EXTENDS Sizing

Percent(n) == [kind |-> "percent", amount |-> n]
Bytes(n) == [kind |-> "absolute", amount |-> n]

MCConfigs ==
    {[enabled |-> TRUE, last |-> Absent,
      set |-> [threshold |-> 80, inodesThreshold |-> 80, cooldown |-> 0,
               increase |-> i, maxSize |-> m, minScaleUp |-> s]] :
        i \in {Percent(0), Percent(10), Percent(50), Percent(120), Percent(-10), Percent(-200),
               Bytes(1), Bytes(5), Bytes(100), Invalid},
        m \in {0, 16, 30, 120}, s \in {0, 1, 6}}

MCInitialSizes == {0, 3, 4, 10, 16, 77, 124, 127}
MCFloatOverflow == -128
=============================================================================
