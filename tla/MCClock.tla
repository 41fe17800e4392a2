------------------------------ MODULE MCClock ------------------------------
(* Model-checking instance of Clock: every year, and the hours around the  *)
(* change of the UTC day on dates around the ends of months and years.     *)
EXTENDS Clock

At(y, m, d, h, mn, s) ==
  [year |-> y, mon |-> m, mday |-> d, hour |-> h, min |-> mn, sec |-> s]

EveryYear == {At(y, 3, 1, 7, 59, 59) : y \in 0 .. 99}

Dates == {<<23, 2, 28>>, <<23, 3, 1>>, <<24, 2, 29>>, <<24, 3, 1>>,
          <<23, 12, 31>>, <<24, 1, 1>>, <<24, 5, 1>>, <<24, 9, 10>>}
Turns == {<<0, 0, 0>>, <<7, 59, 59>>, <<8, 0, 0>>, <<9, 30, 15>>, <<23, 59, 59>>}

SomeTimes == EveryYear \union
  {At(d[1], d[2], d[3], t[1], t[2], t[3]) : d \in Dates, t \in Turns}
=============================================================================
