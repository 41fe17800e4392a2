---------------------------- MODULE ClockProofs ----------------------------
(***************************************************************************)
(* Proofs about Clock for every set of dates from 2000 to 2099 that        *)
(* clients may send, and any number of commands.                           *)
(*                                                                         *)
(* The calendar is a fact about the conversions alone (ShiftIsUtc).  The   *)
(* agreement of the clocks is not inductive: AgreeInv adds what timeWord   *)
(* and the strobe hold at each place of the command, where the RTC takes   *)
(* timeWord over only on a rising strobe.                                  *)
(***************************************************************************)
EXTENDS Clock, TLAPS

Times99 == [Fields -> 0 .. 99]

(* The fields, one by one.                                                 *)
LEMMA DateFields ==
  ASSUME NEW t, Date(t)
  PROVE  /\ t \in Times99 /\ t.year \in 0 .. 99 /\ t.mon \in 1 .. 12
         /\ t.mday \in 1 .. MonthDays(t.year, t.mon)
         /\ t.hour \in 0 .. 23 /\ t.min \in 0 .. 59 /\ t.sec \in 0 .. 59
BY DEF Date, Fields, Times99

LEMMA MonthLength ==
  ASSUME NEW y \in 0 .. 99, NEW m \in 1 .. 12
  PROVE  MonthDays(y, m) \in 28 .. 31
BY DEF MonthDays, Leap

(* A date's fields, the day as numbers.                                    *)
LEMMA DateRange ==
  ASSUME NEW t, Date(t)
  PROVE  /\ t \in Times99 /\ t.year \in 0 .. 99 /\ t.mon \in 1 .. 12 /\ t.mday \in 1 .. 31
         /\ t.hour \in 0 .. 23 /\ t.min \in 0 .. 59 /\ t.sec \in 0 .. 59
<1>1. /\ t \in Times99 /\ t.year \in 0 .. 99 /\ t.mon \in 1 .. 12
      /\ t.mday \in 1 .. MonthDays(t.year, t.mon)
      /\ t.hour \in 0 .. 23 /\ t.min \in 0 .. 59 /\ t.sec \in 0 .. 59
  BY DateFields
<1>2. MonthDays(t.year, t.mon) \in 28 .. 31
  BY <1>1, MonthLength
<1>3. t.mday \in 1 .. 31
  BY <1>1, <1>2
<1> QED BY <1>1, <1>3

LEMMA FirstType ==
  ASSUME NEW y \in Int, NEW m \in 1 .. 12
  PROVE  FirstOf(y, m) \in Int
<1>1. DaysBefore[m] \in Int
  BY DEF DaysBefore
<1> QED BY <1>1 DEF FirstOf

(* The first of a month comes after the last day of the month before.      *)
LEMMA MonthAfterMonth ==
  ASSUME NEW y \in 0 .. 99, NEW m \in 2 .. 12
  PROVE  FirstOf(y, m) = FirstOf(y, m - 1) + MonthDays(y, m - 1)
<1>1. m \in {2, 3, 4, 5, 6, 7, 8, 9, 10, 11, 12}
  OBVIOUS
<1>2. (y * 365) + ((y + 3) \div 4) \in Int
  OBVIOUS
<1> QED BY <1>1, <1>2 DEF FirstOf, MonthDays, DaysBefore, Leap

(* The first of a year comes after the 31st of December.                   *)
LEMMA YearAfterYear ==
  ASSUME NEW y \in 0 .. 99
  PROVE  FirstOf(y, 1) = FirstOf(y - 1, 12) + 31
<1>1. ((y + 3) \div 4) - ((y + 2) \div 4) = IF (y - 1) % 4 = 0 THEN 1 ELSE 0
  OBVIOUS
<1>2. (y - 1) + 3 = y + 2
  OBVIOUS
<1> QED BY <1>1, <1>2 DEF FirstOf, DaysBefore, Leap

(* mktime(): the day and the second of the day.                            *)
DayOf(x)   == FirstOf(x.year, x.mon) + (x.mday - 1)
Seconds(x) == (((x.hour * 60) + x.min) * 60) + x.sec

LEMMA MktimeParts ==
  ASSUME NEW x
  PROVE  Mktime(x) = [day |-> DayOf(x) + (Seconds(x) \div 86400), sec |-> Seconds(x) % 86400]
BY DEF Mktime, DayOf, Seconds

LEMMA MinuteSecond ==
  ASSUME NEW m \in 0 .. 59, NEW c \in 0 .. 59
  PROVE  (m * 60) + c \in Nat /\ (m * 60) + c < 86400
<1>1. m * 60 \in Nat /\ m * 60 <= 3540
  OBVIOUS
<1> QED BY <1>1

(* A second past the end of the day belongs to the next.                   *)
LEMMA CarryOver ==
  ASSUME NEW d \in Int, NEW n \in Nat, n < 86400
  PROVE  /\ d + ((n + 86400) \div 86400) = (d + 1) + (n \div 86400)
         /\ (n + 86400) % 86400 = n % 86400
<1>1. (n + 86400) \div 86400 = 1 /\ n \div 86400 = 0
  OBVIOUS
<1>2. (n + 86400) % 86400 = n
  <2>1. \A a \in Nat : a % 86400 = a - (86400 * (a \div 86400))
    OBVIOUS
  <2>2. n + 86400 \in Nat
    OBVIOUS
  <2> QED BY <1>1, <2>1, <2>2
<1>3. n % 86400 = n
  OBVIOUS
<1> QED BY <1>1, <1>2, <1>3

(* set_datetime() sets the UTC of a local time: across midnight, the ends  *)
(* of months, February and years, and at 8 o'clock, where the code takes a *)
(* day off and mktime() puts it back.                                      *)
LEMMA ShiftIsUtc ==
  ASSUME NEW t, Date(t)
  PROVE  Mktime(EightBack(t)) = Mktime(Utc(t))
<1> DEFINE e == EightBack(t)
           u == Utc(t)
           y == Yesterday(t)
<1>1. /\ t \in Times99 /\ t.year \in 0 .. 99 /\ t.mon \in 1 .. 12
      /\ t.mday \in 1 .. 31 /\ t.hour \in 0 .. 23 /\ t.min \in 0 .. 59 /\ t.sec \in 0 .. 59
  BY DateRange
<1>2. CASE t.hour > 8
  BY <1>1, <1>2 DEF EightBack, Utc
<1>3. CASE t.hour <= 8
  <2>1. /\ e.year = t.year /\ e.mon = t.mon /\ e.mday = t.mday - 1
        /\ e.hour = t.hour + 16 /\ e.min = t.min /\ e.sec = t.sec
    BY <1>1, <1>3 DEF EightBack, Times99, Fields
  <2>2. Seconds(e) = (t.hour + 16) * 3600 + (t.min * 60) + t.sec
    BY <1>1, <2>1 DEF Seconds
  <2>3. FirstOf(t.year, t.mon) \in Int
    <3>1. t.year \in Int
      BY <1>1
    <3> QED BY <1>1, <3>1, FirstType
  <2>6. DayOf(e) = FirstOf(t.year, t.mon) + (t.mday - 2)
    BY <1>1, <2>1 DEF DayOf
  <2>4. CASE t.hour = 8
    <3>1. /\ u.year = t.year /\ u.mon = t.mon /\ u.mday = t.mday
          /\ u.hour = 0 /\ u.min = t.min /\ u.sec = t.sec
      BY <1>1, <2>4 DEF Utc, Times99, Fields
    <3>2. Seconds(u) = (t.min * 60) + t.sec
      BY <1>1, <3>1 DEF Seconds
    <3>3. Seconds(e) = ((t.min * 60) + t.sec) + 86400
      BY <1>1, <2>2, <2>4
    <3>4. DayOf(e) \in Int /\ DayOf(u) = DayOf(e) + 1
      BY <1>1, <2>3, <2>6, <3>1 DEF DayOf
    <3>5. (t.min * 60) + t.sec \in Nat /\ (t.min * 60) + t.sec < 86400
      <4> DEFINE m == t.min
                 c == t.sec
      <4>1. m \in 0 .. 59 /\ c \in 0 .. 59
        BY <1>1
      <4> HIDE DEF m, c
      <4>2. (m * 60) + c \in Nat /\ (m * 60) + c < 86400
        BY <4>1, MinuteSecond
      <4> QED BY <4>2 DEF m, c
    <3> HIDE DEF e, u
    <3>6. Mktime(e) = Mktime(u)
      BY <3>2, <3>3, <3>4, <3>5, CarryOver, MktimeParts
    <3> QED BY <3>6 DEF e, u
  <2>5. CASE t.hour < 8
    <3>1. /\ u.year = y.year /\ u.mon = y.mon /\ u.mday = y.mday
          /\ u.hour = t.hour + 16 /\ u.min = t.min /\ u.sec = t.sec
      BY <1>1, <2>5 DEF Utc, Yesterday, Times99, Fields
    <3>2. Seconds(u) = Seconds(e)
      BY <1>1, <2>2, <3>1 DEF Seconds
    <3>3. DayOf(u) = DayOf(e)
      <4>1. CASE t.mday > 1
        BY <1>1, <2>3, <2>6, <3>1, <4>1 DEF Yesterday, Times99, Fields, DayOf
      <4>2. CASE t.mday = 1 /\ t.mon > 1
        <5>1. y.year = t.year /\ y.mon = t.mon - 1 /\ y.mday = MonthDays(t.year, t.mon - 1)
          BY <1>1, <4>2 DEF Yesterday, Times99, Fields
        <5>2. FirstOf(t.year, t.mon) = FirstOf(t.year, t.mon - 1) + MonthDays(t.year, t.mon - 1)
          BY <1>1, <4>2, MonthAfterMonth
        <5>3. FirstOf(t.year, t.mon - 1) \in Int /\ MonthDays(t.year, t.mon - 1) \in Int
          <6>1. t.year \in Int /\ t.mon - 1 \in 1 .. 12
            BY <1>1, <4>2
          <6>2. FirstOf(t.year, t.mon - 1) \in Int
            BY <6>1, FirstType
          <6>3. MonthDays(t.year, t.mon - 1) \in 28 .. 31
            BY <1>1, <6>1, MonthLength
          <6> QED BY <6>2, <6>3
        <5>4. DayOf(u) = FirstOf(t.year, t.mon - 1) + (MonthDays(t.year, t.mon - 1) - 1)
          BY <3>1, <5>1 DEF DayOf
        <5> QED BY <2>6, <4>2, <5>2, <5>3, <5>4
      <4>3. CASE t.mday = 1 /\ t.mon = 1
        <5>1. y.year = t.year - 1 /\ y.mon = 12 /\ y.mday = 31
          BY <1>1, <4>3 DEF Yesterday, Times99, Fields
        <5>2. FirstOf(t.year, 1) = FirstOf(t.year - 1, 12) + 31
          BY <1>1, YearAfterYear
        <5>3. FirstOf(t.year - 1, 12) \in Int
          <6>1. t.year - 1 \in Int /\ 12 \in 1 .. 12
            BY <1>1
          <6> QED BY <6>1, FirstType
        <5>4. DayOf(u) = FirstOf(t.year - 1, 12) + (31 - 1)
          BY <3>1, <5>1 DEF DayOf
        <5> QED BY <2>6, <4>3, <5>2, <5>3, <5>4
      <4> QED BY <1>1, <4>1, <4>2, <4>3
    <3> HIDE DEF e, u
    <3>4. Mktime(e) = Mktime(u)
      BY <3>2, <3>3, MktimeParts
    <3> QED BY <3>4 DEF e, u
  <2> QED BY <1>1, <1>3, <2>4, <2>5
<1> QED BY <1>1, <1>2, <1>3

-----------------------------------------------------------------------------
(* BCD.                                                                    *)

LEMMA DigitsBack ==
  ASSUME NEW b \in 0 .. 99
  PROVE  BcdOf(b) \in Byte /\ ByteOf(BcdOf(b)) = b
<1> DEFINE h == b \div 10
           l == b % 10
<1>1. h \in 0 .. 9 /\ l \in 0 .. 9 /\ b = (h * 10) + l
  OBVIOUS
<1> HIDE DEF h, l
<1>2. ((h * 16) + l) % 256 = (h * 16) + l
  BY <1>1
<1>3. ((h * 16) + l) \div 16 = h /\ ((h * 16) + l) % 16 = l
  BY <1>1
<1>4. BcdOf(b) = (h * 16) + l
  BY <1>2 DEF BcdOf, h, l
<1> QED BY <1>1, <1>3, <1>4 DEF ByteOf, Byte

LEMMA ByteBack == ASSUME NEW b \in Byte PROVE ByteOf(b) \in Byte
<1>1. b \div 16 \in 0 .. 15 /\ b % 16 \in 0 .. 15
  BY DEF Byte
<1> QED BY <1>1 DEF ByteOf, Byte

LEMMA TimeBack ==
  ASSUME NEW t \in Times99
  PROVE  /\ BcdTime(t) \in [Fields -> Byte]
         /\ [f \in Fields |-> ByteOf(BcdTime(t)[f])] = t
<1>1. \A f \in Fields : t[f] \in 0 .. 99
  BY DEF Times99
<1>2. \A f \in Fields : BcdOf(t[f]) \in Byte /\ ByteOf(BcdOf(t[f])) = t[f]
  BY <1>1, DigitsBack
<1> QED BY <1>2 DEF BcdTime, Times99

-----------------------------------------------------------------------------
(* The places of a command that still has to set the RTC.                  *)
Pending == pc \in {"low", "load", "high"} \/ (pc = "reply" /\ cmd = "set")

AgreeInv ==
  /\ pc # "read" /\ cmd # "get" => Date(asked)
  /\ pc = "system" => cmd # "get"
  /\ sets > 0 /\ pc # "system" => system = Mktime(Utc(last))
  /\ Pending \/ pc = "fall" => asked = last /\ cmd # "get"
  /\ pc \in {"load", "high"} => strobe = 0
  /\ pc \in {"high", "fall"} => timeWord = BcdTime(asked)
  /\ pc = "fall" => rtc = BcdTime(last)
  /\ sets > 0 /\ ~cutShort /\ ~Pending /\ pc # "system" => rtc = BcdTime(last)
  /\ pc = "reply" /\ cmd = "get" => got = [f \in Fields |-> ByteOf(rtc[f])]

IInv == TypeOK /\ AgreeInv

LEMMA Conversions ==
  ASSUME NEW t, Date(t)
  PROVE  /\ t \in [Fields -> 0 .. 99] /\ BcdTime(t) \in [Fields -> Byte]
         /\ Mktime(EightBack(t)) = Mktime(Utc(t))
         /\ Mktime(EightBack(t)) \in [day : Int, sec : Nat]
<1>1. t \in [Fields -> 0 .. 99] /\ BcdTime(t) \in [Fields -> Byte]
  BY DateFields, TimeBack DEF Times99
<1> DEFINE e == EightBack(t)
<1>2. /\ t \in Times99 /\ t.year \in 0 .. 99 /\ t.mon \in 1 .. 12 /\ t.mday \in 1 .. 31
      /\ t.hour \in 0 .. 23 /\ t.min \in 0 .. 59 /\ t.sec \in 0 .. 59
  BY DateRange
<1>3. /\ e.year \in Int /\ e.mon \in 1 .. 12 /\ e.mday \in Int
      /\ e.hour \in Int /\ e.min \in Int /\ e.sec \in Int
  BY <1>2 DEF EightBack, Times99, Fields
<1> HIDE DEF e
<1>4. DayOf(e) \in Int /\ Seconds(e) \in Int
  <2>1. FirstOf(e.year, e.mon) \in Int
    BY <1>3, FirstType
  <2>2. DayOf(e) \in Int
    BY <1>3, <2>1 DEF DayOf
  <2>3. Seconds(e) \in Int
    BY <1>3 DEF Seconds
  <2> QED BY <2>2, <2>3
<1>5. Seconds(e) \div 86400 \in Int /\ Seconds(e) % 86400 \in Nat
  BY <1>4
<1>6. Mktime(e) \in [day : Int, sec : Nat]
  BY <1>4, <1>5, MktimeParts
<1> QED BY <1>1, <1>6, ShiftIsUtc DEF e

LEMMA InitHolds == Init => IInv
<1> SUFFICES ASSUME Init PROVE IInv
  OBVIOUS
<1>1. Never \in [Fields -> 0 .. 99] /\ Never \in [Fields -> Byte]
  BY DEF Never, Byte
<1>2. cutShort \in BOOLEAN
  BY Zenon DEF Init
<1>3. TypeOK
  BY <1>1, <1>2, ClockAssumption DEF Init, TypeOK, hardware
<1> QED BY <1>3 DEF Init, IInv, AgreeInv, Pending

(* What cutShort needs, which the other backends do not see as a Boolean.  *)
LEMMA CutShortType == ASSUME TypeOK, [Next]_vars PROVE cutShort' \in BOOLEAN
<1>1. ASSUME NEW t \in Times, Start(t) \/ SetRtc(t) PROVE cutShort' \in BOOLEAN
  BY Zenon, <1>1 DEF Start, SetRtc, TypeOK
<1>2. CASE SetSystem \/ StrobeLow \/ LoadTime \/ GetRtc \/ Reconnect
  BY Zenon, <1>2 DEF SetSystem, StrobeLow, LoadTime, GetRtc, Reconnect, TypeOK
<1>3. CASE StrobeHigh
  BY Zenon, <1>3 DEF StrobeHigh
<1>4. CASE Reply
  BY Zenon, <1>4 DEF Reply, TypeOK
<1>5. CASE UNCHANGED vars
  BY Zenon, <1>5 DEF vars, TypeOK
<1> QED BY Zenon, <1>1, <1>2, <1>3, <1>4, <1>5 DEF Next

LEMMA StepHolds == ASSUME IInv, [Next]_vars PROVE IInv'
<1>0. cutShort' \in BOOLEAN
  BY CutShortType DEF IInv
<1> USE DEF IInv, Goto, hardware
<1>1. ASSUME NEW t \in Times, Start(t) PROVE IInv'
  <2>1. Date(t)
    BY ClockAssumption
  <2>2. TypeOK'
    BY <1>0, <1>1, <2>1, Conversions, ClockAssumption DEF Start, TypeOK
  <2>3. AgreeInv'
    BY <1>1, <2>1 DEF Start, AgreeInv, Pending
  <2> QED BY <2>2, <2>3
<1>2. ASSUME NEW t \in Times, SetRtc(t) PROVE IInv'
  <2>1. Date(t)
    BY ClockAssumption
  <2>2. TypeOK'
    BY <1>0, <1>2, <2>1, Conversions, ClockAssumption DEF SetRtc, TypeOK
  <2>3. AgreeInv'
    BY <1>2, <2>1 DEF SetRtc, AgreeInv, Pending
  <2> QED BY <2>2, <2>3
<1>3. CASE SetSystem
  <2>1. Date(asked) /\ cmd # "get" /\ last' = asked /\ asked' = asked /\ cmd' = cmd
    BY <1>3 DEF SetSystem, AgreeInv
  <2>2. system' = Mktime(Utc(last')) /\ system' \in [day : Int, sec : Nat]
    BY <1>3, <2>1, Conversions DEF SetSystem
  <2>3. TypeOK'
    BY <1>0, <1>3, <2>1, <2>2, Conversions DEF SetSystem, TypeOK
  <2>4. pc' = IF cmd = "set" THEN "reply" ELSE "low"
    BY <1>3 DEF SetSystem
  <2>5. AgreeInv'
    BY <1>3, <2>1, <2>2, <2>4 DEF SetSystem, AgreeInv, Pending
  <2> QED BY <2>3, <2>5
<1>4. CASE StrobeLow
  <2>1. TypeOK'
    BY <1>0, <1>4 DEF StrobeLow, TypeOK
  <2>2. AgreeInv'
    <3>1. CASE Goto("low", "load")
      BY <1>4, <3>1 DEF StrobeLow, AgreeInv, Pending
    <3>2. CASE Goto("fall", IF cmd = "set" THEN "read" ELSE "reply")
      BY <1>4, <3>2 DEF StrobeLow, AgreeInv, Pending, TypeOK
    <3> QED BY <1>4, <3>1, <3>2 DEF StrobeLow
  <2> QED BY <2>1, <2>2
<1>5. CASE LoadTime
  <2>1. Date(asked)
    BY <1>5 DEF LoadTime, AgreeInv, Pending
  <2>2. TypeOK'
    BY <1>0, <1>5, <2>1, Conversions DEF LoadTime, Loaded, TypeOK
  <2>3. AgreeInv'
    BY <1>5 DEF LoadTime, Loaded, AgreeInv, Pending
  <2> QED BY <2>2, <2>3
<1>6. CASE StrobeHigh
  <2>1. TypeOK'
    BY <1>0, <1>6 DEF StrobeHigh, TypeOK
  <2>2. rtc' = BcdTime(last) /\ asked = last /\ cmd # "get"
    BY <1>6 DEF StrobeHigh, AgreeInv, Pending
  <2>3. AgreeInv'
    BY <1>6, <2>2 DEF StrobeHigh, AgreeInv, Pending
  <2> QED BY <2>1, <2>3
<1>7. CASE Reply
  <2>1. TypeOK'
    BY <1>0, <1>7 DEF Reply, TypeOK
  <2>2. AgreeInv'
    <3>1. CASE Goto("reply", IF cmd = "set" THEN "low" ELSE "read") /\ cutShort' = cutShort
      BY <1>7, <3>1 DEF Reply, AgreeInv, Pending
    <3>2. CASE Goto("reply", "killed") /\ cutShort' = (cutShort \/ cmd = "set")
      <4>1. ~cutShort' => ~cutShort /\ cmd # "set"
        BY Zenon, <3>2
      <4>2. pc = "reply" /\ pc' = "killed"
        BY <3>2
      <4> QED BY <1>7, <4>1, <4>2 DEF Reply, AgreeInv, Pending
    <3> QED BY <1>7, <3>1, <3>2 DEF Reply
  <2> QED BY <2>1, <2>2
<1>8. CASE GetRtc
  <2>1. got' \in [Fields -> Byte]
    BY <1>8, ByteBack DEF GetRtc, TypeOK
  <2>2. TypeOK'
    BY <1>0, <1>8, <2>1 DEF GetRtc, TypeOK
  <2>3. AgreeInv'
    BY <1>8 DEF GetRtc, AgreeInv, Pending
  <2> QED BY <2>2, <2>3
<1>9. CASE Reconnect \/ UNCHANGED vars
  <2>1. TypeOK'
    BY <1>0, <1>9 DEF Reconnect, vars, TypeOK
  <2>2. AgreeInv'
    BY <1>9 DEF Reconnect, vars, AgreeInv, Pending
  <2> QED BY <2>1, <2>2
<1> QED BY <1>1, <1>2, <1>3, <1>4, <1>5, <1>6, <1>7, <1>8, <1>9 DEF Next

LEMMA InvHolds == Spec => []IInv
BY InitHolds, StepHolds, PTL DEF Spec

(* Every variable keeps its type; BCD fields fit the bytes they are put in.*)
THEOREM TypeCorrect == Spec => []TypeOK
BY InvHolds, PTL DEF IInv

(* The system clock shows the UTC of the local time that was sent, for     *)
(* every date from 2000 to 2099 (set_datetime, tcp_process.c).             *)
THEOREM SystemTimeIsUtc == Spec => []SystemIsUtc
<1>1. IInv => SystemIsUtc
  BY DEF IInv, AgreeInv, SystemIsUtc
<1> QED BY <1>1, InvHolds, PTL

(* Between commands the RTC shows the local time of the system clock,      *)
(* unless a SET_RTC was cut short.                                         *)
THEOREM BothClocksAgree == Spec => []ClocksAgree
<1>1. IInv => ClocksAgree
  BY DEF IInv, AgreeInv, ClocksAgree, Pending
<1> QED BY <1>1, InvHolds, PTL

(* GET_RTC answers with the last local time that was sent: what was coded  *)
(* as BCD and taken over on the strobe is decoded to the same fields.      *)
THEOREM RtcReadsBack == Spec => []RoundTrip
<1>1. IInv => RoundTrip
  <2> SUFFICES ASSUME IInv, pc = "reply", cmd = "get", sets > 0, ~cutShort PROVE got = last
    BY DEF RoundTrip
  <2>1. rtc = BcdTime(last) /\ got = [f \in Fields |-> ByteOf(rtc[f])]
    BY DEF IInv, AgreeInv, Pending
  <2>2. last \in Times99
    BY DEF IInv, TypeOK, Times99
  <2> QED BY <2>1, <2>2, TimeBack
<1> QED BY <1>1, InvHolds, PTL
=============================================================================
