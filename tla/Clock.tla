------------------------------- MODULE Clock -------------------------------
(***************************************************************************)
(* The two clocks of the recorder as tcp_process.c sets them.  A client    *)
(* sends local time (UTC+8), two digits a field, with START and SET_RTC:   *)
(* the system clock is set in UTC by set_datetime(), and the RTC of the PL *)
(* in BCD, through BRAM word 0 and a strobe in word 1.  GET_RTC reads the  *)
(* RTC back.  File names carry the RTC's time, file dates the system's, so *)
(* the two must be the same.                                               *)
(*                                                                         *)
(* One connection; a command takes no time.  char is unsigned, as on the   *)
(* ARM processor the program is built for.                                 *)
(***************************************************************************)
EXTENDS Integers

CONSTANTS
  Times,      (* local times that clients send: dates that exist           *)
  MaxSets     (* bound on commands that set the clocks                     *)

Fields == {"year", "mon", "mday", "hour", "min", "sec"}

VARIABLES
  pc,         (* where process_conn_server() is                            *)
  cmd,        (* the command: "start", "set" or "get"                      *)
  asked,      (* the time it carries                                       *)
  last,       (* the time carried by the last command that set the clocks  *)
  system,     (* the system clock: day since 2000-01-01 and second in UTC  *)
  timeWord,   (* bram_vptr[1][0]: BCD fields                               *)
  strobe,     (* bram_vptr[1][1]                                           *)
  startWords, (* bram_vptr[1][12..17]: BCD fields of the last START        *)
  rtc,        (* the RTC of the PL: BCD fields                             *)
  got,        (* the last GET_RTC reply                                    *)
  cutShort,   (* a SET_RTC ended after its system half, none since         *)
  sets        (* counter of the bound                                      *)

hardware == <<timeWord, strobe, startWords, rtc>>
vars == <<pc, cmd, asked, last, system, hardware, got, cutShort, sets>>

Never == [f \in Fields |-> 0]

Goto(from, to) == pc = from /\ pc' = to

-----------------------------------------------------------------------------
(* Conversions.                                                            *)

(* ((b / 10) << 4) | (b % 10), in a byte.                                  *)
BcdWide(b) == ((b \div 10) * 32) + (b % 10)              \* mutant
BcdOf(b)   == ((b \div 10) * 16 + (b % 10)) % 256
BcdTime(t) == [f \in Fields |-> BcdOf(t[f])]

(* ((b & 0xf0) >> 4) * 10 + (b & 0x0f).                                    *)
Undecoded(b) == b                                       \* mutant
ByteOf(b)    == (b \div 16) * 10 + (b % 16)

(* The calendar of 2000 to 2099.                                           *)
Leap(year) == year % 4 = 0
MonthDays(year, mon) == IF mon = 2 THEN IF Leap(year) THEN 29 ELSE 28
                        ELSE IF mon \in {4, 6, 9, 11} THEN 30 ELSE 31

Date(t) ==
  /\ t \in [Fields -> 0 .. 99]
  /\ t.mon \in 1 .. 12 /\ t.mday \in 1 .. MonthDays(t.year, t.mon)
  /\ t.hour \in 0 .. 23 /\ t.min \in 0 .. 59 /\ t.sec \in 0 .. 59

ASSUME ClockAssumption == MaxSets \in Nat /\ \A t \in Times : Date(t)

DaysBefore == <<0, 31, 59, 90, 120, 151, 181, 212, 243, 273, 304, 334>>
FirstOf(year, mon) ==
  (year * 365) + ((year + 3) \div 4) + DaysBefore[mon] + (IF mon > 2 /\ Leap(year) THEN 1 ELSE 0)

(* mktime() with TZ = UTC: fields out of range carry over.                 *)
Mktime(t) ==
  LET seconds == (((t.hour * 60) + t.min) * 60) + t.sec
  IN  [day |-> FirstOf(t.year, t.mon) + t.mday - 1 + (seconds \div 86400),
       sec |-> seconds % 86400]

(* set_datetime(): eight hours back, on the day before up to 8 o'clock.    *)
SameDay(t) == [t EXCEPT !.hour = (@ + 16) % 24]          \* mutant
EightBack(t) == IF t.hour <= 8 THEN [t EXCEPT !.hour = @ + 16, !.mday = @ - 1]
                               ELSE [t EXCEPT !.hour = @ - 8]

-----------------------------------------------------------------------------
Init ==
  /\ pc = "read" /\ cmd = "get" /\ asked = Never /\ last = Never
  /\ system = [day |-> 0, sec |-> 0]
  /\ timeWord = Never /\ strobe = 0 /\ startWords = Never /\ rtc = Never
  /\ got = Never /\ cutShort = FALSE /\ sets = 0

(* START, in state WORK_READY: the words of the recording's start first.   *)
Start(t) ==
  /\ Goto("read", "system")
  /\ sets < MaxSets /\ sets' = sets + 1
  /\ cmd' = "start" /\ asked' = t
  /\ startWords' = BcdTime(t)
  /\ UNCHANGED <<last, system, timeWord, strobe, rtc, got, cutShort>>

SetRtc(t) ==
  /\ Goto("read", "system")
  /\ sets < MaxSets /\ sets' = sets + 1
  /\ cmd' = "set" /\ asked' = t
  /\ UNCHANGED <<last, system, hardware, got, cutShort>>

(* Both set the system clock; SET_RTC answers next, START at its end.      *)
SetSystem ==
  /\ Goto("system", IF cmd = "set" THEN "reply" ELSE "low")
  /\ system' = Mktime(EightBack(asked))
  /\ last' = asked
  /\ UNCHANGED <<cmd, asked, hardware, got, cutShort, sets>>

(* bram_vptr[1][1] = 0.                                                    *)
StrobeLow ==
  /\ \/ Goto("low", "load")
     \/ Goto("fall", IF cmd = "set" THEN "read" ELSE "reply")
  /\ strobe' = 0
  /\ UNCHANGED <<cmd, asked, last, system, timeWord, startWords, rtc, got, cutShort, sets>>

(* time_buffer is copied to bram_vptr[1][0].                               *)
Stale   == timeWord                                     \* mutant
Loaded  == BcdTime(asked)
LoadTime ==
  /\ Goto("load", "high")
  /\ timeWord' = Loaded
  /\ UNCHANGED <<cmd, asked, last, system, strobe, startWords, rtc, got, cutShort, sets>>

(* bram_vptr[1][1] = 1: on the rising strobe the PL takes the time over.   *)
StrobeHigh ==
  /\ Goto("high", "fall")
  /\ strobe' = 1
  /\ rtc' = IF strobe = 0 THEN timeWord ELSE rtc
  /\ cutShort' = FALSE
  /\ UNCHANGED <<cmd, asked, last, system, timeWord, startWords, got, sets>>

(* The reply; a client that has hung up may end the process with SIGPIPE.  *)
Reply ==
  /\ \/ Goto("reply", IF cmd = "set" THEN "low" ELSE "read") /\ cutShort' = cutShort
     \/ Goto("reply", "killed") /\ cutShort' = (cutShort \/ cmd = "set")
  /\ UNCHANGED <<cmd, asked, last, system, hardware, got, sets>>

(* GET_RTC: ubram_read() of the PL's registers, each field decoded.        *)
GetRtc ==
  /\ Goto("read", "reply")
  /\ cmd' = "get"
  /\ got' = [f \in Fields |-> ByteOf(rtc[f])]
  /\ UNCHANGED <<asked, last, system, hardware, cutShort, sets>>

(* Another connection's process takes over.                                *)
Reconnect ==
  /\ Goto("killed", "read")
  /\ UNCHANGED <<cmd, asked, last, system, hardware, got, cutShort, sets>>

Next == \/ \E t \in Times : Start(t) \/ SetRtc(t)
        \/ SetSystem \/ StrobeLow \/ LoadTime \/ StrobeHigh \/ Reply
        \/ GetRtc \/ Reconnect

Spec == Init /\ [][Next]_vars

-----------------------------------------------------------------------------
(* Every variable keeps its type; BCD fields are bytes.                    *)
Byte == 0 .. 255
TypeOK ==
  /\ pc \in {"read", "system", "reply", "low", "load", "high", "fall", "killed"}
  /\ cmd \in {"start", "set", "get"}
  /\ asked \in [Fields -> 0 .. 99] /\ last \in [Fields -> 0 .. 99]
  /\ system \in [day : Int, sec : Nat]
  /\ timeWord \in [Fields -> Byte] /\ strobe \in {0, 1}
  /\ startWords \in [Fields -> Byte] /\ rtc \in [Fields -> Byte]
  /\ got \in [Fields -> Byte] /\ cutShort \in BOOLEAN
  /\ sets \in 0 .. MaxSets

(* The day before a date, by the calendar.                                 *)
Yesterday(t) ==
  IF t.mday > 1 THEN [t EXCEPT !.mday = @ - 1]
  ELSE IF t.mon > 1 THEN [t EXCEPT !.mon = @ - 1, !.mday = MonthDays(t.year, t.mon - 1)]
  ELSE [t EXCEPT !.year = @ - 1, !.mon = 12, !.mday = 31]

(* Local time less eight hours, every field in its range.                  *)
Utc(t) == IF t.hour >= 8 THEN [t EXCEPT !.hour = @ - 8]
          ELSE [Yesterday(t) EXCEPT !.hour = t.hour + 16]

(* The system clock is set to the UTC of the local time that was sent,     *)
(* across midnight, the end of a month, of February and of a year.         *)
SystemIsUtc == sets > 0 /\ pc # "system" => system = Mktime(Utc(last))

(* Between commands the RTC shows the local time the system clock was set  *)
(* to, unless a client had hung up when SET_RTC answered it, which it does *)
(* before it sets the RTC (tcp_process.c:383).                             *)
ClocksAgree == pc = "read" /\ sets > 0 /\ ~cutShort => rtc = BcdTime(last)

(* GET_RTC gives back what the client set, digit by digit.                 *)
RoundTrip ==
  pc = "reply" /\ cmd = "get" /\ sets > 0 /\ ~cutShort => got = last
=============================================================================
