----------------------------- MODULE TimeWindows -----------------------------
(***************************************************************************)
(* time.helper.ts: when an event's time lies inside the hours of a service *)
(* and when it meets a block.  A time of day "HH:mm" is the number of its  *)
(* minute (timeToMinutes); the code's day has 24 * 60 of them.             *)
(***************************************************************************)
EXTENDS Integers

CONSTANT DayLength
ASSUME DayLengthAssumption == DayLength \in Nat \ {0}

TimesOfDay == 0 .. DayLength - 1

(* The end of a range that starts at from: on the next day if it wraps. *)
EndOf(from, to) == IF to <= from THEN to + DayLength ELSE to

(* Mutant: an event that ends after midnight is taken to end before it. *)
endsSameDay(evStart, evEnd, winStart, winEnd) ==
  LET shift == IF winEnd <= winStart /\ evStart < winStart THEN DayLength ELSE 0
  IN /\ evStart + shift >= winStart
     /\ evEnd + shift <= EndOf(winStart, winEnd)

(* A window that runs past midnight takes an event that starts before the   *)
(* window does as one of the small hours after midnight.                    *)
isRangeWithinWindow(evStart, evEnd, winStart, winEnd) ==
  LET shift == IF winEnd <= winStart /\ evStart < winStart THEN DayLength ELSE 0
  IN /\ evStart + shift >= winStart
     /\ EndOf(evStart, evEnd) + shift <= EndOf(winStart, winEnd)

(* Range b does not wrap (a blocked slot never does). *)
rangesOverlap(aStart, aEnd, bStart, bEnd) ==
  /\ aStart < bEnd
  /\ bStart < EndOf(aStart, aEnd)

-----------------------------------------------------------------------------
(* What they are about: the minutes of the clock a range covers, and those  *)
(* of them that fall on the day the range starts.                           *)
Minutes(from, to) ==
  IF from < to THEN {m \in TimesOfDay : from <= m /\ m < to}
               ELSE {m \in TimesOfDay : from <= m \/ m < to}

FirstDayMinutes(from, to) ==
  {m \in TimesOfDay : from <= m /\ m < EndOf(from, to)}
=============================================================================
