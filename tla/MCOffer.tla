------------------------------- MODULE MCOffer -------------------------------
(***************************************************************************)
(* Three requests at a time on the offer of one Advisor.  The day has four *)
(* steps of two units, so that a blocked period may end between two steps. *)
(***************************************************************************)
EXTENDS Offer, TLC
CONSTANTS s1, s2, s3, p1, v1, c1, k1, a1, w1, w2, half

Draft(weekly, specific, blocked) == [weekly |-> weekly, specific |-> specific, blocked |-> blocked]

\* Two schedules that must not be mixed, the windows of one touching, and one that is refused.
MCDrafts ==
  {Draft({<<0, 4>>}, {<<4, 8>>}, {<<6, 7>>}),
   Draft({<<2, 6>>}, {}, {}),
   Draft({<<0, 4>>, <<2, 6>>}, {}, {<<3, 3>>})}

Keep == [language |-> "th", name |-> None, about |-> None, trial |-> None, profile |-> None]

\* Each field alone, set and cleared, in either language, and no text at all.
MCEdits ==
  {[Keep EXCEPT !.name = w1],
   [Keep EXCEPT !.about = w2],
   [Keep EXCEPT !.about = Null],
   [Keep EXCEPT !.language = "en", !.name = w2],
   [Keep EXCEPT !.language = "en", !.about = Null],
   [Keep EXCEPT !.profile = p1, !.trial = half]}

Symmetry == Permutations(Sessions)

----------------------------------------------------------------------------
\* The derivation of slots agrees with its reference on every pair of tidy lists of a
\* day of three steps, every blocked period and one pair, and every duration.
Intervals(ends) == {w \in ends \X ends : w[1] < w[2]}
Windows == {W \in SUBSET Intervals({Step * i : i \in 0..3}) : Tidy(W)}
Blocks == {{}, {AllDay}} \cup {{p} : p \in Intervals(0..6)} \cup {{<<0, 1>>, <<4, 5>>}}

ASSUME SlotsAgree ==
  \A weekly, specific \in Windows, blocked \in Blocks, duration \in 1..5 :
    SlotsFrom(Steady, weekly, specific, blocked, duration)
      = Offered(Steady, weekly, specific, blocked, duration)

----------------------------------------------------------------------------
(* Days on which the clock goes forward or back, by one step or two, in    *)
(* zones ahead of UTC, behind it, and on it.                               *)
Zones ==
  {[before |-> b, after |-> b + shift, change |-> at - b] :
     b \in {-9, 0, 8}, shift \in {-4, -2, 2, 4}, at \in 0..8}

Showing(zone, time) == {i \in Day(zone) : DateParts(zone, i) = time}

\* A time the clock shows is converted to an instant at which it shows it, and
\* only a time it skips is refused: three rounds are enough.
ASSUME ClockAgrees ==
  \A zone \in Zones, time \in 0..Midnight :
    IF Showing(zone, time) = {} THEN ~Resolves(zone, time)
    ELSE Resolves(zone, time) /\ ZonedDateTimeToUtc(zone, time) \in Showing(zone, time)

\* Whatever the clock does that day, a search whose times the clock shows once
\* offers exactly the free time, and every slot is on the day it is booked by.
ASSUME SlotsAgreeOnClockChanges ==
  \A zone \in Zones, weekly \in Windows, blocked \in Blocks, duration \in {2, 3} :
    LET times == Converted(zone, weekly, {}, blocked, duration)
        slots == SlotsFrom(zone, weekly, {}, blocked, duration)
    IN (\A t \in times : Cardinality(Showing(zone, t)) = 1) =>
         /\ slots = Offered(zone, weekly, {}, blocked, duration)
         /\ \A t \in slots : DateInTimeZone(zone, t) = 0

\* A time the clock shows twice is taken as the second one ahead of UTC and the
\* first one behind it: a window that ends then, or a period, is off by the hour.
ASSUME RepeatedHour ==
  LET back(b) == [before |-> b, after |-> b - 2, change |-> 4 - b]
  IN /\ SlotsFrom(back(8), {<<0, 2>>}, {}, {}, 2) \ Offered(back(8), {<<0, 2>>}, {}, {}, 2) # {}
     /\ SlotsFrom(back(-9), {<<0, 6>>}, {}, {<<0, 3>>}, 1) \ Offered(back(-9), {<<0, 6>>}, {}, {<<0, 3>>}, 1) # {}
=============================================================================
