-------------------------------- MODULE Slots --------------------------------
(***************************************************************************)
(* The slots one day's schedule offers, before appointments and limits     *)
(* (modules/availability/availability.service.ts).  A window or a blocked  *)
(* period is <<start, end>>, end excluded, in units of the Advisor's day;  *)
(* slots start every Step units.  A zone is its offset from UTC before and *)
(* after the instant it changes, in the same units.                        *)
(***************************************************************************)
EXTENDS Integers, FiniteSets, SequencesExt

CONSTANTS
  Step,     \* slotIntervalMinutes, which the table fixes at 30
  Midnight, \* units of a day (bound)
  AllDay    \* a blocked period with no times

ASSUME SlotsAssumption ==
  /\ Step \in Nat \ {0} /\ Midnight \in Nat /\ Midnight % Step = 0
  /\ AllDay \notin Int \X Int

Overlaps(a, b) == a[1] < b[2] /\ a[2] > b[1]

\* What assertWindows asks of the windows of one day or date.
Tidy(windows) ==
  /\ \A w \in windows : w[1] % Step = 0 /\ w[2] % Step = 0 /\ w[1] < w[2]
  /\ \A v, w \in windows : v = w \/ ~Overlaps(v, w)

AssertWindows(draft) ==
  /\ Tidy(draft.weekly) /\ Tidy(draft.specific)
  /\ \A p \in draft.blocked : p = AllDay \/ p[1] < p[2]

Absorb(merged, range) ==
  IF merged = <<>> \/ Last(merged)[2] < range[1] THEN Append(merged, range)
  ELSE IF range[2] > Last(merged)[2] THEN [merged EXCEPT ![Len(merged)][2] = range[2]]
  ELSE merged

\* The ranges by where they start; the merged ones are the same however ties fall.
InOrder(ranges) ==
  CHOOSE seq \in SetToSeqs(ranges) :
    \A i, j \in DOMAIN seq : i < j => seq[i][1] <= seq[j][1]

MergeRanges(ranges) == FoldLeft(Absorb, <<>>, InOrder(ranges))

WindowsOn(weekly, specific) == ToSet(MergeRanges(weekly \cup specific))

----------------------------------------------------------------------------
(* The Advisor's clock (availability-time.ts).                             *)

Steady == [before |-> 0, after |-> 0, change |-> 0]

\* What the clock shows at an instant.
DateParts(zone, instant) ==
  instant + (IF instant < zone.change THEN zone.before ELSE zone.after)

DateInTimeZone(zone, instant) == DateParts(zone, instant) \div Midnight

\* Three rounds from the wall-clock time taken as UTC; a guess that is right stays.
ZonedDateTimeToUtc(zone, time) ==
  LET Closer(guess) == guess + (time - DateParts(zone, guess))
  IN Closer(Closer(Closer(time)))

\* The RangeError of a time the clock skips, which is a 400 for the whole search.
Resolves(zone, time) == DateParts(zone, ZonedDateTimeToUtc(zone, time)) = time

Instants(zone, times) ==
  <<ZonedDateTimeToUtc(zone, times[1]), ZonedDateTimeToUtc(zone, times[2])>>

----------------------------------------------------------------------------
(* The slots of one day, as instants.                                      *)

SlotIsFree(zone, slot, blocked) ==
  \A p \in blocked : p # AllDay /\ ~Overlaps(slot, Instants(zone, p))

\* The whole slots of the windows.
Fitting(zone, weekly, specific, duration) ==
  UNION {LET range == Instants(zone, w)
         IN  {t \in range[1]..(range[2] - 1) : (t - range[1]) % Step = 0 /\ t + duration <= range[2]}
         : w \in WindowsOn(weekly, specific)}

\* The times a search converts: midnight on either side, the windows', and, once
\* there is a slot to ask about, the blocked periods'.  (A period that blocks
\* the whole day may spare the ones stored after it.)
Converted(zone, weekly, specific, blocked, duration) ==
  LET open == Fitting(zone, weekly, specific, duration) # {}
      spans == WindowsOn(weekly, specific) \cup (IF open THEN blocked \ {AllDay} ELSE {})
  IN {0, Midnight} \cup {p[1] : p \in spans} \cup {p[2] : p \in spans}

SlotsFrom(zone, weekly, specific, blocked, duration) ==
  {t \in Fitting(zone, weekly, specific, duration) : SlotIsFree(zone, <<t, t + duration>>, blocked)}

----------------------------------------------------------------------------
(* The reference: unit by unit, a slot is whole time that is open and not  *)
(* blocked by the clock on the wall.                                       *)

Within(u, period) == period = AllDay \/ (period[1] <= u /\ u < period[2])

Day(zone) ==
  LET offsets == {zone.before, zone.after} IN (0 - Max(offsets))..(Midnight - Min(offsets))

Offered(zone, weekly, specific, blocked, duration) ==
  {t \in Day(zone) :
     /\ DateParts(zone, t) % Step = 0
     /\ \A u \in t..(t + duration - 1) :
          /\ \E w \in weekly \cup specific : Within(DateParts(zone, u), w)
          /\ \A p \in blocked : ~Within(DateParts(zone, u), p)}
=============================================================================
