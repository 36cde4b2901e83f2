------------------------- MODULE ChargingProfiles16 -------------------------
(***************************************************************************)
(* The charging profiles of an OCPP 1.6 charging station: the list a         *)
(* connector keeps, which profile limits its power, and the composite of one *)
(* schedule.  Operators only: the handlers that use them do not await.       *)
(*                                                                          *)
(* A profile is a record; an optional member is a set with at most one      *)
(* element.  Times are seconds.  A schedule has at least one period, as the  *)
(* JSON schema of the request demands.                                       *)
(***************************************************************************)
EXTENDS Integers, Sequences, FiniteSets, SequencesExt

CONSTANTS
  Day,    \* seconds of a day, and of a week
  Week,
  MaxTime \* the end of time (maxTime of date-fns)

The(option) == CHOOSE x \in option : TRUE

-----------------------------------------------------------------------------
(* The list of a connector *)

\* The checks of handleRequestSetChargingProfile, for a connector that runs the
\* transaction running, if any.
Settable(cp, connector, running) ==
  /\ cp.purpose = "ChargePointMaxProfile" => connector = 0
  /\ cp.purpose = "TxProfile" =>
       connector # 0 /\ running # {} /\ (cp.tx = {} \/ cp.tx = running)

\* setRemoteStartTransactionChargingProfile
SettableAtRemoteStart(cp) == cp.purpose = "TxProfile" /\ cp.tx = {}

SameLevel(p, cp) == p.stackLevel = cp.stackLevel /\ p.purpose = cp.purpose
Replaces(cp, p) == p.id = cp.id \/ SameLevel(p, cp)

\* setChargingProfile: every profile of the list that cp replaces becomes cp.
SetChargingProfile(list, cp) ==
  IF \E i \in DOMAIN list : Replaces(cp, list[i])
  THEN [i \in DOMAIN list |-> IF Replaces(cp, list[i]) THEN cp ELSE list[i]]
  ELSE Append(list, cp)

\* The conditions of clearChargingProfiles on a profile.
Clears(q, p) ==
  \/ q.id = {p.id}
  \/ q.purpose = {} /\ q.stackLevel = {p.stackLevel}
  \/ q.stackLevel = {} /\ q.purpose = {p.purpose}
  \/ q.stackLevel = {p.stackLevel} /\ q.purpose = {p.purpose}

\* clearChargingProfiles: forEach goes on to the next index after a splice.
ClearChargingProfiles(list, q) ==
  FoldLeft(LAMBDA l, i : IF i <= Len(l) /\ Clears(q, l[i]) THEN RemoveAt(l, i) ELSE l,
           list, [i \in 1..Len(list) |-> i])

\* resetConnectorStatus: what is left at the end of transaction running.
KeptAtEnd(list, running) ==
  SelectSeq(list, LAMBDA p : \/ p.purpose # "TxProfile"
                             \/ p.tx # {} /\ running # {} /\ p.tx # running)

\* prepareConnectorStatus: what is left when the file is read.
KeptInFile(list) == SelectSeq(list, LAMBDA p : p.purpose # "TxProfile")

-----------------------------------------------------------------------------
(* Which profile limits the power *)

\* The comparison of getConnectorChargingProfiles.
Before(a, b) ==
  CASE a.purpose = "TxProfile" /\ b.purpose = "TxDefaultProfile" -> TRUE
    [] a.purpose = "TxDefaultProfile" /\ b.purpose = "TxProfile" -> FALSE
    [] OTHER -> a.stackLevel > b.stackLevel

\* A stable sort.
ByPriority(list) ==
  LET first(i, j) == Before(list[i], list[j]) \/ (~Before(list[j], list[i]) /\ i < j)
      order == SetToSortSeq(DOMAIN list, first)
  IN  [i \in DOMAIN list |-> list[order[i]]]

OfPurpose(list, purpose) == SelectSeq(list, LAMBDA p : p.purpose = purpose)

\* getConnectorChargingProfiles, from the lists of the connector and of
\* connector 0, and getChargingStationChargingProfiles.
ConnectorChargingProfiles(own, zero) ==
  ByPriority(own) \o ByPriority(OfPurpose(zero, "TxDefaultProfile"))
ChargingStationChargingProfiles(zero) == ByPriority(OfPurpose(zero, "ChargePointMaxProfile"))

\* prepareRecurringChargingProfile: the start of the interval that now is in,
\* the end of an interval being in it.
Recurrent(start, now, interval) ==
  IF start + interval < now THEN start + ((now - start) \div interval) * interval ELSE start

Interval(p) == IF p.recurrency = {"Daily"} THEN Day ELSE Week

\* The beginning of getChargingProfilesLimit and prepareChargingProfileKind:
\* the schedule that is used, begun being the start of the transaction, if any.
PreparedStart(p, begun, now) ==
  LET start == IF p.start # {} THEN p.start ELSE begun IN
  CASE p.kind = "Relative" -> begun
    [] p.kind = "Recurring" /\ start # {} -> {Recurrent(The(start), now, Interval(p))}
    [] OTHER -> start

PreparedDuration(p, begun) ==
  LET start == IF p.start # {} THEN p.start ELSE begun
      duration == IF p.duration # {} \/ start = {} THEN p.duration ELSE {MaxTime - The(start)}
  IN  IF p.kind = "Recurring" /\ duration # {} /\ The(duration) > Interval(p)
      THEN {Interval(p)}
      ELSE duration

Prepared(p, begun, now) ==
  [p EXCEPT !.start = PreparedStart(p, begun, now), !.duration = PreparedDuration(p, begun)]

\* canProceedRecurringChargingProfile and canProceedChargingProfile
CanProceed(p, now) ==
  /\ p.kind = "Recurring" => p.recurrency # {}
  /\ \A from \in p.from : from <= now
  /\ \A to \in p.to : now <= to
  /\ p.start # {} /\ p.duration # {}

Periods(p) == SortSeq(p.periods, LAMBDA a, b : a.start < b.start)

\* The profile is taken: it is active and its first period starts at once.
Decides(p, now) ==
  /\ CanProceed(p, now)
  /\ The(p.start) <= now /\ now <= The(p.start) + The(p.duration)
  /\ Periods(p)[1].start = 0

\* The loop over the schedule periods: it ends before the first period that is
\* still to come, or at the last one within the duration.
LimitNow(p, now) ==
  LET periods == Periods(p)
      coming(k) == The(p.start) + periods[k].start > now
      last(k) == k = Len(periods) \/ periods[k + 1].start > The(p.duration)
      end == CHOOSE k \in DOMAIN periods :
               /\ coming(k) \/ last(k)
               /\ \A j \in 1..(k - 1) : ~coming(j) /\ ~last(j)
  IN  periods[IF coming(end) /\ end > 1 THEN end - 1 ELSE end].limit

\* getChargingProfilesLimit: the first profile of the list that is taken.
ChargingProfilesLimit(list, begun, now) ==
  LET prepared == [i \in DOMAIN list |-> Prepared(list[i], begun, now)]
      taken == {i \in DOMAIN list : Decides(prepared[i], now)}
  IN  {[profile |-> list[i].id, unit |-> list[i].unit, limit |-> LimitNow(prepared[i], now)] :
         i \in {k \in taken : \A j \in taken : k <= j}}

\* getConnectorChargingProfilesLimit and getChargingStationChargingProfilesLimit:
\* the limit as power, wattsPerAmpere following from voltage and phases.
PowerLimit(limits, wattsPerAmpere, maximumPower) ==
  {LET power == IF l.unit = "W" THEN l.limit ELSE l.limit * wattsPerAmpere
   IN  IF power > maximumPower THEN maximumPower ELSE power : l \in limits}

-----------------------------------------------------------------------------
(* The composite of one schedule *)

\* composeChargingSchedule of the schedule from its start on over [from, to]:
\* nothing if they do not overlap.  A schedule that begins earlier keeps the
\* periods from the last one before the interval on, if another one follows in
\* it, and only the first of them is moved to the new start.
ComposeSchedule(s, from, to) ==
  LET end == s.start + s.duration
      periods == Periods(s)
      within(k) == from <= s.start + periods[k].start /\ s.start + periods[k].start <= to
      kept == SelectSeq([k \in DOMAIN periods |-> k],
                LAMBDA k : within(k) \/ (s.start < from /\ k < Len(periods) /\ within(k + 1)))
      moved(i) == IF i = 1 /\ s.start < from THEN [periods[kept[i]] EXCEPT !.start = 0]
                  ELSE periods[kept[i]]
  IN
  CASE ~(s.start < to /\ from < end) -> {}
    [] s.start < from /\ from < end ->
         {[start |-> from, duration |-> end - from, periods |-> [i \in DOMAIN kept |-> moved(i)]]}
    [] from <= s.start /\ s.start < to /\ end > to ->
         {[start |-> s.start, duration |-> to - s.start, periods |-> [i \in DOMAIN kept |-> moved(i)]]}
    [] OTHER -> {[start |-> s.start, duration |-> s.duration, periods |-> periods]}

\* What a schedule allows at time t: the limit of its latest period.
LimitAt(s, t) ==
  LET begun == {k \in DOMAIN s.periods : s.start + s.periods[k].start <= t}
      latest == {k \in begun : \A j \in begun : s.periods[j].start <= s.periods[k].start}
  IN  IF t < s.start \/ s.start + s.duration < t THEN {} ELSE {s.periods[k].limit : k \in latest}
=============================================================================
