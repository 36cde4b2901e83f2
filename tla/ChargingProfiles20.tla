-------------------------- MODULE ChargingProfiles20 --------------------------
(***************************************************************************)
(* The checks an OCPP 2.0.1 station makes of the charging profile of a     *)
(* RequestStartTransaction.  An optional field is a set of at most one     *)
(* element; dates are integers.                                            *)
(*                                                                         *)
(*   profile:  id, stackLevel, purpose, kind, transactionId,               *)
(*             recurrencyKind, validFrom, validTo (optional),              *)
(*             schedules (a sequence)                                      *)
(*   schedule: id, duration, minChargingRate, startSchedule (optional),    *)
(*             unit, periods (a sequence)                                  *)
(*   period:   startPeriod, limit, numberPhases, phaseToUse (optional)     *)
(***************************************************************************)
EXTENDS Integers, Sequences

RateUnits == {"A", "W"}

ValidPhases(period) ==
    \A n \in period.numberPhases :
        n \in 1..3 /\ \A p \in period.phaseToUse : p \in 1..n

\* phaseToUse without numberPhases is not looked at.
ValidPeriod(schedule, i) ==
    LET period == schedule.periods[i]
    IN  /\ period.startPeriod >= 0
        /\ i > 1 => period.startPeriod > schedule.periods[i - 1].startPeriod
        /\ period.limit > 0
        /\ \A min \in schedule.minChargingRate : period.limit >= min
        /\ ValidPhases(period)

ValidateChargingSchedule(schedule, profile) ==
    /\ schedule.id > 0
    /\ schedule.periods # <<>>
    /\ schedule.unit \in RateUnits
    /\ \A d \in schedule.duration : d > 0
    /\ \A min \in schedule.minChargingRate : min >= 0
    /\ \A start \in schedule.startSchedule :
         /\ \A from \in profile.validFrom : start >= from
         /\ \A to \in profile.validTo : start < to
    /\ \A i \in DOMAIN schedule.periods : ValidPeriod(schedule, i)

\* A TxProfile is taken with a transactionId and without.
ValidateChargingProfilePurpose(profile, evse) ==
    CASE profile.purpose \in {"ChargingStationExternalConstraints", "ChargingStationMaxProfile"} ->
           evse = 0
      [] profile.purpose = "TxProfile" -> evse # 0
      [] OTHER -> profile.purpose = "TxDefaultProfile"

\* The stack level 0 is refused, as a missing one is.  numberOfEvses is 0 for a
\* station without EVSEs.
ValidateChargingProfile(profile, evse, numberOfEvses, now) ==
    /\ profile.id > 0
    /\ profile.stackLevel \in 1..9
    /\ evse <= numberOfEvses
    /\ profile.schedules # <<>>
    /\ \A from \in profile.validFrom, to \in profile.validTo : from < to
    /\ \A to \in profile.validTo : to > now
    /\ (profile.recurrencyKind # {}) <=> (profile.kind = "Recurring")
    /\ \A i \in DOMAIN profile.schedules : ValidateChargingSchedule(profile.schedules[i], profile)
    /\ ValidateChargingProfilePurpose(profile, evse)
===============================================================================
