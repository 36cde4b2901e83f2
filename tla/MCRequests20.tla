------------------------------ MODULE MCRequests20 ------------------------------
EXTENDS Requests20

Model == INSTANCE DeviceModel

Profile(purpose, stackLevel) ==
    [id |-> 1, stackLevel |-> stackLevel, purpose |-> purpose, transactionId |-> {}, kind |-> "Absolute",
     recurrencyKind |-> {}, validFrom |-> {}, validTo |-> {},
     schedules |-> <<[id |-> 1, duration |-> {}, minChargingRate |-> {}, startSchedule |-> {},
                      unit |-> "A",
                      periods |-> <<[startPeriod |-> 0, limit |-> 16, numberPhases |-> {3},
                                     phaseToUse |-> {1}]>>]>>]

MCEvse == 1..1
MCEvses == 1..2
MCProfiles ==
    {Profile("TxProfile", 1), [Profile("TxProfile", 1) EXCEPT !.transactionId = {1}],
     Profile("TxDefaultProfile", 1), Profile("TxProfile", 0)}
MCImmediates == {Whole, 1}
MCOnIdles == {Whole, 1}
MCParts == [ConfigurationInventory |-> 1, FullInventory |-> 2, SummaryInventory |-> 1]

\* A station with the registry of the simulator and two EVSEs.  What it reads: what
\* is not write-only and has a default.
Read == [m \in {Model!VariableRegistry[i] : i \in DOMAIN Model!VariableRegistry} |->
           IF m.mutability = "WriteOnly" THEN "" ELSE m.default]
MCEvse2(e) == [id |-> e, availability |-> "Operative",
               connectors |-> <<[id |-> e, type |-> "Unknown", status |-> "Available"]>>]
MCStation ==
    [info |-> [Model |-> "m", VendorName |-> "v", FirmwareVersion |-> "1"],
     keys |-> <<[key |-> "HeartbeatInterval", value |-> "60"], [key |-> "TimeZone", value |-> "UTC"]>>,
     read |-> Read, evses |-> <<MCEvse2(1), MCEvse2(2)>>, connectors |-> <<>>, accepted |-> TRUE]
Report(base) == BuildReportData(MCStation, Model!VariableRegistry, base)

\* The numbers of messages the run uses are those of this station.
ASSUME PartsOfReports ==
    \A base \in ReportBases :
        MCParts[base] = IF Report(base) = <<>> THEN 0 ELSE Len(Chunks(Report(base)))

\* The messages of a report are the report: nothing is lost, repeated or reordered,
\* no message is longer than allowed and only the last one is shorter.
ASSUME ChunksAreTheReport ==
    \A n \in {0, 1, 99, 100, 101, 200, 250} :
        LET report == [i \in 1..n |-> i]
            chunks == Chunks(report)
        IN  /\ Flat(chunks) = report
            /\ \A i \in DOMAIN chunks : Len(chunks[i]) <= MaxItemsPerMessage
            /\ \A i \in 1..(Len(chunks) - 1) : Len(chunks[i]) = MaxItemsPerMessage

\* The checks of a profile: the fields one by one.
Good == Profile("TxProfile", 1)
OnePeriod == Good.schedules[1].periods[1]
With(periods) == [Good EXCEPT !.schedules = <<[Good.schedules[1] EXCEPT !.periods = periods]>>]
Accepts(profile, evse) == ValidateChargingProfile(profile, evse, 2, Now)
ASSUME GoodProfiles ==
    /\ Accepts(Good, 1)
    /\ Accepts(Profile("ChargingStationMaxProfile", 9), 0)
    /\ Accepts([Good EXCEPT !.kind = "Recurring", !.recurrencyKind = {"Daily"}], 2)
    /\ Accepts(With(<<OnePeriod, [OnePeriod EXCEPT !.startPeriod = 60]>>), 1)
ASSUME BadProfiles ==
    \A p \in {Profile("TxProfile", 0), Profile("TxProfile", 10), Profile("ChargingStationMaxProfile", 1),
              [Good EXCEPT !.kind = "Recurring"], [Good EXCEPT !.recurrencyKind = {"Daily"}],
              [Good EXCEPT !.validFrom = {5}, !.validTo = {5}], [Good EXCEPT !.validTo = {Now}],
              With(<<>>), With(<<OnePeriod, OnePeriod>>), With(<<[OnePeriod EXCEPT !.limit = 0]>>),
              With(<<[OnePeriod EXCEPT !.numberPhases = {1}, !.phaseToUse = {2}]>>)} :
        ~Accepts(p, 1)
===============================================================================
