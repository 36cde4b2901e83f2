----------------------------- MODULE DeviceModel -----------------------------
(***************************************************************************)
(* The OCPP 2.0.1 device model of the simulator: the registry of variables *)
(* with their metadata (OCPP20VariableRegistry.ts), its lookups and the    *)
(* validation of a value.  One definition per component of the registry,   *)
(* in the order of the source, which decides who creates a shared          *)
(* configuration key first.  "" (Unset) stands for no default value and no *)
(* instance; maxLength 0 for no limit.                                     *)
(* Descriptions and units are left out.                                    *)
(***************************************************************************)
EXTENDS Integers, Sequences

Unset == ""
RW == "ReadWrite"
RO == "ReadOnly"
WO == "WriteOnly"
NoMin == -2147483647
NoMax == 2147483647
P == "Persistent"
V == "Volatile"

\* The metadata of a variable, its optional fields absent.
Var(name, type, mutability, persistence, default) ==
    [component |-> "", variable |-> name, instance |-> "", dataType |-> type,
     mutability |-> mutability, persistence |-> persistence, default |-> default,
     dynamic |-> FALSE, min |-> NoMin, max |-> NoMax, maxLength |-> 0,
     positive |-> FALSE, allowZero |-> FALSE, isUrl |-> FALSE, enumeration |-> {},
     rebootRequired |-> FALSE, attributes |-> {"Actual"}]

In(component, variables) ==
    [i \in DOMAIN variables |-> [variables[i] EXCEPT !.component = component]]

AlignedMeasurands ==
    {"Current.Export", "Current.Import", "Current.Offered", "Energy.Active.Export.Register",
    "Energy.Active.Import.Register", "Energy.Reactive.Export.Register",
    "Energy.Reactive.Import.Register", "Energy.Active.Export.Interval",
    "Energy.Active.Import.Interval", "Energy.Reactive.Export.Interval",
    "Energy.Reactive.Import.Interval", "Frequency", "Power.Active.Export",
    "Power.Active.Import", "Power.Factor", "Power.Offered", "Power.Reactive.Export",
    "Power.Reactive.Import", "SoC", "Voltage"}

SampledMeasurands ==
    {"Energy.Active.Import.Register", "Energy.Active.Import.Interval",
    "Energy.Active.Export.Register", "Power.Active.Import", "Power.Active.Export",
    "Power.Reactive.Import", "Power.Reactive.Export", "Power.Offered", "Current.Import",
    "Current.Export", "Voltage", "Frequency", "SoC", "Power.Factor"}

StopPoints == {"Authorized", "EVConnected", "PowerPathClosed", "EnergyTransfer",
               "ParkingBayOccupied"}

AlignedDataCtrlr == In("AlignedDataCtrlr", <<
    Var("Available", "boolean", RO, P, "true"),
    Var("Enabled", "boolean", RW, P, "false"),
    [Var("Interval", "integer", RW, P, "900") EXCEPT !.min = 1],
    [Var("Measurands", "MemberList", RW, P, "Energy.Active.Import.Register")
       EXCEPT !.enumeration = AlignedMeasurands],
    Var("SendDuringIdle", "boolean", RW, P, "false"),
    Var("SignReadings", "boolean", RW, P, "false"),
    [Var("TxEndedInterval", "integer", RW, P, "900") EXCEPT !.min = 1],
    [Var("TxEndedMeasurands", "MemberList", RW, P,
         "Energy.Active.Import.Register,Energy.Active.Import.Interval,Voltage")
       EXCEPT !.enumeration = AlignedMeasurands]>>)

AuthCacheCtrlr == In("AuthCacheCtrlr", <<
    Var("Available", "boolean", RO, P, "true"),
    Var("DisablePostAuthorize", "boolean", RW, P, "false"),
    Var("Enabled", "boolean", RW, P, "false"),
    [Var("LifeTime", "integer", RW, P, "86400") EXCEPT !.min = 1],
    [Var("Policy", "OptionList", RW, P, "LRU")
       EXCEPT !.enumeration = {"LRU", "LFU", "FIFO", "Custom"}],
    [Var("Storage", "integer", RO, V, "0") EXCEPT !.min = 0, !.attributes = {"Actual", "MaxSet"}]>>)

AuthCtrlr == In("AuthCtrlr", <<
    [Var("AdditionalInfoItemsPerMessage", "integer", RW, P, "10")
       EXCEPT !.min = 1, !.max = 100, !.positive = TRUE],
    Var("DisableRemoteAuthorization", "boolean", RW, P, "false"),
    Var("Enabled", "boolean", RW, P, "true"),
    [Var("MasterPassGroupId", "string", RW, P, "") EXCEPT !.maxLength = 36],
    Var("OfflineTxForUnknownIdEnabled", "boolean", RW, P, "false"),
    Var("AuthorizeRemoteStart", "boolean", RW, V, "true"),
    Var("LocalAuthorizeOffline", "boolean", RW, P, "true"),
    Var("LocalPreAuthorize", "boolean", RW, P, "false")>>)

CHAdeMOCtrlr == In("CHAdeMOCtrlr", <<
    [Var("AutoManufacturerCode", "integer", RO, V, "0") EXCEPT !.min = 0],
    Var("CHAdeMOProtocolNumber", "integer", RO, P, "66048"),
    Var("DynamicControl", "boolean", RO, V, "false"),
    Var("HighCurrentControl", "boolean", RO, V, "false"),
    Var("HighVoltageControl", "boolean", RO, V, "false"),
    Var("SelftestActive", "boolean", RW, V, "false"),
    Var("VehicleStatus", "boolean", RO, V, "false")>>)

ChargingStationVariables == In("ChargingStation", <<
    Var("AllowNewSessionsPendingFirmwareUpdate", "boolean", RW, P, "false"),
    Var("Available", "boolean", RO, P, "true"),
    [Var("Model", "string", RO, P, "") EXCEPT !.maxLength = 50],
    [Var("SupplyPhases", "integer", RO, P, "3") EXCEPT !.min = 1, !.max = 3],
    [Var("VendorName", "string", RO, P, "") EXCEPT !.maxLength = 50],
    [Var("AvailabilityState", "OptionList", RO, P, "")
       EXCEPT !.enumeration = {"Operative", "Inoperative"}],
    [Var("WebSocketPingInterval", "integer", RW, P, "30")
       EXCEPT !.min = 0, !.max = 3600, !.maxLength = 10, !.allowZero = TRUE],
    [Var("ConnectionUrl", "string", RW, P, "ws:") EXCEPT !.maxLength = 512, !.isUrl = TRUE]>>)

ClockCtrlr == In("ClockCtrlr", <<
    Var("NextTimeOffsetTransitionDateTime", "dateTime", RW, P, ""),
    Var("NtpServerUri", "string", RW, P, ""),
    Var("NtpSource", "OptionList", RW, P, ""),
    Var("TimeAdjustmentReportingThreshold", "integer", RW, P, ""),
    Var("TimeOffset", "string", RW, P, ""),
    Var("TimeZone", "string", RW, P, ""),
    [Var("DateTime", "dateTime", RO, V, "now") EXCEPT !.dynamic = TRUE],
    [Var("TimeSource", "SequenceList", RW, P, "NTP,GPS,RealTimeClock,Heartbeat")
       EXCEPT !.enumeration = {"Heartbeat", "NTP", "GPS", "RealTimeClock", "MobileNetwork",
           "RadioTimeTransmitter"}]>>)

DeviceDataCtrlrPart1 == In("DeviceDataCtrlr", <<
    [Var("BytesPerMessage", "integer", RO, P, "8192")
       EXCEPT !.min = 1, !.max = 65535, !.positive = TRUE],
    [Var("BytesPerMessage", "integer", RO, P, "8192")
       EXCEPT !.instance = "GetReport", !.min = 1, !.max = 65535, !.positive = TRUE],
    [Var("BytesPerMessage", "integer", RO, P, "8192")
       EXCEPT !.instance = "GetVariables", !.min = 1, !.max = 65535, !.positive = TRUE],
    [Var("BytesPerMessage", "integer", RO, P, "8192")
       EXCEPT !.instance = "SetVariables", !.min = 1, !.max = 65535, !.positive = TRUE],
    [Var("ConfigurationValueSize", "integer", RO, P, "2500")
       EXCEPT !.min = 1, !.max = 2500, !.maxLength = 5, !.positive = TRUE],
    [Var("ItemsPerMessage", "integer", RO, P, "32")
       EXCEPT !.instance = "GetReport", !.min = 1, !.max = 256, !.positive = TRUE],
    [Var("ItemsPerMessage", "integer", RO, P, "32")
       EXCEPT !.instance = "GetVariables", !.min = 1, !.max = 256, !.positive = TRUE],
    [Var("ItemsPerMessage", "integer", RO, P, "32")
       EXCEPT !.instance = "SetVariables", !.min = 1, !.max = 256, !.positive = TRUE]>>)

DeviceDataCtrlrPart2 == In("DeviceDataCtrlr", <<
    [Var("ReportingValueSize", "integer", RO, P, "2500")
       EXCEPT !.min = 1, !.max = 2500, !.maxLength = 5, !.positive = TRUE],
    [Var("ValueSize", "integer", RO, P, "2500")
       EXCEPT !.min = 1, !.max = 2500, !.maxLength = 5, !.positive = TRUE]>>)

EVSEVariables == In("EVSE", <<
    Var("AllowReset", "boolean", RO, P, "true"),
    [Var("AvailabilityState", "OptionList", RO, V, "Operative")
       EXCEPT !.enumeration = {"Operative", "Inoperative"}],
    Var("Available", "boolean", RO, P, "true"),
    Var("EvseId", "string", RO, P, "1"),
    Var("ISO15118EvseId", "string", RO, P, "DE*ICE*E*1234567890*1"),
    [Var("Power", "decimal", RO, V, "0") EXCEPT !.attributes = {"Actual", "MaxSet"}],
    [Var("SupplyPhases", "integer", RO, P, "3") EXCEPT !.min = 1, !.max = 3]>>)

ISO15118Ctrlr == In("ISO15118Ctrlr", <<
    Var("CentralContractValidationAllowed", "boolean", RW, P, "false"),
    Var("ContractCertificateInstallationEnabled", "boolean", RW, P, "false"),
    Var("ContractValidationOffline", "boolean", RW, P, "false"),
    [Var("CountryName", "string", RW, P, "DE") EXCEPT !.maxLength = 2],
    [Var("MaxScheduleEntries", "integer", RO, P, "24") EXCEPT !.min = 1],
    [Var("OrganizationName", "string", RW, P, "Example Charging Services Ltd")
       EXCEPT !.maxLength = 64],
    Var("PnCEnabled", "boolean", RW, P, "false"),
    [Var("RequestedEnergyTransferMode", "OptionList", RW, P, "DC_extended")
       EXCEPT !.enumeration = {"AC_single_phase_core", "AC_three_phase_core", "DC_core",
           "DC_extended", "DC_combo_core", "DC_unique"}],
    Var("RequestMeteringReceipt", "boolean", RW, P, "false"),
    Var("SeccId", "string", RW, P, "DE*ICE*E*1234567890"),
    Var("V2GCertificateInstallationEnabled", "boolean", RW, P, "false")>>)

LocalAuthListCtrlr == In("LocalAuthListCtrlr", <<
    Var("Available", "boolean", RO, P, "true"),
    [Var("BytesPerMessage", "integer", RO, P, "8192") EXCEPT !.min = 1],
    Var("DisablePostAuthorize", "boolean", RW, P, "false"),
    Var("Enabled", "boolean", RW, P, "false"),
    [Var("Entries", "integer", RO, V, "0") EXCEPT !.min = 0],
    [Var("ItemsPerMessage", "integer", RO, P, "100") EXCEPT !.min = 1],
    [Var("Storage", "integer", RO, V, "0") EXCEPT !.min = 0, !.attributes = {"Actual", "MaxSet"}]>>)

MonitoringCtrlr == In("MonitoringCtrlr", <<
    [Var("ActiveMonitoringBase", "OptionList", RO, V, "All")
       EXCEPT !.enumeration = {"All", "FactoryDefault", "HardwiredOnly"}],
    [Var("ActiveMonitoringLevel", "integer", RO, V, "9") EXCEPT !.min = 0, !.max = 9],
    Var("Available", "boolean", RO, P, "true"),
    [Var("BytesPerMessage", "integer", RO, P, "8192")
       EXCEPT !.instance = "ClearVariableMonitoring", !.min = 1],
    [Var("BytesPerMessage", "integer", RO, P, "8192")
       EXCEPT !.instance = "SetVariableMonitoring", !.min = 1],
    Var("Enabled", "boolean", RW, P, "true"),
    [Var("ItemsPerMessage", "integer", RO, P, "100")
       EXCEPT !.instance = "ClearVariableMonitoring", !.min = 1],
    [Var("ItemsPerMessage", "integer", RO, P, "100")
       EXCEPT !.instance = "SetVariableMonitoring", !.min = 1],
    [Var("MonitoringBase", "OptionList", RO, V, "All")
       EXCEPT !.enumeration = {"All", "FactoryDefault", "HardwiredOnly"}],
    [Var("MonitoringLevel", "integer", RO, V, "9") EXCEPT !.min = 0, !.max = 9],
    [Var("OfflineQueuingSeverity", "integer", RW, P, "5") EXCEPT !.min = 0, !.max = 9]>>)

OCPPCommCtrlrPart1 == In("OCPPCommCtrlr", <<
    Var("ActiveNetworkProfile", "string", RO, P, ""),
    Var("FieldLength", "integer", RO, P, ""),
    Var("PublicKeyWithSignedMeterValue", "OptionList", RW, P, ""),
    Var("QueueAllMessages", "boolean", RW, P, "false"),
    Var("RetryBackOffRandomRange", "integer", RW, P, ""),
    Var("RetryBackOffRepeatTimes", "integer", RW, P, ""),
    Var("RetryBackOffWaitMinimum", "integer", RW, P, ""),
    [Var("HeartbeatInterval", "integer", RW, P, "60")
       EXCEPT !.min = 1, !.max = 86400, !.maxLength = 10, !.positive = TRUE],
    [Var("WebSocketPingInterval", "integer", RW, P, "30") EXCEPT !.min = 0, !.allowZero = TRUE],
    [Var("FileTransferProtocols", "MemberList", RO, P, "HTTPS,FTPS,SFTP")
       EXCEPT !.enumeration = {"HTTP", "HTTPS", "FTP", "FTPS", "SFTP"}],
    [Var("MessageAttemptInterval", "integer", RW, P, "5")
       EXCEPT !.instance = "TransactionEvent", !.min = 1, !.max = 3600, !.positive =
           TRUE]>>)

OCPPCommCtrlrPart2 == In("OCPPCommCtrlr", <<
    [Var("MessageAttempts", "integer", RW, P, "3")
       EXCEPT !.instance = "TransactionEvent", !.min = 1, !.max = 10, !.positive = TRUE],
    [Var("MessageTimeout", "integer", RW, P, "30")
       EXCEPT !.instance = "Default", !.min = 1, !.max = 3600, !.positive = TRUE],
    [Var("NetworkConfigurationPriority", "string", RW, P, "1,2,3")
       EXCEPT !.enumeration = {"1", "2", "3"}],
    [Var("NetworkProfileConnectionAttempts", "integer", RW, P, "3") EXCEPT !.min = 1, !.max = 100],
    [Var("OfflineThreshold", "integer", RW, P, "300")
       EXCEPT !.min = 1, !.max = 86400, !.positive = TRUE],
    [Var("ResetRetries", "integer", RW, P, "2") EXCEPT !.min = 0, !.max = 10, !.allowZero = TRUE],
    Var("UnlockOnEVSideDisconnect", "boolean", RW, P, "true")>>)

ReservationCtrlr == In("ReservationCtrlr", <<
    Var("Available", "boolean", RO, P, "true"),
    Var("Enabled", "boolean", RW, P, "false"),
    Var("NonEvseSpecific", "boolean", RO, P, "false")>>)

SampledDataCtrlrPart1 == In("SampledDataCtrlr", <<
    Var("Available", "boolean", RO, P, "true"),
    Var("Enabled", "boolean", RW, P, "true"),
    Var("RegisterValuesWithoutPhases", "boolean", RW, P, "false"),
    Var("SignReadings", "boolean", RW, P, "false"),
    [Var("TxEndedInterval", "integer", RW, P, "60") EXCEPT !.min = 1],
    [Var("Current.Import", "decimal", RO, V, "0") EXCEPT !.dynamic = TRUE],
    [Var("Energy.Active.Import.Register", "decimal", RO, V, "0") EXCEPT !.dynamic = TRUE],
    [Var("Power.Active.Import", "decimal", RO, V, "0") EXCEPT !.dynamic = TRUE],
    [Var("Voltage", "decimal", RO, V, "230") EXCEPT !.dynamic = TRUE],
    [Var("TxEndedMeasurands", "MemberList", RW, P,
         "Energy.Active.Import.Register,Energy.Active.Import.Interval,Voltage")
       EXCEPT !.enumeration = SampledMeasurands]>>)

SampledDataCtrlrPart2 == In("SampledDataCtrlr", <<
    [Var("TxStartedMeasurands", "MemberList", RW, P,
         "Energy.Active.Import.Register,Power.Active.Import,Voltage")
       EXCEPT !.enumeration = SampledMeasurands],
    [Var("TxUpdatedInterval", "integer", RW, V, "30")
       EXCEPT !.min = 1, !.max = 3600, !.positive = TRUE],
    [Var("TxUpdatedMeasurands", "MemberList", RW, P,
         "Energy.Active.Import.Register,Current.Import,Voltage")
       EXCEPT !.enumeration = SampledMeasurands]>>)

SecurityCtrlr == In("SecurityCtrlr", <<
    Var("AdditionalRootCertificateCheck", "boolean", RW, P, "false"),
    Var("BasicAuthPassword", "string", WO, P, ""),
    [Var("CertSigningRepeatTimes", "integer", RW, P, "3") EXCEPT !.min = 0],
    [Var("CertSigningWaitMinimum", "integer", RW, P, "60") EXCEPT !.min = 1],
    Var("Identity", "string", RW, P, ""),
    [Var("MaxCertificateChainSize", "integer", RW, P, "") EXCEPT !.min = 1],
    [Var("CertificateEntries", "integer", RO, P, "0") EXCEPT !.min = 0, !.allowZero = TRUE],
    [Var("OrganizationName", "string", RW, P, "ChangeMeOrg")
       EXCEPT !.maxLength = 128, !.rebootRequired = TRUE],
    [Var("SecurityProfile", "integer", RW, P, "1")
       EXCEPT !.min = 1, !.max = 3, !.maxLength = 1, !.positive = TRUE, !.rebootRequired =
           TRUE, !.enumeration = {"1", "2", "3"}],
    [Var("CertificatePrivateKey", "string", WO, P, "") EXCEPT !.maxLength = 2048]>>)

SmartChargingCtrlr == In("SmartChargingCtrlr", <<
    Var("ACPhaseSwitchingSupported", "boolean", RO, P, "false"),
    Var("Available", "boolean", RO, P, "true"),
    Var("Enabled", "boolean", RW, P, "true"),
    [Var("Entries", "integer", RO, V, "0") EXCEPT !.instance = "ChargingProfiles", !.min = 0],
    Var("ExternalControlSignalsEnabled", "boolean", RW, P, "false"),
    [Var("LimitChangeSignificance", "decimal", RW, P, "1.0") EXCEPT !.min = 0, !.max = 100],
    Var("NotifyChargingLimitWithSchedules", "boolean", RW, P, "false"),
    [Var("PeriodsPerSchedule", "integer", RO, P, "24") EXCEPT !.min = 1],
    Var("Phases3to1", "boolean", RO, P, "false"),
    [Var("ProfileStackLevel", "integer", RO, P, "10") EXCEPT !.min = 0],
    [Var("RateUnit", "MemberList", RO, P, "A,W") EXCEPT !.enumeration = {"A", "W"}]>>)

TariffCostCtrlr == In("TariffCostCtrlr", <<
    [Var("Available", "boolean", RO, P, "false") EXCEPT !.instance = "Cost"],
    [Var("Available", "boolean", RO, P, "false") EXCEPT !.instance = "Tariff"],
    [Var("Currency", "string", RW, P, "EUR") EXCEPT !.maxLength = 3],
    [Var("Enabled", "boolean", RW, P, "false") EXCEPT !.instance = "Cost"],
    [Var("Enabled", "boolean", RW, P, "false") EXCEPT !.instance = "Tariff"],
    [Var("TariffFallbackMessage", "string", RW, P, "Standard charging rate applies")
       EXCEPT !.maxLength = 512],
    [Var("TotalCostFallbackMessage", "string", RW, P, "Cost information not available")
       EXCEPT !.maxLength = 512]>>)

TxCtrlr == In("TxCtrlr", <<
    Var("ChargingTime", "decimal", RO, V, ""),
    [Var("MaxEnergyOnInvalidId", "integer", RW, P, "") EXCEPT !.min = 0],
    Var("TxBeforeAcceptedEnabled", "boolean", RW, P, "false"),
    [Var("EVConnectionTimeOut", "integer", RW, P, "180")
       EXCEPT !.min = 1, !.max = 3600, !.maxLength = 10, !.positive = TRUE],
    Var("StopTxOnEVSideDisconnect", "boolean", RW, P, "true"),
    Var("StopTxOnInvalidId", "boolean", RW, P, "true"),
    [Var("TxStartPoint", "MemberList", RW, P, "Authorized,EVConnected")
       EXCEPT !.enumeration = StopPoints \cup {"DataSigned"}],
    [Var("TxStopPoint", "MemberList", RW, P, "EVConnected,PowerPathClosed")
       EXCEPT !.enumeration = StopPoints]>>)

\* VARIABLE_REGISTRY.
VariableRegistry ==
    AlignedDataCtrlr \o AuthCacheCtrlr \o AuthCtrlr \o CHAdeMOCtrlr \o
    ChargingStationVariables \o ClockCtrlr \o DeviceDataCtrlrPart1 \o DeviceDataCtrlrPart2 \o
    EVSEVariables \o ISO15118Ctrlr \o LocalAuthListCtrlr \o MonitoringCtrlr \o
    OCPPCommCtrlrPart1 \o OCPPCommCtrlrPart2 \o ReservationCtrlr \o SampledDataCtrlrPart1 \o
    SampledDataCtrlrPart2 \o SecurityCtrlr \o SmartChargingCtrlr \o TariffCostCtrlr \o TxCtrlr

(***************************************************************************)
(* Lookups.  Names are taken up to case: the exact and the lower-case      *)
(* lookups of the source differ in nothing else.                           *)
(***************************************************************************)
CompositeKey(component, instance, variable) == <<component, instance, variable>>

KeyOf(m) == CompositeKey(m.component, m.instance, m.variable)

\* The entries of registry a component, a variable and an instance name: those
\* of the instance, else those without instance.
GetVariableMetadata(registry, component, variable, instance) ==
    LET Named(i) ==
            {j \in DOMAIN registry : KeyOf(registry[j]) = CompositeKey(component, i, variable)}
    IN  IF Named(instance) # {} THEN Named(instance) ELSE Named(Unset)

ResolveValue(m) == m.default

(***************************************************************************)
(* A raw value is [text, length, form, number, members, isDate, isUrl]:    *)
(* form is "integer", "decimal" or "other", number the value of an integer *)
(* or the tenths of a decimal, members the trimmed members of the text as  *)
(* a comma separated list (a leading, trailing or doubled comma makes an   *)
(* empty one).                                                             *)
(***************************************************************************)
InvalidInteger(m, raw) ==
    LET zeroOrMore == m.allowZero /\ ~m.positive
    IN  IF raw.form # "integer" THEN
            IF raw.form = "decimal" /\ zeroOrMore THEN "ValueZeroNotAllowed" ELSE "InvalidValue"
        ELSE IF zeroOrMore /\ raw.number < 0 THEN "ValueZeroNotAllowed"
        ELSE IF m.positive /\ raw.number <= 0 THEN "ValuePositiveOnly"
        ELSE IF raw.number < m.min THEN "ValueTooLow"
        ELSE IF raw.number > m.max THEN "ValueTooHigh"
        ELSE IF ~m.positive /\ ~m.allowZero /\ raw.number = 0 THEN "ValueZeroNotAllowed"
        ELSE "NoError"

InvalidDecimal(m, raw) ==
    LET tenths == IF raw.form = "integer" THEN 10 * raw.number ELSE raw.number
    IN  IF raw.form = "other" THEN "InvalidValue"
        ELSE IF m.positive /\ tenths <= 0 THEN "ValuePositiveOnly"
        ELSE IF ~m.positive /\ ~m.allowZero /\ tenths = 0 THEN "ValueZeroNotAllowed"
        ELSE IF m.min # NoMin /\ tenths < 10 * m.min THEN "ValueTooLow"
        ELSE IF m.max # NoMax /\ tenths > 10 * m.max THEN "ValueTooHigh" ELSE "NoError"

ValidList(m, raw) ==
    /\ Len(raw.members) > 0
    /\ \A i \in DOMAIN raw.members :
         /\ raw.members[i] # ""
         /\ m.enumeration # {} => raw.members[i] \in m.enumeration
         /\ \A j \in DOMAIN raw.members : raw.members[i] = raw.members[j] => i = j

\* The reason for which a value is refused, "NoError" if it is not.
ValidateValue(m, raw) ==
    LET isList == m.dataType \in {"MemberList", "SequenceList"}
        byType == CASE m.dataType = "boolean" ->
                         IF raw.text \in {"true", "false"} THEN "NoError" ELSE "InvalidValue"
                    [] m.dataType = "dateTime" -> IF raw.isDate THEN "NoError" ELSE "InvalidValue"
                    [] m.dataType = "decimal" -> InvalidDecimal(m, raw)
                    [] m.dataType = "integer" -> InvalidInteger(m, raw)
                    [] isList -> IF ValidList(m, raw) THEN "NoError" ELSE "InvalidValue"
                    [] m.dataType = "string" ->
                         IF m.isUrl /\ ~raw.isUrl THEN "InvalidURL" ELSE "NoError"
                    [] m.dataType = "OptionList" -> "NoError"
    IN  IF m.maxLength > 0 /\ raw.length > m.maxLength THEN "InvalidValue"
        ELSE IF byType # "NoError" THEN byType
        ELSE IF m.enumeration # {} /\ ~isList /\ raw.text \notin m.enumeration
             THEN "InvalidValue" ELSE "NoError"

\* How many characters of a value of the given length are reported.
EnforceReportingValueSize(length, limit) ==
    IF limit > 0 /\ length > limit THEN limit ELSE length
=============================================================================
