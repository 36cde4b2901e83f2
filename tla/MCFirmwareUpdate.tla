-------------------------- MODULE MCFirmwareUpdate --------------------------
EXTENDS FirmwareUpdate, Sequences

CONSTANTS t1, t2

MCTags == {t1, t2}
MCRequests ==
  {[connector |-> 1, id |-> 1, tag |-> t1], [connector |-> 0, id |-> 2, tag |-> t1],
   [connector |-> 1, id |-> 2, tag |-> t2], [connector |-> 2, id |-> 2, tag |-> t2]}
MCStartRequests == {[connector |-> 1, tag |-> t1], [connector |-> 1, tag |-> t2]}
MCFailureStatuses == {"DownloadFailed", "InstallationFailed"}

-----------------------------------------------------------------------------
(* The operators on charging profiles, against what they promise *)

Profiles == INSTANCE ChargingProfiles16 WITH Day <- 4, Week <- 8, MaxTime <- 100

Purposes == {"TxProfile", "TxDefaultProfile"}
Profile(id, level, purpose) ==
  [id |-> id, stackLevel |-> level, purpose |-> purpose, tx |-> {}, kind |-> "Absolute",
   recurrency |-> {}, from |-> {}, to |-> {}, start |-> {}, duration |-> {}, unit |-> "A",
   periods |-> <<[start |-> 0, limit |-> 1]>>]
Some == {Profile(id, level, purpose) : id \in 1..2, level \in 0..1, purpose \in Purposes}
Lists == UNION {[1..n -> Some] : n \in 0..3}
Criteria == [id : {{}, {1}}, purpose : {{}, {"TxProfile"}}, stackLevel : {{}, {0}, {1}}]
Elements(list) == {list[i] : i \in DOMAIN list}

\* ClearChargingProfile clears no other profile than those that meet its
\* criteria, and one of them whenever there is one; a profile that meets them
\* stays only behind one that was cleared (splice inside forEach).
ASSUME ClearedMatched ==
  \A list \in Lists, q \in Criteria :
    LET left == Profiles!ClearChargingProfiles(list, q)
        matching == {p \in Elements(list) : Profiles!Clears(q, p)}
    IN  /\ \A p \in Elements(list) \ matching : p \in Elements(left)
        /\ matching # {} => Len(left) < Len(list)
        /\ \A i \in DOMAIN list :
             (list[i] \in Elements(left) \cap matching) =>
               \E j, k \in DOMAIN list : j # k /\ {list[j], list[k]} \subseteq matching

\* The profile that limits a connector is, of those in force, one of the
\* transaction before a default one, one of the connector before one of the
\* station, and one of a higher stack level before a lower one.
ASSUME HighestPriorityFirst ==
  \A own \in UNION {[1..n -> Some] : n \in 0..2}, zero \in UNION {[1..n -> Some] : n \in 0..1} :
    LET all == Profiles!ConnectorChargingProfiles(own, zero)
        default(p) == IF p.purpose = "TxDefaultProfile" THEN 1 ELSE 0
    IN  \A i, j \in DOMAIN all :
          i < j /\ j <= Len(own) =>
            \/ default(all[i]) < default(all[j])
            \/ default(all[i]) = default(all[j]) /\ all[i].stackLevel >= all[j].stackLevel

Scheduled(kind, begin, duration, second) ==
  [Profile(1, 0, "TxProfile") EXCEPT
     !.kind = kind, !.recurrency = {"Daily"}, !.start = begin, !.duration = duration,
     !.periods = <<[start |-> second, limit |-> 2], [start |-> 0, limit |-> 1]>>]

\* The limit found is that of the latest period that has begun, of a recurring
\* profile within its current recurrence.
ASSUME LimitOfLatestPeriod ==
  \A kind \in {"Absolute", "Recurring", "Relative"}, begin \in {{}, {0}, {3}},
     duration \in {{}, {2}, {6}}, second \in 1..5, begun \in {{}, {1}}, now \in 0..12 :
    LET p == Scheduled(kind, begin, duration, second)
        used == Profiles!Prepared(p, begun, now)
    IN  \A l \in Profiles!ChargingProfilesLimit(<<p>>, begun, now) :
          LET elapsed == now - Profiles!The(used.start) IN
          /\ elapsed >= 0
          /\ kind = "Recurring" => elapsed <= 4
          /\ l.limit = IF second <= elapsed THEN 2 ELSE 1

\* The composite of a schedule that begins in the interval allows at any time of
\* the interval what the schedule allows.
ASSUME CompositeOfLaterSchedule ==
  \A begin \in 0..5, duration \in 1..4, second \in 1..5, from \in 0..5, length \in 1..6 :
    LET s == [start |-> begin, duration |-> duration,
              periods |-> <<[start |-> second, limit |-> 2], [start |-> 0, limit |-> 1]>>]
        to == from + length
    IN  from <= begin => \A composite \in Profiles!ComposeSchedule(s, from, to) : \A t \in from..to :
          Profiles!LimitAt(composite, t) = Profiles!LimitAt(s, t)
=============================================================================
