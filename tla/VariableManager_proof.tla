------------------------ MODULE VariableManager_proof ------------------------
(***************************************************************************)
(* Proofs about VariableManager, for every registry that is well formed,   *)
(* and any stations, requests and values.                                  *)
(***************************************************************************)
EXTENDS VariableManager, WellFoundedInduction, TLAPS

-----------------------------------------------------------------------------
(* The least element of a set of numbers, and induction *)

Below == {ss \in Nat \X Nat : ss[1] < ss[2]}

LEMMA BelowWF == IsWellFoundedOn(Below, Nat)
  BY NatLessThanWellFounded DEF OpToRel, Below

LEMMA Least ==
  ASSUME NEW T, T \subseteq Nat, T # {}
  PROVE  \E x \in T : \A y \in T : x <= y
  <1>1. PICK x \in T : \A y \in T : ~(<<y, x>> \in Below)
    BY BelowWF, WFMin
  <1>2. ASSUME NEW y \in T PROVE x <= y
    <2>1. x \in Nat /\ y \in Nat
      OBVIOUS
    <2>2. ~(<<y, x>> \in Below)
      BY <1>1
    <2>3. ~(y < x)
      BY <2>1, <2>2 DEF Below
    <2> QED
      BY <2>1, <2>3
  <1> QED
    BY <1>2

LEMMA Induction ==
  ASSUME NEW S, 0 \in S, NEW m \in Nat, \A n \in 0..m : n \in S /\ n + 1 <= m => n + 1 \in S
  PROVE  \A n \in 0..m : n \in S
  <1> DEFINE T == {n \in 0..m : n \notin S}
  <1>1. ASSUME T # {} PROVE FALSE
    <2>1. PICK n \in T : \A y \in T : n <= y
      <3>1. T \subseteq Nat
        OBVIOUS
      <3> HIDE DEF T
      <3> QED
        BY <1>1, <3>1, Least
    <2>2. n # 0 /\ n \in 0..m /\ n \notin S
      OBVIOUS
    <2>3. n - 1 \in 0..m /\ n - 1 \notin T
      BY <2>1, <2>2
    <2> QED
      BY <2>2, <2>3
  <1> QED
    BY <1>1

-----------------------------------------------------------------------------
(* The items of a request, one after the other *)

\* A function that does what the request does up to its item m.
RunTo(s, request, kind, m, g) ==
  g = [n \in 0..m |-> IF n = 0 THEN Context(s) ELSE Apply(kind, g[n - 1], request[n])]

LEMMA RunExists ==
  ASSUME NEW s, NEW request, NEW kind, NEW m \in Nat
  PROVE  \E g : RunTo(s, request, kind, m, g)
  <1> DEFINE S == {k \in Nat : \E g : RunTo(s, request, kind, k, g)}
  <1>1. 0 \in S
    <2> DEFINE g == [n \in 0..0 |-> Context(s)]
    <2>1. g = [n \in 0..0 |-> IF n = 0 THEN Context(s) ELSE Apply(kind, g[n - 1], request[n])]
      OBVIOUS
    <2> QED
      BY <2>1 DEF RunTo
  <1>2. ASSUME NEW k \in Nat, k \in S PROVE k + 1 \in S
    <2>1. PICK g : RunTo(s, request, kind, k, g)
      BY <1>2
    <2> DEFINE h == [n \in 0..(k + 1) |-> IF n = k + 1 THEN Apply(kind, g[k], request[n]) ELSE g[n]]
    <2>2. \A n \in 0..k : h[n] = g[n]
      OBVIOUS
    <2>3. ASSUME NEW n \in 0..(k + 1)
          PROVE  h[n] = IF n = 0 THEN Context(s) ELSE Apply(kind, h[n - 1], request[n])
      <3>1. CASE n = k + 1
        <4>1. h[n] = Apply(kind, g[k], request[n]) /\ h[n - 1] = g[k] /\ n # 0
          BY <3>1, <2>2
        <4> QED
          BY <4>1
      <3>2. CASE n # k + 1
        <4>1. n \in 0..k /\ h[n] = g[n]
          BY <3>2
        <4>2. g[n] = IF n = 0 THEN Context(s) ELSE Apply(kind, g[n - 1], request[n])
          BY <2>1, <4>1 DEF RunTo
        <4>3. n # 0 => h[n - 1] = g[n - 1]
          BY <4>1, <2>2
        <4> QED
          BY <4>1, <4>2, <4>3
      <3> QED
        BY <3>1, <3>2
    <2>4. h = [n \in 0..(k + 1) |->
                 IF n = 0 THEN Context(s) ELSE Apply(kind, h[n - 1], request[n])]
      BY <2>3
    <2> HIDE DEF h
    <2> QED
      BY <2>4 DEF RunTo
  <1>3. \A n \in 0..m : n \in S
    <2> HIDE DEF S
    <2> QED
      BY <1>1, <1>2, Induction
  <1> QED
    BY <1>3

LEMMA OutcomesIs ==
  ASSUME NEW s, NEW request, NEW kind, Len(request) \in Nat
  PROVE  /\ Outcomes(s, request, kind)[0] = Context(s)
         /\ \A n \in 1..Len(request) :
              Outcomes(s, request, kind)[n] = Apply(kind, Outcomes(s, request, kind)[n - 1], request[n])
  <1>1. PICK g : RunTo(s, request, kind, Len(request), g)
    BY RunExists
  <1>2. g = [n \in 0..Len(request) |-> IF n = 0 THEN Context(s) ELSE Apply(kind, g[n - 1], request[n])]
    BY <1>1 DEF RunTo
  <1>3. Outcomes(s, request, kind) =
          [n \in 0..Len(request) |->
             IF n = 0 THEN Context(s) ELSE Apply(kind, Outcomes(s, request, kind)[n - 1], request[n])]
    BY <1>2 DEF Outcomes
  <1> QED
    BY <1>3

-----------------------------------------------------------------------------
(* Configuration keys *)

KeysOK(ks) ==
  /\ DOMAIN TemplateKeys \subseteq DOMAIN ks
  /\ \A k \in DOMAIN ks : ks[k] \in Texts

\* validatePersistentMappings keeps the keys there are and gives each key it adds
\* the default of an entry of that name.
LEMMA Validated ==
  ASSUME NEW ks
  PROVE  /\ Extends(ValidatePersistentMappings(ks), ks)
         /\ \A k \in DOMAIN ValidatePersistentMappings(ks) : k \notin DOMAIN ks =>
              \E i \in WithDefault : /\ KeyName(Registry[i]) = k
                                     /\ ValidatePersistentMappings(ks)[k] = Registry[i].default
  <1> DEFINE missing == {KeyName(Registry[i]) : i \in WithDefault} \ DOMAIN ks
             first(k) == CHOOSE i \in WithDefault :
                /\ KeyName(Registry[i]) = k
                /\ \A j \in WithDefault : KeyName(Registry[j]) = k => i <= j
  <1>1. ASSUME NEW k \in missing
        PROVE  first(k) \in WithDefault /\ KeyName(Registry[first(k)]) = k
    <2> DEFINE T == {i \in WithDefault : KeyName(Registry[i]) = k}
    <2>1. T # {} /\ T \subseteq Nat
      BY VariablesAssumption DEF WithDefault, Mapped, WellFormed
    <2>2. PICK i \in T : \A j \in T : i <= j
      <3> HIDE DEF T
      <3> QED
        BY <2>1, Least
    <2>3. \E i_1 \in WithDefault : /\ KeyName(Registry[i_1]) = k
                                 /\ \A j \in WithDefault : KeyName(Registry[j]) = k => i_1 <= j
      BY <2>2
    <2> QED
      BY <2>3
  <1>2. ValidatePersistentMappings(ks) =
          [k \in DOMAIN ks \union missing |->
             IF k \in DOMAIN ks THEN ks[k] ELSE Registry[first(k)].default]
    BY DEF ValidatePersistentMappings
  <1> HIDE DEF missing, first
  <1> QED
    BY <1>1, <1>2 DEF Extends

LEMMA ValidatedKeys ==
  ASSUME NEW ks, KeysOK(ks)
  PROVE  KeysOK(ValidatePersistentMappings(ks))
  <1> SUFFICES ASSUME NEW new, new = ValidatePersistentMappings(ks)
               PROVE  KeysOK(new)
    OBVIOUS
  <1>1. Extends(new, ks)
    BY Validated
  <1>2. ASSUME NEW k \in DOMAIN new PROVE new[k] \in Texts
    <2>1. CASE k \in DOMAIN ks
      BY <1>1, <2>1 DEF Extends, KeysOK
    <2>2. CASE k \notin DOMAIN ks
      <3>1. PICK i \in WithDefault : new[k] = Registry[i].default
        BY <2>2, Validated
      <3> QED
        BY <3>1 DEF Texts, WithDefault, Mapped
    <2> QED
      BY <2>1, <2>2
  <1> QED
    BY <1>1, <1>2 DEF Extends, KeysOK

LEMMA Added ==
  ASSUME NEW ks, NEW k, NEW value
  PROVE  /\ DOMAIN AddKey(ks, k, value) = DOMAIN ks \union {k}
         /\ AddKey(ks, k, value)[k] = value
         /\ \A x \in DOMAIN ks : x # k => AddKey(ks, k, value)[x] = ks[x]
  BY DEF AddKey

LEMMA AddedExtends ==
  ASSUME NEW ks, NEW k, NEW value, k \notin DOMAIN ks
  PROVE  Extends(AddKey(ks, k, value), ks)
  BY DEF Extends, AddKey

LEMMA AddedKeys ==
  ASSUME NEW ks, KeysOK(ks), NEW k, NEW value \in Texts
  PROVE  KeysOK(AddKey(ks, k, value))
  BY DEF KeysOK, AddKey

LEMMA ExtendsAgain ==
  ASSUME NEW a, NEW b, NEW c, Extends(a, b), Extends(b, c)
  PROVE  Extends(a, c)
  BY DEF Extends

\* A key is invalid for want of a configuration key only.
LEMMA InvalidFewer ==
  ASSUME NEW ks, NEW more, DOMAIN ks \subseteq DOMAIN more
  PROVE  InvalidVariables(more) \subseteq InvalidVariables(ks)
  BY DEF InvalidVariables, HasKey

-----------------------------------------------------------------------------
(* The intervals of the timers *)

HeartbeatKey == Key("HeartbeatInterval")
PingKey == Key("WebSocketPingInterval")

\* The intervals depend on their keys alone.
LEMMA SameInterval ==
  ASSUME NEW a, NEW b, NEW name, HasKey(a, Key(name)) <=> HasKey(b, Key(name)),
         HasKey(a, Key(name)) => a[Key(name)] = b[Key(name)]
  PROVE  IntOf(a, name) = IntOf(b, name)
  <1>1. CASE HasKey(a, Key(name))
    BY <1>1 DEF IntOf
  <1>2. CASE ~HasKey(a, Key(name))
    BY <1>2 DEF IntOf
  <1> QED
    BY <1>1, <1>2

LEMMA SameHeartbeat ==
  ASSUME NEW a, NEW b, HeartbeatKey \in DOMAIN a, HeartbeatKey \in DOMAIN b,
         a[HeartbeatKey] = b[HeartbeatKey]
  PROVE  HeartbeatInterval(a) = HeartbeatInterval(b)
  BY SameInterval DEF HeartbeatInterval, HeartbeatKey, HasKey

LEMMA SamePing ==
  ASSUME NEW a, NEW b, PingKey \in DOMAIN a <=> PingKey \in DOMAIN b,
         PingKey \in DOMAIN a => a[PingKey] = b[PingKey]
  PROVE  PingInterval(a) = PingInterval(b)
  BY SameInterval DEF PingInterval, PingKey, HasKey

LEMMA HeartbeatText ==
  ASSUME NEW ks, KeysOK(ks)
  PROVE  HeartbeatInterval(ks) \in Texts \union {None}
  <1>1. CASE HasKey(ks, Key("HeartbeatInterval"))
    BY <1>1 DEF HeartbeatInterval, KeysOK, HasKey
  <1>2. CASE ~HasKey(ks, Key("HeartbeatInterval"))
    BY <1>2 DEF HeartbeatInterval, IntOf
  <1> QED
    BY <1>1, <1>2

LEMMA PingText ==
  ASSUME NEW ks, KeysOK(ks)
  PROVE  PingInterval(ks) \in Texts \union {None, DefaultPingInterval}
  BY DEF PingInterval, KeysOK, HasKey

\* A key of the ping that is added with the default leaves the interval as it is.
LEMMA DefaultPing ==
  ASSUME NEW a, NEW b, PingKey \notin DOMAIN a, PingKey \in DOMAIN b,
         b[PingKey] = DefaultPingInterval
  PROVE  PingInterval(b) = PingInterval(a)
  <1>1. PICK r \in Raws : r.text = DefaultPingInterval /\ r.form = "integer"
    BY VariablesAssumption
  <1>2. IntOf(b, "WebSocketPingInterval") > 0
    <2>1. RawOf(b[PingKey]) \in Raws /\ RawOf(b[PingKey]).text = DefaultPingInterval
      BY <1>1 DEF RawOf
    <2>2. RawOf(b[PingKey]).number > 0
      BY <2>1, VariablesAssumption
    <2>3. IntOf(b, "WebSocketPingInterval") = RawOf(b[PingKey]).number
      BY <1>1 DEF IntOf, HasKey, PingKey
    <2> QED
      BY <2>2, <2>3
  <1> QED
    BY <1>2 DEF PingInterval, HasKey, PingKey

-----------------------------------------------------------------------------
(* The work on one item *)

Timed(h, p, names) ==
  /\ h \in Texts \union {None}
  /\ p \in Texts \union {None, DefaultPingInterval}
  /\ names \subseteq TimerVariables

\* A timer runs with the interval of its key, unless that was set unnoticed.
Follows(h, p, names, ks) ==
  /\ "HeartbeatInterval" \notin names => h = HeartbeatInterval(ks)
  /\ "WebSocketPingInterval" \notin names => p = PingInterval(ks)

Timers(s) == Follows(heartbeat[s], ping[s], stale[s], keys[s])

Fields == {"keys", "invalid", "overrides", "station", "status", "hash", "writes",
           "heartbeat", "ping", "stale", "results"}

\* The context of a request: its writes are saves of station s, as long as there is
\* none its keys have those of before or those of the last write's hash, and its
\* timers follow its keys.
Working(s, c) ==
  /\ DOMAIN c = Fields
  /\ c.station = s /\ c.status = status[s] /\ c.hash = fileHash[s]
  /\ c.invalid = InvalidVariables(keys[s])
  /\ DOMAIN keys[s] \subseteq DOMAIN c.keys /\ KeysOK(c.keys)
  /\ \E S : c.writes \in Seq(S)
  /\ \A i \in DOMAIN c.writes :
       /\ c.writes[i].station = s
       /\ \E ks : c.writes[i].hash = Content(ks, status[s]) /\ ks # NoKeys
  /\ c.writes # <<>> \/ Extends(c.keys, keys[s]) \/ Extends(c.keys, fileHash[s][1])
  /\ Timed(heartbeat[s], ping[s], stale[s]) => Timed(c.heartbeat, c.ping, c.stale)
  /\ Timers(s) => Follows(c.heartbeat, c.ping, c.stale, c.keys)

\* The entry of an item is one of the registry, of the variable the item names.
LEMMA MetadataIs ==
  ASSUME NEW item, Candidates(item) # {}
  PROVE  \E i \in DOMAIN Registry :
           Metadata(item) = Registry[i] /\ Metadata(item).variable = item.variable
  <1>1. PICK i \in Candidates(item) : Metadata(item) = Registry[i]
    BY DEF Metadata
  <1>2. /\ i \in DOMAIN Registry
        /\ \E x : KeyOf(Registry[i]) = CompositeKey(item.component, x, item.variable)
    BY DEF Candidates, GetVariableMetadata
  <1>3. Registry[i].variable = item.variable
    BY <1>2 DEF KeyOf, CompositeKey
  <1> QED
    BY <1>1, <1>2, <1>3

LEMMA ContextWorks ==
  ASSUME NEW s, KeysOK(keys[s])
  PROVE  Working(s, Context(s))
  <1> SUFFICES ASSUME NEW new, new = ValidatePersistentMappings(keys[s]),
                      NEW c, c = Context(s)
               PROVE  Working(s, c)
    OBVIOUS
  <1>1. /\ DOMAIN c = Fields /\ c.keys = new /\ c.station = s /\ c.status = status[s]
        /\ c.hash = fileHash[s] /\ c.invalid = InvalidVariables(keys[s]) /\ c.writes = <<>>
        /\ c.heartbeat = heartbeat[s] /\ c.ping = ping[s] /\ c.stale = stale[s]
    BY DEF Context, Fields
  <1>2. Extends(new, keys[s]) /\ KeysOK(new)
    BY Validated, ValidatedKeys
  <1>3. HeartbeatInterval(new) = HeartbeatInterval(keys[s])
    BY <1>2, SameHeartbeat, VariablesAssumption DEF Extends, KeysOK, HeartbeatKey
  <1>4. PingInterval(new) = PingInterval(keys[s])
    <2>1. CASE PingKey \in DOMAIN keys[s]
      BY <1>2, <2>1, SamePing DEF Extends
    <2>2. CASE PingKey \notin DOMAIN keys[s] /\ PingKey \notin DOMAIN new
      BY <2>2, SamePing
    <2>3. CASE PingKey \notin DOMAIN keys[s] /\ PingKey \in DOMAIN new
      <3>1. PICK i \in WithDefault :
              KeyName(Registry[i]) = PingKey /\ new[PingKey] = Registry[i].default
        BY <2>3, Validated
      <3>2. i \in DOMAIN Registry /\ Registry[i].variable = "WebSocketPingInterval"
        BY <3>1 DEF KeyName, Key, PingKey, WithDefault, Mapped
      <3>3. new[PingKey] = DefaultPingInterval
        BY <3>1, <3>2, VariablesAssumption DEF WellFormed
      <3> QED
        BY <2>3, <3>3, DefaultPing
    <2> QED
      BY <2>1, <2>2, <2>3
  <1>5. c.writes \in Seq({}) /\ DOMAIN c.writes = {}
    BY <1>1
  <1> QED
    BY <1>1, <1>2, <1>3, <1>4, <1>5 DEF Working, Timers, Follows, Extends

LEMMA AnsweredWorks ==
  ASSUME NEW s, NEW c, Working(s, c), NEW st, NEW reason, NEW text, NEW shown
  PROVE  Working(s, Answered(c, st, reason, text, shown))
  <1> SUFFICES ASSUME NEW d, d = Answered(c, st, reason, text, shown)
               PROVE  Working(s, d)
    OBVIOUS
  <1>1. DOMAIN d = Fields /\ \A f \in Fields \ {"results"} : d[f] = c[f]
    BY DEF Answered, Working, Fields
  <1> QED
    BY <1>1 DEF Working, Fields

\* A missing key that is read is created with the default of its entry.
LEMMA ResolvedWorks ==
  ASSUME NEW s, NEW c, Working(s, c), NEW item, Candidates(item) # {}
  PROVE  Working(s, Resolved(c, item).context)
  <1> SUFFICES ASSUME NEW d, d = Resolved(c, item).context
               PROVE  Working(s, d)
    OBVIOUS
  <1>1. PICK i \in DOMAIN Registry : Metadata(item) = Registry[i]
    BY MetadataIs
  <1> SUFFICES ASSUME NEW m, m = Registry[i], NEW k, k = KeyName(m), d # c
               PROVE  Working(s, d)
    OBVIOUS
  <1>2. d = [c EXCEPT !.keys = AddKey(@, k, m.default)] /\ ~HasKey(c.keys, k)
    BY <1>1 DEF Resolved, ResolveValue
  <1>3. /\ DOMAIN d = Fields /\ d.keys = AddKey(c.keys, k, m.default)
        /\ \A f \in Fields \ {"keys"} : d[f] = c[f]
    BY <1>2 DEF Working, Fields
  <1>4. m.default \in Texts
    BY DEF Texts
  <1>5. KeysOK(d.keys) /\ Extends(d.keys, c.keys)
    BY <1>2, <1>3, <1>4, AddedKeys, AddedExtends DEF Working, HasKey
  <1>6. HeartbeatInterval(d.keys) = HeartbeatInterval(c.keys)
    BY <1>5, SameHeartbeat, VariablesAssumption DEF Working, Extends, KeysOK, HeartbeatKey
  <1>7. PingInterval(d.keys) = PingInterval(c.keys)
    <2>1. CASE PingKey \in DOMAIN c.keys
      BY <1>5, <2>1, SamePing DEF Extends
    <2>2. CASE PingKey \notin DOMAIN c.keys /\ k # PingKey
      BY <1>3, <2>2, SamePing DEF AddKey
    <2>3. CASE PingKey \notin DOMAIN c.keys /\ k = PingKey
      <3>1. m.variable = "WebSocketPingInterval"
        BY <2>3 DEF KeyName, Key, PingKey
      <3>2. m.default = DefaultPingInterval
        BY <3>1, VariablesAssumption DEF WellFormed
      <3> QED
        BY <1>3, <2>3, <3>2, DefaultPing DEF AddKey
    <2> QED
      BY <2>1, <2>2, <2>3
  <1>8. \A old : Extends(c.keys, old) => Extends(d.keys, old)
    BY <1>5, ExtendsAgain
  <1>9. /\ d.writes = c.writes /\ d.heartbeat = c.heartbeat /\ d.ping = c.ping /\ d.stale = c.stale
        /\ d.station = c.station /\ d.status = c.status /\ d.hash = c.hash /\ d.invalid = c.invalid
    BY <1>3 DEF Fields
  <1> QED
    BY <1>3, <1>5, <1>6, <1>7, <1>8, <1>9 DEF Working, Follows, Extends

LEMMA GetWorks ==
  ASSUME NEW s, NEW c, Working(s, c), NEW item
  PROVE  Working(s, GetVariable(c, item))
  <1> SUFFICES ASSUME NEW r, r = Resolved(c, item), NEW d, d = GetVariable(c, item)
               PROVE  Working(s, d)
    OBVIOUS
  <1>1. CASE item.component \notin Components \/ Candidates(item) = {}
    BY <1>1, AnsweredWorks DEF GetVariable, Refused
  <1>2. CASE item.component \in Components /\ Candidates(item) # {}
    <2>1. Working(s, r.context)
      BY <1>2, ResolvedWorks
    <2>2. \/ \E st, reason : d = Refused(c, st, reason) \/ d = Refused(r.context, st, reason)
          \/ \E shown : d = Answered(r.context, "Accepted", "NoError", r.value, shown)
      BY <1>2 DEF GetVariable
    <2> QED
      BY <2>1, <2>2, AnsweredWorks DEF Refused
  <1> QED
    BY <1>1, <1>2

\* An integer that is accepted is one, and no lower than the least.
LEMMA ValidInteger ==
  ASSUME NEW m, NEW raw, m.dataType = "integer", ValidateValue(m, raw) = "NoError",
         m.min \in Nat, raw.number \in Int
  PROVE  raw.form = "integer" /\ raw.number >= m.min
  <1>1. InvalidInteger(m, raw) = "NoError"
    BY DEF ValidateValue
  <1> QED
    BY <1>1 DEF InvalidInteger

\* What the checks of setVariable let through.
Accepts(c, item) ==
  /\ item.component \in Components
  /\ Candidates(item) # {}
  /\ item.attribute \in Metadata(item).attributes
  /\ VariableKey(item) \in c.invalid => Metadata(item).mutability = WO
  /\ Metadata(item).mutability # RO
  /\ ValidateValue(Metadata(item), item.raw) = "NoError"

Refusals == {"UnknownComponent", "UnknownVariable", "NotSupportedAttributeType", "Rejected"}

LEMMA SetIs ==
  ASSUME NEW c, NEW item
  PROVE  \/ Accepts(c, item) /\ SetVariable(c, item) = Store(c, item)
         \/ \E st \in Refusals : \E reason : SetVariable(c, item) = Refused(c, st, reason)
  <1> SUFFICES ASSUME ~Accepts(c, item) \/ SetVariable(c, item) # Store(c, item),
                      NEW d, d = SetVariable(c, item)
               PROVE  \E st \in Refusals : \E reason : d = Refused(c, st, reason)
    OBVIOUS
  <1>1. CASE item.component \notin Components \/ Candidates(item) = {}
             \/ item.attribute \notin Metadata(item).attributes
    BY <1>1 DEF SetVariable, Refusals
  <1>2. CASE /\ ~(item.component \notin Components \/ Candidates(item) = {}
                  \/ item.attribute \notin Metadata(item).attributes)
             /\ (VariableKey(item) \in c.invalid /\ Metadata(item).mutability # WO)
                \/ Metadata(item).mutability = RO
    BY <1>2 DEF SetVariable, Refusals
  <1>3. CASE /\ ~(item.component \notin Components \/ Candidates(item) = {}
                  \/ item.attribute \notin Metadata(item).attributes)
             /\ ~(VariableKey(item) \in c.invalid /\ Metadata(item).mutability # WO)
             /\ Metadata(item).mutability # RO
    BY <1>3 DEF SetVariable, Refusals, Accepts
  <1> QED
    BY <1>1, <1>2, <1>3

\* setVariable stores a value under a key, and saves if the key was there with
\* another value.
KeyStored(s, c, k, text, e) ==
  /\ DOMAIN e = Fields
  /\ \A f \in Fields \ {"keys", "writes"} : e[f] = c[f]
  /\ DOMAIN e.keys = DOMAIN c.keys \union {k}
  /\ e.keys[k] = text
  /\ \A x \in DOMAIN c.keys : x # k => e.keys[x] = c.keys[x]
  /\ \/ e.writes = c.writes /\ Extends(e.keys, c.keys)
     \/ e.writes = c.writes \o SaveConfiguration(s, Content(e.keys, status[s]), fileHash[s])

LEMMA StoreKeyIs ==
  ASSUME NEW s, NEW c, Working(s, c), NEW k, NEW text
  PROVE  KeyStored(s, c, k, text, StoreKey(c, k, text))
  <1> SUFFICES ASSUME NEW e, e = StoreKey(c, k, text)
               PROVE  KeyStored(s, c, k, text, e)
    OBVIOUS
  <1>1. CASE ~HasKey(c.keys, k)
    <2>1. e = [c EXCEPT !.keys = AddKey(@, k, text)]
      BY <1>1 DEF StoreKey
    <2>2. e.keys = AddKey(c.keys, k, text) /\ DOMAIN e = Fields
      BY <2>1 DEF Working, Fields
    <2>3. \A f \in Fields \ {"keys"} : e[f] = c[f]
      BY <2>1 DEF Working, Fields
    <2>4. e.writes = c.writes
      BY <2>3 DEF Fields
    <2> QED
      BY <1>1, <2>2, <2>3, <2>4 DEF AddKey, HasKey, Extends, KeyStored
  <1>2. CASE HasKey(c.keys, k) /\ c.keys[k] # text
    <2> DEFINE d == [c EXCEPT !.keys[k] = text]
    <2>1. d.keys = [c.keys EXCEPT ![k] = text] /\ DOMAIN d = Fields
      BY DEF Working, Fields
    <2>2. \A f \in Fields \ {"keys"} : d[f] = c[f]
      BY DEF Working, Fields
    <2>3. d.writes = c.writes /\ d.station = s /\ d.status = status[s] /\ d.hash = fileHash[s]
      BY <2>2 DEF Working, Fields
    <2>4. e = SaveOcppConfiguration(d)
      BY <1>2 DEF StoreKey
    <2> HIDE DEF d
    <2>5. e.writes = c.writes \o SaveConfiguration(s, Content(d.keys, status[s]), fileHash[s])
      BY <2>1, <2>3, <2>4 DEF SaveOcppConfiguration, Fields
    <2>6. DOMAIN e = Fields /\ \A f \in Fields \ {"writes"} : e[f] = d[f]
      BY <2>1, <2>4 DEF SaveOcppConfiguration, Fields
    <2>7. e.keys = d.keys
      BY <2>6 DEF Fields
    <2> QED
      BY <1>2, <2>1, <2>2, <2>5, <2>6, <2>7 DEF HasKey, KeyStored
  <1>3. CASE HasKey(c.keys, k) /\ c.keys[k] = text
    BY <1>3 DEF StoreKey, HasKey, Working, Extends, KeyStored
  <1> QED
    BY <1>1, <1>2, <1>3

\* Working but for the timers.
Storing(s, c) ==
  /\ DOMAIN c = Fields
  /\ c.station = s /\ c.status = status[s] /\ c.hash = fileHash[s]
  /\ c.invalid = InvalidVariables(keys[s])
  /\ DOMAIN keys[s] \subseteq DOMAIN c.keys /\ KeysOK(c.keys)
  /\ \E S : c.writes \in Seq(S)
  /\ \A i \in DOMAIN c.writes :
       /\ c.writes[i].station = s
       /\ \E ks : c.writes[i].hash = Content(ks, status[s]) /\ ks # NoKeys
  /\ c.writes # <<>> \/ Extends(c.keys, keys[s]) \/ Extends(c.keys, fileHash[s][1])

LEMMA StoreKeyStores ==
  ASSUME NEW s, NEW c, Working(s, c), NEW k, NEW text \in Texts
  PROVE  Storing(s, StoreKey(c, k, text))
  <1> SUFFICES ASSUME NEW e, KeyStored(s, c, k, text, e)
               PROVE  Storing(s, e)
    BY StoreKeyIs
  <1>1. /\ DOMAIN e = Fields
        /\ \A f \in Fields \ {"keys", "writes"} : e[f] = c[f]
        /\ DOMAIN e.keys = DOMAIN c.keys \union {k}
        /\ e.keys[k] = text
        /\ \A x \in DOMAIN c.keys : x # k => e.keys[x] = c.keys[x]
    BY DEF KeyStored
  <1>2. e.station = s /\ e.status = status[s] /\ e.hash = fileHash[s] /\ e.invalid = InvalidVariables(keys[s])
    BY <1>1 DEF Working, Fields
  <1>3. KeysOK(e.keys) /\ DOMAIN keys[s] \subseteq DOMAIN e.keys
    BY <1>1 DEF Working, KeysOK
  <1> DEFINE new == SaveConfiguration(s, Content(e.keys, status[s]), fileHash[s])
  <1>4. CASE e.writes = c.writes /\ Extends(e.keys, c.keys)
    BY <1>1, <1>2, <1>3, <1>4, ExtendsAgain DEF Working, Storing
  <1>5. CASE e.writes = c.writes \o new
    <2>1. PICK S : c.writes \in Seq(S)
      BY DEF Working
    <2>2. CASE fileHash[s] = Content(e.keys, status[s])
      <3>1. new = <<>> /\ fileHash[s][1] = e.keys
        BY <2>2 DEF SaveConfiguration, Content
      <3>2. e.writes = c.writes
        BY <1>5, <2>1, <3>1
      <3> QED
        BY <1>1, <1>2, <1>3, <3>1, <3>2 DEF Working, Storing, Extends
    <2>3. CASE fileHash[s] # Content(e.keys, status[s])
      <3> DEFINE w == [station |-> s, hash |-> Content(e.keys, status[s])]
      <3>1. new = <<w>>
        BY <2>3 DEF SaveConfiguration
      <3> HIDE DEF new, w
      <3>2. e.writes \in Seq(S \union {w}) /\ e.writes # <<>>
        BY <1>5, <2>1, <3>1
      <3>3. \A i \in DOMAIN e.writes : e.writes[i] = w \/ (i \in DOMAIN c.writes /\ e.writes[i] = c.writes[i])
        BY <1>5, <2>1, <3>1
      <3>4. w.station = s /\ w.hash = Content(e.keys, status[s]) /\ e.keys # NoKeys
        BY <1>3, VariablesAssumption DEF w, KeysOK, NoKeys
      <3>5. \A i \in DOMAIN e.writes :
              /\ e.writes[i].station = s
              /\ \E ks : e.writes[i].hash = Content(ks, status[s]) /\ ks # NoKeys
        BY <3>3, <3>4 DEF Working
      <3> QED
        BY <1>1, <1>2, <1>3, <3>2, <3>5 DEF Storing
    <2> QED
      BY <2>2, <2>3
  <1> QED
    BY <1>4, <1>5 DEF KeyStored

\* What storing an accepted value does to the keys, the overrides and the results.
Effect(c, item, d) ==
  /\ IF Stored(Metadata(item))
     THEN /\ DOMAIN d.keys = DOMAIN c.keys \union {KeyName(Metadata(item))}
          /\ d.keys[KeyName(Metadata(item))] = item.raw.text
          /\ \A x \in DOMAIN c.keys : x # KeyName(Metadata(item)) => d.keys[x] = c.keys[x]
     ELSE d.keys = c.keys
  /\ d.overrides = IF Metadata(item).persistence = V
                   THEN AddKey(c.overrides, VariableKey(item), item.raw.text) ELSE c.overrides
  /\ \E r : d.results = Append(c.results, r)

LEMMA StoreWorks ==
  ASSUME NEW s, NEW c, Working(s, c), NEW item, item.raw \in Raws, Accepts(c, item)
  PROVE  Working(s, Store(c, item)) /\ Effect(c, item, Store(c, item))
  <1>1. PICK m : m = Metadata(item)
    OBVIOUS
  <1>2. PICK k : k = KeyName(m)
    OBVIOUS
  <1>3. PICK text \in Texts : text = item.raw.text
    BY DEF Texts
  <1>4. PICK e : e = IF Stored(m) THEN StoreKey(c, k, text) ELSE c
    OBVIOUS
  <1>5. PICK f : f = RestartTimers(e, item)
    OBVIOUS
  <1>6. PICK g : g = IF m.persistence = V
                     THEN [f EXCEPT !.overrides = AddKey(@, VariableKey(item), text)] ELSE f
    OBVIOUS
  <1>7. PICK d : d = Store(c, item)
    OBVIOUS
  <1>8. \E st : d = Answered(g, st, "NoError", text, 0)
    BY <1>1, <1>2, <1>3, <1>4, <1>5, <1>6, <1>7 DEF Store
  <1>9. Storing(s, e) /\ (Stored(m) => KeyStored(s, c, k, text, e))
    <2>1. CASE Stored(m)
      BY <1>4, <2>1, StoreKeyStores, StoreKeyIs
    <2>2. CASE ~Stored(m)
      BY <1>4, <2>2 DEF Working, Storing
    <2> QED
      BY <2>1, <2>2
  <1>10. /\ e.overrides = c.overrides /\ e.results = c.results
         /\ e.heartbeat = c.heartbeat /\ e.ping = c.ping /\ e.stale = c.stale
    BY <1>4, <1>9 DEF KeyStored, Fields
  <1>11. /\ m.variable = item.variable
         /\ m.variable \in TimerVariables => m.dataType = "integer" /\ m.min \in Nat
         /\ m.variable = "HeartbeatInterval" => m.min > 0
    <2>1. Candidates(item) # {}
      BY DEF Accepts
    <2>2. PICK i \in DOMAIN Registry :
            Metadata(item) = Registry[i] /\ Metadata(item).variable = item.variable
      BY <2>1, MetadataIs
    <2> QED
      BY <1>1, <2>2, VariablesAssumption DEF WellFormed
  <1>12. item.raw.number \in Int
    BY VariablesAssumption
  <1>13. /\ DOMAIN f = Fields /\ \A x \in Fields \ {"heartbeat", "ping", "stale"} : f[x] = e[x]
         /\ f.heartbeat = IF /\ item.variable = "HeartbeatInterval" /\ item.exact
                             /\ item.raw.form # "other" /\ item.raw.number > 0
                          THEN HeartbeatInterval(e.keys) ELSE e.heartbeat
         /\ f.ping = IF /\ item.variable = "WebSocketPingInterval" /\ item.exact
                        /\ item.raw.form # "other" /\ item.raw.number >= 0
                     THEN PingInterval(e.keys) ELSE e.ping
         /\ f.stale = NoteTimer(item, e.stale)
    BY <1>5, <1>9 DEF RestartTimers, Storing, Fields
  <1>14. /\ DOMAIN g = Fields /\ \A x \in Fields \ {"overrides"} : g[x] = f[x]
         /\ g.overrides = IF m.persistence = V THEN AddKey(f.overrides, VariableKey(item), text)
                          ELSE f.overrides
    BY <1>6, <1>13 DEF Fields
  <1>15. ASSUME "HeartbeatInterval" \notin c.stale => c.heartbeat = HeartbeatInterval(c.keys),
                "HeartbeatInterval" \notin f.stale
         PROVE  f.heartbeat = HeartbeatInterval(e.keys)
    <2>1. CASE item.variable = "HeartbeatInterval"
      <3>1. item.exact
        BY <1>13, <1>15, <2>1 DEF NoteTimer, TimerVariables
      <3>2. item.raw.form = "integer" /\ item.raw.number >= m.min
        BY <1>1, <1>11, <1>12, <2>1, ValidInteger DEF Accepts, TimerVariables
      <3>3. item.raw.number > 0 /\ item.raw.form # "other"
        BY <1>11, <1>12, <2>1, <3>2 DEF TimerVariables
      <3> QED
        BY <1>13, <2>1, <3>1, <3>3
    <2>2. CASE item.variable # "HeartbeatInterval"
      <3>1. f.heartbeat = c.heartbeat /\ "HeartbeatInterval" \notin c.stale
        BY <1>10, <1>13, <1>15, <2>2 DEF NoteTimer
      <3>2. k # HeartbeatKey
        BY <1>2, <1>11, <2>2 DEF KeyName, Key, HeartbeatKey
      <3>3. HeartbeatInterval(e.keys) = HeartbeatInterval(c.keys)
        <4>1. CASE Stored(m)
          BY <1>9, <3>2, <4>1, SameHeartbeat, VariablesAssumption
          DEF Working, KeysOK, KeyStored, HeartbeatKey
        <4>2. CASE ~Stored(m)
          BY <1>4, <4>2
        <4> QED
          BY <4>1, <4>2
      <3> QED
        BY <1>15, <3>1, <3>3
    <2> QED
      BY <2>1, <2>2
  <1>16. ASSUME "WebSocketPingInterval" \notin c.stale => c.ping = PingInterval(c.keys),
                "WebSocketPingInterval" \notin f.stale
         PROVE  f.ping = PingInterval(e.keys)
    <2>1. CASE item.variable = "WebSocketPingInterval"
      <3>1. item.exact
        BY <1>13, <1>16, <2>1 DEF NoteTimer, TimerVariables
      <3>2. item.raw.form = "integer" /\ item.raw.number >= m.min
        BY <1>1, <1>11, <1>12, <2>1, ValidInteger DEF Accepts, TimerVariables
      <3>3. item.raw.number >= 0 /\ item.raw.form # "other"
        BY <1>11, <1>12, <2>1, <3>2 DEF TimerVariables
      <3> QED
        BY <1>13, <2>1, <3>1, <3>3
    <2>2. CASE item.variable # "WebSocketPingInterval"
      <3>1. f.ping = c.ping /\ "WebSocketPingInterval" \notin c.stale
        BY <1>10, <1>13, <1>16, <2>2 DEF NoteTimer
      <3>2. k # PingKey
        BY <1>2, <1>11, <2>2 DEF KeyName, Key, PingKey
      <3>3. PingInterval(e.keys) = PingInterval(c.keys)
        <4>1. CASE Stored(m)
          BY <1>9, <3>2, <4>1, SamePing DEF KeyStored
        <4>2. CASE ~Stored(m)
          BY <1>4, <4>2
        <4> QED
          BY <4>1, <4>2
      <3> QED
        BY <1>16, <3>1, <3>3
    <2> QED
      BY <2>1, <2>2
  <1>17. /\ g.station = e.station /\ g.status = e.status /\ g.hash = e.hash /\ g.invalid = e.invalid
         /\ g.keys = e.keys /\ g.writes = e.writes /\ g.results = e.results
         /\ g.heartbeat = f.heartbeat /\ g.ping = f.ping /\ g.stale = f.stale
         /\ f.overrides = e.overrides
    BY <1>13, <1>14 DEF Fields
  <1>18. Timers(s) => Follows(g.heartbeat, g.ping, g.stale, g.keys)
    BY <1>15, <1>16, <1>17 DEF Working, Follows
  <1>19. ASSUME Timed(heartbeat[s], ping[s], stale[s]) PROVE Timed(g.heartbeat, g.ping, g.stale)
    <2>1. Timed(c.heartbeat, c.ping, c.stale) /\ KeysOK(e.keys)
      BY <1>9, <1>19 DEF Working, Storing
    <2>2. g.heartbeat \in {HeartbeatInterval(e.keys), c.heartbeat} /\ g.ping \in {PingInterval(e.keys), c.ping}
      BY <1>10, <1>13, <1>17
    <2>3. g.stale \subseteq TimerVariables
      BY <1>10, <1>13, <1>17, <2>1 DEF NoteTimer, Timed
    <2> QED
      BY <2>1, <2>2, <2>3, HeartbeatText, PingText DEF Timed
  <1>20. Working(s, g)
    BY <1>9, <1>14, <1>17, <1>18, <1>19 DEF Storing, Working
  <1>21. Working(s, d)
    BY <1>8, <1>20, AnsweredWorks
  <1>22. d.keys = e.keys /\ d.overrides = g.overrides /\ \E r : d.results = Append(c.results, r)
    <2>1. PICK st : d = Answered(g, st, "NoError", text, 0)
      BY <1>8
    <2>2. d.keys = g.keys /\ d.overrides = g.overrides
      BY <1>14, <2>1 DEF Answered, Fields
    <2>3. \E r : d.results = Append(g.results, r)
      BY <1>14, <2>1 DEF Answered, Fields
    <2> QED
      BY <1>10, <1>17, <2>2, <2>3
  <1>23. Effect(c, item, d)
    <2>1. IF Stored(m)
          THEN /\ DOMAIN d.keys = DOMAIN c.keys \union {k}
               /\ d.keys[k] = text
               /\ \A x \in DOMAIN c.keys : x # k => d.keys[x] = c.keys[x]
          ELSE d.keys = c.keys
      <3>1. CASE Stored(m)
        BY <1>9, <1>22, <3>1 DEF KeyStored
      <3>2. CASE ~Stored(m)
        BY <1>4, <1>22, <3>2
      <3> QED
        BY <3>1, <3>2
    <2>2. d.overrides = IF m.persistence = V THEN AddKey(c.overrides, VariableKey(item), text)
                        ELSE c.overrides
      BY <1>10, <1>14, <1>17, <1>22
    <2> QED
      BY <1>1, <1>2, <1>3, <1>22, <2>1, <2>2 DEF Effect
  <1> QED
    BY <1>7, <1>21, <1>23

LEMMA SetWorks ==
  ASSUME NEW s, NEW c, Working(s, c), NEW item, item.raw \in Raws
  PROVE  Working(s, SetVariable(c, item))
  BY SetIs, StoreWorks, AnsweredWorks DEF Refused

-----------------------------------------------------------------------------
(* What was set is there to be read *)

Kept(ks, ov, item) ==
  /\ item.component \in Components
  /\ Candidates(item) # {}
  /\ item.attribute \in Metadata(item).attributes
  /\ VariableKey(item) \notin InvalidVariables(ks)
  /\ IF Stored(Metadata(item))
     THEN KeyName(Metadata(item)) \in DOMAIN ks /\ ks[KeyName(Metadata(item))] = item.raw.text
     ELSE /\ Metadata(item).persistence = V /\ Metadata(item).mutability # RO
          /\ VariableKey(item) \in DOMAIN ov /\ ov[VariableKey(item)] = item.raw.text

Lasting(request, n, i) ==
  \A j \in 1..n : j > i => KeyName(Metadata(request[j])) # KeyName(Metadata(request[i]))

Counts(item, result) ==
  result.status \in {"Accepted", "RebootRequired"} /\ Metadata(item).mutability # WO

\* What was accepted and is not overwritten by one of the first n items is kept.
Keeps(request, n, results, ks, ov) ==
  \A i \in 1..n :
    Counts(request[i], results[i]) /\ Lasting(request, n, i) => Kept(ks, ov, request[i])

Recorded(request, n, c) ==
  /\ \E S : c.results \in Seq(S)
  /\ Len(c.results) = n
  /\ Keeps(request, n, c.results, c.keys, c.overrides)

LEMMA AnsweredFields ==
  ASSUME NEW s, NEW c, Working(s, c), NEW st, NEW reason, NEW text, NEW shown
  PROVE  /\ Answered(c, st, reason, text, shown).keys = c.keys
         /\ Answered(c, st, reason, text, shown).overrides = c.overrides
         /\ \E r : r.status = st /\ Answered(c, st, reason, text, shown).results = Append(c.results, r)
  <1>1. PICK r : r = [status |-> st, reason |-> reason, text |-> text, shown |-> shown]
    OBVIOUS
  <1>2. r.status = st /\ Answered(c, st, reason, text, shown).results = Append(c.results, r)
    BY <1>1 DEF Working, Fields, Answered
  <1> QED
    BY <1>2 DEF Working, Fields, Answered

\* An accepted value is kept, and values under other keys still are.
LEMMA EffectKeeps ==
  ASSUME NEW s, NEW c, Working(s, c), NEW item, Accepts(c, item), NEW d, Effect(c, item, d),
         NEW other, Kept(c.keys, c.overrides, other),
         KeyName(Metadata(item)) # KeyName(Metadata(other))
  PROVE  Kept(d.keys, d.overrides, other)
  <1>1. DOMAIN c.keys \subseteq DOMAIN d.keys
    BY DEF Effect
  <1>2. VariableKey(other) \notin InvalidVariables(d.keys)
    BY <1>1, InvalidFewer DEF Kept
  <1>3. CASE Stored(Metadata(other))
    <2>1. KeyName(Metadata(other)) \in DOMAIN c.keys
      BY <1>3 DEF Kept
    <2>2. d.keys[KeyName(Metadata(other))] = c.keys[KeyName(Metadata(other))]
      BY <2>1 DEF Effect
    <2> QED
      BY <1>1, <1>2, <1>3, <2>1, <2>2 DEF Kept
  <1>4. CASE ~Stored(Metadata(other))
    <2>1. ASSUME Metadata(item).persistence = V PROVE VariableKey(item) # VariableKey(other)
      <3>1. PICK i \in DOMAIN Registry :
              Metadata(item) = Registry[i] /\ Metadata(item).variable = item.variable
        BY MetadataIs DEF Accepts
      <3>2. PICK j \in DOMAIN Registry :
              Metadata(other) = Registry[j] /\ Metadata(other).variable = other.variable
        BY MetadataIs DEF Kept
      <3>3. Metadata(item).instance = Unset
        BY <2>1, <3>1, VariablesAssumption DEF Accepts, WellFormed
      <3>4. Metadata(other).instance = Unset
        BY <1>4, <3>2, VariablesAssumption DEF Kept, WellFormed
      <3>5. item.variable # other.variable
        BY <3>1, <3>2, <3>3, <3>4 DEF KeyName, Key
      <3> QED
        BY <3>5 DEF VariableKey, CompositeKey
    <2>2. /\ VariableKey(other) \in DOMAIN d.overrides
          /\ d.overrides[VariableKey(other)] = c.overrides[VariableKey(other)]
      BY <1>4, <2>1 DEF Effect, Kept, AddKey
    <2> QED
      BY <1>2, <1>4, <2>2 DEF Kept
  <1> QED
    BY <1>3, <1>4

LEMMA EffectKept ==
  ASSUME NEW s, NEW c, Working(s, c), NEW item, Accepts(c, item), NEW d, Effect(c, item, d),
         Metadata(item).mutability # WO
  PROVE  Kept(d.keys, d.overrides, item)
  <1>1. DOMAIN keys[s] \subseteq DOMAIN d.keys
    BY DEF Effect, Working
  <1>2. VariableKey(item) \notin InvalidVariables(d.keys)
    <2>1. VariableKey(item) \notin InvalidVariables(keys[s])
      BY DEF Accepts, Working
    <2> QED
      BY <1>1, <2>1, InvalidFewer
  <1>3. CASE Stored(Metadata(item))
    BY <1>2, <1>3 DEF Accepts, Effect, Kept
  <1>4. CASE ~Stored(Metadata(item))
    <2>1. PICK i \in DOMAIN Registry : Metadata(item) = Registry[i]
      BY MetadataIs DEF Accepts
    <2>2. Metadata(item).persistence = V
      BY <1>4, <2>1, VariablesAssumption DEF WellFormed, Stored
    <2>3. VariableKey(item) \in DOMAIN d.overrides /\ d.overrides[VariableKey(item)] = item.raw.text
      BY <2>2 DEF Effect, AddKey
    <2> QED
      BY <1>2, <1>4, <2>2, <2>3 DEF Accepts, Kept
  <1> QED
    BY <1>3, <1>4

LEMMA SetRecords ==
  ASSUME NEW s, NEW c, Working(s, c), NEW request, NEW n \in Nat, Recorded(request, n, c),
         request[n + 1].raw \in Raws
  PROVE  Recorded(request, n + 1, SetVariable(c, request[n + 1]))
  <1>1. PICK item : item = request[n + 1]
    OBVIOUS
  <1>2. PICK d : d = SetVariable(c, item)
    OBVIOUS
  <1>3. ASSUME NEW r, d.results = Append(c.results, r),
               Counts(item, r) => Kept(d.keys, d.overrides, item),
               \A i \in 1..n : Lasting(request, n + 1, i) /\ Kept(c.keys, c.overrides, request[i])
                                 => Kept(d.keys, d.overrides, request[i])
        PROVE  Recorded(request, n + 1, d)
    <2>1. /\ \E S : d.results \in Seq(S)
          /\ Len(d.results) = n + 1 /\ d.results[n + 1] = r
          /\ \A i \in 1..n : d.results[i] = c.results[i]
      <3>1. PICK q : q = c.results
        OBVIOUS
      <3>2. PICK S : q \in Seq(S)
        BY <3>1 DEF Recorded
      <3>3. Len(q) = n
        BY <3>1 DEF Recorded
      <3>4. Append(q, r) \in Seq(S \union {r})
        BY <3>2
      <3>5. Len(Append(q, r)) = n + 1 /\ Append(q, r)[n + 1] = r
        BY <3>2, <3>3
      <3>6. \A i \in 1..n : Append(q, r)[i] = q[i]
        BY <3>2, <3>3
      <3> QED
        BY <1>3, <3>1, <3>4, <3>5, <3>6
    <2>2. ASSUME NEW i \in 1..(n + 1), Counts(request[i], d.results[i]), Lasting(request, n + 1, i)
          PROVE  Kept(d.keys, d.overrides, request[i])
      <3>1. CASE i = n + 1
        BY <1>1, <1>3, <2>1, <2>2, <3>1
      <3>2. CASE i \in 1..n
        <4>1. Lasting(request, n, i)
          BY <2>2 DEF Lasting
        <4>2. Counts(request[i], c.results[i])
          BY <2>1, <2>2, <3>2
        <4> QED
          BY <1>3, <2>2, <3>2, <4>1, <4>2 DEF Recorded, Keeps
      <3> QED
        BY <3>1, <3>2
    <2> QED
      BY <2>1, <2>2 DEF Recorded, Keeps
  <1>4. ASSUME Accepts(c, item), d = Store(c, item)
        PROVE  Recorded(request, n + 1, d)
    <2>1. Effect(c, item, d)
      BY <1>1, <1>4, StoreWorks
    <2>2. PICK r : d.results = Append(c.results, r)
      BY <2>1 DEF Effect
    <2>3. Counts(item, r) => Kept(d.keys, d.overrides, item)
      BY <1>4, <2>1, EffectKept DEF Counts
    <2>4. ASSUME NEW i \in 1..n, Lasting(request, n + 1, i), Kept(c.keys, c.overrides, request[i])
          PROVE  Kept(d.keys, d.overrides, request[i])
      <3>1. KeyName(Metadata(item)) # KeyName(Metadata(request[i]))
        BY <1>1, <2>4 DEF Lasting
      <3> QED
        BY <1>4, <2>1, <2>4, <3>1, EffectKeeps
    <2> QED
      BY <1>3, <2>2, <2>3, <2>4
  <1>5. ASSUME NEW st \in Refusals, NEW reason, d = Refused(c, st, reason)
        PROVE  Recorded(request, n + 1, d)
    <2>1. PICK r : r.status = st /\ d.results = Append(c.results, r)
      BY <1>5, AnsweredFields DEF Refused
    <2>2. d.keys = c.keys /\ d.overrides = c.overrides
      BY <1>5, AnsweredFields DEF Refused
    <2>3. ~Counts(item, r)
      BY <2>1 DEF Counts, Refusals
    <2> QED
      BY <1>3, <2>1, <2>2, <2>3
  <1> QED
    BY <1>1, <1>2, <1>4, <1>5, SetIs

\* The items of a request, one after the other.
LEMMA RequestWorks ==
  ASSUME NEW s, KeysOK(keys[s]), NEW request, request \in Seq(Items), NEW kind,
         NEW done, done = Outcomes(s, request, kind)[Len(request)]
  PROVE  Working(s, done) /\ (kind = "set" => Recorded(request, Len(request), done))
  <1>1. PICK after : after = Outcomes(s, request, kind)
    OBVIOUS
  <1>2. PICK m \in Nat : m = Len(request)
    OBVIOUS
  <1>3. after[0] = Context(s) /\ \A n \in 1..m : after[n] = Apply(kind, after[n - 1], request[n])
    BY <1>1, <1>2, OutcomesIs
  <1> DEFINE S == {n \in 0..m : Working(s, after[n]) /\ (kind = "set" => Recorded(request, n, after[n]))}
  <1>4. 0 \in S
    <2>1. Working(s, after[0])
      BY <1>3, ContextWorks
    <2>2. after[0].results = <<>>
      BY <1>3 DEF Context
    <2>3. after[0].results \in Seq({}) /\ Len(after[0].results) = 0
      BY <2>2
    <2>4. Recorded(request, 0, after[0])
      BY <2>3 DEF Recorded, Keeps
    <2> QED
      BY <2>1, <2>4
  <1>5. ASSUME NEW n \in 0..m, n \in S, n + 1 <= m PROVE n + 1 \in S
    <2>1. n + 1 \in 1..m /\ n \in Nat
      BY <1>5
    <2>2. after[n + 1] = Apply(kind, after[n], request[n + 1])
      BY <1>3, <2>1
    <2>3. request[n + 1] \in Items
      BY <1>2, <2>1
    <2>4. request[n + 1].raw \in Raws
      BY <2>3 DEF Items
    <2>5. Working(s, after[n]) /\ (kind = "set" => Recorded(request, n, after[n]))
      BY <1>5
    <2>6. CASE kind = "set"
      <3>1. after[n + 1] = SetVariable(after[n], request[n + 1])
        BY <2>2, <2>6 DEF Apply
      <3>2. Working(s, after[n + 1])
        BY <2>4, <2>5, <3>1, SetWorks
      <3>3. Recorded(request, n + 1, after[n + 1])
        BY <2>1, <2>4, <2>5, <2>6, <3>1, SetRecords
      <3> QED
        BY <2>1, <3>2, <3>3
    <2>7. CASE kind # "set"
      <3>1. after[n + 1] = GetVariable(after[n], request[n + 1])
        BY <2>2, <2>7 DEF Apply
      <3> QED
        BY <2>1, <2>5, <2>7, <3>1, GetWorks
    <2> QED
      BY <2>6, <2>7
  <1>6. m \in S
    <2> HIDE DEF S
    <2>1. \A n \in 0..m : n \in S /\ n + 1 <= m => n + 1 \in S
      BY <1>5
    <2>2. \A n \in 0..m : n \in S
      BY <1>4, <2>1, Induction
    <2> QED
      BY <2>2
  <1> QED
    BY <1>1, <1>2, <1>6

-----------------------------------------------------------------------------
(* The inductive invariant *)

\* A file is empty or the work of a write, with keys if its hash is of keys.
FileOK(f) ==
  /\ f.keys = NoKeys \/ KeysOK(f.keys)
  /\ f.status \in Statuses
  /\ \/ f.hash = <<>> /\ f.keys = NoKeys
     \/ \E ks : f.hash = Content(ks, f.status) /\ (ks = NoKeys <=> f.keys = NoKeys)

\* Only a station that has not been registered yet writes no keys.
WriteOK(w) ==
  /\ w.station \in Stations
  /\ \E ks : \E st \in Statuses :
       w.hash = Content(ks, st) /\ (ks = NoKeys => life[w.station] = "initialised")

\* The last write of connectors without status is of the keys there are or of none,
\* unless a request set keys back.
LastOK(w) ==
  w.hash[2] = None /\ ~setBack[w.station] => w.hash[1] \in {NoKeys, keys[w.station]}

\* So is the file, when it is written.
Named(s) == file[s].status = None /\ ~setBack[s] => file[s].keys = file[s].hash[1]

Pending(s) == \E i \in DOMAIN writes : writes[i].station = s

\* What a station that is stopped saves, and then has saved.
Saving(s) ==
  IF Pending(s) THEN writes = <<[station |-> s, hash |-> Content(keys[s], None)]>> /\ ~cached[s]
  ELSE /\ file[s].hash = Content(keys[s], None)
       /\ file[s].keys = keys[s] \/ (setBack[s] /\ ~cached[s])

\* The keys have all that is in the file, or all that its hash was taken of.
Lag(s) == Extends(keys[s], file[s].keys) \/ Extends(keys[s], file[s].hash[1])

Written(s) == Lag(s) /\ Named(s) /\ (life[s] # "initialised" => file[s].keys # NoKeys)

StationOK(s) ==
  /\ FileOK(file[s])
  /\ KeysOK(keys[s])
  /\ Timed(heartbeat[s], ping[s], stale[s])
  /\ life[s] # "down" => fileHash[s] = file[s].hash
  /\ life[s] # "down" /\ ~Pending(s) => Written(s)
  /\ life[s] = "registered" => Timers(s)
  /\ life[s] = "stopped" => Saving(s)

Arrays ==
  /\ status \in [Stations -> Statuses]
  /\ life \in [Stations -> {"down", "initialised", "registered", "stopped"}]
  /\ cached \in [Stations -> BOOLEAN]
  /\ DOMAIN keys = Stations /\ DOMAIN file = Stations /\ DOMAIN fileHash = Stations
  /\ DOMAIN heartbeat = Stations /\ DOMAIN ping = Stations
  /\ stale \in [Stations -> SUBSET TimerVariables]
  /\ setBack \in [Stations -> BOOLEAN]

Queue ==
  /\ \E S : writes \in Seq(S)
  /\ \A i \in DOMAIN writes : WriteOK(writes[i]) /\ writes[i].station = writes[1].station
  /\ writes # <<>> => LastOK(writes[Len(writes)])

\* The values an answer accepted are there to be read.
AnswerOK ==
  answer.kind = "set" =>
    /\ answer.request \in Seq(Items)
    /\ Keeps(answer.request, Len(answer.request), answer.results, keys[answer.station], overrides)

StationsOK == \A s \in Stations : StationOK(s)

Inv == Arrays /\ StationsOK /\ Queue /\ AnswerOK

LEMMA InvTypes == Inv => TypeOK
  BY DEF Inv, Arrays, StationsOK, StationOK, Timed, FileOK, KeysOK, Queue, WriteOK, TypeOK

LEMMA InvCurrent == Inv => FileOrHashIsCurrent
  <1> SUFFICES ASSUME Inv, NEW s \in Stations, Settled(s)
               PROVE  /\ Extends(keys[s], file[s].keys) \/ Extends(keys[s], file[s].hash[1])
                      /\ life[s] # "initialised" => file[s].keys # NoKeys /\ file[s].hash[1] # NoKeys
    BY DEF FileOrHashIsCurrent
  <1>1. StationOK(s) /\ ~Pending(s)
    BY DEF Inv, StationsOK, Settled, Pending
  <1>2. Written(s) /\ FileOK(file[s])
    BY <1>1 DEF StationOK, Settled
  <1>3. ASSUME file[s].keys # NoKeys PROVE file[s].hash[1] # NoKeys
    BY <1>2, <1>3 DEF FileOK, Content
  <1> QED
    BY <1>2, <1>3 DEF Written, Lag

LEMMA InvStopped == Inv => StoppedIsSaved
  <1> SUFFICES ASSUME Inv, NEW s \in Stations, Settled(s), life[s] = "stopped"
               PROVE  /\ file[s].hash = Content(keys[s], None)
                      /\ file[s].keys = keys[s] \/ setBack[s]
    BY DEF StoppedIsSaved
  <1>1. StationOK(s) /\ ~Pending(s)
    BY DEF Inv, StationsOK, Settled, Pending
  <1> QED
    BY <1>1 DEF StationOK, Saving

LEMMA InvTimers == Inv => TimersFollowKeys
  BY DEF Inv, StationsOK, StationOK, Timers, Follows, TimersFollowKeys

\* A value that is kept is the one GetVariables reports.
LEMMA KeptReads ==
  ASSUME NEW s, NEW item, Kept(keys[s], overrides, item),
         Metadata(item).mutability # WO, item.raw.text # Unset
  PROVE  ReadBack(s, item).text = item.raw.text
  <1>1. PICK c : c = Context(s)
    OBVIOUS
  <1>2. PICK m : m = Metadata(item)
    OBVIOUS
  <1>3. PICK r : r = Resolved(c, item)
    OBVIOUS
  <1>4. /\ Extends(c.keys, keys[s]) /\ c.invalid = InvalidVariables(keys[s])
        /\ c.overrides = overrides /\ c.results = <<>> /\ "results" \in DOMAIN c
    BY <1>1, Validated DEF Context
  <1>5. r.context = c /\ r.value = item.raw.text
    <2>1. CASE Stored(m)
      <3>1. KeyName(m) \in DOMAIN c.keys /\ c.keys[KeyName(m)] = item.raw.text
        BY <1>2, <1>4, <2>1 DEF Kept, Extends
      <3> QED
        BY <1>2, <1>3, <2>1, <3>1 DEF Resolved, HasKey
    <2>2. CASE ~Stored(m)
      BY <1>2, <1>3, <1>4, <2>2 DEF Resolved, Kept
    <2> QED
      BY <2>1, <2>2
  <1>6. \E shown : GetVariable(c, item) = Answered(c, "Accepted", "NoError", item.raw.text, shown)
    BY <1>2, <1>3, <1>4, <1>5 DEF GetVariable, Kept
  <1>7. PICK shown : GetVariable(c, item) = Answered(c, "Accepted", "NoError", item.raw.text, shown)
    BY <1>6
  <1>8. GetVariable(c, item).results =
          <<[status |-> "Accepted", reason |-> "NoError", text |-> item.raw.text, shown |-> shown]>>
    BY <1>4, <1>7 DEF Answered
  <1> QED
    BY <1>1, <1>8 DEF ReadBack

LEMMA InvReads == Inv => AcceptedReadsBack
  <1> SUFFICES ASSUME Inv, answer.kind = "set", NEW i \in DOMAIN answer.request,
                      NEW item, item = answer.request[i],
                      answer.results[i].status \in {"Accepted", "RebootRequired"},
                      Metadata(item).mutability # WO, item.raw.text # Unset,
                      \A j \in DOMAIN answer.request : j > i =>
                        KeyName(Metadata(answer.request[j])) # KeyName(Metadata(item))
               PROVE  ReadBack(answer.station, item).text = item.raw.text
    BY DEF AcceptedReadsBack
  <1>1. DOMAIN answer.request = 1..Len(answer.request)
    BY DEF Inv, AnswerOK
  <1>2. Kept(keys[answer.station], overrides, item)
    BY <1>1 DEF Inv, AnswerOK, Keeps, Counts, Lasting
  <1> QED
    BY <1>2, KeptReads

-----------------------------------------------------------------------------
(* The invariant is inductive *)

LEMMA InitInv == Init => Inv
  <1> SUFFICES ASSUME Init PROVE Inv
    OBVIOUS
  <1>1. KeysOK(TemplateKeys)
    BY VariablesAssumption DEF KeysOK
  <1>2. writes \in Seq({}) /\ DOMAIN writes = {}
    BY DEF Init
  <1>3. Queue
    BY <1>2 DEF Queue
  <1>4. Arrays
    BY DEF Init, Arrays, Statuses, None
  <1>5. ASSUME NEW s \in Stations PROVE StationOK(s)
    <2>1. file[s] = NoFile /\ keys[s] = TemplateKeys /\ heartbeat[s] = None /\ ping[s] = None
          /\ life[s] = "down" /\ stale[s] = {}
      BY <1>5 DEF Init
    <2>2. FileOK(NoFile)
      BY DEF FileOK, NoFile, Statuses, None
    <2> QED
      BY <1>1, <2>1, <2>2 DEF StationOK, Timed
  <1>6. AnswerOK
    BY DEF Init, AnswerOK, NoAnswer, None
  <1> QED
    BY <1>3, <1>4, <1>5, <1>6 DEF Inv, StationsOK

\* A step leaves station o alone.
Same(o) ==
  /\ keys'[o] = keys[o] /\ file'[o] = file[o] /\ fileHash'[o] = fileHash[o]
  /\ status'[o] = status[o] /\ life'[o] = life[o]
  /\ heartbeat'[o] = heartbeat[o] /\ ping'[o] = ping[o] /\ stale'[o] = stale[o]
  /\ setBack'[o] = setBack[o] /\ cached'[o] = cached[o]

\* The writes a step asks for are of station s.
WritesOf(s) == writes = <<>> /\ \A i \in DOMAIN writes' : writes'[i].station = s

LEMMA Others ==
  ASSUME NEW s, NEW o, o # s, StationOK(o), WritesOf(s), Same(o)
  PROVE  StationOK(o)'
  <1>1. ~Pending(o) /\ ~Pending(o)'
    BY DEF WritesOf, Pending
  <1>2. FileOK(file[o])' /\ KeysOK(keys[o])'
    BY DEF StationOK, Same
  <1>3. Timers(o) => Timers(o)'
    BY DEF Timers, Follows, Same
  <1>4. Written(o) => Written(o)'
    BY DEF Written, Lag, Named, Same
  <1>5. Saving(o) => Saving(o)'
    BY <1>1 DEF Saving, Same
  <1> QED
    BY <1>1, <1>2, <1>3, <1>4, <1>5 DEF StationOK, Timed, Same

\* saveConfiguration asks for a write of the content or for none.
LEMMA Saves ==
  ASSUME NEW s, NEW content, NEW hash
  PROVE  \/ content = hash /\ SaveConfiguration(s, content, hash) = <<>>
         \/ /\ content # hash
            /\ SaveConfiguration(s, content, hash) = <<[station |-> s, hash |-> content]>>
  BY DEF SaveConfiguration

\* Two saves of the same moment.
TwoSaves(s, a, b, hash, q) ==
  /\ \E S : q \in Seq(S)
  /\ \A i \in DOMAIN q : q[i].station = s /\ q[i].hash \in {a, b}
  /\ q = <<>> <=> (a = hash /\ b = hash)

LEMMA SavesTwo ==
  ASSUME NEW s, NEW a, NEW b, NEW hash
  PROVE  TwoSaves(s, a, b, hash, SaveConfiguration(s, a, hash) \o SaveConfiguration(s, b, hash))
  <1>0. PICK q : q = SaveConfiguration(s, a, hash) \o SaveConfiguration(s, b, hash)
    OBVIOUS
  <1> DEFINE v == [station |-> s, hash |-> a]
             w == [station |-> s, hash |-> b]
  <1>1. v.station = s /\ v.hash = a /\ w.station = s /\ w.hash = b
    OBVIOUS
  <1>2. SaveConfiguration(s, a, hash) = (IF a = hash THEN <<>> ELSE <<v>>)
        /\ SaveConfiguration(s, b, hash) = (IF b = hash THEN <<>> ELSE <<w>>)
    BY DEF SaveConfiguration
  <1> HIDE DEF v, w
  <1>3. /\ q \in Seq({v, w})
        /\ q = <<>> <=> (a = hash /\ b = hash)
    BY <1>0, <1>2
  <1>4. \A i \in DOMAIN q : q[i] \in {v, w}
    BY <1>3
  <1> QED
    BY <1>0, <1>1, <1>3, <1>4 DEF TwoSaves

LEMMA RefusedOK ==
  ASSUME NEW request, NEW n, NEW st, st \notin {"Accepted", "RebootRequired"}, NEW reason,
         request \in Seq(Items), NEW ks, NEW ov
  PROVE  Keeps(request, Len(request), RefuseAll(request, st, reason), ks, ov)
  <1>1. DOMAIN request = 1..Len(request)
    OBVIOUS
  <1>2. \A i \in 1..Len(request) : RefuseAll(request, st, reason)[i].status = st
    BY <1>1 DEF RefuseAll
  <1> QED
    BY <1>2 DEF Keeps, Counts

\* A step that leaves the answer alone, or says there is none.
LEMMA NoAnswerOK == answer' = NoAnswer => AnswerOK'
  BY DEF AnswerOK, NoAnswer, None

LEMMA WriteKeeps == Inv /\ Write => Inv'
  <1> SUFFICES ASSUME Inv, Write PROVE Inv'
    OBVIOUS
  <1>1. PICK w : w = Head(writes)
    OBVIOUS
  <1>2. PICK s : s = w.station
    OBVIOUS
  <1>3. PICK S : writes \in Seq(S) /\ writes # <<>>
    BY DEF Inv, Queue, Write
  <1>4. 1 \in DOMAIN writes /\ w = writes[1]
    BY <1>1, <1>3
  <1>5. s \in Stations /\ WriteOK(w) /\ StationOK(s) /\ Pending(s)
    BY <1>2, <1>4 DEF Inv, Queue, WriteOK, StationsOK, Pending
  <1>6. PICK st, ks :
          /\ st \in Statuses
          /\ w.hash = Content(ks, st)
          /\ ks = NoKeys => life[s] = "initialised"
    BY <1>2, <1>5 DEF WriteOK
  <1>7. PICK new : new = IF ks = NoKeys THEN NoKeys ELSE keys[s]
    OBVIOUS
  <1>8. /\ file' = [file EXCEPT ![s] = [keys |-> new, status |-> st, hash |-> w.hash]]
        /\ fileHash' = [fileHash EXCEPT ![s] = w.hash]
        /\ cached' = [cached EXCEPT ![s] = s \in CachedStations /\ new # NoKeys]
        /\ writes' = Tail(writes)
    <2>1. w.hash[1] = ks /\ w.hash[2] = st
      BY <1>6 DEF Content
    <2>2. /\ file' = [file EXCEPT ![s] = [keys |-> IF w.hash[1] = NoKeys THEN NoKeys ELSE keys[s],
                                          status |-> w.hash[2], hash |-> w.hash]]
          /\ fileHash' = [fileHash EXCEPT ![s] = w.hash]
          /\ cached' = [cached EXCEPT ![s] =
               s \in CachedStations /\ (IF w.hash[1] = NoKeys THEN NoKeys ELSE keys[s]) # NoKeys]
          /\ writes' = Tail(writes)
      BY <1>1, <1>2, Zenon DEF Write
    <2> QED
      BY <1>7, <2>1, <2>2
  <1>9. UNCHANGED <<keys, status, overrides, life, heartbeat, ping, stale, setBack, answer>>
    BY DEF Write
  <1>10. /\ file'[s].keys = new /\ file'[s].status = st /\ file'[s].hash = w.hash
         /\ fileHash'[s] = w.hash
    BY <1>5, <1>8 DEF Inv, Arrays
  <1>11. Arrays'
    BY <1>8, <1>9 DEF Inv, Arrays
  <1>12. /\ writes' \in Seq(S)
         /\ \A i \in DOMAIN writes' : i + 1 \in DOMAIN writes /\ writes'[i] = writes[i + 1]
         /\ \A i \in DOMAIN writes : i # 1 => i - 1 \in DOMAIN writes' /\ writes'[i - 1] = writes[i]
    BY <1>3, <1>8
  <1>13. Queue'
    <2>1. ASSUME NEW i \in DOMAIN writes'
          PROVE  WriteOK(writes[i])' /\ writes'[i].station = s
      <3>1. PICK v : v = writes[i + 1]
        OBVIOUS
      <3>2. WriteOK(v) /\ v = writes'[i] /\ v.station = s
        BY <1>2, <1>4, <1>12, <2>1, <3>1 DEF Inv, Queue
      <3> QED
        BY <1>9, <3>2 DEF WriteOK
    <2>2. ASSUME writes' # <<>> PROVE LastOK(writes[Len(writes)])'
      <3>1. PICK v : v = writes[Len(writes)]
        OBVIOUS
      <3>2. LastOK(v)
        BY <1>3, <3>1 DEF Inv, Queue
      <3>3. v = writes'[Len(writes')]
        BY <1>3, <1>8, <2>2, <3>1
      <3> QED
        BY <1>9, <3>2, <3>3 DEF LastOK
    <2>3. writes' # <<>> => 1 \in DOMAIN writes'
      BY <1>12
    <2>4. \A i \in DOMAIN writes' : writes'[i].station = writes'[1].station
      BY <1>12, <2>1, <2>3
    <2> QED
      BY <1>12, <2>1, <2>2, <2>4 DEF Queue
  <1>14. ASSUME NEW o \in Stations PROVE StationOK(o)'
    <2>1. StationOK(o) /\ KeysOK(keys[o])'
      BY <1>9 DEF Inv, StationsOK, StationOK
    <2>2. CASE o = s
      <3>1. keys[s] # NoKeys
        BY <2>1, <2>2, VariablesAssumption DEF StationOK, KeysOK, NoKeys
      <3>2. FileOK(file[o])'
        BY <1>5, <1>6, <1>7, <1>10, <2>2, <3>1 DEF FileOK, StationOK
      <3>3. Lag(o)'
        BY <1>7, <1>9, <1>10, <2>2 DEF Lag, Extends, NoKeys
      <3>4. life[o] # "initialised" => file'[o].keys # NoKeys
        BY <1>6, <1>7, <1>10, <2>2, <3>1
      <3>5. ASSUME ~Pending(o)' PROVE Named(o)'
        <4>1. writes' = <<>>
          <5>1. ASSUME writes' # <<>> PROVE FALSE
            <6>1. 1 \in DOMAIN writes' /\ writes'[1] = writes[2] /\ 2 \in DOMAIN writes
              BY <1>12, <5>1
            <6>2. writes'[1].station = s
              BY <1>2, <1>4, <6>1 DEF Inv, Queue
            <6> QED
              BY <2>2, <3>5, <6>1, <6>2 DEF Pending
          <5> QED
            BY <5>1
        <4>2. Len(writes) = 1
          <5>1. DOMAIN writes' = {}
            BY <4>1
          <5>2. 2 \notin DOMAIN writes
            BY <1>12, <5>1
          <5>3. Len(writes) \in Nat /\ DOMAIN writes = 1..Len(writes)
            BY <1>3
          <5> QED
            BY <1>4, <5>2, <5>3
        <4>3. LastOK(w)
          BY <1>3, <1>4, <4>2 DEF Inv, Queue
        <4>4. st = None /\ ~setBack[s] => ks \in {NoKeys, keys[s]}
          BY <1>2, <1>6, <4>3 DEF LastOK, Content
        <4>5. w.hash[1] = ks
          BY <1>6 DEF Content
        <4> QED
          BY <1>7, <1>9, <1>10, <2>2, <4>4, <4>5 DEF Named
      <3>6. Saving(o)' \/ life[o] # "stopped"
        <4>1. SUFFICES ASSUME life[o] = "stopped" PROVE Saving(o)'
          OBVIOUS
        <4>2. writes = <<[station |-> s, hash |-> Content(keys[s], None)]>>
          BY <1>5, <2>2, <4>1 DEF StationOK, Saving
        <4>3. writes' = <<>> /\ w.hash = Content(keys[s], None)
          BY <1>1, <1>8, <4>2
        <4>4. ks = keys[s] /\ st = None
          BY <1>6, <4>3 DEF Content
        <4>5. new = keys[s]
          BY <1>7, <4>4
        <4>6. ~Pending(o)'
          BY <4>3 DEF Pending
        <4> QED
          BY <1>6, <1>9, <1>10, <2>2, <4>3, <4>4, <4>5, <4>6 DEF Saving
      <3> QED
        BY <1>9, <1>10, <2>1, <2>2, <3>2, <3>3, <3>4, <3>5, <3>6
        DEF StationOK, Written, Timers, Timed, Follows
    <2>3. CASE o # s
      <3>1. Same(o)
        BY <1>8, <1>9, <2>3 DEF Inv, Arrays, Same
      <3>2. Pending(o) <=> Pending(o)'
        BY <1>2, <1>4, <1>12, <2>3 DEF Pending
      <3>3. FileOK(file[o])' /\ (Written(o) => Written(o)')
        BY <2>1, <3>1 DEF StationOK, Same, Written, Lag, Named
      <3>4. life[o] = "stopped" => ~Pending(o)
        <4>1. SUFFICES ASSUME life[o] = "stopped", Pending(o) PROVE FALSE
          OBVIOUS
        <4>2. writes = <<[station |-> o, hash |-> Content(keys[o], None)]>>
          BY <2>1, <4>1 DEF StationOK, Saving
        <4> QED
          BY <1>1, <1>2, <2>3, <4>2
      <3>5. life[o] = "stopped" => Saving(o)'
        BY <2>1, <3>1, <3>2, <3>4 DEF StationOK, Saving, Same
      <3> QED
        BY <2>1, <3>1, <3>2, <3>3, <3>5 DEF StationOK, Same, Timers, Timed, Follows
    <2> QED
      BY <2>2, <2>3
  <1>15. AnswerOK'
    BY <1>9 DEF Inv, AnswerOK
  <1> QED
    BY <1>11, <1>13, <1>14, <1>15 DEF Inv, StationsOK

\* What is left to show of a step of one station.
LEMMA OneStation ==
  ASSUME Inv, NEW s \in Stations, WritesOf(s), Arrays', Queue', AnswerOK', StationOK(s)',
         \A o \in Stations : o # s => Same(o)
  PROVE  Inv'
  <1>1. ASSUME NEW o \in Stations PROVE StationOK(o)'
    <2>1. CASE o = s
      BY <2>1
    <2>2. CASE o # s
      BY <2>2, Others DEF Inv, StationsOK
    <2> QED
      BY <2>1, <2>2
  <1> QED
    BY <1>1 DEF Inv, StationsOK

\* The writes that a step asks for when there were none.
LEMMA SavedQueue ==
  ASSUME NEW s \in Stations, NEW S, writes' \in Seq(S), NEW st \in Statuses,
         \A i \in DOMAIN writes' :
           /\ writes'[i].station = s
           /\ \E ks : /\ writes'[i].hash = Content(ks, st)
                      /\ ks = NoKeys => life'[s] = "initialised",
         writes' # <<>> /\ st = None /\ ~setBack'[s] =>
           writes'[Len(writes')].hash[1] \in {NoKeys, keys'[s]}
  PROVE  Queue'
  <1>1. ASSUME NEW i \in DOMAIN writes'
        PROVE  WriteOK(writes[i])' /\ writes'[i].station = writes'[1].station
    <2>1. 1 \in DOMAIN writes'
      BY <1>1
    <2>2. WriteOK(writes[i])'
      BY <1>1 DEF WriteOK
    <2> QED
      BY <1>1, <2>1, <2>2
  <1>2. ASSUME writes' # <<>> PROVE LastOK(writes[Len(writes)])'
    <2>1. PICK w : w = writes'[Len(writes')]
      OBVIOUS
    <2>2. w.station = s /\ \E ks : w.hash = Content(ks, st)
      BY <1>2, <2>1
    <2>3. w.hash[2] = st
      BY <2>2 DEF Content
    <2> QED
      BY <1>2, <2>1, <2>2, <2>3 DEF LastOK
  <1> QED
    BY <1>1, <1>2 DEF Queue

\* One save, of the keys of the moment after the step.
OneSave(s, content, hash) ==
  /\ WritesOf(s) /\ Queue'
  /\ \/ content = hash /\ ~Pending(s)'
     \/ Pending(s)' /\ writes' = <<[station |-> s, hash |-> content]>>

LEMMA SavesOne ==
  ASSUME NEW s \in Stations, NEW st \in Statuses, NEW content, content = Content(keys'[s], st),
         keys'[s] # NoKeys,
         NEW hash, writes = <<>>, writes' = SaveConfiguration(s, content, hash)
  PROVE  OneSave(s, content, hash)
  <1>1. CASE content = hash /\ writes' = <<>>
    <2>1. writes' \in Seq({}) /\ DOMAIN writes' = {}
      BY <1>1
    <2> QED
      BY <1>1, <2>1 DEF OneSave, WritesOf, Queue, Pending
  <1>2. CASE writes' = <<[station |-> s, hash |-> content]>>
    <2>1. PICK w : w = [station |-> s, hash |-> content]
      OBVIOUS
    <2>2. writes' = <<w>> /\ w.station = s /\ w.hash = Content(keys'[s], st)
      BY <1>2, <2>1
    <2>3. writes' \in Seq({w}) /\ DOMAIN writes' = {1} /\ writes'[1] = w /\ Len(writes') = 1
      BY <2>2
    <2>4. ASSUME NEW i \in DOMAIN writes'
          PROVE  writes'[i].station = s /\ writes'[i].hash = Content(keys'[s], st)
      BY <2>2, <2>3
    <2>5. writes'[Len(writes')].hash[1] = keys'[s]
      BY <2>2, <2>3 DEF Content
    <2>6. Queue'
      BY <2>3, <2>4, <2>5, SavedQueue
    <2> QED
      BY <1>2, <2>2, <2>3, <2>6 DEF OneSave, WritesOf, Pending
  <1> QED
    BY <1>1, <1>2, Saves

LEMMA BootKeeps == ASSUME NEW s \in Stations PROVE Inv /\ Boot(s) => Inv'
  <1> SUFFICES ASSUME Inv, Boot(s) PROVE Inv'
    OBVIOUS
  <1>1. PICK ks : ks = OcppConfiguration(file[s].keys)
    OBVIOUS
  <1>2. PICK st : st = file[s].status
    OBVIOUS
  <1>3. /\ life[s] = "down" /\ writes = <<>>
        /\ life' = [life EXCEPT ![s] = "initialised"]
        /\ keys' = [keys EXCEPT ![s] = ks]
        /\ status' = [status EXCEPT ![s] = st]
        /\ fileHash' = [fileHash EXCEPT ![s] = file[s].hash]
        /\ cached' = [cached EXCEPT ![s] = s \in CachedStations /\ file[s].keys # NoKeys]
        /\ writes' = SaveConfiguration(s, Content(NoKeys, st), file[s].hash)
                       \o SaveConfiguration(s, Content(ks, st), file[s].hash)
        /\ setBack' = [setBack EXCEPT ![s] = FALSE]
        /\ answer' = NoAnswer
        /\ UNCHANGED <<file, overrides, heartbeat, ping, stale>>
    BY <1>1, <1>2, Zenon DEF Boot
  <1>4. StationOK(s) /\ Arrays
    BY DEF Inv, StationsOK
  <1>5. st \in Statuses
    BY <1>2, <1>4 DEF StationOK, FileOK
  <1>6. KeysOK(ks) /\ ks # NoKeys
    <2>1. KeysOK(ks)
      <3>1. CASE file[s].keys = NoKeys
        BY <1>1, <3>1, VariablesAssumption DEF OcppConfiguration, KeysOK
      <3>2. CASE file[s].keys # NoKeys
        BY <1>1, <1>4, <3>2 DEF OcppConfiguration, StationOK, FileOK
      <3> QED
        BY <3>1, <3>2
    <2> QED
      BY <2>1, VariablesAssumption DEF KeysOK, NoKeys
  <1>7. /\ keys'[s] = ks /\ life'[s] = "initialised" /\ fileHash'[s] = file[s].hash
        /\ \A o \in Stations : o # s => Same(o)
    BY <1>3, <1>4 DEF Arrays, Same
  <1>8. TwoSaves(s, Content(NoKeys, st), Content(ks, st), file[s].hash, writes')
    BY <1>3, SavesTwo
  <1>9. PICK S : writes' \in Seq(S)
    BY <1>8 DEF TwoSaves
  <1>10. writes' # <<>>
    BY <1>6, <1>8 DEF TwoSaves, Content
  <1>11. 1 \in DOMAIN writes' /\ Len(writes') \in DOMAIN writes'
    BY <1>9, <1>10
  <1>12. Queue' /\ WritesOf(s) /\ Pending(s)'
    <2>1. ASSUME NEW i \in DOMAIN writes'
          PROVE  /\ writes'[i].station = s
                 /\ \E k : writes'[i].hash = Content(k, st) /\ k \in {NoKeys, keys'[s]}
      BY <1>7, <1>8 DEF TwoSaves
    <2>2. writes'[Len(writes')].hash[1] \in {NoKeys, keys'[s]}
      BY <1>11, <2>1 DEF Content
    <2>3. Queue'
      BY <1>5, <1>7, <1>9, <2>1, <2>2, SavedQueue
    <2> QED
      BY <1>3, <1>11, <2>1, <2>3 DEF WritesOf, Pending
  <1>13. Arrays'
    BY <1>3, <1>4, <1>5 DEF Arrays
  <1>14. StationOK(s)'
    BY <1>3, <1>4, <1>6, <1>7, <1>12 DEF StationOK, Timed
  <1> QED
    BY <1>3, <1>7, <1>12, <1>13, <1>14, NoAnswerOK, OneStation

LEMMA RegisterKeeps == ASSUME NEW s \in Stations PROVE Inv /\ Register(s) => Inv'
  <1> SUFFICES ASSUME Inv, Register(s) PROVE Inv'
    OBVIOUS
  <1>1. PICK ks : ks = [keys[s] EXCEPT ![HeartbeatKey] = BootInterval]
    OBVIOUS
  <1>2. PICK content : content = Content(ks, status[s])
    OBVIOUS
  <1>3. /\ life[s] = "initialised" /\ writes = <<>>
        /\ life' = [life EXCEPT ![s] = "registered"]
        /\ keys' = [keys EXCEPT ![s] = ks]
        /\ writes' = SaveConfiguration(s, content, fileHash[s])
        /\ heartbeat' = [heartbeat EXCEPT ![s] = HeartbeatInterval(ks)]
        /\ ping' = [ping EXCEPT ![s] = PingInterval(keys[s])]
        /\ answer' = NoAnswer
        /\ UNCHANGED <<status, file, fileHash, cached, overrides, stale, setBack>>
    BY <1>1, <1>2, Zenon DEF Register, HeartbeatKey
  <1>4. StationOK(s) /\ Arrays
    BY DEF Inv, StationsOK
  <1>5. KeysOK(ks) /\ ks # NoKeys
    <2>1. KeysOK(ks)
      BY <1>1, <1>4, VariablesAssumption DEF StationOK, KeysOK
    <2> QED
      BY <2>1, VariablesAssumption DEF KeysOK, NoKeys
  <1>6. PingInterval(ks) = PingInterval(keys[s])
    <2>1. HeartbeatKey # PingKey
      BY DEF HeartbeatKey, PingKey, Key
    <2> QED
      BY <1>1, <2>1, SamePing
  <1>7. /\ keys'[s] = ks /\ life'[s] = "registered"
        /\ heartbeat'[s] = HeartbeatInterval(ks) /\ ping'[s] = PingInterval(ks)
        /\ \A o \in Stations : o # s => Same(o)
    BY <1>3, <1>4, <1>6 DEF Arrays, Same
  <1>8. status[s] \in Statuses
    BY <1>4 DEF Arrays
  <1>9. OneSave(s, content, fileHash[s])
    BY <1>2, <1>3, <1>5, <1>7, <1>8, SavesOne
  <1>10. Arrays'
    BY <1>3, <1>4 DEF Arrays
  <1>11. Written(s)' \/ Pending(s)'
    <2>1. CASE content = fileHash[s]
      <3>1. file[s].hash = Content(ks, status[s])
        BY <1>2, <1>3, <1>4, <2>1 DEF StationOK
      <3>2. file[s].hash[1] = ks
        BY <3>1 DEF Content
      <3>3. file[s].keys # NoKeys
        BY <1>4, <1>5, <3>1, <3>2 DEF StationOK, FileOK, Content
      <3>4. Lag(s)'
        BY <1>3, <1>7, <3>2 DEF Lag, Extends
      <3>5. Named(s)'
        <4>1. Named(s)
          BY <1>3, <1>4 DEF StationOK, Written, Pending
        <4> QED
          BY <1>3, <4>1 DEF Named
      <3> QED
        BY <1>3, <3>3, <3>4, <3>5 DEF Written
    <2> QED
      BY <1>9, <2>1 DEF OneSave
  <1>12. StationOK(s)'
    BY <1>3, <1>4, <1>5, <1>7, <1>11, HeartbeatText, PingText DEF StationOK, Timers, Timed, Follows
  <1> QED
    BY <1>3, <1>7, <1>9, <1>10, <1>12, NoAnswerOK, OneStation DEF OneSave

LEMMA StatusNotifiedKeeps == ASSUME NEW s \in Stations PROVE Inv /\ StatusNotified(s) => Inv'
  <1> SUFFICES ASSUME Inv, StatusNotified(s) PROVE Inv'
    OBVIOUS
  <1>1. /\ status' = [status EXCEPT ![s] = "Available"]
        /\ UNCHANGED <<keys, file, fileHash, cached, writes, overrides, life, heartbeat, ping,
                       stale, setBack, answer>>
    BY DEF StatusNotified
  <1>2. Arrays'
    BY <1>1 DEF Inv, Arrays, Statuses
  <1>3. Queue' /\ AnswerOK'
    BY <1>1 DEF Inv, Queue, WriteOK, LastOK, AnswerOK
  <1>4. ASSUME NEW o \in Stations PROVE StationOK(o)'
    <2>1. StationOK(o)
      BY DEF Inv, StationsOK
    <2> QED
      BY <1>1, <2>1
      DEF StationOK, Written, Lag, Named, Saving, Pending, Timers, Timed, Follows
  <1> QED
    BY <1>2, <1>3, <1>4 DEF Inv, StationsOK

LEMMA StopKeeps == ASSUME NEW s \in Stations PROVE Inv /\ Stop(s) => Inv'
  <1> SUFFICES ASSUME Inv, Stop(s) PROVE Inv'
    OBVIOUS
  <1>1. PICK content : content = Content(keys[s], None)
    OBVIOUS
  <1>2. /\ writes = <<>> /\ life[s] \in {"initialised", "registered"}
        /\ life' = [life EXCEPT ![s] = "stopped"]
        /\ status' = [status EXCEPT ![s] = "none"]
        /\ heartbeat' = [heartbeat EXCEPT ![s] = None]
        /\ ping' = [ping EXCEPT ![s] = None]
        /\ stale' = [stale EXCEPT ![s] = {}]
        /\ writes' = SaveConfiguration(s, content, fileHash[s])
        /\ cached' = [cached EXCEPT ![s] = FALSE]
        /\ answer' = NoAnswer
        /\ UNCHANGED <<keys, file, fileHash, setBack>>
    BY <1>1 DEF Stop, None
  <1>3. StationOK(s) /\ Arrays /\ ~Pending(s)
    BY <1>2 DEF Inv, StationsOK, Pending
  <1>4. /\ keys'[s] = keys[s] /\ life'[s] = "stopped" /\ heartbeat'[s] = None /\ ping'[s] = None
        /\ stale'[s] = {} /\ cached'[s] = FALSE
        /\ \A o \in Stations : o # s => Same(o)
    BY <1>2, <1>3 DEF Arrays, Same
  <1>5. None \in Statuses /\ keys[s] # NoKeys
    BY <1>3, VariablesAssumption DEF Statuses, StationOK, KeysOK, NoKeys
  <1>6. OneSave(s, content, fileHash[s])
    BY <1>1, <1>2, <1>4, <1>5, SavesOne
  <1>7. Arrays'
    BY <1>2, <1>3 DEF Arrays, Statuses, None
  <1>8. Written(s) /\ FileOK(file[s]) /\ fileHash[s] = file[s].hash
    BY <1>2, <1>3 DEF StationOK
  <1>9. ASSUME content = fileHash[s], ~Pending(s)'
        PROVE  Saving(s)' /\ Written(s)'
    <2>1. file[s].hash = Content(keys[s], None)
      BY <1>1, <1>8, <1>9
    <2>2. file[s].status = None /\ file[s].hash[1] = keys[s] /\ file[s].keys # NoKeys
      BY <1>5, <1>8, <2>1 DEF FileOK, Content
    <2>3. file[s].keys = keys[s] \/ setBack[s]
      BY <1>8, <2>2 DEF Written, Named
    <2>4. Saving(s)'
      BY <1>2, <1>4, <1>9, <2>1, <2>3 DEF Saving
    <2>5. Lag(s)' /\ Named(s)'
      BY <1>2, <1>8, <2>2 DEF Written, Lag, Named
    <2> QED
      BY <1>2, <2>2, <2>4, <2>5 DEF Written
  <1>10. Saving(s)' /\ (Written(s)' \/ Pending(s)')
    <2>1. CASE content = fileHash[s] /\ ~Pending(s)'
      BY <1>9, <2>1
    <2>2. CASE Pending(s)' /\ writes' = <<[station |-> s, hash |-> content]>>
      BY <1>1, <1>4, <2>2 DEF Saving
    <2> QED
      BY <1>6, <2>1, <2>2 DEF OneSave
  <1>11. StationOK(s)'
    BY <1>2, <1>3, <1>4, <1>8, <1>10 DEF StationOK, Timed
  <1> QED
    BY <1>2, <1>4, <1>6, <1>7, <1>11, NoAnswerOK, OneStation DEF OneSave

LEMMA ResetKeeps == ASSUME NEW s \in Stations PROVE Inv /\ Reset(s) => Inv'
  <1> SUFFICES ASSUME Inv, Reset(s) PROVE Inv'
    OBVIOUS
  <1>1. PICK st : st = file[s].status
    OBVIOUS
  <1>2. PICK ks : /\ (ks = keys[s] /\ cached[s]) \/ ks = OcppConfiguration(file[s].keys)
                  /\ life[s] = "stopped" /\ writes = <<>>
                  /\ life' = [life EXCEPT ![s] = "initialised"]
                  /\ keys' = [keys EXCEPT ![s] = ks]
                  /\ status' = [status EXCEPT ![s] = st]
                  /\ writes' = SaveConfiguration(s, Content(keys[s], st), fileHash[s])
                                 \o SaveConfiguration(s, Content(ks, st), fileHash[s])
                  /\ cached' = [cached EXCEPT ![s] = s \in CachedStations]
                  /\ setBack' = [setBack EXCEPT ![s] = FALSE]
                  /\ answer' = NoAnswer
                  /\ UNCHANGED <<file, fileHash, overrides, heartbeat, ping, stale>>
    <2>1. PICK hit \in {FALSE, cached[s]} :
            LET new == IF hit THEN keys[s] ELSE OcppConfiguration(file[s].keys)
            IN  /\ life[s] = "stopped" /\ writes = <<>>
                /\ life' = [life EXCEPT ![s] = "initialised"]
                /\ keys' = [keys EXCEPT ![s] = new]
                /\ status' = [status EXCEPT ![s] = st]
                /\ writes' = SaveConfiguration(s, Content(keys[s], st), fileHash[s])
                               \o SaveConfiguration(s, Content(new, st), fileHash[s])
                /\ cached' = [cached EXCEPT ![s] = s \in CachedStations]
                /\ setBack' = [setBack EXCEPT ![s] = FALSE]
                /\ answer' = NoAnswer
                /\ UNCHANGED <<file, fileHash, overrides, heartbeat, ping, stale>>
      BY <1>1, Zenon DEF Reset
    <2> QED
      BY <2>1
  <1>3. StationOK(s) /\ Arrays /\ ~Pending(s)
    BY <1>2 DEF Inv, StationsOK, Pending
  <1>4. /\ Written(s) /\ FileOK(file[s]) /\ fileHash[s] = file[s].hash
        /\ file[s].hash = Content(keys[s], None)
        /\ file[s].keys = keys[s] \/ (setBack[s] /\ ~cached[s])
    BY <1>2, <1>3 DEF StationOK, Saving
  <1>5. st = None /\ file[s].keys # NoKeys /\ file[s].hash[1] = keys[s] /\ None \in Statuses
    BY <1>1, <1>2, <1>4 DEF Written, FileOK, Content, Statuses
  <1>6. ks = file[s].keys
    BY <1>2, <1>4, <1>5 DEF OcppConfiguration
  <1>7. KeysOK(ks) /\ ks # NoKeys
    BY <1>4, <1>5, <1>6 DEF FileOK
  <1>8. writes' = SaveConfiguration(s, Content(ks, None), fileHash[s])
    <2>1. SaveConfiguration(s, Content(keys[s], st), fileHash[s]) = <<>>
      BY <1>4, <1>5 DEF SaveConfiguration
    <2>2. PICK q : q = SaveConfiguration(s, Content(ks, None), fileHash[s])
      OBVIOUS
    <2>3. \E S : q \in Seq(S)
      <3>1. CASE q = <<>>
        BY <3>1
      <3>2. CASE q = <<[station |-> s, hash |-> Content(ks, None)]>>
        <4>1. PICK w : w = [station |-> s, hash |-> Content(ks, None)]
          OBVIOUS
        <4>2. q \in Seq({w})
          BY <3>2, <4>1
        <4> QED
          BY <4>2
      <3> QED
        BY <2>2, <3>1, <3>2, Saves
    <2> QED
      BY <1>2, <1>5, <2>1, <2>2, <2>3
  <1>9. /\ keys'[s] = ks /\ life'[s] = "initialised" /\ setBack'[s] = FALSE
        /\ \A o \in Stations : o # s => Same(o)
    BY <1>2, <1>3 DEF Arrays, Same
  <1>10. PICK content : content = Content(ks, None)
    OBVIOUS
  <1>11. OneSave(s, content, fileHash[s])
    BY <1>2, <1>5, <1>7, <1>8, <1>9, <1>10, SavesOne
  <1>12. Arrays'
    BY <1>2, <1>3, <1>5 DEF Arrays
  <1>13. ASSUME content = fileHash[s] PROVE Written(s)'
    <2>1. file[s].hash[1] = ks
      BY <1>4, <1>10, <1>13 DEF Content
    <2> QED
      BY <1>2, <1>5, <1>6, <1>9, <2>1 DEF Written, Lag, Named, Extends
  <1>14. StationOK(s)'
    BY <1>2, <1>3, <1>4, <1>7, <1>9, <1>11, <1>13 DEF StationOK, OneSave, Timed
  <1> QED
    BY <1>2, <1>9, <1>11, <1>12, <1>14, NoAnswerOK, OneStation DEF OneSave

LEMMA StartKeeps == ASSUME NEW s \in Stations PROVE Inv /\ Start(s) => Inv'
  <1> SUFFICES ASSUME Inv, Start(s) PROVE Inv'
    OBVIOUS
  <1>1. /\ life[s] = "stopped" /\ writes = <<>> /\ writes' = <<>>
        /\ life' = [life EXCEPT ![s] = "initialised"]
        /\ answer' = NoAnswer
        /\ UNCHANGED <<keys, status, file, fileHash, cached, overrides, heartbeat, ping, stale, setBack>>
    BY DEF Start
  <1>2. StationOK(s) /\ Arrays
    BY DEF Inv, StationsOK
  <1>3. writes' \in Seq({}) /\ DOMAIN writes' = {} /\ DOMAIN writes = {}
    BY <1>1
  <1>4. Queue' /\ WritesOf(s) /\ ~Pending(s)' /\ ~Pending(s)
    BY <1>1, <1>3 DEF Queue, WritesOf, Pending
  <1>5. /\ life'[s] = "initialised"
        /\ \A o \in Stations : o # s => Same(o)
    BY <1>1, <1>2 DEF Arrays, Same
  <1>6. Arrays'
    BY <1>1, <1>2 DEF Arrays
  <1>7. StationOK(s)'
    BY <1>1, <1>2, <1>4, <1>5 DEF StationOK, Written, Lag, Named, Timed
  <1> QED
    BY <1>1, <1>4, <1>5, <1>6, <1>7, NoAnswerOK, OneStation

LEMMA CrashKeeps == Inv /\ Crash => Inv'
  <1> SUFFICES ASSUME Inv, Crash PROVE Inv'
    OBVIOUS
  <1>1. Arrays'
    BY DEF Inv, Arrays, Crash
  <1>2. writes' \in Seq({}) /\ DOMAIN writes' = {}
    BY DEF Crash
  <1>3. Queue'
    BY <1>2 DEF Queue
  <1>4. ASSUME NEW s \in Stations PROVE StationOK(s)'
    BY DEF Inv, StationsOK, StationOK, Crash, Timed
  <1>5. AnswerOK'
    BY NoAnswerOK DEF Crash
  <1> QED
    BY <1>1, <1>3, <1>4, <1>5 DEF Inv, StationsOK

LEMMA RefuseKeeps ==
  ASSUME NEW s \in Stations, NEW request, request \in Seq(Items), NEW kind, NEW reason,
         Inv, Refuse(s, request, kind, reason), UNCHANGED <<status, file, fileHash, cached, life>>
  PROVE  Inv'
  <1>1. /\ UNCHANGED <<keys, status, file, fileHash, cached, life, overrides, heartbeat, ping, stale,
                       setBack, writes>>
        /\ answer' = [kind |-> kind, station |-> s, request |-> request,
                      results |-> RefuseAll(request, "Rejected", reason)]
    BY DEF Refuse
  <1>2. Keeps(request, Len(request), RefuseAll(request, "Rejected", reason), keys'[s], overrides')
    BY RefusedOK
  <1>3. AnswerOK'
    BY <1>1, <1>2 DEF AnswerOK
  <1>4. Arrays' /\ Queue'
    BY <1>1 DEF Inv, Arrays, Queue, WriteOK, LastOK
  <1>5. ASSUME NEW o \in Stations PROVE StationOK(o)'
    <2>1. StationOK(o)
      BY DEF Inv, StationsOK
    <2> QED
      BY <1>1, <2>1
      DEF StationOK, Written, Lag, Named, Saving, Pending, Timers, Timed, Follows
  <1> QED
    BY <1>3, <1>4, <1>5 DEF Inv, StationsOK

LEMMA AcceptKeeps ==
  ASSUME NEW s \in Stations, NEW request, request \in Seq(Items), NEW kind,
         life[s] = "registered", writes = <<>>, NEW done,
         done = Outcomes(s, request, kind)[Len(request)],
         Inv, Accept(s, request, kind, done), UNCHANGED <<status, file, fileHash, cached, life>>
  PROVE  Inv'
  <1>1. StationOK(s) /\ Arrays /\ ~Pending(s)
    BY DEF Inv, StationsOK, Pending
  <1>2. Working(s, done) /\ (kind = "set" => Recorded(request, Len(request), done))
    BY <1>1, RequestWorks DEF StationOK
  <1>3. /\ keys' = [keys EXCEPT ![s] = done.keys]
        /\ overrides' = done.overrides
        /\ heartbeat' = [heartbeat EXCEPT ![s] = done.heartbeat]
        /\ ping' = [ping EXCEPT ![s] = done.ping]
        /\ stale' = [stale EXCEPT ![s] = done.stale]
        /\ writes' = done.writes
        /\ setBack' = [setBack EXCEPT ![s] =
             IF done.writes = <<>> THEN @
             ELSE status[s] = None /\ done.writes[Len(done.writes)].hash[1] # done.keys]
    BY DEF Accept
  <1>4. /\ keys'[s] = done.keys /\ heartbeat'[s] = done.heartbeat /\ ping'[s] = done.ping
        /\ stale'[s] = done.stale
        /\ \A o \in Stations : o # s => Same(o)
    BY <1>1, <1>3 DEF Arrays, Same
  <1>5. status[s] \in Statuses /\ Timers(s) /\ fileHash[s] = file[s].hash /\ Written(s)
    BY <1>1 DEF StationOK, Arrays
  <1>6. Queue' /\ WritesOf(s)
    <2>1. PICK S : writes' \in Seq(S)
      BY <1>2, <1>3 DEF Working
    <2>2. ASSUME NEW i \in DOMAIN writes'
          PROVE  /\ writes'[i].station = s
                 /\ \E ks : writes'[i].hash = Content(ks, status[s]) /\ ks # NoKeys
      BY <1>2, <1>3 DEF Working
    <2>3. ASSUME writes' # <<>>, status[s] = None, ~setBack'[s]
          PROVE  writes'[Len(writes')].hash[1] = keys'[s]
      BY <1>1, <1>3, <1>4, <2>3 DEF Arrays
    <2>4. Queue'
      BY <1>5, <2>1, <2>2, <2>3, SavedQueue
    <2> QED
      BY <2>2, <2>4 DEF WritesOf
  <1>7. Arrays'
    <2>1. Timed(done.heartbeat, done.ping, done.stale)
      BY <1>1, <1>2 DEF Working, StationOK
    <2>2. done.stale \subseteq TimerVariables
      BY <2>1 DEF Timed
    <2>3. setBack' \in [Stations -> BOOLEAN]
      <3>1. PICK b \in BOOLEAN : b = (status[s] = None /\ done.writes[Len(done.writes)].hash[1] # done.keys)
        OBVIOUS
      <3>2. setBack' = [setBack EXCEPT ![s] = IF done.writes = <<>> THEN setBack[s] ELSE b]
        BY <1>3, <3>1
      <3> QED
        BY <1>1, <3>2 DEF Arrays
    <2> QED
      BY <1>1, <1>3, <2>2, <2>3 DEF Arrays
  <1>8. ASSUME ~Pending(s)' PROVE Written(s)'
    <2>1. done.writes = <<>>
      <3>1. PICK S : writes' \in Seq(S)
        BY <1>2, <1>3 DEF Working
      <3>2. ASSUME writes' # <<>> PROVE FALSE
        <4>1. 1 \in DOMAIN writes'
          BY <3>1, <3>2
        <4> QED
          BY <1>6, <1>8, <4>1 DEF WritesOf, Pending
      <3> QED
        BY <1>3, <3>2
    <2>2. Extends(done.keys, keys[s]) \/ Extends(done.keys, file[s].hash[1])
      BY <1>2, <1>5, <2>1 DEF Working
    <2>3. Extends(done.keys, file[s].keys) \/ Extends(done.keys, file[s].hash[1])
      BY <1>5, <2>2, ExtendsAgain DEF Written, Lag
    <2>4. Lag(s)'
      BY <1>4, <2>3 DEF Lag
    <2>5. setBack'[s] = setBack[s]
      BY <1>1, <1>3, <2>1 DEF Arrays
    <2>6. Named(s)'
      BY <1>5, <2>5 DEF Written, Named
    <2> QED
      BY <1>5, <2>4, <2>6 DEF Written
  <1>9. /\ KeysOK(done.keys) /\ Timed(done.heartbeat, done.ping, done.stale)
        /\ Follows(done.heartbeat, done.ping, done.stale, done.keys)
    BY <1>1, <1>2, <1>5 DEF Working, StationOK
  <1>10. StationOK(s)'
    BY <1>1, <1>4, <1>5, <1>8, <1>9 DEF StationOK, Timers, Timed, Follows
  <1>11. AnswerOK'
    <2>1. PICK results : results = EnforcePostCalculationBytesLimit(s, request, done.results)
      OBVIOUS
    <2>2. answer' = [kind |-> kind, station |-> s, request |-> request, results |-> results]
      BY <2>1 DEF Accept
    <2>3. kind = "set" => Keeps(request, Len(request), results, keys'[s], overrides')
      <3>1. CASE results = done.results
        BY <1>2, <1>3, <1>4, <3>1 DEF Recorded
      <3>2. CASE results = RefuseAll(request, "Rejected", "TooLargeElement")
        BY <3>2, RefusedOK
      <3> QED
        BY <2>1, <3>1, <3>2 DEF EnforcePostCalculationBytesLimit
    <2> QED
      BY <2>2, <2>3 DEF AnswerOK
  <1> QED
    BY <1>4, <1>6, <1>7, <1>10, <1>11, OneStation

LEMMA HandleKeeps ==
  ASSUME NEW s \in Stations, NEW request, request \in Seq(Items), NEW kind
  PROVE  Inv /\ Handle(s, request, kind) => Inv'
  <1> SUFFICES ASSUME Inv, Handle(s, request, kind) PROVE Inv'
    OBVIOUS
  <1>1. CASE Refuse(s, request, kind, EnforceMessageLimits(s, request))
    BY <1>1, RefuseKeeps DEF Handle
  <1>2. CASE Accept(s, request, kind, Outcomes(s, request, kind)[Len(request)])
    BY <1>2, AcceptKeeps DEF Handle
  <1> QED
    BY <1>1, <1>2 DEF Handle

LEMMA StepInv == Inv /\ [Next]_vars => Inv'
  <1> SUFFICES ASSUME Inv, [Next]_vars PROVE Inv'
    OBVIOUS
  <1>1. CASE Write
    BY <1>1, WriteKeeps
  <1>2. CASE Crash
    BY <1>2, CrashKeeps
  <1>3. ASSUME NEW s \in Stations, SetVariables(s) \/ GetVariables(s) PROVE Inv'
    <2>1. PICK request, kind : request \in Seq(Items) /\ Handle(s, request, kind)
      BY <1>3, VariablesAssumption DEF SetVariables, GetVariables
    <2> QED
      BY <2>1, HandleKeeps
  <1>4. ASSUME NEW s \in Stations, Boot(s) PROVE Inv'
    BY <1>4, BootKeeps
  <1>5. ASSUME NEW s \in Stations, Register(s) PROVE Inv'
    BY <1>5, RegisterKeeps
  <1>6. ASSUME NEW s \in Stations, Stop(s) PROVE Inv'
    BY <1>6, StopKeeps
  <1>7. ASSUME NEW s \in Stations, Reset(s) PROVE Inv'
    BY <1>7, ResetKeeps
  <1>8. ASSUME NEW s \in Stations, Start(s) PROVE Inv'
    BY <1>8, StartKeeps
  <1>9. ASSUME NEW s \in Stations, StatusNotified(s) PROVE Inv'
    BY <1>9, StatusNotifiedKeeps
  <1>10. CASE UNCHANGED vars
    <2>1. Arrays' /\ Queue' /\ AnswerOK'
      BY <1>10 DEF vars, Inv, Arrays, Queue, WriteOK, LastOK, AnswerOK
    <2>2. ASSUME NEW o \in Stations PROVE StationOK(o)'
      <3>1. StationOK(o)
        BY DEF Inv, StationsOK
      <3> QED
        BY <1>10, <3>1
        DEF vars, StationOK, Written, Lag, Named, Saving, Pending, Timers, Timed, Follows
    <2> QED
      BY <2>1, <2>2 DEF Inv, StationsOK
  <1> QED
    BY <1>1, <1>2, <1>3, <1>4, <1>5, <1>6, <1>7, <1>8, <1>9, <1>10 DEF Next

LEMMA Invariant == Spec => []Inv
  BY InitInv, StepInv, PTL DEF Spec

-----------------------------------------------------------------------------
(* The theorems *)

\* The values of keys, files and timers are values of the registry, of the template
\* or of requests, the keys of the template are never lost, and a write is of one
\* of the stations, for any registry, requests and stations.
THEOREM Typing == Spec => []TypeOK
  BY Invariant, InvTypes, PTL

\* saveConfiguration, skipped when the hash is that of the last write, leaves each
\* station with the values of its file or with those its file's hash was taken of, and
\* created keys besides; and once registered no station's file lacks its keys.
THEOREM FilesOrHashesAreCurrent == Spec => []FileOrHashIsCurrent
  BY Invariant, InvCurrent, PTL

\* After stop() and its write the file has the hash of all keys of the station, and
\* the keys themselves, whatever was created unsaved, skipped or lost in crashes
\* before; except for a request that set keys back before the connectors had statuses.
THEOREM StoppedAreSaved == Spec => []StoppedIsSaved
  BY Invariant, InvStopped, PTL

\* The heartbeat and the WebSocket ping of a registered station run with the
\* intervals of its keys, however requests and boots change them, unless the last to
\* set one named it in other letters than the registry.
THEOREM TimersAgree == Spec => []TimersFollowKeys
  BY Invariant, InvTimers, PTL

\* A value SetVariables accepts is the one GetVariables would report, through the
\* configuration keys or the overrides of the process, for requests of any length.
THEOREM SettingsReadBack == Spec => []AcceptedReadsBack
  BY Invariant, InvReads, PTL
=============================================================================
