------------------------------- MODULE C8yJson -------------------------------
(***************************************************************************)
(* json_c8y.rs: the conversions of a thin-edge software list, event and    *)
(* alarm into the Cumulocity JSON the mapper publishes.  A behaviour       *)
(* converts one input.                                                     *)
(*                                                                         *)
(* A JSON object is a sequence of <<key, value>> members in serialisation  *)
(* order, so that a key written twice (a struct field and an entry of a    *)
(* #[serde(flatten)] map) stays visible.  A JSON value is a record         *)
(* [t |-> kind, v |-> token]: a string, a number, the externalSource       *)
(* object of an external id, or a time.                                    *)
(***************************************************************************)
EXTENDS Naturals, Sequences, SequencesExt, FiniteSets

CONSTANTS
    Names,          \* event names and alarm types (contain "")
    Texts,          \* text values a payload may give
    Severities,     \* severity strings a payload may give
    EventKeys,      \* keys the extras of an event payload may have
    AlarmKeys,      \* keys the extras of an alarm payload may have
    ExternalIds,    \* external ids of entities
    MaxModules,     \* longest software list
    None            \* an absent optional value

Opt(S) == S \cup {None}

Str(s)   == [t |-> "str", v |-> s]
Num      == [t |-> "num", v |-> ""]
Src(id)  == [t |-> "src", v |-> id]
Now      == [t |-> "time", v |-> "now"]
Given    == [t |-> "time", v |-> "given"]

\* The JSON values an entry of a payload's extras may hold.
ExtraVals == {Str("s"), Str(""), Num, Src("other")}

\* A HashMap<String, Value>: the keys present and their values.
Maps(K) == UNION {[D -> ExtraVals] : D \in SUBSET K}

\* HashMap::remove.
MapRemove(m, k) == [x \in DOMAIN m \ {k} |-> m[x]]

\* The members of a flattened map, in some order (a HashMap has none).
Members(m) == SetToSeq({<<k, m[k]>> : k \in DOMAIN m})

\* A member that serde skips when the value is None.
OptMember(k, v) == IF v = None THEN <<>> ELSE <<<<k, v>>>>

-----------------------------------------------------------------------------
(* Software list, lines 72-124 *)

SoftwareModules ==
    [name : {"pkg"}, version : Opt({"1.0"}), module_type : Opt({"apt"}), url : Opt({"http"})]

\* SoftwareModule::default_type() (tedge_api, not under src/).
DefaultModuleType == "default"

\* Mutant: an absent url stays absent.
C8ySoftwareModuleItemNoUrl(module) ==
    [name          |-> module.name,
     version       |-> module.version,
     software_type |-> IF module.module_type = None THEN DefaultModuleType ELSE module.module_type,
     url           |-> module.url]

\* From<SoftwareModule> for C8ySoftwareModuleItem: an absent url becomes "".
C8ySoftwareModuleItem(module) ==
    [name          |-> module.name,
     version       |-> module.version,
     software_type |-> IF module.module_type = None THEN DefaultModuleType ELSE module.module_type,
     url           |-> IF module.url = None THEN "" ELSE module.url]

\* Its serialisation: version and the flattened url skipped when None.
ItemJson(item) ==
    <<<<"name", Str(item.name)>>>>
    \o OptMember("version", IF item.version = None THEN None ELSE Str(item.version))
    \o <<<<"softwareType", Str(item.software_type)>>>>
    \o OptMember("url", IF item.url = None THEN None ELSE Str(item.url))

\* From<&SoftwareListCommand> for C8yUpdateSoftwareListResponse: the items
\* of c8y_SoftwareList, in the order of the modules.
C8yUpdateSoftwareListResponse(modules) ==
    [i \in 1..Len(modules) |-> ItemJson(C8ySoftwareModuleItem(modules[i]))]

-----------------------------------------------------------------------------
(* Events, lines 126-179 *)

EventData == [text : Opt(Texts), time : Opt({Given}), extras : Maps(EventKeys)]
Events    == [name : Names, data : Opt(EventData), source : Opt(ExternalIds)]

\* Mutant: the payload's "type" is read with get instead of remove.
C8yCreateEventKeepsType(event) ==
    LET base   == IF event.source = None THEN <<>>
                  ELSE [k \in {"externalSource"} |-> Src(event.source)]
        d      == event.data
        extras == IF d = None THEN base ELSE d.extras @@ base
        type   == IF d # None /\ "type" \in DOMAIN extras
                     /\ extras["type"].t = "str" /\ extras["type"].v # ""
                  THEN extras["type"].v ELSE event.name
    IN [type   |-> type,
        time   |-> IF d = None \/ d.time = None THEN Now ELSE d.time,
        text   |-> IF d = None THEN event.name ELSE IF d.text = None THEN type ELSE d.text,
        extras |-> extras]

\* From<ThinEdgeEvent> for C8yCreateEvent, with
\* update_the_external_source_event: the source goes into the extras, the
\* payload's extras are added over it (HashMap::extend), and a "type" among
\* them is removed, replacing the event name when a non-empty string.
C8yCreateEvent(event) ==
    LET base   == IF event.source = None THEN <<>>
                  ELSE [k \in {"externalSource"} |-> Src(event.source)]
        d      == event.data
        merged == IF d = None THEN base ELSE d.extras @@ base
        type   == IF d # None /\ "type" \in DOMAIN merged
                     /\ merged["type"].t = "str" /\ merged["type"].v # ""
                  THEN merged["type"].v ELSE event.name
    IN [type   |-> type,
        time   |-> IF d = None \/ d.time = None THEN Now ELSE d.time,
        text   |-> IF d = None THEN event.name ELSE IF d.text = None THEN type ELSE d.text,
        extras |-> MapRemove(merged, "type")]

\* Its serialisation: source is None (skipped), the extras flattened.
EventJson(e) ==
    <<<<"type", Str(e.type)>>, <<"time", e.time>>, <<"text", Str(e.text)>>>>
    \o Members(e.extras)

-----------------------------------------------------------------------------
(* Alarms, lines 193-344 *)

AlarmData   == [severity : Opt(Severities), text : Opt(Texts), time : Opt({Given}),
                extras : Maps(AlarmKeys)]
EntityTypes == {"MainDevice", "ChildDevice", "Service"}
Alarms      == [alarm_type : Names, data : Opt(AlarmData)]

DEFAULT_ALARM_TYPE     == "ThinEdgeAlarm"
DEFAULT_ALARM_SEVERITY == "MINOR"

\* AlarmSeverity::try_from followed by Display: the upper-case name of one
\* of the four lower-case severities, None (an Err) for any other string.
AlarmSeverity(s) ==
    CASE s = "critical" -> "CRITICAL"
      [] s = "major"    -> "MAJOR"
      [] s = "minor"    -> "MINOR"
      [] s = "warning"  -> "WARNING"
      [] OTHER          -> None

\* convert_source: no source for the main device, the entity's external id
\* as a c8y_Serial for a child device or a service.
ConvertSource(xid, etype) == IF etype = "MainDevice" THEN None ELSE Src(xid)

\* convert_alarm_type.
ConvertAlarmType(t) == IF t = "" THEN DEFAULT_ALARM_TYPE ELSE t

\* Mutant: no default for a missing or rejected severity.
ConvertSeverityNoDefault(d) == IF d.severity = None THEN None ELSE AlarmSeverity(d.severity)

\* convert_severity.
ConvertSeverity(d) ==
    IF d.severity = None \/ AlarmSeverity(d.severity) = None
      THEN DEFAULT_ALARM_SEVERITY ELSE AlarmSeverity(d.severity)

\* Mutant: the payload's externalSource is kept among the fragments.
ConvertExtrasKeepsSource(d) == d.extras

\* convert_extras: the payload's externalSource is removed.
ConvertExtras(d) == MapRemove(d.extras, "externalSource")

\* convert_text: the payload's text, or the converted alarm type.
ConvertText(d, type) == IF d.text = None THEN type ELSE d.text

\* convert_time: the payload's time, or now.
ConvertTime(d) == IF d.time = None THEN Now ELSE d.time

\* Mutant: a clear alarm keeps the raw alarm type.
C8yAlarmClearRawType(alarm, xid, etype) ==
    LET source == ConvertSource(xid, etype)
        type   == ConvertAlarmType(alarm.alarm_type)
        d      == alarm.data
    IN IF d = None THEN [create |-> FALSE, type |-> alarm.alarm_type, source |-> source]
       ELSE [create |-> TRUE, type |-> type, source |-> source,
             severity |-> ConvertSeverity(d),
             text |-> ConvertText(d, type), time |-> ConvertTime(d),
             fragments |-> ConvertExtras(d)]

\* Mutant: convert_text is given the alarm type as published, "" included.
C8yAlarmTextRawType(alarm, xid, etype) ==
    LET source == ConvertSource(xid, etype)
        type   == ConvertAlarmType(alarm.alarm_type)
        d      == alarm.data
    IN IF d = None THEN [create |-> FALSE, type |-> type, source |-> source]
       ELSE [create |-> TRUE, type |-> type, source |-> source,
             severity |-> ConvertSeverity(d),
             text |-> ConvertText(d, alarm.alarm_type), time |-> ConvertTime(d),
             fragments |-> ConvertExtras(d)]

\* C8yAlarm::from: a Clear when the alarm has no data, else a Create with
\* convert_severity, convert_text (the type by default), convert_time (now
\* by default) and convert_extras.
C8yAlarm(alarm, xid, etype) ==
    LET source == ConvertSource(xid, etype)
        type   == ConvertAlarmType(alarm.alarm_type)
        d      == alarm.data
    IN IF d = None THEN [create |-> FALSE, type |-> type, source |-> source]
       ELSE [create |-> TRUE, type |-> type, source |-> source,
             severity |-> ConvertSeverity(d),
             text |-> ConvertText(d, type), time |-> ConvertTime(d),
             fragments |-> ConvertExtras(d)]

\* Serialisation of C8yCreateAlarm and C8yClearAlarm: externalSource
\* skipped when None, the fragments flattened.
AlarmJson(a) ==
    <<<<"type", Str(a.type)>>>> \o OptMember("externalSource", a.source)
    \o (IF a.create
          THEN <<<<"severity", Str(a.severity)>>, <<"text", Str(a.text)>>,
                 <<"time", a.time>>>> \o Members(a.fragments)
          ELSE <<>>)

-----------------------------------------------------------------------------

VARIABLES
    kind,       \* which conversion: "list", "event" or "alarm"
    modules,    \* the software list of a SoftwareListCommand
    event,      \* the ThinEdgeEvent
    alarm,      \* the ThinEdgeAlarm
    xid,        \* the external id of the alarm's entity
    etype,      \* the type of the alarm's entity
    out         \* the JSON objects published, None before the conversion

vars == <<kind, modules, event, alarm, xid, etype, out>>

ModuleLists == UNION {[1..n -> SoftwareModules] : n \in 0..MaxModules}

\* One input the mapper has received and not yet converted.
Init ==
    /\ out = None
    /\ \/ /\ kind = "list" /\ modules \in ModuleLists
          /\ event = None /\ alarm = None /\ xid = None /\ etype = None
       \/ /\ kind = "event" /\ event \in Events
          /\ modules = None /\ alarm = None /\ xid = None /\ etype = None
       \/ /\ kind = "alarm" /\ alarm \in Alarms /\ xid \in ExternalIds /\ etype \in EntityTypes
          /\ modules = None /\ event = None

ConvertSoftwareList ==
    /\ kind = "list" /\ out = None
    /\ out' = C8yUpdateSoftwareListResponse(modules)
    /\ UNCHANGED <<kind, modules, event, alarm, xid, etype>>

ConvertEvent ==
    /\ kind = "event" /\ out = None
    /\ out' = <<EventJson(C8yCreateEvent(event))>>
    /\ UNCHANGED <<kind, modules, event, alarm, xid, etype>>

ConvertAlarm ==
    /\ kind = "alarm" /\ out = None
    /\ out' = <<AlarmJson(C8yAlarm(alarm, xid, etype))>>
    /\ UNCHANGED <<kind, modules, event, alarm, xid, etype>>

Next == ConvertSoftwareList \/ ConvertEvent \/ ConvertAlarm

Spec == Init /\ [][Next]_vars

-----------------------------------------------------------------------------
(* The unit tests of json_c8y.rs (lines 356-733) as vectors: the input of  *)
(* a test and what it expects.  Strings are kept as the tests write them.  *)

\* datetime!(2021-04-23 19:00:00 +05:00), the time the payloads give.
TestTime == Given

\* HashMap::new().
NoExtras == [k \in {} |-> Num]

\* json!({"nested": {"value":"extra info"}}), a JSON object.
Nested == [t |-> "obj", v |-> "nested"]

Module(n, v, t, u) == [name |-> n, version |-> v, module_type |-> t, url |-> u]

Item(n, v, t, u) ==
    <<<<"name", Str(n)>>>> \o (IF v = None THEN <<>> ELSE <<<<"version", Str(v)>>>>)
    \o <<<<"softwareType", Str(t)>>, <<"url", Str(u)>>>>

\* from_software_module_to_c8y_software_module_item.
ModuleItemTests ==
    {[in   |-> Module("b", "c", "a", ""),
      want |-> [name |-> "b", version |-> "c", software_type |-> "a", url |-> ""]]}

\* from_thin_edge_json_to_c8y_set_software_list, with the modules as
\* SoftwareListCommand::modules() gives them (each with its group's type),
\* and empty_to_c8y_set_software_list.  The expected JSON of line 453.
SoftwareListTests ==
    {[in   |-> <<Module("a", None, "debian", None), Module("b", "1.0", "debian", None),
                 Module("c", None, "debian", "https://foobar.io/c.deb"),
                 Module("d", "beta", "debian", "https://foobar.io/d.deb"),
                 Module("m", None, "apama", "https://foobar.io/m.epl")>>,
      want |-> <<Item("a", None, "debian", ""), Item("b", "1.0", "debian", ""),
                 Item("c", None, "debian", "https://foobar.io/c.deb"),
                 Item("d", "beta", "debian", "https://foobar.io/d.deb"),
                 Item("m", None, "apama", "https://foobar.io/m.epl")>>],
     [in |-> <<>>, want |-> <<>>]}

ClickEvent(text) ==
    [name |-> "click_event", source |-> None,
     data |-> [text |-> text, time |-> TestTime, extras |-> NoExtras]]

CreatedEvent(type, time, text) ==
    [type |-> type, time |-> time, text |-> text, extras |-> NoExtras]

\* check_event_translation's three cases, then
\* event_translation_empty_json_payload_generates_timestamp and
\* event_translation_empty_payload (any time: the time of the conversion).
EventTests ==
    {[in   |-> ClickEvent("Someone clicked"),
      want |-> CreatedEvent("click_event", TestTime, "Someone clicked")],
     [in   |-> ClickEvent(None),
      want |-> CreatedEvent("click_event", TestTime, "click_event")],
     [in   |-> ClickEvent("Someone, clicked, it"),
      want |-> CreatedEvent("click_event", TestTime, "Someone, clicked, it")],
     [in   |-> [name |-> "empty_event", source |-> None,
                data |-> [text |-> None, time |-> None, extras |-> NoExtras]],
      want |-> CreatedEvent("empty_event", Now, "empty_event")],
     [in   |-> [name |-> "empty_event", source |-> None, data |-> None],
      want |-> CreatedEvent("empty_event", Now, "empty_event")]}

\* check_alarm_translation: the external id and entity type it passes for
\* an alarm of the main device or of the child device "external_source".
TestEntity(main) ==
    IF main THEN <<"main_device", "MainDevice">> ELSE <<"external_source", "ChildDevice">>

TempAlarm(frags) ==
    [alarm_type |-> "temperature alarm",
     data |-> [severity |-> "critical", text |-> "Temperature went high",
               time |-> TestTime, extras |-> frags]]

Created(type, source, severity, text, time, frags) ==
    [create |-> TRUE, type |-> type, source |-> source, severity |-> severity,
     text |-> text, time |-> time, fragments |-> frags]

\* The five cases of check_alarm_translation, then
\* alarm_translation_generates_timestamp_if_not_given.
AlarmTests ==
    {[in |-> TempAlarm(NoExtras), main |-> TRUE,
      want |-> Created("temperature alarm", None, "CRITICAL", "Temperature went high",
                       TestTime, NoExtras)],
     [in |-> TempAlarm("SomeCustomFragment" :> Nested), main |-> TRUE,
      want |-> Created("temperature alarm", None, "CRITICAL", "Temperature went high",
                       TestTime, "SomeCustomFragment" :> Nested)],
     [in |-> TempAlarm("SomeCustomFragment" :> Nested), main |-> FALSE,
      want |-> Created("temperature alarm", Src("external_source"), "CRITICAL",
                       "Temperature went high", TestTime, "SomeCustomFragment" :> Nested)],
     [in |-> [alarm_type |-> "", data |-> [severity |-> "invalid", text |-> None,
                                           time |-> TestTime, extras |-> NoExtras]],
      main |-> TRUE,
      want |-> Created("ThinEdgeAlarm", None, "MINOR", "ThinEdgeAlarm", TestTime, NoExtras)],
     [in |-> [alarm_type |-> "", data |-> None], main |-> TRUE,
      want |-> [create |-> FALSE, type |-> "ThinEdgeAlarm", source |-> None]],
     [in |-> [alarm_type |-> "", data |-> [severity |-> "critical", text |-> None,
                                           time |-> None, extras |-> NoExtras]],
      main |-> TRUE,
      want |-> Created("ThinEdgeAlarm", None, "CRITICAL", "ThinEdgeAlarm", Now, NoExtras)]}

-----------------------------------------------------------------------------
(* Properties *)

Keys(o)     == {o[i][1] : i \in DOMAIN o}
Value(o, k) == o[CHOOSE i \in DOMAIN o : o[i][1] = k][2]

\* Each key appears once in the object: no #[serde(flatten)] map entry
\* repeats a struct field.
KeysUnique(o) == \A i, j \in DOMAIN o : i # j => o[i][1] # o[j][1]

\* Which Cumulocity alarm an alarm message addresses: its type and source.
Address(o) ==
    <<Value(o, "type"),
      IF "externalSource" \in Keys(o) THEN Value(o, "externalSource") ELSE None>>

TypeOK ==
    /\ kind \in {"list", "event", "alarm"}
    /\ modules \in Opt(ModuleLists) /\ event \in Opt(Events)
    /\ alarm \in Opt(Alarms) /\ xid \in Opt(ExternalIds) /\ etype \in Opt(EntityTypes)
    /\ out = None \/ out \in Seq(Seq(STRING \X [t : {"str", "num", "src", "time"}, v : STRING]))

\* c8y_SoftwareList has one item per module, in order, each keeping the
\* module's name and version, with a softwareType and a url member ("" for
\* a module without a url): From<SoftwareModule> for C8ySoftwareModuleItem.
SoftwareListWellFormed ==
    kind = "list" /\ out # None =>
        /\ Len(out) = Len(modules)
        /\ \A i \in DOMAIN out :
             LET o == out[i]
                 m == modules[i]
             IN /\ KeysUnique(o)
                /\ Value(o, "name") = Str(m.name)
                /\ ("version" \in Keys(o)) = (m.version # None)
                /\ {"softwareType", "url"} \subseteq Keys(o)
                /\ Value(o, "url") = Str(IF m.url = None THEN "" ELSE m.url)

\* The event JSON has one "type", the payload's when it is a non-empty
\* string and the event name otherwise, and its text defaults to that type
\* (From<ThinEdgeEvent> for C8yCreateEvent and its tests).
EventJsonWellFormed ==
    kind = "event" /\ out # None =>
        LET o    == out[1]
            d    == event.data
            type == IF d # None /\ "type" \in DOMAIN d.extras
                         /\ d.extras["type"].t = "str" /\ d.extras["type"].v # ""
                    THEN d.extras["type"].v ELSE event.name
        IN /\ KeysUnique(o)
           /\ Value(o, "type") = Str(type)
           /\ Value(o, "text") = Str(IF d = None \/ d.text = None THEN type ELSE d.text)

\* The alarm JSON has each key once, a non-empty type, an externalSource
\* exactly when the entity is not the main device and then the entity's
\* own external id, whatever the payload's fragments say, and a severity
\* Cumulocity accepts (C8yAlarm::from, convert_source, convert_extras).
AlarmJsonWellFormed ==
    kind = "alarm" /\ out # None =>
        LET o == out[1] IN
        /\ KeysUnique(o)
        /\ Value(o, "type") # Str("")
        /\ ("externalSource" \in Keys(o)) = (etype # "MainDevice")
        /\ etype # "MainDevice" => Value(o, "externalSource") = Src(xid)
        /\ alarm.data # None =>
             Value(o, "severity") \in {Str(v) : v \in {"CRITICAL", "MAJOR", "MINOR", "WARNING"}}

\* Clearing an alarm addresses the Cumulocity alarm that raising it on the
\* same topic created: the clear message (no data) and every raise message
\* of that alarm type and entity carry the same type and externalSource, the
\* empty alarm type included (C8yAlarm::from converts both).
ClearMatchesRaise ==
    kind = "alarm" /\ out # None =>
        \A d \in AlarmData :
            Address(AlarmJson(C8yAlarm([alarm_type |-> alarm.alarm_type, data |-> d], xid, etype)))
              = Address(out[1])

\* The conversions give, on the inputs of the unit tests of json_c8y.rs,
\* what those tests expect: the defaults of convert_alarm_type,
\* convert_severity and convert_text (which takes the converted type), the
\* url "" of a module without one, and the order and members of the
\* software list JSON.  The model's abstractions (HashMaps as functions,
\* times as "given" or "now") keep apart what the tests tell apart.
ConversionsMatchTests ==
    /\ \A t \in ModuleItemTests : C8ySoftwareModuleItem(t.in) = t.want
    /\ \A t \in SoftwareListTests : C8yUpdateSoftwareListResponse(t.in) = t.want
    /\ \A t \in EventTests : C8yCreateEvent(t.in) = t.want
    /\ \A t \in AlarmTests :
           C8yAlarm(t.in, TestEntity(t.main)[1], TestEntity(t.main)[2]) = t.want


=============================================================================
