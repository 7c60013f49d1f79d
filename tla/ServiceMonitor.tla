--------------------------- MODULE ServiceMonitor ---------------------------
(***************************************************************************)
(* service_monitor.rs: the c8y mapper turns the health status message of  *)
(* a service (te/device/<dev>/service/<name>/status/health) into a         *)
(* SmartREST 102 record.  Each step handles one health message.            *)
(*                                                                         *)
(* Strings are sequences of tokens.  A token is one character, except      *)
(* "bridge", "unknown", "service" and "102", which stand for those words;  *)
(* "," and "\"" are the characters CSV gives a meaning to.                  *)
(***************************************************************************)
EXTENDS Naturals, Sequences, SequencesExt

CONSTANTS
    NameLen,        \* longest device, child and service name
    FieldLen,       \* longest "type" and "status" string in a payload
    DeviceName,     \* the mapper's device name (a token sequence)
    DefaultTypes    \* values of the default_service_type setting

NameChars  == {"a", "_", "bridge"}
FieldChars == {"x", ",", "\""}
Names      == SeqOf(NameChars, NameLen) \ {<<>>}

\* A service entity in the default scheme: on the main device (device <<>>)
\* or on the child device of that name.
Entities == [device : {<<>>} \cup Names, service : Names]

\* A JSON field: absent, a string, or a value of another JSON type.
FieldVals ==
    {[is |-> "string", s |-> t] : t \in SeqOf(FieldChars, FieldLen)}
      \cup {[is |-> k, s |-> <<>>] : k \in {"absent", "other"}}

\* A health payload: not UTF-8, not a JSON object, or an object with fields.
Payloads ==
    {[kind |-> k, type |-> [is |-> "absent", s |-> <<>>],
      status |-> [is |-> "absent", s |-> <<>>]] : k \in {"non_utf8", "invalid_json"}}
      \cup [kind : {"object"}, type : FieldVals, status : FieldVals]

Unknown == <<"unknown">>

\* A SmartREST message: c8y/s/us, or c8y/s/us/<child>, and its payload.
Messages == [child : {<<>>} \cup Names, payload : Seq(STRING)]

-----------------------------------------------------------------------------
(* service_monitor.rs *)

\* sanitize_for_smartrest (c8y_api, not under src/): doubles every quote,
\* as the test "service-monitoring-double-quotes-health-message" shows.
Sanitize(s) ==
    FlattenSeq([i \in 1..Len(s) |-> IF s[i] = "\"" THEN <<"\"", "\"">> ELSE <<s[i]>>])

\* Mutant: the quotes are not escaped.
ServiceMonitorStatusMessageRaw(dev, daemon, status, type, cid) ==
    [child   |-> cid,
     payload |-> <<"102", ",">> \o dev
                 \o (IF cid = <<>> THEN <<>> ELSE <<"_">> \o cid)
                 \o <<"_">> \o daemon \o <<",", "\"">> \o type \o <<"\"", ",">>
                 \o daemon \o <<",", "\"">> \o status \o <<"\"">>]

\* service_monitor_status_message: the 102 record, on the child's topic for
\* a child device's service.
ServiceMonitorStatusMessage(dev, daemon, status, type, cid) ==
    [child   |-> cid,
     payload |-> <<"102", ",">> \o dev
                 \o (IF cid = <<>> THEN <<>> ELSE <<"_">> \o cid)
                 \o <<"_">> \o daemon
                 \o <<",", "\"">> \o Sanitize(type) \o <<"\"", ",">>
                 \o daemon \o <<",", "\"">> \o Sanitize(status) \o <<"\"">>]

\* serde_json::from_str::<HealthStatus>, with its serde defaults ("" for a
\* missing type, "unknown" for a missing status), or the fallback HealthStatus
\* when the payload does not parse.  A payload that is not UTF-8 is replaced
\* by default_health_status, `"type":...,"status":"unknown"`, which is not a
\* JSON object either.
DecodeHealth(p, dst) ==
    IF p.kind # "object" \/ "other" \in {p.type.is, p.status.is}
      THEN [type |-> dst, status |-> Unknown]
      ELSE [type   |-> p.type.s,
            status |-> IF p.status.is = "absent" THEN Unknown ELSE p.status.s]

\* Mutant: the child id is dropped, the status goes to the main device.
ConvertHealthStatusMessageNoChild(e, p, dev, dst) ==
    LET h  == DecodeHealth(p, dst)
        st == IF h.status = <<>> THEN Unknown ELSE h.status
        ty == IF h.type # <<>> THEN h.type ELSE IF dst = <<>> THEN <<"service">> ELSE dst
    IN IF Contains(e.service, "bridge") THEN <<>>
       ELSE <<ServiceMonitorStatusMessage(dev, e.service, st, ty, <<>>)>>

\* Mutant: status and type passed in each other's place.
ConvertHealthStatusMessageSwapped(e, p, dev, dst) ==
    LET h    == DecodeHealth(p, dst)
        st   == IF h.status = <<>> THEN Unknown ELSE h.status
        ty   == IF h.type # <<>> THEN h.type
                ELSE IF dst = <<>> THEN <<"service">> ELSE dst
    IN IF Contains(e.service, "bridge") THEN <<>>
       ELSE <<ServiceMonitorStatusMessage(dev, e.service, ty, st, e.device)>>

\* convert_health_status_message: nothing for a bridge; else empty fields
\* replaced by "unknown" and by the default service type, or "service".
ConvertHealthStatusMessage(e, p, dev, dst) ==
    LET h    == DecodeHealth(p, dst)
        st   == IF h.status = <<>> THEN Unknown ELSE h.status
        ty   == IF h.type # <<>> THEN h.type
                ELSE IF dst = <<>> THEN <<"service">> ELSE dst
    IN IF Contains(e.service, "bridge") THEN <<>>
       ELSE <<ServiceMonitorStatusMessage(dev, e.service, st, ty, e.device)>>

-----------------------------------------------------------------------------

VARIABLES
    entity,     \* the service whose health message is handled
    payload,    \* its payload
    dst,        \* the default_service_type setting
    handled,    \* the message has been converted
    out         \* the messages the conversion publishes

vars == <<entity, payload, dst, handled, out>>

\* A health status message the mapper has received and not yet converted.
Init ==
    /\ entity \in Entities
    /\ payload \in Payloads
    /\ dst \in DefaultTypes
    /\ handled = FALSE
    /\ out = <<>>

\* The mapper converts the message and publishes the result.
HandleHealthMessage ==
    /\ ~handled
    /\ handled' = TRUE
    /\ out' = ConvertHealthStatusMessage(entity, payload, DeviceName, dst)
    /\ UNCHANGED <<entity, payload, dst>>

Next == HandleHealthMessage

Spec == Init /\ [][Next]_vars


-----------------------------------------------------------------------------
(* The test cases of translate_health_status_to_c8y_service_monitoring_   *)
(* message (lines 130-219) as vectors: each word of a test string is one  *)
(* token, the characters "_", ",", "\"" are tokens of their own.          *)

StrField(t) == [is |-> "string", s |-> t]
NoField     == [is |-> "absent", s |-> <<>>]
Health(type, status) == [kind |-> "object", type |-> type, status |-> status]

Quoted(t) == <<"\"">> \o t \o <<"\"">>

\* A 102 record as the tests write it.
Record102(xid, type, name, status) ==
    <<"102", ",">> \o xid \o <<",">> \o Quoted(type) \o <<",">> \o name
    \o <<",">> \o Quoted(status)

TestMapper == <<"tedge-mapper-c8y">>
MainXid    == <<"test_device", "_", "tedge-mapper-c8y">>

\* entity: te/device/main/service/tedge-mapper-c8y, or the same service of
\* the child device "child"; want: the topic (c8y/s/us or c8y/s/us/child)
\* and payload of the message expected.
HealthTests ==
    {[entity |-> [device |-> <<>>, service |-> TestMapper],
      payload |-> Health(StrField(<<"systemd">>), StrField(<<"up">>)),
      want |-> [child |-> <<>>, payload |-> Record102(MainXid, <<"systemd">>, TestMapper, <<"up">>)]],
     [entity |-> [device |-> <<"child">>, service |-> TestMapper],
      payload |-> Health(StrField(<<"systemd">>), StrField(<<"up">>)),
      want |-> [child |-> <<"child">>,
                payload |-> Record102(<<"test_device", "_", "child", "_", "tedge-mapper-c8y">>,
                                      <<"systemd">>, TestMapper, <<"up">>)]],
     \* no status, with and without a pid (the pid is not a field of HealthStatus)
     [entity |-> [device |-> <<>>, service |-> TestMapper],
      payload |-> Health(StrField(<<"systemd">>), NoField),
      want |-> [child |-> <<>>, payload |-> Record102(MainXid, <<"systemd">>, TestMapper, <<"unknown">>)]],
     [entity |-> [device |-> <<>>, service |-> TestMapper],
      payload |-> Health(StrField(<<>>), StrField(<<>>)),
      want |-> [child |-> <<>>, payload |-> Record102(MainXid, <<"service">>, TestMapper, <<"unknown">>)]],
     [entity |-> [device |-> <<>>, service |-> TestMapper],
      payload |-> Health(NoField, NoField),
      want |-> [child |-> <<>>, payload |-> Record102(MainXid, <<"service">>, TestMapper, <<"unknown">>)]],
     [entity |-> [device |-> <<>>, service |-> TestMapper],
      payload |-> Health(StrField(<<"thin", ",", "edge">>), StrField(<<"up", ",", "down">>)),
      want |-> [child |-> <<>>, payload |-> Record102(MainXid, <<"thin", ",", "edge">>, TestMapper,
                                                      <<"up", ",", "down">>)]],
     [entity |-> [device |-> <<>>, service |-> TestMapper],
      payload |-> Health(StrField(<<"thin", "\"", "\"", "edge">>), StrField(<<"up", "\"", "down">>)),
      want |-> [child |-> <<>>,
                payload |-> Record102(MainXid, <<"thin", "\"", "\"", "\"", "\"", "edge">>, TestMapper,
                                      <<"up", "\"", "\"", "down">>)]]}

-----------------------------------------------------------------------------
(* Properties *)

\* How a SmartREST client reads a record: comma-separated fields, a field in
\* double quotes may contain commas, and "" inside quotes is one quote.
RECURSIVE CsvRead(_, _, _, _)
CsvRead(s, field, quoted, fields) ==
    IF s = <<>> THEN Append(fields, field)
    ELSE LET c == Head(s)
             r == Tail(s)
         IN CASE quoted /\ c = "\"" /\ r # <<>> /\ Head(r) = "\""
                   -> CsvRead(Tail(r), Append(field, "\""), TRUE, fields)
              [] quoted /\ c = "\"" -> CsvRead(r, field, FALSE, fields)
              [] quoted             -> CsvRead(r, Append(field, c), TRUE, fields)
              [] c = "\""           -> CsvRead(r, field, TRUE, fields)
              [] c = ","            -> CsvRead(r, <<>>, FALSE, Append(fields, field))
              [] OTHER              -> CsvRead(r, Append(field, c), FALSE, fields)

CsvFields(s) == CsvRead(s, <<>>, FALSE, <<>>)

\* The Cumulocity external id of a service entity.
ExternalId(e, dev) ==
    dev \o (IF e.device = <<>> THEN <<>> ELSE <<"_">> \o e.device) \o <<"_">> \o e.service

\* Types; and a published status goes to the topic of the service's device
\* (c8y/s/us/<child> for a child device's service, lines 45-54 and 103-121).
TypeOK ==
    /\ entity \in Entities /\ payload \in Payloads /\ dst \in DefaultTypes
    /\ handled \in BOOLEAN
    /\ out \in Seq(Messages) /\ Len(out) <= 1
    /\ \A i \in DOMAIN out : out[i].child = entity.device

\* The 102 record reads back as exactly five fields: the template, the
\* service's external id, its type, its name and its status; a type and a
\* status given as non-empty strings in the health message come back
\* unchanged, commas and quotes included (service_monitor_status_message
\* quotes them after sanitize_for_smartrest).
RecordReadsBack ==
    out # <<>> =>
        LET f == CsvFields(out[1].payload)
        IN /\ Len(f) = 5
           /\ f[1] = <<"102">>
           /\ f[2] = ExternalId(entity, DeviceName)
           /\ f[4] = entity.service
           /\ payload.kind = "object" /\ "other" \notin {payload.type.is, payload.status.is} =>
                /\ payload.type.s # <<>> => f[3] = payload.type.s
                /\ payload.status.s # <<>> => f[5] = payload.status.s

\* The conversion publishes, for each test case of service_monitor.rs,
\* the message the test expects: the child's topic, the external id, the
\* "unknown" and "service" defaults for a missing or empty status and type
\* (the test passes default_service_type "service"), commas kept inside the
\* quotes and quotes doubled.
ConversionMatchesTests ==
    \A t \in HealthTests :
        ConvertHealthStatusMessage(t.entity, t.payload, <<"test_device">>, <<"service">>)
          = <<t.want>>


=============================================================================
