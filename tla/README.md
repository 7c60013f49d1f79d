# TLA+ models of thin-edge.io: sessions, mailboxes and the command lifecycle

This directory holds TLA+ models of parts of thin-edge.io, the TLC configurations that
check them, and `PROJECT.json`, the manifest: which model covers which source lines,
which runs check what, and the hazards the properties target. `spec.md` describes the
system. The Rust sources used here are under `src/`.

## 1. Inventory

The repository snapshot has ten source files. The spec centres on three
concurrency/protocol pieces, and only one of them has its code under `src/`:

| Component | Sources | State it keeps | Operations | Interacts with |
|---|---|---|---|---|
| **MQTT session helpers** | `mqtt_channel/src/session.rs` | nothing between calls; during a call, the rumqttc client, its request channel (`queue_capacity` slots) and event loop | `init_session`, `clear_session`: a config check, then a loop over `event_loop.poll()` (ConnAck, SubAck, errors), then `disconnect` | the MQTT broker (CONNECT/CONNACK, SUBSCRIBE/SUBACK, queued PUBLISH/PUBACK). Called by `tedge connect`/`disconnect` |
| **Mailbox / actor runtime** (spec §4.1) | not under `src/`. Its users are `tedge_http_ext/src/actor.rs` (`Server::handle`) and the test harness in `tedge_operation_converter/tests.rs` | bounded FIFO queue per mailbox, sender handles, receiver | `send` (waits when full), `recv` (`None` once every sender is gone), run loop, shutdown cascade | every actor |
| **Operation converter / command lifecycle** (spec §4.3) | the converter is not under `src/`. Its behaviour is fixed by `tedge_agent/src/tedge_operation_converter/tests.rs` | per command `(entity, operation, cmd_id)` its status; per `(entity, operation)` whether the capability was announced | announce capabilities on start, convert inbound MQTT commands to typed requests, convert typed responses to MQTT | MQTT actor, software manager, restart manager |
| HTTP server actor | `tedge_http_ext/src/actor.rs` | the hyper client | `handle(request)`: awaits the HTTP response | callers through a server mailbox |
| Config location / tedge.toml store | `tedge_config/src/tedge_toml/tedge_config_location.rs` | the file `tedge.toml` and its directory | `load` (may migrate and rewrite the file), `update_toml` (read-modify-write), `store` (mkdir, atomic write, chown, chmod) | every `tedge` process, concurrently |
| Service monitor conversion | `c8y_mapper_ext/src/service_monitor.rs` | none (pure) | `convert_health_status_message` | c8y mapper |
| Cumulocity JSON conversions | `c8y_api/src/json_c8y.rs` | none (pure) | alarm, event and software-list conversions, severity parsing | c8y mapper |
| apt plugin | `plugins/tedge_apt_plugin/src/lib.rs` | none between runs | `run_op` (list, install, remove, update-list, prepare, finalize), `run_and_exit` (exit codes) | apt-get / dpkg |
| Multi-profile config example | `tedge_config_macros/examples/multi.rs` | none | profile lookup | the config macros |
| `tedge connect` argument building | `tedge/src/cli/connect/cli.rs` | none of its own; its config load may migrate and rewrite tedge.toml | `build_command`: load the config, check the cloud argument and the service manager | CLI, tedge.toml |
| File transfer errors | `tedge_agent/src/file_transfer_server/error.rs` | none | error to HTTP status mapping; a server error becomes a `RuntimeError` | axum, the actor runtime, HTTP clients |

### What makes these pieces hard

* **Session helpers.** Each call runs two parties over a stream: the client loop and
  the broker. The broker may already hold a session, with queued messages and
  subscriptions, from earlier calls. Either side can fail at any point: the network
  drops, the broker refuses, or it reports `ConnectionRefused(Success)`, which
  `init_session` retries. The request channel is only drained by `poll()`, which runs
  on the same task as `subscribe_many(...).await` and `disconnect().await`. Both
  functions return `Ok(())` on most failures.
* **Mailboxes.** Many senders share one bounded queue. A full queue makes senders wait
  (backpressure). End-of-stream is only signalled once every sender has been dropped.
  A waiting sender and a finished receiver can wait on each other forever.
* **Command lifecycle.** MQTT delivers at least once, so a status update can arrive
  twice or late. Status must never go backwards, and the capability announcement must
  precede command traffic.
* **tedge.toml.** Separate `tedge` processes read-modify-write the same file with no
  lock, and a plain `load` can rewrite the file when it migrates it.

### Properties that make each component correct

* Session: `init_session` returns Ok only with the session and all its subscriptions
  in place. Only `clear_session` removes a session. `clear_session` returns Ok only
  once the session is gone. Neither call consumes queued messages. Every call returns.
* Mailbox: per-sender FIFO, and no message lost or duplicated. A send waits only on a
  full queue. `recv` returns `None` only after all senders are dropped and the queue
  is drained. Shutdown propagates down the chain.
* Command lifecycle: status is monotonic per command. Nothing is accepted after a
  terminal status. The capability announcement comes first and at most once. Every
  inbound command reaches its operation's mailbox exactly once per delivery.
* tedge.toml: no update is lost, the file on disk is always a whole serialisation,
  and migration is idempotent.

## 2. Plan

Ordered by importance to the system's behaviour:

1. `MqttSession`: the two session functions against an MQTT 3.1.1 broker, publishers
   and a faulty network. **Done in this sitting.**
2. The mailbox of tedge_actors: a bounded shared queue (backpressure, many
   senders, end-of-stream, `MailboxClosed`). Spec-modelled, because tedge_actors
   is not under `src/`. **Done (second sitting), inside `HttpServer`.** An
   abstract per-sender `Mailbox` refined by it was dropped: both sides came from
   the spec, so the refinement held by construction.
3. `HttpServer`: `HttpService::handle` (`actor.rs`) served by a server actor on a
   bounded mailbox, with several clients waiting for their responses. **Done
   (second sitting).**
4. `OperationConverter`: capability announcement, inbound and outbound conversion,
   and status monotonicity under duplicated MQTT delivery and echoed statuses. Its
   behaviour comes from `tests.rs` and spec §4.3. **Done (second sitting).** The
   refinement of an abstract `CommandLifecycle` was dropped: both sides came from
   the spec, so it held by construction.
5. `ConfigStore`: `update_toml`, `load` with migration, and `store`, run by one or
   two processes, with a kill possible at any step. **Done.**
6. `ServiceMonitor`, `C8yJson`, `AptPlugin`: the conversions as operators over
   bounded inputs, and the apt plugin's invocation as a step-by-step state machine.
   **Done.**

7. Fault model of the actor runtime (spec §4.1, §7): `MailboxClosed`, actor faults
   on the runtime-error channel, and the file transfer server (`error.rs`) as the
   HTTP actor's peer. **Done (third sitting), inside `HttpServer`.**

8. `tedge connect`'s `build_command` (`cli.rs`) as a third kind of call in
   `ConfigStore`, and the abstract `ConfigSettings` it refines. **Done (third
   sitting).**

9. The unit tests of `json_c8y.rs` and `service_monitor.rs` as vectors that the
   conversion operators must reproduce (`ConversionsMatchTests`,
   `ConversionMatchesTests`), and the actor name of `HttpService::name` in the fault
   reports. **Done (fourth sitting).**

Not planned: `multi.rs`, an example of the configuration macros that only builds
configuration values. Its `main` asserts how `try_get` resolves profiles and how
`ReadableKey` parses keys. That behaviour is generated by `define_tedge_config!`,
which is not in the repository. The example has no state or operation of its own, so
a model could only restate its assertions or invent the generated parser.

## 3. Module `MqttSession` (session.rs)

**State.** The call in progress is `op`, `cfg` and `pc` (`idle`, `poll` inside the
loop, `disconnect` after it). `exit` records which `break` left the loop. `quirks`
counts the `ConnectionRefused(Success)` retries. `requests` is rumqttc's request
channel, bounded by `QueueCapacity`. `cconn` is the client's view of the connection.
`ret` is the last call's result. Two FIFO sequences, `toBroker` and `toClient`, stand
for the TCP stream.

The broker, modelled from MQTT 3.1.1 and spec §6 as the environment, keeps `bconn`
(no connection, a clean one or a persistent one), `stored`, `subs`, `queue` and
`inflight` for the one session name. `nextMsg` numbers the publishers' messages.
`consumed` is history: the messages the broker dropped on a PUBACK.

**Actions.**

* `InitSession(c)` and `ClearSession(c)` are lines 20–26 and 71–77. Each is the config
  check (an early `InvalidSessionConfig`), the `rumqttc_options()?` failure, and the
  connect of the first poll, with `clean_session` forced to true for clear.
* One action for each arm of the `match` on `poll()`:
  * `PollConnAck`: for init, break when there are no subscriptions, else queue
    `subscribe_many` and wait for room in the channel. Clear always breaks.
  * `PollConnRefused`: a refusal code. Depending on the rumqttc build, it surfaces as
    `Ok(ConnAck)` caught by `maybe_connection_error` (`return Err`), or as
    `Err(ConnectionRefused)` (break). Both outcomes are kept.
  * `PollRefusedSuccess`: init ignores it and rumqttc reconnects; clear breaks.
  * `PollSubAck`, `PollError`, and `PollPublish`. `PollPublish` is the `_ => ()` arm:
    rumqttc has already written the PUBACK, because acknowledgements are automatic.
  * `PollOutgoing`: `poll()` writes a pending request on the stream.
* `Disconnect` is lines 56–58: `disconnect().await` waits for room in the channel,
  its error is ignored, the call returns `Ok`, and the client is dropped without
  being polled again.
* Environment actions: `BrokerRecv` (CONNECT, SUBSCRIBE, PUBACK, end of stream),
  `BrokerDeliver` (queued QoS 1 messages to a resumed session), `PublishMsg` and
  `NetworkFail`.

**Fairness.** Weak fairness on the client's steps, because the caller awaits the
call, and on the broker's receive and deliver steps, because a broker serves its
connections. No fairness on new calls, publishers or network failures.

**Bounds.** Two topic filters (model values; symmetry only in the safety-only
violation runs, since it is unsound for liveness). Configs cover every
combination of `clean`, `named` and subscription set. One published message.
One `ConnectionRefused(Success)` per call. A request channel of 2, or of 1 in the hang
run. Calls are unbounded: each new call waits until the broker has handled the
previous stream (`toBroker = <<>>`), so the state space is finite. A depth of 46 steps
covers sequences of several calls, including init, publish, init again and clear.

### Runs

| run | cfg | expect | what it shows |
|---|---|---|---|
| `session_safety` | `MC_MqttSession.cfg` | pass | After an Ok from the SubAck or ConnAck arm, the session holds every subscription. After an Ok from clear's ConnAck arm, the session is gone. No init step removes a session or subscription. With a request channel of 2, every call returns, despite network failures, refusals and the quirk retry. (303k states) |
| `session_hang` | `MC_MqttSession_hang.cfg` | violation | With `queue_capacity = 1`, the connection breaks while the SUBSCRIBE request still sits in the channel. The loop breaks on the error, and `disconnect().await` then waits forever for a slot that no poll will free. |
| `session_init_consumes` | `MC_MqttSession_consume.cfg` | violation | The doc comment says `init_session` "consumes no messages". A second `init_session` on a session with queued messages receives them between ConnAck and SubAck. rumqttc acknowledges them, and the broker drops them. |
| `session_clear_ok` | `MC_MqttSession_clear.cfg` | violation | `clear_session` returns Ok after a refused connection or a network error, with the session and its queued messages still on the broker. |

Every property of a passing run has a mutant in `PROJECT.json`: a copy of a mapped
action with a plausible slip, defined just before that action, which TLC must catch.
The slips are: init forcing a clean session, clear keeping the config's clean flag,
init breaking before the SubAck, init never breaking on empty subscriptions, and the
request channel outliving the client.

### Not modelled here

* A second client with the same client id (a running mapper) during `init_session`.
  The broker's takeover would disconnect the mapper.
* MQTT v5 session expiry.
* Retained messages.
* Packets from an old stream overtaking a new CONNECT. Each call starts only after
  the broker has finished the previous stream.

## 4. Modules `ConfigSettings` and `ConfigStore` (tedge_config_location.rs)

**State.** The disk is `dir` (the config root exists), `exists` and `file` (tedge.toml),
and `owner`. A document is abstracted to its schema version (1 is the layout before
migration, 2 the current one) and a function from settings to values. Each process has
its current call `op` (`update` for `update_toml`, `load`, `connect` for `tedge
connect`'s `build_command`) and step `pc`, the DTO in
hand `dto`, the document `store()` is writing `out`, and whether that store is the
migration's or the final one (`storing`). `key`/`val` is what the update closure sets.
Ghosts: `sawFile` (the call's first read found tedge.toml), `ret` and `lastSet`
(the last value an update wrote for each setting).

**Actions.** One per await point, since another process can act in between:

* `UpdateToml` and `Load` start a call (lines 84–88, 99–100 and 117–130).
* `Connect` starts `TEdgeConnectOpt::build_command` (`cli.rs` 22–31), whose first
  step is `context.load_config()?`, a load of `tedge.toml`. Since `build_command` is
  synchronous, that load takes the `_sync` path, whose steps are those of `load`.
  `BuildCommand` is the rest (32–39): `cloud.try_into()?` and `service_manager(..)?`
  may fail, otherwise the command is built. The arguments are abstracted to whether
  those checks pass. So a `tedge connect` with a bad cloud argument may already have
  migrated and rewritten the file before it fails.
* `ExtractDto` is `extract_data` (163–166): a missing file gives the default DTO, with
  no version, so version 1 and a migration attempt.
* `MigRead` is the second read (168). Its failure breaks out of the migration.
  Otherwise it migrates what was read (`Migrate`, 174–177) and starts a store.
* `MigReload` is the reload (182).
* `Apply` is the update closure (90), which may reject the value, then `store(&config)`.
* `store` is four steps: `StoreCheckDir` (223–226), `StoreMkdir` (227, failing
  if the directory appeared meanwhile), `StoreWrite` (232, the atomic write, or its
  failure) and `StorePerms` (234–244, failures only warned about).
* `Crash` kills a process at any step. `DirCreatedElsewhere` is another program
  creating the config directory.

The `_sync` variants (189–217, 247–268) have the same steps and are represented by the
same actions.

**Abstract specification.** `ConfigSettings` states what a `tedge config set`
promises about the settings, whatever the file layout: `vals` maps each setting to
its value, and `call[p]` is the `update_toml` call of process `p`. `Begin(p, k, v)`
starts it, `Commit(p)` sets `vals[k]` to `v` in one step at most once per call, and
`End(p)` ends it, returned or killed, with or without its effect. Nothing else
changes a setting. `ConfigStore` maps `vals` to the settings in `tedge.toml` and a
call to `pending` until its final store has written the file (`Committed`: step
`perms` of the `final` store), then `done`. The property `SettingsSpec ==
Settings!Spec` checks every step of a process against it: the update's write must
set exactly its own setting on what is in the file, and a migration's write must
keep every setting.

**Bounds.** Two settings, two values, and all 20 initial disks: no directory, no
file, or a version-1 or version-2 file with any settings. Calls are unbounded (the
state space is finite). One process in the passing run, two in the violation run.
No fairness is needed: only safety is checked.

### Runs

| run | cfg | expect | what it shows |
|---|---|---|---|
| `config_sequential` | `MC_ConfigStore.cfg` | pass | One `tedge` command at a time, killed at any step, from any starting disk. A written setting stays until it is set again (`NoLostUpdate`). Every write is an atomic set of the call's own setting or a migration that keeps every setting: `ConfigStore` refines `ConfigSettings` (`SettingsSpec`). A call returning Ok on an existing file leaves the file and the returned DTO at version 2 (`MigratedOnReturn`, the property of the test `old_toml_can_be_read_in_its_entirety`). (18.7k states) |
| `config_lost_update` | `MC_ConfigStore_lost.cfg` | violation | Two concurrent `update_toml` calls on different settings both read the file. The second store writes back the value it read before the first one's setting was changed. |

The same check with two processes also violates `SettingsSpec`. Besides the lost
update, a process that read a version-1 file at line 168 stores its migration after
another process has migrated it and set a setting, and that setting reverts. Any call can do this,
a plain `load` included, since it is the first call after an upgrade that migrates.
The spec scopes configuration loading out, so this is recorded as a spec gap.

Mutants: writing without the directory check, storing the DTO without the update,
no reload after migration, and a migration that drops values.

### Not modelled here

* Environment overrides (`FileAndEnvironment`): they change what a load returns,
  never what is stored.
* Unparseable files. Every writer goes through `atomically_write_file`, so a
  document is always whole.
* The actual migration rules, which are not under `src/`. They are abstracted to
  "same settings, version 2".

## 5. Module `ServiceMonitor` (service_monitor.rs)

A pure conversion: one health status message in, zero or one SmartREST message out.

**State.** The state holds the input (`entity`, `payload`, `dst`, the
`default_service_type` setting) and the output `out`. `Init` picks any input, and the
one action `HandleHealthMessage` converts it. The behaviour then ends, so deadlock is
not checked.

**Data.** Strings are sequences of tokens. Names are drawn from `a`, `_` and `bridge`
(a token for the word). Type and status are drawn from `x`, `,` and `"`, the two
characters that CSV gives a meaning to. A payload is one of three kinds: not UTF-8,
not a JSON object, or an object whose `type` and `status` are absent, strings, or of
another JSON type.

**Operators.**

* `DecodeHealth` is lines 56–66: serde defaults, or the whole fallback. A non-UTF-8
  payload is replaced by `default_health_status`, which is not a JSON object either.
* `ConvertHealthStatusMessage` covers lines 29–92: the bridge filter, the defaults
  for an empty status or type, and the child id.
* `ServiceMonitorStatusMessage` is lines 94–123.
* `Sanitize` stands for `sanitize_for_smartrest`, which is not under `src/`. It is
  modelled from the tests as quote doubling.

The reference for the record is `CsvFields`, a recursive CSV reader: quoted fields,
with `""` for a quote.

**Unit tests.** `HealthTests` holds the eight cases of
`translate_health_status_to_c8y_service_monitoring_message` (lines 130–219). Each
word of a test string is one token. `Record102` writes the expected payload the way
the tests do. `ConversionMatchesTests` checks that the model publishes what each test
expects. This ties the token abstraction to the code's observed output.

| run | cfg | expect | what it shows |
|---|---|---|---|
| `service_monitor_record` | `MC_ServiceMonitor.cfg` | pass | Over names of up to two tokens and fields of up to two characters (70k messages), the record goes to the entity's device topic and reads back as exactly five fields. Type and status come back unchanged, commas and quotes included. On the test cases the conversion gives the expected topic and payload. |

The external id is `device_child_service`, or `device_service` for a service of the
main device (lines 107 and 116). With underscores in names, two different services
get the same id: for example main service `a_b_c`, and service `b_c` on child `a`.
`ExternalId` models this format, but no run checks that ids are distinct. This is a
collision of the format itself, and no document says which names are allowed.

Not modelled: the truncation inside `sanitize_for_smartrest`. Commas and quotes in
names are outside the `RecordReadsBack` bounds; the record writes names unquoted, so
they would break it.

## 6. Module `C8yJson` (json_c8y.rs)

Three pure conversions into the JSON the c8y mapper publishes. Each behaviour converts
one input in a single step: `ConvertSoftwareList`, `ConvertEvent` or `ConvertAlarm`.
`kind` says which input `Init` chose. The process does not stop after a conversion,
but the model does, so deadlock is not checked.

**JSON.** An object is a sequence of `<<key, value>>` members in serialisation
order. A key written both by a struct field and by a `#[serde(flatten)]` map stays
visible as a duplicate. A value is a record `[t, v]`: a string, a number, an
`externalSource` object for an external id, or a time.

**Operators.**

* `C8ySoftwareModuleItem` is lines 86–101, with `ItemJson` for its serde attributes.
  `C8yUpdateSoftwareListResponse` is lines 112–124.
* `C8yCreateEvent` is lines 126–172. The source goes into the extras first, the
  payload's extras are added over it (`HashMap::extend`), and the payload's `"type"`
  is removed from the extras.
* `C8yAlarm` is lines 240–300, with its helpers `ConvertSource`, `ConvertAlarmType`,
  `ConvertSeverity` (with `AlarmSeverity`, lines 312–344) and `ConvertExtras`, which
  removes a payload's `externalSource`, `ConvertText` (the converted type is the
  default text) and `ConvertTime`. `AlarmJson` covers the serde attributes of the
  create and clear structs.

**Unit tests.** The tests of json_c8y.rs (lines 356–733) are written as vectors of
an input and the expected result: `ModuleItemTests`, `SoftwareListTests` (with the
expected JSON of line 453), `EventTests` and `AlarmTests`. `TestEntity` gives the
external id and entity type that `check_alarm_translation` passes. A test that only
says "some time" expects `Now`. `ConversionsMatchTests` checks every vector.

The input types (`ThinEdgeEvent`, `ThinEdgeAlarm`, `SoftwareModule`) belong to
tedge_api, which is not under `src/`. Their serde derivations keep `text`, `time` and
`severity` out of the extras, so the extras keys in the bounds are `type`,
`externalSource` and one other fragment.

| run | cfg | expect | what it shows |
|---|---|---|---|
| `c8y_json` | `MC_C8yJson.cfg` | pass | These hold for lists of up to two modules, events and alarms with every combination of extras: empty names, invalid and upper-case severities, and main device, child or service entities (10k inputs). Every object has each key once. Software items keep their order and always have a url. The event type is the payload's non-empty string type, or else the name. An alarm's `externalSource` is the entity's own, and absent for the main device, whatever the payload says. Clearing an alarm addresses the same (type, source) that raising it did, the empty type included. Every unit-test vector gives its expected result. |

Not modelled here: the event path lets a payload's `externalSource` replace a child
device's (line 141). The alarm path removes it, but nothing says whether events may
override it, so it is listed as a hazard without a property. `C8yEventResponse`,
`C8yManagedObject`, `InternalIdResponse` (lines 39–70) and `C8yAlarmError` (346–353)
are data types for responses and error messages, used by no conversion, and are left
out.

## 7. Module `AptPlugin` (tedge_apt_plugin/src/lib.rs)

One invocation of `tedge-apt-plugin` by the agent, from `run_and_exit` to the
process exit code. The process ends there, so deadlock is not checked.

**State.** The state holds:

* the parsed command line `op`, with the list filters filled in from tedge.toml by
  `Start`;
* the `[apt]` settings, or `None` when tedge.toml does not load (`GetConfig`,
  `get_config` 314–324, which warns and goes on without filters);
* the dpkg database `db`, as a sequence of dpkg-query lines;
* the update list on stdin;
* `pc`, the loop index `i` and the apt-get `args` being built;
* what list `printed`, the command that `ran` with its result, run_op's `outcome`,
  and the `exit` code.

**Actions.**

* `Start` is lines 325–345.
* There is one action per operation of `run_op`: `List` (91–133), `Install`
  (135–159), `RemoveModule` (161–171) and `PrepareFinalize` (225–227).
* Update-list is split over lines 173–222. `ReadUpdates` is the stdin parse, which
  fails as a whole. `UpdateStep` handles one update, with `get_installer` and
  `validate_version`. `RunAptGet` is the single apt-get call.
* `Exit` is lines 347–365.
* Spawning any child may fail, and a child ends with status 0, an exit code, or a
  signal.

**The list filter.** `ListFilter` is the regex of lines 106–123, stated on the
fields of a line:

* Without filters, the line must contain `install ok installed`, so the want word is
  `install` or `deinstall` and the status is `installed`.
* With a filter, the line must start with `<name>\t`, or its third field must start
  with `<maintainer>` followed by white space. In either case it must still contain
  `install ok installed`.
* A missing filter is the empty string. So with only a name, the maintainer
  alternative matches a line whose Maintainer field is empty: list then prints
  such a package whatever the name filter. The model reaches this case, but no
  run checks it, because Debian policy makes the Maintainer field mandatory and
  only a malformed package has it empty.
* A name that does not compile exits with 1.

| run | cfg | expect | what it shows |
|---|---|---|---|
| `apt_plugin` | `MC_AptPlugin.cfg` | pass | These hold for every operation, database of up to two packages, tedge.toml, and update list of up to two lines (123k states). `list` prints only installed packages. `update-list` runs apt-get only when the whole list is valid: no malformed line, .deb files that match, and removal versions that are installed. apt-get then gets one argument per update, in order, with `latest` dropped. |
| `apt_list_held` | `MC_AptPlugin_held.cfg` | violation | The doc comment says "List all the installed modules", but a held package (`hold ok installed`) is not listed. |

Bounds. Each run uses two package names, with versions 1, 2 and `latest`. A `.deb`
file contains zsh version 1. Want words are `install`, `hold` and `deinstall`.
Statuses are `installed` and `config-files`. Maintainers are empty or two words.
These bounds reach every branch of `get_installer`, a matching and a mismatching
removal version, both filter alternatives and each of their edge cases. Only `list`
reads a package's maintainer and want, so the other operations are checked with one
value of each.

Not modelled: the metadata check of a `.deb` (`module_check.rs`, not under `src/`),
which is a fixed package the file contains. Another process changing the dpkg
database between `validate_version` and apt-get is also not modelled. Names that are
valid regexes matching other names (`.`, `+`) are not modelled either.

## 8. Module `HttpServer` (actor.rs, error.rs, spec §4.1, §7)

`tedge_actors` is not under `src/`. Its mailbox contract, server run loop, actor
faults and runtime-error channel are modelled from spec §4.1 and §7 and marked
`spec_modelled` in the map. The code under `src/` is `HttpService`, whose `handle`
is the step the server loop awaits, and `file_transfer_server/error.rs`, the
errors of the agent's file transfer server, which plays the HTTP actor's peer.

**`HttpServer`** composes the HTTP actor with its clients and its peer:

| variable | code |
|---|---|
| `mbox` | the server's bounded request mailbox, one FIFO shared by all clients; each entry is the client id with the request |
| `alive` | the clients whose sender to that mailbox is not dropped |
| `srv` | the server run loop: `recv`, `handling` (awaiting `handle`), `replying` (sending the response), `stopped`, `failed` |
| `cst`, `sent` | each client box: idle, waiting in `await_response`, or dropped; and how many calls it made |
| `reply` | each client's bounded response box |
| `fts` | the file transfer server actor: `binding` its address, `serving`, `failed` |
| `rterr` | the runtime-error channel, oldest first |

The actions are:

* `ClientSend` is the send half of `await_response`. It is not enabled while the
  mailbox is full, which is what a suspended send amounts to. `ClientSendClosed` is
  the same send after the actor failed: `Err(MailboxClosed)`, and the client ends.
* `ClientRecv` takes the response. `ClientRecvClosed` is the receive returning
  `None` because the response senders went with the failed actor; the client ends.
  `ClientDrop` drops the box between calls.
* `ServerRecv` and `ServerEnd` are the two outcomes of the loop's `recv`.
* `Handle(o)` is `HttpService::handle` (lines 39–45) while the peer serves: hyper
  returns `Ok` whatever the status, and the status is `StatusOf(o)`, the code the
  handler's result `o` is turned into by the two `IntoResponse` impls of `error.rs`
  (500 for every `FileTransferError` and for `FromIo`/`PathRejection`, 403 for
  `DeleteIoError`/`Upload`, 404 for `InvalidPath`/`FileNotFound`; 200 for `Ok`).
  `HandleErr` is the hyper client failing, always possible and the only outcome while
  the peer is not serving; `?` (line 43) turns it into `Err`.
* `ServerReply` sends the response to the requesting client's box, and suspends if
  that box is full.
* `ServerFault` is the HTTP actor failing at any point of its loop: its receiver and
  what it held are dropped and the fault goes on `rterr`, under `HttpName`, the name `HttpService::name` gives (lines 35–37).
* `FtsStart` and `FtsFail` are the file transfer server binding its address, or a
  `FileTransferError` ending it (a failed bind, hyper failing). `From<FileTransferError>
  for RuntimeError` (lines 55–59) reports every variant as one `ActorError`.

**Fairness.** Each actor is a tokio task, the runtime starts every actor and
eventually polls a ready task. So the server's steps, the file transfer server's
start and a waiting client's receive (of a response or of the end of its box) are
weakly fair. Sending and dropping are the clients' choice, and faults need not
happen, so none of these is fair. `Handle`/`HandleErr` is weakly fair only as an
assumption about the peer: the code sets no timeout on the request, and spec §5
leaves timeouts to the caller. Without that assumption a single peer that never
answers blocks every client of the actor.

| run | cfg | expect | what it shows |
|---|---|---|---|
| `http_server` | `MC_HttpServer.cfg` | pass | Three clients make up to two calls each, through mailboxes of capacity one, while either actor may fail at any point (25.7k states). **ResponseToRequester**: a client's response box holds at most one response, the answer to the call it is awaiting. **RequestAccounted**: the request of a waiting client is queued, being handled or answered, or the HTTP actor has failed and its fault is on the runtime-error channel. **CallsAnswered**: every call is answered, Ok or Err, unless the actor fails, if the peer answers. **FaultEndsCalls**: after the actor fails, no client waits forever. **ShutdownCompletes**: once every client is dropped, the actor stops (or has already failed). |

Bounds: a capacity of one makes a second client's send wait behind a queued
request, and a third client queues while a request is in flight. With two calls per
client, a stale response or a response routed to the wrong client would meet a
client waiting on a later call. The fault can strike with requests queued, in
hand or answered but not yet received. The peer answers with two results (200 and
404): the loop routes a response the same whatever its status, and more codes only
multiply the states. `CHECK_DEADLOCK FALSE`, because the whole system really stops
once the actors and every client are done; `ShutdownCompletes`, `CallsAnswered`
and `FaultEndsCalls` rule out any other stop. There is no symmetry, since the run
checks liveness.

Not modelled:

* the supervision policy (restart one actor or exit): spec §7 leaves it to the
  supervisor, outside the runtime;
* the file transfer handlers and the bind, which are not under `src/`: only their
  outcomes are modelled, through the error types of `error.rs`;
* a `ConcurrentServerActor`, which `actor.rs` does not use;
* `HttpService::new`, which only builds the hyper client.

## 9. Module `OperationConverter` (spec §4.3, tests.rs)

The operation converter and the restart manager are not under `src/`. They are
modelled from spec §3 and §4.3 and from the tests in
`tedge_operation_converter/tests.rs`, and marked `spec_modelled`. One entity and the
restart operation are modelled, so a command is identified by its `cmd_id`.

`Rank` orders the statuses along `Init -> Executing -> {Successful | Failed}`.

**`OperationConverter`** composes four parties:

| party | variables | actions |
|---|---|---|
| cloud and broker | `cloud`, `inflight`, `delivered`, `dups` | `CloudPublish(x, s)`: the mapper publishes a command, Init or a payload that does not parse. `Redeliver(m)`: QoS 1 redelivers a message, late. |
| MQTT actor | | `MqttDeliver` passes the next message into the converter's input mailbox `cin`, and waits when it is full. |
| converter | `cv`, `hold`, `out` | `CvStart` publishes the retained capability (`publish_capabilities_on_start`). `CvRecv` takes the oldest input: an inbound command becomes a `RestartCommand`, a malformed payload is dropped, and a response becomes a status message. `CvSendRequest` sends to the restart manager's mailbox `req`, and waits when it is full. `CvPublish` publishes; the agent is subscribed to the same topic, so the broker queues the message back to it. |
| restart manager | `tracker`, `rm` | `RmRecv` starts an Init that the tracker accepts and answers Executing; it drops anything else (`Rejected`: a backward move, or a command already terminal). `RmFinish` ends a restart, Successful or Failed. `RmSend` sends the response into `cin`, and waits when it is full. |

**Fairness.** Each actor is a task the runtime eventually polls, and the broker
delivers what it has queued. So the MQTT actor's, converter's and restart manager's
steps are weakly fair, and a started restart eventually ends. The cloud and the
redeliveries are the environment, and they are not fair.

| run | cfg | expect | what it shows |
|---|---|---|---|
| `operation_converter` | `MC_OperationConverter.cfg` | pass | The run has two commands, each an Init or a malformed payload, one QoS 1 redelivery and every echo of the agent's own statuses, through mailboxes of capacity two (105k states). **PublishedInOrder**: the statuses published for one command only move forward, although the broker redelivers the cloud's Init late and echoes the agent's own statuses into the same input mailbox. |

**Bounds, and a cycle they allow.** Capacity two lets an echo, a redelivery and a
response sit in the converter's input mailbox together, so the tracker meets a late
Init after its command ended. No run asserts that every command completes. With
capacity one the state exists where each side waits on the other for good:

* the converter holds a redelivered Init for the full request mailbox;
* the restart manager holds its Executing response for the converter's input
  mailbox, which MQTT traffic has filled.

At capacity two these bounds do not reach it, and more MQTT traffic could fill
larger mailboxes the same way. The converter's code is not under `src/`, so whether
it avoids the cycle cannot be read from the code. It is listed as a hazard, not as
a finding. The order of the capability publication is not checked either: the
model takes it from the spec as the guard of the run loop.

**An open point in the spec.** Spec §3 allows a `cmd_id` to be reused after a
terminal status, "treated as a new command". Spec §4.3 and §8 say any update to a
terminal command is dropped. The model follows §4.3 and §8: an Init for a terminal
id is dropped. Since that is what makes a late redelivered Init harmless, reuse of
an id is not modelled.

Not modelled:

* the legacy software list and update topics (`tedge/commands/req/software/...`)
  and the software manager. They take the same path through the converter, on
  other mailboxes.
* several entities or operations. Their commands never share a tracker entry.
* the optional `Scheduled` status (spec §3). It would sit between Init and
  Executing under the same rule.
