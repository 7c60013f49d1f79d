---------------------------- MODULE MqttSession ----------------------------
(***************************************************************************)
(* The persistent-session helpers of mqtt_channel (session.rs):           *)
(* init_session and clear_session, each a loop over rumqttc's event loop,  *)
(* run against an MQTT 3.1.1 broker that keeps one session named after     *)
(* config.session_name, and against publishers whose messages the broker  *)
(* queues for that session.                                                *)
(*                                                                         *)
(* The caller performs one call at a time (tedge connect / disconnect), in *)
(* any order and any number of times.  A call is a process with a program  *)
(* counter pc; the client side of the TCP connection and the broker side   *)
(* are joined by two FIFO channels, toBroker and toClient.                 *)
(***************************************************************************)
EXTENDS Naturals, Sequences, SequencesExt

CONSTANTS
    Topics,        \* the topic filters a config may subscribe to
    MaxMsgs,       \* number of messages the publishers send, in all
    MaxQuirks,     \* ConnectionRefused(Success) errors a single call may see
    QueueCapacity  \* config.queue_capacity: the rumqttc request channel bound

ASSUME QueueCapacity \in Nat /\ MaxMsgs \in Nat /\ MaxQuirks \in Nat

\* A session Config, reduced to what the two functions read.
Configs == [clean : BOOLEAN, named : BOOLEAN, subs : SUBSET Topics]

MsgIds == 1..MaxMsgs

\* The MQTT control packets of the protocol, as records.
Connect(c)    == [type |-> "CONNECT", clean |-> c]
Subscribe(fs) == [type |-> "SUBSCRIBE", filters |-> fs]
PubAck(m)     == [type |-> "PUBACK", id |-> m]
Close         == [type |-> "CLOSE"]          \* the client side closed the TCP stream
ConnAck(ok)   == [type |-> "CONNACK", ok |-> ok]
SubAck        == [type |-> "SUBACK"]
Publish(m)    == [type |-> "PUBLISH", id |-> m]

NoCall == [op |-> "none", cfg |-> [clean |-> FALSE, named |-> FALSE, subs |-> {}],
           result |-> "none", exit |-> "none"]

VARIABLES
    \* the call in progress
    op,         \* "init" | "clear": which function is running
    cfg,        \* its config
    pc,         \* "idle" | "poll" (inside the loop) | "disconnect" (after the loop)
    exit,       \* the arm whose break left the loop: "none" | "connack" | "suback" | "error"
    quirks,     \* ConnectionRefused(Success) errors seen by this call
    requests,   \* the AsyncClient request channel, drained only by event_loop.poll()
    cconn,      \* client network state: "closed" | "open" | "broken"
    ret,        \* the last call that returned: [op, cfg, result, exit]
    \* the network
    toBroker, toClient,
    \* the broker
    bconn,      \* "none" | "clean" | "persistent": the broker side of the connection
    stored,     \* a persistent session with this name exists
    subs,       \* its subscriptions
    queue,      \* messages queued for it, not yet sent
    inflight,   \* messages sent to the connected client and not yet acknowledged
    \* publishers and history
    nextMsg,    \* id of the next message to publish
    consumed    \* messages the broker dropped on a PUBACK from a session call

client == <<op, cfg, pc, exit, quirks, requests, cconn, ret>>
broker == <<bconn, stored, subs, queue, inflight>>
vars == <<client, toBroker, toClient, broker, nextMsg, consumed>>

-----------------------------------------------------------------------------
(* Helpers *)

\* Call o with config c returns r, having left its loop by e.
Return(o, c, r, e) ==
    /\ pc' = "idle"
    /\ ret' = [op |-> o, cfg |-> c, result |-> r, exit |-> e]

\* Mutant: the request channel outlives the call that created it.
DropClientKeepsRequests ==
    /\ cconn' = "closed"
    /\ UNCHANGED requests
    /\ toClient' = <<>>
    /\ toBroker' = IF cconn = "open" THEN Append(toBroker, Close) ELSE toBroker

\* The client drops its AsyncClient and EventLoop: the TCP stream is closed
\* after the packets already written; nothing still in `requests` is sent.
DropClient ==
    /\ cconn' = "closed"
    /\ requests' = <<>>
    /\ toClient' = <<>>
    /\ toBroker' = IF cconn = "open" THEN Append(toBroker, Close) ELSE toBroker

\* Start of a call that passed its config check: rumqttc_options() either
\* fails (`?`, no I/O) or the first poll opens a connection and sends CONNECT.
StartCall(o, c, clean) ==
    \/ /\ exit' = "none"
       /\ Return(o, c, "OptionsError", "none")
       /\ UNCHANGED <<cconn, requests, toBroker, toClient>>
    \/ /\ pc' = "poll"
       /\ exit' = "none"
       /\ cconn' = "open"
       /\ requests' = <<>>
       /\ toBroker' = <<Connect(clean)>>
       /\ UNCHANGED <<ret, toClient>>

------------------------------------------------------------------------(* Mutants of the two calls, each a plausible slip in session.rs. *)

\* init_session with set_clean_session(true) copied from clear_session.
InitSessionClean(c) ==
    /\ pc = "idle"
    /\ toBroker = <<>>
    /\ op' = "init"
    /\ cfg' = c
    /\ quirks' = 0
    /\ \/ /\ c.clean \/ ~c.named
          /\ exit' = "none"
          /\ Return(op', c, "InvalidSessionConfig", "none")
          /\ UNCHANGED <<cconn, requests, toBroker, toClient>>
       \/ /\ ~c.clean /\ c.named
          /\ StartCall("init", c, TRUE)
    /\ UNCHANGED <<broker, nextMsg, consumed>>

\* clear_session without set_clean_session(true): the config's flag is used.
ClearSessionKeepsFlag(c) ==
    /\ pc = "idle"
    /\ toBroker = <<>>
    /\ op' = "clear"
    /\ cfg' = c
    /\ quirks' = 0
    /\ \/ /\ ~c.named
          /\ exit' = "none"
          /\ Return(op', c, "InvalidSessionConfig", "none")
          /\ UNCHANGED <<cconn, requests, toBroker, toClient>>
       \/ /\ c.named
          /\ StartCall("clear", c, c.clean)
    /\ UNCHANGED <<broker, nextMsg, consumed>>

(* init_session (session.rs): a config that is clean or has no session name
   is refused before any I/O; otherwise the first poll connects with
   clean_session = false. *)
InitSession(c) ==
    /\ pc = "idle"
    /\ toBroker = <<>>
    /\ op' = "init"
    /\ cfg' = c
    /\ quirks' = 0
    /\ \/ /\ c.clean \/ ~c.named
          /\ exit' = "none"
          /\ Return(op', c, "InvalidSessionConfig", "none")
          /\ UNCHANGED <<cconn, requests, toBroker, toClient>>
       \/ /\ ~c.clean /\ c.named
          /\ StartCall("init", c, FALSE)
    /\ UNCHANGED <<broker, nextMsg, consumed>>

(* clear_session (session.rs): only the session name is checked; the
   connection is forced to clean_session = true. *)
ClearSession(c) ==
    /\ pc = "idle"
    /\ toBroker = <<>>
    /\ op' = "clear"
    /\ cfg' = c
    /\ quirks' = 0
    /\ \/ /\ ~c.named
          /\ exit' = "none"
          /\ Return(op', c, "InvalidSessionConfig", "none")
          /\ UNCHANGED <<cconn, requests, toBroker, toClient>>
       \/ /\ c.named
          /\ StartCall("clear", c, TRUE)
    /\ UNCHANGED <<broker, nextMsg, consumed>>

-----------------------------------------------------------------------------
(* One event_loop.poll() inside the loop of either function, by the event
   it returns. *)

Polling == pc = "poll" /\ cconn = "open" /\ toClient # <<>>

(* Mutants of the ConnAck arm. *)

\* init_session breaks right after subscribe_many, without awaiting the SubAck.
PollConnAckNoWait ==
    /\ Polling
    /\ Head(toClient) = ConnAck(TRUE)
    /\ toClient' = Tail(toClient)
    /\ pc' = "disconnect"
    /\ exit' = "connack"
    /\ requests' = IF op = "init" /\ cfg.subs # {}
                     THEN Append(requests, Subscribe(cfg.subs)) ELSE requests
    /\ UNCHANGED <<op, cfg, quirks, cconn, ret, toBroker, broker, nextMsg, consumed>>

\* init_session without the `subscriptions.is_empty()` break: it calls
\* subscribe_many only for a non-empty set but always waits for a SubAck.
PollConnAckNoEmptyBreak ==
    /\ Polling
    /\ Head(toClient) = ConnAck(TRUE)
    /\ toClient' = Tail(toClient)
    /\ \/ /\ op = "clear"
          /\ pc' = "disconnect"
          /\ exit' = "connack"
          /\ UNCHANGED requests
       \/ /\ op = "init"
          /\ Len(requests) < QueueCapacity
          /\ requests' = IF cfg.subs # {} THEN Append(requests, Subscribe(cfg.subs)) ELSE requests
          /\ UNCHANGED <<pc, exit>>
    /\ UNCHANGED <<op, cfg, quirks, cconn, ret, toBroker, broker, nextMsg, consumed>>

\* Ok(Incoming(ConnAck)) with a success code.  clear_session breaks; init_session
\* breaks when there is nothing to subscribe, otherwise subscribe_many puts one
\* request in the channel (awaiting room in it) and the loop goes on.
PollConnAck ==
    /\ Polling
    /\ Head(toClient) = ConnAck(TRUE)
    /\ toClient' = Tail(toClient)
    /\ \/ /\ op = "clear" \/ cfg.subs = {}
          /\ pc' = "disconnect"
          /\ exit' = "connack"
          /\ UNCHANGED requests
       \/ /\ op = "init" /\ cfg.subs # {}
          /\ Len(requests) < QueueCapacity
          /\ requests' = Append(requests, Subscribe(cfg.subs))
          /\ UNCHANGED <<pc, exit>>
    /\ UNCHANGED <<op, cfg, quirks, cconn, ret, toBroker, broker, nextMsg, consumed>>

\* A CONNACK with a refusal code.  Depending on the rumqttc build it is either
\* Ok(ConnAck) caught by maybe_connection_error (return Err, no disconnect) or
\* Err(ConnectionRefused(code)), which both loops log and break on.
PollConnRefused ==
    /\ Polling
    /\ Head(toClient) = ConnAck(FALSE)
    /\ \/ /\ exit' = "connack"
          /\ Return(op, cfg, "ConnectionError", "connack")
          /\ DropClient
       \/ /\ pc' = "disconnect"
          /\ exit' = "error"
          /\ toClient' = Tail(toClient)
          /\ UNCHANGED <<requests, cconn, ret, toBroker>>
    /\ UNCHANGED <<op, cfg, quirks, broker, nextMsg, consumed>>

\* Err(ConnectionRefused(Success)) in place of an accepted CONNACK.
\* init_session ignores it and polls again, and rumqttc reconnects on a new
\* stream; clear_session breaks.
PollRefusedSuccess ==
    /\ Polling
    /\ Head(toClient) = ConnAck(TRUE)
    /\ quirks < MaxQuirks
    /\ quirks' = quirks + 1
    /\ \/ /\ op = "init"
          /\ toClient' = <<>>
          /\ toBroker' = toBroker \o <<Close, Connect(FALSE)>>
          /\ UNCHANGED <<pc, exit>>
       \/ /\ op = "clear"
          /\ pc' = "disconnect"
          /\ exit' = "error"
          /\ toClient' = Tail(toClient)
          /\ UNCHANGED toBroker
    /\ UNCHANGED <<op, cfg, requests, cconn, ret, broker, nextMsg, consumed>>

\* Ok(Incoming(SubAck)): init_session breaks.
PollSubAck ==
    /\ Polling
    /\ Head(toClient) = SubAck
    /\ op = "init"
    /\ toClient' = Tail(toClient)
    /\ pc' = "disconnect"
    /\ exit' = "suback"
    /\ UNCHANGED <<op, cfg, quirks, requests, cconn, ret, toBroker, broker, nextMsg, consumed>>

\* Ok(Incoming(Publish)): ignored by the `_ => ()` arm, but rumqttc (automatic
\* acknowledgements) has already written the PUBACK of a QoS 1 message.
PollPublish ==
    /\ Polling
    /\ Head(toClient).type = "PUBLISH"
    /\ toClient' = Tail(toClient)
    /\ toBroker' = Append(toBroker, PubAck(Head(toClient).id))
    /\ UNCHANGED <<op, cfg, pc, exit, quirks, requests, cconn, ret, broker, nextMsg, consumed>>

\* Ok(Outgoing(_)): the poll writes the next pending request on the stream.
PollOutgoing ==
    /\ pc = "poll" /\ cconn = "open"
    /\ requests # <<>>
    /\ requests' = Tail(requests)
    /\ toBroker' = Append(toBroker, Head(requests))
    /\ UNCHANGED <<op, cfg, pc, exit, quirks, cconn, ret, toClient, broker, nextMsg, consumed>>

\* Err(_) on a broken connection: both loops log it and break.
PollError ==
    /\ pc = "poll" /\ cconn = "broken"
    /\ pc' = "disconnect"
    /\ exit' = "error"
    /\ UNCHANGED <<op, cfg, quirks, requests, cconn, ret, toBroker, toClient, broker, nextMsg, consumed>>

\* After the loop: `let _ = mqtt_client.disconnect().await` queues a Disconnect
\* request (awaiting room in the channel), its error is ignored, Ok(()) is
\* returned and the client and event loop are dropped unpolled.
Disconnect ==
    /\ pc = "disconnect"
    /\ Len(requests) < QueueCapacity
    /\ Return(op, cfg, "Ok", exit)
    /\ DropClient
    /\ UNCHANGED <<op, cfg, exit, quirks, broker, nextMsg, consumed>>

ClientStep ==
    \/ PollConnAck \/ PollConnRefused \/ PollRefusedSuccess \/ PollSubAck
    \/ PollPublish \/ PollOutgoing \/ PollError \/ Disconnect

-----------------------------------------------------------------------------
(* The environment: an MQTT 3.1.1 broker (spec section 6), the publishers
   and the network. *)

\* The broker answers on the client's stream, if that stream is still open.
SendToClient(p) ==
    toClient' = IF cconn = "open" THEN Append(toClient, p) ELSE toClient

\* CONNECT: the broker may refuse it; a clean connection discards the stored
\* session, a persistent one resumes it or creates it empty.
BrokerConnect(p) ==
    \/ /\ SendToClient(ConnAck(FALSE))
       /\ UNCHANGED broker
    \/ /\ p.clean
       /\ bconn' = "clean"
       /\ stored' = FALSE /\ subs' = {} /\ queue' = <<>> /\ inflight' = <<>>
       /\ SendToClient(ConnAck(TRUE))
    \/ /\ ~p.clean
       /\ bconn' = "persistent"
       /\ stored' = TRUE
       /\ SendToClient(ConnAck(TRUE))
       /\ UNCHANGED <<subs, queue, inflight>>

\* SUBSCRIBE: the filters join the session; a SUBACK is sent.
BrokerSubscribe(p) ==
    /\ bconn # "none"
    /\ subs' = subs \cup p.filters
    /\ SendToClient(SubAck)
    /\ UNCHANGED <<bconn, stored, queue, inflight>>

\* The end of the stream: a clean session ends with it, a persistent one
\* keeps its unacknowledged messages for redelivery.
BrokerClose ==
    /\ bconn' = "none"
    /\ IF bconn = "clean"
         THEN subs' = {} /\ queue' = <<>> /\ inflight' = <<>>
         ELSE queue' = inflight \o queue /\ inflight' = <<>> /\ UNCHANGED subs
    /\ UNCHANGED <<stored, toClient>>

\* The broker handles the next packet of the stream.
BrokerRecv ==
    /\ toBroker # <<>>
    /\ toBroker' = Tail(toBroker)
    /\ LET p == Head(toBroker) IN
       \/ /\ p.type = "CONNECT"
          /\ BrokerConnect(p)
          /\ UNCHANGED consumed
       \/ /\ p.type = "SUBSCRIBE"
          /\ BrokerSubscribe(p)
          /\ UNCHANGED consumed
       \/ /\ p.type = "PUBACK"
          /\ inflight' = SelectSeq(inflight, LAMBDA m : m # p.id)
          /\ consumed' = consumed \cup {p.id}
          /\ UNCHANGED <<bconn, stored, subs, queue, toClient>>
       \/ /\ p.type = "CLOSE"
          /\ BrokerClose
          /\ UNCHANGED consumed
    /\ UNCHANGED <<client, nextMsg>>

\* A queued QoS 1 message is sent to the connected persistent session.
BrokerDeliver ==
    /\ bconn = "persistent"
    /\ queue # <<>>
    /\ SendToClient(Publish(Head(queue)))
    /\ queue' = Tail(queue)
    /\ inflight' = Append(inflight, Head(queue))
    /\ UNCHANGED <<client, toBroker, bconn, stored, subs, nextMsg, consumed>>

\* A publisher sends a message on topic t; the broker queues it for the
\* session when t is one of its subscriptions.
PublishMsg(t) ==
    /\ nextMsg \in MsgIds
    /\ nextMsg' = nextMsg + 1
    /\ queue' = IF t \in subs THEN Append(queue, nextMsg) ELSE queue
    /\ UNCHANGED <<client, toBroker, toClient, bconn, stored, subs, inflight, consumed>>

\* The connection breaks: what is on the wire is lost, both ends see it closed.
NetworkFail ==
    /\ cconn = "open"
    /\ cconn' = "broken"
    /\ toClient' = <<>>
    /\ toBroker' = <<Close>>
    /\ UNCHANGED <<op, cfg, pc, exit, quirks, requests, ret, broker, nextMsg, consumed>>

-----------------------------------------------------------------------------

Init ==
    /\ op = "none"
    /\ cfg = NoCall.cfg
    /\ pc = "idle"
    /\ exit = "none"
    /\ quirks = 0
    /\ requests = <<>>
    /\ cconn = "closed"
    /\ ret = NoCall
    /\ toBroker = <<>> /\ toClient = <<>>
    /\ bconn = "none" /\ stored = FALSE /\ subs = {} /\ queue = <<>> /\ inflight = <<>>
    /\ nextMsg = 1
    /\ consumed = {}

Next ==
    \/ \E c \in Configs : InitSession(c) \/ ClearSession(c)
    \/ ClientStep
    \/ BrokerRecv
    \/ BrokerDeliver
    \/ \E t \in Topics : PublishMsg(t)
    \/ NetworkFail

\* The client task is polled whenever it can make progress, and the broker
\* handles what it receives; the caller, the publishers and the network owe
\* nothing.
Fairness ==
    /\ WF_vars(ClientStep)
    /\ WF_vars(BrokerRecv)
    /\ WF_vars(BrokerDeliver)

Spec == Init /\ [][Next]_vars /\ Fairness


-----------------------------------------------------------------------------
(* Properties *)

Packets ==
    [type : {"CONNECT"}, clean : BOOLEAN] \cup [type : {"SUBSCRIBE"}, filters : SUBSET Topics]
    \cup [type : {"PUBACK", "PUBLISH"}, id : MsgIds] \cup [type : {"CLOSE", "SUBACK"}]
    \cup [type : {"CONNACK"}, ok : BOOLEAN]

TypeOK ==
    /\ op \in {"none", "init", "clear"}
    /\ cfg \in Configs
    /\ pc \in {"idle", "poll", "disconnect"}
    /\ exit \in {"none", "suback", "connack", "error"}
    /\ quirks \in 0..MaxQuirks
    /\ requests \in Seq(Packets) /\ Len(requests) <= QueueCapacity
    /\ cconn \in {"closed", "open", "broken"}
    /\ cconn = "closed" => requests = <<>> /\ toClient = <<>>
    /\ ret.op \in {"none", "init", "clear"} /\ ret.cfg \in Configs
    /\ ret.result \in {"none", "Ok", "InvalidSessionConfig", "OptionsError", "ConnectionError"}
    /\ toBroker \in Seq(Packets) /\ toClient \in Seq(Packets)
    /\ bconn \in {"none", "clean", "persistent"}
    /\ stored \in BOOLEAN /\ subs \in SUBSET Topics
    /\ queue \in Seq(MsgIds) /\ inflight \in Seq(MsgIds)
    /\ nextMsg \in 1..(MaxMsgs + 1)
    /\ consumed \in SUBSET MsgIds

\* The last call returned and no other call has started since.
Returned(o) == pc = "idle" /\ op = o /\ ret.op = o

\* init_session returns Ok from a loop it left on SubAck, or on a ConnAck
\* (nothing to subscribe), only once the broker holds the persistent
\* session with every configured subscription; and the session stays so
\* until the next call.  (An Ok after a connection error promises nothing.)
InitOkEstablishesSession ==
    Returned("init") /\ ret.result = "Ok" /\ ret.exit \in {"suback", "connack"}
        => stored /\ ret.cfg.subs \subseteq subs

\* clear_session returns Ok from a loop it left on a ConnAck only once the
\* broker has dropped the session, its subscriptions and its queued messages.
ClearOkAfterConnAckClears ==
    Returned("clear") /\ ret.result = "Ok" /\ ret.exit = "connack"
        => ~stored /\ subs = {} /\ queue = <<>>

\* Only clear_session destroys a persistent session: no step taken while
\* init_session is the current call removes the session or a subscription.
InitPreservesSession ==
    [][op = "init" /\ stored => stored' /\ subs \subseteq subs']_vars

\* Every call returns: neither loop, nor the awaits on the request channel,
\* can keep the caller waiting forever.
CallsReturn == (pc # "idle") ~> (pc = "idle")

\* session.rs: init_session "can be called multiple times with the same
\* session name, since it consumes no messages": no message queued for the
\* session is acknowledged, and so dropped by the broker, by a session call.
InitConsumesNoMessage == consumed = {}

\* session.rs: after clear_session "all the messages persisted for that
\* session [are] cleared": when it returns Ok the broker holds no session.
ClearOkClearsSession ==
    Returned("clear") /\ ret.result = "Ok" => ~stored /\ queue = <<>>

=============================================================================
