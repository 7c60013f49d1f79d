------------------------- MODULE OperationConverter -------------------------
(***************************************************************************)
(* The tedge agent's operation converter with the restart manager and the  *)
(* MQTT broker, for one entity and the restart operation (spec 4.3, tests  *)
(* of tedge_operation_converter/tests.rs).  The converter is not under     *)
(* src/: it is modelled from the spec and the tests.                       *)
(*                                                                         *)
(*  - On start the converter publishes the retained capability message     *)
(*    te/<entity>/cmd/restart with payload {}, then loops on its input     *)
(*    mailbox, which the MQTT actor and the restart manager both feed.     *)
(*  - An MQTT message on te/<entity>/cmd/restart/<id> with a status        *)
(*    payload becomes a RestartCommand sent to the restart manager; a      *)
(*    payload that does not parse is dropped.                              *)
(*  - A RestartCommand from the restart manager is published on the        *)
(*    command topic.  The agent is subscribed to that topic, so the broker *)
(*    delivers the agent's own status messages back to it.                *)
(*  - The restart manager owns the lifecycle tracker: it starts a restart  *)
(*    on an Init command and drops an update that would move a command     *)
(*    backwards or that targets a terminal command (spec 4.3).             *)
(*  - The broker delivers at least once: a message already delivered may   *)
(*    be delivered again, later (QoS 1 redelivery).                        *)
(***************************************************************************)
EXTENDS Naturals, Sequences, SequencesExt

CONSTANTS Ids,      \* cmd ids the cloud uses
          Cap,      \* capacity of each mailbox
          MaxDups,  \* redeliveries the broker makes at most
          None

Terminal == {"successful", "failed"}
Statuses == {"init", "executing"} \cup Terminal

CmdMsg   == [topic: Ids, status: Statuses \cup {"malformed"}]  \* te/../cmd/restart/<id>
CapMsg   == [topic |-> "capability", status |-> None]           \* te/../cmd/restart, retained
Command  == [id: Ids, status: Statuses]                         \* RestartCommand
Input    == [from: {"mqtt"}, msg: CmdMsg] \cup [from: {"restart"}, msg: Command]
Outgoing == [to: {"restart"}, msg: Command] \cup [to: {"mqtt"}, msg: CmdMsg]

VARIABLES cv,        \* converter: "start", "recv", or "send"
          hold,      \* the message the converter is sending, or None
          cin,       \* the converter's input mailbox
          req,       \* the restart manager's request mailbox
          rm,        \* restart manager: None, or the response it is sending
          tracker,   \* tracker[x]: the status the restart manager holds for x
          out,       \* messages the converter published, in order
          inflight,  \* command-topic messages the broker has still to deliver
          delivered, \* command-topic messages the broker delivered once
          dups,      \* redeliveries so far
          cloud      \* cloud[x]: what the cloud published for x, or None

\* The position of a status in the lifecycle (spec 3): Init, Executing, then
\* Successful or Failed; None before the command exists.
Rank(s) == CASE s = None -> 0 [] s = "init" -> 1 [] s = "executing" -> 2
           [] s \in Terminal -> 3

vars == <<cv, hold, cin, req, rm, tracker, out, inflight, delivered, dups, cloud>>

Init == /\ cv = "start" /\ hold = None
        /\ cin = <<>> /\ req = <<>> /\ rm = None
        /\ tracker = [x \in Ids |-> None]
        /\ out = <<>> /\ inflight = <<>> /\ delivered = {} /\ dups = 0
        /\ cloud = [x \in Ids |-> None]

-----------------------------------------------------------------------------
(* The cloud and the broker.                                                *)

\* The mapper publishes a new command, or a payload that does not parse.
CloudPublish(x, s) ==
    /\ cloud[x] = None
    /\ cloud' = [cloud EXCEPT ![x] = s]
    /\ inflight' = Append(inflight, [topic |-> x, status |-> s])
    /\ UNCHANGED <<cv, hold, cin, req, rm, tracker, out, delivered, dups>>

\* QoS 1: a message delivered before is delivered again.
Redeliver(m) ==
    /\ m \in delivered /\ dups < MaxDups
    /\ inflight' = Append(inflight, m)
    /\ dups' = dups + 1
    /\ UNCHANGED <<cv, hold, cin, req, rm, tracker, out, delivered, cloud>>

\* A delivery that does not wait for room in the converter's mailbox.
MqttDeliverNoWait ==
    /\ inflight # <<>>
    /\ cin' = Append(cin, [from |-> "mqtt", msg |-> Head(inflight)])
    /\ inflight' = Tail(inflight)
    /\ delivered' = delivered \cup {Head(inflight)}
    /\ UNCHANGED <<cv, hold, req, rm, tracker, out, dups, cloud>>

\* The MQTT actor passes the next message to the converter (waits when full).
MqttDeliver ==
    /\ inflight # <<>> /\ Len(cin) < Cap
    /\ cin' = Append(cin, [from |-> "mqtt", msg |-> Head(inflight)])
    /\ inflight' = Tail(inflight)
    /\ delivered' = delivered \cup {Head(inflight)}
    /\ UNCHANGED <<cv, hold, req, rm, tracker, out, dups, cloud>>

-----------------------------------------------------------------------------
(* The converter.                                                           *)

\* Publish the capability before anything else (publish_capabilities_on_start).
CvStart ==
    /\ cv = "start"
    /\ out' = Append(out, CapMsg)
    /\ cv' = "recv"
    /\ UNCHANGED <<hold, cin, req, rm, tracker, inflight, delivered, dups, cloud>>

\* A receive that takes the newest input instead of the oldest.
CvRecvNewest ==
    /\ cv = "recv" /\ cin # <<>>
    /\ cin' = Front(cin)
    /\ LET e == Last(cin) IN
         \/ e.from = "mqtt" /\ e.msg.status = "malformed" /\ UNCHANGED <<cv, hold>>
         \/ e.from = "mqtt" /\ e.msg.status # "malformed" /\ cv' = "send"
            /\ hold' = [to |-> "restart", msg |-> [id |-> e.msg.topic, status |-> e.msg.status]]
         \/ e.from = "restart" /\ cv' = "send"
            /\ hold' = [to |-> "mqtt", msg |-> [topic |-> e.msg.id, status |-> e.msg.status]]
    /\ UNCHANGED <<req, rm, tracker, out, inflight, delivered, dups, cloud>>

\* Receive one input: an inbound command becomes a RestartCommand for the
\* restart manager (convert_incoming_restart_request), a malformed payload is
\* dropped, a response becomes an MQTT message (convert_outgoing_restart_response).
CvRecv ==
    /\ cv = "recv" /\ cin # <<>>
    /\ cin' = Tail(cin)
    /\ LET e == Head(cin) IN
         \/ e.from = "mqtt" /\ e.msg.status = "malformed" /\ UNCHANGED <<cv, hold>>
         \/ e.from = "mqtt" /\ e.msg.status # "malformed" /\ cv' = "send"
            /\ hold' = [to |-> "restart", msg |-> [id |-> e.msg.topic, status |-> e.msg.status]]
         \/ e.from = "restart" /\ cv' = "send"
            /\ hold' = [to |-> "mqtt", msg |-> [topic |-> e.msg.id, status |-> e.msg.status]]
    /\ UNCHANGED <<req, rm, tracker, out, inflight, delivered, dups, cloud>>

CvSendRequest ==
    /\ cv = "send" /\ hold.to = "restart"
    /\ Len(req) < Cap
    /\ req' = Append(req, hold.msg)
    /\ cv' = "recv" /\ hold' = None
    /\ UNCHANGED <<cin, rm, tracker, out, inflight, delivered, dups, cloud>>

\* Publish a status; the broker queues it for the agent's own subscription.
CvPublish ==
    /\ cv = "send" /\ hold.to = "mqtt"
    /\ out' = Append(out, hold.msg)
    /\ inflight' = Append(inflight, hold.msg)
    /\ cv' = "recv" /\ hold' = None
    /\ UNCHANGED <<cin, req, rm, tracker, delivered, dups, cloud>>

-----------------------------------------------------------------------------
(* The restart manager and its lifecycle tracker.                           *)

\* The tracker's rule (spec 4.3): a backward move or an update to a terminal
\* command is dropped.
Rejected(c) == tracker[c.id] \in Terminal \/ Rank(c.status) <= Rank(tracker[c.id])

\* Receive a command: an accepted Init starts the restart and answers
\* Executing; anything else is logged and dropped.
RmRecv ==
    /\ rm = None /\ req # <<>>
    /\ req' = Tail(req)
    /\ LET c == Head(req) IN
         \/ /\ c.status = "init" /\ ~Rejected(c)
            /\ tracker' = [tracker EXCEPT ![c.id] = "executing"]
            /\ rm' = [id |-> c.id, status |-> "executing"]
         \/ /\ c.status # "init" \/ Rejected(c)
            /\ UNCHANGED <<tracker, rm>>
    /\ UNCHANGED <<cv, hold, cin, out, inflight, delivered, dups, cloud>>

\* The restart ends, successfully or not.
RmFinish(x, s) ==
    /\ rm = None /\ tracker[x] = "executing"
    /\ tracker' = [tracker EXCEPT ![x] = s]
    /\ rm' = [id |-> x, status |-> s]
    /\ UNCHANGED <<cv, hold, cin, req, out, inflight, delivered, dups, cloud>>

\* Send the response to the converter (waits when its mailbox is full).
RmSend ==
    /\ rm # None /\ Len(cin) < Cap
    /\ cin' = Append(cin, [from |-> "restart", msg |-> rm])
    /\ rm' = None
    /\ UNCHANGED <<cv, hold, req, tracker, out, inflight, delivered, dups, cloud>>

Next == \/ \E x \in Ids, s \in {"init", "malformed"} : CloudPublish(x, s)
        \/ \E m \in delivered : Redeliver(m)
        \/ MqttDeliver
        \/ CvStart \/ CvRecv \/ CvSendRequest \/ CvPublish
        \/ RmRecv \/ RmSend
        \/ \E x \in Ids, s \in Terminal : RmFinish(x, s)

(* Every actor is a task the runtime eventually polls, and the broker     *)
(* eventually delivers what it has queued; a restart eventually ends.     *)
(* The cloud and the redeliveries are the environment: not fair.          *)
Fairness == /\ WF_vars(MqttDeliver)
            /\ WF_vars(CvStart) /\ WF_vars(CvRecv)
            /\ WF_vars(CvSendRequest) /\ WF_vars(CvPublish)
            /\ WF_vars(RmRecv) /\ WF_vars(RmSend)
            /\ \A x \in Ids : WF_vars(\E s \in Terminal : RmFinish(x, s))

Spec == Init /\ [][Next]_vars /\ Fairness

-----------------------------------------------------------------------------
TypeOK == /\ cv \in {"start", "recv", "send"}
          /\ hold \in Outgoing \cup {None}
          /\ cin \in Seq(Input) /\ Len(cin) <= Cap
          /\ req \in Seq(Command) /\ Len(req) <= Cap
          /\ rm \in Command \cup {None}
          /\ tracker \in [Ids -> Statuses \cup {None}]
          /\ inflight \in Seq(CmdMsg) /\ delivered \subseteq CmdMsg
          /\ cloud \in [Ids -> {None, "init", "malformed"}]

(* What the cloud sees on a command's topic never goes backwards: the      *)
(* converter publishes the statuses of one command in lifecycle order.     *)
(* This rests on the tracker and on the converter draining its shared      *)
(* input mailbox in order.                                                 *)
PublishedInOrder ==
    \A i, j \in DOMAIN out :
        i < j /\ out[i].topic = out[j].topic /\ out[i].topic \in Ids
            => Rank(out[i].status) < Rank(out[j].status)
=============================================================================
