----------------------------- MODULE HttpServer -----------------------------
(***************************************************************************)
(* The HTTP actor of tedge_http_ext: a server actor whose Server is        *)
(* HttpService (actor.rs).  Clients reach it through a client box: they    *)
(* send one request, tagged with their id, to the server's bounded         *)
(* mailbox and wait on their own response box for the answer.  The server  *)
(* run loop receives one request, awaits HttpService::handle on it and     *)
(* sends the result back to the requesting client, then receives again;   *)
(* it stops when receive returns None (spec section 4.1).                  *)
(*                                                                         *)
(* handle awaits the hyper client; a transport error is turned into an     *)
(* Err response by `?`.  Nothing bounds the wait (no timeout), so the      *)
(* remote peer is an actor of the model that answers Ok or Err, or never.  *)
(*                                                                         *)
(* The mailbox is one bounded FIFO shared by all clients, drained in      *)
(* order by the run loop.                                                  *)
(*                                                                         *)
(* The peer is another actor of the agent: the file transfer server.  It   *)
(* binds its address when the runtime starts it, then answers each request *)
(* with a status code: 200 when the handler succeeds, otherwise the code   *)
(* its error maps to (error.rs, IntoResponse).  A FileTransferError that   *)
(* ends it (the bind failing, hyper failing) is converted to a             *)
(* RuntimeError and reported on the runtime-error channel, after which     *)
(* connections are refused and hyper's request returns Err.                *)
(*                                                                         *)
(* Fault model (spec sections 4.1 and 7): the HTTP actor itself may fail   *)
(* at any point of its loop.  Its receiver and its response senders are    *)
(* dropped, the fault is reported on the runtime-error channel, a client   *)
(* that sends gets Err(MailboxClosed) and a client awaiting a response     *)
(* gets None; either way the client ends.                                  *)
(***************************************************************************)
EXTENDS Naturals, Sequences

CONSTANTS Clients,   \* the client boxes connected to the HTTP actor
          Cap,       \* capacity of every mailbox (queue_capacity)
          MaxReqs,   \* requests one client sends at most
          Outcomes,  \* results of the file transfer handlers considered
          None

Requests == Clients \X (1..MaxReqs)          \* <<client, n>>: its n-th request
Envelope == [from: Clients, req: Requests]     \* what the server mailbox holds

\* FileTransferError: the errors that end the file transfer server.
ServerErrors == [enum: {"FileTransferError"},
                 var: {"FromIo", "FromHyperError", "FromAddressParseError",
                       "FromUtf8Error", "BindingAddressInUse"}]

\* FileTransferRequestError: the errors of one request's handler.
RequestErrors == [enum: {"FileTransferRequestError"},
                  var: {"FromIo", "DeleteIoError", "Upload", "InvalidPath",
                        "FileNotFound", "PathRejection"}]

Handled == [enum: {"Ok"}, var: {"Ok"}]          \* the handler succeeded

\* The status code of a handler's result: IntoResponse of both error types.
StatusOf(e) ==
    CASE e.enum = "Ok"                                      -> 200
      [] e.enum = "FileTransferError"                       -> 500
      [] e.var \in {"FromIo", "PathRejection"}              -> 500
      [] e.var \in {"DeleteIoError", "Upload"}              -> 403
      [] e.var \in {"InvalidPath", "FileNotFound"}          -> 404

\* HttpResult: Ok(HttpResponse) with the peer's status, or Err(hyper::Error).
Response == [req: Requests, ok: BOOLEAN, status: {200, 403, 404, 500, 0}]

\* HttpService::name: the name the runtime reports the actor's fault under.
HttpName == "HTTP"

\* What a failed actor reports on the runtime-error channel: RuntimeError
\* ActorError for a FileTransferError, whatever its variant, or a panic.
Fault == [actor: {HttpName, "FileTransfer"}, err: {"ActorError", "panic"}]

VARIABLES mbox,     \* the server's request mailbox, oldest first
          alive,    \* clients still holding a sender to it
          srv,      \* the server run loop
          cst,      \* cst[c]: "idle", "waiting" for a response, or "dropped"
          sent,     \* sent[c]: requests client c has sent
          reply,    \* reply[c]: client c's response mailbox
          fts,      \* the file transfer server: "binding", "serving", "failed"
          rterr     \* the runtime-error channel, oldest first

vars == <<mbox, alive, srv, cst, sent, reply, fts, rterr>>

Init == /\ mbox = <<>>
        /\ alive = Clients
        /\ srv = [st |-> "recv", from |-> None, req |-> None, resp |-> None]
        /\ cst = [c \in Clients |-> "idle"]
        /\ sent = [c \in Clients |-> 0]
        /\ reply = [c \in Clients |-> <<>>]
        /\ fts = "binding"
        /\ rterr = <<>>

-----------------------------------------------------------------------------
(* Clients: ClientMessageBox::await_response sends and waits.  A send into *)
(* a full mailbox suspends, so it is not enabled.                           *)

\* A send that does not wait for room in the mailbox.
ClientSendIgnoresCapacity(c) ==
    /\ cst[c] = "idle" /\ c \in alive /\ srv.st # "failed"
    /\ sent[c] < MaxReqs
    /\ mbox' = Append(mbox, [from |-> c, req |-> <<c, sent[c] + 1>>])
    /\ sent' = [sent EXCEPT ![c] = @ + 1]
    /\ cst' = [cst EXCEPT ![c] = "waiting"]
    /\ UNCHANGED <<alive, srv, reply, fts, rterr>>

ClientSend(c) ==
    /\ cst[c] = "idle" /\ c \in alive /\ srv.st # "failed"
    /\ sent[c] < MaxReqs
    /\ Len(mbox) < Cap
    /\ mbox' = Append(mbox, [from |-> c, req |-> <<c, sent[c] + 1>>])
    /\ sent' = [sent EXCEPT ![c] = @ + 1]
    /\ cst' = [cst EXCEPT ![c] = "waiting"]
    /\ UNCHANGED <<alive, srv, reply, fts, rterr>>

\* The send fails with MailboxClosed: the client ends and drops its box.
ClientSendClosed(c) ==
    /\ cst[c] = "idle" /\ c \in alive /\ srv.st = "failed"
    /\ sent[c] < MaxReqs
    /\ cst' = [cst EXCEPT ![c] = "dropped"]
    /\ alive' = alive \ {c}
    /\ UNCHANGED <<mbox, srv, sent, reply, fts, rterr>>

\* A receive that reads the response but leaves it in the box.
ClientRecvPeek(c) ==
    /\ cst[c] = "waiting"
    /\ reply[c] # <<>>
    /\ cst' = [cst EXCEPT ![c] = "idle"]
    /\ UNCHANGED <<mbox, alive, srv, sent, reply, fts, rterr>>

ClientRecv(c) ==
    /\ cst[c] = "waiting"
    /\ reply[c] # <<>>
    /\ reply' = [reply EXCEPT ![c] = Tail(@)]
    /\ cst' = [cst EXCEPT ![c] = "idle"]
    /\ UNCHANGED <<mbox, alive, srv, sent, fts, rterr>>

\* A client that takes the end of its response stream for "not yet".
ClientRecvClosedKeepsWaiting(c) ==
    /\ cst[c] = "waiting"
    /\ reply[c] = <<>> /\ srv.st = "failed"
    /\ UNCHANGED vars

\* The response senders went with the failed actor: the receive returns
\* None, the call fails with MailboxClosed and the client ends.
ClientRecvClosed(c) ==
    /\ cst[c] = "waiting"
    /\ reply[c] = <<>> /\ srv.st = "failed"
    /\ cst' = [cst EXCEPT ![c] = "dropped"]
    /\ alive' = alive \ {c}
    /\ UNCHANGED <<mbox, srv, sent, reply, fts, rterr>>

\* A client that leaks its sender handle in a clone that is never dropped.
ClientDropKeepsSender(c) ==
    /\ cst[c] = "idle"
    /\ cst' = [cst EXCEPT ![c] = "dropped"]
    /\ UNCHANGED <<mbox, alive, srv, sent, reply, fts, rterr>>

\* A client between two calls may finish and drop its box.
ClientDrop(c) ==
    /\ cst[c] = "idle"
    /\ cst' = [cst EXCEPT ![c] = "dropped"]
    /\ alive' = alive \ {c}
    /\ UNCHANGED <<mbox, srv, sent, reply, fts, rterr>>

-----------------------------------------------------------------------------
(* The server run loop.                                                     *)

Idle == [st |-> "recv", from |-> None, req |-> None, resp |-> None]

ServerRecv ==
    /\ srv.st = "recv"
    /\ mbox # <<>>
    /\ srv' = [st |-> "handling", from |-> Head(mbox).from,
               req |-> Head(mbox).req, resp |-> None]
    /\ mbox' = Tail(mbox)
    /\ UNCHANGED <<alive, cst, sent, reply, fts, rterr>>

\* receive() returns None: all senders dropped and the mailbox drained.
ServerEnd ==
    /\ srv.st = "recv"
    /\ mbox = <<>>
    /\ alive = {}
    /\ srv' = [srv EXCEPT !.st = "stopped"]
    /\ UNCHANGED <<mbox, alive, cst, sent, reply, fts, rterr>>

\* HttpService::handle with the peer serving: hyper returns Ok(response)
\* whatever the status.  The response carries the request's endpoint and
\* method, here the request itself, and the peer's status code.
Handle(o) ==
    /\ srv.st = "handling" /\ fts = "serving"
    /\ srv' = [srv EXCEPT !.st = "replying",
                          !.resp = [req |-> srv.req, ok |-> TRUE,
                                    status |-> StatusOf(o)]]
    /\ UNCHANGED <<mbox, alive, cst, sent, reply, fts, rterr>>

\* An Err that leaves the loop without answering the client.
HandleErrNotAnswered ==
    /\ srv.st = "handling"
    /\ srv' = Idle
    /\ UNCHANGED <<mbox, alive, cst, sent, reply, fts, rterr>>

\* The hyper client fails (connection refused while the peer is not
\* serving, or any transport error) and `?` turns it into Err.
HandleErr ==
    /\ srv.st = "handling"
    /\ srv' = [srv EXCEPT !.st = "replying",
                          !.resp = [req |-> srv.req, ok |-> FALSE, status |-> 0]]
    /\ UNCHANGED <<mbox, alive, cst, sent, reply, fts, rterr>>

\* Send the response to the requesting client's box (suspends when full).
ServerReply ==
    /\ srv.st = "replying"
    /\ Len(reply[srv.from]) < Cap
    /\ reply' = [reply EXCEPT ![srv.from] = Append(@, srv.resp)]
    /\ srv' = Idle
    /\ UNCHANGED <<mbox, alive, cst, sent, fts, rterr>>

\* A fault that is not reported on the runtime-error channel.
ServerFaultUnreported ==
    /\ srv.st \in {"recv", "handling", "replying"}
    /\ srv' = [Idle EXCEPT !.st = "failed"]
    /\ mbox' = <<>>
    /\ UNCHANGED <<alive, cst, sent, reply, fts, rterr>>

\* The actor fails at any point of its loop: its receiver is dropped with
\* what it held, and the runtime reports the fault on its error channel.
ServerFault ==
    /\ srv.st \in {"recv", "handling", "replying"}
    /\ srv' = [Idle EXCEPT !.st = "failed"]
    /\ mbox' = <<>>
    /\ rterr' = Append(rterr, [actor |-> HttpName, err |-> "panic"])
    /\ UNCHANGED <<alive, cst, sent, reply, fts>>

-----------------------------------------------------------------------------
(* The file transfer server actor.                                          *)

\* It binds its address and serves.
FtsStart ==
    /\ fts = "binding"
    /\ fts' = "serving"
    /\ UNCHANGED <<mbox, alive, srv, cst, sent, reply, rterr>>

\* A FileTransferError ends it (the bind failing with BindingAddressInUse,
\* hyper failing while serving); From<FileTransferError> for RuntimeError
\* reports it as an ActorError.
FtsFail ==
    /\ fts \in {"binding", "serving"}
    /\ fts' = "failed"
    /\ rterr' = Append(rterr, [actor |-> "FileTransfer", err |-> "ActorError"])
    /\ UNCHANGED <<mbox, alive, srv, cst, sent, reply>>

Next == \/ \E c \in Clients : \/ ClientSend(c) \/ ClientSendClosed(c)
                              \/ ClientRecv(c) \/ ClientRecvClosed(c)
                              \/ ClientDrop(c)
        \/ ServerRecv \/ ServerEnd \/ ServerReply \/ ServerFault
        \/ \E o \in Outcomes : Handle(o)
        \/ HandleErr
        \/ FtsStart \/ FtsFail

(* Fairness: every actor is a task of the tokio runtime, which polls a     *)
(* ready task eventually, and the runtime starts every actor.  A client    *)
(* does not have to send nor to drop its box, and no actor has to fail,    *)
(* so ClientSend, ClientSendClosed, ClientDrop, ServerFault and FtsFail    *)
(* are not fair.  Handle is fair only under the assumption that the peer   *)
(* answers or the connection fails: the code sets no timeout on the        *)
(* request.                                                                *)
Fairness == /\ \A c \in Clients : WF_vars(ClientRecv(c)) /\ WF_vars(ClientRecvClosed(c))
            /\ WF_vars(ServerRecv) /\ WF_vars(ServerEnd) /\ WF_vars(ServerReply)
            /\ WF_vars((\E o \in Outcomes : Handle(o)) \/ HandleErr)
            /\ WF_vars(FtsStart)

Spec == Init /\ [][Next]_vars /\ Fairness

-----------------------------------------------------------------------------
TypeOK == /\ mbox \in Seq(Envelope) /\ Len(mbox) <= Cap
          /\ alive \subseteq Clients
          /\ srv.st \in {"recv", "handling", "replying", "stopped", "failed"}
          /\ cst \in [Clients -> {"idle", "waiting", "dropped"}]
          /\ sent \in [Clients -> 0..MaxReqs]
          /\ reply \in [Clients -> Seq(Response)]
          /\ fts \in {"binding", "serving", "failed"}
          /\ rterr \in Seq(Fault)

(* The server answers each request to the client that sent it: whatever   *)
(* sits in a client's response box is the answer to the very call the     *)
(* client is now awaiting, never to an earlier call of its own or to      *)
(* another client's call, and there is at most one.  This relates the     *)
(* server's routing by client id (ServerReply) to the client box's         *)
(* send-then-receive protocol.                                             *)
ResponseToRequester ==
    \A c \in Clients :
        /\ Len(reply[c]) <= 1
        /\ \A i \in 1..Len(reply[c]) :
               cst[c] = "waiting" /\ reply[c][i].req = <<c, sent[c]>>

(* No call is lost silently: the request of a client awaiting a response  *)
(* is still in the mailbox, in the hands of the run loop, or answered in  *)
(* the client's box; or else the HTTP actor has failed and its fault is    *)
(* on the runtime-error channel, where the supervisor sees it.  This ties *)
(* the run loop's error path (handle returning Err) and the actor's fault *)
(* path to the client's wait.                                             *)
Pending(c) == <<c, sent[c]>>

RequestAccounted ==
    \A c \in Clients : cst[c] = "waiting" =>
        \/ \E i \in 1..Len(mbox) : mbox[i].req = Pending(c)
        \/ srv.st \in {"handling", "replying"} /\ srv.req = Pending(c)
        \/ reply[c] # <<>>
        \/ srv.st = "failed" /\ \E i \in 1..Len(rterr) : rterr[i].actor = HttpName

(* A client awaiting a response gets one, Ok or Err, unless the HTTP      *)
(* actor fails, provided the peer answers HttpService::handle or the      *)
(* connection fails; one slow request delays every client queued behind   *)
(* it, since the loop handles one request at a time.                      *)
CallsAnswered ==
    \A c \in Clients : cst[c] = "waiting" ~> (cst[c] = "idle" \/ srv.st = "failed")

(* MailboxClosed is terminal for the link (spec section 7): once the HTTP *)
(* actor has failed, no client is left awaiting a response forever; each  *)
(* takes the answer already in its box or ends on the closed channel.     *)
FaultEndsCalls == srv.st = "failed" ~> \A c \in Clients : cst[c] # "waiting"

(* Shutdown cascade: once every client has dropped its box, the server's   *)
(* receive returns None and the actor stops, unless it failed before.      *)
ShutdownCompletes ==
    (\A c \in Clients : cst[c] = "dropped") ~> srv.st \in {"stopped", "failed"}
=============================================================================
