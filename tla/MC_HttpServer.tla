--------------------------- MODULE MC_HttpServer ---------------------------
(* Three clients, each sending up to two requests, into mailboxes of      *)
(* capacity one: a client's send can find the server mailbox full, and    *)
(* two clients can queue behind a request in flight.  The file transfer   *)
(* server answers with a success or an error.  No symmetry, since the    *)
(* run checks liveness.                                                    *)
EXTENDS HttpServer

CONSTANTS c1, c2, c3

MC_Clients == {c1, c2, c3}

\* A success (200) and a request error (404 for FileNotFound): the run
\* loop routes a response whatever its status, so two codes tell apart
\* what the properties can.
MC_Outcomes == { [enum |-> "Ok", var |-> "Ok"],
                 [enum |-> "FileTransferRequestError", var |-> "FileNotFound"] }
=============================================================================
