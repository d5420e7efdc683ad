------------------------------ MODULE ZmqLink ------------------------------
(***************************************************************************)
(* The ZeroMQ link between the tablets and the console: one TCP endpoint   *)
(* (port 9000) that the console's server threads bind a REP socket to, and *)
(* one REQ socket per request of a tablet.                                 *)
(*                                                                         *)
(* The library (jeromq 0.2.0) is external.  What the code in src/ relies   *)
(* on, and what is modelled here: bind on an endpoint already bound by     *)
(* another socket of the process returns without binding and without an    *)
(* exception; a REQ socket waits for a server to connect to, and once its  *)
(* request was handed to a server it waits for that server's reply for     *)
(* ever; a REP socket replies to the request it received last; closing a   *)
(* socket frees the endpoint and forgets the requests handed to it.        *)
(***************************************************************************)
EXTENDS Naturals

CONSTANTS
    Clients,       \* tablets, each with at most one request at a time
    Servers,       \* threads of the console that open a REP socket
    Messages,      \* texts a tablet may send
    MaxRequests,   \* bound: requests sent in a behaviour, over all tablets
    NoServer, NoMessage

ASSUME ServersAssumption == NoServer \notin Servers
ASSUME MaxRequestsAssumption == MaxRequests \in Nat

VARIABLES
    port,   \* the server whose socket is bound to the endpoint
    req,    \* the request of each tablet
    sent    \* requests sent so far, for the bound only

linkVars == <<port, req, sent>>

(***************************************************************************)
(* idle: no request.  queued: in the tablet's socket, no server reached.   *)
(* inbox: in the pipe of server "at".  taken: returned by that server's    *)
(* recv.  answered: reply on its way back.  lost: the server closed its    *)
(* socket without replying, the tablet's recv never returns.               *)
(***************************************************************************)
RequestState == {"idle", "queued", "inbox", "taken", "answered", "lost"}

Request == [st : RequestState,
            at : Servers \cup {NoServer},
            msg : Messages \cup {NoMessage}]

NoRequest == [st |-> "idle", at |-> NoServer, msg |-> NoMessage]

LinkTypeOK ==
    /\ port \in Servers \cup {NoServer}
    /\ req \in [Clients -> Request]
    /\ sent \in 0..MaxRequests

LinkInit ==
    /\ port = NoServer
    /\ req = [c \in Clients |-> NoRequest]
    /\ sent = 0

-----------------------------------------------------------------------------
(* The tablet: ZeroMQMessageTask.doInBackground. *)

\* connect and send: the request waits in the socket's queue.
Send(c, m) ==
    /\ req[c].st = "idle"
    /\ sent < MaxRequests
    /\ req' = [req EXCEPT ![c] = [st |-> "queued", at |-> NoServer, msg |-> m]]
    /\ sent' = sent + 1
    /\ UNCHANGED port

\* recv returns the reply; the task closes its socket and shows the text.
Receive(c) ==
    /\ req[c].st = "answered"
    /\ req' = [req EXCEPT ![c] = NoRequest]
    /\ UNCHANGED <<port, sent>>

-----------------------------------------------------------------------------
(* The library between them. *)

\* The connection is made and the request handed to the bound socket.
Deliver(c) ==
    /\ port # NoServer
    /\ req[c].st = "queued"
    /\ req' = [req EXCEPT ![c].st = "inbox", ![c].at = port]
    /\ UNCHANGED <<port, sent>>

-----------------------------------------------------------------------------
(* Operations of a server's socket, for the server threads to use. *)

\* bind: a second bind on the endpoint leaves the socket unbound, silently.
Bind(s) ==
    /\ port' = IF port = NoServer THEN s ELSE port
    /\ UNCHANGED <<req, sent>>

\* A request recv can return to s.
HasRequest(s, c) == req[c].st = "inbox" /\ req[c].at = s

Take(s, c) ==
    /\ HasRequest(s, c)
    /\ req' = [req EXCEPT ![c].st = "taken"]
    /\ UNCHANGED <<port, sent>>

\* send on a REP socket answers the request it took.
Reply(s) ==
    /\ req' = [c \in Clients |->
                 IF req[c].st = "taken" /\ req[c].at = s
                   THEN [req[c] EXCEPT !.st = "answered"] ELSE req[c]]
    /\ UNCHANGED <<port, sent>>

\* close and term: replies already sent are flushed, requests are forgotten.
CloseSocket(s) ==
    /\ port' = IF port = s THEN NoServer ELSE port
    /\ req' = [c \in Clients |->
                 IF req[c].st \in {"inbox", "taken"} /\ req[c].at = s
                   THEN [req[c] EXCEPT !.st = "lost"] ELSE req[c]]
    /\ UNCHANGED sent
=============================================================================
