-------------------------- MODULE ConsentNotifier --------------------------
(***************************************************************************)
(* routes/ws_consent.py: dashboards connect to a websocket and are told of   *)
(* each consent request as it is raised (routes/consent.py), besides what   *)
(* GET /v1/consent/pending lists.  Everything runs on the event loop; a step *)
(* goes from one await that suspends to the next.  The registry's lock is   *)
(* never held across one, so taking it does not suspend.                    *)
(*                                                                         *)
(* Requests raised in a thread have no running loop and send no notice.     *)
(* A client is one connection; one that comes back is another client.       *)
(***************************************************************************)
EXTENDS Naturals

CONSTANTS Clients, Requests

VARIABLES
    pending,        \* _pending_requests
    notices,        \* the requests whose notify task has not started
    connections,    \* ConsentNotifier._connections
    socket,         \* where each client's endpoint stands
    present,        \* the clients at the other end
    targets,        \* per request: connections its broadcast has yet to serve
    dead,           \* per request: those that failed
    sending,        \* requests being broadcast
    raised,         \* identifiers handed out
    silent,         \* those raised in a thread
    seen,           \* what each client was told or shown
    listed          \* clients that listed the pending requests since the welcome

tasks == <<notices, targets, dead, sending>>
ends == <<connections, socket, present>>
views == <<seen, listed>>
vars == <<pending, tasks, ends, raised, silent, views>>

Init ==
    /\ pending = {} /\ notices = {} /\ connections = {} /\ sending = {}
    /\ raised = {} /\ silent = {} /\ listed = {} /\ present = {}
    /\ socket = [c \in Clients |-> "new"]
    /\ targets = [r \in Requests |-> {}] /\ dead = [r \in Requests |-> {}]
    /\ seen = [c \in Clients |-> {}]

(* connect: the handshake is awaited, *)
Accept(c) ==
    /\ socket[c] = "new"
    /\ socket' = [socket EXCEPT ![c] = "accepted"]
    /\ present' = present \cup {c}
    /\ UNCHANGED <<pending, tasks, connections, raised, silent, views>>

(* A bug: the welcome goes out first. *)
WelcomeFirst(c) ==
    /\ socket[c] \in {"accepted", "open"}
    /\ socket' = [socket EXCEPT ![c] = "open"]
    /\ connections' = IF socket[c] = "open" THEN connections \cup {c} ELSE connections
    /\ UNCHANGED <<pending, tasks, present, raised, silent, views>>

(* then the connection registered, and the welcome sent.  The client may     *)
(* have it before the endpoint goes on.                                     *)
Register(c) ==
    /\ socket[c] = "accepted"
    /\ connections' = connections \cup {c}
    /\ socket' = [socket EXCEPT ![c] = "open"]
    /\ UNCHANGED <<pending, tasks, present, raised, silent, views>>

(* The client hangs up, or is lost; the endpoint notices when it receives,   *)
(* or when a welcome, pong or heartbeat fails, and disconnects.  It also     *)
(* ends, and with it the connection, on a message that is not JSON.         *)
Leave(c) ==
    /\ c \in present
    /\ present' = present \ {c}
    /\ UNCHANGED <<pending, tasks, connections, socket, raised, silent, views>>

Disconnect(c) ==
    /\ socket[c] = "open"
    /\ connections' = connections \ {c}
    /\ socket' = [socket EXCEPT ![c] = "closed"]
    /\ present' = present \ {c}
    /\ UNCHANGED <<pending, tasks, raised, silent, views>>

(* create_consent_request on the loop, and in a thread. *)
Raise(r) ==
    /\ r \notin raised
    /\ raised' = raised \cup {r}
    /\ pending' = pending \cup {r}
    /\ notices' = notices \cup {r}
    /\ UNCHANGED <<targets, dead, sending, ends, silent, views>>

RaiseInThread(r) ==
    /\ r \notin raised
    /\ raised' = raised \cup {r} /\ silent' = silent \cup {r}
    /\ pending' = pending \cup {r}
    /\ UNCHANGED <<tasks, ends, views>>

Respond(r) ==
    /\ pending' = pending \ {r}
    /\ UNCHANGED <<tasks, ends, raised, silent, views>>

(* notify_consent_required: nothing without a connection, else a broadcast   *)
(* to those there are now.                                                  *)
Notify(r) ==
    /\ r \in notices
    /\ notices' = notices \ {r}
    /\ sending' = IF connections = {} THEN sending ELSE sending \cup {r}
    /\ targets' = [targets EXCEPT ![r] = connections]
    /\ UNCHANGED <<pending, dead, ends, raised, silent, views>>

(* The next target: a connection already closed is passed over; one whose    *)
(* client is lost may fail, or swallow the message.                         *)
Send(r, c) ==
    /\ r \in sending /\ c \in targets[r]
    /\ targets' = [targets EXCEPT ![r] = @ \ {c}]
    /\ \/ socket[c] = "closed" /\ UNCHANGED <<dead, seen>>
       \/ /\ socket[c] # "closed" /\ c \in present
          /\ seen' = [seen EXCEPT ![c] = @ \cup {r}] /\ UNCHANGED dead
       \/ /\ socket[c] # "closed" /\ c \notin present
          /\ \/ dead' = [dead EXCEPT ![r] = @ \cup {c}]
             \/ UNCHANGED dead
          /\ UNCHANGED seen
    /\ UNCHANGED <<pending, notices, sending, ends, raised, silent, listed>>

Prune(r) ==
    /\ r \in sending /\ targets[r] = {}
    /\ sending' = sending \ {r}
    /\ connections' = connections \ dead[r]
    /\ UNCHANGED <<pending, notices, targets, dead, socket, present, raised, silent, views>>

(* A client with its welcome asks for the pending requests.                 *)
List(c) ==
    /\ socket[c] = "open" /\ c \in present
    /\ seen' = [seen EXCEPT ![c] = @ \cup pending]
    /\ listed' = listed \cup {c}
    /\ UNCHANGED <<pending, tasks, ends, raised, silent>>

Next ==
    \/ \E c \in Clients : Accept(c) \/ Register(c) \/ Leave(c) \/ Disconnect(c) \/ List(c)
    \/ \E r \in Requests : Raise(r) \/ RaiseInThread(r) \/ Notify(r) \/ Prune(r)
    \/ \E r \in pending : Respond(r)
    \/ \E r \in Requests, c \in Clients : Send(r, c)

Spec == Init /\ [][Next]_vars

-----------------------------------------------------------------------------
(* A dashboard that asks for the pending requests after its welcome, and     *)
(* stays, has been shown or told every request that waits and was raised on  *)
(* the loop, once no notice is on its way.                                  *)
NothingMissed ==
    (notices = {} /\ sending = {}) =>
        \A c \in listed \cap present : pending \ silent \subseteq seen[c]
=============================================================================
