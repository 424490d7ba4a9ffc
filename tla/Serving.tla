------------------------------- MODULE Serving -------------------------------
(***************************************************************************)
(* The connections of a workspace's servers (src/server/src/http.rs:       *)
(* serve_connection and handle_websocket) beside the stops and starts of   *)
(* LiveServer.                                                             *)
(*                                                                         *)
(* Each connection is a task of its own, spawned by the accept task of a   *)
(* generation.  It learns that its server is stopping from one message on  *)
(* the shutdown broadcast, and a broadcast reaches only the receivers that *)
(* exist when it is sent: a task that subscribes later hears nothing, and  *)
(* since the task's own Context holds a sender, its receiver never sees    *)
(* the channel close either.  A task subscribes when it first runs and a   *)
(* second time, with a receiver that replaces the first, once it has       *)
(* answered a WebSocket upgrade.                                           *)
(*                                                                         *)
(* What is read and written is left out: a peer may ask, ask to upgrade,   *)
(* stop reading, or go away at any moment.                                 *)
(***************************************************************************)
EXTENDS LiveServer

CONSTANT Conns  \* the connections browsers may open

VARIABLES
  stage,   \* stage[k]: where the task of connection k stands
  server,  \* server[k]: the generation that accepted k, or NoGen
  ear      \* ear[k]: the receiver k listens to existed before the goodbye

connVars == <<stage, server, ear>>
allVars == <<vars, connVars>>

\* none: not open; spawned: accepted, not yet polled; idle: waiting for a
\* request; upgrading: the 101 is on its way; pushing: the greeting, a reload or
\* a pong is on its way to a WebSocket.
Stages == {"none", "spawned", "idle", "serving", "upgrading", "pushing", "websocket", "closed"}

\* The shape of the connections; a socket that is open belongs to a generation.
ConnTypeOK ==
    /\ TypeOK
    /\ stage \in [Conns -> Stages]
    /\ server \in [Conns -> Gens \cup {NoGen}]
    /\ ear \in [Conns -> BOOLEAN]
    /\ \A k \in Conns : stage[k] # "none" => server[k] # NoGen

ConnInit ==
    /\ Init
    /\ stage = [k \in Conns |-> "none"]
    /\ server = [k \in Conns |-> NoGen]
    /\ ear = [k \in Conns |-> FALSE]

Moves(k, to) == stage' = [stage EXCEPT ![k] = to]

\* Mutant: spawns the connection without its server's Context.
AcceptOrphan(k, g) ==
    /\ stage[k] = "none"
    /\ bound[g] # NoPort
    /\ g = instance \/ g \in aborted
    /\ Moves(k, "spawned")
    /\ UNCHANGED <<vars, server, ear>>

\* The accept task of g, until it is dropped, spawns a task per connection.
Accept(k, g) ==
    /\ stage[k] = "none"
    /\ bound[g] # NoPort
    /\ g = instance \/ g \in aborted
    /\ Moves(k, "spawned")
    /\ server' = [server EXCEPT ![k] = g]
    /\ UNCHANGED <<vars, ear>>

\* A receiver created now will get the goodbye unless it has been sent.
Subscribes(k) == ear' = [ear EXCEPT ![k] = server[k] \notin signalled]

\* The task runs for the first time.
Begin(k) ==
    /\ stage[k] = "spawned"
    /\ Moves(k, "idle")
    /\ Subscribes(k)
    /\ UNCHANGED <<vars, server>>

ReadRequest(k) ==
    /\ stage[k] = "idle"
    /\ Moves(k, "serving")
    /\ UNCHANGED <<vars, server, ear>>

\* The request is for the reload socket and asks for an upgrade.
ReadUpgrade(k) ==
    /\ stage[k] = "idle"
    /\ Moves(k, "upgrading")
    /\ UNCHANGED <<vars, server, ear>>

\* The response is out; a keep-alive connection waits for the next request.
Respond(k) ==
    /\ stage[k] = "serving"
    /\ \/ Moves(k, "idle")
       \/ Moves(k, "closed")
    /\ UNCHANGED <<vars, server, ear>>

\* The 101 is written, then the task subscribes anew and greets the page.
Upgrade(k) ==
    /\ stage[k] = "upgrading"
    /\ Moves(k, "pushing")
    /\ Subscribes(k)
    /\ UNCHANGED <<vars, server>>

\* No key in the upgrade request (400), or the write fails.
RefuseUpgrade(k) ==
    /\ stage[k] = "upgrading"
    /\ Moves(k, "closed")
    /\ UNCHANGED <<vars, server, ear>>

Push(k) ==
    /\ stage[k] = "websocket"
    /\ Moves(k, "pushing")
    /\ UNCHANGED <<vars, server, ear>>

Pushed(k) ==
    /\ stage[k] = "pushing"
    /\ \/ Moves(k, "websocket")
       \/ Moves(k, "closed")
    /\ UNCHANGED <<vars, server, ear>>

\* Mutant: only WebSockets wait for the goodbye beside their peer.
HearGoodbyeOnWebSocket(k) ==
    /\ stage[k] = "websocket"
    /\ ear[k] /\ server[k] \in signalled
    /\ Moves(k, "closed")
    /\ UNCHANGED <<vars, server, ear>>

\* The shutdown arm of the two select loops.
HearGoodbye(k) ==
    /\ stage[k] \in {"idle", "websocket"}
    /\ ear[k] /\ server[k] \in signalled
    /\ Moves(k, "closed")
    /\ UNCHANGED <<vars, server, ear>>

\* read_request gives an idle peer KEEP_ALIVE_TIMEOUT; a WebSocket has no limit.
KeepAliveExpires(k) ==
    /\ stage[k] = "idle"
    /\ Moves(k, "closed")
    /\ UNCHANGED <<vars, server, ear>>

\* End of stream, an error, a malformed head, or a close frame.
PeerLeaves(k) ==
    /\ stage[k] \in {"idle", "websocket"}
    /\ Moves(k, "closed")
    /\ UNCHANGED <<vars, server, ear>>

Connection(k) ==
    \/ \E g \in Gens : Accept(k, g)
    \/ Begin(k) \/ ReadRequest(k) \/ ReadUpgrade(k) \/ Respond(k)
    \/ Upgrade(k) \/ RefuseUpgrade(k) \/ Push(k) \/ Pushed(k)
    \/ HearGoodbye(k) \/ KeepAliveExpires(k) \/ PeerLeaves(k)

ConnNext == (Next /\ UNCHANGED connVars) \/ (\E k \in Conns : Connection(k))

ConnSpec == ConnInit /\ [][ConnNext]_allVars

(***************************************************************************)
(* A spawned task is polled.  select! polls its arms in a random order, so *)
(* the goodbye wins some time although a busy peer has the next request    *)
(* ready each time: strong fairness.  An idle peer asks or times out.      *)
(* Apart from that peers owe nothing: they may never read, never leave.    *)
(***************************************************************************)
ConnFairness ==
    /\ \A c \in Callers : SF_allVars(LockStep(c) /\ UNCHANGED connVars)
                       /\ WF_allVars(OwnStep(c) /\ UNCHANGED connVars)
    /\ \A g \in Gens : WF_allVars(AcceptDropped(g) /\ UNCHANGED connVars)
    /\ \A k \in Conns : /\ WF_allVars(Begin(k))
                     /\ SF_allVars(HearGoodbye(k))
                     /\ WF_allVars(ReadRequest(k) \/ ReadUpgrade(k) \/ KeepAliveExpires(k))

ConnFairSpec == ConnSpec /\ ConnFairness

-----------------------------------------------------------------------------
Told(k) == server[k] \in signalled

\* stop sends the goodbye only after the accept task is gone, so no connection
\* is accepted by a server that has said it.
NoneAcceptedAfterGoodbye ==
    [][\A k \in Conns : stage[k] = "none" /\ stage'[k] = "spawned"
                            => server'[k] \notin signalled]_allVars

\* A connection that listened before its server stopped does not wait for
\* requests or reloads forever after (http.rs:41-43).  Only a peer that does not
\* read what it is sent keeps it open.
ListenersLeave ==
    \A k \in Conns, waiting \in {"idle", "websocket"} :
        (ear[k] /\ Told(k) /\ stage[k] = waiting) ~> [](stage[k] # waiting)

\* The comment in stop (server.rs:154-156): the WebSocket of every browser
\* closes, so a page left open stops waiting for reloads that never come.
WebSocketsEnd ==
    \A k \in Conns : (stage[k] = "websocket" /\ Told(k)) ~> [](stage[k] # "websocket")
=============================================================================
