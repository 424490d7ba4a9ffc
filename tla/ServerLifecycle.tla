--------------------------- MODULE ServerLifecycle ---------------------------
(***************************************************************************)
(* What one workspace's LiveServer promises its concurrent callers: each   *)
(* start, stop, restart and status takes effect at one instant between its *)
(* call and its answer.  A restart is a stop followed by a start, and is   *)
(* not one atomic step.  LiveServer.tla implements this specification.     *)
(***************************************************************************)
EXTENDS Naturals

CONSTANTS Callers,  \* the tasks that call into the server
          Ports     \* the TCP ports

VARIABLES running,  \* the port being served, or 0
          stage,    \* stage[c]: how far the call of c has come
          verb,     \* verb[c]: what c called
          answer    \* answer[c]: what the last call of c was told

aVars == <<running, stage, verb, answer>>

Verbs   == {"start", "stop", "restart", "status"}
Stages  == {"idle", "starting", "stopping", "closing", "asking", "answered"}
Tags    == {"none", "running", "failed", "stopped", "notRunning", "cancelled"}
Answers == [tag : Tags, port : Ports \cup {0}]

Says(tag, port) == [tag |-> tag, port |-> port]

AInit ==
    /\ running = 0
    /\ stage = [c \in Callers |-> "idle"]
    /\ verb = [c \in Callers |-> "status"]
    /\ answer = [c \in Callers |-> Says("none", 0)]

FirstStage(v) == CASE v = "start" -> "starting"
                   [] v = "status" -> "asking"
                   [] v \in {"stop", "restart"} -> "stopping"

ACall(c, v) ==
    /\ stage[c] = "idle"
    /\ stage' = [stage EXCEPT ![c] = FirstStage(v)]
    /\ verb' = [verb EXCEPT ![c] = v]
    /\ UNCHANGED <<running, answer>>

AAnswer(c, a) ==
    /\ stage' = [stage EXCEPT ![c] = "answered"]
    /\ answer' = [answer EXCEPT ![c] = a]
    /\ UNCHANGED verb

\* A start is told the port already served, or serves a new one, or fails.
AStarted(c) ==
    /\ stage[c] = "starting"
    /\ running # 0
    /\ AAnswer(c, Says("running", running))
    /\ UNCHANGED running

AStarts(c) ==
    /\ stage[c] = "starting"
    /\ running = 0
    /\ running' \in Ports
    /\ AAnswer(c, Says("running", running'))

AStartFails(c) ==
    /\ stage[c] = "starting"
    /\ running = 0
    /\ AAnswer(c, Says("failed", 0))
    /\ UNCHANGED running

AStops(c) ==
    /\ stage[c] = "stopping"
    /\ running # 0
    /\ running' = 0
    /\ stage' = [stage EXCEPT ![c] = "closing"]
    /\ UNCHANGED <<verb, answer>>

AStopIdle(c) ==
    /\ stage[c] = "stopping"
    /\ running = 0
    /\ verb[c] # "restart"
    /\ AAnswer(c, Says("notRunning", 0))
    /\ UNCHANGED running

ARestartIdle(c) ==
    /\ stage[c] = "stopping"
    /\ running = 0
    /\ verb[c] = "restart"
    /\ stage' = [stage EXCEPT ![c] = "starting"]
    /\ UNCHANGED <<running, verb, answer>>

AStopped(c) ==
    /\ stage[c] = "closing"
    /\ verb[c] # "restart"
    /\ AAnswer(c, Says("stopped", 0))
    /\ UNCHANGED running

ARestarts(c) ==
    /\ stage[c] = "closing"
    /\ verb[c] = "restart"
    /\ stage' = [stage EXCEPT ![c] = "starting"]
    /\ UNCHANGED <<running, verb, answer>>

AStatus(c) ==
    /\ stage[c] = "asking"
    /\ AAnswer(c, IF running = 0 THEN Says("notRunning", 0)
                                 ELSE Says("running", running))
    /\ UNCHANGED running

\* The editor withdraws the request: the call is abandoned where it stands.
ACancel(c) ==
    /\ stage[c] \notin {"idle", "answered"}
    /\ AAnswer(c, Says("cancelled", 0))
    /\ UNCHANGED running

AReturn(c) ==
    /\ stage[c] = "answered"
    /\ stage' = [stage EXCEPT ![c] = "idle"]
    /\ verb' = [verb EXCEPT ![c] = "status"]
    /\ answer' = [answer EXCEPT ![c] = Says("none", 0)]
    /\ UNCHANGED running

ACaller(c) ==
    \/ \E v \in Verbs : ACall(c, v)
    \/ AStarted(c) \/ AStarts(c) \/ AStartFails(c)
    \/ AStops(c) \/ AStopIdle(c) \/ ARestartIdle(c)
    \/ AStopped(c) \/ ARestarts(c)
    \/ AStatus(c) \/ ACancel(c) \/ AReturn(c)

ANext == \E c \in Callers : ACaller(c)

ASpec == AInit /\ [][ANext]_aVars
=============================================================================
