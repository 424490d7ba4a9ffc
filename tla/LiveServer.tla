----------------------------- MODULE LiveServer -----------------------------
(***************************************************************************)
(* One workspace's server (src/server/src/server.rs): an Option<Instance>  *)
(* behind a tokio mutex, and the tasks that call start, stop, restart and  *)
(* status on it concurrently.                                              *)
(*                                                                         *)
(* A call is cut at the points where another task, the runtime or the      *)
(* operating system can be seen to act: taking the mutex, each attempt to  *)
(* bind a port, the publication of the instance, the wait for the accept   *)
(* task, and the clearing of the overlay.  start holds the mutex from its  *)
(* first line to its last; stop holds it only while it takes the instance. *)
(*                                                                         *)
(* An instance is named by the number of the call that built it, its       *)
(* generation.  Outside the code modelled here are the runtime, which      *)
(* drops an aborted accept task some time after the abort, other processes *)
(* that take and release ports, the editor that puts text in the overlay,  *)
(* and the editor's $/cancelRequest, on which tower-lsp drops the future   *)
(* of a request handler at the await where it is suspended.                *)
(***************************************************************************)
EXTENDS Naturals

CONSTANTS Callers,      \* tasks that call into the server
          Cancellable,  \* those that run an LSP request
          NoCaller,     \* the holder of a free mutex
          MaxPort,      \* the last port (65535)
          ScanLimit,    \* PORT_SCAN_LIMIT
          MaxCalls,     \* bound of the model on the number of calls
          Configs,      \* the configurations calls are made with
          Documents     \* the documents the overlay may hold

Ports == 1..MaxPort
NoPort == 0
Gens == 1..MaxCalls
NoGen == 0

\* literal: the host is an IP address, not a name left to the resolver.
ConfigType == [port : 0..MaxPort, literal : BOOLEAN]

NoConfig == [port |-> 0, literal |-> TRUE]

ASSUME CallersAssumption == Cancellable \subseteq Callers /\ NoCaller \notin Callers
ASSUME LimitsAssumption ==
    MaxPort \in Nat /\ ScanLimit \in Nat \ {0} /\ MaxCalls \in Nat
ASSUME ConfigsAssumption == Configs \subseteq ConfigType

VARIABLES
  lock,       \* the caller that holds the instance mutex, or NoCaller
  instance,   \* the generation behind the mutex, or NoGen
  bound,      \* bound[g]: the port the listener of g holds, or NoPort
  aborted,    \* generations whose accept task has been aborted
  signalled,  \* generations whose shutdown channel has been sent to
  watching,   \* generations whose file watcher is registered
  foreign,    \* ports held by other processes
  overlaid,   \* documents whose text the overlay holds
  calls,      \* number of calls made so far
  pc,         \* pc[c]: where caller c stands
  op,         \* op[c]: what it called
  want,       \* want[c]: the configuration it called with
  ticket,     \* ticket[c]: the number of its call
  offset,     \* offset[c]: its place in the port scan
  victim,     \* victim[c]: the generation its stop has taken, or NoGen
  result      \* result[c]: what the call answered

hostVars == <<bound, aborted, signalled, watching>>
envVars == <<foreign, overlaid>>
callVars == <<calls, op, want, ticket>>
vars == <<lock, instance, hostVars, envVars, callVars, pc, offset, victim, result>>

Ops == {"start", "stop", "restart", "status"}
Places == {"idle", "startLock", "bind", "publish", "stopLock", "drain",
           "clear", "statusLock", "done"}
Tags == {"none", "running", "failed", "stopped", "notRunning", "cancelled"}
Results == [tag : Tags, port : 0..MaxPort]

Says(tag, port) == [tag |-> tag, port |-> port]

\* The port a scan is trying.
Candidate(c) == want[c].port + offset[c]

\* A scan never tries a port past the last one: the code adds with checked_add.
ScanInRange == \A c \in Callers : Candidate(c) \in 0..MaxPort

\* The shape of every variable, and the range of the port scan.
TypeOK ==
    /\ lock \in Callers \cup {NoCaller}
    /\ instance \in Gens \cup {NoGen}
    /\ bound \in [Gens -> Ports \cup {NoPort}]
    /\ aborted \subseteq Gens
    /\ signalled \subseteq Gens
    /\ watching \subseteq Gens
    /\ foreign \subseteq Ports
    /\ overlaid \subseteq Documents
    /\ calls \in 0..MaxCalls
    /\ pc \in [Callers -> Places]
    /\ op \in [Callers -> Ops]
    /\ want \in [Callers -> ConfigType]
    /\ ticket \in [Callers -> 0..MaxCalls]
    /\ offset \in [Callers -> 0..(ScanLimit - 1)]
    /\ ScanInRange
    /\ victim \in [Callers -> Gens \cup {NoGen}]
    /\ result \in [Callers -> Results]

Init ==
    /\ lock = NoCaller
    /\ instance = NoGen
    /\ bound = [g \in Gens |-> NoPort]
    /\ aborted = {} /\ signalled = {} /\ watching = {}
    /\ foreign \in SUBSET Ports
    /\ overlaid = {}
    /\ calls = 0
    /\ pc = [c \in Callers |-> "idle"]
    /\ op = [c \in Callers |-> "status"]
    /\ want = [c \in Callers |-> NoConfig]
    /\ ticket = [c \in Callers |-> 0]
    /\ offset = [c \in Callers |-> 0]
    /\ victim = [c \in Callers |-> NoGen]
    /\ result = [c \in Callers |-> Says("none", NoPort)]

(***************************************************************************)
(* A call and its answer.                                                  *)
(***************************************************************************)
FirstPlace(o) == CASE o = "start" -> "startLock"
                   [] o = "status" -> "statusLock"
                   [] o \in {"stop", "restart"} -> "stopLock"

\* Only start and restart take a configuration.
Call(c, o, cfg) ==
    /\ pc[c] = "idle"
    /\ calls < MaxCalls
    /\ calls' = calls + 1
    /\ pc' = [pc EXCEPT ![c] = FirstPlace(o)]
    /\ op' = [op EXCEPT ![c] = o]
    /\ want' = [want EXCEPT ![c] = cfg]
    /\ ticket' = [ticket EXCEPT ![c] = calls + 1]
    /\ UNCHANGED <<lock, instance, hostVars, envVars, offset, victim, result>>

Calls(c) ==
    \/ \E o \in {"start", "restart"}, cfg \in Configs : Call(c, o, cfg)
    \/ \E o \in {"stop", "status"} : Call(c, o, NoConfig)

Answer(c, r) ==
    /\ pc' = [pc EXCEPT ![c] = "done"]
    /\ result' = [result EXCEPT ![c] = r]
    /\ UNCHANGED callVars

\* The caller has its answer; what the call held in locals is gone.
Return(c) ==
    /\ pc[c] = "done"
    /\ pc' = [pc EXCEPT ![c] = "idle"]
    /\ op' = [op EXCEPT ![c] = "status"]
    /\ want' = [want EXCEPT ![c] = NoConfig]
    /\ ticket' = [ticket EXCEPT ![c] = 0]
    /\ offset' = [offset EXCEPT ![c] = 0]
    /\ victim' = [victim EXCEPT ![c] = NoGen]
    /\ result' = [result EXCEPT ![c] = Says("none", NoPort)]
    /\ UNCHANGED <<lock, instance, hostVars, envVars, calls>>

(***************************************************************************)
(* start: the mutex is held until the call answers.                        *)
(***************************************************************************)
\* Mutant: answers the port asked for, not the port being served.
StartAnswersWanted(c) ==
    /\ pc[c] = "startLock"
    /\ lock = NoCaller
    /\ instance # NoGen
    /\ Answer(c, Says("running", want[c].port))
    /\ UNCHANGED <<lock, instance, hostVars, envVars, offset, victim>>

StartFindsRunning(c) ==
    /\ pc[c] = "startLock"
    /\ lock = NoCaller
    /\ instance # NoGen
    /\ Answer(c, Says("running", bound[instance]))
    /\ UNCHANGED <<lock, instance, hostVars, envVars, offset, victim>>

\* The document root is not a directory.
StartRootMissing(c) ==
    /\ pc[c] = "startLock"
    /\ lock = NoCaller
    /\ instance = NoGen
    /\ Answer(c, Says("failed", NoPort))
    /\ UNCHANGED <<lock, instance, hostVars, envVars, offset, victim>>

\* Mutant: checks under the mutex, then builds without it.
StartProceedsUnlocked(c) ==
    /\ pc[c] = "startLock"
    /\ lock = NoCaller
    /\ instance = NoGen
    /\ pc' = [pc EXCEPT ![c] = "bind"]
    /\ UNCHANGED <<lock, instance, hostVars, envVars, callVars, offset, victim, result>>

StartProceeds(c) ==
    /\ pc[c] = "startLock"
    /\ lock = NoCaller
    /\ instance = NoGen
    /\ lock' = c
    /\ pc' = [pc EXCEPT ![c] = "bind"]
    /\ UNCHANGED <<instance, hostVars, envVars, callVars, offset, victim, result>>

Free(p) == p \notin foreign /\ \A g \in Gens : bound[g] # p

\* Port 0 is the operating system's choice of a free port.
Bindable(c, p) == Free(p) /\ (want[c].port = 0 \/ p = Candidate(c))

BindSucceeds(c, p) ==
    /\ pc[c] = "bind"
    /\ Bindable(c, p)
    /\ bound' = [bound EXCEPT ![ticket[c]] = p]
    /\ pc' = [pc EXCEPT ![c] = "publish"]
    /\ UNCHANGED <<lock, instance, aborted, signalled, watching, envVars,
                   callVars, offset, victim, result>>

\* Mutant: an unchecked addition scans past the last port.
MoreToScanUnchecked(c) ==
    /\ want[c].port # 0 /\ want[c].literal
    /\ offset[c] + 1 < ScanLimit

\* Only a literal address on a set port is scanned upward.
MoreToScan(c) ==
    /\ want[c].port # 0 /\ want[c].literal
    /\ offset[c] + 1 < ScanLimit
    /\ Candidate(c) < MaxPort

BindTaken(c) ==
    /\ pc[c] = "bind"
    /\ ~Free(Candidate(c))
    /\ MoreToScan(c)
    /\ offset' = [offset EXCEPT ![c] = @ + 1]
    /\ UNCHANGED <<lock, instance, hostVars, envVars, callVars, pc, victim, result>>

\* The scan is over, or the system refuses for another reason than a port in
\* use: a privileged port, an address that is not local, an unknown name.
BindFails(c) ==
    /\ pc[c] = "bind"
    /\ lock' = NoCaller
    /\ Answer(c, Says("failed", NoPort))
    /\ UNCHANGED <<instance, hostVars, envVars, offset, victim>>

\* The watcher is registered or, on an error, replaced by a NullWatcher.
Publish(c) ==
    /\ pc[c] = "publish"
    /\ watching' \in {watching, watching \cup {ticket[c]}}
    /\ instance' = ticket[c]
    /\ lock' = NoCaller
    /\ Answer(c, Says("running", bound[ticket[c]]))
    /\ UNCHANGED <<bound, aborted, signalled, envVars, offset, victim>>

(***************************************************************************)
(* stop: only the take happens under the mutex.                            *)
(***************************************************************************)
AfterStop(c) == IF op[c] = "restart" THEN "startLock" ELSE "done"

StopFindsNothing(c) ==
    /\ pc[c] = "stopLock"
    /\ lock = NoCaller
    /\ instance = NoGen
    /\ pc' = [pc EXCEPT ![c] = AfterStop(c)]
    /\ result' = [result EXCEPT ![c] =
                    IF op[c] = "restart" THEN @ ELSE Says("notRunning", NoPort)]
    /\ UNCHANGED <<lock, instance, hostVars, envVars, callVars, offset, victim>>

\* Mutant: looks at the instance instead of taking it.
StopPeeks(c) ==
    /\ pc[c] = "stopLock"
    /\ lock = NoCaller
    /\ instance # NoGen
    /\ victim' = [victim EXCEPT ![c] = instance]
    /\ aborted' = aborted \cup {instance}
    /\ pc' = [pc EXCEPT ![c] = "drain"]
    /\ UNCHANGED <<lock, instance, bound, signalled, watching, envVars, callVars, offset, result>>

\* Mutant: drops the accept task's handle without aborting the task.
StopDetaches(c) ==
    /\ pc[c] = "stopLock"
    /\ lock = NoCaller
    /\ instance # NoGen
    /\ victim' = [victim EXCEPT ![c] = instance]
    /\ instance' = NoGen
    /\ pc' = [pc EXCEPT ![c] = "drain"]
    /\ UNCHANGED <<lock, hostVars, envVars, callVars, offset, result>>

StopTakes(c) ==
    /\ pc[c] = "stopLock"
    /\ lock = NoCaller
    /\ instance # NoGen
    /\ victim' = [victim EXCEPT ![c] = instance]
    /\ aborted' = aborted \cup {instance}
    /\ instance' = NoGen
    /\ pc' = [pc EXCEPT ![c] = "drain"]
    /\ UNCHANGED <<lock, bound, signalled, watching, envVars, callVars, offset, result>>

\* Mutant: does not wait for the aborted accept task.
StopHurries(c) ==
    /\ pc[c] = "drain"
    /\ signalled' = signalled \cup {victim[c]}
    /\ pc' = [pc EXCEPT ![c] = "clear"]
    /\ UNCHANGED <<lock, instance, bound, aborted, watching, envVars, callVars,
                   offset, victim, result>>

\* Mutant: waits, but never tells the connections.
StopSilent(c) ==
    /\ pc[c] = "drain"
    /\ bound[victim[c]] = NoPort
    /\ pc' = [pc EXCEPT ![c] = "clear"]
    /\ UNCHANGED <<lock, instance, hostVars, envVars, callVars, offset, victim, result>>

\* The await on the aborted accept task returns once the task is dropped.
StopDrained(c) ==
    /\ pc[c] = "drain"
    /\ bound[victim[c]] = NoPort
    /\ signalled' = signalled \cup {victim[c]}
    /\ pc' = [pc EXCEPT ![c] = "clear"]
    /\ UNCHANGED <<lock, instance, bound, aborted, watching, envVars, callVars,
                   offset, victim, result>>

\* The rest of the instance, its watcher with it, is dropped as stop returns.
StopClears(c) ==
    /\ pc[c] = "clear"
    /\ overlaid' = {}
    /\ watching' = watching \ {victim[c]}
    /\ pc' = [pc EXCEPT ![c] = AfterStop(c)]
    /\ result' = [result EXCEPT ![c] =
                    IF op[c] = "restart" THEN @ ELSE Says("stopped", NoPort)]
    /\ UNCHANGED <<lock, instance, bound, aborted, signalled, foreign, callVars,
                   offset, victim>>

StatusReads(c) ==
    /\ pc[c] = "statusLock"
    /\ lock = NoCaller
    /\ Answer(c, IF instance = NoGen THEN Says("notRunning", NoPort)
                                     ELSE Says("running", bound[instance]))
    /\ UNCHANGED <<lock, instance, hostVars, envVars, offset, victim>>

(***************************************************************************)
(* The editor withdraws the request.  The future is dropped at its await:  *)
(* a resolver lookup in bind, the mutex, the accept task or the overlay.   *)
(* What the future owned goes with it: the mutex guard, the instance a     *)
(* stop has taken and so its watcher.                                      *)
(***************************************************************************)
Suspended(c) ==
    \/ pc[c] \in {"startLock", "stopLock", "statusLock", "drain", "clear"}
    \/ pc[c] = "bind" /\ ~want[c].literal

Cancel(c) ==
    /\ c \in Cancellable
    /\ Suspended(c)
    /\ lock' = IF lock = c THEN NoCaller ELSE lock
    /\ watching' = IF pc[c] \in {"drain", "clear"} THEN watching \ {victim[c]}
                                                   ELSE watching
    /\ Answer(c, Says("cancelled", NoPort))
    /\ UNCHANGED <<instance, bound, aborted, signalled, envVars, offset, victim>>

(***************************************************************************)
(* The surroundings.                                                       *)
(***************************************************************************)
\* The runtime drops an aborted accept task, which closes the listener.
AcceptDropped(g) ==
    /\ g \in aborted
    /\ bound[g] # NoPort
    /\ bound' = [bound EXCEPT ![g] = NoPort]
    /\ UNCHANGED <<lock, instance, aborted, signalled, watching, envVars,
                   callVars, pc, offset, victim, result>>

ForeignTakes(p) ==
    /\ Free(p)
    /\ foreign' = foreign \cup {p}
    /\ UNCHANGED <<lock, instance, hostVars, overlaid, callVars, pc, offset, victim, result>>

ForeignReleases(p) ==
    /\ p \in foreign
    /\ foreign' = foreign \ {p}
    /\ UNCHANGED <<lock, instance, hostVars, overlaid, callVars, pc, offset, victim, result>>

EditorOverlays(d) ==
    /\ d \notin overlaid
    /\ overlaid' = overlaid \cup {d}
    /\ UNCHANGED <<lock, instance, hostVars, foreign, callVars, pc, offset, victim, result>>

-----------------------------------------------------------------------------
\* The steps that wait for the mutex, and those that do not.
LockStep(c) ==
    \/ StartFindsRunning(c) \/ StartRootMissing(c) \/ StartProceeds(c)
    \/ StopFindsNothing(c) \/ StopTakes(c)
    \/ StatusReads(c)

OwnStep(c) ==
    \/ \E p \in Ports : BindSucceeds(c, p)
    \/ BindTaken(c) \/ BindFails(c) \/ Publish(c)
    \/ StopDrained(c) \/ StopClears(c)
    \/ Return(c)

Caller(c) ==
    \/ Calls(c)
    \/ LockStep(c)
    \/ OwnStep(c)
    \/ Cancel(c)

Environment ==
    \/ \E g \in Gens : AcceptDropped(g)
    \/ \E p \in Ports : ForeignTakes(p) \/ ForeignReleases(p)
    \/ \E d \in Documents : EditorOverlays(d)

Next == (\E c \in Callers : Caller(c)) \/ Environment

Spec == Init /\ [][Next]_vars

(***************************************************************************)
(* The tokio mutex is fair (first come, first served), so a waiting caller *)
(* gets it although it is not free all the while; the executor polls every *)
(* ready task; and it drops an aborted task.  Nothing is assumed of the    *)
(* editor or of other processes.                                           *)
(***************************************************************************)
Fairness ==
    /\ \A c \in Callers : SF_vars(LockStep(c)) /\ WF_vars(OwnStep(c))
    /\ \A g \in Gens : WF_vars(AcceptDropped(g))

FairSpec == Spec /\ Fairness

(***************************************************************************)
(* What must hold of it.                                                   *)
(***************************************************************************)
\* At most one listener that nobody is tearing down: two starts that race on
\* the instance must not both end up accepting connections.
OneListener ==
    \A g, h \in Gens :
        (bound[g] # NoPort /\ bound[h] # NoPort) =>
            g = h \/ g \in aborted \/ h \in aborted

\* What status reports as running does accept connections: the published
\* instance holds its port, no stop has aborted it and none has said goodbye.
RunningIsListening ==
    instance # NoGen =>
        /\ bound[instance] # NoPort
        /\ instance \notin aborted
        /\ instance \notin signalled

\* No port and no file watch outlives its instance without somebody on the way
\* to release it, whatever calls fail, race or are withdrawn half-way.
NoLeak ==
    /\ \A g \in Gens : bound[g] # NoPort =>
          \/ g = instance
          \/ g \in aborted
          \/ \E c \in Callers : pc[c] = "publish" /\ ticket[c] = g
    /\ \A g \in watching :
          \/ g = instance
          \/ \E c \in Callers : pc[c] \in {"drain", "clear"} /\ victim[c] = g

\* The connections of an instance are told to close only once its listener is
\* gone: one accepted after the message would never see it.
GoodbyeAfterLastAccept == \A g \in signalled : bound[g] = NoPort /\ g # instance

\* Once a stop has answered that it stopped a server, nothing of that server is
\* left: the port is released, its connections told, its watcher gone.
StoppedIsGone ==
    \A c \in Callers : pc[c] = "done" /\ result[c].tag = "stopped" =>
        /\ victim[c] # NoGen
        /\ bound[victim[c]] = NoPort
        /\ victim[c] \in signalled
        /\ victim[c] \notin watching
        /\ victim[c] # instance

\* A restart does not race the listener it has itself just stopped: by the time
\* it looks for a port, the one it released is free again (server.rs:146-149).
RestartFreesItsPort ==
    \A c \in Callers :
        pc[c] \in {"startLock", "bind"} /\ victim[c] # NoGen => bound[victim[c]] = NoPort

\* Every call is answered.
CallsReturn == \A c \in Callers : pc[c] # "idle" ~> pc[c] = "idle"

(***************************************************************************)
(* The abstract specification this one implements.                         *)
(***************************************************************************)
StageOf(c) ==
    CASE pc[c] = "idle" -> "idle"
      [] pc[c] \in {"startLock", "bind", "publish"} -> "starting"
      [] pc[c] = "stopLock" -> "stopping"
      [] pc[c] \in {"drain", "clear"} -> "closing"
      [] pc[c] = "statusLock" -> "asking"
      [] pc[c] = "done" -> "answered"

Abstract == INSTANCE ServerLifecycle WITH
    running <- IF instance = NoGen THEN NoPort ELSE bound[instance],
    stage <- [c \in Callers |-> StageOf(c)],
    verb <- op,
    answer <- result

\* Each call takes effect at one instant between its call and its answer.
ImplementsLifecycle == Abstract!ASpec
=============================================================================
