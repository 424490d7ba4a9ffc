-------------------------- MODULE LiveServerProofs --------------------------
(***************************************************************************)
(* Theorems about LiveServer for every number of callers, ports, calls and *)
(* documents, and every set of configurations, and about Serving for every *)
(* number of connections: a connection changes nothing of its server, so   *)
(* the inductive invariant of LiveServer carries over to the composition.  *)
(***************************************************************************)
EXTENDS Serving, TLAPS

\* Callers that are building an instance, and those with a call under way.
Building(c) == pc[c] \in {"bind", "publish"}
Active(c) == pc[c] \notin {"idle", "done"}

\* The mutex is held exactly by the caller that builds; nothing is published then.
LockInv ==
    /\ \A c \in Callers : Building(c) <=> lock = c
    /\ lock # NoCaller => instance = NoGen

\* Calls under way have numbers of their own, none of them from the future.
TicketInv ==
    /\ \A c \in Callers : pc[c] # "idle" => ticket[c] \in 1..calls
    /\ \A c, d \in Callers : pc[c] # "idle" /\ pc[d] # "idle" /\ ticket[c] = ticket[d] => c = d
    /\ \A c \in Callers : pc[c] = "idle" => offset[c] = 0

\* g names no instance, past or present.
Unused(g) ==
    /\ g \notin aborted /\ g \notin signalled /\ g \notin watching
    /\ g # instance
    /\ \A d \in Callers : victim[d] # g

\* The number of a call names no instance before the call has published one, and
\* it holds a port only between the bind and the publication.
UnusedInv ==
    /\ \A g \in Gens : g > calls => Unused(g) /\ bound[g] = NoPort
    /\ \A c \in Callers : Active(c) =>
          /\ Unused(ticket[c])
          /\ bound[ticket[c]] # NoPort <=> pc[c] = "publish"

\* What a stop has taken has been aborted, and nothing of its listener is left
\* once the stop has waited for it.
VictimInv ==
    \A c \in Callers :
        /\ pc[c] \in {"idle", "stopLock"} => victim[c] = NoGen
        /\ pc[c] \in {"drain", "clear"} => victim[c] # NoGen
        /\ victim[c] # NoGen => victim[c] \in aborted
        /\ victim[c] # NoGen /\ pc[c] \notin {"drain", "done"} => bound[victim[c]] = NoPort
        /\ pc[c] = "clear" => victim[c] \in signalled

\* All of the inductive invariant but the types.
Rest ==
    /\ LockInv
    /\ TicketInv
    /\ UnusedInv
    /\ VictimInv
    /\ RunningIsListening
    /\ NoLeak
    /\ GoodbyeAfterLastAccept
    /\ StoppedIsGone

\* The inductive invariant.
IInv == TypeOK /\ Rest

-----------------------------------------------------------------------------
LEMMA SaysType ==
    ASSUME NEW tag \in Tags, NEW port \in 0..MaxPort
    PROVE  Says(tag, port) \in Results
BY DEF Says, Results

LEMMA NoConfigType == NoConfig \in ConfigType
BY LimitsAssumption DEF NoConfig, ConfigType

LEMMA InitIInv == Init => IInv
<1> SUFFICES ASSUME Init PROVE IInv
    OBVIOUS
<1> USE DEF Init
<1>1. TypeOK
  <2>1. Says("none", NoPort) \in Results
      BY SaysType, LimitsAssumption DEF Tags, NoPort
  <2>2. ScanInRange
    <3>1. NoConfig.port + 0 \in 0..MaxPort
        BY LimitsAssumption DEF NoConfig
    <3>2. \A c \in Callers : want[c] = NoConfig /\ offset[c] = 0
        OBVIOUS
    <3> QED
        BY <3>1, <3>2 DEF ScanInRange, Candidate
  <2> QED
      BY <2>1, <2>2, NoConfigType, LimitsAssumption
      DEF TypeOK, Ops, Places, Ports, NoPort, NoGen, Gens
<1>2. LockInv /\ TicketInv
    BY CallersAssumption DEF LockInv, TicketInv, Building
<1>3. UnusedInv
    BY LimitsAssumption DEF UnusedInv, Unused, Active, Gens, NoGen
<1>4. VictimInv /\ RunningIsListening /\ NoLeak /\ GoodbyeAfterLastAccept /\ StoppedIsGone
    BY DEF VictimInv, RunningIsListening, NoLeak, GoodbyeAfterLastAccept, StoppedIsGone, Says
<1> QED
    BY <1>1, <1>2, <1>3, <1>4 DEF IInv, Rest

\* The scan stays in range.
LEMMA ScanStep ==
    ASSUME TypeOK, TicketInv, [Next]_vars
    PROVE  ScanInRange'
<1> USE DEF TypeOK
<1>1. ASSUME NEW c \in Callers, Calls(c) PROVE ScanInRange'
  <2>1. PICK cfg \in ConfigType : want' = [want EXCEPT ![c] = cfg]
      BY <1>1, NoConfigType, ConfigsAssumption DEF Calls, Call
  <2>2. offset[c] = 0 /\ offset' = offset
      BY <1>1 DEF Calls, Call, TicketInv
  <2> QED
      BY <2>1, <2>2, LimitsAssumption DEF ScanInRange, Candidate, ConfigType
<1>2. ASSUME NEW c \in Callers, BindTaken(c) PROVE ScanInRange'
  <2>1. /\ Candidate(c) < MaxPort
        /\ offset' = [offset EXCEPT ![c] = @ + 1]
        /\ want' = want
      BY <1>2 DEF BindTaken, MoreToScan, callVars
  <2> QED
      BY <2>1, LimitsAssumption DEF ScanInRange, Candidate, ConfigType
<1>3. ASSUME NEW c \in Callers, Return(c) PROVE ScanInRange'
    BY <1>3, LimitsAssumption DEF Return, ScanInRange, Candidate, NoConfig
<1>4. ASSUME UNCHANGED <<want, offset>> PROVE ScanInRange'
    BY <1>4 DEF ScanInRange, Candidate
<1> QED
  <2>1. ASSUME NEW c \in Callers, LockStep(c) \/ Cancel(c) PROVE UNCHANGED <<want, offset>>
      BY <2>1 DEF LockStep, StartFindsRunning, StartRootMissing, StartProceeds,
         StopFindsNothing, StopTakes, StatusReads, Cancel, Answer, callVars
  <2>2. ASSUME NEW c \in Callers, OwnStep(c), ~BindTaken(c), ~Return(c)
        PROVE  UNCHANGED <<want, offset>>
      BY <2>2 DEF OwnStep, BindSucceeds, BindFails, Publish, StopDrained, StopClears,
         Answer, callVars
  <2>3. ASSUME Environment \/ UNCHANGED vars PROVE UNCHANGED <<want, offset>>
      BY <2>3 DEF Environment, AcceptDropped, ForeignTakes, ForeignReleases, EditorOverlays,
         vars, callVars
  <2> QED
      BY <1>1, <1>2, <1>3, <1>4, <2>1, <2>2, <2>3 DEF Next, Caller, OwnStep

\* Every step keeps the shape of the variables.
LEMMA TypeStep ==
    ASSUME TypeOK, TicketInv, VictimInv, [Next]_vars
    PROVE  TypeOK'
<1> USE LimitsAssumption, CallersAssumption
    DEF TypeOK, Ops, Places, NoPort, NoGen, Gens, Ports, hostVars, envVars, callVars
<1>1. \A t \in Tags, p \in 0..MaxPort : Says(t, p) \in Results
    BY SaysType
<1>2. \A t \in Tags : Says(t, NoPort) \in Results
    BY <1>1
<1>3. instance # NoGen => bound[instance] \in 0..MaxPort
    OBVIOUS
<1>4. {"none", "running", "failed", "stopped", "notRunning", "cancelled"} = Tags
    BY DEF Tags
<1>5. ScanInRange'
    BY ScanStep
<1>6. ASSUME NEW c \in Callers, Calls(c) PROVE TypeOK'
  <2>1. PICK o \in Ops, cfg \in ConfigType : Call(c, o, cfg)
      BY <1>6, NoConfigType, ConfigsAssumption DEF Calls
  <2> QED
      BY <2>1, <1>5 DEF Call, FirstPlace
<1>7. ASSUME NEW c \in Callers, LockStep(c) PROVE TypeOK'
  <2>1. CASE StartFindsRunning(c)
      BY <2>1, <1>1, <1>3, <1>4, <1>5 DEF StartFindsRunning, Answer
  <2>2. CASE StartRootMissing(c)
      BY <2>2, <1>2, <1>4, <1>5 DEF StartRootMissing, Answer
  <2>3. CASE StartProceeds(c)
      BY <2>3, <1>5 DEF StartProceeds
  <2>4. CASE StopFindsNothing(c)
      BY <2>4, <1>2, <1>4, <1>5 DEF StopFindsNothing, AfterStop
  <2>5. CASE StopTakes(c)
      BY <2>5, <1>5 DEF StopTakes
  <2>6. CASE StatusReads(c)
      BY <2>6, <1>1, <1>2, <1>3, <1>4, <1>5 DEF StatusReads, Answer
  <2> QED
      BY <1>7, <2>1, <2>2, <2>3, <2>4, <2>5, <2>6 DEF LockStep
<1>8. ASSUME NEW c \in Callers, OwnStep(c) PROVE TypeOK'
  <2>1. ASSUME NEW p \in Ports, BindSucceeds(c, p) PROVE TypeOK'
      BY <2>1, <1>5 DEF BindSucceeds
  <2>2. CASE BindTaken(c)
      BY <2>2, <1>5 DEF BindTaken, MoreToScan
  <2>3. CASE BindFails(c)
      BY <2>3, <1>2, <1>4, <1>5 DEF BindFails, Answer
  <2>4. CASE Publish(c)
    <3>1. ticket[c] \in Gens /\ Says("running", bound[ticket[c]]) \in Results
      <4>1. pc[c] # "idle"
          BY <2>4 DEF Publish
      <4>2. ticket[c] \in 1..calls
          BY <4>1 DEF TicketInv
      <4>3. ticket[c] \in Gens
          BY <4>2
      <4>4. bound[ticket[c]] \in 0..MaxPort
          BY <4>3
      <4>5. "running" \in Tags
          BY <1>4
      <4> QED
          BY <4>3, <4>4, <4>5, <1>1
    <3>2. watching' \subseteq Gens /\ instance' \in Gens
        BY <2>4, <3>1 DEF Publish
    <3>3. /\ pc' = [pc EXCEPT ![c] = "done"]
          /\ result' = [result EXCEPT ![c] = Says("running", bound[ticket[c]])]
          /\ lock' = NoCaller
          /\ UNCHANGED <<callVars, bound, aborted, signalled, envVars, offset, victim>>
        BY <2>4 DEF Publish, Answer
    <3> QED
        BY <3>1, <3>2, <3>3, <1>5
  <2>5. CASE StopDrained(c)
    <3>1. victim[c] \in Gens
        BY <2>5 DEF StopDrained, VictimInv
    <3> QED
        BY <2>5, <3>1, <1>5 DEF StopDrained
  <2>6. CASE StopClears(c)
      BY <2>6, <1>2, <1>4, <1>5 DEF StopClears, AfterStop
  <2>7. CASE Return(c)
      BY <2>7, <1>2, <1>4, <1>5, NoConfigType DEF Return
  <2> QED
      BY <1>8, <2>1, <2>2, <2>3, <2>4, <2>5, <2>6, <2>7 DEF OwnStep
<1>9. ASSUME NEW c \in Callers, Cancel(c) PROVE TypeOK'
    BY <1>9, <1>2, <1>4, <1>5 DEF Cancel, Answer
<1>10. CASE Environment
    BY <1>10, <1>5 DEF Environment, AcceptDropped, ForeignTakes, ForeignReleases, EditorOverlays
<1>11. CASE UNCHANGED vars
    BY <1>11, <1>5 DEF vars
<1> QED
    BY <1>6, <1>7, <1>8, <1>9, <1>10, <1>11 DEF Next, Caller

\* A new call takes a number nobody has used.
LEMMA CallStep ==
    ASSUME TypeOK, TypeOK', Rest, NEW c \in Callers, NEW o \in Ops, NEW cfg \in ConfigType, Call(c, o, cfg)
    PROVE  Rest'
<1> USE DEF TypeOK, Gens, NoGen, NoPort, Ports, hostVars, envVars, callVars, Call
<1>1. FirstPlace(o) \in {"startLock", "stopLock", "statusLock"}
    BY DEF FirstPlace, Ops
<1>2. LockInv'
    BY <1>1, CallersAssumption DEF Rest, LockInv, Building
<1>3. TicketInv'
    BY <1>1 DEF Rest, TicketInv
<1>4. UnusedInv'
    BY <1>1 DEF Rest, UnusedInv, Unused, Active, TicketInv
<1>5. VictimInv'
    BY <1>1 DEF Rest, VictimInv
<1>6. RunningIsListening'
    BY <1>1 DEF Rest, RunningIsListening
<1>7. NoLeak'
    BY <1>1 DEF Rest, NoLeak
<1>8. GoodbyeAfterLastAccept'
    BY <1>1 DEF Rest, GoodbyeAfterLastAccept
<1>9. StoppedIsGone'
    BY <1>1 DEF Rest, StoppedIsGone, Says
<1> QED
    BY <1>2, <1>3, <1>4, <1>5, <1>6, <1>7, <1>8, <1>9 DEF Rest

LEMMA StartFindsRunningStep ==
    ASSUME TypeOK, TypeOK', Rest, NEW c \in Callers, StartFindsRunning(c)
    PROVE  Rest'
<1> USE DEF TypeOK, Gens, NoGen, NoPort, Ports, hostVars, envVars, callVars, StartFindsRunning, Answer
<1>1. UnusedInv'
    BY DEF Rest, UnusedInv, Unused, Active
<1>2. NoLeak'
    BY DEF Rest, NoLeak
<1>3. StoppedIsGone'
    BY DEF Rest, StoppedIsGone, Says
<1>4. LockInv' /\ TicketInv'
      /\ VictimInv' /\ RunningIsListening' /\ GoodbyeAfterLastAccept'
    BY CallersAssumption DEF Rest, LockInv, Building, TicketInv,
           VictimInv, RunningIsListening, GoodbyeAfterLastAccept
<1> QED
    BY <1>1, <1>2, <1>3, <1>4 DEF Rest

LEMMA StartRootMissingStep ==
    ASSUME TypeOK, TypeOK', Rest, NEW c \in Callers, StartRootMissing(c)
    PROVE  Rest'
<1> USE DEF TypeOK, Gens, NoGen, NoPort, Ports, hostVars, envVars, callVars, StartRootMissing, Answer
<1>1. LockInv' /\ TicketInv' /\ UnusedInv' /\ VictimInv'
      /\ RunningIsListening' /\ NoLeak' /\ GoodbyeAfterLastAccept' /\ StoppedIsGone'
    BY CallersAssumption DEF Rest, LockInv, Building, TicketInv, UnusedInv, Unused, Active,
           VictimInv, RunningIsListening, NoLeak, GoodbyeAfterLastAccept, StoppedIsGone, Says
<1> QED
    BY <1>1 DEF Rest

\* The mutex is taken while no instance is published.
LEMMA StartProceedsStep ==
    ASSUME TypeOK, TypeOK', Rest, NEW c \in Callers, StartProceeds(c)
    PROVE  Rest'
<1> USE DEF TypeOK, Gens, NoGen, NoPort, Ports, hostVars, envVars, callVars, StartProceeds
<1>1. LockInv'
    BY CallersAssumption DEF Rest, LockInv, Building
<1>2. TicketInv' /\ UnusedInv' /\ VictimInv'
      /\ RunningIsListening' /\ NoLeak' /\ GoodbyeAfterLastAccept' /\ StoppedIsGone'
    BY DEF Rest, TicketInv, UnusedInv, Unused, Active, VictimInv,
           RunningIsListening, NoLeak, GoodbyeAfterLastAccept, StoppedIsGone, Says
<1> QED
    BY <1>1, <1>2 DEF Rest

\* The port goes to a number that names no instance yet, so no stop waits for it
\* and none has said its goodbye.
LEMMA BindSucceedsStep ==
    ASSUME TypeOK, TypeOK', Rest, NEW c \in Callers, NEW p \in Ports, BindSucceeds(c, p)
    PROVE  Rest'
<1> USE DEF TypeOK, Gens, NoGen, NoPort, Ports, hostVars, envVars, callVars, BindSucceeds
<1>1. ticket[c] \in Gens /\ Unused(ticket[c])
    BY DEF Rest, TicketInv, UnusedInv, Active
<1>2. /\ bound'[ticket[c]] = p
      /\ \A g \in Gens : g # ticket[c] => bound'[g] = bound[g]
    BY <1>1
<1>3. LockInv' /\ TicketInv'
    BY DEF Rest, LockInv, TicketInv, Building
<1>4. UnusedInv'
    BY DEF Rest, UnusedInv, Unused, Active, TicketInv
<1>5. VictimInv'
    BY <1>1, <1>2 DEF Rest, VictimInv, Unused
<1>6. RunningIsListening'
    BY DEF Rest, RunningIsListening
<1>7. NoLeak'
  <2>1. ASSUME NEW g \in Gens, bound'[g] # NoPort
        PROVE  \/ g = instance' \/ g \in aborted'
               \/ \E d \in Callers : pc'[d] = "publish" /\ ticket'[d] = g
    <3>1. CASE g = ticket[c]
        BY <3>1
    <3>2. CASE g # ticket[c]
        BY <2>1, <3>2, <1>2 DEF Rest, NoLeak
    <3> QED
        BY <3>1, <3>2
  <2>2. ASSUME NEW g \in watching'
        PROVE  \/ g = instance'
               \/ \E d \in Callers : pc'[d] \in {"drain", "clear"} /\ victim'[d] = g
      BY <2>2 DEF Rest, NoLeak
  <2> QED
      BY <2>1, <2>2 DEF NoLeak
<1>8. GoodbyeAfterLastAccept'
    BY <1>1, <1>2 DEF Rest, GoodbyeAfterLastAccept, Unused
<1>9. StoppedIsGone'
    BY <1>1, <1>2 DEF Rest, StoppedIsGone, Unused
<1> QED
    BY <1>3, <1>4, <1>5, <1>6, <1>7, <1>8, <1>9 DEF Rest

LEMMA BindTakenStep ==
    ASSUME TypeOK, TypeOK', Rest, NEW c \in Callers, BindTaken(c)
    PROVE  Rest'
<1> USE DEF TypeOK, Gens, NoGen, NoPort, Ports, hostVars, envVars, callVars, BindTaken
<1>1. LockInv' /\ TicketInv' /\ UnusedInv' /\ VictimInv'
      /\ RunningIsListening' /\ NoLeak' /\ GoodbyeAfterLastAccept' /\ StoppedIsGone'
    BY CallersAssumption DEF Rest, LockInv, Building, TicketInv, UnusedInv, Unused, Active,
           VictimInv, RunningIsListening, NoLeak, GoodbyeAfterLastAccept, StoppedIsGone, Says
<1> QED
    BY <1>1 DEF Rest

LEMMA BindFailsStep ==
    ASSUME TypeOK, TypeOK', Rest, NEW c \in Callers, BindFails(c)
    PROVE  Rest'
<1> USE DEF TypeOK, Gens, NoGen, NoPort, Ports, hostVars, envVars, callVars, BindFails, Answer
<1>1. LockInv'
    BY CallersAssumption DEF Rest, LockInv, Building
<1>2. UnusedInv'
    BY DEF Rest, UnusedInv, Unused, Active
<1>3. NoLeak'
    BY DEF Rest, NoLeak, UnusedInv, Unused, Active
<1>4. StoppedIsGone'
    BY DEF Rest, StoppedIsGone, Says
<1>5. TicketInv' /\ VictimInv' /\ RunningIsListening' /\ GoodbyeAfterLastAccept'
    BY DEF Rest, TicketInv, VictimInv, RunningIsListening, GoodbyeAfterLastAccept
<1> QED
    BY <1>1, <1>2, <1>3, <1>4, <1>5 DEF Rest

\* The builder holds the mutex, so it overwrites no instance.
LEMMA PublishStep ==
    ASSUME TypeOK, TypeOK', Rest, NEW c \in Callers, Publish(c)
    PROVE  Rest'
<1> USE DEF TypeOK, Gens, NoGen, NoPort, Ports, hostVars, envVars, callVars, Publish, Answer
<1>1. ticket[c] \in Gens /\ Unused(ticket[c]) /\ bound[ticket[c]] # NoPort
    BY DEF Rest, TicketInv, UnusedInv, Active
<1>2. instance = NoGen /\ lock = c
    BY CallersAssumption DEF Rest, LockInv, Building
<1>3. LockInv'
    BY CallersAssumption DEF Rest, LockInv, Building
<1>4. TicketInv' /\ VictimInv'
    BY DEF Rest, TicketInv, VictimInv
<1>5. UnusedInv'
    BY DEF Rest, UnusedInv, Unused, Active, TicketInv
<1>6. RunningIsListening'
    BY <1>1 DEF RunningIsListening, Unused
<1>7. NoLeak'
  <2>1. ASSUME NEW g \in Gens, bound'[g] # NoPort
        PROVE  \/ g = instance' \/ g \in aborted'
               \/ \E d \in Callers : pc'[d] = "publish" /\ ticket'[d] = g
      BY <2>1, <1>2 DEF Rest, NoLeak
  <2>2. ASSUME NEW g \in watching'
        PROVE  \/ g = instance'
               \/ \E d \in Callers : pc'[d] \in {"drain", "clear"} /\ victim'[d] = g
      BY <2>2, <1>2 DEF Rest, NoLeak
  <2> QED
      BY <2>1, <2>2 DEF NoLeak
<1>8. GoodbyeAfterLastAccept'
    BY <1>1 DEF Rest, GoodbyeAfterLastAccept, Unused
<1>9. StoppedIsGone'
    BY <1>1 DEF Rest, StoppedIsGone, Unused, Says
<1> QED
    BY <1>3, <1>4, <1>5, <1>6, <1>7, <1>8, <1>9 DEF Rest

LEMMA StopFindsNothingStep ==
    ASSUME TypeOK, TypeOK', Rest, NEW c \in Callers, StopFindsNothing(c)
    PROVE  Rest'
<1> USE DEF TypeOK, Gens, NoGen, NoPort, Ports, hostVars, envVars, callVars, StopFindsNothing, AfterStop
<1>1. StoppedIsGone'
    BY DEF Rest, StoppedIsGone, Says
<1>2. LockInv' /\ TicketInv' /\ UnusedInv'
      /\ VictimInv' /\ RunningIsListening' /\ NoLeak' /\ GoodbyeAfterLastAccept'
    BY CallersAssumption DEF Rest, LockInv, Building, TicketInv, UnusedInv, Unused,
           Active, VictimInv, RunningIsListening, NoLeak, GoodbyeAfterLastAccept
<1> QED
    BY <1>1, <1>2 DEF Rest

\* What the stop takes is aborted and in its hands.
LEMMA StopTakesStep ==
    ASSUME TypeOK, TypeOK', Rest, NEW c \in Callers, StopTakes(c)
    PROVE  Rest'
<1> USE DEF TypeOK, Gens, NoGen, NoPort, Ports, hostVars, envVars, callVars, StopTakes
<1>1. UnusedInv'
    BY DEF Rest, UnusedInv, Unused, Active, TicketInv
<1>2. VictimInv'
    BY DEF Rest, VictimInv
<1>3. NoLeak'
  <2>1. ASSUME NEW g \in Gens, bound'[g] # NoPort
        PROVE  \/ g = instance' \/ g \in aborted'
               \/ \E d \in Callers : pc'[d] = "publish" /\ ticket'[d] = g
      BY <2>1 DEF Rest, NoLeak
  <2>2. ASSUME NEW g \in watching'
        PROVE  \/ g = instance'
               \/ \E d \in Callers : pc'[d] \in {"drain", "clear"} /\ victim'[d] = g
    <3>1. pc'[c] = "drain" /\ victim'[c] = instance
        OBVIOUS
    <3>2. CASE g = instance
        BY <3>1, <3>2
    <3>3. CASE g # instance
        BY <2>2, <3>3 DEF Rest, NoLeak
    <3> QED
        BY <3>2, <3>3
  <2> QED
      BY <2>1, <2>2 DEF NoLeak
<1>4. LockInv' /\ TicketInv'
      /\ RunningIsListening' /\ GoodbyeAfterLastAccept' /\ StoppedIsGone'
    BY CallersAssumption DEF Rest, LockInv, Building, TicketInv,
           RunningIsListening, GoodbyeAfterLastAccept, StoppedIsGone, Says
<1> QED
    BY <1>1, <1>2, <1>3, <1>4 DEF Rest

\* The listener is gone before the goodbye is said.
LEMMA StopDrainedStep ==
    ASSUME TypeOK, TypeOK', Rest, NEW c \in Callers, StopDrained(c)
    PROVE  Rest'
<1> USE DEF TypeOK, Gens, NoGen, NoPort, Ports, hostVars, envVars, callVars, StopDrained
<1>1. UnusedInv'
    BY DEF Rest, UnusedInv, Unused, Active
<1>2. VictimInv'
    BY DEF Rest, VictimInv
<1>3. GoodbyeAfterLastAccept'
    BY DEF Rest, GoodbyeAfterLastAccept, VictimInv, RunningIsListening
<1>4. LockInv' /\ TicketInv' /\ RunningIsListening' /\ NoLeak' /\ StoppedIsGone'
    BY CallersAssumption DEF Rest, LockInv, Building, TicketInv,
           RunningIsListening, NoLeak, StoppedIsGone, Says
<1> QED
    BY <1>1, <1>2, <1>3, <1>4 DEF Rest

LEMMA StopClearsStep ==
    ASSUME TypeOK, TypeOK', Rest, NEW c \in Callers, StopClears(c)
    PROVE  Rest'
<1> USE DEF TypeOK, Gens, NoGen, NoPort, Ports, hostVars, envVars, callVars, StopClears, AfterStop
<1>1. NoLeak'
    BY DEF Rest, NoLeak
<1>2. StoppedIsGone'
    BY DEF Rest, StoppedIsGone, Says, VictimInv, RunningIsListening
<1>3. LockInv' /\ TicketInv' /\ UnusedInv'
      /\ VictimInv' /\ RunningIsListening' /\ GoodbyeAfterLastAccept'
    BY CallersAssumption DEF Rest, LockInv, Building, TicketInv, UnusedInv,
           Unused, Active, VictimInv, RunningIsListening, GoodbyeAfterLastAccept
<1> QED
    BY <1>1, <1>2, <1>3 DEF Rest

LEMMA StatusReadsStep ==
    ASSUME TypeOK, TypeOK', Rest, NEW c \in Callers, StatusReads(c)
    PROVE  Rest'
<1> USE DEF TypeOK, Gens, NoGen, NoPort, Ports, hostVars, envVars, callVars, StatusReads, Answer
<1>1. StoppedIsGone'
    BY DEF Rest, StoppedIsGone, Says
<1>2. LockInv' /\ TicketInv' /\ UnusedInv'
      /\ VictimInv' /\ RunningIsListening' /\ NoLeak' /\ GoodbyeAfterLastAccept'
    BY CallersAssumption DEF Rest, LockInv, Building, TicketInv, UnusedInv, Unused,
           Active, VictimInv, RunningIsListening, NoLeak, GoodbyeAfterLastAccept
<1> QED
    BY <1>1, <1>2 DEF Rest

LEMMA ReturnStep ==
    ASSUME TypeOK, TypeOK', Rest, NEW c \in Callers, Return(c)
    PROVE  Rest'
<1> USE DEF TypeOK, Gens, NoGen, NoPort, Ports, hostVars, envVars, callVars, Return
<1>1. UnusedInv'
    BY DEF Rest, UnusedInv, Unused, Active, TicketInv
<1>2. VictimInv'
    BY DEF Rest, VictimInv
<1>3. NoLeak'
    BY DEF Rest, NoLeak
<1>4. StoppedIsGone'
    BY DEF Rest, StoppedIsGone, Says
<1>5. LockInv' /\ TicketInv' /\ RunningIsListening' /\ GoodbyeAfterLastAccept'
    BY CallersAssumption DEF Rest, LockInv, Building, TicketInv, RunningIsListening, GoodbyeAfterLastAccept
<1> QED
    BY <1>1, <1>2, <1>3, <1>4, <1>5 DEF Rest

\* A withdrawn start gives back the mutex, a withdrawn stop drops the watcher.
LEMMA CancelStep ==
    ASSUME TypeOK, TypeOK', Rest, NEW c \in Callers, Cancel(c)
    PROVE  Rest'
<1> USE DEF TypeOK, Gens, NoGen, NoPort, Ports, hostVars, envVars, callVars, Cancel, Answer, Suspended
<1>1. LockInv'
    BY CallersAssumption DEF Rest, LockInv, Building
<1>2. VictimInv'
    BY DEF Rest, VictimInv
<1>3. NoLeak'
    BY DEF Rest, NoLeak
<1>4. TicketInv' /\ UnusedInv'
      /\ RunningIsListening' /\ GoodbyeAfterLastAccept' /\ StoppedIsGone'
    BY DEF Rest, TicketInv, UnusedInv, Unused, Active,
           RunningIsListening, GoodbyeAfterLastAccept, StoppedIsGone, Says
<1> QED
    BY <1>1, <1>2, <1>3, <1>4 DEF Rest

\* Only an aborted listener goes, which is no published instance's.
LEMMA AcceptDroppedStep ==
    ASSUME TypeOK, TypeOK', Rest, NEW g \in Gens, AcceptDropped(g)
    PROVE  Rest'
<1> USE DEF TypeOK, Gens, NoGen, NoPort, Ports, hostVars, envVars, callVars, AcceptDropped
<1>1. UnusedInv'
    BY DEF Rest, UnusedInv, Unused, Active
<1>2. RunningIsListening'
    BY DEF Rest, RunningIsListening
<1>3. NoLeak'
    BY DEF Rest, NoLeak
<1>4. LockInv' /\ TicketInv' /\ VictimInv' /\ GoodbyeAfterLastAccept' /\ StoppedIsGone'
    BY CallersAssumption DEF Rest, LockInv, Building, TicketInv,
           VictimInv, GoodbyeAfterLastAccept, StoppedIsGone, Says
<1> QED
    BY <1>1, <1>2, <1>3, <1>4 DEF Rest

\* The steps of the surroundings that touch neither an instance nor a call.
LEMMA QuietStep ==
    ASSUME Rest, UNCHANGED <<lock, instance, hostVars, callVars, pc, offset, victim, result>>
    PROVE  Rest'
<1> USE DEF hostVars, callVars
<1>1. LockInv' /\ TicketInv' /\ UnusedInv' /\ VictimInv'
    BY DEF Rest, LockInv, TicketInv, UnusedInv, VictimInv, Building, Active, Unused
<1>2. RunningIsListening' /\ NoLeak' /\ GoodbyeAfterLastAccept' /\ StoppedIsGone'
    BY DEF Rest, RunningIsListening, NoLeak, GoodbyeAfterLastAccept, StoppedIsGone
<1> QED
    BY <1>1, <1>2 DEF Rest

LEMMA StepIInv == IInv /\ [Next]_vars => IInv'
<1> SUFFICES ASSUME IInv, [Next]_vars PROVE IInv'
    OBVIOUS
<1>1. TypeOK /\ Rest /\ TypeOK'
    BY TypeStep DEF IInv, Rest
<1>2. ASSUME NEW c \in Callers, Calls(c) PROVE Rest'
  <2>1. PICK o \in Ops, cfg \in ConfigType : Call(c, o, cfg)
      BY <1>2, NoConfigType, ConfigsAssumption DEF Calls, Ops
  <2> QED
      BY <2>1, <1>1, CallStep
<1>3. ASSUME NEW c \in Callers, LockStep(c) PROVE Rest'
    BY <1>3, <1>1, StartFindsRunningStep, StartRootMissingStep, StartProceedsStep,
       StopFindsNothingStep, StopTakesStep, StatusReadsStep DEF LockStep
<1>4. ASSUME NEW c \in Callers, OwnStep(c) PROVE Rest'
    BY <1>4, <1>1, BindSucceedsStep, BindTakenStep, BindFailsStep, PublishStep,
       StopDrainedStep, StopClearsStep, ReturnStep DEF OwnStep
<1>5. ASSUME NEW c \in Callers, Cancel(c) PROVE Rest'
    BY <1>5, <1>1, CancelStep
<1>6. ASSUME Environment PROVE Rest'
  <2>1. ASSUME NEW g \in Gens, AcceptDropped(g) PROVE Rest'
      BY <2>1, <1>1, AcceptDroppedStep
  <2>2. ASSUME NEW p \in Ports, ForeignTakes(p) \/ ForeignReleases(p) PROVE Rest'
      BY <2>2, <1>1, QuietStep DEF ForeignTakes, ForeignReleases
  <2>3. ASSUME NEW d \in Documents, EditorOverlays(d) PROVE Rest'
      BY <2>3, <1>1, QuietStep DEF EditorOverlays
  <2> QED
      BY <1>6, <2>1, <2>2, <2>3 DEF Environment
<1>7. ASSUME UNCHANGED vars PROVE Rest'
    BY <1>7, <1>1, QuietStep DEF vars
<1>8. Rest'
    BY <1>2, <1>3, <1>4, <1>5, <1>6, <1>7 DEF Next, Caller
<1> QED
    BY <1>1, <1>8 DEF IInv

\* The inductive invariant holds in every reachable state.
THEOREM Invariance == Spec => []IInv
BY InitIInv, StepIInv, PTL DEF Spec

-----------------------------------------------------------------------------
\* Every variable keeps its type, and no scan leaves the range of ports.
THEOREM TypeCorrect == Spec => []TypeOK
<1>1. IInv => TypeOK
    BY DEF IInv
<1> QED
    BY Invariance, <1>1, PTL

LEMMA ListenersAreOne == IInv => OneListener
<1> SUFFICES ASSUME IInv, NEW g \in Gens, NEW h \in Gens,
                    bound[g] # NoPort, bound[h] # NoPort, g \notin aborted, h \notin aborted
             PROVE  g = h
    BY DEF OneListener
<1>1. ASSUME NEW c \in Callers, pc[c] = "publish" PROVE instance = NoGen /\ lock = c
    BY <1>1, CallersAssumption DEF IInv, Rest, LockInv, Building
<1>2. ASSUME NEW i \in Gens, bound[i] # NoPort, i \notin aborted
      PROVE  i = instance \/ \E c \in Callers : pc[c] = "publish" /\ ticket[c] = i
    BY <1>2 DEF IInv, Rest, NoLeak
<1>3. NoGen \notin Gens
    BY DEF NoGen, Gens
<1> QED
    BY <1>1, <1>2, <1>3

\* However many starts, stops and restarts race, at most one listener accepts
\* connections that no stop is tearing down.
THEOREM AtMostOneListener == Spec => []OneListener
BY Invariance, ListenersAreOne, PTL

\* The published instance always has its listener.
THEOREM RunningListens == Spec => []RunningIsListening
<1>1. IInv => RunningIsListening
    BY DEF IInv, Rest
<1> QED
    BY Invariance, <1>1, PTL

\* Ports and watchers are never leaked.
THEOREM NothingLeaks == Spec => []NoLeak
<1>1. IInv => NoLeak
    BY DEF IInv, Rest
<1> QED
    BY Invariance, <1>1, PTL

\* The goodbye follows the last accept.
THEOREM GoodbyeIsLast == Spec => []GoodbyeAfterLastAccept
<1>1. IInv => GoodbyeAfterLastAccept
    BY DEF IInv, Rest
<1> QED
    BY Invariance, <1>1, PTL

\* A stop that has answered has left nothing behind.
THEOREM StopIsThorough == Spec => []StoppedIsGone
<1>1. IInv => StoppedIsGone
    BY DEF IInv, Rest
<1> QED
    BY Invariance, <1>1, PTL

\* A restart finds the port of the listener it stopped released.
THEOREM RestartIsClean == Spec => []RestartFreesItsPort
<1>1. IInv => RestartFreesItsPort
    BY DEF IInv, Rest, VictimInv, RestartFreesItsPort
<1> QED
    BY Invariance, <1>1, PTL

-----------------------------------------------------------------------------
(***************************************************************************)
(* LiveServer implements ServerLifecycle.  A call takes effect when start  *)
(* publishes or finds an instance, when stop takes one, when status reads. *)
(***************************************************************************)
running == IF instance = NoGen THEN NoPort ELSE bound[instance]
stages == [c \in Callers |-> StageOf(c)]

\* What the callers see does not change.
LEMMA StutterMaps ==
    ASSUME UNCHANGED <<running, stages, op, result>>
    PROVE  UNCHANGED Abstract!aVars
BY DEF Abstract!aVars, running, stages

\* A caller that moves changes its own stage and no other.
LEMMA StageMoves ==
    ASSUME TypeOK, NEW c \in Callers, NEW to \in Places, pc' = [pc EXCEPT ![c] = to]
    PROVE  /\ stages' = [stages EXCEPT ![c] = StageOf(c)']
           /\ pc'[c] = to
<1>1. pc'[c] = to /\ \A d \in Callers : d # c => pc'[d] = pc[d]
    BY DEF TypeOK
<1>2. ASSUME NEW d \in Callers, d # c PROVE StageOf(d)' = StageOf(d)
    BY <1>1, <1>2 DEF StageOf
<1> QED
    BY <1>1, <1>2 DEF stages

LEMMA CallMaps ==
    ASSUME TypeOK, NEW c \in Callers, NEW o \in Ops, NEW cfg \in ConfigType, Call(c, o, cfg)
    PROVE  Abstract!ACall(c, o)
<1>1. FirstPlace(o) \in Places
    BY DEF FirstPlace, Ops, Places
<1>2. stages' = [stages EXCEPT ![c] = StageOf(c)'] /\ pc'[c] = FirstPlace(o)
    BY <1>1, StageMoves DEF Call
<1>3. StageOf(c)' = Abstract!FirstStage(o)
    BY <1>2 DEF StageOf, FirstPlace, Abstract!FirstStage, Ops
<1>4. StageOf(c) = "idle"
    BY DEF Call, StageOf
<1>5. UNCHANGED running
    BY DEF Call, hostVars, running
<1> QED
    BY <1>2, <1>3, <1>4, <1>5 DEF Abstract!ACall, Call, stages, running

\* A caller that is told something and has nothing left to do.
LEMMA AnswerMaps ==
    ASSUME TypeOK, NEW c \in Callers, NEW r, Answer(c, r)
    PROVE  Abstract!AAnswer(c, r)
<1>1. stages' = [stages EXCEPT ![c] = StageOf(c)'] /\ pc'[c] = "done"
    BY StageMoves DEF Answer, Places
<1>2. StageOf(c)' = "answered"
    BY <1>1 DEF StageOf
<1> QED
    BY <1>1, <1>2 DEF Abstract!AAnswer, Answer, callVars, stages

LEMMA LockStepMaps ==
    ASSUME TypeOK, RunningIsListening, NEW c \in Callers, LockStep(c)
    PROVE  Abstract!ACaller(c) \/ UNCHANGED Abstract!aVars
<1> USE DEF NoGen, NoPort
<1>1. instance # NoGen <=> running # 0
    BY DEF running, RunningIsListening
<1>2. \A t, p : Says(t, p) = Abstract!Says(t, p)
    BY DEF Says, Abstract!Says
<1>3. CASE StartFindsRunning(c)
  <2>1. Answer(c, Abstract!Says("running", running)) /\ UNCHANGED running
      BY <1>2, <1>3 DEF StartFindsRunning, running, hostVars
  <2>2. StageOf(c) = "starting"
      BY <1>3 DEF StartFindsRunning, StageOf
  <2>3. Abstract!AStarted(c)
      BY <2>1, <2>2, <1>1, <1>3, AnswerMaps DEF StartFindsRunning, Abstract!AStarted, running
  <2> QED
      BY <2>3 DEF Abstract!ACaller
<1>4. CASE StartRootMissing(c)
  <2>1. Answer(c, Abstract!Says("failed", 0)) /\ UNCHANGED running
      BY <1>2, <1>4 DEF StartRootMissing, running, hostVars
  <2>2. StageOf(c) = "starting"
      BY <1>4 DEF StartRootMissing, StageOf
  <2>3. Abstract!AStartFails(c)
      BY <2>1, <2>2, <1>4, AnswerMaps DEF StartRootMissing, Abstract!AStartFails, running
  <2> QED
      BY <2>3 DEF Abstract!ACaller
<1>5. CASE StartProceeds(c)
  <2>1. stages' = [stages EXCEPT ![c] = StageOf(c)'] /\ pc'[c] = "bind"
      BY <1>5, StageMoves DEF StartProceeds, Places
  <2>2. StageOf(c)' = "starting" /\ StageOf(c) = "starting"
      BY <1>5, <2>1 DEF StageOf, StartProceeds
  <2>3. UNCHANGED stages
      BY <2>1, <2>2 DEF stages
  <2> QED
      BY <1>5, <2>3, StutterMaps DEF StartProceeds, running, hostVars, callVars
<1>6. CASE StopFindsNothing(c)
  <2>1. StageOf(c) = "stopping"
      BY <1>6 DEF StopFindsNothing, StageOf
  <2>2. UNCHANGED <<running, op>> /\ running = 0
      BY <1>6 DEF StopFindsNothing, running, hostVars, callVars
  <2>3. CASE op[c] = "restart"
    <3>1. stages' = [stages EXCEPT ![c] = StageOf(c)'] /\ pc'[c] = "startLock"
        BY <1>6, <2>3, StageMoves DEF StopFindsNothing, AfterStop, Places
    <3>2. StageOf(c)' = "starting"
        BY <3>1 DEF StageOf
    <3>3. result' = result
        BY <1>6, <2>3 DEF StopFindsNothing, TypeOK
    <3>4. Abstract!ARestartIdle(c)
        BY <2>1, <2>2, <2>3, <3>1, <3>2, <3>3 DEF Abstract!ARestartIdle, stages, running
    <3> QED
        BY <3>4 DEF Abstract!ACaller
  <2>4. CASE op[c] # "restart"
    <3>1. Answer(c, Abstract!Says("notRunning", 0))
        BY <1>6, <2>4, <1>2 DEF StopFindsNothing, AfterStop, Answer
    <3>2. Abstract!AStopIdle(c)
        BY <2>1, <2>2, <2>4, <3>1, AnswerMaps DEF Abstract!AStopIdle, stages, running
    <3> QED
        BY <3>2 DEF Abstract!ACaller
  <2> QED
      BY <2>3, <2>4
<1>7. CASE StopTakes(c)
  <2>1. stages' = [stages EXCEPT ![c] = StageOf(c)'] /\ pc'[c] = "drain"
      BY <1>7, StageMoves DEF StopTakes, Places
  <2>2. StageOf(c)' = "closing" /\ StageOf(c) = "stopping"
      BY <1>7, <2>1 DEF StageOf, StopTakes
  <2>3. running # 0 /\ running' = 0 /\ UNCHANGED <<op, result>>
      BY <1>7, <1>1 DEF StopTakes, running, callVars
  <2>4. Abstract!AStops(c)
      BY <2>1, <2>2, <2>3 DEF Abstract!AStops, stages, running
  <2> QED
      BY <2>4 DEF Abstract!ACaller
<1>8. CASE StatusReads(c)
  <2>1. /\ Answer(c, IF running = 0 THEN Abstract!Says("notRunning", 0)
                                    ELSE Abstract!Says("running", running))
        /\ UNCHANGED running
      BY <1>1, <1>2, <1>8 DEF StatusReads, running, hostVars
  <2>2. StageOf(c) = "asking"
      BY <1>8 DEF StatusReads, StageOf
  <2>3. Abstract!AStatus(c)
      BY <2>1, <2>2, AnswerMaps DEF Abstract!AStatus, stages, running
  <2> QED
      BY <2>3 DEF Abstract!ACaller
<1> QED
    BY <1>3, <1>4, <1>5, <1>6, <1>7, <1>8 DEF LockStep

LEMMA OwnStepMaps ==
    ASSUME IInv, NEW c \in Callers, OwnStep(c)
    PROVE  Abstract!ACaller(c) \/ UNCHANGED Abstract!aVars
<1> USE DEF NoGen, NoPort
<1>1. TypeOK
    BY DEF IInv
<1>2. \A t, p : Says(t, p) = Abstract!Says(t, p)
    BY DEF Says, Abstract!Says
<1>3. Building(c) => running = 0 /\ instance = NoGen
    BY CallersAssumption DEF IInv, Rest, LockInv, running
<1>4. ASSUME NEW p \in Ports, BindSucceeds(c, p) PROVE UNCHANGED Abstract!aVars
  <2>1. stages' = [stages EXCEPT ![c] = StageOf(c)'] /\ pc'[c] = "publish"
      BY <1>1, <1>4, StageMoves DEF BindSucceeds, Places
  <2>2. StageOf(c)' = "starting" /\ StageOf(c) = "starting"
      BY <1>4, <2>1 DEF StageOf, BindSucceeds
  <2>3. UNCHANGED stages
      BY <2>1, <2>2 DEF stages
  <2>4. UNCHANGED running
      BY <1>3, <1>4 DEF BindSucceeds, Building, running
  <2> QED
      BY <1>4, <2>3, <2>4, StutterMaps DEF BindSucceeds, callVars
<1>5. ASSUME BindTaken(c) PROVE UNCHANGED Abstract!aVars
  <2>1. UNCHANGED <<pc, running, op, result>>
      BY <1>5 DEF BindTaken, hostVars, callVars, running
  <2> QED
      BY <2>1, StutterMaps DEF stages, StageOf
<1>6. ASSUME BindFails(c) PROVE Abstract!AStartFails(c)
  <2>1. Answer(c, Abstract!Says("failed", 0)) /\ UNCHANGED running
      BY <1>2, <1>6 DEF BindFails, running, hostVars
  <2>2. StageOf(c) = "starting" /\ running = 0
      BY <1>3, <1>6 DEF BindFails, StageOf, Building
  <2> QED
      BY <2>1, <2>2, <1>1, AnswerMaps DEF Abstract!AStartFails, stages, running
<1>7. ASSUME Publish(c) PROVE Abstract!AStarts(c)
  <2>1. ticket[c] # NoGen /\ bound[ticket[c]] \in Ports
      BY <1>1, <1>7 DEF Publish, IInv, Rest, TicketInv, UnusedInv, Active, TypeOK, Gens
  <2>2. running' = bound[ticket[c]]
      BY <1>7, <2>1 DEF Publish, running
  <2>3. Answer(c, Abstract!Says("running", running'))
      BY <1>2, <1>7, <2>2 DEF Publish
  <2>4. StageOf(c) = "starting" /\ running = 0
      BY <1>3, <1>7 DEF Publish, StageOf, Building
  <2> QED
      BY <2>1, <2>2, <2>3, <2>4, <1>1, AnswerMaps DEF Abstract!AStarts, stages, running
<1>8. ASSUME StopDrained(c) PROVE UNCHANGED Abstract!aVars
  <2>1. stages' = [stages EXCEPT ![c] = StageOf(c)'] /\ pc'[c] = "clear"
      BY <1>1, <1>8, StageMoves DEF StopDrained, Places
  <2>2. StageOf(c)' = "closing" /\ StageOf(c) = "closing"
      BY <1>8, <2>1 DEF StageOf, StopDrained
  <2>3. UNCHANGED stages
      BY <2>1, <2>2 DEF stages
  <2> QED
      BY <1>8, <2>3, StutterMaps DEF StopDrained, callVars, running
<1>9. ASSUME StopClears(c) PROVE Abstract!AStopped(c) \/ Abstract!ARestarts(c)
  <2>1. StageOf(c) = "closing"
      BY <1>9 DEF StopClears, StageOf
  <2>2. UNCHANGED <<running, op>>
      BY <1>9 DEF StopClears, running, callVars
  <2>3. CASE op[c] = "restart"
    <3>1. stages' = [stages EXCEPT ![c] = StageOf(c)'] /\ pc'[c] = "startLock"
        BY <1>1, <1>9, <2>3, StageMoves DEF StopClears, AfterStop, Places
    <3>2. StageOf(c)' = "starting"
        BY <3>1 DEF StageOf
    <3>3. result' = result
        BY <1>1, <1>9, <2>3 DEF StopClears, TypeOK
    <3> QED
        BY <2>1, <2>2, <2>3, <3>1, <3>2, <3>3 DEF Abstract!ARestarts, stages, running
  <2>4. CASE op[c] # "restart"
    <3>1. Answer(c, Abstract!Says("stopped", 0))
        BY <1>9, <2>4, <1>2 DEF StopClears, AfterStop, Answer
    <3> QED
        BY <2>1, <2>2, <2>4, <3>1, <1>1, AnswerMaps DEF Abstract!AStopped, stages, running
  <2> QED
      BY <2>3, <2>4
<1>10. ASSUME Return(c) PROVE Abstract!AReturn(c)
  <2>1. stages' = [stages EXCEPT ![c] = StageOf(c)'] /\ pc'[c] = "idle"
      BY <1>1, <1>10, StageMoves DEF Return, Places
  <2>2. StageOf(c)' = "idle" /\ StageOf(c) = "answered"
      BY <1>10, <2>1 DEF StageOf, Return
  <2>3. UNCHANGED running
      BY <1>10 DEF Return, running, hostVars
  <2> QED
      BY <1>2, <1>10, <2>1, <2>2, <2>3 DEF Return, Abstract!AReturn, stages, running
<1> QED
    BY <1>4, <1>5, <1>6, <1>7, <1>8, <1>9, <1>10 DEF OwnStep, Abstract!ACaller

LEMMA CancelMaps ==
    ASSUME TypeOK, NEW c \in Callers, Cancel(c)
    PROVE  Abstract!ACancel(c)
<1>1. Answer(c, Abstract!Says("cancelled", 0)) /\ UNCHANGED running
    BY DEF Cancel, running, Says, Abstract!Says, NoPort
<1>2. StageOf(c) \notin {"idle", "answered"}
    BY DEF Cancel, Suspended, StageOf
<1> QED
    BY <1>1, <1>2, AnswerMaps DEF Abstract!ACancel, stages, running, NoPort

LEMMA EnvironmentMaps ==
    ASSUME TypeOK, RunningIsListening, Environment
    PROVE  UNCHANGED Abstract!aVars
<1>1. UNCHANGED <<instance, pc, op, result>>
    BY DEF Environment, AcceptDropped, ForeignTakes, ForeignReleases, EditorOverlays, callVars
<1>2. instance # NoGen => bound'[instance] = bound[instance]
    BY DEF Environment, AcceptDropped, ForeignTakes, ForeignReleases, EditorOverlays,
       hostVars, RunningIsListening, TypeOK, Gens, NoGen
<1> QED
    BY <1>1, <1>2, StutterMaps DEF running, stages, StageOf

LEMMA InitMaps == Init => Abstract!AInit
BY DEF Init, Abstract!AInit, StageOf, Says, Abstract!Says, NoGen, NoPort

LEMMA StepMaps == IInv /\ [Next]_vars => [Abstract!ANext]_(Abstract!aVars)
<1> SUFFICES ASSUME IInv, [Next]_vars
             PROVE  (\E c \in Callers : Abstract!ACaller(c)) \/ UNCHANGED Abstract!aVars
    BY DEF Abstract!ANext
<1>1. TypeOK /\ RunningIsListening
    BY DEF IInv, Rest
<1>2. ASSUME NEW c \in Callers, Calls(c) PROVE Abstract!ACaller(c)
  <2>1. PICK o \in Ops, cfg \in ConfigType : Call(c, o, cfg)
      BY <1>2, NoConfigType, ConfigsAssumption DEF Calls, Ops
  <2>2. Abstract!ACall(c, o)
      BY <1>1, <2>1, CallMaps
  <2> QED
      BY <2>2 DEF Abstract!ACaller, Abstract!Verbs, Ops
<1>3. ASSUME NEW c \in Callers, Cancel(c) PROVE Abstract!ACaller(c)
    BY <1>1, <1>3, CancelMaps DEF Abstract!ACaller
<1>4. ASSUME UNCHANGED vars PROVE UNCHANGED Abstract!aVars
    BY <1>4, StutterMaps DEF vars, hostVars, callVars, running, stages, StageOf
<1> QED
    BY <1>1, <1>2, <1>3, <1>4, LockStepMaps, OwnStepMaps, EnvironmentMaps DEF Next, Caller

\* The detailed server implements the abstract one.
THEOREM Refinement == Spec => ImplementsLifecycle
BY Invariance, InitMaps, StepMaps, PTL DEF Spec, ImplementsLifecycle, Abstract!ASpec

---------------------------------------------------------------------------
(* The connections *)

\* The connections' part of the type invariant.
ConnShape ==
    /\ stage \in [Conns -> Stages]
    /\ server \in [Conns -> Gens \cup {NoGen}]
    /\ ear \in [Conns -> BOOLEAN]
    /\ \A k \in Conns : stage[k] # "none" => server[k] # NoGen

LEMMA ConnectionKeepsVars ==
    ASSUME NEW k \in Conns, Connection(k)
    PROVE  UNCHANGED vars
BY DEF Connection, Accept, Begin, ReadRequest, ReadUpgrade, Respond, Upgrade,
       RefuseUpgrade, Push, Pushed, HearGoodbye, KeepAliveExpires, PeerLeaves

LEMMA ConnStepIInv == IInv /\ [ConnNext]_allVars => IInv'
<1> SUFFICES ASSUME IInv, [ConnNext]_allVars PROVE IInv'
    OBVIOUS
<1>1. [Next]_vars
    BY ConnectionKeepsVars DEF ConnNext, allVars
<1> QED
    BY <1>1, StepIInv

LEMMA AcceptShape ==
    ASSUME ConnShape, NEW k \in Conns, NEW g \in Gens, Accept(k, g)
    PROVE  ConnShape'
<1>1. g # NoGen
    BY DEF Gens, NoGen
<1>2. /\ stage' = [stage EXCEPT ![k] = "spawned"]
      /\ server' = [server EXCEPT ![k] = g]
      /\ ear' = ear
    BY DEF Accept, Moves
<1> QED
    BY <1>1, <1>2 DEF ConnShape, Stages

\* The steps of a connection once its server has accepted it.
LEMMA LaterShape ==
    ASSUME ConnShape, NEW k \in Conns, NEW to \in Stages,
           stage[k] # "none", Moves(k, to), server' = server,
           Subscribes(k) \/ ear' = ear
    PROVE  ConnShape'
<1>1. stage' \in [Conns -> Stages] /\ \A j \in Conns : stage'[j] # "none" => stage[j] # "none"
    BY DEF ConnShape, Moves
<1>2. ear' \in [Conns -> BOOLEAN]
    BY DEF ConnShape, Subscribes
<1> QED
    BY <1>1, <1>2 DEF ConnShape

LEMMA ConnectionShape ==
    ASSUME ConnShape, NEW k \in Conns, Connection(k)
    PROVE  ConnShape'
<1>1. ASSUME NEW g \in Gens, Accept(k, g) PROVE ConnShape'
    BY <1>1, AcceptShape
<1>2. CASE Begin(k) \/ ReadRequest(k) \/ ReadUpgrade(k) \/ Respond(k)
    BY <1>2, LaterShape DEF Begin, ReadRequest, ReadUpgrade, Respond, Stages
<1>3. CASE Upgrade(k) \/ RefuseUpgrade(k) \/ Push(k) \/ Pushed(k)
    BY <1>3, LaterShape DEF Upgrade, RefuseUpgrade, Push, Pushed, Stages
<1>4. CASE HearGoodbye(k) \/ KeepAliveExpires(k) \/ PeerLeaves(k)
    BY <1>4, LaterShape DEF HearGoodbye, KeepAliveExpires, PeerLeaves, Stages
<1> QED
    BY <1>1, <1>2, <1>3, <1>4 DEF Connection

LEMMA ConnInvariance == ConnSpec => [](IInv /\ ConnShape)
<1>1. ConnInit => IInv /\ ConnShape
    BY InitIInv DEF ConnInit, ConnShape, Stages
<1>2. IInv /\ ConnShape /\ [ConnNext]_allVars => (IInv /\ ConnShape)'
  <2> SUFFICES ASSUME IInv, ConnShape, [ConnNext]_allVars PROVE (IInv /\ ConnShape)'
      OBVIOUS
  <2>1. IInv'
      BY ConnStepIInv
  <2>2. ASSUME UNCHANGED connVars PROVE ConnShape'
      BY <2>2 DEF connVars, ConnShape
  <2>3. ConnShape'
      BY <2>2, ConnectionShape DEF ConnNext, allVars
  <2> QED
      BY <2>1, <2>3
<1> QED
    BY <1>1, <1>2, PTL DEF ConnSpec

\* Every variable of the composition keeps its type, and a socket that is open
\* belongs to a generation.
THEOREM ConnTypeCorrect == ConnSpec => []ConnTypeOK
<1>1. IInv /\ ConnShape => ConnTypeOK
    BY DEF IInv, ConnShape, ConnTypeOK
<1> QED
    BY ConnInvariance, <1>1, PTL

\* No server accepts a connection once it has said goodbye to its connections:
\* what is accepted is accepted in time for the message to be worth sending.
THEOREM AcceptsEndBeforeGoodbye == ConnSpec => NoneAcceptedAfterGoodbye
<1> DEFINE InTime == \A k \in Conns : stage[k] = "none" /\ stage'[k] = "spawned"
                            => server'[k] \notin signalled
<1>1. IInv /\ ConnShape /\ [ConnNext]_allVars => [InTime]_allVars
  <2> SUFFICES ASSUME IInv, ConnShape, ConnNext, NEW k \in Conns,
                      stage[k] = "none", stage'[k] = "spawned"
               PROVE  server'[k] \notin signalled
      OBVIOUS
  <2>1. PICK j \in Conns : Connection(j)
      BY DEF ConnNext, connVars
  <2>2. stage'[j] # stage[j] /\ j = k
      BY <2>1 DEF Connection, Accept, Begin, ReadRequest, ReadUpgrade, Respond, Upgrade,
           RefuseUpgrade, Push, Pushed, HearGoodbye, KeepAliveExpires, PeerLeaves,
           Moves, ConnShape
  <2>3. PICK g \in Gens : Accept(k, g)
      BY <2>1, <2>2 DEF Connection, Begin, ReadRequest, ReadUpgrade, Respond, Upgrade,
           RefuseUpgrade, Push, Pushed, HearGoodbye, KeepAliveExpires, PeerLeaves
  <2>4. server'[k] = g /\ bound[g] # NoPort
      BY <2>3 DEF Accept, ConnShape
  <2> QED
      BY <2>4 DEF IInv, Rest, GoodbyeAfterLastAccept
<1> QED
    BY ConnInvariance, <1>1, PTL DEF ConnSpec, NoneAcceptedAfterGoodbye
=============================================================================
