-------------------------------- MODULE Control --------------------------------
(***************************************************************************)
(* The control channel: language servers that record in a state file how   *)
(* they are reached (src/server/src/control.rs, listen), command-line      *)
(* clients that find one through the file (control.rs, send; main.rs,      *)
(* control_command), and the task that runs their commands (lsp.rs,        *)
(* start_control_channel and run_control).                                 *)
(*                                                                         *)
(* A language server is a process with one workspace folder, and its token *)
(* is its name: tokens are never equal.  A server that cannot listen is    *)
(* one that is never started here.  A browser always opens.                *)
(***************************************************************************)
EXTENDS Naturals, Sequences

CONSTANTS Servers,    \* language servers, each one life of a process
          Clients,    \* runs of the command line
          Workspaces,
          Home,       \* the workspace of a server
          Target,     \* the workspace a client names
          Dirs,       \* directories a state file may be in
          Writes,     \* where a server writes its own
          Reads,      \* where a client looks, in order
          Ports,
          Asks,       \* the command a client is run with
          Capacity,   \* of the channel of requests
          Shared,     \* two servers may be at one workspace at a time
          MaxEdits,   \* bound of the model on the editor's own starts and stops
          None        \* nobody, nothing

ASSUME PlacesAssumption ==
    /\ Home \in [Servers -> Workspaces] /\ Target \in [Clients -> Workspaces]
    /\ Writes \in [Servers -> Dirs] /\ Reads \in [Clients -> Seq(Dirs)]
    /\ None \notin Servers \cup Ports /\ "torn" \notin Servers /\ "stranger" \notin Servers
ASSUME LimitsAssumption == Capacity \in Nat \ {0} /\ MaxEdits \in Nat /\ Shared \in BOOLEAN

Commands == {"start", "stop", "toggle", "go", "open", "status"}
ASSUME CommandsAssumption == Asks \in [Clients -> Commands]

VARIABLES
  life,     \* how far each server has come
  port,     \* the port it listens on, or listened on
  taken,    \* ports held by other programs
  file,     \* the state files
  running,  \* the server serves its workspace
  requests, \* the channel of requests
  edits,    \* number of starts and stops by the editor so far
  client    \* the clients

serverVars == <<life, port, taken>>
vars == <<serverVars, file, running, requests, edits, client>>

\* writing: it listens, its file is truncated; serving: its file is written;
\* stopping: the editor has asked it to shut down; left: its file is removed.
Lives == {"off", "writing", "serving", "stopping", "left", "gone"}
Alive(s) == life[s] \notin {"off", "gone"}

\* connected: it has sent its line; asked: handed over; taken: being run; acted: run.
Stages == {"idle", "read", "refused", "connected", "asked", "taken", "acted", "done"}
Answers == {"none", "no server", "malformed", "not running", "bad token", "failed",
            "running", "stopped", "silence"}

\* found: the server in the file it read; where: the file's directory; peer: who it
\* is connected to; before: whether the server ran when its command was taken;
\* meddled: the editor has started or stopped it since (history).
ClientType == [stage : Stages, found : Servers \cup {None},
               where : Dirs \cup {None}, peer : Servers \cup {None, "stranger"},
               before : BOOLEAN, meddled : BOOLEAN, answer : Answers]

\* The shape of the variables; the channel keeps to its capacity.
TypeOK ==
    /\ life \in [Servers -> Lives]
    /\ port \in [Servers -> Ports \cup {None}] /\ taken \subseteq Ports
    /\ file \in [Workspaces -> [Dirs -> Servers \cup {None, "torn"}]]
    /\ running \in [Servers -> BOOLEAN]
    /\ requests \in [Servers -> Seq(Clients)]
    /\ edits \in 0..MaxEdits
    /\ client \in [Clients -> ClientType]
    /\ \A s \in Servers : Len(requests[s]) <= Capacity

Init ==
    /\ life = [s \in Servers |-> "off"]
    /\ port = [s \in Servers |-> None] /\ taken = {}
    /\ file = [w \in Workspaces |-> [d \in Dirs |-> None]]
    /\ running = [s \in Servers |-> FALSE]
    /\ requests = [s \in Servers |-> <<>>]
    /\ edits = 0
    /\ client = [c \in Clients |-> [stage |-> "idle", found |-> None, where |-> None, peer |-> None,
                                    before |-> FALSE, meddled |-> FALSE, answer |-> "none"]]

Held(p) == p \in taken \/ \E s \in Servers : Alive(s) /\ port[s] = p

\* What the editor does to a server is told apart from what commands do.
Meddle(s) ==
    client' = [c \in Clients |->
                 IF client[c].peer = s /\ client[c].stage \in {"taken", "acted"}
                 THEN [client[c] EXCEPT !.meddled = TRUE] ELSE client[c]]

(***************************************************************************)
(* The language server.                                                    *)
(***************************************************************************)
\* listen: bind a port, then write the file, which truncates it first.
Bind(s) ==
    /\ life[s] = "off"
    /\ Shared \/ \A t \in Servers : Alive(t) => Home[t] # Home[s]
    /\ \E p \in Ports : ~Held(p) /\ port' = [port EXCEPT ![s] = p]
    /\ life' = [life EXCEPT ![s] = "writing"]
    /\ file' = [file EXCEPT ![Home[s]][Writes[s]] = "torn"]
    /\ UNCHANGED <<taken, running, requests, edits, client>>

Record(s) ==
    /\ life[s] = "writing"
    /\ life' = [life EXCEPT ![s] = "serving"]
    /\ file' = [file EXCEPT ![Home[s]][Writes[s]] = s]
    /\ UNCHANGED <<port, taken, running, requests, edits, client>>

\* shutdown: the server stops serving, ...
Shutdown(s) ==
    /\ life[s] = "serving"
    /\ life' = [life EXCEPT ![s] = "stopping"]
    /\ running' = [running EXCEPT ![s] = FALSE]
    /\ Meddle(s)
    /\ UNCHANGED <<port, taken, file, requests, edits>>

\* ... and its file is removed, whatever is in it by now.
RemoveState(s) ==
    /\ life[s] = "stopping"
    /\ life' = [life EXCEPT ![s] = "left"]
    /\ file' = [file EXCEPT ![Home[s]][Writes[s]] = None]
    /\ UNCHANGED <<port, taken, running, requests, edits, client>>

\* The process ends, in order (from "left") or not.
Exit(s) ==
    /\ Alive(s)
    /\ life' = [life EXCEPT ![s] = "gone"]
    /\ running' = [running EXCEPT ![s] = FALSE]
    /\ requests' = [requests EXCEPT ![s] = <<>>]
    /\ UNCHANGED <<port, taken, file, edits, client>>

\* The editor's own commands.
EditorActs(s) ==
    /\ life[s] = "serving" /\ edits < MaxEdits
    /\ edits' = edits + 1
    /\ running' = [running EXCEPT ![s] = ~@]
    /\ Meddle(s)
    /\ UNCHANGED <<serverVars, file, requests>>

\* Another program comes to listen on a free port.
StrangerBinds(p) ==
    /\ ~Held(p)
    /\ taken' = taken \cup {p}
    /\ UNCHANGED <<life, port, file, running, requests, edits, client>>

(***************************************************************************)
(* The client up to its connection.                                        *)
(***************************************************************************)
Becomes(c, new) == client' = [client EXCEPT ![c] = new]

\* What was local to the request is gone.
Ends(c, answer) ==
    Becomes(c, [client[c] EXCEPT !.stage = "done", !.answer = answer,
                                 !.before = FALSE, !.meddled = FALSE, !.peer = None])

Candidates(c) == {i \in 1..Len(Reads[c]) : file[Target[c]][Reads[c][i]] # None}

\* The first directory that has a file for the workspace decides.
ReadState(c) ==
    /\ client[c].stage = "idle"
    /\ \/ Candidates(c) = {} /\ Ends(c, "no server")
       \/ \E i \in Candidates(c) :
            /\ \A j \in Candidates(c) : i <= j
            /\ LET dir == Reads[c][i] state == file[Target[c]][dir]
               IN  IF state = "torn" THEN Ends(c, "malformed")
                   ELSE Becomes(c, [client[c] EXCEPT !.stage = "read",
                                                     !.found = state, !.where = dir])
    /\ UNCHANGED <<serverVars, file, running, requests, edits>>

\* Whoever listens on the port is taken for the server.
Connect(c) ==
    /\ client[c].stage = "read"
    /\ LET p == port[client[c].found]
       IN  \/ /\ ~Held(p)
              /\ Becomes(c, [client[c] EXCEPT !.stage = "refused"])
           \/ /\ p \in taken
              /\ Becomes(c, [client[c] EXCEPT !.stage = "connected", !.peer = "stranger"])
           \/ \E s \in Servers :
                /\ Alive(s) /\ port[s] = p
                /\ Becomes(c, [client[c] EXCEPT !.stage = "connected", !.peer = s])
    /\ UNCHANGED <<serverVars, file, running, requests, edits>>

\* Mutant: leaves the file of a server that is gone.
CleanUpNothing(c) ==
    /\ client[c].stage = "refused"
    /\ Ends(c, "not running")
    /\ UNCHANGED <<serverVars, file, running, requests, edits>>

\* A leftover file is removed.
CleanUp(c) ==
    /\ client[c].stage = "refused"
    /\ file' = [file EXCEPT ![Target[c]][client[c].where] = None]
    /\ Ends(c, "not running")
    /\ UNCHANGED <<serverVars, running, requests, edits>>

\* The connection ends without an answer.
Silenced(c) ==
    /\ client[c].stage \in {"connected", "asked", "taken", "acted"}
    /\ client[c].peer \notin {s \in Servers : Alive(s)}
    /\ Ends(c, "silence")
    /\ UNCHANGED <<serverVars, file, running, requests, edits>>

(***************************************************************************)
(* The request in the language server.                                     *)
(***************************************************************************)
\* Mutant: stops accepting when it is shut down, and lets who is there wait.
AcceptsWhileServing(s) == life[s] = "serving"

\* Accepting ends with the process only.
Accepts(s) == life[s] \in {"serving", "stopping", "left"}

\* Mutant: no token.
HandleAny(c) ==
    LET s == client[c].peer
    IN  /\ client[c].stage = "connected" /\ s \in Servers /\ Accepts(s)
        /\ Len(requests[s]) < Capacity
        /\ requests' = [requests EXCEPT ![s] = Append(@, c)]
        /\ Becomes(c, [client[c] EXCEPT !.stage = "asked"])
        /\ UNCHANGED <<serverVars, file, running, edits>>

\* Mutant: a channel without a bound.
HandleUnbounded(c) ==
    LET s == client[c].peer
    IN  /\ client[c].stage = "connected" /\ s \in Servers /\ Accepts(s)
        /\ IF client[c].found # s
           THEN Ends(c, "bad token") /\ UNCHANGED requests
           ELSE /\ requests' = [requests EXCEPT ![s] = Append(@, c)]
                /\ Becomes(c, [client[c] EXCEPT !.stage = "asked"])
        /\ UNCHANGED <<serverVars, file, running, edits>>

\* handle, respond: the token is compared, the request waits for its place.
Handle(c) ==
    LET s == client[c].peer
    IN  /\ client[c].stage = "connected" /\ s \in Servers /\ Accepts(s)
        /\ IF client[c].found # s
           THEN Ends(c, "bad token") /\ UNCHANGED requests
           ELSE /\ Len(requests[s]) < Capacity
                /\ requests' = [requests EXCEPT ![s] = Append(@, c)]
                /\ Becomes(c, [client[c] EXCEPT !.stage = "asked"])
        /\ UNCHANGED <<serverVars, file, running, edits>>

Busy(s) == \E c \in Clients : client[c].peer = s /\ client[c].stage \in {"taken", "acted"}

\* Mutant: a task for every request.
TakeAtOnce(c) ==
    LET s == client[c].peer
    IN  /\ client[c].stage = "asked" /\ Alive(s)
        /\ requests[s] # <<>> /\ Head(requests[s]) = c
        /\ requests' = [requests EXCEPT ![s] = Tail(@)]
        /\ Becomes(c, [client[c] EXCEPT !.stage = "taken", !.before = running[s], !.meddled = FALSE])
        /\ UNCHANGED <<serverVars, file, running, edits>>

\* One request at a time, in order; run_control looks first whether the server runs.
Take(c) ==
    LET s == client[c].peer
    IN  /\ client[c].stage = "asked" /\ Alive(s) /\ ~Busy(s)
        /\ requests[s] # <<>> /\ Head(requests[s]) = c
        /\ requests' = [requests EXCEPT ![s] = Tail(@)]
        /\ Becomes(c, [client[c] EXCEPT !.stage = "taken", !.before = running[s], !.meddled = FALSE])
        /\ UNCHANGED <<serverVars, file, running, edits>>

\* What toggle and go come to.
Resolved(c) ==
    CASE Asks[c] = "toggle" -> IF client[c].before THEN "stop" ELSE "start"
      [] Asks[c] = "go"     -> IF client[c].before THEN "stop" ELSE "open"
      [] OTHER                        -> Asks[c]

\* Starting may fail.
Act(c) ==
    LET s == client[c].peer
    IN  /\ client[c].stage = "taken" /\ Alive(s)
        /\ \/ Resolved(c) = "stop" /\ running' = [running EXCEPT ![s] = FALSE]
           \/ /\ Resolved(c) \in {"start", "open"} /\ ~client[c].before
              /\ \E up \in {TRUE, running[s]} : running' = [running EXCEPT ![s] = up]
           \/ /\ Resolved(c) = "status" \/ (Resolved(c) # "stop" /\ client[c].before)
              /\ UNCHANGED running
        /\ Becomes(c, [client[c] EXCEPT !.stage = "acted"])
        /\ UNCHANGED <<serverVars, file, requests, edits>>

\* After a stop nothing is looked at again.
Reply(c) ==
    LET s == client[c].peer
    IN  /\ client[c].stage = "acted" /\ Alive(s)
        /\ Ends(c, IF Resolved(c) = "stop" THEN "stopped"
                   ELSE IF running[s] THEN "running"
                   ELSE IF Resolved(c) = "status" \/ (Resolved(c) = "start" /\ client[c].before)
                        THEN "stopped" ELSE "failed")
        /\ UNCHANGED <<serverVars, file, running, requests, edits>>

-----------------------------------------------------------------------------
Asking(c) == ReadState(c) \/ Connect(c) \/ CleanUp(c) \/ Silenced(c)
Serving(c) == Handle(c) \/ Take(c) \/ Act(c) \/ Reply(c)

Next ==
    \/ \E s \in Servers : Bind(s) \/ Record(s) \/ Shutdown(s) \/ RemoveState(s)
                          \/ Exit(s) \/ EditorActs(s)
    \/ \E p \in Ports : StrangerBinds(p)
    \/ \E c \in Clients : Asking(c) \/ Serving(c)

Spec == Init /\ [][Next]_vars

\* A client that has been started goes on; tasks run.  Editors, users and other
\* programs owe nothing, and nobody must exit.
FairSpec ==
    /\ Spec
    /\ \A s \in Servers : WF_vars(Record(s))
    /\ \A c \in Clients :
         /\ WF_vars(Connect(c) \/ CleanUp(c)) /\ WF_vars(Serving(c))
         /\ WF_vars(Silenced(c) /\ client[c].peer \in Servers)

(***************************************************************************)
(* What must hold of it.                                                   *)
(***************************************************************************)
\* A command is run by a server of the workspace it was meant for
\* (control.rs:362-404, 329), though files outlive servers and ports are used again.
RightServer ==
    \A c \in Clients :
      client[c].stage \in {"asked", "taken", "acted"} => Home[client[c].peer] = Target[c]

\* A client that is told that nothing runs (control.rs:400-408) has met a server that
\* is gone, and no file of it is left where the client found one.
RefusalIsRight ==
    \A c \in Clients :
      client[c].answer = "not running" =>
        /\ life[client[c].found] = "gone"
        /\ file[Target[c]][client[c].where] # client[c].found

\* Commands take turns (lsp.rs:318-323): unless the editor meddles, a command acts on
\* what it has looked at, and a reply tells what is (lsp.rs:337-339).
CommandsTakeTurns ==
    [][\A c \in Clients :
         ~client[c].meddled /\ client[c].stage # client'[c].stage =>
           /\ client'[c].stage = "acted" => client[c].before = running[client[c].peer]
           /\ client'[c].answer \in {"running", "stopped"} =>
                (client'[c].answer = "running") = running[client[c].peer]]_vars

\* A client that has found a server ends, unless another program keeps it waiting
\* (control.rs:410-424): it is answered, or the server dies.
ClientEnds ==
    \A c \in Clients :
      client[c].stage \in {"read", "refused", "connected"} ~>
        (client[c].stage = "done" \/ client[c].peer = "stranger")

\* control.rs:9-12, "While the language server is running it also listens on a
\* loopback port and records how to reach it ... `toggle <dir>` then finds that file
\* and drives the real server".
ServerIsFound ==
    \A s \in Servers : life[s] = "serving" => \E d \in Dirs : file[Home[s]][d] = s
=============================================================================
