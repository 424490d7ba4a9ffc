-------------------------------- MODULE Backend --------------------------------
(***************************************************************************)
(* The LSP back end, lsp.rs: the servers of the workspace folders, what    *)
(* starts, stops and restarts them, and the status bar that tells where    *)
(* they run.                                                               *)
(*                                                                         *)
(* tower-lsp polls several handlers at a time and the task of the control  *)
(* channel runs beside them.  A task is modelled by what it still has to   *)
(* do: todo[t] is a sequence of steps, each of which runs from one await   *)
(* to the next.  Of a server only what ServerLifecycle promises is kept:   *)
(* it runs at a port or does not, and start holds its mutex while it binds.*)
(***************************************************************************)
EXTENDS Integers, FiniteSets, FiniteSetsExt, SequencesExt

CONSTANTS
    Handlers,     \* handlers of notifications, one job each
    Requests,     \* handlers of requests, which the editor may cancel
    Channel,      \* the task of the control channel
    Jobs,         \* Jobs[t]: the sequences of steps task t may be asked for
    Folders,      \* the folders a workspace may have
    Opened,       \* those it has when the server is initialized
    MaxBusy,      \* bound: tasks at work at a time
    MaxServers,   \* bound: LiveServers ever created
    Ports,
    AutoStart,    \* config.auto_start
    MaxSettings,  \* bound: settings, the first one included
    Visible,      \* the settings with status_bar
    None

Tasks == Handlers \cup Requests \cup {Channel}
Servers == 1 .. MaxServers
Settings == 1 .. MaxSettings

ASSUME FoldersAssumption ==
    /\ IsFiniteSet(Folders) /\ Opened \subseteq Folders
    /\ IsFiniteSet(Requests)
    /\ MaxBusy \in Nat
    /\ MaxServers \in Nat /\ Cardinality(Opened) <= MaxServers
    /\ MaxSettings \in Nat \ {0}
    /\ AutoStart \in BOOLEAN
    /\ Ports \subseteq Nat
    /\ Visible \subseteq Settings

ASSUME NoneAssumption ==
    None \notin Tasks \cup Servers \cup Settings \cup Ports

VARIABLES
    servers,   \* the server of each folder, or None
    made,      \* how many LiveServers have been created
    channels,  \* the folders with a control channel
    port,      \* where a server runs, or None
    using,     \* the setting a running server was started with, or None
    config,    \* the setting in force
    mutex,     \* the task that binds a port for a server, or None
    readers,   \* the tasks that hold the lock of servers for reading
    writer,    \* the task that holds it for writing, or None
    status,    \* the progress item recorded as displayed, or None
    showing,   \* the task that holds the lock of status, or None
    screen,    \* the progress items the editor displays
    orphans,   \* history: those of them that cancelled requests have begun
    todo,      \* what each task still has to do
    idle,      \* the tasks that have not been asked for anything yet
    down,      \* whether the editor has asked for shutdown
    fresh,     \* history: refreshes since whose beginning no server changed
    crossed,   \* history: what was put on the status bar last was outdated
    late,      \* history: servers started after their folder had gone
    overtaken  \* history: servers started with a setting no longer in force

table == <<servers, made, channels, writer>>
engine == <<port, using, mutex, late, overtaken>>
bar == <<status, showing, screen, orphans>>
rest == <<config, idle, down>>
vars == <<table, engine, readers, bar, rest, todo, fresh, crossed>>

---------------------------------------------------------------------------
(* Steps *)

Known == Range(servers) \ {None}

Starting == <<"starting">>
Disposing == <<"disposing">>
RunningOn(ports) == <<"running", ports>>

\* the end of a refresh is told apart from what is put on the bar in passing
Show(text) == [op |-> "show", text |-> text, of |-> "narration"]
Clear == [op |-> "clear", of |-> "narration"]
Gathering(left, ports) == [op |-> "gather", left |-> left, ports |-> ports]
Looked(ports) ==
    IF ports = {} THEN [op |-> "clear", of |-> "refresh"]
    ELSE [op |-> "show", text |-> RunningOn(ports), of |-> "refresh"]
Refresh == [op |-> "refresh"]
Start(s, setting) == [op |-> "start", server |-> s, setting |-> setting]
Stop(s) == [op |-> "stop", server |-> s]
IfRunning(s, then, else) ==
    [op |-> "look", server |-> s, then |-> then, else |-> else]

\* Backend::start; the setting is read when the server is called
Narrated(s) == <<Show(Starting), Start(s, None), Refresh>>

\* mutant of Stopping: the bar is not refreshed after a stop
StoppingUntold(s) ==
    <<IfRunning(s, <<Show(Disposing), Stop(s)>>, <<Refresh>>)>>

\* Backend::stop: only a stop that has something to stop is narrated
Stopping(s) ==
    <<IfRunning(s, <<Show(Disposing), Stop(s), Refresh>>, <<Refresh>>)>>

\* LiveServer::restart, with the setting its caller holds
Restart(s, setting) == <<Stop(s), Start(s, setting)>>

\* run_control, a toggle: the other commands are its halves
Toggling(s) == <<IfRunning(s, Stopping(s), Narrated(s))>>

\* the servers of a set in the order of the map's iteration, which is any
Orders(S) == {o \in [1 .. Cardinality(S) -> S] : Range(o) = S}
\* what is done to each server in turn, the same number of steps for everyone
Each(Work(_), order) ==
    IF order = <<>> THEN <<>>
    ELSE LET k == Len(Work(order[1]))
         IN [i \in 1 .. k * Len(order) |->
                 Work(order[((i - 1) \div k) + 1])[((i - 1) % k) + 1]]

Command(name, f) == [op |-> "command", name |-> name, on |-> f]
Toggle(f) == [op |-> "toggle", on |-> f]
FolderGone(f) == [op |-> "remove", on |-> f]
FolderAdded(f) == [op |-> "add", on |-> f]
NewSetting == [op |-> "settings"]
Initialized == [op |-> "initialized"]
Shutdown == [op |-> "shutdown"]

Names == {"start", "stop", "restart", "open"}
Asked == {Command(name, f) : name \in Names, f \in Folders \cup {None}}
         \cup {Toggle(f) : f \in Folders}
         \cup {FolderGone(f) : f \in Folders} \cup {FolderAdded(f) : f \in Folders}
         \cup {Refresh, NewSetting, Initialized, Shutdown}

\* A request is a command or the shutdown.  A notification of changed folders
\* tells of each folder once, and its handler ends with a refresh.
ASSUME JobsAssumption ==
    \A t \in Tasks : \A job \in Jobs[t] :
        /\ job \in Seq(Asked) /\ job # <<>>
        /\ \A i \in DOMAIN job :
               /\ job[i] = Shutdown => i = 1
               /\ t \in Requests => job[i].op \in {"command", "shutdown"}
               /\ job[i].op \in {"remove", "add"} =>
                      /\ \E j \in DOMAIN job : i < j /\ job[j] = Refresh
                      /\ \A j \in DOMAIN job :
                             /\ job[j].op \in {"remove", "add"}
                             /\ job[j].on = job[i].on
                             => i = j

Does(t, op) == todo[t] # <<>> /\ todo[t][1].op = op
Now(t) == todo[t][1]
\* the step at hand turns into these
Becomes(t, steps) == todo' = [todo EXCEPT ![t] = steps \o Tail(@)]
Done(t) == Becomes(t, <<>>)

---------------------------------------------------------------------------
(* What is asked for *)

\* initialize has made a server for each folder
Init ==
    /\ servers \in [Folders -> Servers \cup {None}]
    /\ Opened = {f \in Folders : servers[f] # None}
    /\ made = Cardinality(Opened) /\ Known = 1 .. made
    /\ channels = {}
    /\ port = [s \in Servers |-> None]
    /\ using = [s \in Servers |-> None]
    /\ config = 1
    /\ mutex = [s \in Servers |-> None]
    /\ readers = {} /\ writer = None
    /\ status = None /\ showing = None /\ screen = {} /\ orphans = {}
    /\ todo = [t \in Tasks |-> <<>>]
    /\ idle = Tasks /\ down = FALSE
    /\ fresh = {} /\ crossed = FALSE /\ late = {} /\ overtaken = {}

\* The folders change one notification at a time: their handlers are started
\* in order and the lock of servers is first come, first served.
Moves(t) == \E i \in DOMAIN todo[t] : todo[t][i].op \in {"remove", "add"}
Sensible(job) ==
    \A i \in DOMAIN job :
        /\ job[i].op = "remove" => servers[job[i].on] # None
        /\ job[i].op = "add" => /\ servers[job[i].on] = None
                                /\ made < MaxServers
        /\ job[i].op \in {"remove", "add"} => \A u \in Tasks : ~Moves(u)
        /\ job[i].op = "settings" => config < MaxSettings
        /\ job[i].op = "toggle" => job[i].on \in channels

Begin(t) ==
    /\ t \in idle /\ (t = Channel \/ ~down)
    /\ Cardinality({u \in Tasks : todo[u] # <<>>}) < MaxBusy
    /\ idle' = idle \ {t}
    /\ \E job \in Jobs[t] :
           /\ Sensible(job)
           /\ todo' = [todo EXCEPT ![t] = job]
           /\ down' = (down \/ job[1] = Shutdown)
    /\ UNCHANGED <<table, engine, config, readers, bar, fresh, crossed>>

\* server_at, or every server
Found(f) == IF f = None THEN Known ELSE {servers[f]} \ {None}

\* what a command does to one server; restart has read the setting before
\* its first server
Work(name, s) == CASE name = "start" -> Narrated(s)
                   [] name = "stop" -> Stopping(s)
                   [] name = "restart" -> Restart(s, config)
                   [] name = "open" -> <<IfRunning(s, <<>>, Narrated(s))>>

LooksUp(t) ==
    /\ todo[t] # <<>> /\ writer = None
    /\ \/ /\ Now(t).op = "command"
          /\ \E order \in Orders(Found(Now(t).on)) :
                 Becomes(t, Each(LAMBDA s : Work(Now(t).name, s), order)
                            \o IF Now(t).name = "restart" /\ order # <<>>
                               THEN <<Refresh>> ELSE <<>>)
          /\ UNCHANGED channels
       \/ /\ Now(t).op = "toggle"
          /\ \E order \in Orders(Found(Now(t).on)) :
                 Becomes(t, Each(Toggling, order))
          /\ UNCHANGED channels
       \/ /\ Now(t).op = "initialized"
          /\ channels' = {f \in Folders : servers[f] # None}
          /\ \E order \in Orders(Known) :
                 Becomes(t, IF AutoStart THEN Each(Narrated, order) ELSE <<>>)
       \/ /\ Now(t).op = "shutdown"
          /\ \E order \in Orders(Known) :
                 Becomes(t, Each(LAMBDA s : <<Stop(s)>>, order) \o <<Clear>>)
          /\ UNCHANGED channels
       \/ /\ Now(t).op = "reconfigure"
          /\ \E order \in Orders(Known) :
                 Becomes(t, Each(LAMBDA s : <<IfRunning(s, Restart(s, config), <<>>)>>,
                                 order) \o <<Refresh>>)
          /\ UNCHANGED channels
    /\ UNCHANGED <<servers, made, writer, engine, readers, bar, rest, fresh,
                   crossed>>

\* mutant of Configures: the servers go on as they are
ConfiguresOnly(t) ==
    /\ Does(t, "settings") /\ config < MaxSettings
    /\ config' = config + 1
    /\ Becomes(t, <<Refresh>>)
    /\ UNCHANGED <<table, engine, idle, down, readers, bar, fresh, crossed>>

\* reconfigure: what the editor sends differs from the setting in force
Configures(t) ==
    /\ Does(t, "settings") /\ config < MaxSettings
    /\ config' = config + 1
    /\ Becomes(t, <<[op |-> "reconfigure"]>>)
    /\ UNCHANGED <<table, engine, idle, down, readers, bar, fresh, crossed>>

\* mutant of Removes: the server is forgotten and not stopped
RemovesOnly(t) ==
    /\ Does(t, "remove")
    /\ writer = None /\ readers = {}
    /\ servers' = [servers EXCEPT ![Now(t).on] = None]
    /\ Done(t)
    /\ fresh' = {}
    /\ UNCHANGED <<made, channels, writer, engine, readers, bar, rest, crossed>>

\* did_change_workspace_folders.  The guard of the write lock lives as long
\* as the `if let` that removes the server, over its stop.
Removes(t) ==
    /\ Does(t, "remove")
    /\ writer = None /\ readers = {}
    /\ servers' = [servers EXCEPT ![Now(t).on] = None]
    /\ writer' = t
    /\ Becomes(t, <<Stop(servers[Now(t).on]), [op |-> "unlock"]>>)
    /\ fresh' = {}
    /\ UNCHANGED <<made, channels, engine, readers, bar, rest, crossed>>

Unlocks(t) ==
    /\ Does(t, "unlock")
    /\ writer' = None
    /\ Done(t)
    /\ UNCHANGED <<servers, made, channels, engine, readers, bar, rest, fresh,
                   crossed>>

Adds(t) ==
    /\ Does(t, "add") /\ made < MaxServers
    /\ writer = None /\ readers = {}
    /\ made' = made + 1
    /\ servers' = [servers EXCEPT ![Now(t).on] = made']
    /\ Becomes(t, IF AutoStart THEN Narrated(made') ELSE <<>>)
    /\ UNCHANGED <<channels, writer, engine, readers, bar, rest, fresh, crossed>>

---------------------------------------------------------------------------
(* Servers *)

\* LiveServer::status, before a stop, a toggle, an opening or a restart
LooksAt(t) ==
    /\ Does(t, "look")
    /\ mutex[Now(t).server] = None
    /\ Becomes(t, IF port[Now(t).server] = None THEN Now(t).else ELSE Now(t).then)
    /\ UNCHANGED <<table, engine, readers, bar, rest, fresh, crossed>>

StartFindsRunning(t) ==
    /\ Does(t, "start")
    /\ mutex[Now(t).server] = None /\ port[Now(t).server] # None
    /\ Done(t)
    /\ UNCHANGED <<table, engine, readers, bar, rest, fresh, crossed>>

StartTakes(t) ==
    /\ Does(t, "start")
    /\ mutex[Now(t).server] = None /\ port[Now(t).server] = None
    /\ mutex' = [mutex EXCEPT ![Now(t).server] = t]
    /\ LET s == Now(t).server
           setting == IF Now(t).setting = None THEN config ELSE Now(t).setting
       IN /\ Becomes(t, <<[op |-> "bind", server |-> s, setting |-> setting]>>)
          /\ overtaken' = IF setting = config THEN overtaken \ {s}
                                              ELSE overtaken \cup {s}
    /\ UNCHANGED <<table, port, using, late, readers, bar, rest, fresh, crossed>>

\* A port that no server has, or none.  Which one the scan meets first depends on
\* what other programs hold, and on listeners that are being closed.
Binds(t) ==
    /\ Does(t, "bind")
    /\ LET s == Now(t).server IN
       /\ mutex' = [mutex EXCEPT ![s] = None]
       /\ \/ /\ \E p \in Ports \ Range(port) : port' = [port EXCEPT ![s] = p]
             /\ using' = [using EXCEPT ![s] = Now(t).setting]
             /\ late' = IF s \in Known THEN late ELSE late \cup {s}
             /\ fresh' = {}
          \/ UNCHANGED <<port, using, late, fresh>>
    /\ Done(t)
    /\ UNCHANGED <<table, overtaken, readers, bar, rest, crossed>>

StopFindsNothing(t) ==
    /\ Does(t, "stop")
    /\ mutex[Now(t).server] = None /\ port[Now(t).server] = None
    /\ Done(t)
    /\ UNCHANGED <<table, engine, readers, bar, rest, fresh, crossed>>

\* from here on status says Stopped; the listener is still to be closed
StopTakes(t) ==
    /\ Does(t, "stop")
    /\ mutex[Now(t).server] = None /\ port[Now(t).server] # None
    /\ port' = [port EXCEPT ![Now(t).server] = None]
    /\ using' = [using EXCEPT ![Now(t).server] = None]
    /\ late' = late \ {Now(t).server}
    /\ overtaken' = overtaken \ {Now(t).server}
    /\ fresh' = {}
    /\ Becomes(t, <<[op |-> "drain"]>>)
    /\ UNCHANGED <<table, mutex, readers, bar, rest, crossed>>

StopAnswers(t) ==
    /\ Does(t, "drain")
    /\ Done(t)
    /\ UNCHANGED <<table, engine, readers, bar, rest, fresh, crossed>>

---------------------------------------------------------------------------
(* The status bar *)

\* refresh_status looks at the servers one by one under the lock of the map
RefreshBegins(t) ==
    /\ Does(t, "refresh")
    /\ writer = None
    /\ readers' = readers \cup {t}
    /\ fresh' = fresh \cup {t}
    /\ Becomes(t, <<Gathering(Known, {})>>)
    /\ UNCHANGED <<table, engine, bar, rest, crossed>>

\* mutant of Gathers: a stopped server counts as well
GathersAll(t) ==
    /\ Does(t, "gather")
    /\ \E s \in Now(t).left :
           /\ mutex[s] = None
           /\ Becomes(t, <<Gathering(Now(t).left \ {s}, Now(t).ports \cup {port[s]})>>)
    /\ UNCHANGED <<table, engine, readers, bar, rest, fresh, crossed>>

Gathers(t) ==
    /\ Does(t, "gather")
    /\ \E s \in Now(t).left :
           /\ mutex[s] = None
           /\ Becomes(t, <<Gathering(Now(t).left \ {s},
                                     Now(t).ports \cup ({port[s]} \ {None}))>>)
    /\ UNCHANGED <<table, engine, readers, bar, rest, fresh, crossed>>

\* mutant of Gathered: the lock of the map is kept
GatheredLocked(t) ==
    /\ Does(t, "gather") /\ Now(t).left = {}
    /\ Becomes(t, <<Looked(Now(t).ports)>>)
    /\ UNCHANGED <<table, engine, readers, bar, rest, fresh, crossed>>

\* with all of them seen the lock is given back and the text is put on the bar
Gathered(t) ==
    /\ Does(t, "gather") /\ Now(t).left = {}
    /\ readers' = readers \ {t}
    /\ Becomes(t, <<Looked(Now(t).ports)>>)
    /\ UNCHANGED <<table, engine, bar, rest, fresh, crossed>>

\* history: is what a refresh puts on the bar out of date
Judged(t) ==
    IF Now(t).of = "refresh" THEN crossed' = (t \notin fresh) /\ fresh' = fresh \ {t}
                     ELSE UNCHANGED <<fresh, crossed>>

Clears(t) ==
    /\ status' = None
    /\ screen' = screen \ {status}
    /\ Done(t)
    /\ UNCHANGED <<showing, orphans>>

\* mutant of ShowStatus: without the lock of status
ShowStatusUnlocked(t) ==
    /\ Does(t, "show")
    /\ \/ /\ config \notin Visible
          /\ Clears(t)
       \/ /\ config \in Visible
          /\ status # None /\ status.text = Now(t).text
          /\ Done(t)
          /\ UNCHANGED bar
       \/ /\ config \in Visible
          /\ ~(status # None /\ status.text = Now(t).text)
          /\ showing' = t
          /\ screen' = screen \ {status}
          /\ Becomes(t, <<[op |-> "item", text |-> Now(t).text]>>)
          /\ UNCHANGED <<status, orphans>>
    /\ Judged(t)
    /\ UNCHANGED <<table, engine, readers, rest>>

\* The item on the bar is ended and a new one asked for.  The old one stays
\* recorded until the editor has answered.
ShowStatus(t) ==
    /\ Does(t, "show") /\ showing = None
    /\ \/ /\ config \notin Visible
          /\ Clears(t)
       \/ /\ config \in Visible
          /\ status # None /\ status.text = Now(t).text
          /\ Done(t)
          /\ UNCHANGED bar
       \/ /\ config \in Visible
          /\ ~(status # None /\ status.text = Now(t).text)
          /\ showing' = t
          /\ screen' = screen \ {status}
          /\ Becomes(t, <<[op |-> "item", text |-> Now(t).text]>>)
          /\ UNCHANGED <<status, orphans>>
    /\ Judged(t)
    /\ UNCHANGED <<table, engine, readers, rest>>

ClearStatus(t) ==
    /\ Does(t, "clear") /\ showing = None
    /\ Clears(t)
    /\ Judged(t)
    /\ UNCHANGED <<table, engine, readers, rest>>

\* a serial number is never used again; these are once nothing has them
Tokens == 1 .. 3 + Cardinality(Requests)
Items == [token : Tokens, text : {Starting, Disposing} \cup
                                 {RunningOn(P) : P \in SUBSET Ports}]

ASSUME ItemsAssumption == None \notin Items

\* the editor has answered the request for a token
Begins(t) ==
    /\ Does(t, "item")
    /\ LET taken == {item.token : item \in (screen \cup {status}) \ {None}}
           new == [token |-> CHOOSE token \in Tokens : token \notin taken,
                   text |-> Now(t).text]
       IN /\ screen' = screen \cup {new}
          /\ Becomes(t, <<[op |-> "record", item |-> new]>>)
    /\ UNCHANGED <<table, engine, readers, rest, status, showing, orphans, fresh, crossed>>

\* the notification has gone out
Records(t) ==
    /\ Does(t, "record")
    /\ status' = Now(t).item
    /\ showing' = None
    /\ Done(t)
    /\ UNCHANGED <<table, engine, readers, rest, screen, orphans, fresh, crossed>>

---------------------------------------------------------------------------
(* Cancellation, and the specification *)

\* tower-lsp drops the future of a cancelled request, and with it the locks
\* it holds and whatever it still had to do
Cancel(t) ==
    /\ t \in Requests /\ todo[t] # <<>>
    /\ todo' = [todo EXCEPT ![t] = <<>>]
    /\ readers' = readers \ {t}
    /\ showing' = IF showing = t THEN None ELSE showing
    /\ mutex' = [s \in Servers |-> IF mutex[s] = t THEN None ELSE mutex[s]]
    /\ orphans' = IF Does(t, "record") THEN orphans \cup {Now(t).item} ELSE orphans
    /\ fresh' = fresh \ {t}
    /\ crossed' = TRUE
    /\ UNCHANGED <<table, port, using, late, overtaken, status, screen, rest>>

Proceeds(t) ==
    \/ LooksUp(t) \/ Configures(t) \/ Removes(t) \/ Unlocks(t) \/ Adds(t)
    \/ LooksAt(t)
    \/ StartFindsRunning(t) \/ StartTakes(t) \/ Binds(t)
    \/ StopFindsNothing(t) \/ StopTakes(t) \/ StopAnswers(t)
    \/ RefreshBegins(t) \/ Gathers(t) \/ Gathered(t)
    \/ ShowStatus(t) \/ ClearStatus(t) \/ Begins(t) \/ Records(t)

Next == \E t \in Tasks : Begin(t) \/ Proceeds(t) \/ Cancel(t)

Spec == Init /\ [][Next]_vars

\* Somebody gets on while anybody can: tokio polls what is ready, a bind comes to
\* an end, an aborted accept task is dropped and the editor answers.  What there
\* is to do is bounded, so this says as much as fairness to every task.
FairSpec == Spec /\ WF_vars(\E t \in Tasks : Proceeds(t))
---------------------------------------------------------------------------
(* Properties *)

OpNames == {"command", "toggle", "remove", "add", "settings", "reconfigure",
            "initialized", "shutdown", "unlock", "look", "start", "bind", "stop",
            "drain", "refresh", "gather", "show", "clear", "item", "record"}

\* The types: in particular locks are held by tasks, a port is nobody's or a
\* port, and the status bar shows texts that show_status is called with.
TypeOK ==
    /\ servers \in [Folders -> Servers \cup {None}]
    /\ made \in 0 .. MaxServers
    /\ channels \subseteq Folders
    /\ port \in [Servers -> Ports \cup {None}]
    /\ using \in [Servers -> Settings \cup {None}]
    /\ config \in Settings
    /\ mutex \in [Servers -> Tasks \cup {None}]
    /\ readers \subseteq Tasks
    /\ writer \in Tasks \cup {None}
    /\ status \in Items \cup {None}
    /\ showing \in Tasks \cup {None}
    /\ orphans \subseteq screen /\ screen \subseteq Items
    /\ DOMAIN todo = Tasks
    /\ \A t \in Tasks : \A i \in DOMAIN todo[t] : todo[t][i].op \in OpNames
    /\ idle \subseteq Tasks
    /\ down \in BOOLEAN
    /\ fresh \subseteq Tasks
    /\ crossed \in BOOLEAN
    /\ late \subseteq Servers /\ overtaken \subseteq Servers

AtRest == \A t \in Tasks : todo[t] = <<>>

\* Handlers that show their texts at the same time leave one item on the bar, and
\* it is the recorded one or about to be recorded by who has the lock, without which
\* nothing could ever end it.  The exception is real: a request that is cancelled
\* between sending an item and recording it leaves the item there for good
\* (show_status and clear_status, lsp.rs:155-208).
BarIsRecorded ==
    \A item \in screen \ orphans :
        \/ item = status
        \/ showing # None /\ Does(showing, "record") /\ Now(showing).item = item

Shown == {item.text : item \in screen \ orphans}
RunningPorts == {port[s] : s \in Known} \ {None}
BarIsTrue == Shown = IF RunningPorts = {} \/ config \notin Visible THEN {}
                     ELSE {RunningOn(RunningPorts)}

\* Once everybody is done the bar names the ports that are served, however
\* starts, stops, restarts, settings and folders have interleaved, unless the
\* refresh that put its text there last had looked before the last change, a
\* request was cancelled, one between the end of an item and the beginning of
\* the next included, or the editor has asked for shutdown (refresh_status after
\* every change, lsp.rs:211-471).
StatusTells ==
    LET hollow == status # None /\ status \notin screen
    IN AtRest /\ ~down /\ ~crossed /\ ~hollow => BarIsTrue

\* A server that runs belongs to a folder, where commands and shutdown find it,
\* or is being stopped with its folder's removal, or was started by a handler
\* that had looked it up before (did_change_workspace_folders, lsp.rs:624-647).
RunningIsKnown ==
    \A s \in Servers :
        port[s] # None => \/ s \in Known \cup late
                          \/ writer # None /\ Stop(s) \in Range(todo[writer])

\* At rest a server of the workspace runs with the setting in force, unless
\* the restart that started it had been given an older one and the handler of
\* the newer one had found the server stopped (reconfigure, lsp.rs:438-471).
SettingIsUsed ==
    AtRest => \A s \in Known : port[s] # None => using[s] = config \/ s \in overtaken

\* Whatever is asked for comes to an end: nobody waits for ever for the locks of
\* the map and of the status item, or for a server another one is binding
\* (the lock held over a stop, lsp.rs:630; over a request to the editor, 165-199).
HandlersEnd == []<>AtRest
================================================================================
