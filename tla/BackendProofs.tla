----------------------------- MODULE BackendProofs -----------------------------
(***************************************************************************)
(* Proofs about Backend, for any workspace, any tasks and any jobs.        *)
(*                                                                         *)
(* The parts of the invariant (see BackendSteps) are proved one after the  *)
(* other; each section shows that one of them is kept by whatever a task   *)
(* does, and the last puts them together.                                  *)
(***************************************************************************)
EXTENDS BackendSteps

---------------------------------------------------------------------------
(* What is kept when a task proceeds *)

Moved(t, new) ==
    /\ todo' \in [Tasks -> Seq(Steps)]
    /\ Spliced(todo'[t], new, todo[t])
    /\ \A u \in Tasks : u # t => todo'[u] = todo[u]

LEMMA TurnedMoves ==
    ASSUME Kept, NEW t \in Tasks, NEW new, Turned(t, new)
    PROVE  Moved(t, new)
<1>1. /\ todo \in [Tasks -> Seq(Steps)] /\ todo[t] \in Seq(Steps) /\ todo[t] # <<>>
      /\ new \in Seq(Steps)
      /\ todo' = [todo EXCEPT ![t] = new \o Tail(todo[t])]
    BY DEF Kept, Kinds, Turned, Turns, Fits
<1> DEFINE r == new \o Tail(todo[t])
<1>2. Spliced(r, new, todo[t])
    BY <1>1, Splicing
<1>3. r \in Seq(Steps)
    BY <1>2 DEF Spliced
<1> HIDE DEF r
<1>4. todo' = [todo EXCEPT ![t] = r]
    BY <1>1 DEF r
<1>5. /\ todo' \in [Tasks -> Seq(Steps)] /\ todo'[t] = r
      /\ \A u \in Tasks : u # t => todo'[u] = todo[u]
    BY <1>1, <1>3, <1>4
<1> QED
    BY <1>2, <1>5 DEF Moved

LEMMA ShapedStep ==
    ASSUME Kept, NEW t \in Tasks, NEW new, Turned(t, new), idle' = idle
    PROVE  Shaped'
<1>1. Moved(t, new) /\ todo[t] # <<>> /\ Fits(Now(t), new, made')
    BY TurnedMoves DEF Turned, Turns
<1>2. Shaped
    BY DEF Kept
<1>3. \A u \in idle : u \in Tasks /\ u # t /\ todo'[u] = <<>>
    BY <1>1, <1>2 DEF Shaped, Moved, Kept, Kinds
<1>4. \A i \in DOMAIN todo'[t] : i # 1 => ~Passing(todo'[t][i])
    <2> TAKE i \in DOMAIN todo'[t]
    <2> HAVE i # 1
    <2>1. CASE i \in DOMAIN new /\ todo'[t][i] = new[i]
        BY <1>1, <2>1 DEF Fits
    <2>2. CASE \E j \in DOMAIN todo[t] : j # 1 /\ todo'[t][i] = todo[t][j]
        BY <1>2, <2>2 DEF Shaped
    <2> QED
        BY <1>1, <2>1, <2>2 DEF Moved, Spliced
<1>5. ASSUME t \in Requests
      PROVE  \A i \in DOMAIN todo'[t] : todo'[t][i].op \notin Lasting
    <2>1. Now(t).op \notin Lasting
        BY <1>1, <1>2, <1>5 DEF Shaped, Moved, Spliced, Now
    <2>2. \A i \in DOMAIN new : new[i].op \notin Lasting
        BY <1>1, <2>1 DEF Fits, Lasting
    <2> QED
        BY <1>1, <1>2, <1>5, <2>2 DEF Shaped, Moved, Spliced
<1>6. \A u \in Tasks : u # t =>
          /\ \A i \in DOMAIN todo'[u] : i # 1 => ~Passing(todo'[u][i])
          /\ u \in Requests => \A i \in DOMAIN todo'[u] : todo'[u][i].op \notin Lasting
    BY <1>1, <1>2 DEF Moved, Shaped, Tasks
<1>7. \A u \in Tasks : \A i \in DOMAIN todo'[u] : i # 1 => ~Passing(todo'[u][i])
    BY <1>4, <1>6
<1>8. \A u \in Requests : \A i \in DOMAIN todo'[u] : todo'[u][i].op \notin Lasting
    BY <1>5, <1>6 DEF Tasks
<1> QED
    BY <1>3, <1>7, <1>8, Zenon DEF Shaped

LEMMA CreatedTodo ==
    ASSUME Kept, NEW t \in Tasks, NEW new, Turned(t, new), made' \in Nat, made <= made'
    PROVE  \A u \in Tasks : \A i \in DOMAIN todo'[u] :
               todo'[u][i].op \in OfServer => todo'[u][i].server <= made'
<1>1. Moved(t, new) /\ Fits(Now(t), new, made')
    BY TurnedMoves DEF Turned
<1>2. /\ made \in Nat
      /\ \A u \in Tasks : \A i \in DOMAIN todo[u] :
             todo[u][i].op \in OfServer => /\ todo[u][i].server <= made
                                           /\ todo[u][i].server \in Servers
    <2>1. made \in Nat
        BY DEF Kept, Kinds
    <2>2. ASSUME NEW u \in Tasks, NEW i \in DOMAIN todo[u], todo[u][i].op \in OfServer
          PROVE  todo[u][i].server \in Servers
        <3>1. todo[u][i] \in Steps
            BY DEF Kept, Kinds
        <3>2. OfKind(todo[u][i])
            BY <3>1, StepShape
        <3> QED
            BY <2>2, <3>2, LookShape DEF OfKind, OfServer
    <2> QED
        BY <2>1, <2>2 DEF Kept, Created
<1>3. \A u \in Tasks : \A i \in DOMAIN todo[u] :
          todo[u][i].op \in OfServer => todo[u][i].server <= made'
    BY <1>2 DEF Servers
<1>4. \A i \in DOMAIN new : new[i].op \in OfServer => new[i].server <= made'
    BY <1>1 DEF Fits
<1>5. \A i \in DOMAIN todo'[t] :
          todo'[t][i].op \in OfServer => todo'[t][i].server <= made'
    BY <1>1, <1>3, <1>4 DEF Moved, Spliced
<1> QED
    BY <1>1, <1>3, <1>5 DEF Moved

---------------------------------------------------------------------------
(* The other steps *)

LEMMA LooksUpFrame ==
    ASSUME NEW t \in Tasks, LooksUp(t)
    PROVE  /\ todo[t] # <<>> /\ writer = None
           /\ Now(t).op \in {"command", "toggle", "initialized", "shutdown", "reconfigure"}
           /\ channels' = channels \/ channels' = {f \in Folders : servers[f] # None}
           /\ UNCHANGED <<servers, made, writer, engine, readers, bar, rest, fresh,
                          crossed>>
<1>1. /\ todo[t] # <<>> /\ writer = None
      /\ UNCHANGED <<servers, made, writer, engine, readers, bar, rest, fresh, crossed>>
    BY Zenon DEF LooksUp
<1>2. \/ Now(t).op = "command" /\ channels' = channels
      \/ Now(t).op = "toggle" /\ channels' = channels
      \/ /\ Now(t).op = "initialized"
         /\ channels' = {f \in Folders : servers[f] # None}
      \/ Now(t).op = "shutdown" /\ channels' = channels
      \/ Now(t).op = "reconfigure" /\ channels' = channels
    BY Zenon DEF LooksUp
<1> QED
    BY <1>1, <1>2

\* what an idle task may be asked for
Asking(t, job) ==
    /\ job \in Seq(Asked) /\ job # <<>> /\ DOMAIN job = 1 .. Len(job)
    /\ 1 \in DOMAIN job /\ Len(job) \in Nat
    /\ \A i \in DOMAIN job :
           /\ job[i] = Shutdown => i = 1
           /\ t \in Requests => job[i].op \in {"command", "shutdown"}
           /\ job[i].op \in {"remove", "add"} =>
                  /\ \E j \in DOMAIN job : i < j /\ job[j] = Refresh
                  /\ \A j \in DOMAIN job :
                         job[j].op \in {"remove", "add"} /\ job[j].on = job[i].on
                         => i = j
    /\ Sensible(job)
    /\ t \in idle /\ todo[t] = <<>>
    /\ todo' \in [Tasks -> Seq(Steps)] /\ todo'[t] = job
    /\ \A u \in Tasks : u # t => todo'[u] = todo[u]
    /\ idle' = idle \ {t} /\ down' = (down \/ job[1] = Shutdown)
    /\ UNCHANGED <<table, engine, config, readers, bar, fresh, crossed>>

LEMMA BeginAsks ==
    ASSUME Kept, NEW t \in Tasks, Begin(t)
    PROVE  \E job : Asking(t, job)
<1>1. PICK job \in Jobs[t] :
          /\ Sensible(job) /\ todo' = [todo EXCEPT ![t] = job]
          /\ down' = (down \/ job[1] = Shutdown)
    BY Zenon DEF Begin
<1>2. /\ t \in idle /\ idle' = idle \ {t}
      /\ UNCHANGED <<table, engine, config, readers, bar, fresh, crossed>>
    BY Zenon DEF Begin
<1>3. /\ job \in Seq(Asked) /\ job # <<>>
      /\ \A i \in DOMAIN job :
             /\ job[i] = Shutdown => i = 1
             /\ t \in Requests => job[i].op \in {"command", "shutdown"}
             /\ job[i].op \in {"remove", "add"} =>
                    /\ \E j \in DOMAIN job : i < j /\ job[j] = Refresh
                    /\ \A j \in DOMAIN job :
                           job[j].op \in {"remove", "add"} /\ job[j].on = job[i].on
                           => i = j
    BY JobsAssumption, Zenon
<1>4. job \in Seq(Steps)
    BY <1>3, AskedIsStep
<1>5. DOMAIN job = 1 .. Len(job) /\ 1 \in DOMAIN job /\ Len(job) \in Nat
    BY <1>4, <1>3
<1>6. todo[t] = <<>>
    BY <1>2 DEF Kept, Shaped
<1>7. /\ todo' \in [Tasks -> Seq(Steps)] /\ todo'[t] = job
      /\ \A u \in Tasks : u # t => todo'[u] = todo[u]
    BY <1>1, <1>4 DEF Kept, Kinds
<1> QED
    BY <1>1, <1>2, <1>3, <1>5, <1>6, <1>7, Zenon DEF Asking

AskedOps == {"command", "toggle", "remove", "add", "refresh", "settings", "initialized",
             "shutdown"}

LEMMA AskedShape ==
    ASSUME NEW e \in Asked
    PROVE  /\ e.op \in AskedOps /\ ~Passing(e) /\ e.op \notin OfServer
           /\ e.op \in {"remove", "add"} => e.on \in Folders
           /\ e.op = "settings" => e = NewSetting
           /\ e.op = "refresh" => e = Refresh
           /\ e.op = "shutdown" => e = Shutdown
<1>1. /\ e.op \in AskedOps
      /\ e.op \in {"remove", "add"} => e.on \in Folders
      /\ e.op = "settings" => e = NewSetting
      /\ e.op = "refresh" => e = Refresh
      /\ e.op = "shutdown" => e = Shutdown
    BY DEF Asked, AskedOps, Command, Toggle, FolderGone, FolderAdded, Refresh,
           NewSetting, Initialized, Shutdown
<1> QED
    BY <1>1 DEF AskedOps, Passing, OfServer

Dropped(t) ==
    /\ t \in Requests /\ todo[t] # <<>>
    /\ todo' \in [Tasks -> Seq(Steps)] /\ todo'[t] = <<>>
    /\ \A u \in Tasks : u # t => todo'[u] = todo[u]

LEMMA CancelDrops ==
    ASSUME Kept, NEW t \in Tasks, Cancel(t)
    PROVE  Dropped(t)
<1>1. t \in Requests /\ todo[t] # <<>> /\ todo' = [todo EXCEPT ![t] = <<>>]
    BY Zenon DEF Cancel
<1>2. <<>> \in Seq(Steps) /\ todo \in [Tasks -> Seq(Steps)]
    BY DEF Kept, Kinds
<1> QED
    BY <1>1, <1>2 DEF Dropped

---------------------------------------------------------------------------
(* What is kept *)

\* the variables that no other part of the invariant tells the kinds of
Sorted ==
    /\ servers \in [Folders -> Servers \cup {None}]
    /\ made \in 0 .. MaxServers
    /\ channels \subseteq Folders
    /\ port \in [Servers -> Ports \cup {None}]
    /\ using \in [Servers -> Settings \cup {None}]
    /\ config \in Settings
    /\ mutex \in [Servers -> Tasks \cup {None}]
    /\ readers \subseteq Tasks
    /\ writer \in Tasks \cup {None}
    /\ idle \subseteq Tasks
    /\ down \in BOOLEAN
    /\ fresh \subseteq Tasks
    /\ crossed \in BOOLEAN
    /\ late \subseteq Servers /\ overtaken \subseteq Servers

LEMMA SortedProceeds ==
    ASSUME Kept, Owners, NEW t \in Tasks, Proceeds(t)
    PROVE  Sorted'
<1>1. Sorted
    BY DEF Kept, Kinds, Sorted
<1> USE DEF Sorted
<1>2. CASE LooksUp(t)
    <2>1. /\ channels' \subseteq Folders
          /\ UNCHANGED <<servers, made, writer, engine, readers, bar, rest, fresh, crossed>>
        BY <1>1, <1>2, LooksUpFrame
    <2> QED
        BY <1>1, <2>1 DEF engine, rest
<1>3. CASE Configures(t)
    <2>1. config < MaxSettings /\ config' = config + 1 /\ config \in 1 .. MaxSettings
          /\ MaxSettings \in Nat
        BY <1>1, <1>3, FoldersAssumption DEF Configures, Settings
    <2>2. config' \in Settings
        BY <2>1 DEF Settings
    <2> QED
        BY <1>1, <1>3, <2>2 DEF Configures, table, engine
<1>4. CASE Removes(t)
    <2>1. Now(t).on \in Folders
        BY <1>4, RemovesTurns
    <2> QED
        BY <1>1, <1>4, <2>1 DEF Removes, engine, rest
<1>5. CASE Adds(t)
    <2>1. Now(t).on \in Folders
        BY <1>5, AddsTurns
    <2>2. made' \in 0 .. MaxServers /\ made' \in Servers
        BY <1>1, <1>5, FoldersAssumption DEF Adds, Servers
    <2> QED
        BY <1>1, <1>5, <2>1, <2>2 DEF Adds, engine, rest
<1>6. CASE Unlocks(t) \/ LooksAt(t) \/ StartFindsRunning(t) \/ StopFindsNothing(t)
           \/ StopAnswers(t)
    BY <1>1, <1>6 DEF Unlocks, LooksAt, StartFindsRunning, StopFindsNothing, StopAnswers,
                      engine, rest, table
<1>7. CASE StartTakes(t)
    <2>1. Now(t).server \in Servers
        BY <1>7, HeadShape DEF StartTakes, Does, Now, OfServer
    <2> QED
        BY <1>1, <1>7, <2>1 DEF StartTakes, table, rest
<1>8. CASE Binds(t)
    <2>1. Now(t).server \in Servers /\ Now(t).setting \in Settings
        BY <1>8, HeadShape DEF Binds, Does, Now, OfKind
    <2> QED
        BY <1>1, <1>8, <2>1 DEF Binds, table, rest
<1>9. CASE StopTakes(t)
    <2>1. Now(t).server \in Servers
        BY <1>9, HeadShape DEF StopTakes, Does, Now, OfServer
    <2> QED
        BY <1>1, <1>9, <2>1 DEF StopTakes, table, rest
<1>10. CASE RefreshBegins(t) \/ Gathers(t) \/ Gathered(t)
    BY <1>1, <1>10 DEF RefreshBegins, Gathers, Gathered, table, engine, rest
<1>11. CASE ShowStatus(t) \/ ClearStatus(t)
    <2>1. /\ UNCHANGED <<table, engine, readers, rest>>
          /\ fresh' \subseteq Tasks /\ crossed' \in BOOLEAN
        BY <1>1, <1>11 DEF ShowStatus, ClearStatus, Judged
    <2> QED
        BY <1>1, <2>1 DEF table, engine, rest
<1>12. CASE Begins(t) \/ Records(t)
    <2>1. UNCHANGED <<table, engine, readers, rest, fresh, crossed>>
        BY <1>12, Zenon DEF Begins, Records
    <2> QED
        BY <1>1, <2>1 DEF table, engine, rest
<1> QED
    BY <1>2, <1>3, <1>4, <1>5, <1>6, <1>7, <1>8, <1>9, <1>10, <1>11, <1>12,
       Zenon DEF Proceeds
LEMMA CreatedProceeds ==
    ASSUME Kept, Bar, Owners, NEW t \in Tasks, Proceeds(t)
    PROVE  Created'
<1>1. PICK new : Turned(t, new)
    BY ProceedsTurns
<1>2. /\ made \in Nat /\ servers \in [Folders -> Servers \cup {None}]
      /\ port \in [Servers -> Ports \cup {None}]
      /\ \A f \in Folders : servers[f] # None => servers[f] <= made
      /\ \A s \in Servers : s > made => port[s] = None
    BY DEF Kept, Kinds, Created
<1>3. Servers \subseteq Nat
    BY DEF Servers
<1>4. CASE Adds(t)
    <2>1. /\ Now(t).on \in Folders /\ made' = made + 1
          /\ servers' = [servers EXCEPT ![Now(t).on] = made'] /\ port' = port
        BY <1>4, AddsTurns DEF Adds, engine
    <2>2. \A f \in Folders : servers'[f] # None => servers'[f] <= made'
        <3> TAKE f \in Folders
        <3>1. servers[f] # None => servers[f] \in Nat
            BY <1>2, <1>3
        <3> QED
            BY <1>2, <2>1, <3>1
    <2>3. \A s \in Servers : s > made' => port'[s] = None
        BY <1>2, <1>3, <2>1
    <2>4. made' \in Nat /\ made <= made'
        BY <1>2, <2>1
    <2>5. \A u \in Tasks : \A i \in DOMAIN todo'[u] :
              todo'[u][i].op \in OfServer => todo'[u][i].server <= made'
        BY <1>1, <2>4, CreatedTodo
    <2> QED
        BY <2>2, <2>3, <2>5 DEF Created
<1>5. CASE ~Adds(t)
    <2>1. /\ made' = made
          /\ \A f \in Folders : servers'[f] # None => servers'[f] = servers[f]
          /\ \A s \in Servers : s > made => port'[s] = None
        <3>1. CASE Removes(t)
            <4>1. /\ servers' = [servers EXCEPT ![Now(t).on] = None]
                  /\ port' = port /\ made' = made
                BY <3>1, Zenon DEF Removes, engine
            <4> QED
                BY <1>2, <4>1
        <3>2. CASE Binds(t)
            <4>1. /\ Now(t).server \in Servers /\ Now(t).server <= made
                  /\ made' = made /\ servers' = servers
                  /\ \/ \E p : port' = [port EXCEPT ![Now(t).server] = p]
                     \/ port' = port
                BY <3>2, HeadShape DEF Binds, Does, Now, OfServer, table
            <4>2. \A s \in Servers : s > made => s # Now(t).server
                BY <1>2, <1>3, <4>1
            <4> QED
                BY <1>2, <4>1, <4>2
        <3>3. CASE StopTakes(t)
            <4>1. /\ made' = made /\ servers' = servers
                  /\ port' = [port EXCEPT ![Now(t).server] = None]
                BY <3>3 DEF StopTakes, table
            <4> QED
                BY <1>2, <4>1
        <3>4. CASE ~Removes(t) /\ ~Binds(t) /\ ~StopTakes(t)
            <4>1. made' = made /\ servers' = servers /\ port' = port
                <5>1. LooksUp(t) => made' = made /\ servers' = servers /\ port' = port
                    BY LooksUpFrame DEF engine
                <5> QED
                    BY <1>5, <3>4, <5>1, Zenon
                    DEF Proceeds, Configures, Unlocks, LooksAt, StartFindsRunning,
                        StartTakes, StopFindsNothing, StopAnswers, RefreshBegins, Gathers,
                        Gathered, ShowStatus, ClearStatus, Begins, Records, table, engine
            <4> QED
                BY <1>2, <4>1
        <3> QED
            BY <3>1, <3>2, <3>3, <3>4
    <2>2. \A u \in Tasks : \A i \in DOMAIN todo'[u] :
              todo'[u][i].op \in OfServer => todo'[u][i].server <= made'
        <3>1. made' \in Nat /\ made <= made'
            BY <1>2, <2>1
        <3> QED
            BY <1>1, <3>1, CreatedTodo
    <2> QED
        BY <1>2, <2>1, <2>2 DEF Created
<1> QED
    BY <1>4, <1>5

LEMMA KeptProceeds ==
    ASSUME Kept, Bar, Owners, NEW t \in Tasks, Proceeds(t)
    PROVE  Kept'
<1>1. PICK new : Turned(t, new)
    BY ProceedsTurns
<1>2. Moved(t, new)
    BY <1>1, TurnedMoves
<1>3. idle' = idle
    <2>1. LooksUp(t) => idle' = idle
        BY LooksUpFrame DEF rest
    <2> QED
        BY <2>1, Zenon
        DEF Proceeds, Configures, Removes, Unlocks, Adds, LooksAt, StartFindsRunning,
            StartTakes, Binds, StopFindsNothing, StopTakes, StopAnswers, RefreshBegins,
            Gathers, Gathered, ShowStatus, ClearStatus, Begins, Records, rest
<1>4. Shaped'
    BY <1>1, <1>3, ShapedStep
<1>5. Kinds'
    BY <1>2, SortedProceeds DEF Kinds, Sorted, Moved
<1>6. Created'
    BY CreatedProceeds
<1> QED
    BY <1>4, <1>5, <1>6 DEF Kept

LEMMA KeptBegin ==
    ASSUME Kept, NEW t \in Tasks, NEW job, Asking(t, job)
    PROVE  Kept'
<1>1. /\ todo' \in [Tasks -> Seq(Steps)] /\ todo'[t] = job
      /\ \A u \in Tasks : u # t => todo'[u] = todo[u]
      /\ t \in idle /\ idle' = idle \ {t} /\ down' \in BOOLEAN
      /\ UNCHANGED <<table, engine, config, readers, bar, fresh, crossed>>
    BY DEF Asking
<1>2. \A i \in DOMAIN job : /\ job[i].op \in AskedOps /\ ~Passing(job[i])
                            /\ job[i].op \notin OfServer
                            /\ t \in Requests => job[i].op \in {"command", "shutdown"}
    <2> TAKE i \in DOMAIN job
    <2>1. job[i] \in Asked
        BY DEF Asking
    <2> QED
        BY <2>1, AskedShape DEF Asking
<1>3. Kinds'
    BY <1>1 DEF Kept, Kinds, table, engine
<1>4. Created'
    BY <1>1, <1>2 DEF Kept, Created, table, engine
<1>5. Shaped'
    <2>1. \A u \in idle' : todo'[u] = <<>>
        BY <1>1 DEF Kept, Shaped, Kinds
    <2>2. \A u \in Tasks : \A i \in DOMAIN todo'[u] : i # 1 => ~Passing(todo'[u][i])
        BY <1>1, <1>2 DEF Kept, Shaped
    <2>3. \A u \in Requests : \A i \in DOMAIN todo'[u] : todo'[u][i].op \notin Lasting
        <3>1. t \in Requests => \A i \in DOMAIN job : job[i].op \notin Lasting
            BY <1>2 DEF Lasting
        <3> QED
            BY <1>1, <3>1 DEF Kept, Shaped, Tasks
    <2> QED
        BY <2>1, <2>2, <2>3, Zenon DEF Shaped
<1> QED
    BY <1>3, <1>4, <1>5 DEF Kept

LEMMA KeptCancel ==
    ASSUME Kept, NEW t \in Tasks, Cancel(t)
    PROVE  Kept'
<1>1. /\ todo' \in [Tasks -> Seq(Steps)] /\ todo'[t] = <<>> /\ DOMAIN todo'[t] = {}
      /\ \A u \in Tasks : u # t => todo'[u] = todo[u]
    BY CancelDrops DEF Dropped
<1>2. /\ readers' = readers \ {t} /\ fresh' = fresh \ {t} /\ crossed' = TRUE
      /\ mutex' = [s \in Servers |-> IF mutex[s] = t THEN None ELSE mutex[s]]
      /\ UNCHANGED <<table, port, using, late, overtaken, rest>>
    BY Zenon DEF Cancel
<1>3. mutex' \in [Servers -> Tasks \cup {None}]
    BY <1>2 DEF Kept, Kinds
<1>4. Kinds'
    BY <1>1, <1>2, <1>3 DEF Kept, Kinds, table, rest
<1>5. Created'
    BY <1>1, <1>2 DEF Kept, Created, table
<1>6. Shaped'
    <2>1. \A u \in idle' : todo'[u] = <<>>
        BY <1>1, <1>2 DEF Kept, Kinds, Shaped, rest
    <2>2. \A u \in Tasks : \A i \in DOMAIN todo'[u] : i # 1 => ~Passing(todo'[u][i])
        BY <1>1 DEF Kept, Shaped
    <2>3. \A u \in Requests : \A i \in DOMAIN todo'[u] : todo'[u][i].op \notin Lasting
        BY <1>1 DEF Kept, Shaped, Tasks
    <2> QED
        BY <2>1, <2>2, <2>3, Zenon DEF Shaped
<1> QED
    BY <1>4, <1>5, <1>6 DEF Kept
---------------------------------------------------------------------------
(* The status bar *)

LEMMA HeadAfter ==
    ASSUME Kept, NEW t \in Tasks, NEW new, Turned(t, new)
    PROVE  /\ todo[t] # <<>>
           /\ \A u \in Tasks : u # t => todo'[u] = todo[u]
           /\ new = <<>> /\ todo'[t] # <<>> => ~Passing(todo'[t][1])
           /\ new # <<>> => todo'[t] # <<>> /\ todo'[t][1] = new[1]
<1>1. Moved(t, new) /\ Shaped /\ todo[t] # <<>> /\ new \in Seq(Steps)
    BY TurnedMoves DEF Turned, Turns, Fits, Kept
<1>2. todo'[t] \in Seq(Steps)
    BY <1>1 DEF Moved
<1>3. CASE new = <<>>
    <2>1. todo'[t] # <<>> => 1 \in DOMAIN todo'[t]
        BY <1>2
    <2>2. DOMAIN new = {}
        BY <1>3
    <2>3. \A i \in DOMAIN todo'[t] :
              \E j \in DOMAIN todo[t] : j # 1 /\ todo'[t][i] = todo[t][j]
        BY <1>1, <2>2 DEF Moved, Spliced
    <2> QED
        BY <1>1, <1>3, <2>1, <2>3 DEF Moved, Shaped
<1>4. CASE new # <<>>
    <2>1. 1 \in DOMAIN new
        BY <1>1, <1>4
    <2>2. 1 \in DOMAIN todo'[t] /\ todo'[t][1] = new[1]
        BY <1>1, <2>1 DEF Moved, Spliced
    <2> QED
        BY <1>1, <1>2, <1>4, <2>2 DEF Moved
<1> QED
    BY <1>3, <1>4

\* more requests have gone, and as many items have stayed behind as before
LEMMA GoneGrows ==
    ASSUME Bar, NEW G, Gone \subseteq G, G \subseteq Requests
    PROVE  /\ IsFiniteSet(G) /\ Cardinality(orphans) <= Cardinality(G)
           /\ Cardinality(G) \in Nat
<1>1. IsFiniteSet(G)
    BY FoldersAssumption, FS_Subset
<1>2. /\ Cardinality(Gone) <= Cardinality(G)
      /\ Cardinality(Gone) \in Nat /\ Cardinality(G) \in Nat
    BY <1>1, FS_Subset, FS_CardinalityType
<1>3. Cardinality(orphans) <= Cardinality(Gone) /\ Cardinality(orphans) \in Nat
    BY FS_CardinalityType DEF Bar
<1> QED
    BY <1>1, <1>2, <1>3

\* nobody begins or ends an item
Aside(t) ==
    /\ todo' \in [Tasks -> Seq(Steps)]
    /\ \A u \in Tasks : u # t => todo'[u] = todo[u]
    /\ ~Does(t, "item") /\ ~Does(t, "record")
    /\ todo'[t] # <<>> => todo'[t][1].op \notin {"item", "record"}

LEMMA GoneProceeds ==
    ASSUME Kept, NEW t \in Tasks, idle' \subseteq idle, todo[t] # <<>> \/ t \in idle,
           \A u \in Tasks : u # t => todo'[u] = todo[u]
    PROVE  Gone \subseteq Gone'
BY DEF Gone, Tasks

LEMMA BarAside ==
    ASSUME Kept, Bar, NEW t \in Tasks, Aside(t), bar' = bar, idle' \subseteq idle,
           todo[t] # <<>> \/ t \in idle
    PROVE  Bar'
<1>1. /\ status' = status /\ showing' = showing /\ screen' = screen /\ orphans' = orphans
    BY DEF bar
<1>2. Gone \subseteq Gone'
    BY GoneProceeds DEF Aside
<1>3. Gone' \subseteq Requests
    BY DEF Gone
<1>4. Cardinality(orphans) <= Cardinality(Gone')
    BY <1>2, <1>3, GoneGrows
<1>5. \A u \in Tasks : /\ todo'[u] # <<>> /\ todo'[u][1].op \in {"item", "record"}
                          => u # t /\ todo'[u] = todo[u]
                       /\ todo[u] # <<>> /\ todo[u][1].op \in {"item", "record"}
                          => u # t /\ todo'[u] = todo[u]
    BY DEF Aside, Does
<1>6. /\ showing # None =>
             /\ showing \in Tasks /\ todo[showing] # <<>>
             /\ todo[showing][1].op \in {"item", "record"}
      /\ \A u \in Tasks : todo[u] # <<>> /\ todo[u][1].op \in {"item", "record"}
             => showing = u /\ status \notin screen
      /\ \A u \in Tasks : todo[u] # <<>> /\ todo[u][1].op = "record"
             => todo[u][1].item \in screen \ (orphans \cup {status})
    BY DEF Bar, Does, Now
<1>7. /\ showing # None => Does(showing, "item")' \/ Does(showing, "record")'
      /\ \A u \in Tasks : Does(u, "item")' \/ Does(u, "record")'
             => showing = u /\ status \notin screen
      /\ \A u \in Tasks : Does(u, "record")'
             => Now(u)'.item \in screen \ (orphans \cup {status})
    BY <1>1, <1>5, <1>6 DEF Does, Now
<1>8. BarIsRecorded'
    <2>1. \A item \in screen \ orphans :
              \/ item = status
              \/ /\ showing # None /\ todo[showing] # <<>>
                 /\ todo[showing][1].op = "record" /\ todo[showing][1].item = item
        BY DEF Bar, BarIsRecorded, Does, Now
    <2>2. showing # None => todo'[showing] = todo[showing]
        BY <1>5, <1>6
    <2> QED
        BY <1>1, <2>1, <2>2 DEF BarIsRecorded, Does, Now
<1>9. /\ status' \in Items \cup {None} /\ showing' \in Tasks \cup {None}
      /\ orphans' \subseteq screen' /\ screen' \subseteq Items /\ IsFiniteSet(orphans')
      /\ status' \notin orphans'
    BY <1>1 DEF Bar
<1> QED
    BY <1>1, <1>4, <1>7, <1>8, <1>9 DEF Bar

LEMMA BarCleared ==
    ASSUME Kept, Bar, NEW t \in Tasks, Aside(t), showing = None, Clears(t),
           todo[t] # <<>>, idle' = idle
    PROVE  Bar'
<1>1. /\ status' = None /\ showing' = None /\ screen' = screen \ {status}
      /\ orphans' = orphans
    BY DEF Clears
<1>2. Gone \subseteq Gone' /\ Gone' \subseteq Requests
    BY GoneProceeds DEF Aside, Gone
<1>3. Cardinality(orphans) <= Cardinality(Gone')
    BY <1>2, GoneGrows
<1>4. \A u \in Tasks : ~Does(u, "item")' /\ ~Does(u, "record")'
    <2>1. \A u \in Tasks : ~Does(u, "item") /\ ~Does(u, "record")
        BY NoneAssumption DEF Bar
    <2> QED
        BY <2>1 DEF Aside, Does
<1>5. screen' \subseteq orphans
    BY <1>1 DEF Bar, BarIsRecorded
<1>6. /\ orphans \subseteq screen' /\ screen' \subseteq Items /\ IsFiniteSet(orphans)
      /\ None \notin orphans
    BY <1>1, ItemsAssumption DEF Bar
<1> QED
    BY <1>1, <1>3, <1>4, <1>5, <1>6 DEF Bar, BarIsRecorded
\* an item is asked for
LEMMA BarShows ==
    ASSUME Kept, Bar, NEW t \in Tasks, NEW text, Turned(t, <<Itemizing(text)>>),
           text \in Texts, showing = None, showing' = t, screen' = screen \ {status},
           UNCHANGED <<status, orphans>>, idle' = idle
    PROVE  Bar'
<1> DEFINE x == Itemizing(text)
<1>1. /\ <<x>> # <<>> /\ <<x>>[1] = x /\ x.op = "item"
    BY DEF Itemizing
<1>2. /\ todo[t] # <<>> /\ todo'[t] # <<>> /\ todo'[t][1].op = "item"
      /\ \A u \in Tasks : u # t => todo'[u] = todo[u]
    BY <1>1, HeadAfter, Zenon
<1>3. \A u \in Tasks : ~Does(u, "item") /\ ~Does(u, "record")
    BY NoneAssumption DEF Bar
<1>4. /\ Does(t, "item")' /\ ~Does(t, "record")'
      /\ \A u \in Tasks : Does(u, "item")' \/ Does(u, "record")' => u = t
    BY <1>2, <1>3 DEF Does
<1>5. Gone \subseteq Gone' /\ Gone' \subseteq Requests
    BY <1>2, GoneProceeds DEF Gone
<1>6. Cardinality(orphans) <= Cardinality(Gone')
    BY <1>5, GoneGrows
<1>7. screen' \subseteq orphans /\ orphans \subseteq screen'
    BY <1>3 DEF Bar, BarIsRecorded
<1>8. /\ status' = status /\ orphans' = orphans /\ status \notin screen'
      /\ status' \in Items \cup {None} /\ showing' \in Tasks
      /\ screen' \subseteq Items /\ IsFiniteSet(orphans) /\ status \notin orphans
    BY DEF Bar
<1>9. BarIsRecorded'
    BY <1>7, <1>8 DEF BarIsRecorded
<1> QED
    BY <1>4, <1>6, <1>7, <1>8, <1>9 DEF Bar

\* it begins
LEMMA BarBegins ==
    ASSUME Kept, Bar, NEW t \in Tasks, Does(t, "item"), NEW new \in Items,
           new \notin screen \cup {status},
           screen' = screen \cup {new}, Turned(t, <<Recording(new)>>),
           UNCHANGED <<status, showing, orphans>>, idle' = idle
    PROVE  Bar'
<1> DEFINE x == Recording(new)
<1>1. /\ <<x>> # <<>> /\ <<x>>[1] = x /\ x.op = "record" /\ x.item = new
    BY DEF Recording
<1>2. /\ todo[t] # <<>> /\ todo'[t] # <<>> /\ todo'[t][1].op = "record"
      /\ todo'[t][1].item = new
      /\ \A u \in Tasks : u # t => todo'[u] = todo[u]
    BY <1>1, HeadAfter, Zenon
<1>3. /\ showing = t /\ ~Does(t, "record") /\ status \notin screen
      /\ \A u \in Tasks : u # t => ~Does(u, "item") /\ ~Does(u, "record")
    BY DEF Bar, Does
<1>4. /\ Does(t, "record")' /\ Now(t)'.item = new /\ ~Does(t, "item")'
      /\ \A u \in Tasks : u # t => ~Does(u, "item")' /\ ~Does(u, "record")'
    BY <1>2, <1>3 DEF Does, Now
<1>5. Gone \subseteq Gone' /\ Gone' \subseteq Requests
    BY <1>2, GoneProceeds DEF Gone
<1>6. Cardinality(orphans) <= Cardinality(Gone')
    BY <1>5, GoneGrows
<1>7. /\ status' = status /\ showing' = t /\ orphans' = orphans
      /\ orphans \subseteq screen /\ screen \subseteq Items
      /\ IsFiniteSet(orphans) /\ status \in Items \cup {None} /\ status \notin orphans
    BY <1>3 DEF Bar
<1>8. BarIsRecorded'
    <2>1. \A item \in screen \ orphans : item = status
        BY <1>3 DEF Bar, BarIsRecorded
    <2>2. showing' # None
        BY <1>7, NoneAssumption
    <2> QED
        BY <1>4, <1>7, <2>1, <2>2 DEF BarIsRecorded
<1>9. \A u \in Tasks : /\ Does(u, "item")' \/ Does(u, "record")' => u = t
                       /\ Does(u, "record")' => Now(u)'.item = new
    BY <1>4
<1>10. new \in screen' \ (orphans \cup {status}) /\ status \notin screen'
    BY <1>3, <1>7
<1> QED
    BY <1>4, <1>6, <1>7, <1>8, <1>9, <1>10 DEF Bar

\* it is recorded
LEMMA BarRecords ==
    ASSUME Kept, Bar, NEW t \in Tasks, Records(t)
    PROVE  Bar'
<1>1. /\ Does(t, "record") /\ status' = Now(t).item /\ showing' = None
      /\ UNCHANGED <<screen, orphans>> /\ idle' = idle
    BY Zenon DEF Records, rest
<1>2. Turned(t, <<>>)
    BY EndingTurns DEF Ending
<1>3. /\ todo[t] # <<>> /\ \A u \in Tasks : u # t => todo'[u] = todo[u]
      /\ todo'[t] # <<>> => ~Passing(todo'[t][1])
    BY <1>2, HeadAfter
<1>4. /\ showing = t /\ status \notin screen
      /\ \A u \in Tasks : u # t => ~Does(u, "item") /\ ~Does(u, "record")
      /\ Now(t).item \in screen \ (orphans \cup {status})
    BY <1>1 DEF Bar
<1>5. \A u \in Tasks : ~Does(u, "item")' /\ ~Does(u, "record")'
    BY <1>3, <1>4 DEF Does, Passing
<1>6. Gone \subseteq Gone' /\ Gone' \subseteq Requests
    BY <1>1, <1>3, GoneProceeds DEF Gone
<1>7. Cardinality(orphans) <= Cardinality(Gone')
    BY <1>6, GoneGrows
<1>8. /\ orphans \subseteq screen /\ screen \subseteq Items /\ IsFiniteSet(orphans)
    BY DEF Bar
<1>9. \A item \in screen \ orphans : item = Now(t).item
    BY <1>4 DEF Bar, BarIsRecorded
<1> QED
    BY <1>1, <1>4, <1>5, <1>7, <1>8, <1>9 DEF Bar, BarIsRecorded

\* a request that is cancelled before it has recorded its item leaves it behind
LEMMA BarCancel ==
    ASSUME Kept, Bar, NEW t \in Tasks, Cancel(t)
    PROVE  Bar'
<1>1. /\ showing' = IF showing = t THEN None ELSE showing
      /\ orphans' = IF Does(t, "record") THEN orphans \cup {Now(t).item} ELSE orphans
      /\ UNCHANGED <<status, screen>> /\ idle' = idle
    BY Zenon DEF Cancel, rest
<1>2. /\ t \in Requests /\ todo[t] # <<>> /\ todo'[t] = <<>>
      /\ \A u \in Tasks : u # t => todo'[u] = todo[u]
    BY CancelDrops DEF Dropped
<1>3. t \notin Gone /\ t \notin idle
    BY <1>2 DEF Gone, Kept, Shaped
<1>4. Gone' = Gone \cup {t}
    BY <1>1, <1>2, <1>3 DEF Gone, Tasks
<1>5. Gone \cup {t} \subseteq Requests
    BY <1>2 DEF Gone
<1>6. /\ IsFiniteSet(Gone) /\ Cardinality(orphans) <= Cardinality(Gone)
      /\ Cardinality(Gone) \in Nat
    BY <1>5, GoneGrows
<1>7. Cardinality(Gone') = Cardinality(Gone) + 1
    BY <1>3, <1>4, <1>6, FS_AddElement
<1>8. /\ IsFiniteSet(orphans) /\ Cardinality(orphans) \in Nat
    BY FS_CardinalityType DEF Bar
<1>9. IsFiniteSet(orphans') /\ Cardinality(orphans') <= Cardinality(Gone')
    <2>1. \A item : /\ IsFiniteSet(orphans \cup {item})
                    /\ \/ Cardinality(orphans \cup {item}) = Cardinality(orphans)
                       \/ Cardinality(orphans \cup {item}) = Cardinality(orphans) + 1
        BY <1>8, FS_AddElement
    <2>2. orphans' = orphans \/ orphans' = orphans \cup {Now(t).item}
        BY <1>1
    <2>3. /\ IsFiniteSet(orphans')
          /\ \/ Cardinality(orphans') = Cardinality(orphans)
             \/ Cardinality(orphans') = Cardinality(orphans) + 1
        BY <1>8, <2>1, <2>2
    <2> QED
        BY <1>6, <1>7, <1>8, <2>3
<1>10. /\ orphans' \subseteq screen /\ status \notin orphans'
    BY <1>1 DEF Bar
<1>11. /\ showing \in Tasks \cup {None}
       /\ showing # None => Does(showing, "item") \/ Does(showing, "record")
       /\ \A u \in Tasks : Does(u, "item") \/ Does(u, "record")
              => showing = u /\ status \notin screen
       /\ \A u \in Tasks : Does(u, "record")
              => Now(u).item \in screen \ (orphans \cup {status})
    BY DEF Bar
<1>12. /\ ~Does(t, "item")' /\ ~Does(t, "record")'
       /\ \A u \in Tasks : u # t => /\ Does(u, "item")' <=> Does(u, "item")
                                    /\ Does(u, "record")' <=> Does(u, "record")
                                    /\ Now(u)' = Now(u)
    BY <1>2 DEF Does, Now
<1>13. /\ showing' \in Tasks \cup {None}
       /\ showing' # None => showing' # t /\ showing' = showing
    BY <1>1, <1>11
<1>14. /\ showing' # None => Does(showing, "item")' \/ Does(showing, "record")'
       /\ \A u \in Tasks : Does(u, "item")' \/ Does(u, "record")'
              => showing' = u /\ status \notin screen
    BY <1>1, <1>11, <1>12, <1>13
<1>15. \A u \in Tasks : Does(u, "record")'
           => Now(u)'.item \in screen \ (orphans' \cup {status})
    <2> TAKE u \in Tasks
    <2> HAVE Does(u, "record")'
    <2>1. u # t /\ Does(u, "record") /\ Now(u)' = Now(u) /\ showing = u
        BY <1>11, <1>12
    <2>2. ~Does(t, "record")
        BY <1>11, <2>1
    <2> QED
        BY <1>1, <1>11, <2>1, <2>2
<1>16. BarIsRecorded'
    <2>1. \A item \in screen \ orphans' :
              \/ item = status
              \/ /\ showing # None /\ showing # t /\ Does(showing, "record")
                 /\ Now(showing).item = item
        BY <1>1 DEF Bar, BarIsRecorded
    <2> QED
        BY <1>1, <1>11, <1>12, <2>1 DEF BarIsRecorded
<1> QED
    BY <1>1, <1>9, <1>10, <1>13, <1>14, <1>15, <1>16 DEF Bar

LEMMA BarProceeds ==
    ASSUME Kept, Bar, Owners, NEW t \in Tasks, Proceeds(t)
    PROVE  Bar'
<1>1. CASE ShowStatus(t)
    <2>1. idle' = idle
        BY <1>1, Zenon DEF ShowStatus, rest
    <2>2. /\ todo[t] # <<>> /\ Now(t).op = "show" /\ showing = None
          /\ Now(t).text \in Texts
          /\ \/ Turned(t, <<>>) /\ (Clears(t) \/ UNCHANGED bar)
             \/ /\ Turned(t, <<Itemizing(Now(t).text)>>)
                /\ showing' = t /\ screen' = screen \ {status}
                /\ UNCHANGED <<status, orphans>>
        BY <1>1, ShowStatusTurns, Zenon
    <2>3. Turned(t, <<>>) => Aside(t)
        BY <2>2, HeadAfter, TurnedMoves DEF Aside, Does, Now, Passing, Moved
    <2> QED
        BY <2>1, <2>2, <2>3, BarAside, BarCleared, BarShows
<1>2. CASE ClearStatus(t)
    <2>1. /\ Does(t, "clear") /\ showing = None /\ Clears(t) /\ idle' = idle
        BY <1>2, Zenon DEF ClearStatus, rest
    <2>2. Turned(t, <<>>)
        BY <1>2, EndingTurns DEF Ending
    <2>3. Aside(t) /\ todo[t] # <<>>
        BY <2>1, <2>2, HeadAfter, TurnedMoves DEF Aside, Does, Passing, Moved
    <2> QED
        BY <2>1, <2>3, BarCleared
<1>3. CASE Begins(t)
    <2>1. Does(t, "item") /\ UNCHANGED <<status, showing, orphans>> /\ idle' = idle
        BY <1>3, Zenon DEF Begins, rest
    <2> QED
        BY <1>3, <2>1, BeginsTurns, BarBegins
<1>4. CASE Records(t)
    BY <1>4, BarRecords
<1>5. CASE ~ShowStatus(t) /\ ~ClearStatus(t) /\ ~Begins(t) /\ ~Records(t)
    <2>1. PICK new : Turned(t, new)
        BY ProceedsTurns
    <2>2. /\ bar' = bar /\ idle' = idle /\ todo[t] # <<>>
          /\ Now(t).op \notin {"show", "item", "record"}
        <3>1. LooksUp(t) => /\ bar' = bar /\ idle' = idle /\ todo[t] # <<>>
                            /\ Now(t).op \notin {"show", "item", "record"}
            BY LooksUpFrame DEF rest
        <3>2. ~LooksUp(t) => /\ bar' = bar /\ idle' = idle
            BY <1>5, Zenon
            DEF Proceeds, Configures, Removes, Unlocks, Adds, LooksAt, StartFindsRunning,
                StartTakes, Binds, StopFindsNothing, StopTakes, StopAnswers,
                RefreshBegins, Gathers, Gathered, rest
        <3>3. ~LooksUp(t) => /\ todo[t] # <<>>
                             /\ Now(t).op \notin {"show", "item", "record"}
            BY <1>5
            DEF Proceeds, Configures, Removes, Unlocks, Adds, LooksAt, StartFindsRunning,
                StartTakes, Binds, StopFindsNothing, StopTakes, StopAnswers,
                RefreshBegins, Gathers, Gathered, Does, Now
        <3> QED
            BY <3>1, <3>2, <3>3
    <2>3. Fits(Now(t), new, made') /\ new \in Seq(Steps)
        BY <2>1 DEF Turned, Fits
    <2>4. new # <<>> => new[1].op \notin {"item", "record"}
        BY <2>2, <2>3 DEF Fits
    <2>5. Aside(t)
        BY <2>1, <2>2, <2>4, HeadAfter, TurnedMoves DEF Aside, Does, Now, Passing, Moved
    <2> QED
        BY <2>2, <2>5, BarAside
<1> QED
    BY <1>1, <1>2, <1>3, <1>4, <1>5

LEMMA BarBegin ==
    ASSUME Kept, Bar, NEW t \in Tasks, NEW job, Asking(t, job)
    PROVE  Bar'
<1>1. /\ todo' \in [Tasks -> Seq(Steps)] /\ todo'[t] = job /\ todo[t] = <<>>
      /\ \A u \in Tasks : u # t => todo'[u] = todo[u]
      /\ t \in idle /\ idle' \subseteq idle /\ bar' = bar
      /\ job[1] \in Asked
    BY DEF Asking
<1>2. job[1].op \notin {"item", "record"}
    BY <1>1, AskedShape DEF AskedOps
<1>3. Aside(t)
    BY <1>1, <1>2 DEF Aside, Does
<1> QED
    BY <1>1, <1>3, BarAside
---------------------------------------------------------------------------
(* Which step a task takes, and what it leaves alone *)

LEMMA ActionOf ==
    ASSUME NEW t \in Tasks, Proceeds(t)
    PROVE  /\ todo[t] # <<>>
           /\ Now(t).op = "settings" <=> Configures(t)
           /\ Now(t).op = "remove" <=> Removes(t)
           /\ Now(t).op = "unlock" <=> Unlocks(t)
           /\ Now(t).op = "add" <=> Adds(t)
           /\ Now(t).op = "look" <=> LooksAt(t)
           /\ Now(t).op = "start" <=> StartFindsRunning(t) \/ StartTakes(t)
           /\ Now(t).op = "bind" <=> Binds(t)
           /\ Now(t).op = "stop" <=> StopFindsNothing(t) \/ StopTakes(t)
           /\ Now(t).op = "drain" <=> StopAnswers(t)
           /\ Now(t).op = "refresh" <=> RefreshBegins(t)
           /\ Now(t).op = "gather" <=> Gathers(t) \/ Gathered(t)
           /\ Now(t).op = "show" <=> ShowStatus(t)
           /\ Now(t).op = "clear" <=> ClearStatus(t)
           /\ Now(t).op = "item" <=> Begins(t)
           /\ Now(t).op = "record" <=> Records(t)
           /\ \/ Now(t).op \in {"settings", "remove", "unlock", "add", "look", "start",
                                "bind", "stop", "drain", "refresh", "gather", "show",
                                "clear", "item", "record"}
              \/ LooksUp(t)
<1> DEFINE op == Now(t).op
<1>1. LooksUp(t) => /\ todo[t] # <<>>
                    /\ op \in {"command", "toggle", "initialized", "shutdown",
                               "reconfigure"}
    BY LooksUpFrame
<1>2. /\ Configures(t) => todo[t] # <<>> /\ op = "settings"
      /\ Removes(t) => todo[t] # <<>> /\ op = "remove"
      /\ Unlocks(t) => todo[t] # <<>> /\ op = "unlock"
      /\ Adds(t) => todo[t] # <<>> /\ op = "add"
      /\ LooksAt(t) => todo[t] # <<>> /\ op = "look"
      /\ StartFindsRunning(t) \/ StartTakes(t) => todo[t] # <<>> /\ op = "start"
      /\ Binds(t) => todo[t] # <<>> /\ op = "bind"
      /\ StopFindsNothing(t) \/ StopTakes(t) => todo[t] # <<>> /\ op = "stop"
      /\ StopAnswers(t) => todo[t] # <<>> /\ op = "drain"
      /\ RefreshBegins(t) => todo[t] # <<>> /\ op = "refresh"
      /\ Gathers(t) \/ Gathered(t) => todo[t] # <<>> /\ op = "gather"
      /\ ShowStatus(t) => todo[t] # <<>> /\ op = "show"
      /\ ClearStatus(t) => todo[t] # <<>> /\ op = "clear"
      /\ Begins(t) => todo[t] # <<>> /\ op = "item"
      /\ Records(t) => todo[t] # <<>> /\ op = "record"
    BY Zenon
    DEF Configures, Removes, Unlocks, Adds, LooksAt, StartFindsRunning, StartTakes, Binds,
        StopFindsNothing, StopTakes, StopAnswers, RefreshBegins, Gathers, Gathered,
        ShowStatus, ClearStatus, Begins, Records, Does, Now
<1>3. \/ LooksUp(t) \/ Configures(t) \/ Removes(t) \/ Unlocks(t) \/ Adds(t)
      \/ LooksAt(t)
      \/ StartFindsRunning(t) \/ StartTakes(t) \/ Binds(t)
      \/ StopFindsNothing(t) \/ StopTakes(t) \/ StopAnswers(t)
      \/ RefreshBegins(t) \/ Gathers(t) \/ Gathered(t)
      \/ ShowStatus(t) \/ ClearStatus(t) \/ Begins(t) \/ Records(t)
    BY Zenon DEF Proceeds
<1> HIDE DEF op
<1>4. /\ op = "settings" <=> Configures(t)
      /\ op = "remove" <=> Removes(t)
      /\ op = "unlock" <=> Unlocks(t)
      /\ op = "add" <=> Adds(t)
      /\ op = "look" <=> LooksAt(t)
      /\ op = "start" <=> StartFindsRunning(t) \/ StartTakes(t)
      /\ op = "bind" <=> Binds(t)
      /\ op = "stop" <=> StopFindsNothing(t) \/ StopTakes(t)
      /\ op = "drain" <=> StopAnswers(t)
      /\ op = "refresh" <=> RefreshBegins(t)
      /\ op = "gather" <=> Gathers(t) \/ Gathered(t)
      /\ op = "show" <=> ShowStatus(t)
      /\ op = "clear" <=> ClearStatus(t)
      /\ op = "item" <=> Begins(t)
      /\ op = "record" <=> Records(t)
      /\ todo[t] # <<>>
    BY <1>1, <1>2, <1>3
<1>5. \/ op \in {"settings", "remove", "unlock", "add", "look", "start", "bind", "stop",
                 "drain", "refresh", "gather", "show", "clear", "item", "record"}
      \/ LooksUp(t)
    BY <1>3, <1>4
<1> QED
    BY <1>4, <1>5 DEF op

LEMMA TableFrame ==
    ASSUME NEW t \in Tasks, Proceeds(t), ~Removes(t), ~Adds(t)
    PROVE  /\ servers' = servers /\ made' = made /\ Known' = Known
           /\ Unlocks(t) \/ writer' = writer
<1>1. LooksUp(t) => servers' = servers /\ made' = made /\ writer' = writer
    BY LooksUpFrame
<1>2. servers' = servers /\ made' = made /\ (Unlocks(t) \/ writer' = writer)
    BY <1>1, Zenon
    DEF Proceeds, Configures, Unlocks, LooksAt, StartFindsRunning,
        StartTakes, Binds, StopFindsNothing, StopTakes, StopAnswers, RefreshBegins,
        Gathers, Gathered, ShowStatus, ClearStatus, Begins, Records, table
<1> QED
    BY <1>2 DEF Known

LEMMA EngineFrame ==
    ASSUME NEW t \in Tasks, Proceeds(t), ~Binds(t), ~StopTakes(t)
    PROVE  port' = port /\ using' = using /\ late' = late
<1>1. LooksUp(t) => port' = port /\ using' = using /\ late' = late
    BY LooksUpFrame DEF engine
<1> QED
    BY <1>1, Zenon
    DEF Proceeds, Configures, Removes, Unlocks, Adds, LooksAt, StartFindsRunning,
        StartTakes, StopFindsNothing, StopAnswers, RefreshBegins,
        Gathers, Gathered, ShowStatus, ClearStatus, Begins, Records, engine

LEMMA KnownRemoves ==
    ASSUME Kept, Owners, NEW t \in Tasks, Removes(t)
    PROVE  /\ Known' \subseteq Known
           /\ \A s \in Known : s = servers[Now(t).on] \/ s \in Known'
<1>1. /\ servers' = [servers EXCEPT ![Now(t).on] = None]
      /\ servers \in [Folders -> Servers \cup {None}] /\ Now(t).on \in Folders
    <2>1. servers' = [servers EXCEPT ![Now(t).on] = None]
        BY Zenon DEF Removes
    <2>2. Now(t).on \in Folders
        BY RemovesTurns
    <2>3. servers \in [Folders -> Servers \cup {None}]
        BY DEF Kept, Kinds
    <2> QED
        BY <2>1, <2>2, <2>3, Zenon
<1>2. \A s \in Known : \E f \in Folders : servers[f] = s /\ s # None
    BY <1>1 DEF Known, Range
<1>3. \A s : s \in Known' <=> \E f \in Folders : servers'[f] = s /\ s # None
    BY <1>1 DEF Known, Range
<1>4. \A s : s \in Known <=> \E f \in Folders : servers[f] = s /\ s # None
    BY <1>1 DEF Known, Range
<1>5. \A f \in Folders : /\ f = Now(t).on => servers'[f] = None
                         /\ f # Now(t).on => servers'[f] = servers[f]
    BY <1>1
<1> QED
    BY <1>3, <1>4, <1>5

LEMMA KnownAdds ==
    ASSUME Kept, Owners, NEW t \in Tasks, Adds(t)
    PROVE  Known' = Known \cup {made'}
<1>1. /\ servers' = [servers EXCEPT ![Now(t).on] = made']
      /\ servers \in [Folders -> Servers \cup {None}] /\ Now(t).on \in Folders
      /\ made' = made + 1 /\ made < MaxServers /\ made \in Nat /\ MaxServers \in Nat
    <2>1. /\ servers' = [servers EXCEPT ![Now(t).on] = made']
          /\ made' = made + 1 /\ made < MaxServers
        BY Zenon DEF Adds
    <2>2. Now(t).on \in Folders
        BY AddsTurns
    <2>3. /\ servers \in [Folders -> Servers \cup {None}]
          /\ made \in Nat /\ MaxServers \in Nat
        BY FoldersAssumption DEF Kept, Kinds
    <2> QED
        BY <2>1, <2>2, <2>3, Zenon
<1>2. servers[Now(t).on] = None
    <2>1. todo[t] # <<>> /\ Now(t).op = "add"
        BY DEF Adds, Does, Now
    <2> QED
        BY <2>1, HeadShape DEF Owners
<1>3. \A s : s \in Known' <=> \E f \in Folders : servers'[f] = s /\ s # None
    BY <1>1 DEF Known, Range
<1>4. \A s : s \in Known <=> \E f \in Folders : servers[f] = s /\ s # None
    BY <1>1 DEF Known, Range
<1>5. \A f \in Folders : /\ f = Now(t).on => servers'[f] = made'
                         /\ f # Now(t).on => servers'[f] = servers[f]
    BY <1>1
<1>6. made' # None
    BY <1>1, NoneAssumption DEF Servers
<1> HIDE DEF Known
<1>7. \A s : s \in Known' <=> s \in Known \cup {made'}
    BY <1>1, <1>2, <1>3, <1>4, <1>5, <1>6
<1> QED
    BY <1>7
---------------------------------------------------------------------------
(* The lock of the map *)

\* where a step that is still to be done was before
LEMMA StepsAfter ==
    ASSUME Kept, NEW t \in Tasks, NEW new, Turned(t, new)
    PROVE  /\ todo[t] \in Seq(Steps) /\ todo'[t] \in Seq(Steps) /\ new \in Seq(Steps)
           /\ 1 \in DOMAIN todo[t] /\ DOMAIN todo[t] \subseteq Nat \ {0}
           /\ \A u \in Tasks : u # t => todo'[u] = todo[u]
           /\ Spliced(todo'[t], new, todo[t])
<1>1. Moved(t, new) /\ todo[t] \in Seq(Steps) /\ new \in Seq(Steps)
    BY TurnedMoves DEF Turned, Turns, Fits
<1>2. todo'[t] \in Seq(Steps)
    BY <1>1 DEF Moved
<1> QED
    BY <1>1, <1>2, Zenon DEF Moved, Spliced

\* every step of r is one of new, or one of q other than its head
Within(r, new, q) ==
    \A i \in DOMAIN r : \/ i \in DOMAIN new /\ r[i] = new[i]
                        \/ \E j \in DOMAIN q : j # 1 /\ r[i] = q[j]

LEMMA StepsWithin ==
    ASSUME Kept, NEW t \in Tasks, NEW new, Turned(t, new)
    PROVE  Within(todo'[t], new, todo[t])
<1>1. Spliced(todo'[t], new, todo[t])
    BY StepsAfter
<1> QED
    BY <1>1, Zenon DEF Spliced, Within

\* r is q without its head
Behead(r, q) ==
    /\ \A i \in DOMAIN r : i + 1 \in DOMAIN q /\ r[i] = q[i + 1]
    /\ \A j \in DOMAIN q : j # 1 => j - 1 \in DOMAIN r /\ r[j - 1] = q[j]

LEMMA Beheaded ==
    ASSUME Kept, NEW t \in Tasks, Turned(t, <<>>)
    PROVE  Behead(todo'[t], todo[t])
<1>1. Spliced(todo'[t], <<>>, todo[t]) /\ todo'[t] \in Seq(Steps)
    BY StepsAfter
<1>2. Len(<<>>) = 0 /\ DOMAIN <<>> = {}
    OBVIOUS
<1>3. /\ DOMAIN todo[t] \subseteq Nat \ {0}
      /\ \A j \in DOMAIN todo[t] : j # 1 => /\ 0 + j - 1 \in DOMAIN todo'[t]
                                           /\ todo'[t][0 + j - 1] = todo[t][j]
      /\ \A i \in DOMAIN todo'[t] :
             \E j \in DOMAIN todo[t] : j # 1 /\ i = 0 + j - 1 /\ todo'[t][i] = todo[t][j]
    BY <1>1, <1>2, Zenon DEF Spliced
<1>4. \A j \in DOMAIN todo[t] : 0 + j - 1 = j - 1 /\ (j - 1) + 1 = j
    BY <1>3
<1> QED
    BY <1>3, <1>4 DEF Behead

\* r is q with another head
Rehead(r, x, q) ==
    /\ DOMAIN r = DOMAIN q /\ r[1] = x
    /\ \A i \in DOMAIN q : i # 1 => r[i] = q[i]

LEMMA Reheaded ==
    ASSUME Kept, NEW t \in Tasks, NEW x, Turned(t, <<x>>)
    PROVE  Rehead(todo'[t], x, todo[t])
<1> DEFINE new == <<x>>
<1>1. Spliced(todo'[t], new, todo[t])
    BY StepsAfter
<1>2. Len(new) = 1 /\ DOMAIN new = {1} /\ new[1] = x
    OBVIOUS
<1> HIDE DEF new
<1>3. /\ DOMAIN todo[t] \subseteq Nat \ {0} /\ 1 \in DOMAIN todo[t]
      /\ 1 \in DOMAIN todo'[t] /\ todo'[t][1] = x
      /\ \A j \in DOMAIN todo[t] : j # 1 => /\ 1 + j - 1 \in DOMAIN todo'[t]
                                           /\ todo'[t][1 + j - 1] = todo[t][j]
      /\ \A i \in DOMAIN todo'[t] :
             \/ i = 1
             \/ \E j \in DOMAIN todo[t] : i = 1 + j - 1
    BY <1>1, <1>2 DEF Spliced
<1>4. \A j \in DOMAIN todo[t] : 1 + j - 1 = j
    BY <1>3
<1>5. \A i : i \in DOMAIN todo'[t] => i \in DOMAIN todo[t]
    BY <1>3, <1>4
<1>6. \A i : i \in DOMAIN todo[t] => i \in DOMAIN todo'[t]
    BY <1>3, <1>4
<1>7. \A i \in DOMAIN todo[t] : i # 1 => todo'[t][i] = todo[t][i]
    BY <1>3, <1>4
<1>8. DOMAIN todo'[t] = DOMAIN todo[t]
    BY <1>5, <1>6
<1> QED
    BY <1>3, <1>7, <1>8, Zenon DEF Rehead

\* who holds the lock of the map has it still to give back
LEMMA UnlockProceeds ==
    ASSUME Kept, Bar, Owners, NEW t \in Tasks, Proceeds(t)
    PROVE  /\ \A u \in Tasks : \A i \in DOMAIN todo'[u] :
                  todo'[u][i].op = "unlock"
                  => /\ writer' = u
                     /\ i = 1 \/ (i = 2 /\ todo'[u][1].op \in {"stop", "drain"})
           /\ writer' # None
              => \E i \in DOMAIN todo'[writer'] : todo'[writer'][i].op = "unlock"
<1>1. /\ \A u \in Tasks : \A i \in DOMAIN todo[u] :
             todo[u][i].op = "unlock"
             => /\ writer = u
                /\ i = 1 \/ (i = 2 /\ todo[u][1].op \in {"stop", "drain"})
      /\ writer # None
         => \E i \in DOMAIN todo[writer] : todo[writer][i].op = "unlock"
      /\ writer \in Tasks \cup {None} /\ None \notin Tasks
    BY NoneAssumption DEF Owners, Kept, Kinds
<1>2. CASE Removes(t)
    <2> DEFINE a == Stop(servers[Now(t).on])
               new == <<a, Unlock>>
    <2>1. Turned(t, new) /\ todo[t] # <<>>
        BY <1>2, RemovesTurns DEF Turned, Turns
    <2>2. /\ Len(new) = 2 /\ DOMAIN new = {1, 2} /\ new[1] = a /\ new[2] = Unlock
          /\ a.op = "stop" /\ Unlock.op = "unlock"
        BY DEF Unlock, Stop
    <2>3. writer = None /\ writer' = t
        BY <1>2, Zenon DEF Removes
    <2> HIDE DEF new, a
    <2>4. /\ todo'[t][1] = a /\ todo'[t][2] = Unlock /\ 2 \in DOMAIN todo'[t]
          /\ \A u \in Tasks : u # t => todo'[u] = todo[u]
          /\ \A i \in DOMAIN todo'[t] :
                 i = 1 \/ i = 2 \/ \E j \in DOMAIN todo[t] : todo'[t][i] = todo[t][j]
        <3>1. Spliced(todo'[t], new, todo[t]) /\ Within(todo'[t], new, todo[t])
              /\ \A u \in Tasks : u # t => todo'[u] = todo[u]
            BY <2>1, StepsAfter, StepsWithin
        <3> QED
            BY <2>2, <3>1 DEF Spliced, Within
    <2>5. \A u \in Tasks : \A i \in DOMAIN todo[u] : todo[u][i].op # "unlock"
        BY <1>1, <2>3
    <2>6. \A u \in Tasks : \A i \in DOMAIN todo'[u] :
              todo'[u][i].op = "unlock" => u = t /\ i = 2
        BY <2>2, <2>4, <2>5
    <2> QED
        BY <2>2, <2>3, <2>4, <2>6
<1>3. CASE Unlocks(t)
    <2>1. /\ todo[t] # <<>> /\ Now(t).op = "unlock" /\ writer' = None
          /\ Turned(t, <<>>)
        BY <1>3, EndingTurns DEF Ending, Unlocks, Does, Now
    <2>2. /\ todo[t][1].op = "unlock" /\ 1 \in DOMAIN todo[t]
        BY <2>1, HeadShape
    <2>3. writer = t /\ \A j \in DOMAIN todo[t] : j # 1 => todo[t][j].op # "unlock"
        BY <1>1, <2>2
    <2>4. \A i \in DOMAIN todo'[t] :
              \E j \in DOMAIN todo[t] : j # 1 /\ todo'[t][i] = todo[t][j]
        <3>1. Within(todo'[t], <<>>, todo[t]) /\ DOMAIN <<>> = {}
            BY <2>1, StepsWithin
        <3> QED
            BY <3>1 DEF Within
    <2>5. \A u \in Tasks : u # t => todo'[u] = todo[u]
        BY <2>1, StepsAfter
    <2>6. \A u \in Tasks : \A i \in DOMAIN todo'[u] : todo'[u][i].op # "unlock"
        BY <1>1, <2>3, <2>4, <2>5
    <2> QED
        BY <2>1, <2>6
<1>4. CASE ~Removes(t) /\ ~Unlocks(t)
    <2>1. writer' = writer
        <3>1. Adds(t) => writer' = writer
            BY Zenon DEF Adds
        <3> QED
            BY <1>4, <3>1, TableFrame
    <2>2. PICK new : Turned(t, new)
        BY ProceedsTurns
    <2>3. Now(t).op # "remove" /\ Now(t).op # "unlock" /\ Now(t) = todo[t][1]
        BY <1>4, ActionOf DEF Now
    <2>4. \A i \in DOMAIN new : new[i].op # "unlock"
        BY <2>2, <2>3 DEF Turned, Fits
    <2>5. /\ Now(t).op = "drain" => Turned(t, <<>>)
          /\ Now(t).op = "stop" => Turned(t, <<>>) \/ Turned(t, <<[op |-> "drain"]>>)
        <3>1. Now(t).op = "drain" => Turned(t, <<>>)
            BY ActionOf, EndingTurns DEF Ending
        <3>2. Now(t).op = "stop" => Turned(t, <<>>) \/ Turned(t, <<[op |-> "drain"]>>)
            BY ActionOf, EndingTurns, StopTakesTurns, Zenon DEF Ending
        <3> QED
            BY <3>1, <3>2
    <2>6. \A i \in DOMAIN todo'[t] : todo'[t][i].op = "unlock"
              => \E j \in DOMAIN todo[t] : j # 1 /\ todo[t][j].op = "unlock"
        BY <2>2, <2>4, StepsWithin DEF Within
    <2>7. \A j \in DOMAIN todo[t] : todo[t][j].op = "unlock"
              => /\ j = 2 /\ writer = t
                 /\ Now(t).op \in {"stop", "drain"}
        BY <1>1, <2>3
    <2>8. \A u \in Tasks : u # t => todo'[u] = todo[u]
        BY <2>2, StepsAfter
    <2>9. ASSUME NEW j \in DOMAIN todo[t], todo[t][j].op = "unlock"
          PROVE  \E k \in {1, 2} :
                     /\ k \in DOMAIN todo'[t] /\ todo'[t][k].op = "unlock"
                     /\ k = 2 => todo'[t][1].op = "drain"
                     /\ \A i \in DOMAIN todo'[t] : todo'[t][i].op = "unlock" => i = k
        <3>1. j = 2 /\ 2 \in DOMAIN todo[t] /\ Now(t).op \in {"stop", "drain"}
              /\ \A i \in DOMAIN todo[t] : todo[t][i].op = "unlock" => i = 2
            BY <2>7, <2>9
        <3>2. CASE Turned(t, <<>>)
            <4>1. Behead(todo'[t], todo[t])
                BY <3>2, Beheaded
            <4>2. 1 \in DOMAIN todo'[t] /\ todo'[t][1].op = "unlock"
                BY <2>9, <3>1, <4>1 DEF Behead
            <4>3. \A i \in DOMAIN todo'[t] : i \in Nat
                BY <2>2, StepsAfter
            <4>4. \A i \in DOMAIN todo'[t] : todo'[t][i].op = "unlock" => i = 1
                BY <3>1, <4>1, <4>3 DEF Behead
            <4> QED
                BY <4>2, <4>4
        <3>3. CASE Turned(t, <<[op |-> "drain"]>>)
            <4>1. Rehead(todo'[t], [op |-> "drain"], todo[t])
                BY <3>3, Reheaded
            <4>2. /\ 2 \in DOMAIN todo'[t] /\ todo'[t][2].op = "unlock"
                  /\ todo'[t][1].op = "drain"
                  /\ \A i \in DOMAIN todo'[t] : todo'[t][i].op = "unlock" => i = 2
                BY <2>9, <3>1, <4>1 DEF Rehead
            <4> QED
                BY <4>2
        <3> QED
            BY <2>5, <3>1, <3>2, <3>3
    <2>10. \A i \in DOMAIN todo'[t] :
               todo'[t][i].op = "unlock"
               => /\ writer = t
                  /\ i = 1 \/ (i = 2 /\ todo'[t][1].op \in {"stop", "drain"})
        BY <2>6, <2>7, <2>9
    <2>11. writer = t => \E i \in DOMAIN todo'[t] : todo'[t][i].op = "unlock"
        BY <1>1, <2>9
    <2> QED
        BY <1>1, <2>1, <2>8, <2>10, <2>11
<1> QED
    BY <1>2, <1>3, <1>4
FolderSteps == {"remove", "add"}

\* the folders that are still to be removed or added
FolderFacts ==
    \A t \in Tasks : \A i \in DOMAIN todo[t] :
        /\ todo[t][i].op = "remove" => servers[todo[t][i].on] # None
        /\ todo[t][i].op = "add" => servers[todo[t][i].on] = None
        /\ todo[t][i].op \in FolderSteps
           => \A j \in DOMAIN todo[t] :
                  todo[t][j].op \in FolderSteps /\ todo[t][j].on = todo[t][i].on
                  => i = j

LEMMA FoldersProceed ==
    ASSUME Kept, Bar, Owners, NEW t \in Tasks, Proceeds(t)
    PROVE  /\ \A u, v \in Tasks : Moves(u)' /\ Moves(v)' => u = v
           /\ FolderFacts'
<1>1. PICK new : Turned(t, new)
    BY ProceedsTurns
<1>2. \A i \in DOMAIN new : new[i].op \notin FolderSteps
    BY <1>1 DEF Turned, Fits, FolderSteps
<1>3. /\ Spliced(todo'[t], new, todo[t])
      /\ \A u \in Tasks : u # t => todo'[u] = todo[u]
    BY <1>1, StepsAfter
<1>4. \A i \in DOMAIN todo'[t] : todo'[t][i].op \in FolderSteps
          => \E j \in DOMAIN todo[t] :
                 j # 1 /\ i = Len(new) + j - 1 /\ todo'[t][i] = todo[t][j]
    BY <1>2, <1>3 DEF Spliced
<1>5. \A u \in Tasks : Moves(u)' => Moves(u)
    <2>1. Moves(t)' => Moves(t)
        BY <1>4 DEF Moves, FolderSteps
    <2> QED
        BY <1>3, <2>1 DEF Moves
<1>6. FolderFacts /\ \A u, v \in Tasks : Moves(u) /\ Moves(v) => u = v
    BY Zenon DEF Owners, FolderFacts, FolderSteps
<1>7. \A i \in DOMAIN todo'[t] : todo'[t][i].op \in FolderSteps
          => \A j \in DOMAIN todo'[t] :
                 todo'[t][j].op \in FolderSteps /\ todo'[t][j].on = todo'[t][i].on
                 => i = j
    <2> TAKE i \in DOMAIN todo'[t]
    <2> HAVE todo'[t][i].op \in FolderSteps
    <2> TAKE j \in DOMAIN todo'[t]
    <2> HAVE todo'[t][j].op \in FolderSteps /\ todo'[t][j].on = todo'[t][i].on
    <2>1. PICK k \in DOMAIN todo[t] : i = Len(new) + k - 1 /\ todo'[t][i] = todo[t][k]
        BY <1>4, Zenon
    <2>2. PICK m \in DOMAIN todo[t] : j = Len(new) + m - 1 /\ todo'[t][j] = todo[t][m]
        BY <1>4, Zenon
    <2>3. k = m
        BY <1>6, <2>1, <2>2 DEF FolderFacts
    <2> QED
        BY <2>1, <2>2, <2>3
\* what the folders of the steps that are left have
<1>8. \A u \in Tasks : \A i \in DOMAIN todo'[u] : todo'[u][i].op \in FolderSteps
          => servers'[todo'[u][i].on] = servers[todo'[u][i].on]
    <2>1. CASE Now(t).op \in FolderSteps
        <3>1. /\ 1 \in DOMAIN todo[t] /\ Now(t) = todo[t][1] /\ Now(t).on \in Folders
            BY <2>1, ActionOf, HeadShape DEF OfKind, FolderSteps
        <3>2. Moves(t)
            BY <2>1, <3>1 DEF Moves, FolderSteps
        <3>3. \A u \in Tasks : Moves(u)' => u = t
            BY <1>5, <1>6, <3>2
        <3>4. \A i \in DOMAIN todo'[t] : todo'[t][i].op \in FolderSteps
                  => todo'[t][i].on # Now(t).on
            BY <1>4, <1>6, <2>1, <3>1 DEF FolderFacts
        <3>5. \A f : f # Now(t).on => servers'[f] = servers[f]
            <4>1. Removes(t) \/ Adds(t)
                BY <2>1, ActionOf DEF FolderSteps
            <4>2. \E v : servers' = [servers EXCEPT ![Now(t).on] = v]
                BY <4>1, Zenon DEF Removes, Adds
            <4>3. DOMAIN servers = Folders
                BY DEF Kept, Kinds
            <4> QED
                BY <4>2, <4>3
        <3> QED
            BY <3>3, <3>4, <3>5 DEF Moves, FolderSteps
    <2>2. CASE Now(t).op \notin FolderSteps
        <3>1. servers' = servers
            BY <2>2, ActionOf, TableFrame DEF FolderSteps
        <3> QED
            BY <3>1
    <2> QED
        BY <2>1, <2>2
<1>9. FolderFacts'
    <2>1. \A u \in Tasks : \A i \in DOMAIN todo'[u] : todo'[u][i].op \in FolderSteps
              => \E j \in DOMAIN todo[u] : todo'[u][i] = todo[u][j]
        BY <1>3, <1>4
    <2>2. \A u \in Tasks : \A i \in DOMAIN todo'[u] :
              /\ todo'[u][i].op = "remove" => servers[todo'[u][i].on] # None
              /\ todo'[u][i].op = "add" => servers[todo'[u][i].on] = None
        BY <1>6, <2>1 DEF FolderFacts, FolderSteps
    <2>3. \A u \in Tasks : \A i \in DOMAIN todo'[u] :
              /\ todo'[u][i].op = "remove" => servers'[todo'[u][i].on] # None
              /\ todo'[u][i].op = "add" => servers'[todo'[u][i].on] = None
        BY <1>8, <2>2 DEF FolderSteps
    <2>4. \A u \in Tasks : \A i \in DOMAIN todo'[u] : todo'[u][i].op \in FolderSteps
              => \A j \in DOMAIN todo'[u] :
                     todo'[u][j].op \in FolderSteps /\ todo'[u][j].on = todo'[u][i].on
                     => i = j
        <3> TAKE u \in Tasks
        <3>1. CASE u = t
            BY <1>7, <3>1
        <3>2. CASE u # t
            BY <1>3, <1>6, <3>2 DEF FolderFacts
        <3> QED
            BY <3>1, <3>2
    <2> QED
        BY <2>3, <2>4 DEF FolderFacts
<1> QED
    BY <1>5, <1>6, <1>9

Belongs(s) == \/ s \in Known \cup late
              \/ writer # None /\ Now(writer) = Stop(s)

\* whose server runs
LEMMA BelongsProceeds ==
    ASSUME Kept, Bar, Owners, NEW t \in Tasks, Proceeds(t),
           NEW s \in Servers, port'[s] # None
    PROVE  Belongs(s)'
<1>1. /\ port \in [Servers -> Ports \cup {None}] /\ writer \in Tasks \cup {None}
      /\ \A u \in Servers : port[u] # None => Belongs(u)
    BY DEF Owners, Belongs, Kept, Kinds
<1>2. todo[t] # <<>> /\ \A u \in Tasks : u # t => todo'[u] = todo[u]
    BY ActionOf, ProceedsTurns, StepsAfter
<1>3. \A u : Stop(u).op = "stop" /\ Stop(u).server = u
    BY DEF Stop
<1>4. CASE Removes(t)
    <2>1. port[s] # None /\ late' = late
        BY <1>4, EngineFrame, ActionOf
    <2>2. writer = None /\ writer' = t
        BY <1>4, Zenon DEF Removes
    <2>3. s \in Known \cup late
        BY <1>1, <2>1, <2>2 DEF Belongs
    <2>4. Now(t)' = Stop(servers[Now(t).on])
        <3> DEFINE new == <<Stop(servers[Now(t).on]), Unlock>>
        <3>1. Turned(t, new)
            BY <1>4, RemovesTurns
        <3>2. new # <<>> /\ new[1] = Stop(servers[Now(t).on])
            OBVIOUS
        <3> HIDE DEF new
        <3>3. todo'[t][1] = new[1]
            BY <3>1, <3>2, HeadAfter
        <3> QED
            BY <3>2, <3>3 DEF Now
    <2>5. s \in Known => s = servers[Now(t).on] \/ s \in Known'
        BY <1>4, KnownRemoves
    <2>6. writer' # None /\ (s = servers[Now(t).on] => Now(writer)' = Stop(s))
        BY <2>2, <2>4, NoneAssumption
    <2> QED
        BY <2>1, <2>3, <2>5, <2>6 DEF Belongs
<1>5. CASE Binds(t)
    <2>1. Known' = Known /\ writer' = writer /\ Now(t).op = "bind"
        BY <1>5, TableFrame, ActionOf
    <2>2. \/ port' = port /\ late' = late
          \/ /\ \E p : port' = [port EXCEPT ![Now(t).server] = p]
             /\ late' = IF Now(t).server \in Known THEN late ELSE late \cup {Now(t).server}
        BY <1>5, Zenon DEF Binds
    <2>3. late \subseteq late'
        BY <2>2
    <2>4. Now(t).server \in Servers
        BY <1>2, <2>1, HeadShape DEF OfServer
    <2>5. CASE port[s] = None
        <3>1. s = Now(t).server /\ s \in Known \cup late'
            BY <1>1, <2>2, <2>4, <2>5
        <3> QED
            BY <2>1, <3>1 DEF Belongs
    <2>6. CASE port[s] # None
        <3>1. \/ s \in Known \cup late
              \/ writer # None /\ Now(writer) = Stop(s)
            BY <1>1, <2>6 DEF Belongs
        <3>2. writer # None /\ Now(writer) = Stop(s) => Now(writer)' = Now(writer)
            BY <1>1, <1>2, <1>3, <2>1 DEF Now
        <3> QED
            BY <2>1, <2>3, <3>1, <3>2 DEF Belongs
    <2> QED
        BY <2>5, <2>6
<1>6. CASE StopTakes(t)
    <2>1. Known' = Known /\ writer' = writer /\ Now(t).op = "stop"
        BY <1>6, TableFrame, ActionOf
    <2>2. /\ port' = [port EXCEPT ![Now(t).server] = None]
          /\ late' = late \ {Now(t).server}
        BY <1>6, Zenon DEF StopTakes
    <2>3. Now(t).server \in Servers
        BY <1>2, <2>1, HeadShape DEF OfServer
    <2>4. s # Now(t).server /\ port[s] # None
        BY <1>1, <2>2, <2>3
    <2>5. \/ s \in Known \cup late
          \/ writer # None /\ Now(writer) = Stop(s)
        BY <1>1, <2>4 DEF Belongs
    <2>6. writer # None /\ Now(writer) = Stop(s) => Now(writer)' = Now(writer)
        <3>1. ASSUME Now(t) = Stop(s) PROVE FALSE
            BY <1>3, <2>4, <3>1
        <3> QED
            BY <1>1, <1>2, <2>1, <3>1 DEF Now
    <2> QED
        BY <2>1, <2>2, <2>4, <2>5, <2>6 DEF Belongs
<1>7. CASE ~Removes(t) /\ ~Binds(t) /\ ~StopTakes(t)
    <2>1. port' = port /\ late' = late
        BY <1>7, EngineFrame
    <2>2. Known \subseteq Known'
        BY <1>7, TableFrame, KnownAdds
    <2>3. \/ s \in Known \cup late
          \/ writer # None /\ Now(writer) = Stop(s)
        BY <1>1, <2>1 DEF Belongs
    <2>4. ASSUME writer # None, Now(writer) = Stop(s)
          PROVE  writer' = writer /\ Now(writer)' = Now(writer)
        <3>1. CASE writer = t
            <4>1. Now(t).op = "stop" /\ Now(t).server = s
                BY <1>3, <2>4, <3>1
            <4>2. StopFindsNothing(t)
                BY <1>7, <4>1, ActionOf
            <4>3. port[s] = None
                BY <4>1, <4>2 DEF StopFindsNothing
            <4> QED
                BY <2>1, <4>3
        <3>2. CASE writer # t
            <4>1. ~Unlocks(t)
                <5>1. ASSUME Unlocks(t) PROVE FALSE
                    <6>1. 1 \in DOMAIN todo[t] /\ todo[t][1].op = "unlock"
                        BY <1>2, <5>1, ActionOf, HeadShape
                    <6> QED
                        BY <3>2, <6>1 DEF Owners
                <5> QED
                    BY <5>1
            <4>2. writer' = writer
                <5>1. Adds(t) => writer' = writer
                    BY Zenon DEF Adds
                <5> QED
                    BY <1>7, <4>1, <5>1, TableFrame
            <4> QED
                BY <1>1, <1>2, <2>4, <3>2, <4>2 DEF Now
        <3> QED
            BY <3>1, <3>2
    <2> QED
        BY <2>1, <2>2, <2>3, <2>4 DEF Belongs
<1> QED
    BY <1>4, <1>5, <1>6, <1>7

LEMMA OwnersProceeds ==
    ASSUME Kept, Bar, Owners, NEW t \in Tasks, Proceeds(t)
    PROVE  Owners'
<1>1. /\ \A u \in Tasks : \A i \in DOMAIN todo'[u] :
             todo'[u][i].op = "unlock"
             => /\ writer' = u
                /\ i = 1 \/ (i = 2 /\ todo'[u][1].op \in {"stop", "drain"})
      /\ writer' # None
         => \E i \in DOMAIN todo'[writer'] : todo'[writer'][i].op = "unlock"
    BY UnlockProceeds
<1>2. /\ \A u, v \in Tasks : Moves(u)' /\ Moves(v)' => u = v
      /\ FolderFacts'
    BY FoldersProceed
<1>3. \A s \in Servers : port'[s] # None => Belongs(s)'
    BY BelongsProceeds
<1> QED
    BY <1>1, <1>2, <1>3, Zenon DEF Owners, FolderFacts, FolderSteps, Belongs
LEMMA OwnersBegin ==
    ASSUME Kept, Owners, NEW t \in Tasks, NEW job, Asking(t, job)
    PROVE  Owners'
<1>1. /\ todo'[t] = job /\ todo[t] = <<>> /\ DOMAIN todo[t] = {}
      /\ \A u \in Tasks : u # t => todo'[u] = todo[u]
      /\ servers' = servers /\ writer' = writer /\ port' = port /\ late' = late
      /\ \A i \in DOMAIN job : job[i] \in Asked
    BY DEF Asking, table, engine
<1>2. \A i \in DOMAIN job : job[i].op # "unlock"
    BY <1>1, AskedShape DEF AskedOps
<1>3. /\ \A i \in DOMAIN job :
             /\ job[i].op = "remove" => servers[job[i].on] # None
             /\ job[i].op = "add" => servers[job[i].on] = None
             /\ job[i].op \in FolderSteps => \A u \in Tasks : ~Moves(u)
             /\ job[i].op \in FolderSteps
                => \A j \in DOMAIN job :
                       job[j].op \in FolderSteps /\ job[j].on = job[i].on => i = j
    BY Zenon DEF Asking, Sensible, FolderSteps
<1>4. /\ writer # None => \E i \in DOMAIN todo[writer] : todo[writer][i].op = "unlock"
      /\ writer \in Tasks \cup {None}
      /\ \A u \in Tasks : \A i \in DOMAIN todo[u] :
             todo[u][i].op = "unlock"
             => /\ writer = u
                /\ i = 1 \/ (i = 2 /\ todo[u][1].op \in {"stop", "drain"})
      /\ \A u, v \in Tasks : Moves(u) /\ Moves(v) => u = v
      /\ \A s \in Servers : port[s] # None => Belongs(s)
    BY DEF Owners, Kept, Kinds, Belongs
<1>5. FolderFacts
    BY Zenon DEF Owners, FolderFacts, FolderSteps
<1>6. writer # None => writer # t /\ todo'[writer] = todo[writer]
    BY <1>1, <1>4
<1>7. FolderFacts'
    BY <1>1, <1>3, <1>5 DEF FolderFacts
<1>8. \A u, v \in Tasks : Moves(u)' /\ Moves(v)' => u = v
    <2>1. \A u \in Tasks : u # t => (Moves(u)' <=> Moves(u))
        BY <1>1 DEF Moves
    <2>2. Moves(t)' => \A u \in Tasks : ~Moves(u)
        BY <1>1, <1>3 DEF Moves, FolderSteps
    <2> QED
        BY <1>4, <2>1, <2>2
<1>9. \A s \in Servers : port'[s] # None => Belongs(s)'
    <2>1. Known' = Known
        BY <1>1 DEF Known
    <2>2. writer # None => Now(writer)' = Now(writer)
        BY <1>1, <1>6 DEF Now
    <2> QED
        BY <1>1, <1>4, <2>1, <2>2 DEF Belongs
<1>10. /\ \A u \in Tasks : \A i \in DOMAIN todo'[u] :
              todo'[u][i].op = "unlock"
              => /\ writer' = u
                 /\ i = 1 \/ (i = 2 /\ todo'[u][1].op \in {"stop", "drain"})
       /\ writer' # None
          => \E i \in DOMAIN todo'[writer'] : todo'[writer'][i].op = "unlock"
    BY <1>1, <1>2, <1>4, <1>6
<1> QED
    BY <1>7, <1>8, <1>9, <1>10, Zenon DEF Owners, FolderFacts, FolderSteps, Belongs

\* a request holds the lock of the map only to read
LEMMA OwnersCancel ==
    ASSUME Kept, Owners, NEW t \in Tasks, Cancel(t)
    PROVE  Owners'
<1>1. /\ t \in Requests /\ todo'[t] = <<>> /\ DOMAIN todo'[t] = {}
      /\ \A u \in Tasks : u # t => todo'[u] = todo[u]
    BY CancelDrops DEF Dropped
<1>2. servers' = servers /\ writer' = writer /\ port' = port /\ late' = late
    BY Zenon DEF Cancel, table
<1>3. \A i \in DOMAIN todo[t] : todo[t][i].op # "unlock"
    BY <1>1 DEF Kept, Shaped, Lasting
<1>4. /\ writer # None => \E i \in DOMAIN todo[writer] : todo[writer][i].op = "unlock"
      /\ writer \in Tasks \cup {None}
      /\ \A u \in Tasks : \A i \in DOMAIN todo[u] :
             todo[u][i].op = "unlock"
             => /\ writer = u
                /\ i = 1 \/ (i = 2 /\ todo[u][1].op \in {"stop", "drain"})
      /\ \A u, v \in Tasks : Moves(u) /\ Moves(v) => u = v
      /\ \A s \in Servers : port[s] # None => Belongs(s)
    BY DEF Owners, Kept, Kinds, Belongs
<1>5. FolderFacts
    BY Zenon DEF Owners, FolderFacts, FolderSteps
<1>6. writer # None => writer # t /\ todo'[writer] = todo[writer]
    BY <1>1, <1>3, <1>4
<1>7. FolderFacts'
    BY <1>1, <1>2, <1>5 DEF FolderFacts
<1>8. \A u, v \in Tasks : Moves(u)' /\ Moves(v)' => u = v
    <2>1. \A u \in Tasks : Moves(u)' => Moves(u)
        BY <1>1 DEF Moves
    <2> QED
        BY <1>4, <2>1
<1>9. \A s \in Servers : port'[s] # None => Belongs(s)'
    <2>1. Known' = Known
        BY <1>2 DEF Known
    <2>2. writer # None => Now(writer)' = Now(writer)
        BY <1>2, <1>6 DEF Now
    <2> QED
        BY <1>2, <1>4, <2>1, <2>2 DEF Belongs
<1>10. /\ \A u \in Tasks : \A i \in DOMAIN todo'[u] :
              todo'[u][i].op = "unlock"
              => /\ writer' = u
                 /\ i = 1 \/ (i = 2 /\ todo'[u][1].op \in {"stop", "drain"})
       /\ writer' # None
          => \E i \in DOMAIN todo'[writer'] : todo'[writer'][i].op = "unlock"
    BY <1>1, <1>2, <1>4, <1>6
<1> QED
    BY <1>7, <1>8, <1>9, <1>10, Zenon DEF Owners, FolderFacts, FolderSteps, Belongs
---------------------------------------------------------------------------
(* The settings *)

\* a server that runs, or is about to, with another setting than the one in force
Stale(s) ==
    \/ port[s] # None /\ using[s] # config
    \/ \E t \in Tasks : /\ Does(t, "bind") /\ Now(t).server = s
                        /\ Now(t).setting # config

Bound == \A t \in Tasks : Does(t, "bind") => mutex[Now(t).server] = t
Renewed == \A s \in Known : Stale(s) => s \in overtaken \/ Pending(s)

LEMMA RenewalsParts == Renewals <=> Bound /\ Renewed
BY DEF Renewals, Bound, Renewed, Stale

LEMMA ConfigFrame ==
    ASSUME NEW t \in Tasks, Proceeds(t), ~Configures(t)
    PROVE  config' = config /\ down' = down /\ idle' = idle
<1>1. LooksUp(t) => config' = config /\ down' = down /\ idle' = idle
    BY LooksUpFrame DEF rest
<1> QED
    BY <1>1, Zenon
    DEF Proceeds, Removes, Unlocks, Adds, LooksAt, StartFindsRunning, StartTakes, Binds,
        StopFindsNothing, StopTakes, StopAnswers, RefreshBegins,
        Gathers, Gathered, ShowStatus, ClearStatus, Begins, Records, rest

LEMMA OvertakenFrame ==
    ASSUME NEW t \in Tasks, Proceeds(t), ~StartTakes(t)
    PROVE  /\ StopTakes(t) \/ overtaken' = overtaken
           /\ Binds(t) \/ mutex' = mutex
<1>1. LooksUp(t) => overtaken' = overtaken /\ mutex' = mutex
    BY LooksUpFrame DEF engine
<1> QED
    BY <1>1, Zenon
    DEF Proceeds, Configures, Removes, Unlocks, Adds, LooksAt, StartFindsRunning, Binds,
        StopFindsNothing, StopTakes, StopAnswers, RefreshBegins,
        Gathers, Gathered, ShowStatus, ClearStatus, Begins, Records, engine

\* who binds had been binding before, or has begun now
LEMMA Binders ==
    ASSUME Kept, Bar, Owners, NEW t \in Tasks, Proceeds(t),
           NEW u \in Tasks, Does(u, "bind")'
    PROVE  \/ u # t /\ Does(u, "bind") /\ Now(u)' = Now(u)
           \/ u = t /\ StartTakes(t) /\ Now(t)' = Binding(t)
<1>1. PICK new : Turned(t, new)
    BY ProceedsTurns
<1>2. CASE u # t
    BY <1>1, <1>2, StepsAfter DEF Does, Now
<1>3. CASE u = t
    <2>1. new # <<>> /\ todo'[t][1] = new[1] /\ new[1].op = "bind"
        BY <1>1, <1>3, HeadAfter DEF Does, Passing
    <2>2. Now(t).op = "start"
        <3>1. new \in Seq(Steps) /\ 1 \in DOMAIN new
            BY <1>1, <2>1 DEF Turned, Fits
        <3> QED
            BY <1>1, <2>1, <3>1 DEF Turned, Fits
    <2>3. StartTakes(t)
        <3>1. StartFindsRunning(t) => Turned(t, <<>>)
            BY EndingTurns DEF Ending
        <3>2. Turned(t, <<>>) => FALSE
            BY <1>3, HeadAfter DEF Does, Passing
        <3> QED
            BY <2>2, <3>1, <3>2, ActionOf
    <2>4. Turned(t, <<Binding(t)>>)
        BY <2>3, StartTakesTurns
    <2>5. Now(t)' = Binding(t)
        BY <2>4, Reheaded DEF Rehead, Now
    <2> QED
        BY <1>3, <2>3, <2>5
<1> QED
    BY <1>2, <1>3

LEMMA BoundProceeds ==
    ASSUME Kept, Bar, Owners, Bound, NEW t \in Tasks, Proceeds(t)
    PROVE  Bound'
<1> SUFFICES ASSUME NEW u \in Tasks, Does(u, "bind")'
             PROVE  mutex'[Now(u)'.server] = u
    BY DEF Bound
<1>1. mutex \in [Servers -> Tasks \cup {None}] /\ None \notin Tasks
    BY NoneAssumption DEF Kept, Kinds
<1>2. CASE u = t
    <2>1. StartTakes(t) /\ Now(t)' = Binding(t)
        BY <1>2, Binders
    <2>2. mutex' = [mutex EXCEPT ![Now(t).server] = t] /\ Now(t).server \in Servers
        BY <2>1, ActionOf, HeadShape DEF StartTakes, OfServer
    <2>3. Binding(t).server = Now(t).server
        BY DEF Binding
    <2> QED
        BY <1>1, <1>2, <2>1, <2>2, <2>3
<1>3. CASE u # t
    <2>1. Does(u, "bind") /\ Now(u)' = Now(u)
        BY <1>3, Binders
    <2>2. mutex[Now(u).server] = u /\ Now(u).server \in Servers
        BY <2>1, HeadShape DEF Bound, Does, Now, OfServer
    <2>3. CASE StartTakes(t)
        <3>1. /\ mutex' = [mutex EXCEPT ![Now(t).server] = t]
              /\ mutex[Now(t).server] = None
            BY <2>3, Zenon DEF StartTakes
        <3> QED
            BY <1>1, <2>1, <2>2, <3>1
    <2>4. CASE Binds(t)
        <3>1. mutex' = [mutex EXCEPT ![Now(t).server] = None] /\ Does(t, "bind")
            BY <2>4, Zenon DEF Binds
        <3>2. mutex[Now(t).server] = t
            BY <3>1 DEF Bound
        <3> QED
            BY <1>1, <1>3, <2>1, <2>2, <3>1, <3>2
    <2>5. CASE ~StartTakes(t) /\ ~Binds(t)
        BY <2>1, <2>2, <2>5, OvertakenFrame
    <2> QED
        BY <2>3, <2>4, <2>5
<1> QED
    BY <1>2, <1>3

\* what makes a server pending
Renewing(e, s) ==
    \/ e.op = "reconfigure"
    \/ e = Stop(s)
    \/ \E c \in Settings : e = IfRunning(s, Restart(s, c), <<>>)

LEMMA PendingRenews ==
    \A s : Pending(s) <=> \E t \in Tasks \ Requests : \E i \in DOMAIN todo[t] :
                              Renewing(todo[t][i], s)
BY Zenon DEF Pending, Renewing

LEMMA PendingStays ==
    ASSUME Kept, NEW t \in Tasks, NEW new, Turned(t, new), NEW s, Pending(s),
           t \in Requests \/ ~Renewing(Now(t), s)
    PROVE  Pending(s)'
<1>1. PICK u \in Tasks \ Requests : \E i \in DOMAIN todo[u] : Renewing(todo[u][i], s)
    BY PendingRenews
<1>2. PICK i \in DOMAIN todo[u] : Renewing(todo[u][i], s)
    BY <1>1
<1>3. \E j \in DOMAIN todo'[u] : todo'[u][j] = todo[u][i]
    <2>1. CASE u # t
        BY <2>1, StepsAfter
    <2>2. CASE u = t
        <3>1. i # 1
            BY <1>2, <2>2 DEF Now
        <3>2. Spliced(todo'[t], new, todo[t])
            BY StepsAfter
        <3> QED
            BY <2>2, <3>1, <3>2 DEF Spliced
    <2> QED
        BY <2>1, <2>2
<1>4. PICK j \in DOMAIN todo'[u] : todo'[u][j] = todo[u][i]
    BY <1>3
<1>5. Renewing(todo'[u][j], s)
    BY <1>2, <1>4
<1> QED
    BY <1>5, Zenon DEF Pending, Renewing

LEMMA PendingGiven ==
    ASSUME Kept, NEW t \in Tasks, NEW new, Turned(t, new), NEW s,
           t \notin Requests, NEW i \in DOMAIN new, Renewing(new[i], s)
    PROVE  Pending(s)'
<1>1. Spliced(todo'[t], new, todo[t])
    BY StepsAfter
<1>2. i \in DOMAIN todo'[t] /\ todo'[t][i] = new[i]
    BY <1>1 DEF Spliced
<1>3. Renewing(todo'[t][i], s)
    BY <1>2
<1> QED
    BY <1>2, <1>3, Zenon DEF Pending, Renewing
\* a step that starts nothing makes nothing stale
LEMMA StaleStays ==
    ASSUME Kept, Bar, Owners, NEW t \in Tasks, Proceeds(t),
           ~Configures(t), ~StartTakes(t), NEW s \in Servers, Stale(s)'
    PROVE  Stale(s)
<1>1. /\ config' = config /\ port \in [Servers -> Ports \cup {None}]
      /\ using \in [Servers -> Settings \cup {None}]
    BY ConfigFrame DEF Kept, Kinds
<1>2. CASE \E u \in Tasks : /\ Does(u, "bind")' /\ Now(u)'.server = s
                            /\ Now(u)'.setting # config'
    <2>1. PICK u \in Tasks : /\ Does(u, "bind")' /\ Now(u)'.server = s
                             /\ Now(u)'.setting # config'
        BY <1>2
    <2>2. Does(u, "bind") /\ Now(u)' = Now(u)
        BY <2>1, Binders
    <2> QED
        BY <1>1, <2>1, <2>2 DEF Stale
<1>3. CASE port'[s] # None /\ using'[s] # config'
    <2>1. CASE Binds(t)
        <3>1. /\ Does(t, "bind")
              /\ \/ port' = port /\ using' = using
                 \/ /\ \E p : port' = [port EXCEPT ![Now(t).server] = p]
                    /\ using' = [using EXCEPT ![Now(t).server] = Now(t).setting]
            BY <2>1, Zenon DEF Binds
        <3>2. CASE s = Now(t).server /\ port' # port
            <4>1. using'[s] = Now(t).setting
                BY <1>1, <3>1, <3>2
            <4> QED
                BY <1>1, <1>3, <3>1, <3>2, <4>1 DEF Stale
        <3>3. CASE ~(s = Now(t).server /\ port' # port)
            <4>1. \/ port' = port /\ using'[s] = using[s]
                  \/ port'[s] = port[s] /\ using'[s] = using[s]
                  \/ s = Now(t).server /\ using'[s] = Now(t).setting
                BY <1>1, <3>1, <3>3
            <4> QED
                BY <1>1, <1>3, <3>1, <4>1 DEF Stale
        <3> QED
            BY <3>2, <3>3
    <2>2. CASE StopTakes(t)
        <3>1. /\ port' = [port EXCEPT ![Now(t).server] = None]
              /\ using' = [using EXCEPT ![Now(t).server] = None]
            BY <2>2, Zenon DEF StopTakes
        <3> QED
            BY <1>1, <1>3, <3>1 DEF Stale
    <2>3. CASE ~Binds(t) /\ ~StopTakes(t)
        BY <1>1, <1>3, <2>3, EngineFrame DEF Stale
    <2> QED
        BY <2>1, <2>2, <2>3
<1> QED
    BY <1>2, <1>3 DEF Stale

\* nothing that is stopped and not being started is stale
LEMMA NotStale ==
    ASSUME Kept, Bound, NEW s \in Servers, port[s] = None, mutex[s] = None
    PROVE  ~Stale(s)
BY NoneAssumption DEF Stale, Bound

LEMMA RenewedProceeds ==
    ASSUME Kept, Bar, Owners, Bound, Renewed, NEW t \in Tasks, Proceeds(t)
    PROVE  Renewed'
<1> SUFFICES ASSUME NEW s \in Known', Stale(s)'
             PROVE  s \in overtaken' \/ Pending(s)'
    BY DEF Renewed
<1>1. PICK new : Turned(t, new)
    BY ProceedsTurns
<1>2. /\ Known \in SUBSET Servers /\ made \in Nat
      /\ todo[t] # <<>> /\ Now(t) \in Steps
    BY KnownMade, ActionOf, HeadShape
<1>3. s \in Servers
    <2>1. Kept'
        BY KeptProceeds
    <2>2. Known' = Range(servers') \ {None} /\ servers' \in [Folders -> Servers \cup {None}]
        BY <2>1 DEF Known, Kept, Kinds
    <2> QED
        BY <2>2 DEF Range
\* the server had been known
<1>4. s \in Known
    <2>1. CASE Adds(t)
        <3>1. Known' = Known \cup {made'} /\ made' = made + 1
            BY <2>1, KnownAdds DEF Adds
        <3>2. ASSUME s = made' PROVE FALSE
            <4>1. made < s /\ port[s] = None
                BY <1>2, <1>3, <3>1, <3>2 DEF Kept, Created, Servers
            <4>2. Stale(s)
                BY <1>3, <2>1, StaleStays, ActionOf
            <4>3. PICK u \in Tasks : Does(u, "bind") /\ Now(u).server = s
                BY <4>1, <4>2 DEF Stale
            <4>4. Now(u).server <= made
                BY <4>3, HeadShape DEF Does, Now, OfServer
            <4> QED
                BY <1>2, <3>1, <3>2, <4>3, <4>4
        <3> QED
            BY <3>1, <3>2
    <2>2. CASE Removes(t)
        BY <2>2, KnownRemoves
    <2>3. CASE ~Adds(t) /\ ~Removes(t)
        BY <2>3, TableFrame
    <2> QED
        BY <2>1, <2>2, <2>3
<1>5. CASE Configures(t)
    <2> DEFINE e == [op |-> "reconfigure"]
               one == <<e>>
    <2>1. Turned(t, one)
        BY <1>5, ConfiguresTurns
    <2>2. t \notin Requests
        <3>1. todo[t][1].op = "settings" /\ 1 \in DOMAIN todo[t]
            BY <1>2, <1>5, ActionOf, HeadShape
        <3> QED
            BY <3>1 DEF Kept, Shaped, Lasting
    <2>3. 1 \in DOMAIN one /\ one[1] = e
        OBVIOUS
    <2>4. Renewing(e, s)
        BY DEF Renewing
    <2> HIDE DEF e, one
    <2> QED
        BY <2>1, <2>2, <2>3, <2>4, PendingGiven
<1>6. CASE StartTakes(t)
    <2>1. /\ Now(t).server \in Servers /\ mutex[Now(t).server] = None
          /\ port[Now(t).server] = None
        BY <1>2, <1>6, ActionOf, HeadShape DEF StartTakes, OfServer
    <2>2. overtaken' = IF Binding(t).setting = config
                       THEN overtaken \ {Now(t).server}
                       ELSE overtaken \cup {Now(t).server}
        BY <1>6, Zenon DEF StartTakes, Binding
    <2>3. /\ port' = port /\ using' = using /\ config' = config
          /\ Binding(t).server = Now(t).server
        BY <1>6, EngineFrame, ConfigFrame, ActionOf DEF Binding
    <2>4. Stale(s) \/ (s = Now(t).server /\ Binding(t).setting # config)
        <3>1. CASE port'[s] # None /\ using'[s] # config'
            BY <2>3, <3>1 DEF Stale
        <3>2. CASE \E u \in Tasks : /\ Does(u, "bind")' /\ Now(u)'.server = s
                                    /\ Now(u)'.setting # config'
            <4>1. PICK u \in Tasks : /\ Does(u, "bind")' /\ Now(u)'.server = s
                                     /\ Now(u)'.setting # config'
                BY <3>2
            <4>2. \/ Does(u, "bind") /\ Now(u)' = Now(u)
                  \/ Now(u)' = Binding(t)
                BY <4>1, Binders
            <4> QED
                BY <2>3, <4>1, <4>2 DEF Stale
        <3> QED
            BY <3>1, <3>2 DEF Stale
    <2>5. CASE s = Now(t).server
        <3>1. ~Stale(s)
            BY <2>1, <2>5, NotStale
        <3> QED
            BY <2>2, <2>4, <2>5, <3>1
    <2>6. CASE s # Now(t).server
        <3>1. s \in overtaken \/ Pending(s)
            BY <1>4, <2>4, <2>6 DEF Renewed
        <3>2. ~Renewing(Now(t), s)
            BY <1>6, ActionOf DEF Renewing, Stop, IfRunning
        <3>3. Pending(s) => Pending(s)'
            BY <1>1, <3>2, PendingStays
        <3> QED
            BY <2>2, <2>6, <3>1, <3>3
    <2> QED
        BY <2>5, <2>6
<1>7. CASE ~Configures(t) /\ ~StartTakes(t)
    <2>1. Stale(s) /\ (s \in overtaken \/ Pending(s))
        BY <1>3, <1>4, <1>7, StaleStays DEF Renewed
    <2>2. s \in overtaken => s \in overtaken'
        <3>1. CASE StopTakes(t)
            <4>1. /\ port' = [port EXCEPT ![Now(t).server] = None]
                  /\ mutex[Now(t).server] = None /\ mutex' = mutex
                  /\ overtaken' = overtaken \ {Now(t).server}
                BY <3>1, Zenon DEF StopTakes
            <4>2. ASSUME s = Now(t).server PROVE FALSE
                <5>1. port'[s] = None /\ mutex'[s] = None
                    BY <1>3, <4>1, <4>2 DEF Kept, Kinds
                <5>2. Kept' /\ Bound'
                    BY KeptProceeds, BoundProceeds
                <5>3. \A u \in Tasks : ~(Does(u, "bind")' /\ Now(u)'.server = s)
                    BY <5>1, <5>2, NoneAssumption DEF Bound
                <5> QED
                    BY <5>1, <5>3 DEF Stale
            <4> QED
                BY <4>1, <4>2
        <3>2. CASE ~StopTakes(t)
            BY <1>7, <3>2, OvertakenFrame
        <3> QED
            BY <3>1, <3>2
    <2>3. ASSUME Pending(s) PROVE Pending(s)'
        <3>1. CASE t \in Requests \/ ~Renewing(Now(t), s)
            BY <1>1, <2>3, <3>1, PendingStays
        <3>2. CASE t \notin Requests /\ Now(t).op = "reconfigure"
            <4>1. LooksUp(t)
                BY <3>2, ActionOf
            <4>2. PICK q : Turns(t, q) /\ Fits(Now(t), q, made) /\ Restarts(q)
                BY <3>2, <4>1, LooksUpTurns
            <4>3. Turned(t, q)
                <5>1. made' = made
                    BY <4>1, LooksUpFrame
                <5> QED
                    BY <4>2, <5>1 DEF Turned
            <4>4. PICK i \in DOMAIN q : q[i] = IfRunning(s, Restart(s, config), <<>>)
                BY <1>4, <4>2, Zenon DEF Restarts
            <4>5. config \in Settings
                BY DEF Kept, Kinds
            <4>6. Renewing(q[i], s)
                BY <4>4, <4>5, Zenon DEF Renewing
            <4> QED
                BY <3>2, <4>3, <4>6, PendingGiven
        <3>3. CASE t \notin Requests /\ Now(t) = Stop(s)
            <4>1. Now(t).op = "stop" /\ Now(t).server = s
                BY <3>3 DEF Stop
            <4>2. mutex[s] = None
                BY <4>1, ActionOf DEF StopFindsNothing, StopTakes
            <4>3. CASE StopFindsNothing(t)
                <5>1. port[s] = None
                    BY <4>1, <4>3 DEF StopFindsNothing
                <5> QED
                    BY <1>3, <2>1, <4>2, <5>1, NotStale
            <4>4. CASE StopTakes(t)
                <5>1. /\ port' = [port EXCEPT ![s] = None] /\ mutex' = mutex
                    BY <4>1, <4>4 DEF StopTakes
                <5>2. port'[s] = None /\ mutex'[s] = None
                    BY <1>3, <4>2, <5>1 DEF Kept, Kinds
                <5>3. Bound'
                    BY BoundProceeds
                <5>4. \A u \in Tasks : ~(Does(u, "bind")' /\ Now(u)'.server = s)
                    BY <5>2, <5>3, NoneAssumption DEF Bound
                <5> QED
                    BY <5>2, <5>4 DEF Stale
            <4> QED
                BY <4>1, <4>3, <4>4, ActionOf
        <3>4. ASSUME t \notin Requests, NEW c \in Settings,
                     Now(t) = IfRunning(s, Restart(s, c), <<>>)
              PROVE  Pending(s)'
            <4>1. /\ Now(t).op = "look" /\ Now(t).server = s
                  /\ Now(t).then = <<Stop(s), Start(s, c)>>
                BY <3>4 DEF IfRunning, Restart
            <4>2. LooksAt(t)
                BY <4>1, ActionOf
            <4>3. mutex[s] = None
                BY <4>1, <4>2 DEF LooksAt
            <4>4. port[s] # None
                BY <1>3, <2>1, <4>3, NotStale
            <4> DEFINE q == <<Stop(s), Start(s, c)>>
            <4>5. Turned(t, q)
                BY <4>1, <4>2, <4>4, LooksAtTurns
            <4>6. 1 \in DOMAIN q /\ q[1] = Stop(s)
                OBVIOUS
            <4> HIDE DEF q
            <4>7. Renewing(q[1], s)
                BY <4>6 DEF Renewing
            <4> QED
                BY <3>4, <4>5, <4>6, <4>7, PendingGiven
        <3> QED
            BY <3>1, <3>2, <3>3, <3>4 DEF Renewing
    <2> QED
        BY <2>1, <2>2, <2>3
<1> QED
    BY <1>5, <1>6, <1>7
LEMMA RenewalsProceeds ==
    ASSUME Kept, Bar, Owners, Renewals, NEW t \in Tasks, Proceeds(t)
    PROVE  Renewals'
<1>1. Bound /\ Renewed
    BY RenewalsParts
<1>2. Bound' /\ Renewed'
    BY <1>1, BoundProceeds, RenewedProceeds
<1> QED
    BY <1>2 DEF Renewals, Bound, Renewed, Stale

\* what somebody else is asked for, or does not do any more, changes nothing
LEMMA RenewalsAside ==
    ASSUME Kept, Renewals, NEW t \in Tasks,
           \A u \in Tasks : u # t => todo'[u] = todo[u],
           ~Does(t, "bind")', todo[t] = <<>> \/ t \in Requests,
           \A s \in Servers : \A u \in Tasks : u # t /\ mutex[s] = u => mutex'[s] = u,
           servers' = servers, port' = port, using' = using, config' = config,
           overtaken' = overtaken
    PROVE  Renewals'
<1>1. Bound /\ Renewed
    BY RenewalsParts
<1>2. \A u \in Tasks : Does(u, "bind")' => /\ u # t /\ Does(u, "bind")
                                           /\ Now(u)' = Now(u) /\ Now(u).server \in Servers
    <2> TAKE u \in Tasks
    <2> HAVE Does(u, "bind")'
    <2>1. u # t /\ Does(u, "bind") /\ Now(u)' = Now(u)
        BY DEF Does, Now
    <2>2. Now(u).server \in Servers
        BY <2>1, HeadShape DEF Does, Now, OfServer
    <2> QED
        BY <2>1, <2>2
<1>3. Bound'
    BY <1>1, <1>2 DEF Bound
<1>4. \A s : Stale(s)' => Stale(s)
    BY <1>2 DEF Stale
<1>5. \A s : Pending(s) => Pending(s)'
    <2> TAKE s
    <2> HAVE Pending(s)
    <2>1. PICK u \in Tasks \ Requests : \E i \in DOMAIN todo[u] : Renewing(todo[u][i], s)
        BY PendingRenews
    <2>2. todo'[u] = todo[u]
        BY <2>1
    <2>3. \E i \in DOMAIN todo'[u] : Renewing(todo'[u][i], s)
        BY <2>1, <2>2
    <2> QED
        BY <2>3, Zenon DEF Pending, Renewing
<1>6. Known' = Known
    BY DEF Known
<1>7. Renewed'
    BY <1>1, <1>4, <1>5, <1>6 DEF Renewed
<1> QED
    BY <1>3, <1>7 DEF Renewals, Bound, Renewed, Stale

LEMMA RenewalsBegin ==
    ASSUME Kept, Renewals, NEW t \in Tasks, NEW job, Asking(t, job)
    PROVE  Renewals'
<1>1. /\ \A u \in Tasks : u # t => todo'[u] = todo[u]
      /\ todo[t] = <<>> /\ todo'[t] = job /\ job[1] \in Asked
      /\ servers' = servers /\ port' = port /\ using' = using /\ config' = config
      /\ overtaken' = overtaken /\ mutex' = mutex
    BY DEF Asking, table, engine
<1>2. ~Does(t, "bind")'
    BY <1>1, AskedShape DEF Does, AskedOps
<1> QED
    BY <1>1, <1>2, RenewalsAside

LEMMA RenewalsCancel ==
    ASSUME Kept, Renewals, NEW t \in Tasks, Cancel(t)
    PROVE  Renewals'
<1>1. /\ mutex' = [s \in Servers |-> IF mutex[s] = t THEN None ELSE mutex[s]]
      /\ servers' = servers /\ port' = port /\ using' = using /\ config' = config
      /\ overtaken' = overtaken
    BY Zenon DEF Cancel, table, rest
<1>2. t \in Requests /\ todo'[t] = <<>> /\ \A u \in Tasks : u # t => todo'[u] = todo[u]
    BY CancelDrops DEF Dropped
<1>3. \A s \in Servers : \A u \in Tasks : u # t /\ mutex[s] = u => mutex'[s] = u
    BY <1>1
<1>4. ~Does(t, "bind")'
    BY <1>2 DEF Does
<1> QED
    BY <1>1, <1>2, <1>3, <1>4, RenewalsAside
---------------------------------------------------------------------------
(* What the bar tells *)

Covered ==
    \A t \in Tasks : \A i \in DOMAIN todo[t] :
        Changing(todo[t][i]) => \E j \in DOMAIN todo[t] : i < j /\ Due(todo[t][j])

\* a refresh that has seen some servers, or all, as they still are
Current(e) ==
    \/ /\ e.op = "gather" /\ e.left \subseteq Known
       /\ e.ports = {port[s] : s \in Known \ e.left} \ {None}
    \/ e = Looked(RunningPorts)

Recent == \A t \in fresh : todo[t] # <<>> /\ Current(Now(t))

Told == ~crossed /\ ~down /\ (\A t \in Tasks : ~Owes(t)) => Intended = Truth

LEMMA TidingsParts == Tidings <=> (~down => Covered) /\ Recent /\ Told
BY DEF Tidings, Covered, Recent, Current, Told

LEMMA CoveredProceeds ==
    ASSUME Kept, Bar, Owners, Covered, NEW t \in Tasks, Proceeds(t)
    PROVE  Covered'
<1>1. PICK new : Turned(t, new)
    BY ProceedsTurns
<1>2. /\ Fits(Now(t), new, made') /\ 1 \in DOMAIN todo[t] /\ Now(t) = todo[t][1]
      /\ DOMAIN todo[t] \subseteq Nat \ {0}
      /\ \A u \in Tasks : u # t => todo'[u] = todo[u]
      /\ Spliced(todo'[t], new, todo[t])
    BY <1>1, StepsAfter DEF Turned, Now
<1>3. \A i \in DOMAIN todo'[t] :
          Changing(todo'[t][i]) => \E j \in DOMAIN todo'[t] : i < j /\ Due(todo'[t][j])
    <2> TAKE i \in DOMAIN todo'[t]
    <2> HAVE Changing(todo'[t][i])
    <2>1. Len(new) \in Nat /\ DOMAIN new = 1 .. Len(new)
        BY <1>2 DEF Spliced
    <2>2. CASE i \in DOMAIN new /\ todo'[t][i] = new[i]
        <3>1. CASE \E j \in DOMAIN new : i < j /\ Due(new[j])
            BY <1>2, <3>1 DEF Spliced
        <3>2. CASE Changing(Now(t))
            <4>1. PICK j \in DOMAIN todo[t] : 1 < j /\ Due(todo[t][j])
                BY <1>2, <3>2 DEF Covered
            <4>2. /\ Len(new) + j - 1 \in DOMAIN todo'[t]
                  /\ todo'[t][Len(new) + j - 1] = todo[t][j]
                BY <1>2, <4>1 DEF Spliced
            <4>3. i < Len(new) + j - 1
                BY <1>2, <2>1, <2>2, <4>1
            <4>4. Due(todo'[t][Len(new) + j - 1])
                BY <4>1, <4>2
            <4> QED
                BY <4>2, <4>3, <4>4
        <3> QED
            BY <1>2, <2>2, <3>1, <3>2 DEF Fits
    <2>3. CASE \E k \in DOMAIN todo[t] :
                   k # 1 /\ i = Len(new) + k - 1 /\ todo'[t][i] = todo[t][k]
        <3>1. PICK k \in DOMAIN todo[t] :
                  k # 1 /\ i = Len(new) + k - 1 /\ todo'[t][i] = todo[t][k]
            BY <2>3
        <3>2. PICK j \in DOMAIN todo[t] : k < j /\ Due(todo[t][j])
            BY <3>1 DEF Covered
        <3>3. j # 1 /\ i < Len(new) + j - 1
            BY <1>2, <2>1, <3>1, <3>2
        <3>4. /\ Len(new) + j - 1 \in DOMAIN todo'[t]
              /\ todo'[t][Len(new) + j - 1] = todo[t][j]
            BY <1>2, <3>3 DEF Spliced
        <3>5. Due(todo'[t][Len(new) + j - 1])
            BY <3>2, <3>4
        <3> QED
            BY <3>3, <3>4, <3>5
    <2> QED
        BY <1>2, <2>2, <2>3 DEF Spliced
<1> QED
    BY <1>2, <1>3 DEF Covered

\* what a task owes it still owes, but for what is put on the bar
LEMMA OwesProceeds ==
    ASSUME Kept, Bar, Owners, NEW t \in Tasks, Proceeds(t), ~Owes(t)'
    PROVE  /\ Due(Now(t)) => Now(t).op \in {"show", "clear"}
           /\ Covered => ~Changing(Now(t))
           /\ ~Due(Now(t)) => ~Owes(t)
<1>1. PICK new : Turned(t, new)
    BY ProceedsTurns
<1>2. /\ Fits(Now(t), new, made') /\ 1 \in DOMAIN todo[t] /\ Now(t) = todo[t][1]
      /\ Spliced(todo'[t], new, todo[t])
    BY <1>1, StepsAfter DEF Turned, Now
<1>3. \A i \in DOMAIN todo'[t] : ~Due(todo'[t][i])
    BY DEF Owes
<1>4. \A i \in DOMAIN new : ~Due(new[i])
    BY <1>2, <1>3 DEF Spliced
<1>5. \A j \in DOMAIN todo[t] : j # 1 => ~Due(todo[t][j])
    BY <1>2, <1>3 DEF Spliced
<1>6. Due(Now(t)) => Now(t).op \in {"show", "clear"}
    BY <1>2, <1>4 DEF Fits
<1>7. ~Due(Now(t)) => ~Owes(t)
    BY <1>2, <1>5 DEF Owes
<1>8. Covered => ~Changing(Now(t))
    <2>1. Covered /\ Changing(Now(t)) => \E j \in DOMAIN todo[t] : 1 < j /\ Due(todo[t][j])
        BY <1>2 DEF Covered
    <2> QED
        BY <1>5, <2>1
<1> QED
    BY <1>6, <1>7, <1>8

\* what has been seen has changed, or the refreshes are not fresh any more
LEMMA SeenStays ==
    ASSUME Kept, Bar, Owners, NEW t \in Tasks, Proceeds(t), fresh' # {}
    PROVE  /\ port' = port
           /\ Known' = Known \/ (Known' = Known \cup {made'} /\ port[made'] = None
                                 /\ made' \notin Known)
<1>1. CASE Adds(t)
    <2>1. port' = port
        BY <1>1, ActionOf, EngineFrame
    <2>2. Known' = Known \cup {made'}
        BY <1>1, KnownAdds
    <2>3. /\ made' = made + 1 /\ made < MaxServers /\ MaxServers \in Nat
          /\ made \in Nat /\ Known \subseteq 1 .. made
        BY <1>1, KnownMade, FoldersAssumption DEF Adds
    <2>4. port[made'] = None
        BY <2>3 DEF Kept, Created, Servers
    <2>5. made' \notin Known
        <3>1. made' \notin 1 .. made
            BY <2>3
        <3> QED
            BY <2>3, <3>1, Zenon
    <2> QED
        BY <2>1, <2>2, <2>4, <2>5
<1>2. CASE ~Adds(t)
    <2>1. ~Removes(t) /\ ~StopTakes(t)
        BY Zenon DEF Removes, StopTakes
    <2>2. Known' = Known
        BY <1>2, <2>1, TableFrame
    <2>3. port' = port
        <3>1. Binds(t) => port' = port
            BY Zenon DEF Binds
        <3> QED
            BY <2>1, <3>1, EngineFrame
    <2> QED
        BY <2>2, <2>3
<1> QED
    BY <1>1, <1>2

LEMMA RunningProceeds ==
    ASSUME port' = port,
           Known' = Known \/ (Known' = Known \cup {made'} /\ port[made'] = None
                              /\ made' \notin Known)
    PROVE  /\ RunningPorts' = RunningPorts
           /\ \A e : Current(e) => Current(e)'
<1>1. \A left : left \subseteq Known =>
          {port'[s] : s \in Known' \ left} \ {None} = {port[s] : s \in Known \ left} \ {None}
    BY Z3
<1>2. RunningPorts' = RunningPorts
    BY DEF RunningPorts
<1>3. \A left : left \subseteq Known => left \subseteq Known'
    OBVIOUS
<1> QED
    BY <1>1, <1>2, <1>3 DEF Current
\* what looks at the servers, or is about to put on the bar what it has seen
Looker(e) == e.op = "gather" \/ (e.op \in {"show", "clear"} /\ e.of = "refresh")

LEMMA CurrentLooks ==
    ASSUME Kept, NEW e, Current(e)
    PROVE  /\ Looker(e)
           /\ e.op # "gather" => e = Looked(RunningPorts)
<1>1. RunningPorts \in SUBSET Ports
    BY KnownMade DEF RunningPorts, Kept, Kinds
<1>2. Looked(RunningPorts).op \in {"show", "clear"} /\ Looked(RunningPorts).of = "refresh"
    BY <1>1, LookedShape
<1> QED
    BY <1>2 DEF Current, Looker

LEMMA FreshProceeds ==
    ASSUME Kept, Bar, Owners, Recent, NEW t \in Tasks, Proceeds(t)
    PROVE  Recent'
<1> SUFFICES ASSUME NEW u \in fresh'
             PROVE  todo'[u] # <<>> /\ Current(Now(u))'
    BY DEF Recent
<1>1. /\ port' = port
      /\ Known' = Known \/ (Known' = Known \cup {made'} /\ port[made'] = None
                            /\ made' \notin Known)
    BY SeenStays
<1>2. \A e : Current(e) => Current(e)'
    BY <1>1, RunningProceeds
<1>3. fresh \subseteq Tasks /\ Known \in SUBSET Servers
    BY KnownMade DEF Kept, Kinds
<1>4. todo[t] # <<>> /\ (\A v \in Tasks : v # t => todo'[v] = todo[v])
    BY ActionOf, ProceedsTurns, StepsAfter
<1>5. u \in fresh \/ (u = t /\ RefreshBegins(t))
    <2>1. LooksUp(t) => fresh' = fresh
        BY LooksUpFrame
    <2>2. ShowStatus(t) \/ ClearStatus(t) => fresh' \subseteq fresh
        BY DEF ShowStatus, ClearStatus, Judged
    <2>3. RefreshBegins(t) => fresh' = fresh \cup {t}
        BY Zenon DEF RefreshBegins
    <2>4. ~LooksUp(t) /\ ~ShowStatus(t) /\ ~ClearStatus(t) /\ ~RefreshBegins(t)
          => fresh' = fresh \/ fresh' = {}
        BY Zenon
        DEF Proceeds, Configures, Removes, Unlocks, Adds, LooksAt, StartFindsRunning,
            StartTakes, Binds, StopFindsNothing, StopTakes, StopAnswers,
            Gathers, Gathered, Begins, Records
    <2> QED
        BY <2>1, <2>2, <2>3, <2>4
<1>6. CASE u # t
    <2>1. u \in fresh /\ u \in Tasks /\ todo'[u] = todo[u]
        BY <1>3, <1>4, <1>5, <1>6
    <2>2. todo[u] # <<>> /\ Current(Now(u)) /\ Now(u)' = Now(u)
        BY <2>1 DEF Recent, Now
    <2>3. Current(todo[u][1])
        BY <2>2 DEF Now
    <2>4. Current(todo[u][1])'
          <=> \/ /\ todo'[u][1].op = "gather" /\ todo'[u][1].left \subseteq Known'
                 /\ todo'[u][1].ports = {port'[s] : s \in Known' \ todo'[u][1].left} \ {None}
              \/ todo'[u][1] = Looked(RunningPorts')
        BY DEF Current
    <2> DEFINE e == todo[u][1]
    <2>5. \/ /\ e.op = "gather" /\ e.left \subseteq Known'
             /\ e.ports = {port'[s] : s \in Known' \ e.left} \ {None}
          \/ e = Looked(RunningPorts')
        BY <1>2, <2>3 DEF Current
    <2> QED
        BY <2>1, <2>2, <2>4, <2>5 DEF Current, Now
<1>7. CASE u = t /\ RefreshBegins(t)
    <2> DEFINE e == Gathering(Known, {})
    <2>1. Turned(t, <<e>>)
        BY <1>7, RefreshBeginsTurns
    <2>2. <<e>> # <<>> /\ <<e>>[1] = e
        OBVIOUS
    <2>3. todo'[t] # <<>> /\ Now(t)' = e
        BY <2>1, <2>2, HeadAfter DEF Now
    <2>4. e.op = "gather" /\ e.left = Known /\ e.ports = {}
        BY DEF Gathering
    <2>5. Current(e)
        BY <2>4 DEF Current
    <2> HIDE DEF e
    <2>6. /\ e.left \subseteq Known' /\ e.ports = {port'[s] : s \in Known' \ e.left} \ {None}
        BY <1>1, <2>4
    <2> QED
        BY <1>7, <2>3, <2>4, <2>6 DEF Current
<1>8. CASE u = t /\ ~RefreshBegins(t)
    <2>1. u \in fresh /\ Current(Now(t)) /\ 1 \in DOMAIN todo[t] /\ Now(t) \in Steps
        BY <1>4, <1>5, <1>8, HeadShape DEF Recent
    <2>2. Looker(Now(t))
        BY <2>1, CurrentLooks
    <2>3. Now(t).op = "gather"
        <3>1. ASSUME Now(t).op \in {"show", "clear"} /\ Now(t).of = "refresh"
              PROVE  FALSE
            <4>1. ShowStatus(t) \/ ClearStatus(t)
                BY <3>1, ActionOf
            <4>2. fresh' = fresh \ {t}
                BY <3>1, <4>1 DEF ShowStatus, ClearStatus, Judged
            <4> QED
                BY <1>8, <4>2
        <3> QED
            BY <2>2, <3>1 DEF Looker
    <2>4. /\ Now(t) = Gathering(Now(t).left, Now(t).ports)
          /\ Now(t).left \in SUBSET Servers /\ Now(t).ports \in SUBSET Ports
        BY <2>1, <2>3, GatherShape
    <2>5. /\ Now(t).left \subseteq Known
          /\ Now(t).ports = {port[s] : s \in Known \ Now(t).left} \ {None}
        <3>1. Now(t) # Looked(RunningPorts)
            <4>1. RunningPorts \in SUBSET Ports
                BY <1>3 DEF RunningPorts, Kept, Kinds
            <4> QED
                BY <2>3, <4>1, LookedShape
        <3> QED
            BY <2>1, <3>1 DEF Current
    <2>6. Known' = Known
        <3>1. ~Adds(t) /\ ~Removes(t)
            BY <2>3, ActionOf
        <3> QED
            BY <3>1, TableFrame
    <2>7. CASE Gathers(t)
        <3>1. PICK s \in Now(t).left : Turned(t, <<GathersOne(t, s)>>)
            BY <2>7, GathersTurns
        <3> DEFINE e == GathersOne(t, s)
        <3>2. <<e>> # <<>> /\ <<e>>[1] = e
            OBVIOUS
        <3>3. todo'[t] # <<>> /\ Now(t)' = e
            BY <3>1, <3>2, HeadAfter DEF Now
        <3>4. /\ e.op = "gather" /\ e.left = Now(t).left \ {s}
              /\ e.ports = Now(t).ports \cup ({port[s]} \ {None})
            BY DEF GathersOne, Gathering
        <3> HIDE DEF e
        <3>5. e.left \subseteq Known
            BY <2>5, <3>4
        <3>6. e.ports = {port[r] : r \in Known \ e.left} \ {None}
            BY <2>5, <3>1, <3>4, Z3
        <3> QED
            BY <1>1, <1>8, <2>6, <3>3, <3>4, <3>5, <3>6 DEF Current
    <2>8. CASE Gathered(t)
        <3> DEFINE e == Looked(Now(t).ports)
        <3>1. Turned(t, <<e>>) /\ Now(t).left = {}
            BY <2>8, GatheredTurns DEF Gathered
        <3>2. <<e>> # <<>> /\ <<e>>[1] = e
            OBVIOUS
        <3>3. todo'[t] # <<>> /\ Now(t)' = e
            BY <3>1, <3>2, HeadAfter DEF Now
        <3>4. Now(t).ports = RunningPorts
            BY <2>5, <3>1 DEF RunningPorts
        <3>5. RunningPorts' = RunningPorts
            BY <1>1, RunningProceeds
        <3> QED
            BY <1>8, <3>3, <3>4, <3>5 DEF Current
    <2> QED
        BY <2>3, <2>7, <2>8, ActionOf
<1> QED
    BY <1>5, <1>6, <1>7, <1>8
\* the variables that the truth is about are left as they are
LEMMA TruthStays ==
    ASSUME Kept, Bar, Owners, NEW t \in Tasks, Proceeds(t), ~Changing(Now(t)),
           Now(t).op # "settings"
    PROVE  Truth' = Truth
<1>1. /\ ~Binds(t) /\ ~StopTakes(t) /\ ~Removes(t) /\ ~Adds(t) /\ ~Configures(t)
    BY ActionOf DEF Changing
<1>2. port' = port /\ Known' = Known /\ config' = config
    BY <1>1, TableFrame, EngineFrame, ConfigFrame
<1>3. RunningPorts' = RunningPorts
    BY <1>2 DEF RunningPorts
<1> QED
    BY <1>2, <1>3 DEF Truth

\* what is shown goes on being shown while others do something else
LEMMA IntendedStays ==
    ASSUME Kept, Bar, NEW t \in Tasks,
           \A u \in Tasks : u # t => todo'[u] = todo[u],
           ~Does(t, "item"), ~Does(t, "record"),
           status' = status, showing' = showing
    PROVE  Intended' = Intended
<1>1. showing # None => showing # t /\ showing \in Tasks
    BY DEF Bar
<1>2. showing # None => todo'[showing] = todo[showing]
    BY <1>1
<1>3. showing # None => /\ Does(showing, "item")' <=> Does(showing, "item")
                        /\ Now(showing)' = Now(showing)
    BY <1>2 DEF Does, Now
<1> QED
    BY <1>3 DEF Intended

\* an item is still to be what it was to be
LEMMA IntendedBegins ==
    ASSUME Kept, Bar, NEW t \in Tasks, Begins(t)
    PROVE  Intended' = Intended
<1>1. PICK new \in Items : new.text = Now(t).text /\ Turned(t, <<Recording(new)>>)
    BY BeginsTurns
<1> DEFINE x == Recording(new)
<1>2. /\ <<x>> # <<>> /\ <<x>>[1] = x /\ x.op = "record" /\ x.item = new
    BY DEF Recording
<1>3. Now(t)' = x /\ todo'[t] # <<>>
    BY <1>1, <1>2, HeadAfter DEF Now
<1>4. Does(t, "item") /\ showing' = showing
    BY Zenon DEF Begins
<1>5. showing = t /\ showing # None
    BY <1>4, NoneAssumption DEF Bar
<1>6. Intended = {Now(t).text}
    BY <1>4, <1>5 DEF Intended
<1> HIDE DEF x
<1>7. ~Does(t, "item")'
    BY <1>2, <1>3 DEF Does, Now
<1>8. Intended' = {Now(t)'.item.text}
    BY <1>4, <1>5, <1>7 DEF Intended
<1> QED
    BY <1>1, <1>2, <1>3, <1>6, <1>8

LEMMA IntendedRecords ==
    ASSUME Kept, Bar, NEW t \in Tasks, Records(t)
    PROVE  Intended' = Intended
<1>1. Does(t, "record") /\ status' = Now(t).item /\ showing' = None
    BY Zenon DEF Records
<1>2. showing = t /\ showing # None /\ Now(t).item \in Items
    BY <1>1, NoneAssumption DEF Bar
<1>3. ~Does(t, "item")
    BY <1>1 DEF Does
<1>4. status' # None
    BY <1>1, <1>2, ItemsAssumption
<1> QED
    BY <1>1, <1>2, <1>3, <1>4 DEF Intended

\* the end of a fresh refresh
LEMMA IntendedIsTruth ==
    ASSUME Kept, Bar, Owners, NEW t \in Tasks, Proceeds(t),
           Now(t).op \in {"show", "clear"}, Now(t) = Looked(RunningPorts)
    PROVE  Intended' = Truth'
<1>1. RunningPorts \in SUBSET Ports /\ t # None
    BY KnownMade, NoneAssumption DEF RunningPorts, Kept, Kinds
<1>2. /\ RunningPorts = {} => Now(t).op = "clear"
      /\ RunningPorts # {} => Now(t).op = "show" /\ Now(t).text = RunningOn(RunningPorts)
      /\ ~Changing(Now(t))
    BY <1>1, LookedShape
<1>3. Truth' = Truth
    BY <1>2, TruthStays
<1>4. CASE RunningPorts = {}
    <2>1. ClearStatus(t)
        BY <1>2, <1>4, ActionOf
    <2>2. status' = None /\ showing' = None
        BY <2>1 DEF ClearStatus, Clears
    <2> QED
        BY <1>3, <1>4, <2>2 DEF Intended, Truth
<1>5. CASE RunningPorts # {}
    <2>1. Truth = IF config \notin Visible THEN {} ELSE {Now(t).text}
        BY <1>2, <1>5 DEF Truth
    <2>2. ShowStatus(t)
        BY <1>2, <1>5, ActionOf
    <2>3. /\ showing = None
          /\ \/ config \notin Visible /\ Clears(t)
             \/ /\ config \in Visible /\ status # None /\ status.text = Now(t).text
                /\ UNCHANGED bar
             \/ /\ Turned(t, <<Itemizing(Now(t).text)>>) /\ config \in Visible
                /\ showing' = t
        BY <2>2, ShowStatusTurns, Zenon
    <2>4. CASE config \notin Visible /\ Clears(t)
        <3>1. status' = None /\ showing' = None
            BY <2>3, <2>4 DEF Clears
        <3> QED
            BY <1>3, <2>1, <2>4, <3>1 DEF Intended
    <2>5. CASE /\ config \in Visible /\ status # None /\ status.text = Now(t).text
               /\ UNCHANGED bar
        <3>1. status' = status /\ showing' = None
            BY <2>3, <2>5 DEF bar
        <3> QED
            BY <1>3, <2>1, <2>5, <3>1 DEF Intended
    <2>6. CASE /\ Turned(t, <<Itemizing(Now(t).text)>>) /\ config \in Visible
               /\ showing' = t
        <3> DEFINE x == Itemizing(Now(t).text)
        <3>1. <<x>> # <<>> /\ <<x>>[1] = x /\ x.op = "item" /\ x.text = Now(t).text
            BY DEF Itemizing
        <3>2. Now(t)' = x /\ todo'[t] # <<>>
            BY <2>6, <3>1, HeadAfter DEF Now
        <3> HIDE DEF x
        <3>3. Does(t, "item")'
            BY <3>1, <3>2 DEF Does, Now
        <3>4. Intended' = {Now(t)'.text}
            BY <1>1, <2>6, <3>3 DEF Intended
        <3> QED
            BY <1>3, <2>1, <2>6, <3>1, <3>2, <3>4
    <2> QED
        BY <2>3, <2>4, <2>5, <2>6
<1> QED
    BY <1>4, <1>5

LEMMA CrossedFrame ==
    ASSUME NEW t \in Tasks, Proceeds(t), ~ShowStatus(t), ~ClearStatus(t)
    PROVE  crossed' = crossed
<1>1. LooksUp(t) => crossed' = crossed
    BY LooksUpFrame
<1> QED
    BY <1>1, Zenon
    DEF Proceeds, Configures, Removes, Unlocks, Adds, LooksAt, StartFindsRunning,
        StartTakes, Binds, StopFindsNothing, StopTakes, StopAnswers, RefreshBegins,
        Gathers, Gathered, Begins, Records

LEMMA BarFrame ==
    ASSUME NEW t \in Tasks, Proceeds(t), ~ShowStatus(t), ~ClearStatus(t), ~Begins(t),
           ~Records(t)
    PROVE  bar' = bar
<1>1. LooksUp(t) => bar' = bar
    BY LooksUpFrame
<1> QED
    BY <1>1, Zenon
    DEF Proceeds, Configures, Removes, Unlocks, Adds, LooksAt, StartFindsRunning,
        StartTakes, Binds, StopFindsNothing, StopTakes, StopAnswers, RefreshBegins,
        Gathers, Gathered

LEMMA ToldProceeds ==
    ASSUME Kept, Bar, Owners, Tidings, NEW t \in Tasks, Proceeds(t)
    PROVE  Told'
<1> SUFFICES ASSUME ~crossed', ~down', \A u \in Tasks : ~Owes(u)'
             PROVE  Intended' = Truth'
    BY DEF Told
<1>1. /\ todo[t] # <<>> /\ OfKind(Now(t))
      /\ \A u \in Tasks : u # t => todo'[u] = todo[u]
    BY ActionOf, ProceedsTurns, StepsAfter, HeadShape
<1>2. down' = down
    <2>1. Configures(t) => down' = down
        BY Zenon DEF Configures
    <2> QED
        BY <2>1, ConfigFrame
<1>3. Covered /\ Recent /\ Told
    BY <1>2, TidingsParts
<1>4. /\ Due(Now(t)) => Now(t).op \in {"show", "clear"}
      /\ ~Changing(Now(t)) /\ (~Due(Now(t)) => ~Owes(t))
    BY <1>3, OwesProceeds
<1>5. \A u \in Tasks : u # t => ~Owes(u)
    BY <1>1 DEF Owes
<1>6. CASE Now(t).op \in {"show", "clear"}
    <2>1. Now(t).of = "refresh"
        BY <1>1, <1>4, <1>6 DEF OfKind, Uses, Changing
    <2>2. ShowStatus(t) \/ ClearStatus(t)
        BY <1>6, ActionOf
    <2>3. t \in fresh
        BY <2>1, <2>2 DEF ShowStatus, ClearStatus, Judged
    <2>4. Now(t) = Looked(RunningPorts)
        BY <1>3, <1>6, <2>3, CurrentLooks DEF Recent
    <2> QED
        BY <1>6, <2>4, IntendedIsTruth
<1>7. CASE Now(t).op \notin {"show", "clear"}
    <2>1. ~Due(Now(t)) /\ Now(t).op # "settings" /\ ~ShowStatus(t) /\ ~ClearStatus(t)
        BY <1>4, <1>7, ActionOf DEF Due
    <2>2. ~crossed
        BY <2>1, CrossedFrame
    <2>3. \A u \in Tasks : ~Owes(u)
        BY <1>4, <1>5, <2>1
    <2>4. Intended = Truth
        BY <1>2, <1>3, <2>2, <2>3 DEF Told
    <2>5. Truth' = Truth
        BY <1>4, <2>1, TruthStays
    <2>6. Intended' = Intended
        <3>1. CASE ~Begins(t) /\ ~Records(t)
            <4>1. /\ status' = status /\ showing' = showing
                BY <2>1, <3>1, BarFrame DEF bar
            <4>2. ~Does(t, "item") /\ ~Does(t, "record")
                BY <3>1, ActionOf DEF Does, Now
            <4> QED
                BY <1>1, <4>1, <4>2, IntendedStays
        <3> QED
            BY <3>1, IntendedBegins, IntendedRecords
    <2> QED
        BY <2>4, <2>5, <2>6
<1> QED
    BY <1>6, <1>7
LEMMA TidingsProceeds ==
    ASSUME Kept, Bar, Owners, Tidings, NEW t \in Tasks, Proceeds(t)
    PROVE  Tidings'
<1>1. (~down => Covered) /\ Recent
    BY TidingsParts
<1>2. down' = down
    <2>1. Configures(t) => down' = down
        BY Zenon DEF Configures
    <2> QED
        BY <2>1, ConfigFrame
<1>3. (~down' => Covered') /\ Recent'
    BY <1>1, <1>2, CoveredProceeds, FreshProceeds
<1>4. Told'
    BY ToldProceeds
<1> QED
    BY <1>3, <1>4 DEF Tidings, Covered, Recent, Current, Told

LEMMA TidingsBegin ==
    ASSUME Kept, Bar, Tidings, NEW t \in Tasks, NEW job, Asking(t, job)
    PROVE  Tidings'
<1>1. /\ todo'[t] = job /\ todo[t] = <<>> /\ DOMAIN todo[t] = {}
      /\ \A u \in Tasks : u # t => todo'[u] = todo[u]
      /\ servers' = servers /\ port' = port /\ config' = config
      /\ fresh' = fresh /\ crossed' = crossed
      /\ status' = status /\ showing' = showing
      /\ down' = (down \/ job[1] = Shutdown)
      /\ \A i \in DOMAIN job : job[i] \in Asked
    BY DEF Asking, table, engine, bar
<1>2. \A i \in DOMAIN job :
          /\ job[i] = Shutdown => i = 1
          /\ job[i].op \in {"remove", "add"}
             => \E j \in DOMAIN job : i < j /\ job[j] = Refresh
    BY Zenon DEF Asking
<1>3. (~down => Covered) /\ Recent /\ Told
    BY TidingsParts
<1>4. ~down' => Covered'
    <2>1. ASSUME ~down', NEW i \in DOMAIN job, Changing(job[i])
          PROVE  \E j \in DOMAIN job : i < j /\ Due(job[j])
        <3>1. job[i].op \in AskedOps /\ (job[i].op = "shutdown" => job[i] = Shutdown)
            BY <1>1, AskedShape
        <3>2. job[i].op \in {"remove", "add", "shutdown"}
            BY <2>1, <3>1 DEF Changing, AskedOps, IfRunning
        <3>3. job[i].op # "shutdown"
            BY <1>1, <1>2, <2>1, <3>1
        <3>4. PICK j \in DOMAIN job : i < j /\ job[j] = Refresh
            BY <1>2, <3>2, <3>3
        <3> QED
            BY <3>4, Plainly
    <2>2. ~down' => ~down
        BY <1>1
    <2> QED
        BY <1>1, <1>3, <2>1, <2>2 DEF Covered
<1>5. RunningPorts' = RunningPorts /\ Known' = Known
    BY <1>1 DEF RunningPorts, Known
<1>6. Recent'
    <2>1. \A u \in fresh : u # t /\ todo'[u] = todo[u]
        BY <1>1, <1>3 DEF Recent, Kept, Kinds
    <2> QED
        BY <1>1, <1>3, <1>5, <2>1 DEF Recent, Current, Now
<1>7. Told'
    <2>1. Truth' = Truth
        BY <1>1, <1>5 DEF Truth
    <2>2. Intended' = Intended
        BY <1>1, IntendedStays DEF Does
    <2>3. \A u \in Tasks : ~Owes(u)' => ~Owes(u)
        BY <1>1 DEF Owes
    <2>4. ~down' => ~down
        BY <1>1
    <2> QED
        BY <1>1, <1>3, <2>1, <2>2, <2>3, <2>4 DEF Told
<1> QED
    BY <1>4, <1>6, <1>7 DEF Tidings, Covered, Recent, Current, Told

LEMMA TidingsCancel ==
    ASSUME Kept, Tidings, NEW t \in Tasks, Cancel(t)
    PROVE  Tidings'
<1>1. /\ todo'[t] = <<>> /\ DOMAIN todo'[t] = {}
      /\ \A u \in Tasks : u # t => todo'[u] = todo[u]
    BY CancelDrops DEF Dropped
<1>2. /\ servers' = servers /\ port' = port /\ fresh' = fresh \ {t} /\ crossed' = TRUE
      /\ down' = down
    BY Zenon DEF Cancel, table, rest
<1>3. (~down => Covered) /\ Recent
    BY TidingsParts
<1>4. ~down' => Covered'
    BY <1>1, <1>2, <1>3 DEF Covered
<1>5. RunningPorts' = RunningPorts /\ Known' = Known
    BY <1>2 DEF RunningPorts, Known
<1>6. Recent'
    <2>1. \A u \in fresh' : u \in fresh /\ todo'[u] = todo[u]
        BY <1>1, <1>2 DEF Kept, Kinds
    <2> QED
        BY <1>2, <1>3, <1>5, <2>1 DEF Recent, Current, Now
<1>7. Told'
    BY <1>2 DEF Told
<1> QED
    BY <1>4, <1>6, <1>7 DEF Tidings, Covered, Recent, Current, Told

---------------------------------------------------------------------------
(* The invariant *)

IInv == Kept /\ Bar /\ Owners /\ Renewals /\ Tidings

LEMMA AtFirst == Init => IInv
<1> SUFFICES ASSUME Init PROVE IInv
    OBVIOUS
<1>1. /\ servers \in [Folders -> Servers \cup {None}]
      /\ made = Cardinality(Opened) /\ Known = 1 .. made
      /\ channels = {}
      /\ port = [s \in Servers |-> None]
      /\ using = [s \in Servers |-> None]
      /\ config = 1
      /\ mutex = [s \in Servers |-> None]
      /\ readers = {} /\ writer = None
      /\ status = None /\ showing = None /\ screen = {} /\ orphans = {}
      /\ todo = [t \in Tasks |-> <<>>]
      /\ idle = Tasks /\ down = FALSE
      /\ fresh = {} /\ crossed = FALSE /\ late = {} /\ overtaken = {}
    BY Zenon DEF Init
<1>2. /\ made \in Nat /\ made <= MaxServers /\ MaxServers \in Nat
      /\ MaxSettings \in Nat \ {0}
    <2>1. IsFiniteSet(Opened)
        BY FoldersAssumption, FS_Subset
    <2> QED
        BY <1>1, <2>1, FoldersAssumption, FS_CardinalityType
<1>3. \A t \in Tasks : todo[t] = <<>> /\ DOMAIN todo[t] = {}
    BY <1>1
<1>4. todo \in [Tasks -> Seq(Steps)]
    <2>1. <<>> \in Seq(Steps)
        OBVIOUS
    <2> QED
        BY <1>1, <2>1
<1>5. Kinds
    <2>1. made \in 0 .. MaxServers /\ config \in Settings
        BY <1>1, <1>2 DEF Settings
    <2>2. /\ port \in [Servers -> Ports \cup {None}]
          /\ using \in [Servers -> Settings \cup {None}]
          /\ mutex \in [Servers -> Tasks \cup {None}]
        BY <1>1
    <2>3. /\ servers \in [Folders -> Servers \cup {None}]
          /\ channels \subseteq Folders /\ readers \subseteq Tasks
          /\ writer \in Tasks \cup {None} /\ idle \subseteq Tasks
          /\ down \in BOOLEAN /\ fresh \subseteq Tasks /\ crossed \in BOOLEAN
          /\ late \subseteq Servers /\ overtaken \subseteq Servers
        BY <1>1, Zenon
    <2> QED
        BY <1>4, <2>1, <2>2, <2>3, Zenon DEF Kinds
<1>6. Created
    <2>1. \A f \in Folders : servers[f] # None => servers[f] \in Known
        BY <1>1 DEF Known, Range
    <2>2. \A f \in Folders : servers[f] # None => servers[f] <= made
        <3> TAKE f \in Folders
        <3> HAVE servers[f] # None
        <3>1. servers[f] \in 1 .. made
            BY <1>1, <2>1, Zenon
        <3> QED
            BY <3>1
    <2> QED
        BY <1>1, <1>3, <2>2 DEF Created
<1>7. Shaped
    BY <1>1, <1>3, Zenon DEF Shaped, Tasks
<1>8. Kept
    BY <1>5, <1>6, <1>7 DEF Kept
<1>9. Gone = {}
    BY <1>1 DEF Gone, Tasks
<1>10. IsFiniteSet({}) /\ Cardinality({}) = 0
    BY FS_EmptySet
<1>11. Bar
    <2>1. BarIsRecorded
        BY <1>1 DEF BarIsRecorded
    <2>2. \A t \in Tasks : ~Does(t, "item") /\ ~Does(t, "record")
        BY <1>3 DEF Does
    <2>3. Cardinality(orphans) <= Cardinality(Gone)
        BY <1>1, <1>9, <1>10
    <2> QED
        BY <1>1, <1>10, <2>1, <2>2, <2>3 DEF Bar
<1>12. Owners
    <2>1. \A t \in Tasks : ~Moves(t)
        BY <1>3 DEF Moves
    <2> QED
        BY <1>1, <1>3, <2>1 DEF Owners
<1>13. Renewals
    <2>1. \A t \in Tasks : ~Does(t, "bind")
        BY <1>3 DEF Does
    <2>2. \A s \in Known : port[s] = None
        BY <1>1, <1>8, KnownMade
    <2> QED
        BY <2>1, <2>2 DEF Renewals
<1>14. Tidings
    <2>1. RunningPorts = {}
        <3>1. \A s \in Known : port[s] = None
            BY <1>1, <1>8, KnownMade
        <3> QED
            BY <3>1 DEF RunningPorts
    <2>2. Intended = {} /\ Truth = {}
        BY <1>1, <2>1 DEF Intended, Truth
    <2> QED
        BY <1>1, <1>3, <2>2 DEF Tidings
<1> QED
    BY <1>8, <1>11, <1>12, <1>13, <1>14 DEF IInv
LEMMA Stuttering == IInv /\ UNCHANGED vars => IInv'
<1> SUFFICES ASSUME IInv, UNCHANGED vars PROVE IInv'
    OBVIOUS
<1>1. /\ servers' = servers /\ made' = made /\ channels' = channels /\ writer' = writer
      /\ port' = port /\ using' = using /\ mutex' = mutex /\ late' = late
      /\ overtaken' = overtaken /\ readers' = readers /\ status' = status
      /\ showing' = showing /\ screen' = screen /\ orphans' = orphans
      /\ config' = config /\ idle' = idle /\ down' = down /\ todo' = todo
      /\ fresh' = fresh /\ crossed' = crossed
    BY Zenon DEF vars, table, engine, bar, rest
<1>2. Kept'
    BY <1>1 DEF IInv, Kept, Kinds, Created, Shaped
<1>3. Gone' = Gone /\ Known' = Known
    BY <1>1 DEF Gone, Known
<1>4. \A t \in Tasks : /\ Does(t, "item")' <=> Does(t, "item")
                       /\ Does(t, "record")' <=> Does(t, "record")
                       /\ Does(t, "bind")' <=> Does(t, "bind")
                       /\ Now(t)' = Now(t) /\ (Moves(t)' <=> Moves(t))
                       /\ Owes(t)' <=> Owes(t)
    BY <1>1 DEF Does, Now, Moves, Owes
<1>5. showing # None => showing \in Tasks
    BY DEF IInv, Bar
<1>6. BarIsRecorded'
    BY <1>1, <1>4, <1>5 DEF IInv, Bar, BarIsRecorded
<1>7. Bar'
    BY <1>1, <1>3, <1>4, <1>5, <1>6 DEF IInv, Bar
<1>8. Owners'
    <2>1. writer # None => writer \in Tasks
        BY DEF IInv, Kept, Kinds
    <2>2. /\ \A t, u \in Tasks : Moves(t)' /\ Moves(u)' => t = u
          /\ \A s \in Servers :
                 port'[s] # None => \/ s \in Known' \cup late'
                                    \/ writer' # None /\ Now(writer)' = Stop(s)
        BY <1>1, <1>3, <1>4, <2>1 DEF IInv, Owners
    <2> QED
        BY <1>1, <2>2 DEF IInv, Owners
<1>9. Renewals'
    <2>1. \A s : Pending(s)' <=> Pending(s)
        BY <1>1 DEF Pending
    <2> QED
        BY <1>1, <1>3, <1>4, <2>1 DEF IInv, Renewals
<1>10. Tidings'
    <2>1. RunningPorts' = RunningPorts
        BY <1>1, <1>3 DEF RunningPorts
    <2>2. Truth' = Truth
        BY <1>1, <2>1 DEF Truth
    <2>3. Intended' = Intended
        BY <1>1, <1>4, <1>5 DEF Intended
    <2>4. (~down => Covered) /\ Recent /\ Told
        BY TidingsParts DEF IInv
    <2>5. ~down' => Covered'
        BY <1>1, <2>4 DEF Covered
    <2>6. Recent'
        BY <1>1, <1>3, <2>1, <2>4 DEF Recent, Current, Now
    <2>7. Told'
        BY <1>1, <1>4, <2>2, <2>3, <2>4 DEF Told
    <2> QED
        BY <2>5, <2>6, <2>7 DEF Tidings, Covered, Recent, Current, Told
<1> QED
    BY <1>2, <1>7, <1>8, <1>9, <1>10 DEF IInv

LEMMA Inductive == IInv /\ [Next]_vars => IInv'
<1> SUFFICES ASSUME IInv, Next PROVE IInv'
    BY Stuttering
<1>1. PICK t \in Tasks : Begin(t) \/ Proceeds(t) \/ Cancel(t)
    BY Zenon DEF Next
<1>2. Kept /\ Bar /\ Owners /\ Renewals /\ Tidings
    BY DEF IInv
<1>3. CASE Begin(t)
    <2>1. PICK job : Asking(t, job)
        BY <1>2, <1>3, BeginAsks
    <2> QED
        BY <1>2, <2>1, KeptBegin, BarBegin, OwnersBegin, RenewalsBegin, TidingsBegin
        DEF IInv
<1>4. CASE Proceeds(t)
    BY <1>2, <1>4, KeptProceeds, BarProceeds, OwnersProceeds, RenewalsProceeds,
       TidingsProceeds DEF IInv
<1>5. CASE Cancel(t)
    BY <1>2, <1>5, KeptCancel, BarCancel, OwnersCancel, RenewalsCancel, TidingsCancel
    DEF IInv
<1> QED
    BY <1>1, <1>3, <1>4, <1>5

\* The inductive invariant of the back end, for any workspace, tasks and jobs.
THEOREM Invariance == Spec => []IInv
BY AtFirst, Inductive, PTL DEF Spec

---------------------------------------------------------------------------
(* What it says *)

\* Whatever tasks hold or have still to do is of its kind: every step that a
\* handler of lsp.rs turns into is one that some action takes up.
THEOREM TypeCorrect == Spec => []TypeOK
<1>1. IInv => TypeOK
    <2> SUFFICES ASSUME IInv PROVE TypeOK
        OBVIOUS
    <2>1. Kinds
        BY DEF IInv, Kept
    <2>2. /\ status \in Items \cup {None} /\ showing \in Tasks \cup {None}
          /\ orphans \subseteq screen /\ screen \subseteq Items
        BY DEF IInv, Bar
    <2>3. ASSUME NEW t \in Tasks, NEW i \in DOMAIN todo[t]
          PROVE  todo[t][i].op \in OpNames
        <3>1. todo[t][i] \in Steps
            BY <2>1 DEF Kinds
        <3> QED
            BY <3>1, StepShape DEF OfKind
    <2>4. DOMAIN todo = Tasks
        BY <2>1 DEF Kinds
    <2> QED
        BY <2>1, <2>2, <2>3, <2>4 DEF TypeOK, Kinds
<1> QED
    BY <1>1, Invariance, PTL

\* However many handlers narrate and refresh at the same time, one item is on
\* the bar and it can be ended, but for those of cancelled requests (the lock of
\* status held over the request to the editor, show_status, lsp.rs:155-199).
THEOREM OneIsRecorded == Spec => []BarIsRecorded
<1>1. IInv => BarIsRecorded
    BY DEF IInv, Bar
<1> QED
    BY <1>1, Invariance, PTL

\* Every change of what runs is followed by a refresh of whoever has made it,
\* so that the bar is right at rest (refresh_status, lsp.rs:211-471).
THEOREM BarTellsTruth == Spec => []StatusTells
<1>1. IInv => StatusTells
    <2> SUFFICES ASSUME IInv, AtRest, ~down, ~crossed,
                        ~(status # None /\ status \notin screen)
                 PROVE  BarIsTrue
        BY DEF StatusTells
    <2>1. \A t \in Tasks : todo[t] = <<>> /\ DOMAIN todo[t] = {}
        BY DEF AtRest
    <2>2. \A t \in Tasks : ~Owes(t)
        BY <2>1 DEF Owes
    <2>3. Intended = Truth
        BY <2>2 DEF IInv, Tidings
    <2>4. showing = None
        BY <2>1 DEF IInv, Bar, Does
    <2>5. Truth = Shown
        <3>1. \A item \in screen \ orphans : item = status /\ item # None
            BY <2>4, ItemsAssumption DEF IInv, Bar, BarIsRecorded
        <3>2. status # None => status \in screen \ orphans
            BY DEF IInv, Bar
        <3>3. Shown = IF status # None THEN {status.text} ELSE {}
            BY <3>1, <3>2 DEF Shown
        <3> QED
            BY <2>3, <2>4, <3>3 DEF Intended
    <2> QED
        BY <2>5 DEF BarIsTrue, Truth
<1> QED
    BY <1>1, Invariance, PTL

\* No server is left running that nobody would find: the lock of the map is held
\* from the removal of a server to its stop (lsp.rs:624-647).
THEOREM NoneRunsUnknown == Spec => []RunningIsKnown
<1>1. IInv => RunningIsKnown
    <2> SUFFICES ASSUME IInv, NEW s \in Servers, port[s] # None, s \notin Known \cup late
                 PROVE  writer # None /\ Stop(s) \in Range(todo[writer])
        BY DEF RunningIsKnown
    <2>1. writer # None /\ Now(writer) = Stop(s)
        BY DEF IInv, Owners
    <2>2. writer \in Tasks /\ todo[writer] \in Seq(Steps)
        BY <2>1 DEF IInv, Kept, Kinds
    <2>3. \E i \in DOMAIN todo[writer] : todo[writer][i].op = "unlock"
        BY <2>1 DEF IInv, Owners
    <2>4. 1 \in DOMAIN todo[writer]
        BY <2>2, <2>3
    <2> QED
        BY <2>1, <2>4 DEF Range, Now
<1> QED
    BY <1>1, Invariance, PTL

\* A new setting reaches every server: as long as one runs with an older one,
\* somebody who cannot be cancelled is to restart or stop it, or the restart
\* that started it had been overtaken (reconfigure, lsp.rs:438-471).
THEOREM SettingReaches == Spec => []SettingIsUsed
<1>1. IInv => SettingIsUsed
    <2> SUFFICES ASSUME IInv, AtRest, NEW s \in Known, port[s] # None, using[s] # config
                 PROVE  s \in overtaken
        BY DEF SettingIsUsed
    <2>1. \A t \in Tasks : DOMAIN todo[t] = {}
        BY DEF AtRest
    <2>2. ~Pending(s)
        BY <2>1 DEF Pending
    <2> QED
        BY <2>2 DEF IInv, Renewals
<1> QED
    BY <1>1, Invariance, PTL
================================================================================
