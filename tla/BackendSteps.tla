----------------------------- MODULE BackendSteps ------------------------------
(***************************************************************************)
(* The invariant of Backend, and lemmas on what its tasks have to do: the  *)
(* kinds of steps there are, what a step turns into when it is taken, and  *)
(* what a task's list of steps looks like afterwards. The theorems they    *)
(* lead to are in BackendProofs.                                           *)
(*                                                                         *)
(* The invariant is a conjunction of parts: Kinds (what is kept, and the   *)
(* shape of what tasks have to do), Created and Shaped, Bar (the status    *)
(* bar and its lock), Owners (the lock of the map, and whose server runs), *)
(* Renewals (who still is to restart a server) and Tidings (who still is   *)
(* to refresh the status bar).                                             *)
(***************************************************************************)
EXTENDS Backend, FiniteSetTheorems, TLAPS

---------------------------------------------------------------------------
(* What a task has to do *)

Texts == {Starting, Disposing} \cup {RunningOn(P) : P \in SUBSET Ports}
Uses == {"narration", "refresh"}

Looks == {Stopping(s)[1] : s \in Servers}
         \cup {Toggling(s)[1] : s \in Servers}
         \cup {IfRunning(s, <<>>, Narrated(s)) : s \in Servers}
         \cup {IfRunning(s, Restart(s, c), <<>>) : s \in Servers, c \in Settings}

Steps ==
    Asked
    \cup [op : {"reconfigure", "unlock", "drain"}]
    \cup [op : {"show"}, text : Texts, of : Uses]
    \cup [op : {"clear"}, of : Uses]
    \cup [op : {"start"}, server : Servers, setting : Settings \cup {None}]
    \cup [op : {"bind"}, server : Servers, setting : Settings]
    \cup [op : {"stop"}, server : Servers]
    \cup [op : {"gather"}, left : SUBSET Servers, ports : SUBSET Ports]
    \cup [op : {"item"}, text : Texts]
    \cup [op : {"record"}, item : Items]
    \cup Looks

\* steps that come of another one and are taken up at once
Passing(e) == \/ e.op \in {"bind", "drain", "gather", "item", "record"}
              \/ e.op \in {"show", "clear"} /\ e.of = "refresh"

\* steps of the handlers the editor cannot cancel
Lasting == {"remove", "add", "settings", "reconfigure", "unlock"}

OfServer == {"start", "bind", "stop", "look"}

Kinds ==
    /\ servers \in [Folders -> Servers \cup {None}]
    /\ made \in 0 .. MaxServers
    /\ channels \subseteq Folders
    /\ port \in [Servers -> Ports \cup {None}]
    /\ using \in [Servers -> Settings \cup {None}]
    /\ config \in Settings
    /\ mutex \in [Servers -> Tasks \cup {None}]
    /\ readers \subseteq Tasks
    /\ writer \in Tasks \cup {None}
    /\ idle \subseteq Tasks
    /\ down \in BOOLEAN
    /\ fresh \subseteq Tasks
    /\ crossed \in BOOLEAN
    /\ late \subseteq Servers /\ overtaken \subseteq Servers
    /\ todo \in [Tasks -> Seq(Steps)]

\* a server that is to be made is nowhere yet
Created ==
    /\ \A f \in Folders : servers[f] # None => servers[f] <= made
    /\ \A s \in Servers : s > made => port[s] = None
    /\ \A t \in Tasks : \A i \in DOMAIN todo[t] :
           todo[t][i].op \in OfServer => todo[t][i].server <= made

Shaped ==
    /\ \A t \in idle : todo[t] = <<>>
    /\ \A t \in Tasks : \A i \in DOMAIN todo[t] : i # 1 => ~Passing(todo[t][i])
    /\ \A t \in Requests : \A i \in DOMAIN todo[t] : todo[t][i].op \notin Lasting

Kept == Kinds /\ Created /\ Shaped

---------------------------------------------------------------------------
(* The status bar *)

\* the requests that have been cancelled or are done
Gone == {t \in Requests : t \notin idle /\ todo[t] = <<>>}

Bar ==
    /\ status \in Items \cup {None}
    /\ showing \in Tasks \cup {None}
    /\ orphans \subseteq screen /\ screen \subseteq Items /\ IsFiniteSet(orphans)
    /\ showing # None => Does(showing, "item") \/ Does(showing, "record")
    /\ \A t \in Tasks : Does(t, "item") \/ Does(t, "record") => showing = t
    /\ \A t \in Tasks : Does(t, "item") \/ Does(t, "record") => status \notin screen
    /\ \A t \in Tasks :
           Does(t, "record") => Now(t).item \in screen \ (orphans \cup {status})
    /\ status \notin orphans
    /\ Cardinality(orphans) <= Cardinality(Gone)
    /\ BarIsRecorded

---------------------------------------------------------------------------
(* The lock of the map *)

\* the writer stops the server it has removed and gives the lock back
Owners ==
    /\ \A t \in Tasks : \A i \in DOMAIN todo[t] :
           todo[t][i].op = "unlock"
           => /\ writer = t
              /\ i = 1 \/ (i = 2 /\ todo[t][1].op \in {"stop", "drain"})
    /\ writer # None
       => \E i \in DOMAIN todo[writer] : todo[writer][i].op = "unlock"
    /\ \A t, u \in Tasks : Moves(t) /\ Moves(u) => t = u
    /\ \A t \in Tasks : \A i \in DOMAIN todo[t] :
           /\ todo[t][i].op = "remove" => servers[todo[t][i].on] # None
           /\ todo[t][i].op = "add" => servers[todo[t][i].on] = None
           /\ todo[t][i].op \in {"remove", "add"}
              => \A j \in DOMAIN todo[t] :
                     todo[t][j].op \in {"remove", "add"} /\ todo[t][j].on = todo[t][i].on
                     => i = j
    /\ \A s \in Servers :
           port[s] # None => \/ s \in Known \cup late
                             \/ writer # None /\ Now(writer) = Stop(s)

---------------------------------------------------------------------------
(* The settings *)

\* somebody who cannot be cancelled is to stop or restart the server
Pending(s) ==
    \E t \in Tasks \ Requests : \E i \in DOMAIN todo[t] :
        \/ todo[t][i].op = "reconfigure"
        \/ todo[t][i] = Stop(s)
        \/ \E c \in Settings : todo[t][i] = IfRunning(s, Restart(s, c), <<>>)

Renewals ==
    /\ \A t \in Tasks : Does(t, "bind") => mutex[Now(t).server] = t
    /\ \A s \in Known : port[s] # None /\ using[s] # config
                        => s \in overtaken \/ Pending(s)
    /\ \A t \in Tasks :
           Does(t, "bind") /\ Now(t).server \in Known /\ Now(t).setting # config
           => Now(t).server \in overtaken \/ Pending(Now(t).server)

---------------------------------------------------------------------------
(* What the bar tells *)

Due(e) == \/ e.op \in {"refresh", "gather", "reconfigure", "settings"}
          \/ e.op \in {"show", "clear"} /\ e.of = "refresh"
Owes(t) == \E i \in DOMAIN todo[t] : Due(todo[t][i])

\* what changes which servers run, or what the bar says, and is not followed by
\* a refresh of its own
Changing(e) == \/ e.op \in {"start", "bind", "stop", "remove", "add", "shutdown"}
               \/ e.op \in {"show", "clear"} /\ e.of = "narration"
               \/ \E s \in Servers : \E c \in Settings :
                      e = IfRunning(s, Restart(s, c), <<>>)

\* the text on the bar, or about to be there
Intended == IF showing # None
            THEN {IF Does(showing, "item") THEN Now(showing).text
                                           ELSE Now(showing).item.text}
            ELSE IF status # None THEN {status.text} ELSE {}
Truth == IF RunningPorts = {} \/ config \notin Visible THEN {}
         ELSE {RunningOn(RunningPorts)}

Tidings ==
    /\ ~down => \A t \in Tasks : \A i \in DOMAIN todo[t] :
           Changing(todo[t][i]) => \E j \in DOMAIN todo[t] : i < j /\ Due(todo[t][j])
    /\ \A t \in fresh :
           /\ todo[t] # <<>>
           /\ \/ /\ Now(t).op = "gather" /\ Now(t).left \subseteq Known
                 /\ Now(t).ports = {port[s] : s \in Known \ Now(t).left} \ {None}
              \/ Now(t) = Looked(RunningPorts)
    /\ ~crossed /\ ~down /\ (\A t \in Tasks : ~Owes(t)) => Intended = Truth

---------------------------------------------------------------------------
(* Lemmas about steps *)

LEMMA Texting ==
    /\ Starting \in Texts /\ Disposing \in Texts
    /\ \A P \in SUBSET Ports : RunningOn(P) \in Texts
BY DEF Texts

LEMMA Making ==
    /\ \A s \in Servers : \A c \in Settings \cup {None} : Start(s, c) \in Steps
    /\ \A s \in Servers : \A c \in Settings :
           /\ [op |-> "bind", server |-> s, setting |-> c] \in Steps
           /\ IfRunning(s, Restart(s, c), <<>>) \in Steps
    /\ \A s \in Servers : /\ Stop(s) \in Steps
                          /\ Stopping(s)[1] \in Steps /\ Toggling(s)[1] \in Steps
                          /\ IfRunning(s, <<>>, Narrated(s)) \in Steps
    /\ \A text \in Texts : /\ Show(text) \in Steps
                           /\ [op |-> "item", text |-> text] \in Steps
    /\ Clear \in Steps /\ Refresh \in Steps
    /\ \A P \in SUBSET Ports : Looked(P) \in Steps
    /\ \A op \in {"reconfigure", "unlock", "drain"} : [op |-> op] \in Steps
    /\ \A left \in SUBSET Servers, ports \in SUBSET Ports :
           [op |-> "gather", left |-> left, ports |-> ports] \in Steps
    /\ \A item \in Items : [op |-> "record", item |-> item] \in Steps
<1>1. \A s \in Servers : \A c \in Settings \cup {None} : Start(s, c) \in Steps
    BY DEF Steps, Start
<1>2. \A s \in Servers : \A c \in Settings :
           [op |-> "bind", server |-> s, setting |-> c] \in Steps
    BY DEF Steps
<1>3. \A s \in Servers : \A c \in Settings : IfRunning(s, Restart(s, c), <<>>) \in Steps
    BY DEF Steps, Looks
<1>4. \A s \in Servers : Stop(s) \in Steps
    BY DEF Steps, Stop
<1>5. \A s \in Servers : /\ Stopping(s)[1] \in Steps /\ Toggling(s)[1] \in Steps
                         /\ IfRunning(s, <<>>, Narrated(s)) \in Steps
    BY DEF Steps, Looks
<1>6. \A text \in Texts : /\ Show(text) \in Steps
                          /\ [op |-> "item", text |-> text] \in Steps
    BY DEF Steps, Show, Uses
<1>7. Clear \in Steps /\ Refresh \in Steps
    BY DEF Steps, Clear, Refresh, Uses, Asked
<1>8. \A P \in SUBSET Ports : Looked(P) \in Steps
    BY Texting DEF Steps, Looked, Uses
<1>9. \A op \in {"reconfigure", "unlock", "drain"} : [op |-> op] \in Steps
    BY DEF Steps
<1>10. \A left \in SUBSET Servers, ports \in SUBSET Ports :
           [op |-> "gather", left |-> left, ports |-> ports] \in Steps
    BY DEF Steps
<1>11. \A item \in Items : [op |-> "record", item |-> item] \in Steps
    BY DEF Steps
<1> QED
    BY <1>1, <1>2, <1>3, <1>4, <1>5, <1>6, <1>7, <1>8, <1>9, <1>10, <1>11

LEMMA AskedIsStep == Asked \subseteq Steps
BY DEF Steps

\* the operation of a step tells what else it has
OfKind(e) ==
    /\ e.op = "command" => e.name \in Names /\ e.on \in Folders \cup {None}
    /\ e.op \in {"toggle", "remove", "add"} => e.on \in Folders
    /\ e.op = "start" => e.server \in Servers /\ e.setting \in Settings \cup {None}
    /\ e.op = "bind" => e.server \in Servers /\ e.setting \in Settings
    /\ e.op = "stop" => e.server \in Servers /\ e = Stop(e.server)
    /\ e.op = "gather" => e.left \in SUBSET Servers /\ e.ports \in SUBSET Ports
    /\ e.op = "show" => e.text \in Texts /\ e.of \in Uses
    /\ e.op = "clear" => e.of \in Uses
    /\ e.op = "item" => e.text \in Texts
    /\ e.op = "record" => e.item \in Items
    /\ e.op = "look" => e \in Looks
    /\ e.op \in OpNames

LEMMA LookShape ==
    ASSUME NEW e \in Looks
    PROVE  /\ e.op = "look" /\ e.server \in Servers
           /\ \/ /\ e.then = <<Show(Disposing), Stop(e.server), Refresh>>
                 /\ e.else = <<Refresh>>
              \/ e.then = Stopping(e.server) /\ e.else = Narrated(e.server)
              \/ e.then = <<>> /\ e.else = Narrated(e.server)
              \/ \E c \in Settings : /\ e.then = Restart(e.server, c) /\ e.else = <<>>
                                     /\ e = IfRunning(e.server, Restart(e.server, c), <<>>)
BY DEF Looks, IfRunning, Stopping, Toggling

LEMMA StepShape == ASSUME NEW e \in Steps PROVE OfKind(e)
<1>1. CASE e \in Asked
    BY <1>1 DEF Asked, OfKind, Command, Toggle, FolderGone, FolderAdded, Refresh,
                NewSetting, Initialized, Shutdown, OpNames
<1>2. CASE e \in Looks
    BY <1>2, LookShape DEF OfKind, OpNames
<1>3. CASE e \notin Asked \cup Looks
    BY <1>3 DEF Steps, OfKind, Stop, OpNames
<1> QED
    BY <1>1, <1>2, <1>3

---------------------------------------------------------------------------
(* Lemmas about sequences of steps *)

\* r is q with its head replaced by new
Spliced(r, new, q) ==
    /\ r \in Seq(Steps) /\ Len(new) \in Nat /\ 1 \in DOMAIN q
    /\ DOMAIN q \subseteq Nat \ {0} /\ DOMAIN new = 1 .. Len(new)
    /\ \A i \in DOMAIN new : i \in DOMAIN r /\ r[i] = new[i]
    /\ \A j \in DOMAIN q : j # 1 => /\ Len(new) + j - 1 \in DOMAIN r
                                    /\ r[Len(new) + j - 1] = q[j]
    /\ \A i \in DOMAIN r :
           \/ i \in DOMAIN new /\ r[i] = new[i]
           \/ \E j \in DOMAIN q : j # 1 /\ i = Len(new) + j - 1 /\ r[i] = q[j]

LEMMA Splicing ==
    ASSUME NEW q \in Seq(Steps), q # <<>>, NEW new \in Seq(Steps),
           NEW r, r = new \o Tail(q)
    PROVE  Spliced(r, new, q)
<1>1. /\ Len(q) \in Nat \ {0} /\ Len(new) \in Nat
      /\ Tail(q) \in Seq(Steps) /\ Len(Tail(q)) = Len(q) - 1
      /\ \A i \in 1 .. Len(q) - 1 : Tail(q)[i] = q[i + 1]
    OBVIOUS
<1>2. /\ r \in Seq(Steps) /\ Len(r) = Len(new) + Len(q) - 1
      /\ \A i \in 1 .. Len(new) : r[i] = new[i]
      /\ \A i \in 1 .. Len(q) - 1 : r[Len(new) + i] = Tail(q)[i]
    BY <1>1
<1>3. DOMAIN r = 1 .. Len(r) /\ DOMAIN q = 1 .. Len(q) /\ DOMAIN new = 1 .. Len(new)
    BY <1>2
<1>4. \A j \in 2 .. Len(q) : /\ Len(new) + j - 1 \in 1 .. Len(r)
                             /\ r[Len(new) + j - 1] = q[j]
    <2> TAKE j \in 2 .. Len(q)
    <2>1. j - 1 \in 1 .. Len(q) - 1 /\ (j - 1) + 1 = j /\ Len(new) + (j - 1) = Len(new) + j - 1
        BY <1>1
    <2> QED
        BY <1>1, <1>2, <2>1
<1>5. \A i \in 1 .. Len(r) : i \notin 1 .. Len(new)
          => \E j \in 2 .. Len(q) : i = Len(new) + j - 1 /\ r[i] = q[j]
    <2> TAKE i \in 1 .. Len(r)
    <2> HAVE i \notin 1 .. Len(new)
    <2>1. /\ i - Len(new) + 1 \in 2 .. Len(q)
          /\ i = Len(new) + (i - Len(new) + 1) - 1
        BY <1>1, <1>2
    <2> QED
        BY <1>4, <2>1
<1>6. \A j : j \in DOMAIN q => j = 1 \/ j \in 2 .. Len(q)
    BY <1>1, <1>3
<1>7. \A j \in 2 .. Len(q) : j \in DOMAIN q /\ j # 1
    BY <1>1, <1>3
<1>8. /\ 1 \in DOMAIN q /\ DOMAIN q \subseteq Nat \ {0}
      /\ \A i \in DOMAIN new : i \in DOMAIN r
    BY <1>1, <1>2, <1>3
<1>9. \A i \in DOMAIN r :
          \/ i \in DOMAIN new /\ r[i] = new[i]
          \/ \E j \in DOMAIN q : j # 1 /\ i = Len(new) + j - 1 /\ r[i] = q[j]
    BY <1>2, <1>3, <1>5, <1>7, Zenon
<1>10. \A j \in DOMAIN q : j # 1 => /\ Len(new) + j - 1 \in DOMAIN r
                                    /\ r[Len(new) + j - 1] = q[j]
    BY <1>3, <1>4, <1>6, Zenon
<1> QED
    BY <1>1, <1>2, <1>3, <1>8, <1>9, <1>10, Zenon DEF Spliced

---------------------------------------------------------------------------
(* Lemmas about what is done to one server after the other *)

\* order goes through S
Through(order, S) ==
    /\ S \subseteq Servers
    /\ Len(order) \in Nat /\ DOMAIN order = 1 .. Len(order)
    /\ order = <<>> <=> Len(order) = 0
    /\ \A i \in 1 .. Len(order) : order[i] \in S
    /\ \A s \in S : \E i \in 1 .. Len(order) : order[i] = s

LEMMA InOrder ==
    ASSUME NEW S \in SUBSET Servers, NEW order \in Orders(S)
    PROVE  Through(order, S)
<1>1. MaxServers \in Nat
    BY FoldersAssumption
<1>2. IsFiniteSet(S)
    <2>1. IsFiniteSet(1 .. MaxServers)
        BY <1>1, FS_Interval
    <2> QED
        BY <2>1, FS_Subset DEF Servers
<1>3. Cardinality(S) \in Nat
    BY <1>2, FS_CardinalityType
<1>4. order \in [1 .. Cardinality(S) -> S] /\ Range(order) = S
    BY DEF Orders
<1>5. Len(order) = Cardinality(S) /\ DOMAIN order = 1 .. Len(order)
    BY <1>3, <1>4
<1>6. order = <<>> <=> Len(order) = 0
    BY <1>3, <1>4, <1>5
<1>7. \A s \in S : \E i \in 1 .. Len(order) : order[i] = s
    BY <1>4, <1>5 DEF Range
<1> QED
    BY <1>3, <1>4, <1>5, <1>6, <1>7 DEF Through

LEMMA ByThree ==
    ASSUME NEW n \in Nat, NEW i \in 1 .. 3 * n
    PROVE  /\ ((i - 1) \div 3) + 1 \in 1 .. n
           /\ ((i - 1) % 3) + 1 \in 1 .. 3
           /\ i = 3 * n => ((i - 1) % 3) + 1 = 3
OBVIOUS

LEMMA Lengthy ==
    ASSUME NEW n \in Nat, NEW f \in [1 .. n -> Steps]
    PROVE  Len(f) = n /\ f \in Seq(Steps)
OBVIOUS

LEMMA ByTwo ==
    ASSUME NEW n \in Nat, NEW i \in 1 .. 2 * n
    PROVE  /\ ((i - 1) \div 2) + 1 \in 1 .. n
           /\ ((i - 1) % 2) + 1 \in 1 .. 2
OBVIOUS

\* where a step of one is found
Places(order) ==
    /\ 1 * Len(order) = Len(order)
    /\ \A i \in 1 .. Len(order) : /\ ((i - 1) \div 1) + 1 = i
                                  /\ ((i - 1) % 1) + 1 = 1

LEMMA ByOne == ASSUME NEW order, Len(order) \in Nat PROVE Places(order)
BY DEF Places

\* the servers of S are started, each with its narration
Starts(new, S) ==
    /\ new \in Seq(Steps)
    /\ \A i \in DOMAIN new : \/ new[i] = Show(Starting) \/ new[i] = Refresh
                             \/ \E s \in S : new[i] = Start(s, None)
    /\ new # <<>> => Len(new) \in DOMAIN new /\ new[Len(new)] = Refresh

LEMMA NarratedInTurn ==
    ASSUME NEW order, NEW S, Through(order, S), order # <<>>, NEW new,
           new = [i \in 1 .. 3 * Len(order) |-> new[i]],
           \A i \in 1 .. 3 * Len(order) :
               new[i] = Narrated(order[((i - 1) \div 3) + 1])[((i - 1) % 3) + 1]
    PROVE  Starts(new, S)
<1> DEFINE n == Len(order)
<1>1. n \in Nat \ {0} /\ S \subseteq Servers
    BY DEF Through
<1>2. ASSUME NEW i \in 1 .. 3 * n
      PROVE  /\ \/ new[i] = Show(Starting) \/ new[i] = Refresh
                \/ \E s \in S : new[i] = Start(s, None)
             /\ i = 3 * n => new[i] = Refresh
             /\ new[i] \in Steps
    <2> DEFINE k == ((i - 1) \div 3) + 1
               m == ((i - 1) % 3) + 1
    <2>a. n \in Nat
        BY <1>1
    <2>b. k \in 1 .. n /\ m \in 1 .. 3 /\ (i = 3 * n => m = 3)
        BY <2>a, ByThree, Zenon
    <2>2. new[i] = Narrated(order[k])[m]
        OBVIOUS
    <2> HIDE DEF k, m
    <2>1. k \in 1 .. n /\ m \in {1, 2, 3} /\ (i = 3 * n => m = 3)
        BY <2>b
    <2>3. order[k] \in S
        BY <2>1 DEF Through
    <2>4. /\ m = 1 => new[i] = Show(Starting)
          /\ m = 2 => new[i] = Start(order[k], None)
          /\ m = 3 => new[i] = Refresh
        <3>1. /\ Narrated(order[k])[1] = Show(Starting)
              /\ Narrated(order[k])[2] = Start(order[k], None)
              /\ Narrated(order[k])[3] = Refresh
            BY DEF Narrated
        <3> QED
            BY <2>2, <3>1
    <2>5. Show(Starting) \in Steps /\ Refresh \in Steps
          /\ \A s \in Servers : Start(s, None) \in Steps
        BY Making, Texting
    <2> QED
        BY <1>1, <2>1, <2>3, <2>4, <2>5
<1>3. 3 * n \in Nat \ {0} /\ 3 * n \in 1 .. 3 * n
    BY <1>1
<1> HIDE DEF n
<1>4. DOMAIN new = 1 .. 3 * n /\ new \in [1 .. 3 * n -> Steps]
    BY <1>2 DEF n
<1>5. Len(new) = 3 * n /\ new \in Seq(Steps)
    BY <1>3, <1>4, Lengthy
<1> QED
    BY <1>2, <1>3, <1>4, <1>5 DEF Starts

LEMMA EachNarrated ==
    ASSUME NEW order, NEW S, Through(order, S), NEW new
    PROVE  new = Each(Narrated, order) => Starts(new, S)
<1> SUFFICES ASSUME new = IF order = <<>> THEN <<>>
                          ELSE [i \in 1 .. Len(Narrated(order[1])) * Len(order) |->
                                    Narrated(order[((i - 1) \div Len(Narrated(order[1]))) + 1])
                                        [((i - 1) % Len(Narrated(order[1]))) + 1]]
             PROVE  Starts(new, S)
    BY Zenon DEF Each
<1>1. CASE order = <<>>
    BY <1>1 DEF Starts
<1>2. CASE order # <<>>
    <2>1. Len(Narrated(order[1])) = 3
        BY DEF Narrated
    <2>2. new = [i \in 1 .. 3 * Len(order) |->
                     Narrated(order[((i - 1) \div 3) + 1])[((i - 1) % 3) + 1]]
        BY <1>2, <2>1, Zenon
    <2>3. /\ new = [i \in 1 .. 3 * Len(order) |-> new[i]]
          /\ \A i \in 1 .. 3 * Len(order) :
                 new[i] = Narrated(order[((i - 1) \div 3) + 1])[((i - 1) % 3) + 1]
        BY <2>2, Zenon
    <2> QED
        BY <1>2, <2>3, NarratedInTurn
<1> QED
    BY <1>1, <1>2

\* a is what the command does to the servers in turn
InTurn(a, name, order) ==
    a = IF order = <<>> THEN <<>>
        ELSE LET k == Len(Work(name, order[1]))
             IN [i \in 1 .. k * Len(order) |->
                     Work(name, order[((i - 1) \div k) + 1])[((i - 1) % k) + 1]]

LEMMA EachWorkStart ==
    ASSUME NEW name, name = "start", NEW order, NEW S, Through(order, S), NEW new,
           InTurn(new, name, order)
    PROVE  Starts(new, S)
<1>a. new = IF order = <<>> THEN <<>>
             ELSE [i \in 1 .. Len(Work(name, order[1])) * Len(order) |->
                       Work(name,
                            order[((i - 1) \div Len(Work(name, order[1]))) + 1])
                           [((i - 1) % Len(Work(name, order[1]))) + 1]]
    BY Zenon DEF InTurn
<1>0. \A s : Work(name, s) = Narrated(s)
    BY DEF Work
<1>1. CASE order = <<>>
    BY <1>a, <1>1 DEF Starts
<1>2. CASE order # <<>>
    <2>1. Len(Narrated(order[1])) = 3
        BY DEF Narrated
    <2>a. Len(Work(name, order[1])) = 3
        BY <1>0, <2>1, Zenon
    <2>2. new = [i \in 1 .. 3 * Len(order) |->
                     Work(name, order[((i - 1) \div 3) + 1])[((i - 1) % 3) + 1]]
        BY <1>a, <1>2, <2>a, Zenon
    <2>3. /\ new = [i \in 1 .. 3 * Len(order) |-> new[i]]
          /\ \A i \in 1 .. 3 * Len(order) :
                 new[i] = Narrated(order[((i - 1) \div 3) + 1])[((i - 1) % 3) + 1]
        BY <1>0, <2>2, Zenon
    <2> QED
        BY <1>2, <2>3, NarratedInTurn
<1> QED
    BY <1>1, <1>2

LEMMA EachWorkRestart ==
    ASSUME NEW name, name = "restart", NEW order, NEW S, Through(order, S),
           config \in Settings, NEW new, InTurn(new, name, order)
    PROVE  /\ new \in Seq(Steps)
           /\ \A i \in DOMAIN new : \E s \in S : \/ new[i] = Stop(s)
                                                    \/ new[i] = Start(s, config)
           /\ order # <<>> => new # <<>>
<1>a. new = IF order = <<>> THEN <<>>
             ELSE [i \in 1 .. Len(Work(name, order[1])) * Len(order) |->
                       Work(name,
                            order[((i - 1) \div Len(Work(name, order[1]))) + 1])
                           [((i - 1) % Len(Work(name, order[1]))) + 1]]
    BY Zenon DEF InTurn
<1>0. \A s : Work(name, s) = Restart(s, config)
    BY DEF Work
<1>1. CASE order = <<>>
    BY <1>a, <1>1
<1>2. CASE order # <<>>
    <2> DEFINE n == Len(order)
    <2>0. n \in Nat \ {0} /\ S \subseteq Servers
        BY <1>2 DEF Through
    <2>1. Len(Restart(order[1], config)) = 2
        BY DEF Restart
    <2>2. Len(Work(name, order[1])) = 2
        BY <1>0, <2>1, Zenon
    <2>3. new = [i \in 1 .. 2 * n |->
                     Work(name, order[((i - 1) \div 2) + 1])[((i - 1) % 2) + 1]]
        BY <1>a, <1>2, <2>2, Zenon
    <2>4. /\ new = [i \in 1 .. 2 * n |-> new[i]]
          /\ \A i \in 1 .. 2 * n :
                 new[i] = Restart(order[((i - 1) \div 2) + 1], config)[((i - 1) % 2) + 1]
        BY <1>0, <2>3, Zenon
    <2>5. ASSUME NEW i \in 1 .. 2 * n
          PROVE  /\ \E s \in S : new[i] = Stop(s) \/ new[i] = Start(s, config)
                 /\ new[i] \in Steps
        <3> DEFINE k == ((i - 1) \div 2) + 1
                   m == ((i - 1) % 2) + 1
        <3>1. k \in 1 .. n /\ m \in {1, 2}
            BY <2>0, ByTwo
        <3>2. new[i] = Restart(order[k], config)[m]
            BY <2>4
        <3> HIDE DEF k, m
        <3>3. order[k] \in S
            BY <3>1 DEF Through
        <3>4. /\ Restart(order[k], config)[1] = Stop(order[k])
              /\ Restart(order[k], config)[2] = Start(order[k], config)
            BY DEF Restart
        <3>5. \A s \in Servers : Stop(s) \in Steps /\ Start(s, config) \in Steps
            BY Making
        <3> QED
            BY <2>0, <3>1, <3>2, <3>3, <3>4, <3>5
    <2>6. 2 * n \in Nat \ {0}
        BY <2>0
    <2> HIDE DEF n
    <2>7. DOMAIN new = 1 .. 2 * n /\ new \in [1 .. 2 * n -> Steps]
        BY <2>4, <2>5
    <2>8. Len(new) = 2 * n /\ new \in Seq(Steps)
        BY <2>6, <2>7, Lengthy
    <2>9. new # <<>>
        BY <2>6, <2>8
    <2> QED
        BY <2>5, <2>7, <2>8, <2>9
<1> QED
    BY <1>1, <1>2

\* a step for each server in order
Once(new, order, S) ==
    /\ new \in Seq(Steps) /\ DOMAIN new = 1 .. Len(order)
    /\ \A i \in DOMAIN new : order[i] \in S /\ new[i].server = order[i]
    /\ \A s \in S : \E i \in DOMAIN new : order[i] = s

LEMMA OnceEach ==
    ASSUME NEW order, NEW S, Through(order, S), NEW new,
           new = [i \in 1 .. Len(order) |-> new[i]],
           \A i \in 1 .. Len(order) : new[i] \in Steps /\ new[i].server = order[i]
    PROVE  Once(new, order, S)
<1>1. new \in [1 .. Len(order) -> Steps] /\ Len(order) \in Nat
    BY DEF Through
<1>2. new \in Seq(Steps) /\ DOMAIN new = 1 .. Len(order)
    BY <1>1
<1> QED
    BY <1>2 DEF Through, Once

LEMMA OnceNothing ==
    ASSUME NEW order, NEW S, Through(order, S), order = <<>>, NEW new, new = <<>>
    PROVE  Once(new, order, S) /\ DOMAIN new = {}
<1>1. new \in Seq(Steps) /\ DOMAIN new = {}
    <2>1. <<>> \in Seq(Steps) /\ DOMAIN <<>> = {}
        OBVIOUS
    <2> QED
        BY <2>1, Zenon
<1>2. 1 .. Len(order) = {}
    BY DEF Through
<1>3. S = {}
    BY <1>2 DEF Through
<1> QED
    BY <1>1, <1>2, <1>3, Zenon DEF Once

LEMMA EachToggling ==
    ASSUME NEW order, NEW S, Through(order, S), NEW new
    PROVE  new = Each(Toggling, order)
           => /\ Once(new, order, S)
              /\ \A i \in DOMAIN new : new[i] = Toggling(order[i])[1]
<1> SUFFICES ASSUME new = IF order = <<>> THEN <<>>
                          ELSE [i \in 1 .. Len(Toggling(order[1])) * Len(order) |->
                                    Toggling(order[((i - 1) \div Len(Toggling(order[1]))) + 1])
                                        [((i - 1) % Len(Toggling(order[1]))) + 1]]
             PROVE  /\ Once(new, order, S)
                    /\ \A i \in DOMAIN new : new[i] = Toggling(order[i])[1]
    BY Zenon DEF Each
<1>1. Len(order) \in Nat /\ (order = <<>> <=> Len(order) = 0)
    BY DEF Through
<1>2. Places(order)
    BY <1>1, ByOne
<1>3. CASE order = <<>>
    BY <1>3, OnceNothing
<1>4. CASE order # <<>>
    <2>1. Len(Toggling(order[1])) = 1
        BY DEF Toggling
    <2>2. new = [i \in 1 .. Len(Toggling(order[1])) * Len(order) |->
                     Toggling(order[((i - 1) \div Len(Toggling(order[1]))) + 1])
                         [((i - 1) % Len(Toggling(order[1]))) + 1]]
        BY <1>4, Zenon
    <2>3. new = [i \in 1 .. Len(order) |-> Toggling(order[((i - 1) \div 1) + 1])[((i - 1) % 1) + 1]]
        BY <2>1, <2>2, <1>2, Zenon DEF Places
    <2>4. new = [i \in 1 .. Len(order) |-> new[i]]
        BY <2>3, Zenon
    <2>5. \A i \in 1 .. Len(order) : new[i] = Toggling(order[i])[1]
        BY <1>2, <2>3, Zenon DEF Places
    <2>6. \A i \in 1 .. Len(order) : new[i] = Toggling(order[i])[1]
        BY <2>5 DEF Toggling
    <2>7. \A s \in Servers : Toggling(s)[1] \in Steps
        BY Making
    <2>8. \A s : Toggling(s)[1].server = s
        BY DEF Toggling, IfRunning
    <2>9. \A i \in 1 .. Len(order) : new[i] \in Steps /\ new[i].server = order[i]
        <3>1. \A i \in 1 .. Len(order) : order[i] \in Servers
            BY DEF Through
        <3> QED
            BY <2>6, <2>7, <2>8, <3>1, Zenon
    <2>10. Once(new, order, S)
        BY <2>4, <2>9, OnceEach
    <2> QED
        BY <2>4, <2>6, <2>10, Zenon
<1> QED
    BY <1>3, <1>4

LEMMA EachStop ==
    ASSUME NEW order, NEW S, Through(order, S), NEW new
    PROVE  new = Each(LAMBDA s : <<Stop(s)>>, order)
           => /\ Once(new, order, S)
              /\ \A i \in DOMAIN new : new[i] = Stop(order[i])
<1> SUFFICES ASSUME new = IF order = <<>> THEN <<>>
                          ELSE [i \in 1 .. Len(<<Stop(order[1])>>) * Len(order) |->
                                    <<Stop(order[((i - 1) \div Len(<<Stop(order[1])>>)) + 1])>>
                                        [((i - 1) % Len(<<Stop(order[1])>>)) + 1]]
             PROVE  /\ Once(new, order, S)
                    /\ \A i \in DOMAIN new : new[i] = Stop(order[i])
    BY Zenon DEF Each
<1>1. Len(order) \in Nat /\ (order = <<>> <=> Len(order) = 0)
    BY DEF Through
<1>2. Places(order)
    BY <1>1, ByOne
<1>3. CASE order = <<>>
    BY <1>3, OnceNothing
<1>4. CASE order # <<>>
    <2>1. Len(<<Stop(order[1])>>) = 1
        OBVIOUS
    <2>2. new = [i \in 1 .. Len(<<Stop(order[1])>>) * Len(order) |->
                     <<Stop(order[((i - 1) \div Len(<<Stop(order[1])>>)) + 1])>>
                         [((i - 1) % Len(<<Stop(order[1])>>)) + 1]]
        BY <1>4, Zenon
    <2>3. new = [i \in 1 .. Len(order) |-> <<Stop(order[((i - 1) \div 1) + 1])>>[((i - 1) % 1) + 1]]
        BY <2>1, <2>2, <1>2, Zenon DEF Places
    <2>4. new = [i \in 1 .. Len(order) |-> new[i]]
        BY <2>3, Zenon
    <2>5. \A i \in 1 .. Len(order) : new[i] = <<Stop(order[i])>>[1]
        BY <1>2, <2>3, Zenon DEF Places
    <2>6. \A i \in 1 .. Len(order) : new[i] = Stop(order[i])
        BY <2>5
    <2>7. \A s \in Servers : Stop(s) \in Steps
        BY Making
    <2>8. \A s : Stop(s).server = s
        BY DEF Stop
    <2>9. \A i \in 1 .. Len(order) : new[i] \in Steps /\ new[i].server = order[i]
        <3>1. \A i \in 1 .. Len(order) : order[i] \in Servers
            BY DEF Through
        <3> QED
            BY <2>6, <2>7, <2>8, <3>1, Zenon
    <2>10. Once(new, order, S)
        BY <2>4, <2>9, OnceEach
    <2> QED
        BY <2>4, <2>6, <2>10, Zenon
<1> QED
    BY <1>3, <1>4

LEMMA EachRestarted ==
    ASSUME NEW order, NEW S, Through(order, S), NEW c \in Settings, NEW new
    PROVE  new = Each(LAMBDA s : <<IfRunning(s, Restart(s, c), <<>>)>>, order)
           => /\ Once(new, order, S)
              /\ \A i \in DOMAIN new :
                     new[i] = IfRunning(order[i], Restart(order[i], c), <<>>)
<1> DEFINE W(s) == <<IfRunning(s, Restart(s, c), <<>>)>>
<1> SUFFICES ASSUME new = IF order = <<>> THEN <<>>
                          ELSE [i \in 1 .. Len(W(order[1])) * Len(order) |->
                                    W(order[((i - 1) \div Len(W(order[1]))) + 1])
                                        [((i - 1) % Len(W(order[1]))) + 1]]
             PROVE  /\ Once(new, order, S)
                    /\ \A i \in DOMAIN new :
                           new[i] = IfRunning(order[i], Restart(order[i], c), <<>>)
    BY Zenon DEF Each
<1>1. Len(order) \in Nat /\ (order = <<>> <=> Len(order) = 0)
    BY DEF Through
<1>2. Places(order)
    BY <1>1, ByOne
<1>3. CASE order = <<>>
    BY <1>3, OnceNothing
<1>4. CASE order # <<>>
    <2>1. Len(W(order[1])) = 1
        OBVIOUS
    <2>2. new = [i \in 1 .. Len(W(order[1])) * Len(order) |->
                     W(order[((i - 1) \div Len(W(order[1]))) + 1])
                         [((i - 1) % Len(W(order[1]))) + 1]]
        BY <1>4, Zenon
    <2>3. new = [i \in 1 .. Len(order) |->
                     W(order[((i - 1) \div 1) + 1])[((i - 1) % 1) + 1]]
        BY <2>1, <2>2, <1>2, Zenon DEF Places
    <2>4. new = [i \in 1 .. Len(order) |-> new[i]]
        BY <2>3, Zenon
    <2>5. \A i \in 1 .. Len(order) : new[i] = W(order[i])[1]
        BY <1>2, <2>3, Zenon DEF Places
    <2>6. \A i \in 1 .. Len(order) : new[i] = IfRunning(order[i], Restart(order[i], c), <<>>)
        BY <2>5
    <2>7. \A s \in Servers : IfRunning(s, Restart(s, c), <<>>) \in Steps
        BY Making
    <2>8. \A s : IfRunning(s, Restart(s, c), <<>>).server = s
        BY DEF IfRunning
    <2>9. \A i \in 1 .. Len(order) : new[i] \in Steps /\ new[i].server = order[i]
        <3>1. \A i \in 1 .. Len(order) : order[i] \in Servers
            BY DEF Through
        <3> QED
            BY <2>6, <2>7, <2>8, <3>1, Zenon
    <2>10. Once(new, order, S)
        BY <2>4, <2>9, OnceEach
    <2> QED
        BY <2>4, <2>6, <2>10, Zenon
<1> QED
    BY <1>3, <1>4

LEMMA EachWorkStop ==
    ASSUME NEW name, name = "stop", NEW order, NEW S, Through(order, S), NEW new,
           InTurn(new, name, order)
    PROVE  /\ Once(new, order, S)
           /\ \A i \in DOMAIN new : new[i] = Stopping(order[i])[1]
<1>a. new = IF order = <<>> THEN <<>>
             ELSE [i \in 1 .. Len(Work(name, order[1])) * Len(order) |->
                       Work(name, order[((i - 1) \div Len(Work(name, order[1]))) + 1])
                           [((i - 1) % Len(Work(name, order[1]))) + 1]]
    BY Zenon DEF InTurn
<1>0. \A s : Work(name, s)[1] = Stopping(s)[1] /\ Len(Work(name, s)) = 1
    <2> TAKE s
    <2>1. Work(name, s) = Stopping(s)
        BY DEF Work
    <2>2. (Stopping(s))[1] = Stopping(s)[1] /\ Len(Stopping(s)) = 1
        BY DEF Stopping
    <2> QED
        BY <2>1, <2>2, Zenon
<1>1. Len(order) \in Nat /\ (order = <<>> <=> Len(order) = 0)
    BY DEF Through
<1>2. Places(order)
    BY <1>1, ByOne
<1>3. CASE order = <<>>
    BY <1>a, <1>3, OnceNothing
<1>4. CASE order # <<>>
    <2>1. Len(Work(name, order[1])) = 1
        BY <1>0, Zenon
    <2>2. new = [i \in 1 .. Len(Work(name, order[1])) * Len(order) |->
                     Work(name, order[((i - 1) \div Len(Work(name, order[1]))) + 1])
                         [((i - 1) % Len(Work(name, order[1]))) + 1]]
        BY <1>a, <1>4, Zenon
    <2>3. new = [i \in 1 .. Len(order) |->
                     Work(name, order[((i - 1) \div 1) + 1])[((i - 1) % 1) + 1]]
        BY <2>1, <2>2, <1>2, Zenon DEF Places
    <2>4. new = [i \in 1 .. Len(order) |-> new[i]]
        BY <2>3, Zenon
    <2>5. \A i \in 1 .. Len(order) : new[i] = Work(name, order[i])[1]
        BY <1>2, <2>3, Zenon DEF Places
    <2>6. \A i \in 1 .. Len(order) : new[i] = Stopping(order[i])[1]
        BY <1>0, <2>5, Zenon
    <2>7. \A s \in Servers : Stopping(s)[1] \in Steps
        BY Making
    <2>8. \A s : Stopping(s)[1].server = s
        BY DEF Stopping, IfRunning
    <2>9. \A i \in 1 .. Len(order) : new[i] \in Steps /\ new[i].server = order[i]
        <3>1. \A i \in 1 .. Len(order) : order[i] \in Servers
            BY DEF Through
        <3> QED
            BY <2>6, <2>7, <2>8, <3>1, Zenon
    <2>10. Once(new, order, S)
        BY <2>4, <2>9, OnceEach
    <2> QED
        BY <2>4, <2>6, <2>10, Zenon
<1> QED
    BY <1>3, <1>4

LEMMA EachWorkOpen ==
    ASSUME NEW name, name = "open", NEW order, NEW S, Through(order, S), NEW new,
           InTurn(new, name, order)
    PROVE  /\ Once(new, order, S)
           /\ \A i \in DOMAIN new : new[i] = IfRunning(order[i], <<>>, Narrated(order[i]))
<1>a. new = IF order = <<>> THEN <<>>
             ELSE [i \in 1 .. Len(Work(name, order[1])) * Len(order) |->
                       Work(name, order[((i - 1) \div Len(Work(name, order[1]))) + 1])
                           [((i - 1) % Len(Work(name, order[1]))) + 1]]
    BY Zenon DEF InTurn
<1>0. \A s : Work(name, s)[1] = IfRunning(s, <<>>, Narrated(s)) /\ Len(Work(name, s)) = 1
    <2> TAKE s
    <2>1. Work(name, s) = <<IfRunning(s, <<>>, Narrated(s))>>
        BY DEF Work
    <2>2. /\ (<<IfRunning(s, <<>>, Narrated(s))>>)[1] = IfRunning(s, <<>>, Narrated(s))
          /\ Len(<<IfRunning(s, <<>>, Narrated(s))>>) = 1
        BY SMT
    <2> QED
        BY <2>1, <2>2, Zenon
<1>1. Len(order) \in Nat /\ (order = <<>> <=> Len(order) = 0)
    BY DEF Through
<1>2. Places(order)
    BY <1>1, ByOne
<1>3. CASE order = <<>>
    BY <1>a, <1>3, OnceNothing
<1>4. CASE order # <<>>
    <2>1. Len(Work(name, order[1])) = 1
        BY <1>0, Zenon
    <2>2. new = [i \in 1 .. Len(Work(name, order[1])) * Len(order) |->
                     Work(name, order[((i - 1) \div Len(Work(name, order[1]))) + 1])
                         [((i - 1) % Len(Work(name, order[1]))) + 1]]
        BY <1>a, <1>4, Zenon
    <2>3. new = [i \in 1 .. Len(order) |->
                     Work(name, order[((i - 1) \div 1) + 1])[((i - 1) % 1) + 1]]
        BY <2>1, <2>2, <1>2, Zenon DEF Places
    <2>4. new = [i \in 1 .. Len(order) |-> new[i]]
        BY <2>3, Zenon
    <2>5. \A i \in 1 .. Len(order) : new[i] = Work(name, order[i])[1]
        BY <1>2, <2>3, Zenon DEF Places
    <2>6. \A i \in 1 .. Len(order) : new[i] = IfRunning(order[i], <<>>, Narrated(order[i]))
        BY <1>0, <2>5, Zenon
    <2>7. \A s \in Servers : IfRunning(s, <<>>, Narrated(s)) \in Steps
        BY Making
    <2>8. \A s : IfRunning(s, <<>>, Narrated(s)).server = s
        BY DEF IfRunning
    <2>9. \A i \in 1 .. Len(order) : new[i] \in Steps /\ new[i].server = order[i]
        <3>1. \A i \in 1 .. Len(order) : order[i] \in Servers
            BY DEF Through
        <3> QED
            BY <2>6, <2>7, <2>8, <3>1, Zenon
    <2>10. Once(new, order, S)
        BY <2>4, <2>9, OnceEach
    <2> QED
        BY <2>4, <2>6, <2>10, Zenon
<1> QED
    BY <1>3, <1>4

---------------------------------------------------------------------------
(* Lemmas about what a step turns into *)

\* new is what may come of e, with n servers made
Fits(e, new, n) ==
    /\ new \in Seq(Steps)
    /\ \A i \in DOMAIN new :
           /\ i # 1 => ~Passing(new[i])
           /\ new[i].op \in OfServer => new[i].server <= n
           /\ new[i].op \notin {"remove", "add", "settings"}
           /\ new[i].op = "reconfigure" => e.op = "settings"
           /\ new[i].op = "bind" => e.op = "start"
           /\ new[i].op = "item" => e.op = "show"
           /\ new[i].op = "record" => e.op = "item"
           /\ new[i].op = "unlock" => e.op = "remove" /\ i = 2 /\ new[1].op = "stop"
           /\ Changing(new[i]) => \/ Changing(e)
                                  \/ \E j \in DOMAIN new : i < j /\ Due(new[j])
    /\ Due(e) => \/ \E i \in DOMAIN new : Due(new[i])
                 \/ e.op \in {"show", "clear"}

Turns(t, new) ==
    /\ todo[t] \in Seq(Steps) /\ todo[t] # <<>>
    /\ todo' = [todo EXCEPT ![t] = new \o Tail(todo[t])]

\* a look, and whether a refresh is to follow it
LEMMA Looking ==
    \A s : /\ ~Changing(Stopping(s)[1]) /\ ~Passing(Stopping(s)[1])
           /\ ~Changing(Toggling(s)[1]) /\ ~Passing(Toggling(s)[1])
           /\ ~Changing(IfRunning(s, <<>>, Narrated(s)))
           /\ ~Passing(IfRunning(s, <<>>, Narrated(s)))
           /\ \A c : ~Passing(IfRunning(s, Restart(s, c), <<>>))
                     /\ IfRunning(s, Restart(s, c), <<>>).op = "look"
           /\ Stopping(s)[1].op = "look" /\ Toggling(s)[1].op = "look"
           /\ IfRunning(s, <<>>, Narrated(s)).op = "look"
<1> TAKE s
<1>1. /\ Stopping(s)[1].op = "look" /\ Toggling(s)[1].op = "look"
      /\ IfRunning(s, <<>>, Narrated(s)).op = "look"
      /\ \A c : IfRunning(s, Restart(s, c), <<>>).op = "look"
    BY DEF Stopping, Toggling, IfRunning
<1>2. /\ Stopping(s)[1].else # <<>> /\ Toggling(s)[1].else # <<>>
      /\ IfRunning(s, <<>>, Narrated(s)).else # <<>>
    BY DEF Stopping, Toggling, IfRunning, Narrated
<1>3. \A u, c : IfRunning(u, Restart(u, c), <<>>).else = <<>>
    BY DEF IfRunning
<1>4. \A e : e.op = "look" => ~Passing(e)
    BY DEF Passing
<1>5. \A e : e.op = "look" /\ e.else # <<>> => ~Changing(e)
    BY <1>3, Zenon DEF Changing
<1> QED
    BY <1>1, <1>2, <1>4, <1>5

LEMMA Plainly ==
    /\ \A s : /\ Stop(s).op = "stop" /\ Stop(s).server = s /\ ~Passing(Stop(s))
              /\ ~Due(Stop(s))
              /\ \A c : /\ Start(s, c).op = "start" /\ Start(s, c).server = s
                        /\ ~Passing(Start(s, c)) /\ ~Due(Start(s, c))
    /\ Refresh.op = "refresh" /\ ~Passing(Refresh) /\ Due(Refresh) /\ ~Changing(Refresh)
    /\ \A text : Show(text).op = "show" /\ ~Passing(Show(text)) /\ ~Due(Show(text))
    /\ Clear.op = "clear" /\ ~Passing(Clear) /\ ~Due(Clear)
<1>1. /\ \A s : /\ Stop(s).op = "stop" /\ Stop(s).server = s /\ ~Passing(Stop(s))
                /\ ~Due(Stop(s))
                /\ \A c : /\ Start(s, c).op = "start" /\ Start(s, c).server = s
                          /\ ~Passing(Start(s, c)) /\ ~Due(Start(s, c))
      /\ Refresh.op = "refresh" /\ ~Passing(Refresh) /\ Due(Refresh)
      /\ \A text : Show(text).op = "show" /\ ~Passing(Show(text)) /\ ~Due(Show(text))
      /\ Clear.op = "clear" /\ ~Passing(Clear) /\ ~Due(Clear)
    BY DEF Stop, Start, Refresh, Show, Clear, Passing, Due
<1>2. ~Changing(Refresh)
    BY DEF Changing, Refresh, IfRunning
<1> QED
    BY <1>1, <1>2

LEMMA FitStarts ==
    ASSUME NEW e, NEW a, NEW S, NEW n \in Nat, S \subseteq 1 .. n, Starts(a, S), ~Due(e)
    PROVE  Fits(e, a, n)
<1>1. \A i \in DOMAIN a :
          /\ a[i].op \in {"show", "start", "refresh"} /\ ~Passing(a[i])
          /\ a[i].op \in OfServer => a[i].server <= n
    BY Plainly DEF Starts, OfServer
<1>2. \A i \in DOMAIN a : i = Len(a) \/ (i < Len(a) /\ Len(a) \in DOMAIN a)
    BY DEF Starts
<1>3. \A i \in DOMAIN a : Changing(a[i]) => \E j \in DOMAIN a : i < j /\ Due(a[j])
    BY <1>2, Plainly DEF Starts
<1> QED
    BY <1>1, <1>3 DEF Fits, Starts

LEMMA FitTries ==
    ASSUME NEW e, NEW a, NEW order, NEW S, NEW n \in Nat, S \subseteq 1 .. n,
           Once(a, order, S), ~Due(e),
           \A i \in DOMAIN a : a[i].op = "look" /\ ~Changing(a[i])
    PROVE  Fits(e, a, n)
<1>1. \A i \in DOMAIN a : ~Passing(a[i]) /\ a[i].server <= n
    <2> TAKE i \in DOMAIN a
    <2>1. a[i].server \in S
        BY DEF Once
    <2>2. a[i].server \in 1 .. n
        BY <2>1, Zenon
    <2>3. ~Passing(a[i])
        BY DEF Passing
    <2> QED
        BY <2>2, <2>3
<1> QED
    BY <1>1 DEF Fits, Once

\* what is done to servers ends with the step b
LEMMA FitEnded ==
    ASSUME NEW e, NEW a \in Seq(Steps), NEW S, NEW n \in Nat, S \subseteq 1 .. n,
           \A i \in DOMAIN a : /\ a[i].op \in {"look", "stop", "start"}
                               /\ a[i].server \in S,
           NEW new, NEW b,
           \/ b = Refresh
           \/ b = Clear /\ Changing(e) /\ ~Due(e),
           new = a \o <<b>>
    PROVE  /\ Fits(e, new, n)
           /\ \A i \in DOMAIN a : i \in DOMAIN new /\ new[i] = a[i]
<1>1. b \in Steps /\ ~Passing(b) /\ b.op \in {"refresh", "clear"}
    BY Making, Plainly
<1>2. /\ new \in Seq(Steps) /\ DOMAIN new = 1 .. Len(a) + 1 /\ Len(a) \in Nat
      /\ DOMAIN a = 1 .. Len(a)
      /\ new[Len(a) + 1] = b /\ \A i \in 1 .. Len(a) : new[i] = a[i]
    BY <1>1
<1>3. /\ \A i \in DOMAIN a : i \in DOMAIN new /\ new[i] = a[i] /\ i < Len(a) + 1
      /\ Len(a) + 1 \in DOMAIN new
      /\ \A i \in DOMAIN new : i \in DOMAIN a \/ i = Len(a) + 1
    BY <1>2
<1>4. \A i \in DOMAIN new :
          /\ new[i].op \in {"look", "stop", "start", "refresh", "clear"}
          /\ ~Passing(new[i])
          /\ new[i].op \in OfServer => new[i].server <= n
    <2> TAKE i \in DOMAIN new
    <2>1. CASE i \in DOMAIN a
        <3>1. /\ new[i].op \in {"look", "stop", "start"} /\ new[i].server \in S
            BY <1>3, <2>1
        <3>a. new[i].server \in 1 .. n
            BY <3>1, Zenon
        <3>2. new[i].server <= n
            BY <3>a
        <3> QED
            BY <3>1, <3>2 DEF Passing
    <2>2. CASE i = Len(a) + 1
        BY <1>1, <1>2, <2>2 DEF OfServer
    <2> QED
        BY <1>3, <2>1, <2>2
<1>5. CASE b = Refresh
    <2>1. \A i \in DOMAIN new : Changing(new[i]) => i < Len(a) + 1
        BY <1>2, <1>3, <1>5, Plainly
    <2>2. Due(new[Len(a) + 1])
        BY <1>2, <1>5, Plainly
    <2> QED
        BY <1>2, <1>3, <1>4, <2>1, <2>2 DEF Fits
<1>6. CASE Changing(e) /\ ~Due(e)
    BY <1>2, <1>3, <1>4, <1>6 DEF Fits
<1> QED
    BY <1>5, <1>6

LEMMA FitNothing ==
    ASSUME NEW e, NEW n, Due(e) => e.op \in {"show", "clear"}
    PROVE  Fits(e, <<>>, n)
BY DEF Fits

LEMMA HeadShape ==
    ASSUME Kept, NEW t \in Tasks, todo[t] # <<>>
    PROVE  /\ todo[t] \in Seq(Steps) /\ 1 \in DOMAIN todo[t]
           /\ Now(t) = todo[t][1] /\ Now(t) \in Steps /\ OfKind(Now(t))
           /\ Now(t).op \in OfServer => Now(t).server \in Servers /\ Now(t).server <= made
<1>1. todo[t] \in Seq(Steps)
    BY DEF Kept, Kinds
<1>2. 1 \in DOMAIN todo[t] /\ todo[t][1] \in Steps
    BY <1>1
<1>3. OfKind(todo[t][1])
    BY <1>2, StepShape
<1>4. todo[t][1].op \in OfServer => todo[t][1].server <= made
    BY <1>2 DEF Kept, Created
<1>5. todo[t][1].op \in OfServer => todo[t][1].server \in Servers
    BY <1>3, LookShape DEF OfKind, OfServer
<1> QED
    BY <1>1, <1>2, <1>3, <1>4, <1>5 DEF Now

LEMMA KnownMade ==
    ASSUME Kept
    PROVE  /\ made \in Nat /\ Known \in SUBSET Servers /\ Known \subseteq 1 .. made
           /\ \A f \in Folders : servers[f] # None => servers[f] \in Known
           /\ \A s \in Known : \E f \in Folders : servers[f] = s
           /\ \A f \in Folders \cup {None} : Found(f) \subseteq Known
<1>1. /\ servers \in [Folders -> Servers \cup {None}] /\ made \in Nat
      /\ MaxServers \in Nat
    BY FoldersAssumption DEF Kept, Kinds
<1>2. \A f \in Folders : servers[f] # None => servers[f] <= made
    BY DEF Kept, Created
<1>3. \A s \in Known : \E f \in Folders : servers[f] = s /\ s # None
    BY <1>1 DEF Known, Range
<1>4. \A f \in Folders : servers[f] # None => servers[f] \in Known
    BY <1>1 DEF Known, Range
<1>5. \A s \in Known : s \in Servers /\ s \in 1 .. made
    BY <1>1, <1>2, <1>3 DEF Servers
<1>6. \A f \in Folders \cup {None} : Found(f) \subseteq Known
    BY <1>4 DEF Found
<1> QED
    BY <1>1, <1>3, <1>4, <1>5, <1>6

\* every server that is known is to be restarted with the setting in force
Restarts(new) ==
    \A s \in Known : \E i \in DOMAIN new :
        new[i] = IfRunning(s, Restart(s, config), <<>>)

LEMMA Emptied ==
    /\ \A a \in Seq(Steps) : a \o <<>> = a
    /\ <<>> \in Seq(Steps)
OBVIOUS

LEMMA LooksUpTurns ==
    ASSUME Kept, NEW t \in Tasks, LooksUp(t)
    PROVE  \E new : /\ Turns(t, new) /\ Fits(Now(t), new, made)
                    /\ Now(t).op = "reconfigure" => Restarts(new)
<1> DEFINE e == Now(t)
<1>1. todo[t] # <<>>
    BY Zenon DEF LooksUp
<1>2. /\ todo[t] \in Seq(Steps) /\ OfKind(e)
      /\ e.op = "command" => e.name \in Names /\ e.on \in Folders \cup {None}
      /\ e.op = "toggle" => e.on \in Folders
    BY <1>1, HeadShape DEF OfKind
<1>3. config \in Settings
    BY DEF Kept, Kinds
<1>4. /\ made \in Nat /\ Known \in SUBSET Servers /\ Known \subseteq 1 .. made
      /\ \A f \in Folders \cup {None} : Found(f) \subseteq Known
    BY KnownMade
<1>5. \A new : Becomes(t, new) => Turns(t, new)
    BY <1>1, <1>2, Zenon DEF Becomes, Turns
<1>6. CASE e.op = "command"
    <2>1. \E order \in Orders(Found(e.on)) :
              Becomes(t, Each(LAMBDA s : Work(e.name, s), order)
                         \o IF e.name = "restart" /\ order # <<>>
                            THEN <<Refresh>> ELSE <<>>)
        BY <1>6, Zenon DEF LooksUp
    <2>2. PICK order \in Orders(Found(e.on)) : \E a :
              /\ InTurn(a, e.name, order)
              /\ Becomes(t, a \o IF e.name = "restart" /\ order # <<>>
                                 THEN <<Refresh>> ELSE <<>>)
        BY <2>1, Zenon DEF Each, InTurn
    <2>3. PICK a : /\ InTurn(a, e.name, order)
                   /\ Becomes(t, a \o IF e.name = "restart" /\ order # <<>>
                                      THEN <<Refresh>> ELSE <<>>)
        BY <2>2, Zenon
    <2>4. Becomes(t, a \o IF e.name = "restart" /\ order # <<>> THEN <<Refresh>> ELSE <<>>)
        BY <2>3, Zenon
    <2>5. /\ Found(e.on) \in SUBSET Servers /\ Found(e.on) \subseteq 1 .. made
          /\ e.name \in Names /\ ~Due(e)
        BY <1>2, <1>4, <1>6 DEF Due
    <2>6. Through(order, Found(e.on))
        BY <2>5, InOrder
    <2>7. CASE e.name = "start"
        <3>1. Starts(a, Found(e.on))
            BY <2>3, <2>6, <2>7, EachWorkStart, Zenon
        <3>2. Fits(e, a, made) /\ a \in Seq(Steps)
            BY <1>4, <2>5, <3>1, FitStarts DEF Starts
        <3>3. Becomes(t, a)
            BY <2>4, <2>7, <3>2, Emptied
        <3> QED
            BY <1>5, <1>6, <3>2, <3>3
    <2>8. CASE e.name = "stop" \/ e.name = "open"
        <3>1. Once(a, order, Found(e.on))
            BY <2>3, <2>6, <2>8, EachWorkStop, EachWorkOpen, Zenon
        <3>2. \A i \in DOMAIN a : \/ a[i] = Stopping(order[i])[1]
                                  \/ a[i] = IfRunning(order[i], <<>>, Narrated(order[i]))
            <4>1. CASE e.name = "stop"
                BY <2>3, <2>6, <4>1, EachWorkStop
            <4>2. CASE e.name = "open"
                BY <2>3, <2>6, <4>2, EachWorkOpen
            <4> QED
                BY <2>8, <4>1, <4>2
        <3>3. \A i \in DOMAIN a : a[i].op = "look" /\ ~Changing(a[i])
            BY <3>2, Looking, Zenon
        <3>4. Fits(e, a, made) /\ a \in Seq(Steps)
            BY <1>4, <2>5, <3>1, <3>3, FitTries DEF Once
        <3>5. Becomes(t, a)
            BY <2>4, <2>8, <3>4, Emptied
        <3> QED
            BY <1>5, <1>6, <3>4, <3>5
    <2>9. CASE e.name = "restart"
        <3>1. /\ a \in Seq(Steps)
              /\ \A i \in DOMAIN a : \E s \in Found(e.on) : \/ a[i] = Stop(s)
                                                            \/ a[i] = Start(s, config)
            BY <1>3, <2>3, <2>6, <2>9, EachWorkRestart
        <3>2. \A i \in DOMAIN a : /\ a[i].op \in {"look", "stop", "start"}
                                  /\ a[i].server \in Found(e.on)
            BY <3>1, Plainly
        <3>3. CASE order = <<>>
            <4>1. a = <<>>
                <5>1. Found(e.on) = {}
                    BY <2>6, <3>3 DEF Through
                <5>2. DOMAIN a = {}
                    BY <3>1, <5>1, Zenon
                <5> QED
                    BY <3>1, <5>2
            <4>2. Becomes(t, <<>>)
                BY <2>4, <3>1, <3>3, <4>1, Emptied
            <4>3. Fits(e, <<>>, made)
                BY <2>5, FitNothing
            <4> QED
                BY <1>5, <1>6, <4>2, <4>3
        <3>4. CASE order # <<>>
            <4>1. Becomes(t, a \o <<Refresh>>)
                BY <2>4, <2>9, <3>4
            <4>2. Fits(e, a \o <<Refresh>>, made)
                BY <1>4, <2>5, <3>1, <3>2, FitEnded
            <4> QED
                BY <1>5, <1>6, <4>1, <4>2
        <3> QED
            BY <3>3, <3>4
    <2> QED
        BY <2>5, <2>7, <2>8, <2>9 DEF Names
<1>7. CASE e.op = "toggle"
    <2>1. \E order \in Orders(Found(e.on)) : Becomes(t, Each(Toggling, order))
        BY <1>7, Zenon DEF LooksUp
    <2>picked. PICK order \in Orders(Found(e.on)) : \E a :
              a = Each(Toggling, order) /\ Becomes(t, a)
        BY <2>1, Zenon
    <2>2. PICK a : a = Each(Toggling, order) /\ Becomes(t, a)
        BY <2>picked, Zenon
    <2>3. Through(order, Found(e.on)) /\ Found(e.on) \subseteq 1 .. made
        BY <1>2, <1>4, <1>7, InOrder
    <2>4. /\ Once(a, order, Found(e.on))
          /\ \A i \in DOMAIN a : a[i] = Toggling(order[i])[1]
        BY <2>2, <2>3, EachToggling, Zenon
    <2>5. \A i \in DOMAIN a : a[i].op = "look" /\ ~Changing(a[i])
        BY <2>4, Looking, Zenon
    <2>6. Fits(e, a, made)
        BY <1>4, <1>7, <2>3, <2>4, <2>5, FitTries DEF Due
    <2> QED
        BY <1>5, <1>7, <2>2, <2>6, Zenon
<1>8. CASE e.op = "initialized"
    <2>1. \E order \in Orders(Known) :
              Becomes(t, IF AutoStart THEN Each(Narrated, order) ELSE <<>>)
        BY <1>8, Zenon DEF LooksUp
    <2>picked. PICK order \in Orders(Known) : \E a :
              a = Each(Narrated, order) /\ Becomes(t, IF AutoStart THEN a ELSE <<>>)
        BY <2>1, Zenon
    <2>2. PICK a : a = Each(Narrated, order) /\ Becomes(t, IF AutoStart THEN a ELSE <<>>)
        BY <2>picked, Zenon
    <2>3. Starts(a, Known)
        BY <1>4, <2>2, InOrder, EachNarrated, Zenon
    <2>4. Fits(e, a, made) /\ Fits(e, <<>>, made)
        BY <1>4, <1>8, <2>3, FitStarts, FitNothing DEF Due
    <2>5. Becomes(t, a) \/ Becomes(t, <<>>)
        BY <2>2, Zenon
    <2> QED
        BY <1>5, <1>8, <2>4, <2>5, Zenon
<1>9. CASE e.op = "shutdown"
    <2>1. \E order \in Orders(Known) :
              Becomes(t, Each(LAMBDA s : <<Stop(s)>>, order) \o <<Clear>>)
        BY <1>9, Zenon DEF LooksUp
    <2>picked. PICK order \in Orders(Known) : \E a :
              /\ a = Each(LAMBDA s : <<Stop(s)>>, order)
              /\ Becomes(t, a \o <<Clear>>)
        BY <2>1, Zenon
    <2>2. PICK a :
              /\ a = Each(LAMBDA s : <<Stop(s)>>, order)
              /\ Becomes(t, a \o <<Clear>>)
        BY <2>picked, Zenon
    <2>3. Becomes(t, a \o <<Clear>>)
        BY <2>2, Zenon
    <2>4. /\ Once(a, order, Known)
          /\ \A i \in DOMAIN a : a[i] = Stop(order[i])
        BY <1>4, <2>2, InOrder, EachStop, Zenon
    <2>5. /\ a \in Seq(Steps)
          /\ \A i \in DOMAIN a : /\ a[i].op \in {"look", "stop", "start"}
                                 /\ a[i].server \in Known
        BY <2>4, Plainly DEF Once
    <2>6. Changing(e) /\ ~Due(e)
        BY <1>9 DEF Changing, Due
    <2>7. Fits(e, a \o <<Clear>>, made)
        BY <1>4, <2>5, <2>6, FitEnded
    <2> QED
        BY <1>5, <1>9, <2>3, <2>7
<1>10. CASE e.op = "reconfigure"
    <2>1. \E order \in Orders(Known) :
              Becomes(t, Each(LAMBDA s : <<IfRunning(s, Restart(s, config), <<>>)>>, order)
                         \o <<Refresh>>)
        BY <1>10, Zenon DEF LooksUp
    <2>picked. PICK order \in Orders(Known) : \E a :
              /\ a = Each(LAMBDA s : <<IfRunning(s, Restart(s, config), <<>>)>>, order)
              /\ Becomes(t, a \o <<Refresh>>)
        BY <2>1, Zenon
    <2>2. PICK a :
              /\ a = Each(LAMBDA s : <<IfRunning(s, Restart(s, config), <<>>)>>, order)
              /\ Becomes(t, a \o <<Refresh>>)
        BY <2>picked, Zenon
    <2>3. Becomes(t, a \o <<Refresh>>)
        BY <2>2, Zenon
    <2>4. /\ Once(a, order, Known)
          /\ \A i \in DOMAIN a : a[i] = IfRunning(order[i], Restart(order[i], config), <<>>)
        BY <1>3, <1>4, <2>2, InOrder, EachRestarted, Zenon
    <2>5. /\ a \in Seq(Steps)
          /\ \A i \in DOMAIN a : /\ a[i].op \in {"look", "stop", "start"}
                                 /\ a[i].server \in Known
        BY <2>4, Looking DEF Once
    <2>6. /\ Fits(e, a \o <<Refresh>>, made)
          /\ \A i \in DOMAIN a : /\ i \in DOMAIN (a \o <<Refresh>>)
                                 /\ (a \o <<Refresh>>)[i] = a[i]
        BY <1>4, <2>5, FitEnded
    <2>7. \A s \in Known : \E i \in DOMAIN a : order[i] = s
        BY <2>4 DEF Once
    <2>8. Restarts(a \o <<Refresh>>)
        BY <2>4, <2>6, <2>7, Zenon DEF Restarts
    <2> QED
        BY <1>5, <2>3, <2>6, <2>8, Zenon
<1> QED
    BY <1>6, <1>7, <1>8, <1>9, <1>10, Zenon DEF LooksUp

LEMMA FitOne ==
    ASSUME NEW e, NEW n, NEW x \in Steps,
           x.op \notin {"remove", "add", "settings", "unlock"},
           x.op = "reconfigure" => e.op = "settings",
           x.op = "bind" => e.op = "start",
           x.op = "item" => e.op = "show",
           x.op = "record" => e.op = "item",
           x.op \in OfServer => x.server <= n,
           Changing(x) => Changing(e),
           Due(e) => Due(x) \/ e.op \in {"show", "clear"}
    PROVE  Fits(e, <<x>>, n)
<1>1. /\ <<x>> \in Seq(Steps) /\ DOMAIN <<x>> = {1} /\ <<x>>[1] = x
    OBVIOUS
<1> QED
    BY <1>1, Zenon DEF Fits

Turned(t, new) == Turns(t, new) /\ Fits(Now(t), new, made')

LEMMA TurnsBecomes ==
    ASSUME NEW t \in Tasks, NEW new, Becomes(t, new), todo[t] # <<>>,
           todo[t] \in Seq(Steps), Fits(Now(t), new, made')
    PROVE  Turned(t, new)
BY DEF Becomes, Turns, Turned

\* steps after which nothing is left
Ending(t) ==
    \/ Unlocks(t) \/ StartFindsRunning(t) \/ Binds(t)
    \/ StopFindsNothing(t) \/ StopAnswers(t) \/ ClearStatus(t) \/ Records(t)

LEMMA EndingTurns ==
    ASSUME Kept, NEW t \in Tasks, Ending(t)
    PROVE  Turned(t, <<>>)
<1>1. /\ Done(t) /\ todo[t] # <<>>
      /\ Now(t).op \in {"unlock", "start", "bind", "stop", "drain", "clear", "record"}
    BY DEF Ending, Unlocks, StartFindsRunning, Binds, StopFindsNothing, StopAnswers,
           ClearStatus, Records, Clears, Does, Now
<1>2. Fits(Now(t), <<>>, made')
    BY <1>1, FitNothing DEF Due
<1> QED
    BY <1>1, <1>2, HeadShape, TurnsBecomes DEF Done

LEMMA ConfiguresTurns ==
    ASSUME Kept, NEW t \in Tasks, Configures(t)
    PROVE  Turned(t, <<[op |-> "reconfigure"]>>)
<1> DEFINE x == [op |-> "reconfigure"]
<1>1. todo[t] # <<>> /\ Now(t).op = "settings" /\ Becomes(t, <<x>>)
    BY DEF Configures, Does, Now
<1>2. /\ x \in Steps /\ x.op = "reconfigure" /\ Due(x) /\ ~Changing(x)
    BY Making DEF Due, Changing, IfRunning
<1> HIDE DEF x
<1>3. Fits(Now(t), <<x>>, made')
    BY <1>1, <1>2, FitOne DEF OfServer
<1>4. Turned(t, <<x>>)
    BY <1>1, <1>3, HeadShape, TurnsBecomes
<1> QED
    BY <1>4 DEF x

Binding(t) == [op |-> "bind", server |-> Now(t).server,
               setting |-> IF Now(t).setting = None THEN config ELSE Now(t).setting]

LEMMA StartTakesTurns ==
    ASSUME Kept, NEW t \in Tasks, StartTakes(t)
    PROVE  /\ Turned(t, <<Binding(t)>>) /\ made' = made
           /\ Binding(t).setting \in Settings
<1> DEFINE x == Binding(t)
<1>1. todo[t] # <<>> /\ Now(t).op = "start" /\ Becomes(t, <<x>>) /\ made' = made
    BY DEF StartTakes, Does, Now, Binding, table
<1>2. /\ Now(t).server \in Servers /\ Now(t).server <= made
      /\ Now(t).setting \in Settings \cup {None} /\ config \in Settings
    BY <1>1, HeadShape DEF OfKind, OfServer, Kept, Kinds
<1>3. /\ x \in Steps /\ x.op = "bind" /\ x.server = Now(t).server
      /\ x.setting \in Settings
    BY <1>2, Making DEF Binding
<1>4. Changing(Now(t)) /\ ~Due(Now(t))
    BY <1>1 DEF Changing, Due
<1> HIDE DEF x
<1>5. Fits(Now(t), <<x>>, made')
    BY <1>1, <1>2, <1>3, <1>4, FitOne
<1>6. Turned(t, <<x>>)
    BY <1>1, <1>5, HeadShape, TurnsBecomes
<1> QED
    BY <1>1, <1>3, <1>6 DEF x

LEMMA StopTakesTurns ==
    ASSUME Kept, NEW t \in Tasks, StopTakes(t)
    PROVE  Turned(t, <<[op |-> "drain"]>>)
<1> DEFINE x == [op |-> "drain"]
<1>1. todo[t] # <<>> /\ Now(t).op = "stop" /\ Becomes(t, <<x>>)
    BY DEF StopTakes, Does, Now
<1>2. x \in Steps /\ x.op = "drain"
    BY Making
<1>3. Changing(Now(t)) /\ ~Due(Now(t))
    BY <1>1 DEF Changing, Due
<1> HIDE DEF x
<1>4. Fits(Now(t), <<x>>, made')
    BY <1>2, <1>3, FitOne DEF OfServer
<1>5. Turned(t, <<x>>)
    BY <1>1, <1>4, HeadShape, TurnsBecomes
<1> QED
    BY <1>5 DEF x

LEMMA FitGathering ==
    ASSUME NEW e, NEW n, NEW left \in SUBSET Servers, NEW ports \in SUBSET Ports
    PROVE  Fits(e, <<Gathering(left, ports)>>, n)
<1> DEFINE x == Gathering(left, ports)
<1>1. x \in Steps /\ x.op = "gather"
    BY Making DEF Gathering
<1>2. Due(x) /\ ~Changing(x)
    BY <1>1 DEF Due, Changing, IfRunning
<1> HIDE DEF x
<1>3. Fits(e, <<x>>, n)
    BY <1>1, <1>2, FitOne DEF OfServer
<1> QED
    BY <1>3 DEF x

LEMMA RefreshBeginsTurns ==
    ASSUME Kept, NEW t \in Tasks, RefreshBegins(t)
    PROVE  Turned(t, <<Gathering(Known, {})>>)
<1>1. todo[t] # <<>> /\ Becomes(t, <<Gathering(Known, {})>>)
    BY DEF RefreshBegins, Does
<1>2. Fits(Now(t), <<Gathering(Known, {})>>, made')
    BY KnownMade, FitGathering
<1> QED
    BY <1>1, <1>2, HeadShape, TurnsBecomes

LEMMA GatherShape ==
    ASSUME NEW e \in Steps, e.op = "gather"
    PROVE  /\ e = Gathering(e.left, e.ports)
           /\ e.left \in SUBSET Servers /\ e.ports \in SUBSET Ports
<1>1. e \in [op : {"gather"}, left : SUBSET Servers, ports : SUBSET Ports]
    <2>1. e \notin Asked
        BY DEF Asked, Command, Toggle, FolderGone, FolderAdded, Refresh, NewSetting,
               Initialized, Shutdown
    <2>2. e \notin Looks
        BY LookShape
    <2> QED
        BY <2>1, <2>2 DEF Steps
<1> QED
    BY <1>1 DEF Gathering

\* what a look at one more server adds
GathersOne(t, s) ==
    Gathering(Now(t).left \ {s}, Now(t).ports \cup ({port[s]} \ {None}))

LEMMA GathersTurns ==
    ASSUME Kept, NEW t \in Tasks, Gathers(t)
    PROVE  \E s \in Now(t).left : Turned(t, <<GathersOne(t, s)>>)
<1>1. todo[t] # <<>> /\ Now(t).op = "gather"
    BY DEF Gathers, Does, Now
<1>2. /\ Now(t) = Gathering(Now(t).left, Now(t).ports)
      /\ Now(t).left \in SUBSET Servers /\ Now(t).ports \in SUBSET Ports
    BY <1>1, HeadShape, GatherShape
<1>3. PICK s \in Now(t).left : Becomes(t, <<GathersOne(t, s)>>)
    BY DEF Gathers, GathersOne
<1>5. {port[s]} \ {None} \subseteq Ports
    BY <1>2 DEF Kept, Kinds
<1>6. Fits(Now(t), <<GathersOne(t, s)>>, made')
    BY <1>2, <1>5, FitGathering DEF GathersOne
<1> QED
    BY <1>1, <1>3, <1>6, HeadShape, TurnsBecomes

LEMMA LookedShape ==
    ASSUME NEW P \in SUBSET Ports
    PROVE  /\ Looked(P) \in Steps /\ Looked(P).op \in {"show", "clear"}
           /\ Looked(P).of = "refresh"
           /\ P = {} => Looked(P).op = "clear"
           /\ P # {} => Looked(P).op = "show" /\ Looked(P).text = RunningOn(P)
           /\ Due(Looked(P)) /\ ~Changing(Looked(P))
<1>1. /\ Looked(P) \in Steps /\ Looked(P).op \in {"show", "clear"}
      /\ Looked(P).of = "refresh"
      /\ P = {} => Looked(P).op = "clear"
      /\ P # {} => Looked(P).op = "show" /\ Looked(P).text = RunningOn(P)
    BY Making DEF Looked
<1> QED
    BY <1>1 DEF Due, Changing, IfRunning

LEMMA GatheredTurns ==
    ASSUME Kept, NEW t \in Tasks, Gathered(t)
    PROVE  Turned(t, <<Looked(Now(t).ports)>>) /\ Now(t).ports \in SUBSET Ports
<1> DEFINE x == Looked(Now(t).ports)
<1>1. todo[t] # <<>> /\ Now(t).op = "gather" /\ Becomes(t, <<x>>)
    BY DEF Gathered, Does, Now
<1>2. Now(t).ports \in SUBSET Ports
    BY <1>1, HeadShape DEF OfKind
<1>3. x \in Steps /\ x.op \in {"show", "clear"} /\ Due(x) /\ ~Changing(x)
    BY <1>2, LookedShape
<1> HIDE DEF x
<1>4. Fits(Now(t), <<x>>, made')
    BY <1>3, FitOne DEF OfServer
<1>5. Turned(t, <<x>>)
    BY <1>1, <1>4, HeadShape, TurnsBecomes
<1> QED
    BY <1>2, <1>5 DEF x

Itemizing(text) == [op |-> "item", text |-> text]

LEMMA ShowStatusTurns ==
    ASSUME Kept, NEW t \in Tasks, ShowStatus(t)
    PROVE  /\ todo[t] # <<>> /\ Now(t).op = "show" /\ showing = None
           /\ Now(t).text \in Texts
           /\ \/ /\ Turned(t, <<>>) /\ config \notin Visible /\ Clears(t)
              \/ /\ Turned(t, <<>>) /\ config \in Visible
                 /\ status # None /\ status.text = Now(t).text
                 /\ UNCHANGED bar
              \/ /\ Turned(t, <<Itemizing(Now(t).text)>>) /\ config \in Visible
                 /\ ~(status # None /\ status.text = Now(t).text)
                 /\ showing' = t /\ screen' = screen \ {status}
                 /\ UNCHANGED <<status, orphans>>
<1> DEFINE x == Itemizing(Now(t).text)
<1>1. todo[t] # <<>> /\ Now(t).op = "show" /\ showing = None
    BY DEF ShowStatus, Does, Now
<1>2. Now(t).text \in Texts
    BY <1>1, HeadShape DEF OfKind
<1>3. Fits(Now(t), <<>>, made')
    BY <1>1, FitNothing
<1>4. Fits(Now(t), <<x>>, made')
    <2>1. x \in Steps /\ x.op = "item"
        BY <1>2, Making DEF Itemizing
    <2> HIDE DEF x
    <2>2. ~Changing(x)
        BY <2>1 DEF Changing, IfRunning
    <2> QED
        BY <1>1, <2>1, <2>2, FitOne DEF OfServer
<1>5. /\ Becomes(t, <<>>) => Turned(t, <<>>)
      /\ Becomes(t, <<x>>) => Turned(t, <<x>>)
    BY <1>1, <1>3, <1>4, HeadShape, TurnsBecomes
<1>6. \/ /\ config \notin Visible /\ Clears(t) /\ Becomes(t, <<>>)
      \/ /\ config \in Visible /\ status # None /\ status.text = Now(t).text
         /\ Becomes(t, <<>>) /\ UNCHANGED bar
      \/ /\ config \in Visible /\ ~(status # None /\ status.text = Now(t).text)
         /\ showing' = t /\ screen' = screen \ {status}
         /\ Becomes(t, <<x>>) /\ UNCHANGED <<status, orphans>>
    BY Zenon DEF ShowStatus, Clears, Done, Itemizing
<1> QED
    BY <1>1, <1>2, <1>5, <1>6, Zenon

LEMMA FreeToken ==
    ASSUME Kept, Bar, NEW t \in Tasks, Does(t, "item")
    PROVE  \E token \in Tokens :
               token \notin {item.token : item \in (screen \cup {status}) \ {None}}
<1>1. showing = t /\ ~Does(showing, "record")
    BY DEF Bar, Does
<1>2. \A item \in screen \ orphans : item = status
    BY <1>1 DEF Bar, BarIsRecorded
<1>3. IsFiniteSet(Requests) /\ Cardinality(Requests) \in Nat
    BY FoldersAssumption, FS_CardinalityType
<1>4. IsFiniteSet(Gone) /\ Cardinality(Gone) <= Cardinality(Requests)
      /\ Cardinality(Gone) \in Nat
    <2>1. Gone \subseteq Requests
        BY DEF Gone
    <2> QED
        BY <1>3, <2>1, FS_Subset, FS_CardinalityType
<1> DEFINE held == orphans \cup {status}
           f == [item \in held |-> item.token]
<1>5. IsFiniteSet(orphans) /\ Cardinality(orphans) <= Cardinality(Gone)
      /\ Cardinality(orphans) \in Nat
    BY FS_CardinalityType DEF Bar
<1>6. IsFiniteSet(held) /\ Cardinality(held) <= Cardinality(Requests) + 1
      /\ Cardinality(held) \in Nat
    <2>1. /\ IsFiniteSet(held)
          /\ Cardinality(held) = Cardinality(orphans)
             \/ Cardinality(held) = Cardinality(orphans) + 1
        BY <1>5, FS_AddElement
    <2> HIDE DEF held
    <2> QED
        BY <1>3, <1>4, <1>5, <2>1
<1> DEFINE marks == {f[item] : item \in held}
<1>7. IsFiniteSet(marks) /\ Cardinality(marks) <= Cardinality(held)
      /\ Cardinality(marks) \in Nat
    <2> HIDE DEF held
    <2>1. f \in [held -> marks]
        OBVIOUS
    <2>2. \A m \in marks : \E item \in held : f[item] = m
        OBVIOUS
    <2>3. f \in Surjection(held, marks)
        BY <2>1, <2>2 DEF Surjection
    <2> HIDE DEF marks, f
    <2> QED
        BY <1>6, <2>3, FS_Surjection, FS_CardinalityType
<1>8. IsFiniteSet(Tokens) /\ Cardinality(Tokens) = 3 + Cardinality(Requests)
    <2>1. 3 + Cardinality(Requests) \in Int
        BY <1>3
    <2>2. /\ IsFiniteSet(1 .. 3 + Cardinality(Requests))
          /\ Cardinality(1 .. 3 + Cardinality(Requests)) = 3 + Cardinality(Requests)
        BY <1>3, <2>1, FS_Interval
    <2> QED
        BY <2>2 DEF Tokens
<1>9. ~(Tokens \subseteq marks)
    <2> HIDE DEF marks, held
    <2>1. Tokens \subseteq marks => Cardinality(Tokens) <= Cardinality(marks)
        BY <1>7, FS_Subset
    <2> QED
        BY <1>3, <1>6, <1>7, <1>8, <2>1
<1>10. {item.token : item \in (screen \cup {status}) \ {None}} \subseteq marks
    BY <1>2
<1> QED
    BY <1>9, <1>10

Recording(item) == [op |-> "record", item |-> item]

\* an item that nobody has is shown
LEMMA BeginsTurns ==
    ASSUME Kept, Bar, NEW t \in Tasks, Begins(t)
    PROVE  \E new \in Items : /\ new.text = Now(t).text
                              /\ new \notin screen \cup {status}
                              /\ screen' = screen \cup {new}
                              /\ Turned(t, <<Recording(new)>>)
<1> DEFINE taken == {item.token : item \in (screen \cup {status}) \ {None}}
           token == CHOOSE token \in Tokens : token \notin taken
           new == [token |-> token, text |-> Now(t).text]
<1>1. todo[t] # <<>> /\ Now(t).op = "item" /\ Does(t, "item")
    BY DEF Begins, Does, Now
<1>2. \E i \in Tokens : i \notin taken
    BY <1>1, FreeToken, Zenon
<1>3. token \in Tokens /\ token \notin taken
    BY <1>2
<1>4. /\ screen' = screen \cup {new}
      /\ Becomes(t, <<Recording(new)>>)
    BY DEF Begins, Recording
<1>5. Now(t).text \in Texts
    BY <1>1, HeadShape DEF OfKind
<1> HIDE DEF token
<1>6. new \in Items /\ new.text = Now(t).text /\ new.token = token
    BY <1>3, <1>5 DEF Items, Texts
<1>7. new \notin screen \cup {status}
    <2>1. new # None
        BY <1>6, ItemsAssumption
    <2> HIDE DEF new
    <2> QED
        BY <1>3, <1>6, <2>1
<1> HIDE DEF new
<1>8. Fits(Now(t), <<Recording(new)>>, made')
    <2> DEFINE x == Recording(new)
    <2>1. x \in Steps /\ x.op = "record"
        BY <1>6, Making DEF Recording
    <2>3. ~Due(Now(t))
        BY <1>1 DEF Due
    <2> HIDE DEF x
    <2>2. ~Changing(x)
        BY <2>1 DEF Changing, IfRunning
    <2>4. Fits(Now(t), <<x>>, made')
        BY <1>1, <2>1, <2>2, <2>3, FitOne DEF OfServer
    <2> QED
        BY <2>4 DEF x
<1>9. Turned(t, <<Recording(new)>>)
    BY <1>1, <1>4, <1>8, HeadShape, TurnsBecomes
<1> QED
    BY <1>4, <1>6, <1>7, <1>9

Unlock == [op |-> "unlock"]

LEMMA RemovesTurns ==
    ASSUME Kept, Owners, NEW t \in Tasks, Removes(t)
    PROVE  /\ Now(t).on \in Folders /\ servers[Now(t).on] \in Known
           /\ Turned(t, <<Stop(servers[Now(t).on]), Unlock>>)
<1> DEFINE s == servers[Now(t).on]
           new == <<Stop(s), Unlock>>
<1>1. /\ todo[t] # <<>> /\ Now(t).op = "remove" /\ Becomes(t, new)
      /\ made' = made
    BY DEF Removes, Does, Now, Unlock
<1>2. Now(t).on \in Folders
    BY <1>1, HeadShape DEF OfKind
<1>3. s # None
    BY <1>1, HeadShape DEF Owners
<1>4. s \in Known /\ s \in Servers /\ s <= made
    BY <1>2, <1>3, KnownMade
<1>5. /\ Stop(s) \in Steps /\ Stop(s).op = "stop" /\ Stop(s).server = s
      /\ ~Passing(Stop(s))
    BY <1>4, Making, Plainly
<1>6. /\ Unlock \in Steps /\ Unlock.op = "unlock" /\ ~Passing(Unlock)
      /\ ~Changing(Unlock)
    BY Making DEF Unlock, Passing, Changing, IfRunning
<1>7. Changing(Now(t)) /\ ~Due(Now(t))
    BY <1>1 DEF Changing, Due
<1>8. /\ new \in Seq(Steps) /\ DOMAIN new = {1, 2}
      /\ new[1] = Stop(s) /\ new[2] = Unlock
    BY <1>5, <1>6
<1> HIDE DEF new, s
<1>9. Fits(Now(t), new, made')
    BY <1>1, <1>4, <1>5, <1>6, <1>7, <1>8 DEF Fits, OfServer
<1>10. Turned(t, new)
    BY <1>1, <1>9, HeadShape, TurnsBecomes
<1> QED
    BY <1>2, <1>4, <1>10 DEF new, s

\* two steps and a refresh
LEMMA FitThree ==
    ASSUME NEW e, NEW n, NEW a \in Steps, NEW b \in Steps,
           a.op \in {"show", "start", "stop"}, ~Passing(a),
           b.op \in {"show", "start", "stop"}, ~Passing(b),
           a.op \in OfServer => a.server <= n,
           b.op \in OfServer => b.server <= n
    PROVE  Fits(e, <<a, b, Refresh>>, n)
<1> DEFINE new == <<a, b, Refresh>>
<1>1. Refresh \in Steps
    BY Making
<1>2. /\ new \in Seq(Steps) /\ DOMAIN new = {1, 2, 3}
      /\ new[1] = a /\ new[2] = b /\ new[3] = Refresh
    BY <1>1
<1>3. Refresh.op = "refresh" /\ ~Passing(Refresh) /\ Due(Refresh) /\ ~Changing(Refresh)
    BY Plainly
<1> HIDE DEF new
<1>4. Fits(e, new, n)
    BY <1>2, <1>3 DEF Fits, OfServer
<1> QED
    BY <1>4 DEF new

LEMMA FitNarrated ==
    ASSUME NEW e, NEW n, NEW s \in Servers, s <= n
    PROVE  Fits(e, Narrated(s), n)
<1>1. Show(Starting) \in Steps /\ Start(s, None) \in Steps
    BY Making, Texting
<1> QED
    BY <1>1, Plainly, FitThree DEF Narrated, OfServer

LEMMA AddsTurns ==
    ASSUME Kept, NEW t \in Tasks, Adds(t)
    PROVE  /\ Now(t).on \in Folders
           /\ \/ Turned(t, Narrated(made'))
              \/ Turned(t, <<>>)
<1>1. /\ todo[t] # <<>> /\ Now(t).op = "add"
      /\ Becomes(t, IF AutoStart THEN Narrated(made') ELSE <<>>)
      /\ made' = made + 1 /\ made < MaxServers
    BY DEF Adds, Does, Now
<1>2. Now(t).on \in Folders
    BY <1>1, HeadShape DEF OfKind
<1>3. made' \in Servers /\ made' <= made'
    BY <1>1, FoldersAssumption DEF Kept, Kinds, Servers
<1>4. Fits(Now(t), Narrated(made'), made') /\ Fits(Now(t), <<>>, made')
    BY <1>1, <1>3, FitNarrated, FitNothing DEF Due
<1>5. /\ Becomes(t, Narrated(made')) => Turned(t, Narrated(made'))
      /\ Becomes(t, <<>>) => Turned(t, <<>>)
    BY <1>1, <1>4, HeadShape, TurnsBecomes
<1> QED
    BY <1>1, <1>2, <1>5

\* a look leads on to what is to be done in the one case or the other
LEMMA LooksAtTurns ==
    ASSUME Kept, NEW t \in Tasks, LooksAt(t)
    PROVE  /\ Now(t) \in Looks
           /\ port[Now(t).server] = None => Turned(t, Now(t).else)
           /\ port[Now(t).server] # None => Turned(t, Now(t).then)
<1> DEFINE e == Now(t)
           s == e.server
<1>1. /\ todo[t] # <<>> /\ e.op = "look" /\ made' = made
      /\ Becomes(t, IF port[s] = None THEN e.else ELSE e.then)
    BY DEF LooksAt, Does, Now, table
<1>2. e \in Looks /\ s \in Servers /\ s <= made
    BY <1>1, HeadShape DEF OfKind, OfServer
<1>3. ~Due(e)
    BY <1>1 DEF Due
<1>4. Fits(e, Narrated(s), made) /\ Fits(e, <<>>, made)
    BY <1>2, <1>3, FitNarrated, FitNothing
<1>5. Fits(e, <<Refresh>>, made)
    BY Making, Plainly, FitOne DEF OfServer
<1>6. Fits(e, <<Show(Disposing), Stop(s), Refresh>>, made)
    <2>1. Show(Disposing) \in Steps /\ Stop(s) \in Steps
        BY <1>2, Making, Texting
    <2> QED
        BY <1>2, <2>1, Plainly, FitThree DEF OfServer
<1>7. Fits(e, Stopping(s), made)
    <2> DEFINE x == Stopping(s)[1]
    <2>1. /\ x \in Steps /\ x.op = "look" /\ x.server = s /\ ~Changing(x)
        BY <1>2, Making, Looking DEF Stopping, IfRunning
    <2>2. Stopping(s) = <<x>>
        BY DEF Stopping
    <2> HIDE DEF x, e
    <2>3. Fits(e, <<x>>, made)
        BY <1>2, <1>3, <2>1, FitOne
    <2> QED
        BY <2>2, <2>3
<1>8. ASSUME NEW c \in Settings, e = IfRunning(s, Restart(s, c), <<>>)
      PROVE  Fits(e, Restart(s, c), made)
    <2> DEFINE a == Stop(s)
               b == Start(s, c)
               new == <<a, b>>
    <2>1. /\ a \in Steps /\ b \in Steps /\ ~Passing(b)
          /\ a.op = "stop" /\ a.server = s /\ b.op = "start" /\ b.server = s
        BY <1>2, Making, Plainly
    <2>2. new \in Seq(Steps) /\ DOMAIN new = {1, 2} /\ new[1] = a /\ new[2] = b
        BY <2>1
    <2>3. Changing(e)
        BY <1>2, <1>8, Zenon DEF Changing
    <2> HIDE DEF a, b, new, e
    <2>4. Fits(e, new, made)
        BY <1>2, <1>3, <2>1, <2>2, <2>3 DEF Fits
    <2> QED
        BY <2>4 DEF new, a, b, Restart
<1>9. Fits(e, e.then, made) /\ Fits(e, e.else, made)
    <2> HIDE DEF e
    <2> QED
        BY <1>2, <1>4, <1>5, <1>6, <1>7, <1>8, LookShape
<1>10. /\ Becomes(t, e.else) => Turned(t, e.else)
       /\ Becomes(t, e.then) => Turned(t, e.then)
    BY <1>1, <1>9, HeadShape, TurnsBecomes
<1> QED
    BY <1>1, <1>2, <1>10

---------------------------------------------------------------------------
(* Every step of a task is such a turn *)

LEMMA ProceedsTurns ==
    ASSUME Kept, Bar, Owners, NEW t \in Tasks, Proceeds(t)
    PROVE  \E new : Turned(t, new)
<1>1. CASE LooksUp(t)
    <2>1. made' = made
        BY <1>1, Zenon DEF LooksUp
    <2>2. PICK new : Turns(t, new) /\ Fits(Now(t), new, made)
        BY <1>1, LooksUpTurns
    <2> QED
        BY <2>1, <2>2 DEF Turned
<1>2. CASE Ending(t)
    BY <1>2, EndingTurns
<1>3. CASE \/ Configures(t) \/ StartTakes(t) \/ StopTakes(t) \/ RefreshBegins(t)
           \/ Gathers(t) \/ Gathered(t)
    BY <1>3, ConfiguresTurns, StartTakesTurns, StopTakesTurns, RefreshBeginsTurns,
       GathersTurns, GatheredTurns, Zenon
<1>4. CASE ShowStatus(t) \/ Begins(t) \/ Removes(t) \/ Adds(t)
    BY <1>4, ShowStatusTurns, BeginsTurns, RemovesTurns, AddsTurns, Zenon
<1>5. CASE LooksAt(t)
    BY <1>5, LooksAtTurns, Zenon
<1> QED
    BY <1>1, <1>2, <1>3, <1>4, <1>5, Zenon DEF Proceeds, Ending

================================================================================
