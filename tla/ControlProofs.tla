----------------------------- MODULE ControlProofs -----------------------------
(***************************************************************************)
(* Theorems about Control for every set of servers, clients, workspaces,   *)
(* directories and ports.                                                  *)
(***************************************************************************)
EXTENDS Control, TLAPS

\* A state file names a server that has written it, in its own place.
FilesInPlace ==
    \A w \in Workspaces, d \in Dirs :
      file[w][d] \in Servers =>
        /\ Home[file[w][d]] = w /\ Writes[file[w][d]] = d
        /\ life[file[w][d]] \in {"serving", "stopping", "gone"}

\* What a client has found it has found in such a file.
Pursuing == {"read", "refused", "connected", "asked", "taken", "acted"}
Finder(c) ==
    /\ client[c].stage \in Pursuing => client[c].found \in Servers /\ client[c].where \in Dirs
    /\ client[c].found \in Servers =>
         Home[client[c].found] = Target[c] /\ life[client[c].found] \notin {"off", "writing"}
    /\ client[c].stage \in {"asked", "taken", "acted"} => client[c].peer = client[c].found
    /\ client[c].stage # "done" => client[c].answer = "none"
    /\ client[c].stage = "refused" => life[client[c].found] = "gone"
    /\ client[c].answer = "not running" =>
         client[c].found \in Servers /\ client[c].where \in Dirs
Finders == \A c \in Clients : Finder(c)

\* A server runs one command at a time, and nothing but the editor comes between.
Running(c) == client[c].stage \in {"taken", "acted"}
Turn(c) ==
    Running(c) /\ Alive(client[c].peer) /\ ~client[c].meddled =>
      /\ client[c].stage = "taken" => client[c].before = running[client[c].peer]
      /\ client[c].stage = "acted" /\ Resolved(c) = "stop" => ~running[client[c].peer]
Turns ==
    /\ \A c, e \in Clients : Running(c) /\ Running(e) /\ client[c].peer = client[e].peer => c = e
    /\ \A c \in Clients : Turn(c)

Places == TypeOK /\ FilesInPlace /\ Finders
IInv == Places /\ RefusalIsRight /\ Turns

LEMMA PeerIsServer ==
    ASSUME Finders, NEW c \in Clients, client[c].stage \in {"asked", "taken", "acted"}
    PROVE  client[c].peer = client[c].found /\ client[c].peer \in Servers
BY DEF Finders, Finder, Pursuing

-----------------------------------------------------------------------------
(***************************************************************************)
(* Types.                                                                  *)
(***************************************************************************)
LEMMA BecomesType ==
    ASSUME TypeOK, NEW c \in Clients, NEW r \in ClientType, Becomes(c, r)
    PROVE  client' \in [Clients -> ClientType]
BY DEF TypeOK, Becomes

LEMMA EndsType ==
    ASSUME TypeOK, NEW c \in Clients, NEW answer \in Answers, Ends(c, answer)
    PROVE  client' \in [Clients -> ClientType]
<1> DEFINE r == [client[c] EXCEPT !.stage = "done", !.answer = answer,
                                  !.before = FALSE, !.meddled = FALSE, !.peer = None]
<1>1. client[c] \in ClientType
    BY DEF TypeOK
<1>2. r \in ClientType
    BY <1>1 DEF ClientType, Stages
<1>3. Becomes(c, r)
    BY DEF Ends
<1> QED
    BY <1>2, <1>3, BecomesType

LEMMA MeddleType ==
    ASSUME TypeOK, NEW s, Meddle(s)
    PROVE  client' \in [Clients -> ClientType]
<1>1. \A c \in Clients : client[c] \in ClientType
    BY DEF TypeOK
<1>2. \A c \in Clients : [client[c] EXCEPT !.meddled = TRUE] \in ClientType
    BY <1>1 DEF ClientType
<1> QED
    BY <1>1, <1>2 DEF Meddle

LEMMA ServerTypes ==
    ASSUME TypeOK, NEW s \in Servers,
           Bind(s) \/ Record(s) \/ Shutdown(s) \/ RemoveState(s) \/ Exit(s) \/ EditorActs(s)
    PROVE  TypeOK'
<1> USE DEF TypeOK, Lives
<1>1. Home[s] \in Workspaces /\ Writes[s] \in Dirs
    BY PlacesAssumption
<1>2. CASE Bind(s)
    BY <1>1, <1>2 DEF Bind
<1>3. CASE Record(s)
    BY <1>1, <1>3 DEF Record
<1>4. CASE Shutdown(s)
    BY <1>4, MeddleType DEF Shutdown
<1>5. CASE RemoveState(s)
    BY <1>1, <1>5 DEF RemoveState
<1>6. CASE Exit(s)
  <2>1. <<>> \in Seq(Clients) /\ Len(<<>>) <= Capacity
      BY LimitsAssumption
  <2> QED
      BY <1>6, <2>1 DEF Exit
<1>7. CASE EditorActs(s)
  <2>1. edits' \in 0..MaxEdits
      BY <1>7, LimitsAssumption DEF EditorActs
  <2> QED
      BY <1>7, <2>1, MeddleType DEF EditorActs, serverVars
<1> QED
    BY <1>2, <1>3, <1>4, <1>5, <1>6, <1>7

LEMMA AskingTypes ==
    ASSUME TypeOK, NEW c \in Clients, Asking(c)
    PROVE  TypeOK'
<1> USE DEF TypeOK
<1>0. client[c] \in ClientType
    OBVIOUS
<1>1. client' \in [Clients -> ClientType]
  <2>1. CASE ReadState(c)
    <3>1. CASE Ends(c, "no server") \/ Ends(c, "malformed")
        BY <3>1, EndsType DEF Answers
    <3>2. CASE ~(Ends(c, "no server") \/ Ends(c, "malformed"))
      <4>1. PICK i \in Candidates(c) :
               /\ file[Target[c]][Reads[c][i]] # "torn"
               /\ Becomes(c, [client[c] EXCEPT !.stage = "read",
                               !.found = file[Target[c]][Reads[c][i]], !.where = Reads[c][i]])
          BY <2>1, <3>2 DEF ReadState
      <4>2. Reads[c][i] \in Dirs /\ Target[c] \in Workspaces
          BY <4>1, PlacesAssumption DEF Candidates
      <4>3. file[Target[c]][Reads[c][i]] \in Servers
          BY <4>1, <4>2 DEF Candidates
      <4>4. [client[c] EXCEPT !.stage = "read", !.found = file[Target[c]][Reads[c][i]],
                              !.where = Reads[c][i]] \in ClientType
          BY <1>0, <4>2, <4>3 DEF ClientType, Stages
      <4> QED
          BY <4>1, <4>4, BecomesType
    <3> QED
        BY <3>1, <3>2
  <2>2. CASE Connect(c)
    <3>1. /\ [client[c] EXCEPT !.stage = "refused"] \in ClientType
          /\ \A s \in Servers \cup {"stranger"} :
               [client[c] EXCEPT !.stage = "connected", !.peer = s] \in ClientType
        BY <1>0 DEF ClientType, Stages
    <3> QED
        BY <2>2, <3>1, BecomesType DEF Connect
  <2>3. CASE CleanUp(c) \/ Silenced(c)
      BY <2>3, EndsType DEF CleanUp, Silenced, Answers
  <2> QED
      BY <2>1, <2>2, <2>3 DEF Asking
<1>2. file' \in [Workspaces -> [Dirs -> Servers \cup {None, "torn"}]]
  <2>1. CASE CleanUp(c)
    <3>1. \A d \in Dirs : file'[Target[c]][d] \in {None, file[Target[c]][d]}
        BY <2>1, PlacesAssumption DEF CleanUp
    <3> QED
        BY <2>1, <3>1, PlacesAssumption DEF CleanUp
  <2>2. CASE ReadState(c) \/ Connect(c) \/ Silenced(c)
      BY <2>2 DEF ReadState, Connect, Silenced
  <2> QED
      BY <2>1, <2>2 DEF Asking
<1>3. UNCHANGED <<serverVars, running, requests, edits>>
    BY DEF Asking, ReadState, Connect, CleanUp, Silenced
<1> QED
    BY <1>1, <1>2, <1>3 DEF serverVars

LEMMA ServingTypes ==
    ASSUME TypeOK, Finders, NEW c \in Clients, Serving(c)
    PROVE  TypeOK'
<1> USE DEF TypeOK
<1>0. client[c] \in ClientType
    OBVIOUS
<1>1. client' \in [Clients -> ClientType]
  <2>1. CASE Handle(c)
    <3>1. [client[c] EXCEPT !.stage = "asked"] \in ClientType
        BY <1>0 DEF ClientType, Stages
    <3> QED
        BY <2>1, <3>1, EndsType, BecomesType DEF Handle, Answers
  <2>2. CASE Take(c)
    <3>1. client[c].peer \in Servers
        BY <2>2, PeerIsServer DEF Take
    <3>2. [client[c] EXCEPT !.stage = "taken", !.before = running[client[c].peer],
                            !.meddled = FALSE] \in ClientType
        BY <1>0, <3>1 DEF ClientType, Stages
    <3> QED
        BY <2>2, <3>2, BecomesType DEF Take
  <2>3. CASE Act(c)
    <3>1. [client[c] EXCEPT !.stage = "acted"] \in ClientType
        BY <1>0 DEF ClientType, Stages
    <3> QED
        BY <2>3, <3>1, BecomesType DEF Act
  <2>4. CASE Reply(c)
      BY <2>4, EndsType DEF Reply, Answers
  <2> QED
      BY <2>1, <2>2, <2>3, <2>4 DEF Serving
<1>2. requests' \in [Servers -> Seq(Clients)] /\ \A s \in Servers : Len(requests'[s]) <= Capacity
  <2> DEFINE s == client[c].peer
  <2>1. CASE Handle(c)
    <3>0. s \in Servers
        BY <2>1 DEF Handle
    <3>1. s \in Servers /\ Len(requests[s]) \in Nat /\ requests[s] \in Seq(Clients)
        BY <3>0
    <3>2. CASE UNCHANGED requests
        BY <3>2
    <3>3. CASE requests' # requests
      <4>1. Len(requests[s]) < Capacity /\ requests' = [requests EXCEPT ![s] = Append(@, c)]
          BY <2>1, <3>3 DEF Handle
      <4>2. Append(requests[s], c) \in Seq(Clients) /\ Len(Append(requests[s], c)) = Len(requests[s]) + 1
          BY <3>1
      <4>3. Len(Append(requests[s], c)) <= Capacity
          BY <3>1, <4>1, <4>2, LimitsAssumption
      <4> QED
          BY <3>1, <4>1, <4>2, <4>3
    <3> QED
        BY <3>2, <3>3
  <2>2. CASE Take(c)
    <3>1. s \in Servers /\ requests[s] \in Seq(Clients) /\ requests[s] # <<>>
        BY <2>2, PeerIsServer DEF Take
    <3>2. /\ Tail(requests[s]) \in Seq(Clients)
          /\ Len(Tail(requests[s])) = Len(requests[s]) - 1 /\ Len(requests[s]) \in Nat
        BY <3>1
    <3>3. Len(Tail(requests[s])) <= Capacity
        BY <3>1, <3>2, LimitsAssumption
    <3>4. requests' = [requests EXCEPT ![s] = Tail(@)]
        BY <2>2 DEF Take
    <3> QED
        BY <3>1, <3>2, <3>3, <3>4
  <2>3. CASE Act(c) \/ Reply(c)
      BY <2>3 DEF Act, Reply
  <2> QED
      BY <2>1, <2>2, <2>3 DEF Serving
<1>3. running' \in [Servers -> BOOLEAN]
    BY DEF Serving, Handle, Take, Act, Reply
<1>4. UNCHANGED <<serverVars, file, edits>>
    BY DEF Serving, Handle, Take, Act, Reply
<1> QED
    BY <1>1, <1>2, <1>3, <1>4 DEF serverVars

LEMMA TypeStep == TypeOK /\ Finders /\ [Next]_vars => TypeOK'
<1>1. ASSUME TypeOK, NEW p \in Ports, StrangerBinds(p) PROVE TypeOK'
    BY <1>1 DEF TypeOK, StrangerBinds
<1>2. TypeOK /\ UNCHANGED vars => TypeOK'
    BY DEF TypeOK, vars, serverVars
<1> QED
    BY <1>1, <1>2, ServerTypes, AskingTypes, ServingTypes DEF Next

-----------------------------------------------------------------------------
(***************************************************************************)
(* Files and what clients have found in them.                              *)
(***************************************************************************)
ServerStep(s) == Bind(s) \/ Record(s) \/ Shutdown(s) \/ RemoveState(s) \/ Exit(s) \/ EditorActs(s)

LEMMA FilesStep ==
    ASSUME TypeOK, FilesInPlace, [Next]_vars
    PROVE  FilesInPlace'
<1> SUFFICES ASSUME NEW w \in Workspaces, NEW d \in Dirs, file'[w][d] \in Servers
             PROVE  /\ Home[file'[w][d]] = w /\ Writes[file'[w][d]] = d
                    /\ life'[file'[w][d]] \in {"serving", "stopping", "gone"}
    BY DEF FilesInPlace
<1> DEFINE InPlace == /\ Home[file'[w][d]] = w /\ Writes[file'[w][d]] = d
                      /\ life'[file'[w][d]] \in {"serving", "stopping", "gone"}
<1> USE PlacesAssumption DEF TypeOK
<1>1. (UNCHANGED <<file, life>>) => InPlace
    BY DEF FilesInPlace
<1>2. ASSUME NEW s \in Servers, Bind(s) PROVE InPlace
  <2>1. file'[w][d] = file[w][d]
      BY <1>2 DEF Bind
  <2> QED
      BY <1>2, <2>1 DEF FilesInPlace, Bind
<1>3. ASSUME NEW s \in Servers, Record(s) PROVE InPlace
  <2>1. CASE file'[w][d] = file[w][d]
      BY <1>3, <2>1 DEF FilesInPlace, Record
  <2>2. CASE file'[w][d] # file[w][d]
    <3>1. w = Home[s] /\ d = Writes[s] /\ file'[w][d] = s
        BY <1>3, <2>2 DEF Record
    <3> QED
        BY <1>3, <3>1 DEF Record
  <2> QED
      BY <2>1, <2>2
<1>4. ASSUME NEW s \in Servers, RemoveState(s) PROVE InPlace
  <2>1. file'[w][d] = file[w][d] /\ ~(w = Home[s] /\ d = Writes[s])
      BY <1>4 DEF RemoveState
  <2>2. file[w][d] # s
      BY <2>1 DEF FilesInPlace
  <2> QED
      BY <1>4, <2>1, <2>2 DEF FilesInPlace, RemoveState
<1>5. ASSUME NEW s \in Servers, Shutdown(s) \/ Exit(s) PROVE InPlace
  <2>1. file'[w][d] = file[w][d] /\ life'[s] \in {"stopping", "gone"}
      BY <1>5 DEF Shutdown, Exit
  <2>2. \A t \in Servers : t # s => life'[t] = life[t]
      BY <1>5 DEF Shutdown, Exit
  <2>3. life[file[w][d]] \in {"serving", "stopping", "gone"} /\ Home[file[w][d]] = w
        /\ Writes[file[w][d]] = d /\ file[w][d] \in Servers
      BY <2>1 DEF FilesInPlace
  <2> QED
      BY <2>1, <2>2, <2>3
<1>6. ASSUME NEW s \in Servers, EditorActs(s) PROVE InPlace
    BY <1>1, <1>6 DEF EditorActs, serverVars
<1>7. ASSUME NEW c \in Clients, CleanUp(c) PROVE InPlace
  <2>1. file'[w][d] = file[w][d] /\ life' = life
      BY <1>7 DEF CleanUp, serverVars
  <2> QED
      BY <2>1 DEF FilesInPlace
<1>8. ASSUME NEW c \in Clients, ReadState(c) \/ Connect(c) \/ Silenced(c) \/ Serving(c) PROVE InPlace
    BY <1>1, <1>8 DEF ReadState, Connect, Silenced, Serving, Handle, Take, Act, Reply, serverVars
<1>9. ASSUME NEW p \in Ports, StrangerBinds(p) PROVE InPlace
    BY <1>1, <1>9 DEF StrangerBinds
<1>10. CASE UNCHANGED vars
    BY <1>1, <1>10 DEF vars, serverVars
<1> QED
    BY <1>2, <1>3, <1>4, <1>5, <1>6, <1>7, <1>8, <1>9, <1>10 DEF Next, Asking

\* A client that does not move keeps what it has found, for servers only go on.
Onward ==
    \A s \in Servers :
      /\ life[s] \notin {"off", "writing"} => life'[s] \notin {"off", "writing"}
      /\ life[s] = "gone" => life'[s] = "gone"

Still(c) ==
    /\ client'[c].stage = client[c].stage /\ client'[c].found = client[c].found
    /\ client'[c].where = client[c].where /\ client'[c].peer = client[c].peer
    /\ client'[c].answer = client[c].answer

LEMMA StillFinder ==
    ASSUME Onward, NEW c \in Clients, Still(c), Finder(c), PlacesAssumption
    PROVE  Finder(c)'
BY DEF Onward, Still, Finder, Pursuing

LEMMA MeddleStill ==
    ASSUME TypeOK, NEW s, Meddle(s), NEW c \in Clients
    PROVE  Still(c)
<1>1. client[c] \in ClientType
    BY DEF TypeOK
<1> QED
    BY <1>1 DEF Meddle, Still, ClientType

LEMMA ServerOnward ==
    ASSUME TypeOK, NEW s \in Servers, ServerStep(s)
    PROVE  Onward /\ \A c \in Clients : Still(c)
<1>1. Onward
    BY DEF TypeOK, Onward, ServerStep, Bind, Record, Shutdown, RemoveState, Exit, EditorActs,
           Alive, serverVars
<1>2. CASE Shutdown(s) \/ EditorActs(s)
    BY <1>1, <1>2, MeddleStill DEF Shutdown, EditorActs
<1>3. CASE Bind(s) \/ Record(s) \/ RemoveState(s) \/ Exit(s)
    BY <1>1, <1>3 DEF Bind, Record, RemoveState, Exit, Still
<1> QED
    BY <1>2, <1>3 DEF ServerStep

\* A step of one client leaves the others and the servers alone.
LEMMA OthersStill ==
    ASSUME TypeOK, NEW c \in Clients, Asking(c) \/ Serving(c), NEW e \in Clients, e # c
    PROVE  client'[e] = client[e]
BY DEF TypeOK, Asking, Serving, ReadState, Connect, CleanUp, Silenced, Handle, Take, Act, Reply,
       Ends, Becomes

LEMMA ClientOnward ==
    ASSUME NEW c \in Clients, Asking(c) \/ Serving(c)
    PROVE  life' = life /\ port' = port /\ Onward
BY DEF Asking, Serving, ReadState, Connect, CleanUp, Silenced, Handle, Take, Act, Reply,
       serverVars, Onward

LEMMA EndsFinder ==
    ASSUME TypeOK, Finders, NEW c \in Clients, NEW answer, Ends(c, answer), life' = life,
           answer = "not running" => client[c].stage = "refused"
    PROVE  Finder(c)'
<1>1. client[c] \in ClientType
    BY DEF TypeOK
<1>2. /\ client'[c].stage = "done" /\ client'[c].answer = answer
      /\ client'[c].found = client[c].found /\ client'[c].where = client[c].where
    BY <1>1 DEF TypeOK, Ends, Becomes, ClientType
<1> QED
    BY <1>2 DEF Finders, Finder, Pursuing

LEMMA OwnFinder ==
    ASSUME TypeOK, FilesInPlace, Finders, NEW c \in Clients, Asking(c) \/ Serving(c)
    PROVE  Finder(c)'
<1>1. client[c] \in ClientType /\ life' = life /\ Finder(c)
    BY ClientOnward DEF TypeOK, Finders
<1>2. CASE ReadState(c)
  <2>1. CASE Ends(c, "no server") \/ Ends(c, "malformed")
      BY <1>1, <2>1, EndsFinder
  <2>2. CASE ~(Ends(c, "no server") \/ Ends(c, "malformed"))
    <3>1. PICK i \in Candidates(c) :
             /\ file[Target[c]][Reads[c][i]] # "torn"
             /\ Becomes(c, [client[c] EXCEPT !.stage = "read",
                             !.found = file[Target[c]][Reads[c][i]], !.where = Reads[c][i]])
        BY <1>2, <2>2 DEF ReadState
    <3>2. Reads[c][i] \in Dirs /\ Target[c] \in Workspaces
        BY <3>1, PlacesAssumption DEF Candidates
    <3>3. file[Target[c]][Reads[c][i]] \in Servers
        BY <3>1, <3>2 DEF Candidates, TypeOK
    <3>4. /\ client'[c].stage = "read" /\ client'[c].answer = client[c].answer
          /\ client'[c].found = file[Target[c]][Reads[c][i]] /\ client'[c].where = Reads[c][i]
        BY <1>1, <3>1 DEF Becomes, TypeOK, ClientType
    <3>5. client[c].answer = "none"
        BY <1>1, <1>2 DEF ReadState, Finder
    <3> QED
        BY <1>1, <3>2, <3>3, <3>4, <3>5 DEF Finder, FilesInPlace, Pursuing
  <2> QED
      BY <2>1, <2>2
<1>3. CASE Connect(c)
  <2>1. /\ client[c].stage = "read" /\ client[c].found \in Servers /\ client[c].answer = "none"
        /\ life[client[c].found] \notin {"off", "writing"}
      BY <1>1, <1>3 DEF Connect, Finder, Pursuing
  <2> DEFINE r == [client[c] EXCEPT !.stage = "refused"]
             k(s) == [client[c] EXCEPT !.stage = "connected", !.peer = s]
  <2>4. \/ ~Held(port[client[c].found]) /\ client'[c] = r
        \/ \E s \in Servers \cup {"stranger"} : client'[c] = k(s)
      BY <1>3 DEF Connect, Becomes, TypeOK
  <2>5. /\ r.stage = "refused" /\ r.answer = client[c].answer
        /\ r.found = client[c].found /\ r.where = client[c].where
      BY <1>1 DEF ClientType
  <2>6. ASSUME NEW s
        PROVE  /\ k(s).stage = "connected" /\ k(s).answer = client[c].answer
               /\ k(s).found = client[c].found /\ k(s).where = client[c].where
      BY <1>1 DEF ClientType
  <2> HIDE DEF r, k
  <2>2. /\ client'[c].stage \in {"refused", "connected"} /\ client'[c].answer = client[c].answer
        /\ client'[c].found = client[c].found /\ client'[c].where = client[c].where
        /\ client'[c].stage = "refused" => ~Held(port[client[c].found])
      BY <2>4, <2>5, <2>6
  <2>3. client'[c].stage = "refused" => life[client[c].found] = "gone"
      BY <2>1, <2>2 DEF Held, Alive
  <2> QED
      BY <1>1, <2>1, <2>2, <2>3 DEF Finder, Pursuing
<1>4. CASE CleanUp(c) \/ Silenced(c)
    BY <1>1, <1>4, EndsFinder DEF CleanUp, Silenced
<1>5. CASE Handle(c)
  <2>1. CASE Ends(c, "bad token")
      BY <1>1, <2>1, EndsFinder
  <2>2. CASE ~Ends(c, "bad token")
    <3>1. /\ client[c].stage = "connected" /\ client[c].found = client[c].peer
          /\ Becomes(c, [client[c] EXCEPT !.stage = "asked"])
        BY <1>5, <2>2 DEF Handle
    <3>2. /\ client'[c].stage = "asked" /\ client'[c].answer = client[c].answer
          /\ client'[c].found = client[c].found /\ client'[c].where = client[c].where
          /\ client'[c].peer = client[c].peer
        BY <1>1, <3>1 DEF Becomes, TypeOK, ClientType
    <3> QED
        BY <1>1, <3>1, <3>2 DEF Finder, Pursuing
  <2> QED
      BY <2>1, <2>2
<1>6. CASE Take(c) \/ Act(c)
  <2>1. /\ client[c].stage \in {"asked", "taken"} /\ client'[c].stage \in {"taken", "acted"}
        /\ client'[c].answer = client[c].answer
        /\ client'[c].found = client[c].found /\ client'[c].where = client[c].where
        /\ client'[c].peer = client[c].peer
    <3>1. CASE Take(c)
        BY <1>1, <3>1 DEF Take, Becomes, TypeOK, ClientType
    <3>2. CASE Act(c)
        BY <1>1, <3>2 DEF Act, Becomes, TypeOK, ClientType
    <3> QED
        BY <1>6, <3>1, <3>2
  <2> QED
      BY <1>1, <2>1 DEF Finder, Pursuing
<1>7. CASE Reply(c)
    BY <1>1, <1>7, EndsFinder DEF Reply
<1> QED
    BY <1>2, <1>3, <1>4, <1>5, <1>6, <1>7 DEF Asking, Serving

LEMMA FindersStep ==
    ASSUME TypeOK, FilesInPlace, Finders, [Next]_vars
    PROVE  Finders'
<1> SUFFICES ASSUME NEW e \in Clients PROVE Finder(e)'
    BY DEF Finders
<1>1. Finder(e)
    BY DEF Finders
<1>2. ASSUME NEW s \in Servers, ServerStep(s) PROVE Finder(e)'
    BY <1>1, <1>2, ServerOnward, StillFinder, PlacesAssumption
<1>3. ASSUME NEW c \in Clients, Asking(c) \/ Serving(c) PROVE Finder(e)'
  <2>1. CASE e = c
      BY <1>3, <2>1, OwnFinder
  <2>2. CASE e # c
      BY <1>1, <1>3, <2>2, OthersStill, ClientOnward, StillFinder, PlacesAssumption DEF Still
  <2> QED
      BY <2>1, <2>2
<1>4. CASE UNCHANGED <<life, client>>
    BY <1>1, <1>4 DEF Finder, Pursuing
<1>5. ASSUME NEW p \in Ports, StrangerBinds(p) PROVE Finder(e)'
    BY <1>4, <1>5 DEF StrangerBinds
<1> QED
    BY <1>2, <1>3, <1>4, <1>5 DEF Next, ServerStep, vars, serverVars

LEMMA FileChange ==
    ASSUME TypeOK, NEW s \in Servers, ServerStep(s),
           NEW w \in Workspaces, NEW x \in Dirs, file'[w][x] # file[w][x]
    PROVE  file'[w][x] \in {"torn", None} \/ (file'[w][x] = s /\ life[s] = "writing")
<1> USE PlacesAssumption DEF TypeOK
<1>1. CASE Bind(s)
    BY <1>1 DEF Bind
<1>2. CASE Record(s)
  <2>1. w = Home[s] /\ x = Writes[s]
      BY <1>2 DEF Record
  <2>2. file'[w][x] = s
      BY <1>2, <2>1 DEF Record
  <2> QED
      BY <1>2, <2>2 DEF Record
<1>3. CASE RemoveState(s)
  <2>1. w = Home[s] /\ x = Writes[s]
      BY <1>3 DEF RemoveState
  <2>2. file'[w][x] = None
      BY <1>3, <2>1 DEF RemoveState
  <2> QED
      BY <2>2
<1>4. CASE Shutdown(s) \/ Exit(s) \/ EditorActs(s)
    BY <1>4 DEF Shutdown, Exit, EditorActs, serverVars
<1> QED
    BY <1>1, <1>2, <1>3, <1>4 DEF ServerStep

\* A server that is gone writes no file again.
LEMMA RefusalStep ==
    ASSUME Places, RefusalIsRight, [Next]_vars
    PROVE  RefusalIsRight'
<1> SUFFICES ASSUME NEW e \in Clients, client'[e].answer = "not running"
             PROVE  /\ life'[client'[e].found] = "gone"
                    /\ file'[Target[e]][client'[e].where] # client'[e].found
    BY DEF RefusalIsRight
<1> DEFINE f == client[e].found
           d == client[e].where
           Right == /\ life'[client'[e].found] = "gone"
                    /\ file'[Target[e]][client'[e].where] # client'[e].found
<1> USE PlacesAssumption DEF Places
<1>1. Target[e] \in Workspaces /\ client[e] \in ClientType /\ Finder(e)
    BY DEF TypeOK, Finders
<1>2. ASSUME Still(e), Onward,
             \A s \in Servers : life[s] = "gone" /\ file'[Target[e]][d] = s => file[Target[e]][d] = s
      PROVE  Right
  <2>1. client[e].answer = "not running" /\ client'[e].found = f /\ client'[e].where = d
      BY <1>2 DEF Still
  <2>2. f \in Servers /\ life[f] = "gone" /\ file[Target[e]][d] # f
      BY <1>1, <2>1 DEF Finder, RefusalIsRight
  <2> QED
      BY <1>2, <2>1, <2>2 DEF Onward
<1>3. ASSUME NEW s \in Servers, ServerStep(s) PROVE Right
  <2>1. \A w \in Workspaces, x \in Dirs :
           file'[w][x] # file[w][x] => file'[w][x] \in {"torn", None}
                                       \/ (file'[w][x] = s /\ life[s] = "writing")
      BY <1>3, FileChange
  <2>2. Onward /\ Still(e)
      BY <1>3, ServerOnward
  <2>3. d \in Dirs
      BY <1>1, <2>2 DEF Still, Finder
  <2>4. \A t \in Servers : life[t] = "gone" /\ file'[Target[e]][d] = t => file[Target[e]][d] = t
      BY <1>1, <2>1, <2>3
  <2> QED
      BY <1>2, <2>2, <2>4
<1>4. ASSUME NEW c \in Clients, Asking(c) \/ Serving(c), c # e PROVE Right
  <2>1. Still(e) /\ Onward
      BY <1>4, OthersStill, ClientOnward DEF Still
  <2>2. d \in Dirs
      BY <1>1, <2>1 DEF Still, Finder
  <2>3. file'[Target[e]][d] \in {file[Target[e]][d], None}
    <3>1. CASE CleanUp(c)
        BY <1>1, <2>2, <3>1 DEF CleanUp, TypeOK
    <3>2. CASE ~CleanUp(c)
        BY <1>4, <3>2 DEF Asking, Serving, ReadState, Connect, Silenced, Handle, Take, Act, Reply
    <3> QED
        BY <3>1, <3>2
  <2> QED
      BY <1>2, <2>1, <2>3
<1>5. ASSUME CleanUp(e) PROVE Right
  <2>1. client[e].stage = "refused"
      BY <1>5 DEF CleanUp
  <2>2. f \in Servers /\ d \in Dirs /\ life[f] = "gone"
      BY <1>1, <2>1 DEF Finder, Pursuing
  <2>3. client'[e].found = f /\ client'[e].where = d
      BY <1>1, <1>5 DEF CleanUp, Ends, Becomes, TypeOK, ClientType
  <2>4. file'[Target[e]][d] = None /\ life' = life
      BY <1>1, <1>5, <2>2 DEF CleanUp, TypeOK, serverVars
  <2> QED
      BY <2>2, <2>3, <2>4
\* Nothing else tells a client that nothing runs.
<1>6. ASSUME (Asking(e) /\ ~CleanUp(e)) \/ Serving(e) PROVE FALSE
  <2>1. ASSUME NEW a, Ends(e, a), a # "not running" PROVE FALSE
      BY <1>1, <2>1 DEF Ends, Becomes, TypeOK, ClientType
  <2>2. ASSUME client'[e].answer = client[e].answer, client[e].stage # "done" PROVE FALSE
      BY <1>1, <2>2 DEF Finder
  <2>3. ASSUME NEW r, client[e].stage # "done", Becomes(e, r), r.answer = client[e].answer PROVE FALSE
      BY <2>2, <2>3 DEF Becomes, TypeOK
  <2>4. CASE ReadState(e)
      BY <1>1, <2>1, <2>3, <2>4 DEF ReadState, ClientType
  <2>5. CASE Connect(e)
      BY <1>1, <2>3, <2>5 DEF Connect, ClientType
  <2>6. CASE Silenced(e)
      BY <2>1, <2>6 DEF Silenced
  <2>7. CASE Handle(e)
      BY <1>1, <2>1, <2>3, <2>7 DEF Handle, ClientType
  <2>8. CASE Take(e)
      BY <1>1, <2>3, <2>8 DEF Take, ClientType
  <2>9. CASE Act(e)
      BY <1>1, <2>3, <2>9 DEF Act, ClientType
  <2>10. CASE Reply(e)
      BY <2>1, <2>10 DEF Reply
  <2> QED
      BY <1>6, <2>4, <2>5, <2>6, <2>7, <2>8, <2>9, <2>10 DEF Asking, Serving
<1>7. CASE UNCHANGED <<life, file, client>>
    BY <1>7 DEF RefusalIsRight
<1>8. ASSUME NEW p \in Ports, StrangerBinds(p) PROVE Right
    BY <1>7, <1>8 DEF StrangerBinds
<1> QED
    BY <1>3, <1>4, <1>5, <1>6, <1>7, <1>8 DEF Next, ServerStep, vars, serverVars

-----------------------------------------------------------------------------
(***************************************************************************)
(* Turns.                                                                  *)
(***************************************************************************)
LEMMA OwnTurn ==
    ASSUME Places, NEW c \in Clients, Asking(c) \/ Serving(c)
    PROVE  Running(c)' =>
             /\ client'[c].peer = client[c].peer
             /\ \/ /\ Running(c) /\ Act(c) /\ client'[c].before = client[c].before
                   /\ client'[c].meddled = client[c].meddled
                \/ /\ Take(c) /\ client'[c].stage = "taken"
                   /\ client'[c].before = running[client[c].peer]
<1>1. client[c] \in ClientType
    BY DEF Places, TypeOK
<1>2. ASSUME NEW a, Ends(c, a) PROVE ~Running(c)'
    BY <1>1, <1>2 DEF Ends, Becomes, Places, TypeOK, ClientType, Running
<1>3. CASE Take(c)
    BY <1>1, <1>3 DEF Take, Becomes, Places, TypeOK, ClientType, Running
<1>4. CASE Act(c)
  <2>1. client[c].stage = "taken" /\ client'[c] = [client[c] EXCEPT !.stage = "acted"]
      BY <1>4 DEF Act, Becomes, Places, TypeOK
  <2>2. /\ client'[c].stage = "acted" /\ client'[c].peer = client[c].peer
        /\ client'[c].before = client[c].before /\ client'[c].meddled = client[c].meddled
      BY <1>1, <2>1 DEF ClientType
  <2>3. Running(c)
      BY <2>1 DEF Running
  <2> QED
      BY <1>4, <2>2, <2>3
<1>5. ASSUME NEW r, Becomes(c, r), r.stage \in {"read", "refused", "connected", "asked"}
      PROVE  ~Running(c)'
    BY <1>5 DEF Becomes, Places, TypeOK, Running
<1>6. CASE ReadState(c)
    BY <1>1, <1>2, <1>5, <1>6 DEF ReadState, ClientType
<1>7. CASE Connect(c)
    BY <1>1, <1>5, <1>7 DEF Connect, ClientType
<1>8. CASE Handle(c)
    BY <1>1, <1>2, <1>5, <1>8 DEF Handle, ClientType
<1>9. CASE CleanUp(c) \/ Silenced(c) \/ Reply(c)
    BY <1>2, <1>9 DEF CleanUp, Silenced, Reply
<1> QED
    BY <1>3, <1>4, <1>6, <1>7, <1>8, <1>9 DEF Asking, Serving

\* A server that is not the peer of a running command disturbs it as little as any
\* that does not touch it; one that is tells it so.
LEMMA ServerTurn ==
    ASSUME Places, NEW s \in Servers, ServerStep(s), NEW c \in Clients, Running(c), Turn(c)
    PROVE  Turn(c)'
<1> DEFINE q == client[c].peer
<1>1. client[c] \in ClientType /\ q \in Servers /\ Finder(c) /\ q = client[c].found
    BY PeerIsServer DEF Places, TypeOK, Finders, Running
<1>2. life[q] \notin {"off", "writing"} /\ Still(c)
    BY <1>1, ServerOnward DEF Places, Finder
<1>3. CASE q = s
  <2>1. CASE Shutdown(s) \/ EditorActs(s)
    <3>1. client'[c] = [client[c] EXCEPT !.meddled = TRUE]
        BY <1>3, <2>1 DEF Shutdown, EditorActs, Meddle, Running
    <3> QED
        BY <1>1, <3>1 DEF Turn, ClientType
  <2>2. CASE Exit(s)
      BY <1>2, <1>3, <2>2 DEF Exit, Turn, Alive, Still, Places, TypeOK
  <2>3. CASE Bind(s) \/ Record(s)
      BY <1>2, <1>3, <2>3 DEF Bind, Record
  <2>4. CASE RemoveState(s)
      BY <1>1, <1>2, <1>3, <2>4 DEF RemoveState, Turn, Resolved, Alive, Running
  <2> QED
      BY <2>1, <2>2, <2>3, <2>4 DEF ServerStep
<1>4. CASE q # s
  <2>1. running'[q] = running[q] /\ life'[q] = life[q]
      BY <1>1, <1>4 DEF ServerStep, Bind, Record, Shutdown, RemoveState, Exit, EditorActs,
             serverVars, Places, TypeOK
  <2>2. client'[c] = client[c]
      BY <1>1, <1>4 DEF ServerStep, Bind, Record, Shutdown, RemoveState, Exit, EditorActs, Meddle
  <2> QED
      BY <1>1, <2>1, <2>2 DEF Turn, Resolved, Alive, Running
<1> QED
    BY <1>3, <1>4

LEMMA TurnsStep ==
    ASSUME Places, Turns, [Next]_vars
    PROVE  Turns'
<1>1. ASSUME NEW s \in Servers, ServerStep(s) PROVE Turns'
  <2>1. \A c \in Clients : Running(c)' => Running(c) /\ client'[c].peer = client[c].peer
      BY <1>1, ServerOnward DEF Running, Still, Places
  <2>2. \A c \in Clients : ~Running(c)' => Turn(c)'
      BY DEF Turn
  <2> QED
      BY <1>1, <2>1, <2>2, ServerTurn DEF Turns
<1>2. ASSUME NEW c \in Clients, Asking(c) \/ Serving(c) PROVE Turns'
  <2>1. \A e \in Clients : e # c => client'[e] = client[e]
      BY <1>2, OthersStill DEF Places
  <2>2. life' = life
      BY <1>2, ClientOnward
  <2>3. \A a, e \in Clients : Running(a)' /\ Running(e)' /\ client'[a].peer = client'[e].peer => a = e
    <3>1. ASSUME NEW e \in Clients, Running(c)', Running(e)', client'[c].peer = client'[e].peer
          PROVE  c = e
      <4>1. CASE Take(c)
        <5>1. ~Busy(client[c].peer) /\ client'[c].peer = client[c].peer
            BY <1>2, <3>1, <4>1, OwnTurn DEF Take
        <5> QED
            BY <2>1, <3>1, <5>1 DEF Busy, Running
      <4>2. CASE ~Take(c)
          BY <1>2, <2>1, <3>1, <4>2, OwnTurn DEF Turns, Running
      <4> QED
          BY <4>1, <4>2
    <3> QED
        BY <2>1, <3>1 DEF Turns, Running
  <2>4. ASSUME NEW e \in Clients, e # c PROVE Turn(e)'
    <3>1. CASE running' = running
        BY <2>1, <2>2, <2>4, <3>1 DEF Turns, Turn, Resolved, Alive, Running
    <3>2. CASE running' # running
      <4>1. Act(c)
          BY <1>2, <3>2 DEF Asking, Serving, ReadState, Connect, CleanUp, Silenced, Handle, Take, Reply
      <4>2. \A p \in Servers : p # client[c].peer => running'[p] = running[p]
          BY <4>1 DEF Act, Places, TypeOK
      <4>3. Running(c)
          BY <4>1 DEF Act, Running
      <4>4. Running(e) => client[e].peer # client[c].peer /\ client[e].peer \in Servers
          BY <2>4, <4>3, PeerIsServer DEF Turns, Places, Running
      <4> QED
          BY <2>1, <2>2, <2>4, <4>2, <4>4 DEF Turns, Turn, Resolved, Alive, Running
    <3> QED
        BY <3>1, <3>2
  <2>5. Turn(c)'
    <3> SUFFICES ASSUME Running(c)' PROVE Turn(c)'
        BY DEF Turn
    <3>1. CASE Take(c)
      <4>1. running' = running /\ client'[c].peer = client[c].peer /\ ~Act(c)
          BY <1>2, <3>1, OwnTurn DEF Take, Act
      <4>2. client'[c].stage = "taken" /\ client'[c].before = running[client[c].peer]
          BY <1>2, <4>1, OwnTurn
      <4> QED
          BY <4>1, <4>2 DEF Turn
    <3>2. CASE Act(c)
      <4>1. /\ client'[c].stage = "acted" /\ client'[c].peer = client[c].peer
            /\ client'[c].before = client[c].before
        <5>1. client'[c] = [client[c] EXCEPT !.stage = "acted"] /\ client[c] \in ClientType
            BY <3>2 DEF Act, Becomes, Places, TypeOK
        <5> QED
            BY <5>1 DEF ClientType
      <4>2. Resolved(c)' = Resolved(c)
          BY <4>1 DEF Resolved
      <4>3. client[c].peer \in Servers
          BY <3>2, PeerIsServer DEF Act, Places
      <4>4. Resolved(c) = "stop" => ~running'[client[c].peer]
          BY <3>2, <4>3 DEF Act, Places, TypeOK
      <4> QED
          BY <4>1, <4>2, <4>4 DEF Turn
    <3>3. CASE ~Take(c) /\ ~Act(c)
        BY <1>2, <3>3, OwnTurn
    <3> QED
        BY <3>1, <3>2, <3>3
  <2> QED
      BY <2>3, <2>4, <2>5 DEF Turns
<1>3. CASE UNCHANGED <<life, running, client>>
    BY <1>3 DEF Turns, Turn, Resolved, Alive, Running
<1>4. ASSUME NEW p \in Ports, StrangerBinds(p) PROVE Turns'
    BY <1>3, <1>4 DEF StrangerBinds
<1> QED
    BY <1>1, <1>2, <1>3, <1>4 DEF Next, ServerStep, vars, serverVars

-----------------------------------------------------------------------------
(***************************************************************************)
(* The theorems.                                                           *)
(***************************************************************************)
LEMMA InitIInv == Init => IInv
<1> SUFFICES ASSUME Init PROVE IInv
    OBVIOUS
<1>1. TypeOK
  <2>1. <<>> \in Seq(Clients) /\ Len(<<>>) <= Capacity
      BY LimitsAssumption
  <2>2. 0 \in 0..MaxEdits
      BY LimitsAssumption
  <2> QED
      BY <2>1, <2>2 DEF Init, TypeOK, Lives, ClientType, Stages, Answers
<1>2. FilesInPlace
    BY PlacesAssumption DEF Init, FilesInPlace
<1>3. Finders /\ RefusalIsRight
    BY PlacesAssumption DEF Init, Finders, Finder, Pursuing, RefusalIsRight
<1>4. Turns
    BY DEF Init, Turns, Turn, Running
<1> QED
    BY <1>1, <1>2, <1>3, <1>4 DEF IInv, Places

LEMMA StepIInv == IInv /\ [Next]_vars => IInv'
BY TypeStep, FilesStep, FindersStep, RefusalStep, TurnsStep DEF IInv, Places

\* The invariant the others follow from: files are where their servers have written
\* them (control.rs:251-277), clients pursue what they have read (control.rs:362-424),
\* and a server runs one command at a time (lsp.rs:316-334).
THEOREM Invariance == Spec => []IInv
<1> QED
    BY InitIInv, StepIInv, PTL DEF Spec

\* The variables keep their shape, and the channel (lsp.rs:317) its capacity.
THEOREM TypeCorrect == Spec => []TypeOK
<1>1. IInv => TypeOK
    BY DEF IInv, Places
<1> QED
    BY <1>1, Invariance, PTL

\* However ports and files are used again, a command is run in the workspace it was
\* meant for (control.rs:329, 362-404).
THEOREM RightServerAlways == Spec => []RightServer
<1>1. IInv => RightServer
    BY PeerIsServer DEF IInv, Places, RightServer, Finders, Finder, Pursuing
<1> QED
    BY <1>1, Invariance, PTL

\* A client that is told that nothing runs has met a server that is gone, and no file
\* of it is left (control.rs:400-408).
THEOREM RefusalIsRightAlways == Spec => []RefusalIsRight
<1>1. IInv => RefusalIsRight
    BY DEF IInv
<1> QED
    BY <1>1, Invariance, PTL

\* What a command has looked at when it was taken still holds when it acts, and what
\* it replies is so, unless the editor has meddled (lsp.rs:316-388).
ActsInTurn ==
    \A c \in Clients :
      ~client[c].meddled /\ client[c].stage # client'[c].stage =>
        /\ client'[c].stage = "acted" => client[c].before = running[client[c].peer]
        /\ client'[c].answer \in {"running", "stopped"} =>
             (client'[c].answer = "running") = running[client[c].peer]

LEMMA TurnTaken ==
    ASSUME IInv, [Next]_vars
    PROVE  ActsInTurn
<1> SUFFICES ASSUME NEW e \in Clients, ~client[e].meddled, client[e].stage # client'[e].stage
             PROVE  /\ client'[e].stage = "acted" => client[e].before = running[client[e].peer]
                    /\ client'[e].answer \in {"running", "stopped"} =>
                         (client'[e].answer = "running") = running[client[e].peer]
    BY DEF ActsInTurn
<1> USE DEF IInv, Places
<1>1. client[e] \in ClientType /\ Finder(e) /\ Turn(e)
    BY DEF TypeOK, Finders, Turns
<1>2. Asking(e) \/ Serving(e)
  <2>1. ASSUME NEW s \in Servers, ServerStep(s) PROVE FALSE
      BY <2>1, ServerOnward DEF Still
  <2>2. ASSUME NEW c \in Clients, Asking(c) \/ Serving(c), c # e PROVE FALSE
      BY <2>2, OthersStill
  <2>3. ASSUME NEW p \in Ports, StrangerBinds(p) PROVE FALSE
      BY <2>3 DEF StrangerBinds
  <2> QED
      BY <2>1, <2>2, <2>3 DEF Next, ServerStep, vars
<1>3. CASE Reply(e)
  <2> DEFINE a == IF Resolved(e) = "stop" THEN "stopped"
                  ELSE IF running[client[e].peer] THEN "running"
                  ELSE IF Resolved(e) = "status" \/ (Resolved(e) = "start" /\ client[e].before)
                       THEN "stopped" ELSE "failed"
  <2>1. client[e].stage = "acted" /\ Alive(client[e].peer) /\ Ends(e, a)
      BY <1>3 DEF Reply
  <2>2. client'[e].stage = "done" /\ client'[e].answer = a
      BY <1>1, <2>1 DEF Ends, Becomes, TypeOK, ClientType
  <2>3. client[e].peer \in Servers /\ running[client[e].peer] \in BOOLEAN
      BY <2>1, PeerIsServer DEF TypeOK
  <2>4. Resolved(e) = "stop" => running[client[e].peer] = FALSE
      BY <1>1, <2>1, <2>3 DEF Turn, Running
  <2> QED
      BY <2>2, <2>3, <2>4
<1>4. CASE ~Reply(e)
  <2>1. ASSUME NEW x, Ends(e, x), x \notin {"running", "stopped"}
        PROVE  client'[e].stage = "done" /\ client'[e].answer \notin {"running", "stopped"}
      BY <1>1, <2>1 DEF Ends, Becomes, TypeOK, ClientType
  <2>2. client[e].answer = "none" \/ client[e].stage = "done"
      BY <1>1 DEF Finder
  <2>3. ASSUME NEW r, Becomes(e, r), r.answer = client[e].answer,
               client[e].stage # "done", r.stage # "acted"
        PROVE  client'[e].stage # "acted" /\ client'[e].answer \notin {"running", "stopped"}
      BY <2>2, <2>3 DEF Becomes, TypeOK
  <2>4. CASE ReadState(e)
      BY <1>1, <2>1, <2>3, <2>4 DEF ReadState, ClientType
  <2>5. CASE Connect(e)
      BY <1>1, <2>3, <2>5 DEF Connect, ClientType
  <2>6. CASE CleanUp(e) \/ Silenced(e)
      BY <2>1, <2>6 DEF CleanUp, Silenced
  <2>7. CASE Handle(e)
      BY <1>1, <2>1, <2>3, <2>7 DEF Handle, ClientType
  <2>8. CASE Take(e)
    <3>1. client'[e] = [client[e] EXCEPT !.stage = "taken", !.before = running[client[e].peer],
                                         !.meddled = FALSE]
        BY <2>8 DEF Take, Becomes, TypeOK
    <3> QED
        BY <1>1, <2>2, <2>8, <3>1 DEF Take, ClientType
  <2>9. CASE Act(e)
    <3>1. /\ client[e].stage = "taken" /\ Alive(client[e].peer)
          /\ client'[e] = [client[e] EXCEPT !.stage = "acted"]
        BY <2>9 DEF Act, Becomes, TypeOK
    <3> QED
        BY <1>1, <2>2, <3>1 DEF Turn, Running, ClientType
  <2> QED
      BY <1>2, <1>4, <2>4, <2>5, <2>6, <2>7, <2>8, <2>9 DEF Asking, Serving
<1> QED
    BY <1>3, <1>4

THEOREM CommandsTakeTurnsAlways == Spec => CommandsTakeTurns
<1>1. IInv /\ [Next]_vars => [ActsInTurn]_vars
    BY TurnTaken
<1> QED
    BY <1>1, Invariance, PTL DEF Spec, CommandsTakeTurns, ActsInTurn
=============================================================================
