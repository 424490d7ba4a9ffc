--------------------------- MODULE ReloadPathProofs ---------------------------
(***************************************************************************)
(* Theorems about ReloadPath for every set of files, every capacity of the *)
(* broadcast and any number of changes and stops.                          *)
(***************************************************************************)
EXTENDS ReloadPath, TLAPS

\* What is not open shows nothing that could be out of date.
NothingShown == stage = "none" => stale = {}

IInv == TypeOK /\ NothingShown /\ OnItsWay

LEMMA StagesDiffer == Due => stage \in {"navigating", "waiting", "connecting"}
BY DEF Due

-----------------------------------------------------------------------------
(***************************************************************************)
(* The backlog.                                                            *)
(***************************************************************************)
InBacklog(s, f) == \E n \in 1..Len(s) : Brings(s[n], f)

LEMMA EmptyBacklog == <<>> \in Seq(Instructions) /\ Len(<<>>) \in 0..Capacity
BY BoundsAssumption

LEMMA BroadcastType ==
    ASSUME backlog \in Seq(Instructions), Len(backlog) \in 0..Capacity,
           NEW i \in Instructions
    PROVE  LET next == Append(IF Len(backlog) < Capacity THEN backlog ELSE Tail(backlog), i)
           IN  next \in Seq(Instructions) /\ Len(next) \in 0..Capacity
BY BoundsAssumption

\* A broadcast brings its instruction, and keeps the others or drops the oldest.
LEMMA BroadcastBrings ==
    ASSUME backlog \in Seq(Instructions), Len(backlog) \in 0..Capacity,
           NEW i \in Instructions, NEW f
    PROVE  LET next == Append(IF Len(backlog) < Capacity THEN backlog ELSE Tail(backlog), i)
           IN  /\ Brings(i, f) => InBacklog(next, f)
               /\ InBacklog(backlog, f) /\ Len(backlog) < Capacity => InBacklog(next, f)
<1>1. CASE Len(backlog) < Capacity
  <2> DEFINE next == Append(backlog, i)
  <2>1. /\ Len(next) = Len(backlog) + 1 /\ next[Len(next)] = i
        /\ \A n \in 1..Len(backlog) : next[n] = backlog[n] /\ n \in 1..Len(next)
      OBVIOUS
  <2> QED
      BY <1>1, <2>1 DEF InBacklog
<1>2. CASE ~(Len(backlog) < Capacity)
  <2>1. Tail(backlog) \in Seq(Instructions)
      BY <1>2, BoundsAssumption
  <2> DEFINE next == Append(Tail(backlog), i)
  <2>2. Len(next) = Len(Tail(backlog)) + 1 /\ next[Len(next)] = i
      BY <2>1
  <2>3. Len(next) \in 1..Len(next)
      BY <2>1, <2>2
  <2> QED
      BY <1>2, <2>2, <2>3 DEF InBacklog
<1> QED
    BY <1>1, <1>2

LEMMA TailBrings ==
    ASSUME backlog \in Seq(Instructions), backlog # <<>>, NEW f, InBacklog(backlog, f)
    PROVE  Brings(Head(backlog), f) \/ InBacklog(Tail(backlog), f)
<1>1. PICK n \in 1..Len(backlog) : Brings(backlog[n], f)
    BY DEF InBacklog
<1>2. CASE n = 1
    BY <1>1, <1>2
<1>3. CASE n # 1
  <2>1. n - 1 \in 1..Len(Tail(backlog)) /\ Tail(backlog)[n - 1] = backlog[n]
      BY <1>3
  <2> QED
      BY <1>1, <2>1 DEF InBacklog
<1> QED
    BY <1>2, <1>3

-----------------------------------------------------------------------------
(***************************************************************************)
(* Types.                                                                  *)
(***************************************************************************)
LEMMA PlanType == ASSUME NEW files \in SUBSET Files PROVE Plan(files) \subseteq Instructions
BY DEF Plan, Instructions

LEMMA WatchTypes ==
    ASSUME TypeOK
    PROVE  /\ \A f \in Files : Write(f) \/ Collect(f) => TypeOK'
           /\ Quiet \/ Stop \/ Start => TypeOK'
           /\ \A i \in sending : Send(i) => TypeOK'
<1> USE DEF TypeOK, watchVars, socketVars, pageVars, histories
<1>1. ASSUME NEW f \in Files, Write(f) PROVE TypeOK'
    BY <1>1, BoundsAssumption DEF Write
<1>2. ASSUME NEW f \in Files, Collect(f) PROVE TypeOK'
    BY <1>2 DEF Collect
<1>3. ASSUME Quiet PROVE TypeOK'
    BY <1>3, PlanType DEF Quiet
<1>4. ASSUME Stop PROVE TypeOK'
  <2>1. backlog' \in Seq(Instructions) /\ Len(backlog') \in 0..Capacity
      BY <1>4, EmptyBacklog DEF Stop, Silence
  <2>2. writes' \in 0..MaxWrites /\ stops' \in 0..MaxStops
      BY <1>4, BoundsAssumption DEF Stop
  <2>3. stage' \in PageStages /\ stage' \notin {"connecting", "open"} /\ ear' \in Ears
      BY <1>4 DEF Stop, Silence, PageStages, Ears
  <2>4. /\ fetching' \subseteq Files /\ stale' \subseteq Files
        /\ missed' \subseteq Files /\ unread' \subseteq Files
      BY <1>4 DEF Stop
  <2> QED
      BY <1>4, <2>1, <2>2, <2>3, <2>4 DEF Stop, Silence
<1>5. ASSUME Start PROVE TypeOK'
    BY <1>5 DEF Start
<1>6. ASSUME NEW i \in sending, Send(i) PROVE TypeOK'
  <2>1. backlog' \in Seq(Instructions) /\ Len(backlog') \in 0..Capacity /\ lagged' \in BOOLEAN
      BY <1>6, BroadcastType DEF Send
  <2>2. missed' \subseteq Files
      BY <1>6 DEF Send, Misses
  <2>3. (ear' # "listening" => backlog' = <<>> /\ ~lagged') /\ (pending' = {} => sending' = {})
      BY <1>6 DEF Send
  <2> QED
      BY <1>6, <2>1, <2>2, <2>3 DEF Send
<1> QED
    BY <1>1, <1>2, <1>3, <1>4, <1>5, <1>6

\* What the page does on a message, if it is about a hot file or a full reload.
LEMMA ActsType ==
    ASSUME NEW i \in Instructions, fetching \subseteq Files, Acts(i)
    PROVE  fetching' \subseteq Files /\ stage' \in {stage, "navigating"}
<1>1. i \in Hot /\ i # Full => Matched[i] \subseteq Files
    BY MessagesAssumption
<1> QED
    BY <1>1 DEF Acts, Instructions

LEMMA PageTypes == TypeOK /\ (Visit \/ Paging) => TypeOK'
<1> SUFFICES ASSUME TypeOK, Visit \/ Paging PROVE TypeOK'
    OBVIOUS
<1> USE DEF TypeOK, watchVars, socketVars, pageVars, histories, PageStages, Ears
<1>1. CASE Visit \/ Connect \/ Upgrade \/ Subscribe
    BY <1>1 DEF Visit, Connect, Upgrade, Subscribe
<1>2. CASE Load \/ LoadFails
    BY <1>2, EmptyBacklog DEF Load, LoadFails, Silence
<1>3. CASE \E f \in Files : Fetch(f)
    BY <1>3 DEF Fetch
<1>4. CASE OnOpen
    BY <1>4 DEF OnOpen
<1>5. CASE Receive
  <2>1. backlog' \in Seq(Instructions) /\ Len(backlog') \in 0..Capacity
      BY <1>5, BoundsAssumption DEF Receive, Reads
  <2>2. fetching' \subseteq Files /\ stage' \in {stage, "navigating"} /\ unread' \subseteq Files
    <3>1. CASE lagged
        BY <1>5, <3>1, ActsType DEF Receive, Instructions
    <3>2. CASE ~lagged
      <4>1. Head(backlog) \in Instructions /\ Reads
          BY <1>5, <3>2 DEF Receive
      <4> QED
          BY <4>1, ActsType DEF Reads
    <3> QED
        BY <3>1, <3>2
  <2>3. ear' # "listening" => backlog' = <<>> /\ ~lagged'
      BY <1>5 DEF Receive, Reads
  <2> QED
      BY <1>5, <2>1, <2>2, <2>3 DEF Receive
<1> QED
    BY <1>1, <1>2, <1>3, <1>4, <1>5 DEF Paging

-----------------------------------------------------------------------------
(***************************************************************************)
(* No change is forgotten.                                                 *)
(***************************************************************************)
\* OnTheWay, with the backlog under a name.
Underway(f) ==
    \/ f \in events \cup fetching
    \/ f \in pending /\ (sending = {} \/ \E i \in sending : Brings(i, f))
    \/ InBacklog(backlog, f)
    \/ lagged \/ Due

LEMMA OnItsWayIs == OnItsWay <=> \A f \in stale \ (missed \cup unread) : Underway(f)
BY DEF OnItsWay, OnTheWay, Underway, InBacklog

LEMMA WriteKeeps ==
    ASSUME IInv, NEW g \in Files, Write(g), NEW f \in stale' \ (missed' \cup unread')
    PROVE  Underway(f)'
<1> USE DEF watchVars, socketVars, pageVars, histories
<1>1. UNCHANGED <<pending, sending, socketVars, pageVars>> /\ events \subseteq events' /\ Due' = Due
    BY DEF Write, Due
<1>2. CASE f \in stale \ (missed \cup unread)
    BY <1>1, <1>2, OnItsWayIs DEF IInv, Underway, InBacklog
<1>3. CASE f \notin stale \ (missed \cup unread)
  <2>1. f = g /\ stage # "none"
      BY <1>3 DEF IInv, NothingShown, Write
  <2>2. f \in events' \/ Due \/ f \in fetching
      BY <2>1 DEF Write
  <2> QED
      BY <1>1, <2>2 DEF Underway
<1> QED
    BY <1>2, <1>3

LEMMA CollectKeeps ==
    ASSUME IInv, NEW g \in Files, Collect(g), NEW f \in stale' \ (missed' \cup unread')
    PROVE  Underway(f)'
<1>1. Underway(f)
    BY OnItsWayIs DEF IInv, Collect, histories
<1> QED
    BY <1>1 DEF Collect, Underway, InBacklog, Due, socketVars, pageVars

LEMMA QuietKeeps ==
    ASSUME IInv, Quiet, NEW f \in stale' \ (missed' \cup unread')
    PROVE  Underway(f)'
<1>1. Underway(f)
    BY OnItsWayIs DEF IInv, Quiet, histories
<1>2. f \in pending => \E i \in sending' : Brings(i, f)
    BY DEF Quiet, Plan, Brings
<1> QED
    BY <1>1, <1>2 DEF Quiet, Underway, InBacklog, Due, socketVars, pageVars

LEMMA SendKeeps ==
    ASSUME IInv, NEW i \in sending, Send(i), NEW f \in stale' \ (missed' \cup unread')
    PROVE  Underway(f)'
<1> USE DEF pageVars
<1>1. f \in stale \ (missed \cup unread) /\ Underway(f)
    BY OnItsWayIs DEF IInv, Send, Misses
<1>2. /\ i \in Instructions
      /\ backlog \in Seq(Instructions) /\ Len(backlog) \in 0..Capacity
    BY DEF IInv, TypeOK
<1>3. UNCHANGED <<events, fetching>> /\ Due' = Due
    BY DEF Send, Due
<1>4. CASE f \in events \cup fetching \/ Due
    BY <1>3, <1>4 DEF Underway
<1>5. CASE f \in pending /\ ~Brings(i, f) /\ \E j \in sending : Brings(j, f)
    BY <1>5 DEF Underway, Send
<1>6. CASE f \in pending /\ Brings(i, f) /\ ~(f \in fetching) /\ ~Due
  <2>1. f \in Covered(i)
      BY <1>6 DEF Covered, Brings
  <2>2. ear = "listening"
      BY <1>1, <1>6, <2>1 DEF Send, Misses
  <2>3. InBacklog(backlog', f)
      BY <1>2, <1>6, <2>2, BroadcastBrings DEF Send
  <2> QED
      BY <2>3 DEF Underway
<1>7. CASE InBacklog(backlog, f) \/ lagged
  <2>1. ear = "listening"
      BY <1>7 DEF IInv, TypeOK, InBacklog
  <2>2. CASE lagged \/ Len(backlog) = Capacity
      BY <2>1, <2>2 DEF Send, Underway
  <2>3. CASE ~lagged /\ Len(backlog) < Capacity
    <3>1. InBacklog(backlog', f)
        BY <1>2, <1>7, <2>1, <2>3, BroadcastBrings DEF Send
    <3> QED
        BY <3>1 DEF Underway
  <2> QED
      BY <1>2, <2>2, <2>3, BoundsAssumption
<1> QED
    BY <1>1, <1>4, <1>5, <1>6, <1>7 DEF Underway

LEMMA StopKeeps ==
    ASSUME IInv, Stop, NEW f \in stale' \ (missed' \cup unread')
    PROVE  Underway(f)'
<1>1. stage # "none" /\ stage \in PageStages /\ fetching' = fetching
    BY DEF IInv, NothingShown, Stop, TypeOK
<1>2. CASE known \/ stage = "navigating"
    BY <1>1, <1>2 DEF Stop, Due, Underway, PageStages
<1>3. CASE ~known /\ stage # "navigating"
    BY <1>1, <1>3 DEF Stop, Underway
<1> QED
    BY <1>2, <1>3

LEMMA StillKeeps ==
    ASSUME IInv, Start \/ Visit \/ Connect \/ Upgrade \/ Subscribe \/ OnOpen,
           NEW f \in stale' \ (missed' \cup unread')
    PROVE  Underway(f)'
<1> USE DEF watchVars, socketVars, pageVars, histories
<1>1. f \in stale \ (missed \cup unread) /\ Underway(f)
    BY OnItsWayIs DEF IInv, Start, Visit, Connect, Upgrade, Subscribe, OnOpen
<1>2. UNCHANGED <<watchVars, backlog, lagged, fetching>>
    BY DEF Start, Visit, Connect, Upgrade, Subscribe, OnOpen
<1>3. Due => Due'
    BY DEF Start, Visit, Connect, Upgrade, Subscribe, OnOpen, Due
<1> QED
    BY <1>1, <1>2, <1>3 DEF Underway, InBacklog

LEMMA LoadKeeps ==
    ASSUME Load \/ LoadFails, NEW f \in stale' \ (missed' \cup unread')
    PROVE  Underway(f)'
BY DEF Load, LoadFails, Underway

LEMMA FetchKeeps ==
    ASSUME IInv, NEW g \in Files, Fetch(g), NEW f \in stale' \ (missed' \cup unread')
    PROVE  Underway(f)'
<1> USE DEF watchVars, socketVars
<1>1. Due' = Due /\ UNCHANGED <<watchVars, backlog, lagged>> /\ fetching' = fetching \ {g}
    BY DEF Fetch, Due
<1>2. f # g \/ Due
    BY DEF Fetch
<1>3. f # g => Underway(f)
    BY OnItsWayIs DEF IInv, Fetch
<1> QED
    BY <1>1, <1>2, <1>3 DEF Underway, InBacklog

LEMMA ReceiveKeeps ==
    ASSUME IInv, Receive, NEW f \in stale' \ (missed' \cup unread')
    PROVE  Underway(f)'
<1>1. f \in stale \ (missed \cup unread) /\ Underway(f) /\ ~Due /\ UNCHANGED watchVars
    BY OnItsWayIs, StagesDiffer DEF IInv, Receive, Reads
<1>2. CASE stage' = "navigating"
    BY <1>2 DEF Underway, Due
<1>3. CASE stage' # "navigating"
  <2> DEFINE i == Head(backlog)
  <2>1. ~lagged /\ Reads /\ backlog # <<>> /\ i \in Instructions
    <3>1. ~lagged
        BY <1>3, FilesAssumption, MessagesAssumption DEF Receive, Acts
    <3> QED
        BY <3>1 DEF Receive, IInv, TypeOK
  <2>2. i \in Hot /\ i # Full /\ backlog' = Tail(backlog) /\ fetching \subseteq fetching'
      BY <1>3, <2>1, FilesAssumption, MessagesAssumption DEF Reads, Acts, Instructions
  <2>3. i = f => f \in fetching'
    <3> SUFFICES ASSUME i = f PROVE f \in fetching'
        OBVIOUS
    <3>1. CASE Misread(i)
      <4>1. f \in unread' \/ f \in fetching
          BY <1>1, <2>1, <3>1 DEF Reads
      <4> QED
          BY <2>2, <4>1
    <3>2. CASE ~Misread(i)
        BY <1>3, <2>1, <2>2, <3>2 DEF Misread, Reads, Acts
    <3> QED
        BY <3>1, <3>2
  <2>4. CASE InBacklog(backlog, f)
    <3>1. i = f \/ InBacklog(backlog', f)
        BY <2>1, <2>2, <2>4, TailBrings DEF IInv, TypeOK, Brings
    <3> QED
        BY <2>3, <3>1 DEF Underway
  <2>5. CASE ~InBacklog(backlog, f)
      BY <1>1, <2>1, <2>2, <2>5 DEF Underway, watchVars
  <2> QED
      BY <2>4, <2>5
<1> QED
    BY <1>2, <1>3

LEMMA NothingShownStep == IInv /\ Next => NothingShown'
<1> USE DEF IInv, NothingShown
<1>1. \A f \in Files : IInv /\ (Write(f) \/ Collect(f) \/ Fetch(f)) => NothingShown'
    BY DEF Write, Collect, Fetch, pageVars
<1>2. IInv /\ (Quiet \/ Stop \/ Start \/ Visit) => NothingShown'
    BY DEF Quiet, Stop, Start, Visit, pageVars
<1>3. \A i \in sending : IInv /\ Send(i) => NothingShown'
    BY DEF Send, pageVars
<1>4. IInv /\ (Load \/ LoadFails \/ Connect \/ Upgrade \/ Subscribe \/ OnOpen) => NothingShown'
    BY DEF Load, LoadFails, Connect, Upgrade, Subscribe, OnOpen, pageVars
<1>5. IInv /\ Receive => NothingShown'
    BY DEF Receive, Reads, Acts
<1> QED
    BY <1>1, <1>2, <1>3, <1>4, <1>5 DEF Next, Watching, Paging

LEMMA StepIInv == IInv /\ [Next]_vars => IInv'
<1> SUFFICES ASSUME IInv, [Next]_vars PROVE IInv'
    OBVIOUS
<1>1. CASE Next
  <2>1. TypeOK'
      BY <1>1, WatchTypes, PageTypes DEF IInv, Next, Watching
  <2>2. NothingShown'
      BY <1>1, NothingShownStep
  <2>3. ASSUME NEW f \in stale' \ (missed' \cup unread') PROVE Underway(f)'
      BY <1>1, <2>3, WriteKeeps, CollectKeeps, QuietKeeps, SendKeeps, StopKeeps, StillKeeps,
         LoadKeeps, FetchKeeps, ReceiveKeeps DEF Next, Watching, Paging
  <2>4. OnItsWay'
      BY <2>3 DEF OnItsWay, OnTheWay, Underway, InBacklog
  <2> QED
      BY <2>1, <2>2, <2>4 DEF IInv
<1>2. CASE UNCHANGED vars
    BY <1>2 DEF vars, watchVars, socketVars, pageVars, histories, IInv, TypeOK, NothingShown, OnItsWay, OnTheWay, Due
<1> QED
    BY <1>1, <1>2

LEMMA InitIInv == Init => IInv
<1> SUFFICES ASSUME Init PROVE IInv
    OBVIOUS
<1>1. backlog \in Seq(Instructions) /\ Len(backlog) \in 0..Capacity
    BY EmptyBacklog DEF Init
<1>2. TypeOK
  <2>1. writes \in 0..MaxWrites /\ stops \in 0..MaxStops
      BY BoundsAssumption DEF Init
  <2> QED
      BY <1>1, <2>1 DEF Init, TypeOK, PageStages, Ears
<1>3. NothingShown /\ OnItsWay
    BY DEF Init, NothingShown, OnItsWay
<1> QED
    BY <1>2, <1>3 DEF IInv

\* The inductive invariant holds in every reachable state.
THEOREM Invariance == Spec => []IInv
BY InitIInv, StepIInv, PTL DEF Spec

\* Every variable keeps its type, and the broadcast its bound.
THEOREM TypeCorrect == Spec => []TypeOK
<1>1. IInv => TypeOK
    BY DEF IInv
<1> QED
    BY Invariance, <1>1, PTL

\* Whatever the order of changes, batches, lags, reconnections and stops, no
\* change is forgotten on its way to a page that listens and reads its message.
THEOREM NoChangeForgotten == Spec => []OnItsWay
<1>1. IInv => OnItsWay
    BY DEF IInv
<1> QED
    BY Invariance, <1>1, PTL
=============================================================================
