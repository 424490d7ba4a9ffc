------------------------------ MODULE ReloadPath ------------------------------
(***************************************************************************)
(* The way of a change from the file to the page: the watcher's event, the *)
(* debounce task (src/server/src/watch.rs), the reload broadcast, the      *)
(* WebSocket of the page (src/server/src/http.rs, handle_websocket) and    *)
(* the client in the page (src/server/src/client.js).                      *)
(*                                                                         *)
(* There is one page, for pages do not see each other.  Of a file it only  *)
(* matters whether the page shows what is on disk; it shows what the       *)
(* server read for its last request, since a later request for the same    *)
(* sheet or image replaces an earlier one whichever answer comes first.    *)
(*                                                                         *)
(* An instruction travels as a JSON message with the file's path, written  *)
(* into it as it is.  What the client makes of the message depends on the  *)
(* name and on the page's elements, and is a constant here: it may be no   *)
(* JSON (a name with a quote), or name another path (an escape in a name), *)
(* or fit the element of another file (a srcset that contains the path).   *)
(*                                                                         *)
(* A server that stops closes its connections: that it can miss one is the *)
(* subject of Serving.  A page asked for while no server runs becomes the  *)
(* browser's error page, which holds no client.                            *)
(***************************************************************************)
EXTENDS Naturals, Sequences

CONSTANTS Files,     \* what the page consists of
          Document,  \* the HTML file, which brings the client
          Hot,       \* files classify hot-swaps: style sheets and images
          Garbled,   \* those whose message is no JSON
          Matched,   \* the files whose elements the client finds by a message
          Full,      \* the instruction to reload the whole page
          Capacity,  \* RELOAD_CAPACITY
          MaxWrites, \* bound of the model on the number of changes
          MaxStops   \* bound of the model on the number of stops

ASSUME FilesAssumption ==
    Document \in Files /\ Hot \subseteq Files \ {Document} /\ Full \notin Files
ASSUME MessagesAssumption ==
    Garbled \subseteq Hot /\ Matched \in [Hot -> SUBSET (Files \ {Document})]
ASSUME BoundsAssumption == Capacity \in Nat \ {0} /\ MaxWrites \in Nat /\ MaxStops \in Nat

VARIABLES
  writes,    \* number of changes so far
  stops,     \* number of stops so far
  up,        \* a server runs
  events,    \* files with an event in the watcher's channel
  pending,   \* changes collected, not yet broadcast
  sending,   \* instructions of the current batch still to be sent
  stage,     \* where the page stands
  ear,       \* the page's WebSocket on the server's side
  known,     \* everConnected
  backlog,   \* instructions broadcast and not yet received for the page
  lagged,    \* the backlog has lost its oldest instruction
  fetching,  \* files the page has asked for
  stale,     \* files that differ from what the page shows
  missed,    \* files whose change was broadcast before the page listened (history)
  unread     \* files whose message the page did not take for theirs (history)

watchVars == <<events, pending, sending>>
socketVars == <<ear, backlog, lagged>>
pageVars == <<stage, known, fetching>>
histories == <<missed, unread>>
vars == <<writes, stops, up, watchVars, socketVars, pageVars, stale, histories>>

Instructions == Hot \cup {Full}

\* none: not open, or an error page; navigating: the document has been asked for;
\* waiting: for the time to connect.
PageStages == {"none", "navigating", "waiting", "connecting", "open"}

\* none: no socket; answered: the 101 is out; listening: subscribed.
Ears == {"none", "answered", "listening"}

\* The shape of the variables; the broadcast keeps at most its capacity, and
\* what is on its way belongs to a server and a socket that exist.
TypeOK ==
    /\ writes \in 0..MaxWrites /\ stops \in 0..MaxStops
    /\ up \in BOOLEAN /\ known \in BOOLEAN /\ lagged \in BOOLEAN
    /\ events \subseteq Files /\ pending \subseteq Files
    /\ sending \subseteq Instructions
    /\ stage \in PageStages
    /\ ear \in Ears
    /\ backlog \in Seq(Instructions) /\ Len(backlog) \in 0..Capacity
    /\ fetching \subseteq Files
    /\ stale \subseteq Files /\ missed \subseteq Files /\ unread \subseteq Files
    /\ ~up => events = {} /\ pending = {} /\ ear = "none" /\ stage \notin {"connecting", "open"}
    /\ pending = {} => sending = {}
    /\ ear # "listening" => backlog = <<>> /\ ~lagged

Init ==
    /\ writes = 0 /\ stops = 0
    /\ up = TRUE
    /\ events = {} /\ pending = {} /\ sending = {}
    /\ stage = "none" /\ known = FALSE /\ fetching = {}
    /\ ear = "none" /\ backlog = <<>> /\ lagged = FALSE
    /\ stale = {} /\ missed = {} /\ unread = {}

\* The page is to load its document anew in any case.
Due == stage = "navigating" \/ (stage \in {"waiting", "connecting"} /\ known)

\* What is lost on a page that does not listen, unless it is loaded anew or has
\* asked for the file just now.
Misses(files) == missed' = IF Due THEN missed ELSE missed \cup ((files \cap stale) \ fetching)

(***************************************************************************)
(* The files, the watcher and the debounce task.                           *)
(***************************************************************************)
\* Without a server nobody watches.
Write(f) ==
    /\ writes < MaxWrites
    /\ writes' = writes + 1
    /\ stale' = IF stage = "none" THEN stale ELSE stale \cup {f}
    /\ events' = IF up THEN events \cup {f} ELSE events
    /\ missed' = IF up THEN missed \ {f}
                 ELSE IF Due \/ f \in fetching \/ stage = "none" THEN missed ELSE missed \cup {f}
    /\ unread' = IF up THEN unread \ {f} ELSE unread
    /\ UNCHANGED <<stops, up, pending, sending, socketVars, pageVars>>

Collect(f) ==
    /\ f \in events /\ sending = {}
    /\ events' = events \ {f}
    /\ pending' = pending \cup {f}
    /\ UNCHANGED <<writes, stops, up, sending, socketVars, pageVars, stale, histories>>

\* plan: one full reload supersedes the swaps of the same batch.
Plan(files) == IF files \subseteq Hot THEN files ELSE {Full}

\* Nothing has come for the length of the window.
Quiet ==
    /\ pending # {} /\ sending = {} /\ events = {}
    /\ sending' = Plan(pending)
    /\ UNCHANGED <<writes, stops, up, events, pending, socketVars, pageVars, stale, histories>>

Covered(i) == IF i = Full THEN pending ELSE {i}

\* Mutant: a channel without a bound.
SendUnbounded(i) ==
    /\ i \in sending
    /\ sending' = sending \ {i}
    /\ pending' = IF sending' = {} THEN {} ELSE pending
    /\ IF ear = "listening"
       THEN backlog' = Append(backlog, i) /\ UNCHANGED <<lagged, missed>>
       ELSE Misses(Covered(i)) /\ UNCHANGED <<backlog, lagged>>
    /\ UNCHANGED <<writes, stops, up, events, ear, pageVars, stale, unread>>

\* A broadcast to a receiver that is behind by its capacity pushes out the
\* oldest instruction; one to nobody is lost.
Send(i) ==
    /\ i \in sending
    /\ sending' = sending \ {i}
    /\ pending' = IF sending' = {} THEN {} ELSE pending
    /\ IF ear = "listening"
       THEN /\ backlog' = Append(IF Len(backlog) < Capacity THEN backlog ELSE Tail(backlog), i)
            /\ lagged' = (lagged \/ Len(backlog) = Capacity)
            /\ UNCHANGED missed
       ELSE Misses(Covered(i)) /\ UNCHANGED <<backlog, lagged>>
    /\ UNCHANGED <<writes, stops, up, events, ear, pageVars, stale, unread>>

(***************************************************************************)
(* The server comes and goes, and with it the watcher.                     *)
(***************************************************************************)
Silence == ear' = "none" /\ backlog' = <<>> /\ lagged' = FALSE

\* onclose: the client tries again later.
Stop ==
    /\ up /\ stops < MaxStops
    /\ stops' = stops + 1
    /\ up' = FALSE
    /\ events' = {} /\ pending' = {} /\ sending' = {}
    /\ Silence
    /\ stage' = IF stage \in {"connecting", "open"} THEN "waiting" ELSE stage
    /\ missed' = IF known \/ stage \in {"none", "navigating"} THEN missed
                 ELSE missed \cup (stale \ fetching)
    /\ UNCHANGED <<writes, known, fetching, stale, unread>>

Start ==
    /\ ~up
    /\ up' = TRUE
    /\ UNCHANGED <<writes, stops, watchVars, socketVars, pageVars, stale, histories>>

(***************************************************************************)
(* The page.                                                               *)
(***************************************************************************)
\* The user opens the page.
Visit ==
    /\ stage = "none" /\ up
    /\ stage' = "navigating"
    /\ UNCHANGED <<writes, stops, up, watchVars, socketVars, known, fetching, stale, histories>>

\* A new document: it is what is on disk, and asks for the rest.  Its client is
\* about to connect for the first time; the old one's socket is gone.
Load ==
    /\ stage = "navigating" /\ up
    /\ stage' = "waiting" /\ known' = FALSE
    /\ fetching' = Files \ {Document}
    /\ stale' = Files \ {Document} /\ missed' = {} /\ unread' = {}
    /\ Silence
    /\ UNCHANGED <<writes, stops, up, watchVars>>

LoadFails ==
    /\ stage = "navigating" /\ ~up
    /\ stage' = "none" /\ known' = FALSE
    /\ fetching' = {} /\ stale' = {} /\ missed' = {} /\ unread' = {}
    /\ Silence
    /\ UNCHANGED <<writes, stops, up, watchVars>>

\* The answer is the file on disk or, without a server, nothing.
Fetch(f) ==
    /\ f \in fetching
    /\ fetching' = fetching \ {f}
    /\ IF up THEN stale' = stale \ {f} /\ missed' = missed \ {f} /\ unread' = unread \ {f}
       ELSE /\ missed' = IF Due THEN missed ELSE missed \cup {f}
            /\ UNCHANGED <<stale, unread>>
    /\ UNCHANGED <<writes, stops, up, watchVars, socketVars, stage, known>>

\* connect; a try while no server runs changes nothing.
Connect ==
    /\ stage = "waiting" /\ up
    /\ stage' = "connecting"
    /\ UNCHANGED <<writes, stops, up, watchVars, socketVars, known, fetching, stale, histories>>

\* The server answers the upgrade, then subscribes.
Upgrade ==
    /\ stage = "connecting" /\ ear = "none"
    /\ ear' = "answered"
    /\ UNCHANGED <<writes, stops, up, watchVars, backlog, lagged, pageVars, stale, histories>>

Subscribe ==
    /\ ear = "answered"
    /\ ear' = "listening"
    /\ UNCHANGED <<writes, stops, up, watchVars, backlog, lagged, pageVars, stale, histories>>

\* Mutant: does not reload a page that has been connected before.
OnOpenSilent ==
    /\ stage = "connecting" /\ ear # "none"
    /\ stage' = "open" /\ known' = TRUE
    /\ UNCHANGED <<writes, stops, up, watchVars, socketVars, fetching, stale, histories>>

\* onopen: a page that was connected before may be out of date, and reloads.
OnOpen ==
    /\ stage = "connecting" /\ ear # "none"
    /\ IF known THEN stage' = "navigating" /\ UNCHANGED known
                ELSE stage' = "open" /\ known' = TRUE
    /\ UNCHANGED <<writes, stops, up, watchVars, socketVars, fetching, stale, histories>>

\* onmessage: pass over what does not parse; ask anew for what an element of the
\* page fits; reload when there is none.
Acts(i) ==
    IF i \in Garbled THEN UNCHANGED <<stage, fetching>>
    ELSE IF i = Full \/ Matched[i] = {} THEN stage' = "navigating" /\ UNCHANGED fetching
    ELSE fetching' = fetching \cup Matched[i] /\ UNCHANGED stage

\* Neither leads to the file itself.
Misread(i) == i # Full /\ (i \in Garbled \/ (Matched[i] # {} /\ i \notin Matched[i]))

\* The page reads the oldest message.
Reads ==
    LET i == Head(backlog)
    IN  /\ backlog' = Tail(backlog)
        /\ Acts(i)
        /\ unread' = IF Misread(i) THEN unread \cup (({i} \cap stale) \ fetching) ELSE unread

\* Mutant: goes on with the oldest instruction the broadcast still has.
ReceiveUnawares ==
    /\ stage = "open" /\ backlog # <<>>
    /\ lagged' = FALSE
    /\ Reads
    /\ UNCHANGED <<writes, stops, up, watchVars, ear, known, stale, missed>>

\* The socket's task passes on what it receives; told that it has lagged it
\* sends a full reload first.
Receive ==
    /\ stage = "open"
    /\ lagged \/ backlog # <<>>
    /\ lagged' = FALSE
    /\ IF lagged THEN Acts(Full) /\ UNCHANGED <<backlog, unread>> ELSE Reads
    /\ UNCHANGED <<writes, stops, up, watchVars, ear, known, stale, missed>>

-----------------------------------------------------------------------------
Watching == (\E f \in Files : Collect(f)) \/ Quiet \/ (\E i \in sending : Send(i))

Paging ==
    \/ Load \/ LoadFails
    \/ \E f \in Files : Fetch(f)
    \/ Connect \/ Upgrade \/ Subscribe \/ OnOpen \/ Receive

Next ==
    \/ \E f \in Files : Write(f)
    \/ Stop \/ Start \/ Visit
    \/ Watching
    \/ Paging

Spec == Init /\ [][Next]_vars

\* Tasks run, timers fire, requests are answered.  The user, the writers and
\* whoever starts and stops the server owe nothing.
FairSpec == Spec /\ WF_vars(Watching) /\ WF_vars(Paging)

(***************************************************************************)
(* What must hold of it.                                                   *)
(***************************************************************************)
\* An instruction that brings f up to date.
Brings(i, f) == i = Full \/ i = f

\* A change of f that the page does not show is in the watcher's channel, collected,
\* in the backlog, asked for, or will come with a reload.
OnTheWay(f) ==
    \/ f \in events \cup fetching
    \/ f \in pending /\ (sending = {} \/ \E i \in sending : Brings(i, f))
    \/ \E n \in 1..Len(backlog) : Brings(backlog[n], f)
    \/ lagged \/ Due

\* No change is forgotten anywhere on the way (watch.rs:46-84, http.rs:214-229,
\* client.js:192-258), unless the page did not listen yet when it was broadcast, or
\* did not take its message for what it was.
OnItsWay == \A f \in stale \ (missed \cup unread) : OnTheWay(f)

\* The page catches up (README.md:5): if the server stays and the files come to
\* rest, it comes to show what is on disk, except for changes that were broadcast
\* after it was loaded and before it listened, and those whose message it misread.
PageCatchesUp == <>[]up => <>[](stage = "none" \/ stale \subseteq missed \cup unread)
=============================================================================
