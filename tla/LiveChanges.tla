----------------------------- MODULE LiveChanges -----------------------------
(***************************************************************************)
(* The live_changes setting: the editor streams what is typed, the overlay *)
(* holds it (src/server/src/overlay.rs), the servers serve it in place of  *)
(* the file on disk, and a reload is broadcast once the typing pauses      *)
(* (buffer_changed, reconfigure and the did_* handlers of                  *)
(* src/server/src/lsp.rs).                                                 *)
(*                                                                         *)
(* Every text is a stamp, the number of the write that made it, so two     *)
(* different texts differ.  An edit changes one text into another; applied *)
(* to a text it was not made for it leaves Garbled.                        *)
(*                                                                         *)
(* The handlers of several notifications are in flight at once.  They      *)
(* begin in the order the notifications were sent, and those that change   *)
(* the overlay wait for its lock, first come, first served: it may be held *)
(* by a request that reads a text.  A did_change takes that lock anew for  *)
(* each of its edits, behind whoever waits for it by then.  What it does   *)
(* after its last edit, and what a reconfigure does after it has replaced  *)
(* the configuration, interleaves with the handlers that follow.           *)
(*                                                                         *)
(* The lock of the configuration is taken to be free.  A handler could     *)
(* find it held only while another thread copies it for a command, and a   *)
(* save could then overtake an open or an edit that waits for it.          *)
(*                                                                         *)
(* How one server stops and starts is the subject of LiveServer; here it   *)
(* is the two steps between which the overlay still holds its texts.       *)
(***************************************************************************)
EXTENDS Naturals, Sequences

CONSTANTS Docs,        \* documents of the editor
          Servers,     \* one LiveServer per workspace folder
          Home,        \* Home[d]: the server whose root holds d
          MaxStamps,   \* bound of the model on the number of writes
          MaxToggles,  \* bound of the model on changes of live_changes
          MaxEdits,    \* bound of the model on the edits of one notification
          MaxInFlight, \* bound of the model on notifications not yet handled
          Nothing,     \* the overlay holds no text
          Garbled      \* the overlay holds a text the editor never had

ASSUME HomeAssumption == Home \in [Docs -> Servers]
ASSUME BoundsAssumption ==
    MaxStamps \in Nat /\ MaxToggles \in Nat /\ MaxEdits \in Nat /\ MaxInFlight \in Nat
ASSUME MarksAssumption == Nothing # Garbled /\ {Nothing, Garbled} \cap Nat = {}

VARIABLES
  open,      \* documents open in the editor
  text,      \* text[d]: what the editor shows, once opened
  disk,      \* disk[d]: what the file holds
  stamp,     \* the last stamp used
  synced,    \* the server asked for edits when it was initialized
  inbox,     \* notifications sent, whose handlers are yet to begin
  queue,     \* handlers that wait for the overlay's lock
  live,      \* the live_changes setting in force
  toggles,   \* how often the editor has changed it
  held,      \* held[d]: the overlay's text, Nothing or Garbled
  running,   \* servers with an instance
  serves,    \* serves[s]: s runs, started while live_changes was on
  stops,     \* stops past the take whose overlay is yet to be cleared
  passes,    \* passes[i]: what the i-th reconfigure still has to do
  claiming,  \* did_change handlers that have yet to claim a number
  keystroke, \* the last number claimed
  pending,   \* numbers whose task waits for the typing to pause
  reloaded,  \* the last number whose reload has been broadcast (history)
  lapsed,    \* documents the overlay has lost track of (history)
  torn,      \* documents whose edits took effect out of order (history)
  released   \* documents last sent a save, not an edit (history)

editorVars == <<open, text, disk, stamp, synced, toggles, released>>
serverVars == <<running, serves, stops, passes>>
reloadVars == <<claiming, keystroke, pending, reloaded>>
overlayVars == <<queue, held, lapsed, torn>>
vars == <<editorVars, inbox, live, overlayVars, serverVars, reloadVars>>

Stamps == 0..MaxStamps

\* The first edit of a change leads from before to next, and replaces all of the
\* text if whole; the others lead from one stamp to the next, up to after.
EditMessages ==
    {m \in [kind : {"change"}, doc : Docs, before : Stamps, next : Stamps, after : Stamps,
            whole : BOOLEAN] : m.next <= m.after}
Notices ==
    [kind : {"open"}, doc : Docs, after : Stamps]
    \cup EditMessages
    \cup [kind : {"save", "close"}, doc : Docs]
Messages == Notices \cup [kind : {"config"}, live : BOOLEAN]

\* A stop on its own (pass 0) or as part of a restart by a reconfigure.
Stopping == [server : Servers, pass : 0..MaxToggles]

\* left: servers not yet looked at; busy: waits for one to restart.
Passes == [live : BOOLEAN, left : SUBSET Servers, busy : BOOLEAN]

\* The shape of the variables: no reload is broadcast under a number that was
\* not claimed, and every number is claimed at most once.
TypeOK ==
    /\ open \subseteq Docs
    /\ text \in [Docs -> Stamps] /\ disk \in [Docs -> Stamps]
    /\ stamp \in Stamps
    /\ synced \in BOOLEAN /\ live \in BOOLEAN
    /\ inbox \in Seq(Messages) /\ queue \in Seq(Notices)
    /\ toggles \in 0..MaxToggles
    /\ held \in [Docs -> Stamps \cup {Nothing, Garbled}]
    /\ running \subseteq Servers
    /\ serves \in [Servers -> BOOLEAN]
    /\ stops \subseteq Stopping
    /\ passes \in Seq(Passes)
    /\ claiming \subseteq [doc : Docs, after : Stamps]
    /\ keystroke \in Stamps
    /\ pending \subseteq (1..keystroke) \ {reloaded}
    /\ reloaded \in 0..keystroke
    /\ lapsed \subseteq Docs /\ released \subseteq Docs /\ torn \subseteq Docs

Init ==
    /\ open = {}
    /\ text = [d \in Docs |-> 0] /\ disk = [d \in Docs |-> 0]
    /\ stamp = 0 /\ toggles = 0
    /\ live \in BOOLEAN /\ synced = live
    /\ inbox = <<>> /\ queue = <<>>
    /\ held = [d \in Docs |-> Nothing]
    /\ running = {} /\ serves = [s \in Servers |-> FALSE]
    /\ stops = {} /\ passes = <<>>
    /\ claiming = {} /\ keystroke = 0 /\ pending = {} /\ reloaded = 0
    /\ lapsed = Docs /\ released = {} /\ torn = {}

(***************************************************************************)
(* The editor.                                                             *)
(***************************************************************************)
Send(m) == Len(inbox) + Len(queue) < MaxInFlight /\ inbox' = Append(inbox, m)

IsAbout(m, d) == m.kind # "config" /\ m.doc = d

\* Something in s is about d.
Concerns(s, d) == \E i \in 1..Len(s) : IsAbout(s[i], d)

\* No notification about d is on its way.
Settled(d) == ~Concerns(inbox, d) /\ ~Concerns(queue, d)

\* The order is restored once a document is opened anew.
Open(d) ==
    /\ d \notin open
    /\ open' = open \cup {d}
    /\ text' = [text EXCEPT ![d] = disk[d]]
    /\ released' = released \ {d}
    /\ Send([kind |-> "open", doc |-> d, after |-> disk[d]])
    /\ torn' = IF Settled(d) THEN torn \ {d} ELSE torn
    /\ UNCHANGED <<disk, stamp, synced, toggles, live, queue, held, lapsed, serverVars, reloadVars>>

\* Edits are sent only if the server asked for them in its capabilities.  One
\* that replaces all of the text comes first in its notification.
Type(d, edits, whole) ==
    /\ d \in open
    /\ stamp + edits <= MaxStamps
    /\ stamp' = stamp + edits
    /\ text' = [text EXCEPT ![d] = stamp + edits]
    /\ IF synced
       THEN /\ released' = released \ {d}
            /\ Send([kind |-> "change", doc |-> d, before |-> text[d], next |-> stamp + 1,
                     after |-> stamp + edits, whole |-> whole])
            /\ UNCHANGED lapsed
       ELSE lapsed' = lapsed \cup {d} /\ UNCHANGED <<released, inbox>>
    /\ UNCHANGED <<open, disk, synced, toggles, live, queue, held, torn, serverVars, reloadVars>>

Save(d) ==
    /\ d \in open
    /\ disk[d] # text[d]
    /\ disk' = [disk EXCEPT ![d] = text[d]]
    /\ released' = released \cup {d}
    /\ Send([kind |-> "save", doc |-> d])
    /\ UNCHANGED <<open, text, stamp, synced, toggles, live, overlayVars, serverVars, reloadVars>>

Close(d) ==
    /\ d \in open
    /\ open' = open \ {d}
    /\ Send([kind |-> "close", doc |-> d])
    /\ UNCHANGED <<text, disk, stamp, synced, toggles, released, live, overlayVars,
                   serverVars, reloadVars>>

\* The setting the editor has sent last.
LastSent ==
    LET sent == SelectSeq(inbox, LAMBDA m : m.kind = "config")
    IN  IF sent = <<>> THEN live ELSE sent[Len(sent)].live

Toggle ==
    /\ toggles < MaxToggles
    /\ toggles' = toggles + 1
    /\ Send([kind |-> "config", live |-> ~LastSent])
    /\ UNCHANGED <<open, text, disk, stamp, synced, released, live, overlayVars,
                   serverVars, reloadVars>>

(***************************************************************************)
(* The handlers, up to where they wait for the overlay.                    *)
(***************************************************************************)
Receives(kind) == inbox # <<>> /\ Head(inbox).kind = kind /\ inbox' = Tail(inbox)

WaitsForOverlay ==
    /\ queue' = Append(queue, Head(inbox))
    /\ UNCHANGED <<editorVars, live, held, lapsed, torn, serverVars, reloadVars>>

\* A handler that finds live_changes off does nothing, and does not wait for the
\* earlier ones.
Ends ==
    LET d == Head(inbox).doc
    IN  /\ lapsed' = lapsed \cup {d}
        /\ torn' = IF Concerns(queue, d) THEN torn \cup {d} ELSE torn
        /\ UNCHANGED <<editorVars, live, queue, held, serverVars, reloadVars>>

DidOpen == Receives("open") /\ IF live THEN WaitsForOverlay ELSE Ends

DidChange == Receives("change") /\ IF live THEN WaitsForOverlay ELSE Ends

DidSave == Receives("save") /\ WaitsForOverlay

\* Mutant: like its neighbours, does nothing while live_changes is off.
DidCloseWhenLive == Receives("close") /\ IF live THEN WaitsForOverlay ELSE Ends

DidClose == Receives("close") /\ WaitsForOverlay

(***************************************************************************)
(* The overlay, in the hands of the handler at the head of the queue.      *)
(***************************************************************************)
Granted(kinds) == queue # <<>> /\ Head(queue).kind \in kinds

OverlaySet ==
    /\ Granted({"open"})
    /\ LET m == Head(queue)
       IN  /\ held' = [held EXCEPT ![m.doc] = m.after]
           /\ lapsed' = IF synced THEN lapsed \ {m.doc} ELSE lapsed
    /\ queue' = Tail(queue)
    /\ UNCHANGED <<editorVars, inbox, live, torn, serverVars, reloadVars>>

\* Mutant: an edit of an unknown document is inserted rather than ignored.
AppliedToAnything(current, m) ==
    IF m.whole \/ current = m.before THEN m.next ELSE Garbled

\* Mutant: an unknown document is ignored even when the edit replaces all of it.
AppliedToKnown(current, m) ==
    IF current = Nothing THEN Nothing
    ELSE IF m.whole \/ current = m.before THEN m.next ELSE Garbled

\* Overlay::apply.
Applied(current, m) ==
    CASE m.whole -> m.next
      [] ~m.whole /\ current = Nothing -> Nothing
      [] ~m.whole /\ current # Nothing -> IF current = m.before THEN m.next ELSE Garbled

\* What is left of a change once its first edit is applied.
Rest(m) == [m EXCEPT !.before = m.next, !.next = m.next + 1, !.whole = FALSE]

\* One turn of the loop over content_changes: the others wait anew.
OverlayApply ==
    /\ Granted({"change"})
    /\ LET m == Head(queue)
       IN  /\ held' = [held EXCEPT ![m.doc] = Applied(@, m)]
           /\ lapsed' = IF m.whole THEN lapsed \ {m.doc} ELSE lapsed
           /\ IF m.next = m.after
              THEN /\ queue' = Tail(queue)
                   /\ claiming' = claiming \cup {[doc |-> m.doc, after |-> m.after]}
                   /\ UNCHANGED torn
              ELSE /\ queue' = Append(Tail(queue), Rest(m))
                   /\ torn' = IF Concerns(Tail(queue), m.doc) THEN torn \cup {m.doc} ELSE torn
                   /\ UNCHANGED claiming
    /\ UNCHANGED <<editorVars, inbox, live, serverVars, keystroke, pending, reloaded>>

OverlayClear ==
    /\ Granted({"save", "close"})
    /\ LET d == Head(queue).doc
       IN  held' = [held EXCEPT ![d] = Nothing] /\ lapsed' = lapsed \cup {d}
    /\ queue' = Tail(queue)
    /\ UNCHANGED <<editorVars, inbox, live, torn, serverVars, reloadVars>>

(***************************************************************************)
(* The setting, and the reload after an edit.                              *)
(***************************************************************************)
\* reconfigure replaces the configuration, then comes to the servers in turn.
DidChangeConfiguration ==
    /\ Receives("config")
    /\ live' = Head(inbox).live
    /\ passes' = Append(passes, [live |-> live', left |-> Servers, busy |-> FALSE])
    /\ UNCHANGED <<editorVars, overlayVars, running, serves, stops, reloadVars>>

\* Mutant: takes the number after the counter's, which it leaves alone.
BufferChangedUncounted(h) ==
    /\ h \in claiming
    /\ claiming' = claiming \ {h}
    /\ IF live /\ Home[h.doc] \in running
       THEN pending' = pending \cup {keystroke + 1} /\ UNCHANGED keystroke
       ELSE UNCHANGED <<keystroke, pending>>
    /\ UNCHANGED <<editorVars, inbox, live, overlayVars, serverVars, reloaded>>

\* Mutant: takes the counter's old value for the number claimed.
BufferChangedEarly(h) ==
    /\ h \in claiming
    /\ claiming' = claiming \ {h}
    /\ IF live /\ Home[h.doc] \in running
       THEN keystroke' = keystroke + 1 /\ pending' = pending \cup ({keystroke} \ {0})
       ELSE UNCHANGED <<keystroke, pending>>
    /\ UNCHANGED <<editorVars, inbox, live, overlayVars, serverVars, reloaded>>

\* The rest of a did_change: buffer_changed reads the setting and the status of
\* the server that owns the file, then claims a number and spawns the reload.
BufferChanged(h) ==
    /\ h \in claiming
    /\ claiming' = claiming \ {h}
    /\ IF live /\ Home[h.doc] \in running
       THEN keystroke' = keystroke + 1 /\ pending' = pending \cup {keystroke + 1}
       ELSE UNCHANGED <<keystroke, pending>>
    /\ UNCHANGED <<editorVars, inbox, live, overlayVars, serverVars, reloaded>>

\* Mutant: the task does not ask whether it is still the last.
WakesAlways(n) ==
    /\ n \in pending
    /\ pending' = pending \ {n}
    /\ reloaded' = n
    /\ UNCHANGED <<editorVars, inbox, live, overlayVars, serverVars, claiming, keystroke>>

\* The spawned task wakes: only the most recent claim reloads anything.
Wakes(n) ==
    /\ n \in pending
    /\ pending' = pending \ {n}
    /\ reloaded' = IF keystroke = n THEN n ELSE reloaded
    /\ UNCHANGED <<editorVars, inbox, live, overlayVars, serverVars, claiming, keystroke>>

(***************************************************************************)
(* The servers.  One overlay serves them all, and each clears all of it.   *)
(***************************************************************************)
Start(s) ==
    /\ s \notin running
    /\ running' = running \cup {s}
    /\ serves' = [serves EXCEPT ![s] = live]
    /\ UNCHANGED <<editorVars, inbox, live, overlayVars, stops, passes, reloadVars>>

\* At most one stop of a server on its own is between its two steps: a bound.
Stop(s) ==
    /\ s \in running
    /\ [server |-> s, pass |-> 0] \notin stops
    /\ running' = running \ {s}
    /\ serves' = [serves EXCEPT ![s] = FALSE]
    /\ stops' = stops \cup {[server |-> s, pass |-> 0]}
    /\ UNCHANGED <<editorVars, inbox, live, overlayVars, passes, reloadVars>>

\* reconfigure comes to a server and restarts it if it is running, or else skips
\* it.  A later pass gets ahead only of one that waits for a restart.
Reconfigure(i, s) ==
    /\ s \in passes[i].left /\ ~passes[i].busy
    /\ \A j \in 1..(i - 1) : s \in passes[j].left => passes[j].busy
    /\ passes' = [passes EXCEPT ![i].left = @ \ {s}, ![i].busy = s \in running]
    /\ running' = running \ {s} /\ serves' = [serves EXCEPT ![s] = FALSE]
    /\ stops' = IF s \in running THEN stops \cup {[server |-> s, pass |-> i]} ELSE stops
    /\ UNCHANGED <<editorVars, inbox, live, overlayVars, reloadVars>>

\* The end of a stop.
ClearAll(p) ==
    /\ stops' = stops \ {p}
    /\ held' = [d \in Docs |-> Nothing]
    /\ lapsed' = Docs
    /\ UNCHANGED <<editorVars, inbox, live, queue, torn, reloadVars>>

StopEnds(p) ==
    /\ p \in stops /\ p.pass = 0
    /\ ClearAll(p)
    /\ UNCHANGED <<running, serves, passes>>

\* A restart goes on to start, which finds a server running, or fails to bind one.
RestartEnds(p) ==
    /\ p \in stops /\ p.pass # 0
    /\ ClearAll(p)
    /\ passes' = [passes EXCEPT ![p.pass].busy = FALSE]
    /\ \/ UNCHANGED <<running, serves>>
       \/ /\ p.server \notin running
          /\ running' = running \cup {p.server}
          /\ serves' = [serves EXCEPT ![p.server] = passes[p.pass].live]

-----------------------------------------------------------------------------
Editor ==
    \/ \E d \in Docs : Open(d) \/ Save(d) \/ Close(d)
    \/ \E d \in Docs, edits \in 1..MaxEdits, whole \in BOOLEAN : Type(d, edits, whole)
    \/ Toggle

Handler ==
    \/ DidOpen \/ DidChange \/ DidSave \/ DidClose
    \/ OverlaySet \/ OverlayApply \/ OverlayClear
    \/ DidChangeConfiguration

Next ==
    \/ Editor
    \/ Handler
    \/ \E h \in claiming : BufferChanged(h)
    \/ \E n \in pending : Wakes(n)
    \/ \E s \in Servers : Start(s) \/ Stop(s)
    \/ \E i \in DOMAIN passes, s \in Servers : Reconfigure(i, s)
    \/ \E p \in stops : StopEnds(p) \/ RestartEnds(p)

Spec == Init /\ [][Next]_vars

\* Timers fire.
FairSpec == Spec /\ WF_vars(\E n \in pending : Wakes(n))

(***************************************************************************)
(* What must hold of it.                                                   *)
(***************************************************************************)
\* From the opening of a document, or an edit that replaces all of it, until
\* something makes it lose track (a save, a stop, an edit it is not sent or
\* does not take), the overlay holds exactly what the editor shows, as long as
\* the edits of two notifications do not interleave.
HeldFollowsBuffer == \A d \in open \ (lapsed \cup torn) : Settled(d) => held[d] = text[d]

\* did_save and did_close (lsp.rs:675-689): once a document is saved or closed
\* the overlay holds nothing of it, for that "would mask any change made to the
\* file by another program".  However the setting changed in between, and the
\* edits of several notifications interleaved.
DiskIsNotMasked ==
    \A d \in Docs : Settled(d) /\ (d \notin open \/ d \in released) => held[d] = Nothing

\* Saves, stops and restarts make the overlay lose text, but leave no wrong one in
\* its place (overlay.rs:42-63): what it holds of an open document is out of date
\* only after a change of the setting, and mixed up only after two (an edit is
\* skipped while live_changes is off, another applied once it is on again), again
\* as long as no notifications interleave.
LostNotWrong ==
    \A d \in Docs \ torn :
        /\ held[d] = Garbled => toggles > 1
        /\ d \in open /\ Settled(d) /\ toggles = 0 => held[d] \in {Nothing, text[d]}

\* overlay.rs:11: what the overlay holds is "buffer contents the editor has told us
\* about", not a mixture of several.
HeldIsABuffer == \A d \in Docs : held[d] # Garbled

\* Reloads are broadcast in the order their numbers were claimed (lsp.rs:423-434):
\* a late timer never brings up an older change after a newer one.
ReloadsInOrder == [][reloaded' >= reloaded]_reloaded

\* What has been typed last is followed by its reload (lsp.rs:423-434): a pause in the
\* typing is noticed, and here it comes, for the number of edits is bounded.
PauseReloads == keystroke > reloaded ~> keystroke = reloaded

\* README.md:123-125 on live_changes: the server holds what is typed in memory and
\* serves it in place of the file on disk.
Served(d) == IF serves[Home[d]] /\ held[d] # Nothing THEN held[d] ELSE disk[d]

BufferIsServed ==
    \A d \in open :
        live /\ synced /\ Home[d] \in running /\ Settled(d) => Served(d) = text[d]
=============================================================================
