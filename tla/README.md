# A formal model of live-reload-server

`live-reload-server` is a Zed extension (`src/lib.rs`) and a language server
(`server/src`) that serves a workspace folder over HTTP and reloads the browser
when a file changes. This directory holds TLA+ models of it, the TLC runs that
check them on small instances, and TLAPS proofs of theorems about them.
Paths below are relative to the repository; `server.rs` means
`server/src/server.rs`.

    tlc -workers 2 -config lifecycle.cfg MCLiveServer.tla     # one run
    tlapm LiveServerProofs.tla                                # the proofs of a module

## The system

| Part | State | Operations | Talks to |
| --- | --- | --- | --- |
| `LiveServer` (`server.rs`) | `Mutex<Option<Instance>>`: port, two broadcast senders, the accept task, the watcher | `start`, `stop`, `restart`, `status`, `notify`, `url_for` | called by the back end's handlers, the control task and `main`; spawns the accept task |
| Connections (`http.rs`, `ws.rs`) | one task per socket with its receivers | `serve_connection`, `handle_websocket`, `handle_request` | browser; hears `shutdown` and `reload` broadcasts of its instance; reads the overlay and the disk |
| Watcher (`watch.rs`, `reload.rs`) | the pending set of paths | `debounce`, `collect`, `plan`, `classify` | the file system; sends to the `reload` broadcast |
| Page client (`client.js`) | socket, retry delay, the badge | `connect`, `onmessage`, `swapCss`, `swapImages`, `reload` | the WebSocket, the document |
| Overlay (`overlay.rs`) | map from path to unsaved text, shared by all servers | `set`, `apply`, `clear`, `clear_all`, `get` | written by the `did_*` handlers and by every `stop`; read by requests |
| Back end (`lsp.rs`) | settings, servers by folder, keystroke counter, status item | the LSP handlers, `reconfigure`, `buffer_changed`, `run_control` | the editor, the servers, the control channel |
| Control channel (`control.rs`, `main.rs`) | state file with port and token | `listen`, `handle`, `send`, `remove_state` | other processes of the same user |
| Extension (`src/lib.rs`) | downloaded binaries | `binary_path`, `download_binary`, `remove_stale_versions` | the editor's host API |
| Injection, paths, ranges, framing, settings | none | pure functions | |

What makes it hard:

- LSP requests, the control task and `reconfigure` call one `LiveServer`
  concurrently, and `stop` holds its mutex only while it takes the instance.
- An aborted accept task lives on until the runtime drops it.
- A tower-lsp request can be cancelled at any await, a notification cannot.
- A broadcast reaches only the receivers that exist when it is sent, and
  connection tasks subscribe at two different moments.
- One overlay and one keystroke counter serve every document of every folder.
- Two changes of the settings can be in progress at once.
- Several notifications are handled at once, and a `did_change` takes the overlay's lock
  anew for each of its edits.
- File names become messages, which the page has to read as what they were written for.
- The page can miss a change before it has subscribed, fall behind the
  broadcast, or be served by a server of another generation.
- Processes that know nothing of each other share one state file.
- The handlers of the back end, several at a time, share the map of servers, the
  settings and one status item, and hold locks over what takes long.
- Files change between the look at them, their opening and the chunks of a body.
- Names are encoded and decoded, and places in a text counted, by different code.
- `select!` drops the reading of a frame when something else is ready first.

`PROJECT.json` lists each of these hazards at its line, with the properties that
cover it or the reason why none does.

What makes each part correct: a server has one listener, releases what it binds
and tells its connections when it goes; a connection ends with its server; the
overlay holds the editor's text or nothing; the last change of a burst reaches
the page; the state file leads to a live process or to nothing; the status bar
tells where servers run; a request gets what its target means, as long as its head
says.

## The modules

| Module | Subject | Built on |
| --- | --- | --- |
| `ServerLifecycle` | what a server promises its callers | |
| `LiveServer` | `server.rs`, step by step | implements `ServerLifecycle` |
| `Serving` | the connections of a server | extends `LiveServer` |
| `LiveChanges` | overlay, editor, `buffer_changed`, `reconfigure` | |
| `ReloadPath` | a change's way from the file to the page | |
| `Control` | language servers, their state files, runs of the command line | |
| `Backend` | the servers of a workspace, who works on them, the status bar | |
| `Paths` | targets, mounts, URLs | |
| `Requests` | a connection's requests, beside a disk that changes | extends `Paths` |
| `Frames` | what a page's WebSocket reads | |
| `Wire` | a connection from the first request to the end of its WebSocket | extends `Requests`, `Frames` |
| `Edits` | one document's characters: editor, overlay, page | |
| `LiveServerProofs` (and those of `Serving`), `LiveChangesProofs`, `ReloadPathProofs`, `ControlProofs`, `WireProofs`, `EditsProofs` | theorems | TLAPS |
| `BackendSteps`, `BackendProofs` | what a task's steps turn into; the theorems of `Backend` | TLAPS |
| `MCLiveServer`, `MCServing`, `MCLiveChanges`, `MCReloadPath`, `MCControl`, `MCBackend`, `MCWire`, `MCEdits` | instances for TLC | |

### ServerLifecycle

The promise. A server runs at a port or does not run. A call is begun, takes
effect in one step or, for a restart, two, and is answered. A start's answer is
the port the server runs at, the one in force at the moment it takes effect; a
stop answers that it stopped something, or that there was nothing to stop; a
cancelled call may have happened or not.

### LiveServer

A caller is a task that calls `start`, `stop`, `restart` or `status`. `pc` is
the await it stands at, and one action is what happens between two of them:

| Action | Code |
| --- | --- |
| `StartFindsRunning`, `StartRootMissing`, `StartProceeds` | `server.rs:79-90`, under the mutex |
| `BindSucceeds`, `BindTaken`, `BindFails` | one attempt of `bind`, `server.rs:211-255` |
| `Publish` | `server.rs:91-137`: channels, watcher, accept task, instance |
| `StopFindsNothing`, `StopTakes` | `server.rs:142-145`; the mutex is released here |
| `StopDrained` | `server.rs:146-157`, once the accept task is gone |
| `StopClears` | `server.rs:158-159` |
| `StatusReads` | `server.rs:64-72` |
| `Cancel` | tower-lsp drops the handler's future: mutex guard and instance go with it |
| `AcceptDropped` | the runtime drops an aborted accept task, closing the listener |
| `ForeignTakes`, `ForeignReleases`, `EditorOverlays` | other processes and the editor |

An instance is named by the number of the call that built it, so the model can
speak of the instances of the past: which still hold a port (`bound`), have been
aborted, told their connections, kept their watcher. `victim` is the instance a
stop has taken; it remains as history once the stop has answered.

### Serving

Adds a task per connection. `stage` is its place, `server` the generation that
accepted it, and `ear` says whether the receiver it listens to existed before
the goodbye. A connection subscribes when it first runs (`http.rs:88`) and anew
after a WebSocket upgrade (`http.rs:192`). While it writes, to a peer that may not
read, it hears nothing: stages `serving`, `upgrading` and `pushing`.

### LiveChanges

Texts are stamps. The editor opens, types (several edits in one notification, of which
the first may replace everything), saves, closes and changes `live_changes`. Whether edits
are sent at all is fixed when the server is initialized (`synced`, `lsp.rs:554-563`). An
edit applied to a text it was not made for leaves `Garbled`; which garbling exactly is left
out. The server is reduced to what matters here: it runs or not, with which setting, and
which stops have yet to clear the overlay.

| Action | Code |
| --- | --- |
| `DidOpen`, `DidChange`, `DidSave`, `DidClose` | the handlers up to where they wait for the overlay's write lock, `lsp.rs:651-689`; tower-lsp begins them in order (`inbox`) |
| `OverlaySet`, `OverlayApply`, `OverlayClear` | who is first in `queue` has the lock, `overlay.rs:18-63`; `OverlayApply` is one turn of the loop in `did_change`, after which its next edit goes to the end of `queue` |
| `BufferChanged`, `Wakes` | `buffer_changed` and the task it spawns, `lsp.rs:399-434` |
| `DidChangeConfiguration`, `Reconfigure`, `RestartEnds` | `reconfigure`, server by server, with the restart's stop and start |
| `Start`, `Stop`, `StopEnds` | commands; a stop clears the overlay after it has taken the instance |

The lock is fair, and a handler that waits is queued at any time: a request that reads a
text may hold it. So two notifications of several edits each come to alternate
(`torn`, history), and the overlay then holds what the editor never had
(`edits_interleave`). A handler that finds `live_changes` off ends without waiting, ahead of
those that wait. `lapsed` is history too: the documents the overlay has lost track of since
they were opened, by a save, a stop, or an edit that was not taken.

Two assumptions. An edit that replaces everything comes first in its notification, as a
client that sends ranges and whole texts has no reason to send ranges it then replaces.
And the lock of the configuration is free: it is held while a pointer is copied, so that a
handler would have to meet another thread in that instant to be overtaken by a save, which
does not take it.

### ReloadPath

One page and the files it consists of. Of a file only one thing is kept: whether
the page shows what is on disk (`stale`). A page asks for its document and then for
the rest (`Load`, `Fetch`); an answer is the file as it is when the server reads it.

| Action | Code |
| --- | --- |
| `Write` | a file changes; the watcher, if there is one, reports it |
| `Collect`, `Quiet`, `Send` | the three parts of `debounce`, `watch.rs:46-84`: draining the channel, the window that closes, the batch sent one instruction at a time |
| `Stop`, `Start` | `server.rs:79-160`: the watcher and the channels go and come with the server |
| `Connect`, `OnOpen` | `client.js:192-213` |
| `Receive` | the socket's task and `onmessage` in one step: `http.rs:214-230`, `client.js:215-238`; `Acts` is what `onmessage`, `swapCss` and `swapImages` make of a message |
| `Upgrade`, `Subscribe` | `handle_websocket` before and after its answer, `http.rs:172-192` |
| `Load`, `LoadFails`, `Fetch` | requests of the page, answered or not |

`backlog` is what tokio's broadcast holds for the page's receiver: at most
`Capacity` instructions, the oldest pushed out and `lagged` set when it is full.
`missed` is history: the files whose change was broadcast when nobody listened, on
a page that has no other reason to ask for them again.

A message carries the file's path as it is named (`watch.rs:155-165`), between quotes and
not escaped (`reload.rs:22-27`). What comes of that is a constant of the model: `Garbled`
are the files whose message does not parse, which the client passes over
(`client.js:217-221`), `Matched` the files whose elements the client finds by a message:
the file's own; none (an `@import`, a background), and the page reloads; or another's,
since an escape in a name makes another path of it and `swapImages` looks for the path
anywhere in a srcset (`client.js:137`). `unread` is history: the files whose change came
with a message that was not read for what it was. `OnItsWay` and `PageCatchesUp` exclude
these and nothing else of such files.

Three simplifications. A server that stops closes its connections at once; that it
can miss one is the subject of `Serving`. A connection breaks only with its server.
Of two requests for the same sheet the later one counts.

### Control

Several processes: language servers, each one life with one workspace, and runs of
the command line. They meet in the state files (`file`: by workspace and directory)
and on ports, which a process gives back when it ends and another may get.

| Action | Code |
| --- | --- |
| `Bind`, `Record` | `listen`, `control.rs:251-294`; writing the file truncates it first, so a reader in between finds it torn |
| `Shutdown`, `RemoveState` | the two halves of `shutdown`, `lsp.rs:599-609` |
| `Exit` | the process ends, after its shutdown or by a crash |
| `EditorActs`, `StrangerBinds` | the editor starts or stops the server; another program takes a port |
| `ReadState`, `Connect`, `CleanUp`, `Silenced` | `send`, `control.rs:365-423` |
| `Handle` | `handle` and `respond`, `control.rs:297-352`: token, channel |
| `Take`, `Act`, `Reply` | the task of `start_control_channel` and `run_control`, `lsp.rs:316-388`: what it looks at, what it does, what it says |

A token is the name of its server: 128 random bits do not come twice. `Reply` tells
apart what a user can tell apart (it runs, it is stopped, it failed, silence), not
its wording. `meddled` is history: whether the editor has started or stopped the
server since the command was taken.

Left out: a `listen` that fails (such a server is one that never starts here),
several folders in one server, a browser that does not open, and the data: hashed
file names, canonical paths, permissions, JSON. That starting and stopping a server
take several steps is the subject of `LiveServer`; here each takes effect in one.

### Backend

The back end's tasks: handlers of notifications, handlers of requests, which the
editor may cancel, and the task of the control channel. `todo` is what a task still has to
do, a sequence of steps; an action runs one of them, from one await to the next, and
what a step calls takes its place at the head.

| Action | Code |
| --- | --- |
| `LooksUp` | which servers a handler works on: `lsp.rs:582-611`, `734-749`, `316-346`, `456-458` |
| `Configures` | `reconfigure` up to there, `lsp.rs:438-456` |
| `Removes`, `Unlocks`, `Adds` | `did_change_workspace_folders`, `lsp.rs:624-647`; the guard of the write lock lives over the `stop` |
| `LooksAt`, `StartFindsRunning`, `StartTakes`, `Binds` | `LiveServer::status` and `start` as `ServerLifecycle` has them, with the mutex held over the binding |
| `StopFindsNothing`, `StopTakes`, `StopAnswers` | `LiveServer::stop`; the server is stopped from `StopTakes` on |
| `RefreshBegins`, `Gathers`, `Gathered` | `refresh_status`, server by server under the read lock, `lsp.rs:211-232` |
| `ShowStatus`, `Begins`, `Records`, `ClearStatus` | `show_status` and `clear_status`, `lsp.rs:155-208`: the old item is ended, a token asked for, the new one begun, then recorded |
| `Cancel` | tower-lsp drops a request's future and with it its locks |

`screen` is what the editor displays, apart from `status`, what the back end believes.
`fresh`, `crossed`, `late`, `overtaken` and `orphans` are history; they name the cases in
which the code breaks what one would like to say, so that everything else can be said:

- a refresh that looked before the last change may put its text on the bar after a
  newer one (`crossed`), and the bar is wrong until the next change;
- a handler that looked a server up before its folder was removed may start it
  afterwards (`late`), and neither a command nor `shutdown` finds it again;
- a `restart` command that holds older settings may start a server after
  `reconfigure` has found it stopped and passed by (`overtaken`);
- a request cancelled between sending an item and recording it leaves the item on the
  bar for good (`orphans`); cancelled after the end of the old one, it leaves a record
  of an item that is not there.

A folder that is added later gets a server but no control channel (`lsp.rs:305`): `channels`
keeps the first ones. Folders change one notification at a time. The port a start gets is any that no running
server has; the scan itself is in `LiveServer`. A setting that does not parse, or is the
one in force, changes nothing and is left out. Whose text it is, a narration or the result
of a refresh (`of`), is a mark the properties need; the code has none. A start reads the
setting when it takes the mutex, where `lsp.rs:248` reads it just before it waits for it: one
that waits while the setting changes starts with the newer one here.

### Paths, Requests

A path is a sequence of names, a target a sequence of what stands between slashes;
`Reads` says what a piece decodes to, which may be several segments (`docs%2F`), a dot
segment (`%2e%2e`) or nothing that is UTF-8. `RequestPath`, `Resolve`, `LongestMount`,
`JoinChecked`, `UrlFor` and `Location` are the functions of the same names; `Meaning`
is an independent definition of what a target means, to compare them with.

`Requests` is `handle_request` from await to await: `Routes` up to the first look at
the disk, `Stats` and `StatsIndex` the looks at it, `Lists` and `Loses` what follows,
`SendsFile` the overlay, the opening and the head, `Streams` a chunk. In between files
change (`Changes`: written in place, removed, made anew) and so does the overlay
(`Edits`). A file that has been opened stays the one that was opened (`handle`). A body is
the sequence of the offsets sent, and `ScriptMark` for the script in a page.

Clients send requests of their own, follow redirects and the rows of a listing, and the
browser is sent to a file. `of` remembers what such a link was made for. What a row leads
to is worked out as a browser does it: the row takes the place of the last piece of the
page's own target, whose query it drops.

A target begins with a slash by its shape; the code refuses one that does not
(`http.rs:410-412`). An index is taken to be a file, never a directory of that name.

Known limits of the code that the properties exclude by name:

- a redirect's `Location` is the decoded path (`http.rs:322`): a directory named `c#` is
  redirected to `/c`. `Astray` excludes redirects to a path with a name that is not
  written as it should be;
- a file whose name has a backslash is linked to and then refused (`http.rs:424`). Such
  names are excluded by `PiecesAssumption`;
- `url_for` knows nothing of mounts, so a file below a mounted route opens as another
  (`Astray`), and so does a row of a listing below which a mount begins;
- a directory named as the server's own paths (`__live_reload`) cannot be reached; `LinksLead`
  is about rows and files of other names, and not about the row `..`;
- a body whose file lost its end while it was sent is shorter than promised (`shrunk`);
- a method that is refused gets a 405 whose head promises 18 bytes and has none
  (`http.rs:241-252` passes `head_only`), so the client waits until it gives up; the
  model has this (`TimesOut`), `BodyIsRight` is about GET and HEAD.

### Frames, Wire

The client's frames arrive in parts; `ReadsPart` is a read under way, which `Writes`
drops, and after that anything may be read (`ReadsAnything`); `PingsAnswered` is about
sockets where that has not happened, `TabIsNoticed` about all. `Wire` composes both
sides of a connection: requests until an upgrade, the loop of `handle_websocket` from
then on. That a socket hears of a stop is the subject of `Serving`; here a stop is one of
the ways in which it `Breaks`.

### Edits

One document while `live_changes` is on. A text is a sequence of characters, each with
its UTF-16 units and its bytes, and how long a part of it is, is how many of them its
characters have (`Total`); the editor names places by line and units, the overlay
turns them into bytes by its own text, which earlier changes on their way may not have
reached. `Skips` is `did_change` while `live_changes` is off; what follows meets an older
text. Changes are single edits and taken one after the other, as they are unless two
notifications of several edits meet (`LiveChanges`). A byte offset within a character is where `replace_range` would panic. `Inject` is
the page made of the copy; a closing tag is one character.

## The runs

Passing:

| Run | Instance | States | Shows |
| --- | --- | --- | --- |
| `lifecycle` | 2 callers (both may be cancelled), 4 calls, preferred port 1 of 1..2 or any port, scan of 3 | 530,000 | the safety of a server and that it implements `ServerLifecycle` |
| `serving` | the same with 2 calls, 1 port and a connection, under fairness | 20,000 | calls end; nothing is accepted after the goodbye; who listens leaves |
| `live_changes` | 1 document, 1 server, 3 edits, up to 2 in a notification, 2 changes of the setting, 2 notifications in flight, under fairness | 1,789,000 | the overlay follows the editor; it holds nothing of what is saved or closed, and nothing wrong; reloads come in order and do come |
| `reload_path` | 1 page of 5 files (document, imported sheet, linked sheet with a quote in its name, image in a srcset, background image whose path is part of the other's), capacity 2, 3 changes, 1 stop, under fairness | 1,879,000 | no change is forgotten on its way to a page that listens and reads its message; the page catches up |
| `control` | 2 servers of different workspaces, 2 clients of one of them (`toggle`, `open`), 2 ports, channel of 1, 1 act of the editor | 146,000 | commands reach the right server and take turns; who is told "not running" has met a server that is gone; clients end |
| `backend` | a notification, a request, the control channel, all at once; 1 folder and another that comes, 2 servers, 2 ports, 2 settings of which one has no status bar | 840,000 | the status bar, the servers and the settings end up right; nobody waits for ever |
| `wire` | a site of 6 files and 6 directories, 4 mounts, 2 of the files changing; 80 targets, 11 ranges, lengths 0, 1 and 3, chunks of 2; 2 frames | 135,000 | targets are understood, links lead, bodies are right, a tab that goes is noticed |
| `edits` | texts of up to 3 characters and what is typed, 1, 2 or 4 bytes each, 2 changes in flight | 349,000 | the overlay's copy follows the editor's; no character is split; the script is in its place |

Violated on purpose, each a disagreement between the code and its own words
(`findings` in `PROJECT.json`):

| Run | Property | Disagreement |
| --- | --- | --- |
| `websocket_outlives_stop` | `WebSocketsEnd` | a WebSocket upgraded during a stop stays open (`server.rs:154-156`) |
| `live_edits_lost` | `BufferIsServed` | after a stop or a save ranged edits are dropped (`README.md:123-125`) |
| `edits_interleave` | `HeldIsABuffer` | edits of two notifications take turns, and the overlay holds what no buffer had (`overlay.rs:11`) |
| `server_unfound` | `ServerIsFound` | a client removes the state file of a server that runs (`control.rs:9-12`) |

Seven more disagreements are in the models and not in a run of their own:

- a path "cannot contain a quote or backslash" (`reload.rs:19-21`), but it is made of raw
  file names (`watch.rs:155-165`): the message of a sheet or an image with a quote in its
  name does not parse, and its change is forgotten (`ReloadPath`: `Garbled`, `unread`);
- a background image is to bring a reload "when nothing matched" (`client.js:148-149`), but
  a srcset that contains its path as part of another matches (`ReloadPath`: `Matched`);
- a list of ranges is answered 416, not by the whole file (`http.rs:641-643`; `Requests`:
  `ParseRange`, `SendsFile`);
- `stop` gives the mutex back before the listener is gone, so a `start` of another task
  meanwhile finds the port taken and binds the next one up, what `server.rs:146-149`
  sets out to prevent (`LiveServer`: `StopTakes`, `BindTaken`);
- a connection accepted just before a stop that first runs after the goodbye goes on
  being served (`server.rs:151-152`; `Serving`: `Begin`);
- a change broadcast after the page was loaded and before its WebSocket subscribed is not
  shown until the next one (`README.md:5`; `ReloadPath`: `missed`);
- of two changes of the settings in a row the second may find the server stopped by the
  restart of the first and pass by (`README.md:115`; `LiveChanges`: `Reconfigure`).

### Bounds

`MaxCalls`, `MaxStamps`, `MaxToggles`, `MaxEdits`, `MaxInFlight`, `MaxWrites`, `MaxStops` and the one-stop-at-a-time
guard of `LiveChanges!Stop` bound the model, not the code; so do `MaxServers` and
`MaxSettings` of `Backend`, past which no folder is added and no setting changes. Two callers and four
calls hold every pair of overlapping operations with one before and one after;
two ports and a scan of three reach the last port, a port taken by another
process, and one held by the server's own past. One connection is enough in
`serving` because connections do not see each other. Two edits and two changes
of the setting are the fewest with which an edit can be skipped and the next one
applied; three are one notification of two and one of one, which can come between them. One server is enough in `live_changes`: the stop of another server
differs from a stop of this one that was overtaken by a start, which is there,
only in name; `live_edits_lost` has two.

In `reload_path` the files are one of each kind: what reloads the page, what is sent as a
swap but has no element, so that the page reloads after all, what is sent as a message that
does not parse, what is swapped, and what is taken for that one. Three changes, in one batch
or in several, fill a backlog of two past its capacity (`RELOAD_CAPACITY` is 64); a stop lets
a page be connected, left and connected again, or find nobody to answer it.

In `control` two ports for two servers and any number of strangers let the port of a
dead server go to the server of another project or to a program that is none; a
channel of one (16 in the code) makes the second of two clients wait. A toggle and
an open are the two commands that act on what they have looked at; the others are
the halves these resolve to. `server_unfound` has two lives on one workspace, one after the other
(`Shared = FALSE`), so it does not rest on two editors.

In `backend` three tasks at once are one of each kind: `refresh_status` of one can
overtake that of another while a third changes what they look at. Two servers are a
folder removed and another added. Every notification follows `initialized`, which starts
what there is; the request is any of the four commands on all servers, or the shutdown.

In `wire` a length of 0, 1 and 3 with chunks of 2 makes a file that is empty, read in
one piece and in two; ranges end before, at and after it. The pieces of targets are a
dot and two dots, plain and encoded, an encoded slash at the end of a name, a backslash, a
query, bytes that are not UTF-8 and a name that has to be encoded; mounts are one below
the other, one with no route and one that begins below a directory with such a name. A WebSocket is opened only while the files are as they
were, since it has nothing to do with them; two frames are one that is dropped half-way
and the next.

In `edits` characters of one, two and four bytes and a newline fill texts of three
before a change; two changes on their way are enough for a place that is named in a text
the overlay does not have yet.

`lifecycle` uses the symmetry of the callers of one kind; it checks no liveness.
Deadlock is not checked where the calls are bounded and the system may rest.

### Fairness

- A caller past its mutex takes its steps (weak fairness of `OwnStep`): tokio
  polls a task that is ready.
- A caller that waits for the mutex gets it (strong fairness of `LockStep`):
  tokio's mutex is first come, first served.
- An aborted accept task is dropped; a spawned connection is polled; an idle
  peer asks or runs into `KEEP_ALIVE_TIMEOUT` (weak fairness).
- The shutdown arm of `select!` wins some time (strong fairness of
  `HearGoodbye`): the arms are polled in random order.
- Timers fire (`LiveChanges`: weak fairness of `Wakes`).
- The debounce task runs (weak fairness of `Watching`), and the page, its requests
  and its socket's task get on (weak fairness of `Paging`). Each is fair as a whole:
  changes and stops are bounded, so no part of it can go on for ever at the expense of
  another.
- In `Backend` somebody gets on while anybody can (weak fairness of all steps as one):
  tasks and what they have to do are finite, so this is all that fairness to each would
  give. The editor is taken to answer the request for a token.
- In `Wire` what is on its way arrives, and the socket's task is polled (weak fairness of
  `Arrives` and of `Serves`); nothing makes a client speak, read or leave.
- A client of the command line that has been started goes on, the tasks that serve it
  run (weak fairness of `Serving` per client; `Control`), and a client whose server has
  died sees its connection end.

Nothing is assumed of peers in `Serving` (they may never read and never leave), the
editor, users, whoever starts and stops the server, or other processes (a stranger
on a port may keep a client waiting for ever, and no server must exit). That is why
`PageCatchesUp` has a premise: the server stays. The page of `ReloadPath` is the
project's own client in a browser that runs it.

## The proofs

`LiveServerProofs` proves, for every set of callers, number of calls, last port,
scan limit, set of configurations and set of documents, from the assumptions
named in `LiveServer` (`CallersAssumption`, `LimitsAssumption`,
`ConfigsAssumption`):

- `Invariance`: `Spec => []IInv`, where `IInv` is the type invariant and
  - `LockInv`: the mutex is held exactly by the caller that builds, and then
    nothing is published. Without it two callers could publish;
  - `TicketInv`: calls have numbers of their own. It makes a generation name one
    instance;
  - `UnusedInv`: the number of a call names no instance, past or present, until
    the call publishes. It keeps `bound`, `aborted` and `signalled` of different
    instances apart;
  - `VictimInv`: what a stop has taken is aborted, its port is free once the stop
    has waited, its connections told before the overlay is cleared;
  - and `RunningIsListening`, `NoLeak`, `GoodbyeAfterLastAccept`, `StoppedIsGone`.
- from it `TypeCorrect`, `AtMostOneListener`, `RunningListens`, `NothingLeaks`,
  `GoodbyeIsLast`, `StopIsThorough`, `RestartIsClean`. One lemma per action shows
  that the action preserves all of `IInv` but the types, one (`TypeStep`) the types.
- `Refinement`: `Spec => ImplementsLifecycle`. Lemmas ending in `Maps` show each
  step to be a step of `ServerLifecycle` or a stutter: a start takes effect when it
  publishes or finds a server, a stop when it takes the instance.

The end of `LiveServerProofs` carries `IInv` over to the composition (a connection changes
nothing of its server, `ConnectionKeepsVars`) and proves `ConnTypeCorrect` and
`AcceptsEndBeforeGoodbye`: only `Accept` opens a connection, a server that
accepts holds its port, and one that has said goodbye does not.

`LiveChangesProofs` proves, for every set of documents and servers, every assignment of
documents to servers and any number of writes, edits in a notification, changes of the
setting and notifications in flight, from `HomeAssumption`, `BoundsAssumption` and `MarksAssumption`:

- `Invariance`: `Spec => []IInv`, where `IInv` is the types and
  - `FollowInv`: take the notifications about one document that wait for the overlay and,
    after them, those that are still to be handled (`Coming`). Unless edits have
    interleaved, the first finds the overlay as the editor took it to be, each leads to
    what the next was made for, the last to what the editor shows; if there is none the
    overlay agrees with the editor. `HeldFollowsBuffer` alone says nothing of queues that
    are not empty. A change that waits anew for its next edit leaves the order of `Coming`
    as it is only if nobody else waits with the same document; otherwise it is `torn`;
  - `UnsyncedInv`: an editor that was not asked for edits sends none;
  - `MaskInv`: of what is closed or saved a notification on its way says so, and nothing
    is behind it but ranged edits, which wait anew and make nothing of a text that is not
    there. So it holds of torn documents as well;
  - `CountInv`: no change of the setting is handled that was not sent, so that a
    reconfigure keeps to its number;
  - `ToggleInv`: a text the overlay has lost track of has outlived one change of the
    setting, or two if edits are taken again. With `FollowInv` it shows what an edit of
    another text takes;
  - `ClaimInv`: every edit has a stamp of its own and claims at most one number. It
    bounds the counter.
- from it `TypeCorrect`, `HeldFollows`, `DiskUnmasked`, `LossIsHarmless` and the
  action property `ReloadsOrdered`. `AppendToDocument`, `TailOfDocument` and their
  neighbours say what sending and receiving do to the order of the notifications about
  one document; `FollowSent`, `FollowReceived`, `MaskSent`, `MaskReceived` what they do to
  the invariant. One lemma per conjunct (`...Step`) goes through the actions.

`ReloadPathProofs` proves, for every set of files, every choice of those that are
swapped, whatever the client makes of their messages, every capacity and any number of
changes and stops, from `FilesAssumption`, `MessagesAssumption` and `BoundsAssumption`:

- `TypeCorrect`: the types, and with them that a backlog never exceeds its capacity;
- `NoChangeForgotten`: `Spec => []OnItsWay`. The inductive invariant adds to
  `OnItsWay` the types and that a page that is not open shows nothing
  (`NothingShown`), without which a `Stop` could leave a change behind. One lemma
  per action (`...Keeps`) follows a change through the action; `BroadcastBrings` and
  `TailBrings` say what sending and receiving do to a backlog.

`ControlProofs` proves, for every set of servers, clients, workspaces, directories and
ports, every command and every capacity, from `PlacesAssumption`, `LimitsAssumption`
and `CommandsAssumption`:

- `Invariance`: `Spec => []IInv`, where `IInv` is the types, `RefusalIsRight` and
  - `FilesInPlace`: a file names a server of its workspace that writes to its directory
    and has got so far; without it a client could find anybody;
  - `Finders`: what a client has found is such a server, who runs its command is what it
    has found, and one that was refused has found a server that is gone for good;
  - `Turns`: a server runs one command at a time, and as long as the editor keeps out
    of it what the command has looked at is so.
- from it `TypeCorrect`, `RightServerAlways`, `RefusalIsRightAlways` and the action
  property `CommandsTakeTurnsAlways`. Steps of servers and of other clients are
  handled by what they leave alone (`ServerOnward`, `OthersStill`), a client's own
  action by action (`OwnFinder`, `OwnTurn`).

`BackendProofs` proves, for every finite set of folders, any number of tasks that are
handlers of notifications, finitely many that are handlers of requests, every choice of
jobs, servers, settings and ports, from `FoldersAssumption`, `NoneAssumption`,
`ItemsAssumption` and `JobsAssumption`:

- `Invariance`: `Spec => []IInv`. The definitions are in `BackendSteps`:
  - `Kinds`, `Created`, `Shaped`: what tasks have to do is made of the steps that actions
    take up, a server that has not been created is nowhere, a step that is only ever
    passed through is at the head, and no request does what only notifications do;
  - `Bar`: who has the lock of the status item is about to send an item or to record
    one; until it is recorded the editor does not display the recorded one any more.
    There are no more orphans than requests that are gone, so that a token is never
    used again while it is displayed;
  - `Owners`: who holds the lock of the map has still to give it back, and at most one
    stop stands before that. A folder that is being removed has its server, one that is
    being added has none. With these `RunningIsKnown` is inductive;
  - `Renewals`: `SettingIsUsed` speaks of a state at rest. While somebody works, a server
    that runs with an older setting, or is about to, is one that a task nobody can cancel
    has still to stop or restart (`Pending`), or one that was overtaken;
  - `Tidings`: `StatusTells` too speaks of a state at rest. What changes the servers or
    narrates has a refresh after it in the same task; a refresh that is `fresh` has
    gathered the ports of the servers it has seen as they still are; and when no task
    owes a refresh, what is on the bar, or about to be, is the truth.
- from it `TypeCorrect`, `OneIsRecorded`, `BarTellsTruth`, `NoneRunsUnknown` and
  `SettingReaches`.

An action replaces the first step of a task by what it turns into. `ProceedsTurns`
and the lemmas it rests on say in `BackendSteps` what that can be, `Splicing` where
the steps that follow stand afterwards; `BackendProofs` then goes through one part of the
invariant after the other, by what happens to the map, the engine, the bar and the list of
the one task that moves. `Each`, which works through the servers of a map, is a function
of the position rather than a recursion, and its lemmas are about positions.

`JobsAssumption` is what `lsp.rs` gives its handlers to do: a request is a command or the
shutdown, and a notification of folders ends with `refresh_status` (`lsp.rs:646`). That it
names a folder once is the editor's part.

`WireProofs` proves, for every tree of files and every choice of mounts, requests and
frames, from `FilesAssumption`, `PiecesAssumption`, `MountsAssumption`, `AskedAssumption`,
`NoneAssumption` (an `Option`'s `None` is none of the values it is told from) and
`FramesAssumption`:

- `Invariance`: `Spec => []IInv`, where `IInv` is
  - `Disked`: a file on the disk has one of the sizes;
  - `Underway`: what is known of a request at each stage, and that nothing has been
    sent before the head;
  - `Sending`: while a file is sent, what has been sent is a beginning of what the head
    promises, which for a range are the bytes it means (`Agrees`), and the rest is still
    in the open file unless it has shrunk. `BodyIsRight` speaks only of a response that is
    complete;
  - `Redirected`: a redirect has no body;
  - `Targeted`: the target in hand is one, what is looked for at first is what it was
    resolved to, and only one that was not is refused;
  - `Looked`: only below a target that ends in a slash is a directory listed, and then each
    row stands in what the target was resolved to; a redirect is to a directory;
  - `Linked`: who made a request, `url_for`, a row or a redirect, made it of what it is for
    (`MadeFor`); for a row, what it is taken for is one name more than the path that was
    listed. `LinksLead` speaks of the moments at which that comes out;
  - `Talking`: the frames still to be read are the last of those that were sent, and
    `PingsAnswered`;
  - `Typed` and `Socketed`: the types, that a place is known once a request is being
    answered or redirected, and that there is a socket once a connection has upgraded;
  - and `BodyIsRight`.
- from it `TypeCorrect`, `BodyAlwaysRight`, `PingsAlwaysAnswered`,
  `TargetAlwaysUnderstood` and `LinksAlwaysLead`.

`TargetAlwaysUnderstood` compares two definitions that have nothing in common. `Taking` goes through
the segments of a target as the code does, pushing names and popping one for each `..`;
`Meaning` says of all of them at once which count. That they agree is shown by induction
over the segments taken (`TakingMeans`): what is left after n of them is the list of the
places kept after n, there are as many of these as names exceed `..` since the last kept
place, and a `..` takes back the last. `JoinCheckedJoins` and `LongestFound` are the same
for the mounts. Induction here is an invariant over a number, stated for one target and
proved from the least counterexample, so it needs no theorem with an operator in it.

`LinksAlwaysLead` goes the other way: what is written is read back. A target with one
piece for each segment (`Spelled`) is taken for its segments (`SpelledPath`), and names lose
nothing when they are taken (`TakingNames`). From that follow `UrlForPath`,
`LocationPath` and `HrefPath`: what `url_for` writes for a file, a redirect for names that are
written as they should be and a row for its entry are taken for what they were written for;
`ResolveBelow` says that a name more leads one step further down unless a mount comes
between. The proof found an error in the model: after an index that cannot be read, the code
lists the directory that was asked for (`http.rs:346`), where the model listed the index.

`RangeParsed` and `RangeRefused` compare `ParseRange` with `Wanted` for all ranges and
lengths; `MaxIsOne` shows, from the well-foundedness of the numbers, that a finite set has
a greatest element. One lemma per action (`...Keeps`) follows it through `IInv`.

`EditsProofs` proves, for every set of characters of one or two units and any number of
bytes, every text and any number of changes on their way, from `CharsAssumption`:

- `Invariance`: `Spec => []IInv`, where `IInv` is the types, `NeverPanics` and, until a
  change is skipped, `Leads`: there is a sequence of texts from the overlay's to the
  editor's in which each pending change makes the next. `CopiesAgree` says nothing while
  changes are on their way;
- from it `CopiesAgreeAlways`, `NeverPanicsAtAll` and `ScriptAlwaysPlaced`.

It rests on what `byte_offset` does to any text: `OffsetIsPlace` (the result is between two
characters whatever position is asked for) and `OffsetIsExact` (the position of a place
leads back to it, since the columns of a line grow, `PlacesInOrder`).
`PageOfText` says the same of `inject`: no text has its script elsewhere.

Only model-checked:

- liveness under fairness (ENABLED is beyond the prover): `CallsReturn`,
  `ListenersLeave`, `PauseReloads`, `PageCatchesUp`, `ClientEnds`, `HandlersEnd`,
  `TabIsNoticed`.

Every invariant that a passing run checks has a theorem.

## Plan

In this order:

1. The link elements of overlapping swaps and the events and paths `collect` ignores
   (`ReloadPath`).
2. The extension's choice and download of the binary.

## Not modelled

- Settings: a record of values that serde reads, with defaults; the ignore globs.
- The command line's arguments, standalone mode's one call of `start`, logging and messages to
  the user, starting a browser.
- Of HTTP: the parsing of a head (httparse), content types, the markup of a listing,
  symbolic links. `read_request` drops whatever follows a head in the same read, so a
  client that sends its next request before it has the answer, which browsers do not,
  loses it.
- Of WebSockets: masks, SHA-1 and base64 of the key, and the three forms of a length in
  `text_frame`, each boundary of which has a unit test.
- Of `Control`: a `listen` that fails, several folders in one server.
- The extension's downloads, which are calls of the editor's API, and the build files.
