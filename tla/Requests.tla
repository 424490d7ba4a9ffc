-------------------------------- MODULE Requests --------------------------------
(***************************************************************************)
(* One connection answering requests, http.rs: handle_request, not_found,  *)
(* send_file, parse_range, from await to await, while the files it serves  *)
(* grow, shrink, come and go, and the editor holds the text of some.       *)
(*                                                                         *)
(* A body is the sequence of the offsets that are sent; the client script  *)
(* that is put into a page counts as one more, ScriptMark.                 *)
(***************************************************************************)
EXTENDS Paths

CONSTANTS
    Dirs, Files,   \* by path
    Pages,         \* the files served as text/html
    Restless,      \* the files that change
    Sizes,         \* bound: the lengths a file may have
    Chunk,         \* how much of a body is read at a time
    Reserved, Client,  \* the names __live_reload and client.js
    Index,         \* config.index
    Configs,       \* the settings: spa, directory_listing, live_changes
    Asked          \* the requests a client makes of its own

ASSUME FilesAssumption ==
    /\ Dirs \cup Files \subseteq Seq(Names) /\ Index \in Names
    /\ Root \in Dirs /\ Pages \subseteq Files /\ Restless \subseteq Files
    /\ Dirs \cap Files = {}
    /\ \A d \in Dirs : Append(d, Index) \notin Dirs
    /\ Sizes \subseteq Nat /\ Sizes # {} /\ IsFiniteSet(Sizes)
    /\ Chunk \in Nat \ {0}
    /\ Configs \subseteq [spa : BOOLEAN, listing : BOOLEAN, live : BOOLEAN]

VARIABLES
    config,    \* the settings the server was started with
    size,      \* the length of each file, or None while it does not exist
    held,      \* the length of the text the overlay has for it, or None
    at,        \* where the connection's task stands
    request,   \* what it is answering
    place,     \* the path it is about
    missing,   \* what follows when the file to be sent cannot be read
    handle,    \* the file that is being streamed: its length, and whether it is
               \* still the one of that name
    reply,     \* what the response head promises
    body,      \* what has been sent after it
    shrunk     \* history: the file being streamed has lost some of its end

disk == <<config, size, held>>
answer == <<at, request, place, missing, handle, reply, body>>
vars == <<disk, answer, shrunk>>

---------------------------------------------------------------------------
(* Ranges *)

\* What a Range header asks for: from a to b, from a on, or the last a bytes;
\* "list" has a comma, "other" does not parse.
Range_(form, a, b) == [form |-> form, a |-> a, b |-> b]
NoRange == Range_("none", 0, 0)
SomeRange == [form : {"span", "from", "last", "list", "other"}, a : Nat, b : Nat]

\* of the methods, POST stands for those that are refused
Methods == {"GET", "HEAD", "POST"}
Makers == {"open", "row", "redirect"}

\* a request, with of: what the link that is followed was made for, and via: what made it
Asking(ofs, vias) ==
    [method : Methods, target : Seq(Pieces), range : SomeRange \cup {NoRange},
     close : BOOLEAN, of : ofs, via : vias]

\* of its own a client asks for what a request line and a Range header can say
ASSUME AskedAssumption == Asked \subseteq Asking({None}, {None})

\* an Option's None is no pair of bounds, and no request
ASSUME NoneAssumption ==
    None \notin (Nat \X Nat) \cup Asking(Seq(Names) \cup {None}, Makers \cup {None})

Least(a, b) == IF a <= b THEN a ELSE b

\* mutant of ParseRange: the end is not clamped to the last byte
ParseRangeUnclamped(range, total) ==
    LET first == IF range.form = "last" THEN total - Least(range.a, total) ELSE range.a
        last == IF range.form = "span" THEN range.b ELSE total - 1
    IN IF \/ total = 0
          \/ range.form \in {"list", "other"}
          \/ range.form = "last" /\ range.a = 0
          \/ first > last
          \/ first >= total
       THEN None
       ELSE <<first, last>>

\* the first and the last offset, or None
ParseRange(range, total) ==
    LET first == IF range.form = "last" THEN total - Least(range.a, total) ELSE range.a
        last == IF range.form = "span" THEN Least(range.b, total - 1) ELSE total - 1
    IN IF \/ total = 0
          \/ range.form \in {"list", "other"}
          \/ range.form = "last" /\ range.a = 0
          \/ first > last
          \/ first >= total
       THEN None
       ELSE <<first, last>>

\* the offsets a range means
Wanted(range, total) ==
    {i \in 0 .. total - 1 : CASE range.form = "span" -> range.a <= i /\ i <= range.b
                              [] range.form = "from" -> range.a <= i
                              [] range.form = "last" -> total - i <= range.a}

---------------------------------------------------------------------------
(* Routing *)

Exists(path) == path \in Dirs \/ (path \in Files /\ size[path] # None)

Nowhere == [size |-> 0, linked |-> FALSE]
Unanswered == [status |-> 0, promised |-> 0, file |-> None, total |-> 0, rows |-> {}]

AsAtFirst ==
    /\ size = [f \in Files |-> Max(Sizes)]
    /\ held = [f \in Files |-> None]

Init ==
    /\ config \in Configs
    /\ AsAtFirst
    /\ at = "idle" /\ request = None /\ place = None /\ missing = None
    /\ handle = Nowhere /\ reply = Unanswered /\ body = <<>>
    /\ shrunk = FALSE

Offsets(n) == [i \in 1 .. n |-> i - 1]
ScriptMark == -1
Html(f, text) == IF f \in Pages THEN Append(text, ScriptMark) ELSE text

\* respond: head and body in one piece; for HEAD the head alone, and so for the
\* methods that are refused, whose 405 promises a body and has none
Responds(status, f, text) ==
    /\ reply' = [status |-> status, promised |-> Len(text), file |-> f,
                 total |-> Len(text), rows |-> {}]
    /\ body' = IF request.method = "GET" THEN text ELSE <<>>
    /\ at' = "done"

Goes(stage) == at' = stage /\ UNCHANGED <<reply, body>>

\* read_request: a whole head has come
Receive(r) ==
    /\ at = "idle"
    /\ request' = r
    /\ shrunk' = FALSE
    /\ Goes("routing")
    /\ UNCHANGED <<disk, place, missing, handle>>

IsGet == request.method \in {"GET", "HEAD"}
Path == RequestPath(request.target)
Target == Resolve(Path.names)
Own == /\ Path # None /\ Path.names # <<>> /\ Path.names[1] = Reserved
       /\ (Len(Path.names) > 1 \/ Path.slash)
IsScript == Path # None /\ Path.names = <<Reserved, Client>> /\ ~Path.slash

RefusesMethod == ~IsGet /\ Responds(405, None, Offsets(1)) /\ UNCHANGED <<place>>
RefusesTarget == /\ IsGet /\ Path = None
                 /\ Responds(400, None, Offsets(1)) /\ UNCHANGED <<place>>
SendsClient == /\ IsGet /\ IsScript
               /\ Responds(200, None, Offsets(1)) /\ UNCHANGED <<place>>
Reserves == /\ IsGet /\ Own /\ ~IsScript
            /\ Responds(404, None, Offsets(1)) /\ UNCHANGED <<place>>
Finds == /\ IsGet /\ Path # None /\ ~Own
         /\ place' = Target
         /\ Goes("stat")

Routes ==
    /\ at = "routing"
    /\ RefusesMethod \/ RefusesTarget \/ SendsClient \/ Reserves \/ Finds
    /\ UNCHANGED <<disk, request, missing, handle, shrunk>>

\* the file is about to be sent; what follows if it cannot be
Sends(file, otherwise) ==
    /\ place' = file /\ missing' = otherwise
    /\ Goes("send")

\* the metadata of the target, then of a directory's index
Stats ==
    /\ at = "stat"
    /\ \/ /\ place \in Dirs /\ ~Path.slash
          /\ Responds(301, None, <<>>)
          /\ UNCHANGED <<place, missing>>
       \/ place \in Dirs /\ Path.slash /\ Goes("index") /\ UNCHANGED <<place, missing>>
       \/ place \notin Dirs /\ Exists(place) /\ Sends(place, "lost")
       \/ ~Exists(place) /\ Goes("lost") /\ UNCHANGED <<place, missing>>
    /\ UNCHANGED <<disk, request, handle, shrunk>>

StatsIndex ==
    /\ at = "index"
    /\ LET index == Append(place, Index) IN
       \/ Exists(index) /\ Sends(index, "list")
       \/ ~Exists(index) /\ Goes("list") /\ UNCHANGED <<place, missing>>
    /\ UNCHANGED <<disk, request, handle, shrunk>>

\* directory_listing: a row for everything in it; its markup is left out
Entries(dir) == {path \in Dirs \cup Files :
                    path # <<>> /\ Front(path) = dir /\ Exists(path)}

Lists ==
    /\ at = "list"
    /\ \/ /\ config.listing
          /\ reply' = [Unanswered EXCEPT !.status = 200, !.promised = 1,
                                         !.rows = Entries(Target)]
          /\ body' = IF request.method = "GET" THEN Offsets(1) ELSE <<>>
          /\ at' = "done"
       \/ ~config.listing /\ Goes("lost")
    /\ UNCHANGED <<disk, request, place, missing, handle, shrunk>>

\* not_found
Loses ==
    /\ LET index == Append(Root, Index) IN
       \/ at = "lost" /\ config.spa /\ Exists(index) /\ Sends(index, "gone")
       \/ /\ at = "gone" \/ (at = "lost" /\ ~(config.spa /\ Exists(index)))
          /\ Responds(404, None, Offsets(1))
          /\ UNCHANGED <<place, missing>>
    /\ UNCHANGED <<disk, request, handle, shrunk>>

---------------------------------------------------------------------------
(* send_file *)

Overlaid == config.live /\ held[place] # None

SendsText ==
    /\ \/ Overlaid /\ Responds(200, place, Html(place, Offsets(held[place])))
       \/ /\ ~Overlaid /\ place \in Pages /\ size[place] # None
          /\ Responds(200, place, Html(place, Offsets(size[place])))
    /\ UNCHANGED <<handle, shrunk>>

CannotRead ==
    /\ ~Overlaid /\ size[place] = None
    /\ Goes(missing)
    /\ UNCHANGED <<handle, shrunk>>

Opens ==
    /\ ~Overlaid /\ place \notin Pages /\ size[place] # None
    /\ LET total == size[place]
           range == ParseRange(request.range, total)
           Promises(status, length) ==
               /\ reply' = [status |-> status, promised |-> length, file |-> place,
                            total |-> total, rows |-> {}]
               /\ handle' = [size |-> total, linked |-> TRUE]
               /\ at' = IF request.method = "HEAD" THEN "done" ELSE "stream"
               /\ UNCHANGED body
       IN \/ request.range = NoRange /\ Promises(200, total)
          \/ /\ request.range # NoRange /\ range # None
             /\ Promises(206, range[2] - range[1] + 1)
          \/ /\ request.range # NoRange /\ range = None
             /\ reply' = [Unanswered EXCEPT !.status = 416, !.total = total]
             /\ at' = "done"
             /\ UNCHANGED <<handle, body>>
    /\ shrunk' = FALSE

SendsFile ==
    /\ at = "send"
    /\ SendsText \/ CannotRead \/ Opens
    /\ UNCHANGED <<disk, request, place, missing>>

\* the next chunk, read where the last one ended
Streams ==
    /\ at = "stream"
    /\ LET range == ParseRange(request.range, reply.total)
           from == (IF reply.status = 206 THEN range[1] ELSE 0) + Len(body)
           due == reply.promised - Len(body)
           read == Least(Least(due, Chunk),
                         IF handle.size > from THEN handle.size - from ELSE 0)
       IN \/ /\ due > 0 /\ read > 0
             /\ body' = body \o [i \in 1 .. read |-> from + i - 1]
             /\ UNCHANGED <<at, handle>>
          \/ /\ due = 0 \/ read = 0
             /\ at' = "done"
             /\ handle' = Nowhere
             /\ UNCHANGED body
    /\ UNCHANGED <<disk, request, place, missing, reply, shrunk>>

---------------------------------------------------------------------------
(* The client, the disk and the editor *)

Complete == request.method = "HEAD" \/ Len(body) = reply.promised

\* mutant of Rests: the body of the last response is kept
RestsKeepingBody(stage) ==
    /\ at' = stage
    /\ request' = None /\ place' = None /\ missing' = None
    /\ handle' = Nowhere /\ reply' = Unanswered
    /\ shrunk' = FALSE
    /\ UNCHANGED <<disk, body>>

Rests(stage) ==
    /\ at' = stage
    /\ request' = None /\ place' = None /\ missing' = None
    /\ handle' = Nowhere /\ reply' = Unanswered /\ body' = <<>>
    /\ shrunk' = FALSE
    /\ UNCHANGED disk

\* The client has read a whole response; the next request may come, unless the
\* connection was not to be kept.
Takes ==
    /\ at = "done" /\ Complete
    /\ Rests(IF request.close THEN "closed" ELSE "idle")

\* A response shorter than its head says leaves the client waiting and the
\* connection idle; so does a client that has nothing to ask.
TimesOut ==
    /\ at = "idle" \/ (at = "done" /\ ~Complete)
    /\ Rests("closed")

Request(method, target, range, of, via) ==
    [method |-> method, target |-> target, range |-> range, close |-> FALSE,
     of |-> of, via |-> via]

\* the request that follows a redirect
Follows ==
    /\ at = "done" /\ reply.status = 301 /\ ~request.close
    /\ request' = Request(request.method, Location(Path.names), request.range,
                          place, "redirect")
    /\ at' = "routing"
    /\ reply' = Unanswered
    /\ UNCHANGED <<disk, place, missing, handle, body, shrunk>>

\* The href of a row, the name and a slash for a directory, and what a browser
\* makes of it: it takes the place of the last piece of the page's own target, from
\* which the browser has taken the query and the dots.  A target with an encoded slash,
\* below which the rows lead elsewhere, is left out.
Href(entry) == <<Encoded[Last(entry)]>> \o (IF entry \in Dirs THEN <<"">> ELSE <<>>)

Clicks ==
    /\ at = "done" /\ Complete /\ ~request.close
    /\ \A p \in Range(Used(request.target)) :
           Len(Reads[p]) = 1 /\ Reads[p][1] \notin {".", ".."}
    /\ \E entry \in reply.rows :
          request' = Request(request.method, Front(Used(request.target)) \o Href(entry),
                             request.range, entry, "row")
    /\ at' = "routing"
    /\ reply' = Unanswered /\ body' = <<>>
    /\ UNCHANGED <<disk, place, missing, handle, shrunk>>

\* a file of the workspace is opened in the browser
OpensFile == \E f \in Files : Receive(Request("GET", UrlFor(f), NoRange, f, "open"))

Asks == \E r \in Asked : Receive(r)

\* A file is written in place, removed or made anew.  What has it open goes on
\* reading what it has opened.
Changes ==
    \E f \in Restless, n \in Sizes \cup {None} :
        /\ size[f] # n
        /\ size' = [size EXCEPT ![f] = n]
        /\ LET open == (at = "stream") /\ f = place /\ handle.linked
           IN /\ handle' = CASE open /\ n = None -> [handle EXCEPT !.linked = FALSE]
                             [] open /\ n # None -> [handle EXCEPT !.size = n]
                             [] OTHER -> handle
              /\ shrunk' = (shrunk \/ (open /\ n # None /\ n < reply.total))
        /\ UNCHANGED <<config, held, at, request, place, missing, reply, body>>

Edits ==
    config.live /\ \E f \in Restless, n \in {1, None} :
        /\ held[f] # n
        /\ held' = [held EXCEPT ![f] = n]
        /\ UNCHANGED <<config, size, answer, shrunk>>

Answers == Routes \/ Stats \/ StatsIndex \/ Lists \/ Loses \/ SendsFile \/ Streams
Next == Answers \/ Takes \/ TimesOut \/ Follows \/ Clicks \/ OpensFile \/ Asks
        \/ Changes \/ Edits
================================================================================
