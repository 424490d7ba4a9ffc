---------------------------------- MODULE Wire ----------------------------------
(***************************************************************************)
(* A connection from end to end, serve_connection of http.rs: requests one *)
(* after the other, until one of them turns it into a WebSocket.           *)
(***************************************************************************)
EXTENDS Requests, Frames

wvars == <<vars, fvars>>

WireInit == Init /\ FInit

Requested == socket = "none" /\ Next /\ UNCHANGED fvars

\* handle_websocket up to its loop: a 400 without a key; else 101 and the hello
\* message, unless the client has gone meanwhile.  A bound: the files are as they
\* were at first, since a socket has nothing to do with them.
Upgrades ==
    /\ at = "idle" /\ socket = "none" /\ AsAtFirst
    /\ at' = "upgraded"
    /\ socket' \in {"open", "ended"}
    /\ UNCHANGED <<disk, request, place, missing, handle, reply, body, shrunk,
                   wire, pongs>>

Conversed == socket = "open" /\ (Talks \/ Serves \/ Writes \/ Breaks) /\ UNCHANGED vars

WireNext == Requested \/ Upgrades \/ Conversed

Spec == WireInit /\ [][WireNext]_wvars

\* What is on its way arrives, and the runtime polls a task that can go on.
FairSpec == Spec /\ WF_wvars(Conversed /\ Arrives) /\ WF_wvars(Conversed /\ Serves)

---------------------------------------------------------------------------
(* Properties *)

Longest == Max(Sizes \cup {1}) + 1
Replies == [status : {0, 200, 206, 301, 400, 404, 405, 416}, promised : 0 .. Longest,
            file : Files \cup {None}, total : 0 .. Longest,
            rows : SUBSET (Dirs \cup Files)]

\* Every variable keeps to its type, and outside a response nothing of one is left.
TypeOK ==
    /\ size \in [Files -> Sizes \cup {None}] /\ held \in [Files -> {1, None}]
    /\ config \in Configs
    /\ at \in {"idle", "routing", "stat", "index", "list", "lost", "gone", "send",
               "stream", "done", "closed", "upgraded"}
    /\ (request = None) = (at \in {"idle", "closed", "upgraded"})
    /\ place \in Seq(Names) \cup {None} /\ missing \in {None, "lost", "list", "gone"}
    /\ handle \in [size : Sizes \cup {0}, linked : BOOLEAN]
    /\ reply \in Replies
    /\ Range(body) \subseteq {ScriptMark} \cup 0 .. Longest
    /\ at \notin {"stream", "done"} => reply = Unanswered /\ body = <<>>
    /\ shrunk \in BOOLEAN
    /\ socket \in {"none", "open", "ended"} /\ (socket = "none") = (at # "upgraded")
    /\ arrived \in {"none", "part", "all"} /\ (inbox = <<>> => arrived = "none")
    /\ reading => arrived # "none"
    /\ Len(inbox) <= Len(sent) /\ Len(sent) <= MaxSent
    /\ pongs \in Seq(0 .. 125)

\* What a target is taken for is what it means, whatever is encoded in it and in
\* whatever order its dots come; it is looked for under the mount with the longest
\* route that leads to it; and only what has no meaning is refused (request_path,
\* resolve, longest_mount).
TargetIsUnderstood ==
    /\ (at = "done" /\ reply.status = 400) => Meaning(request.target) = None
    /\ at = "stat" =>
          LET names == Meaning(request.target)
              Leads(route) == route # <<>> /\ IsPrefix(route, names)
              routes == {Mounts[i].route : i \in DOMAIN Mounts}
          IN /\ names # None
             /\ \/ place = Root \o names /\ ~\E route \in routes : Leads(route)
                \/ \E i \in DOMAIN Mounts :
                      /\ Leads(Mounts[i].route)
                      /\ place = Mounts[i].base \o
                                 SubSeq(names, Len(Mounts[i].route) + 1, Len(names))
                      /\ \A route \in routes :
                            Leads(route) => Len(route) <= Len(Mounts[i].route)

\* The link is to something that a mount covers, or a redirect in which one name is
\* not written as it should be.
Astray ==
    LET names == Path.names IN
    CASE request.via = "open" -> Matching(names) # {} \/ ~IsStrictPrefix(Root, request.of)
      [] request.via = "row" -> Matching(names) # Matching(Front(names))
      [] request.via = "redirect" ->
               \E n \in Names : Raw[n] # Encoded[n] /\ Raw[n] \in Range(request.target)

\* A link that the server has made leads to what it was made for: the URL that is
\* opened for a file, the rows of a directory listing, a redirect to the slash.  No
\* such request is refused or sent on once more (url_for, encode_segment,
\* directory_listing, handle_request).
LinksLead ==
    (request # None /\ request.of # None) =>
        /\ (at = "stat" /\ ~Astray) => place = request.of
        /\ (at = "done" /\ request.via # "redirect") => reply.status # 400
        /\ (at = "done" /\ reply.status = 301) => Astray

Wants(offsets) ==
    /\ Range(body) = offsets
    /\ \A i \in 2 .. Len(body) : body[i] = body[i - 1] + 1

\* A response is what its head says: as long as promised unless the file lost its end
\* meanwhile, for a range the bytes that the range means and for another request all
\* of them, in order; a range is refused only if it means none of the bytes, is more
\* than one, or cannot be read; and HEAD has no body (send_file, parse_range).
BodyIsRight ==
    (at = "done" /\ request.method \in {"GET", "HEAD"}) =>
        LET range == request.range
            plain == range.form \in {"span", "from", "last"}
        IN /\ request.method = "HEAD" => body = <<>>
           /\ (request.method = "GET" /\ ~shrunk) => Len(body) = reply.promised
           /\ (request.method = "GET" /\ ~shrunk /\ reply.status = 206) =>
                  Wants(Wanted(range, reply.total))
           /\ (request.method = "GET" /\ ~shrunk /\ reply.status = 200) =>
                  body \in {Offsets(reply.promised),
                            Append(Offsets(reply.promised - 1), ScriptMark)}
           /\ reply.status = 206 =>
                  plain /\ reply.promised = Cardinality(Wanted(range, reply.total))
           /\ reply.status = 416 => ~plain \/ Wanted(range, reply.total) = {}

\* the pings among the first n frames that are not too long to be read
Pings(n) == {i \in 1 .. n : sent[i].kind = "ping" /\ sent[i].length <= MaxFrame}

\* Unless a read has been dropped half-way, every ping that has been read is
\* answered, in order and with a payload that fits (read_frame, send_pong).
PingsAnswered ==
    LET read == Pings(Len(sent) - Len(inbox)) IN
    ~dropped => /\ Len(pongs) = Cardinality(read)
                /\ \A i \in read : pongs[Cardinality(Pings(i))] = Least(sent[i].length, 125)

\* A page that goes away is noticed, whatever it had still sent and however often
\* the read that would notice has been dropped (handle_websocket).
TabIsNoticed == left ~> socket = "ended"
================================================================================
