--------------------------------- MODULE Paths ---------------------------------
(***************************************************************************)
(* The names of things: what a request target stands for, which file or    *)
(* directory that is, and the URL under which a file is offered.  http.rs  *)
(* (request_path, resolve, longest_mount, join_checked) and server.rs      *)
(* (url_for, encode_url_path).                                             *)
(*                                                                         *)
(* A path is a sequence of names.  A target is a sequence of pieces, what  *)
(* stands between its slashes; Reads says what a piece is once decoded,    *)
(* which may be several segments, as an encoded slash separates like any.  *)
(***************************************************************************)
EXTENDS Integers, FiniteSets, FiniteSetsExt, SequencesExt

CONSTANTS
    Names,    \* of files and directories
    Bad,      \* segments with a NUL or a backslash
    Pieces,
    Reads,    \* Reads[p]: the segments piece p decodes to
    Cut,      \* pieces with an unencoded ? or #; they read up to it
    Unread,   \* pieces that do not decode to UTF-8
    Encoded,  \* Encoded[n]: name n as encode_segment writes it
    Raw,      \* Raw[n]: name n written as it is
    Root,     \* the document root
    Mounts,   \* config.mount: a sequence of routes and bases
    None

Segments == Names \cup Bad \cup {"", ".", ".."}

ASSUME PiecesAssumption ==
    /\ Reads \in [Pieces -> Seq(Segments)]
    /\ Encoded \in [Names -> Pieces] /\ Raw \in [Names -> Pieces]
    /\ Cut \subseteq Pieces /\ Unread \subseteq Pieces
    /\ \A n \in Names : Reads[Encoded[n]] = <<n>> /\ Encoded[n] \notin Cut \cup Unread
    /\ "" \in Pieces \ (Cut \cup Unread) /\ Reads[""] = <<"">>
    /\ Bad \cap {"", ".", ".."} = {}
    /\ Names \cap (Bad \cup {"", ".", ".."}) = {}
    /\ None \notin Seq(Segments) \cup [names : Seq(Names), slash : BOOLEAN]

ASSUME MountsAssumption ==
    /\ Root \in Seq(Names)
    /\ Mounts \in Seq([route : Seq(Names), base : Seq(Names)])

---------------------------------------------------------------------------
(* Targets *)

\* the target up to its query
Used(target) ==
    LET cuts == {i \in DOMAIN target : target[i] \in Cut}
    IN IF cuts = {} THEN target ELSE SubSeq(target, 1, Min(cuts))

\* that, decoded and split at its slashes
Decoded(target) ==
    LET used == Used(target)
    IN [unread |-> \E p \in Range(used) : p \in Unread,
        segments |-> FlattenSeq([i \in DOMAIN used |-> Reads[used[i]]])]

\* mutant of Taken: one .. too many is taken for the root
TakenLeniently(names, segment) ==
    CASE names = None -> None
      [] names # None /\ segment \in {"", "."} -> names
      [] names # None /\ segment = ".." -> IF names = <<>> THEN names ELSE Front(names)
      [] names # None /\ segment \in Bad -> None
      [] OTHER -> Append(names, segment)

\* one segment after those that are left so far; None is a refusal
Taken(names, segment) ==
    CASE names = None -> None
      [] names # None /\ segment \in {"", "."} -> names
      [] names # None /\ segment = ".." -> IF names = <<>> THEN None ELSE Front(names)
      [] names # None /\ segment \in Bad -> None
      [] OTHER -> Append(names, segment)

\* what is left of some segments
Taking(segments) ==
    LET left[n \in 0 .. Len(segments)] ==
            IF n = 0 THEN <<>> ELSE Taken(left[n - 1], segments[n])
    IN left[Len(segments)]

RequestPath(target) ==
    LET decoded == Decoded(target)
        names == Taking(decoded.segments)
    IN IF decoded.unread \/ names = None THEN None
       ELSE [names |-> names,
             slash |-> names = <<>> \/ Last(decoded.segments) = ""]

\* What some segments mean, said of all of them at once: a name counts unless a later
\* .. takes it back, and no .. reaches above the root.
Ups(segments, i, j) == {k \in i .. j : segments[k] = ".."}
Counted(segments, i, j) == {k \in i .. j : segments[k] \notin {"", ".", ".."}}
Overshoots(segments, i, j) ==
    Cardinality(Ups(segments, i, j)) > Cardinality(Counted(segments, i, j))

Kept(segments, n) == {i \in Counted(segments, 1, n) :
                         \A j \in i + 1 .. n : ~Overshoots(segments, i + 1, j)}

\* what stands at the places, in their order
Listed(segments, places) ==
    [i \in 1 .. Cardinality(places) |->
        segments[CHOOSE k \in places : Cardinality(places \cap 1 .. k) = i]]

\* what a target means
Meaning(target) ==
    LET segments == Decoded(target).segments
        n == Len(segments)
    IN IF \/ Decoded(target).unread
          \/ \E j \in 1 .. n : segments[j] \in Bad \/ Overshoots(segments, 1, j)
       THEN None
       ELSE Listed(segments, Kept(segments, n))

---------------------------------------------------------------------------
(* Files *)

Matching(names) == {i \in DOMAIN Mounts : /\ Mounts[i].route # <<>>
                                          /\ IsPrefix(Mounts[i].route, names)}

\* the first of the longest routes that match
LongestMount(names) ==
    CHOOSE i \in Matching(names) : \A j \in Matching(names) :
        LET here == Len(Mounts[i].route)
            there == Len(Mounts[j].route)
        IN here > there \/ (here = there /\ i <= j)

\* only ordinary names are joined to a base
JoinChecked(base, rest) ==
    base \o FlattenSeq([i \in DOMAIN rest |-> IF rest[i] \in Names THEN <<rest[i]>> ELSE <<>>])

Resolve(names) ==
    IF Matching(names) = {} THEN JoinChecked(Root, names)
    ELSE LET mount == Mounts[LongestMount(names)]
         IN JoinChecked(mount.base, SubSeq(names, Len(mount.route) + 1, Len(names)))

\* mutant of UrlFor: names are written as they are
UrlForRaw(file) ==
    IF IsStrictPrefix(Root, file)
    THEN [i \in 1 .. Len(file) - Len(Root) |-> Raw[file[i + Len(Root)]]]
    ELSE <<"">>

\* url_for: the target that is opened for a file, the root's if it is elsewhere
UrlFor(file) ==
    IF IsStrictPrefix(Root, file)
    THEN [i \in 1 .. Len(file) - Len(Root) |-> Encoded[file[i + Len(Root)]]]
    ELSE <<"">>

\* where a directory without its slash is redirected to
Location(names) == [i \in DOMAIN names |-> Raw[names[i]]] \o <<"">>
================================================================================
