---------------------------------- MODULE Edits ----------------------------------
(***************************************************************************)
(* One document that is open in the editor while live_changes is on, the   *)
(* copy of it in the overlay, and the page made of the copy: overlay.rs    *)
(* (apply, byte_offset) and inject.rs.                                     *)
(*                                                                         *)
(* The editor names a place by its line and the UTF-16 units before it,    *)
(* the overlay needs bytes.  A text is a sequence of characters, each with *)
(* its length in both; a closing tag counts as one of them.                *)
(***************************************************************************)
EXTENDS Integers, FiniteSets, SequencesExt

CONSTANTS
    Chars,
    Units,      \* Units[c]: how many UTF-16 units c is
    Octets,     \* Octets[c]: how many bytes
    Newline,
    BodyEnd, HtmlEnd, \* closing tags, in whatever case
    Script,     \* the element that loads the client
    Starts,     \* texts a document is opened with
    Inserts,    \* texts the editor puts in
    MaxLength,  \* bound: of the document
    MaxPending  \* bound: changes on their way

ASSUME CharsAssumption ==
    /\ Newline \in Chars /\ Units \in [Chars -> 1 .. 2] /\ Octets \in [Chars -> Nat \ {0}]
    /\ BodyEnd \subseteq Chars /\ HtmlEnd \subseteq Chars \ BodyEnd
    /\ Newline \notin BodyEnd \cup HtmlEnd /\ Script \notin Chars
    /\ Starts \subseteq Seq(Chars) /\ Inserts \subseteq Seq(Chars)
    /\ {MaxLength, MaxPending} \subseteq Nat

VARIABLES
    editor,     \* the text in the editor
    pending,    \* the changes it has sent that have not been handled
    copy,       \* the text in the overlay
    skipped,    \* history: whether a change has been skipped
    panicked    \* whether a range has split a character

vars == <<editor, pending, copy, skipped, panicked>>

---------------------------------------------------------------------------
(* Places *)

\* the places of a text are before, between and after its characters
Places(text) == 0 .. Len(text)

\* how many units, or bytes, the characters at some indices are
Total(length, text, indices) ==
    Cardinality(UNION {{k} \X (1 .. length[text[k]]) : k \in indices})

\* the newlines before a place, and the characters of its line before it
Newlines(text, i) == {k \in 1 .. i : text[k] = Newline}
Before(text, i) == {k \in 1 .. i : \A m \in k .. i : text[m] # Newline}

\* where the editor says that a place is, and where that is in the overlay
Position(text, i) == [line |-> Cardinality(Newlines(text, i)),
                      column |-> Total(Units, text, Before(text, i))]
Bytes(text, i) == Total(Octets, text, 1 .. i)

First(places) == CHOOSE i \in places : \A j \in places : i <= j

\* mutant of ByteOffset: columns count characters, not UTF-16 units
ByteOffsetInChars(text, position) ==
    LET line == {i \in Places(text) : Position(text, i).line = position.line}
        places == {i \in line : Cardinality(Before(text, i)) >= position.column
                                \/ i + 1 \notin line}
    IN Bytes(text, IF line = {} THEN Len(text) ELSE First(places))

\* mutant of ByteOffset: the column is added as bytes, up to the end of the text
ByteOffsetInBytes(text, position) ==
    LET line == {i \in Places(text) : Position(text, i).line = position.line}
    IN IF line = {} THEN Bytes(text, Len(text))
       ELSE Min({Bytes(text, First(line)) + position.column, Bytes(text, Len(text))})

\* byte_offset: after so many newlines the first character before which there are
\* as many units, or the end of the line; past the last line the end of the text
ByteOffset(text, position) ==
    LET line == {i \in Places(text) : Position(text, i).line = position.line}
        places == {i \in line : Position(text, i).column >= position.column
                                \/ i + 1 \notin line}
    IN Bytes(text, IF line = {} THEN Len(text) ELSE First(places))

---------------------------------------------------------------------------
(* The page *)

\* mutant of FindLastTag: the first one
FindFirstTag(text, tags) == SelectInSeq(text, LAMBDA c : c \in tags)

\* find_last_tag
FindLastTag(text, tags) == SelectLastInSeq(text, LAMBDA c : c \in tags)

Inject(text) ==
    LET body == FindLastTag(text, BodyEnd)
        html == FindLastTag(text, HtmlEnd)
        Put(i) == SubSeq(text, 1, i - 1) \o <<Script, Newline>> \o SubSeq(text, i, Len(text))
    IN CASE body # 0 -> Put(body)
         [] body = 0 /\ html # 0 -> Put(html)
         [] OTHER -> text \o <<Newline, Script, Newline>>

---------------------------------------------------------------------------
(* Changes *)

Replaced(text, i, j, new) == SubSeq(text, 1, i) \o new \o SubSeq(text, j + 1, Len(text))

Init ==
    /\ editor \in Starts
    /\ copy = editor
    /\ pending = <<>> /\ skipped = FALSE /\ panicked = FALSE

\* A bound: after a change has been skipped only those on their way follow.
Sends(text, change) ==
    /\ ~skipped /\ Len(text) <= MaxLength /\ Len(pending) < MaxPending
    /\ editor' = text
    /\ pending' = Append(pending, change)
    /\ UNCHANGED <<copy, skipped, panicked>>

\* what is between two places of the text is replaced
Types ==
    \E i \in Places(editor), new \in Inserts : \E j \in i .. Len(editor) :
        Sends(Replaced(editor, i, j, new),
              [whole |-> FALSE, start |-> Position(editor, i), end |-> Position(editor, j),
               text |-> new])

\* the whole text is sent, as after a reload from the disk
Reloads ==
    \E new \in Starts :
        Sends(new, [whole |-> TRUE, start |-> Position(new, 0), end |-> Position(new, 0),
                    text |-> new])

\* The byte offsets are turned back into places, where they are one; replace_range
\* panics where they are not.
Applied(change) ==
    LET start == ByteOffset(copy, change.start)
        end == ByteOffset(copy, change.end)
        At(offset) == {i \in Places(copy) : Bytes(copy, i) = offset}
        ranged == ~change.whole /\ start <= end
        splits == At(start) = {} \/ At(end) = {}
    IN /\ copy' = CASE change.whole -> change.text
                    [] ranged /\ ~splits ->
                           Replaced(copy, CHOOSE i \in At(start) : TRUE,
                                    CHOOSE j \in At(end) : TRUE, change.text)
                    [] OTHER -> copy
       /\ panicked' = (ranged /\ splits)

Applies ==
    /\ pending # <<>>
    /\ Applied(Head(pending))
    /\ pending' = Tail(pending)
    /\ UNCHANGED <<editor, skipped>>

\* did_change while live_changes is off: what comes after finds an older text
Skips ==
    /\ pending # <<>> /\ ~skipped
    /\ pending' = Tail(pending)
    /\ skipped' = TRUE
    /\ UNCHANGED <<editor, copy, panicked>>

Next == Types \/ Reloads \/ Applies \/ Skips

Spec == Init /\ [][Next]_vars

---------------------------------------------------------------------------
(* Properties *)

\* Once every change has been handled the overlay holds what the editor shows, in
\* whatever characters and however the changes follow each other (apply, byte_offset).
CopiesAgree == (pending = <<>> /\ ~skipped) => copy = editor

\* No change splits a character, which would panic, even one that was made to another
\* text than the overlay's: a place past the end of a line or of the text, within a
\* surrogate pair, or an end that comes before the start (apply, byte_offset).
NeverPanics == ~panicked

\* In the page made of the copy the script stands once, before the last end of a body,
\* or without any before the last end of the document, or else at its end; and the text
\* around it is as it was (inject, find_last_tag).
ScriptIsPlaced ==
    LET page == Inject(copy)
        at == SelectInSeq(page, LAMBDA c : c = Script)
        after == SubSeq(page, at + 2, Len(page))
        Has(text, tags) == \E i \in DOMAIN text : text[i] \in tags
        LastOf(tags) == after # <<>> /\ Head(after) \in tags /\ ~Has(Tail(after), tags)
    IN /\ Cardinality({i \in DOMAIN page : page[i] = Script}) = 1
       /\ SubSeq(page, 1, at - 1) \o after \in {copy, Append(copy, Newline)}
       /\ IF Has(copy, BodyEnd) THEN LastOf(BodyEnd)
          ELSE IF Has(copy, HtmlEnd) THEN LastOf(HtmlEnd) ELSE after = <<>>
================================================================================
