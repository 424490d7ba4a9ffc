--------------------------------- MODULE Frames ---------------------------------
(***************************************************************************)
(* The WebSocket of a page: what ws.rs reads and writes, and the loop of   *)
(* handle_websocket, http.rs, whose select! drops a read that is under way *)
(* when something else is ready first.                                     *)
(*                                                                         *)
(* The client's bytes come in pieces.  read_frame waits several times in a *)
(* frame; what it has read when it is dropped is lost, and the rest of the *)
(* frame is taken for the beginning of another.                            *)
(***************************************************************************)
EXTENDS Integers, Sequences

CONSTANTS
    ClientFrames, \* the frames a client may send: kind and length of the payload
    MaxSent,     \* bound: frames the client sends
    MaxFrame     \* MAX_FRAME

ASSUME FramesAssumption ==
    /\ ClientFrames \subseteq [kind : {"ping", "close", "text", "other"}, length : Nat]
    /\ MaxSent \in Nat /\ MaxFrame \in Nat

VARIABLES
    socket,     \* "open", or "ended" once the task is over
    inbox,      \* frames of the client that have not been read to their end
    arrived,    \* how much of the first has arrived: "none", "part", "all"
    reading,    \* whether read_frame has read a part of it
    dropped,    \* history: a read has been dropped within a frame
    sent,       \* the frames the client has sent
    left,       \* whether the client is gone
    pongs       \* the payloads of the pongs written

wire == <<inbox, arrived, reading, dropped, sent, left>>
fvars == <<socket, wire, pongs>>

\* mutant of Pong: as long as the ping
PongWhole(length) == length

\* control_frame: no more than fits
Pong(length) == IF length > 125 THEN 125 ELSE length

---------------------------------------------------------------------------
(* The client *)

FInit ==
    /\ socket = "none"
    /\ inbox = <<>> /\ arrived = "none" /\ reading = FALSE /\ dropped = FALSE
    /\ sent = <<>> /\ left = FALSE
    /\ pongs = <<>>

\* after a close frame a client sends nothing
Speaks ==
    /\ ~left /\ Len(sent) < MaxSent
    /\ ~\E i \in DOMAIN sent : sent[i].kind = "close"
    /\ \E frame \in ClientFrames :
           /\ sent' = Append(sent, frame)
           /\ inbox' = Append(inbox, frame)
    /\ UNCHANGED <<socket, arrived, reading, dropped, left, pongs>>

\* the tab is gone; what it has sent still comes
Leaves ==
    /\ ~left
    /\ left' = TRUE
    /\ UNCHANGED <<socket, inbox, arrived, reading, dropped, sent, pongs>>

Arrives ==
    /\ inbox # <<>> /\ arrived # "all"
    /\ arrived' \in {"part", "all"} \ {arrived}
    /\ UNCHANGED <<socket, inbox, reading, dropped, sent, left, pongs>>

---------------------------------------------------------------------------
(* handle_websocket *)

Ends == socket' = "ended" /\ UNCHANGED pongs

\* what comes of a frame that has been read
Outcome(kind, length) ==
    \/ kind = "close" /\ Ends
    \/ kind = "ping" /\ pongs' = Append(pongs, Pong(length)) /\ UNCHANGED socket
    \/ kind \in {"text", "other"} /\ UNCHANGED <<socket, pongs>>

Forgets == inbox' = Tail(inbox) /\ arrived' = "none" /\ reading' = FALSE

\* read_exact has got something and waits for the rest
ReadsPart ==
    /\ socket = "open" /\ arrived = "part" /\ ~reading
    /\ reading' = TRUE
    /\ UNCHANGED <<socket, inbox, arrived, dropped, sent, left, pongs>>

\* a frame in step; one that is too long ends the connection at its head
ReadsFrame ==
    /\ socket = "open" /\ arrived = "all" /\ ~dropped
    /\ LET frame == Head(inbox) IN
       IF frame.length > MaxFrame THEN Ends ELSE Outcome(frame.kind, frame.length)
    /\ Forgets
    /\ UNCHANGED <<dropped, sent, left>>

\* out of step anything may be read; how much of it is left out
ReadsAnything ==
    /\ socket = "open" /\ arrived = "all" /\ dropped
    /\ \E kind \in {"ping", "close", "other"} : Outcome(kind, 0)
    /\ Forgets
    /\ UNCHANGED <<dropped, sent, left>>

\* mutant of ReadsEnd: the end of the stream is not taken for a close
ReadsEndIgnored ==
    /\ socket = "open" /\ left /\ inbox = <<>>
    /\ UNCHANGED <<socket, pongs, wire>>

\* the stream has ended, within a frame or between two
ReadsEnd ==
    /\ socket = "open" /\ left /\ inbox = <<>>
    /\ Ends
    /\ UNCHANGED wire

\* A message is ready first: the read is dropped, and begun anew after the
\* message has been written.
Writes ==
    /\ socket = "open"
    /\ dropped' = (dropped \/ reading)
    /\ reading' = FALSE
    /\ UNCHANGED <<socket, inbox, arrived, sent, left, pongs>>

\* a write to a client that is gone fails, and the server may be stopped
Breaks ==
    /\ socket = "open"
    /\ Ends
    /\ UNCHANGED wire

Talks == Speaks \/ Leaves \/ Arrives
Serves == ReadsPart \/ ReadsFrame \/ ReadsAnything \/ ReadsEnd
================================================================================
