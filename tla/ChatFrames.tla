----------------------------- MODULE ChatFrames ------------------------------
(***************************************************************************)
(* How the browser reads the stream of a chat turn (api/chat.ts): bytes    *)
(* come in chunks cut anywhere, frames end in an empty line, events end in *)
(* "done" or "error", and the transcript folds them into one reply         *)
(* (consume() of flow.ts; consumeChat() of chatRun.ts on the text alone).  *)
(*                                                                         *)
(* A line is two symbols, its field and its value, and a line feed is one, *)
(* so a chunk may end within a line, between the two line feeds of an      *)
(* empty line, or with several frames in it.  The connection may be lost   *)
(* at any symbol and within a value, as an end of the stream or as an      *)
(* error of the read.  A frame has at most one data line: the host sends   *)
(* no other (format_sse of llm.py).                                        *)
(***************************************************************************)
EXTENDS Integers, Sequences, SequencesExt

CONSTANTS
  Tokens,      \* texts the model streams, as the JSON strings on the wire
  Nothing,     \* the empty one, which a model may stream too (as JSON: its value is not "")
  MaxItems     \* bound: tokens and specs of a turn

\* A text is a JSON string: none of the other symbols on the wire, nor an event's name.
ASSUME TokensAreTexts ==
  /\ Nothing \in Tokens /\ MaxItems \in Nat
  /\ Tokens \cap {"", "event:", "data:", "lf", "torn", "null", "spec", "execution", "done", "error"} = {}

VARIABLES
  turn,     \* the events the host sends
  cut,      \* how many symbols of them arrive
  torn,     \* the last value arrives in part
  at,       \* symbols read so far
  buffer,   \* symbols of no frame yet
  phase,    \* "reading" awaits a chunk, "cutting" takes frames, then "ended"
  seen,     \* the events yielded
  reply,    \* what the transcript shows, piece by piece
  how       \* how the stream ended: "", "done", "error", "closed", "broken", "aborted"

frameVars == <<turn, cut, torn, at, buffer, phase, seen, reply, how>>

-----------------------------------------------------------------------------
(* The host's side of the stream.                                            *)

LF == "lf"
Field == {"event:", "data:"}
Torn == "torn"

\* format_sse, format_sse_event and SSE_DONE.
Frame(e) ==
  IF e \in Tokens THEN <<"data:", e, LF, LF>>
  ELSE <<"event:", e, LF, "data:", e, LF, LF>>

Items == Tokens \union {"spec"}

\* generate(): the echo of an execution, then tokens and specs, then error or done.
Turns ==
  {f \o m \o <<l>> : f \in {<<>>, <<"execution">>}, m \in BoundedSeq(Items, MaxItems), l \in {"done", "error"}}

\* What the first k events of a turn are on the wire, for each k.
Sent(t) == LET s[k \in 0..Len(t)] == IF k = 0 THEN <<>> ELSE s[k - 1] \o Frame(t[k]) IN s

Wire(t) == Sent(t)[Len(t)]

\* What arrives: all of it, or a part whose last value may be torn.
Arrives ==
  LET w == SubSeq(Wire(turn), 1, cut)
  IN IF torn THEN [w EXCEPT ![cut] = Torn] ELSE w

-----------------------------------------------------------------------------
(* parseSseFrame.                                                            *)

\* The value behind a field, "" without one.
ValueOf(field, frame) ==
  IF \E i \in 1..(Len(frame) - 1) : frame[i] = field /\ frame[i + 1] # LF
    THEN frame[1 + CHOOSE i \in 1..(Len(frame) - 1) : frame[i] = field /\ frame[i + 1] # LF]
    ELSE ""

HasData(frame) == \E i \in 1..Len(frame) : frame[i] = "data:"

Nil == "null"

\* Mutant: data that does not parse is shown as it is.
ParseLeniently(frame) ==
  LET event == ValueOf("event:", frame) data == ValueOf("data:", frame) IN
  IF ~HasData(frame) THEN Nil
  ELSE IF data = "done" \/ event = "done" THEN "done"
  ELSE IF event = "error" THEN "error"
  ELSE IF event # "" THEN event
  ELSE data

\* An event, or null for a frame without data, of another event, or whose data is
\* not what its event carries.  An error is one whatever its data.
parseSseFrame(frame) ==
  LET event == ValueOf("event:", frame) data == ValueOf("data:", frame) IN
  IF ~HasData(frame) THEN Nil
  ELSE IF data = "done" \/ event = "done" THEN "done"
  ELSE IF event = "error" THEN "error"
  ELSE IF event \in {"spec", "execution"} /\ data = event THEN event
  ELSE IF event = "" /\ data \in Tokens THEN data
  ELSE Nil

\* Where a frame ends in the buffer: buffer.indexOf('\n\n').
Ends(b) == {i \in 1..(Len(b) - 1) : b[i] = LF /\ b[i + 1] = LF}

-----------------------------------------------------------------------------
(* consume() of flow.ts.                                                     *)

ModelError == "**Model error**"
NoResponse == "(no response)"
SpecOnly == "(spec only)"

Say(text, e) == IF e = Nothing THEN text ELSE Append(text, e)

\* The reply after an event.
Shows(text, e) ==
  IF e \in Tokens THEN Say(text, e)
  ELSE IF e = "error" THEN Append(text, ModelError)
  ELSE text

\* The fallback when nothing was said.
Finished(text, events) ==
  IF text # <<>> THEN text
  ELSE IF Contains(events, "spec") THEN <<SpecOnly>> ELSE <<NoResponse>>

\* chatStream() passes on the text alone.
chatStream(e) == e \in Tokens \union {"error"}

\* What consumeChat() has said after the first k events, for each k.  It is left at an
\* error, which nothing follows: the stream ends with it.
Said(events) ==
  LET said[k \in 0..Len(events)] ==
        IF k = 0 THEN <<>>
        ELSE IF chatStream(events[k]) THEN Shows(said[k - 1], events[k]) ELSE said[k - 1]
  IN said

consumeChat(events) ==
  LET said == Said(events)[Len(events)] IN IF said = <<>> THEN <<NoResponse>> ELSE said

FramesInit ==
  /\ turn \in Turns
  /\ cut \in 0..Len(Wire(turn))
  /\ torn \in BOOLEAN
  /\ torn => cut > 0 /\ Wire(turn)[cut] \notin Field \union {LF}
  /\ at = 0 /\ buffer = <<>> /\ phase = "reading"
  /\ seen = <<>> /\ reply = <<>> /\ how = ""

\* reader.read() gives the next chunk.
Chunk(n) ==
  /\ phase = "reading" /\ at < cut /\ n \in 1..(cut - at)
  /\ buffer' = buffer \o SubSeq(Arrives, at + 1, at + n)
  /\ at' = at + n /\ phase' = "cutting"
  /\ UNCHANGED <<turn, cut, torn, seen, reply, how>>

\* The generator is closed by the consumer's break, and by its own return.
EndWith(text, events, why) ==
  /\ reply' = Finished(text, events) /\ phase' = "ended" /\ how' = why

\* Mutant: the loop goes on after done.
HandleOn(frame, next) ==
  LET e == parseSseFrame(frame) IN
  /\ seen' = (IF e = Nil THEN seen ELSE Append(seen, e))
  /\ reply' = Shows(reply, e) /\ phase' = next
  /\ how' = (IF e \in {"done", "error"} THEN e ELSE how)

\* Mutant: the loop is left before the error is shown.
HandleSilently(frame, next) ==
  LET e == parseSseFrame(frame) events == Append(seen, e) IN
  IF e = Nil
    THEN phase' = next /\ UNCHANGED <<seen, reply, how>>
    ELSE /\ seen' = events
         /\ IF e \in {"done", "error"}
              THEN EndWith(reply, events, e)
              ELSE reply' = Shows(reply, e) /\ phase' = next /\ UNCHANGED how

\* An event of a frame reaches the transcript.
Handle(frame, next) ==
  LET e == parseSseFrame(frame) events == Append(seen, e) IN
  IF e = Nil
    THEN phase' = next /\ UNCHANGED <<seen, reply, how>>
    ELSE /\ seen' = events
         /\ IF e \in {"done", "error"}
              THEN EndWith(Shows(reply, e), events, e)
              ELSE reply' = Shows(reply, e) /\ phase' = next /\ UNCHANGED how

\* Mutant: one frame of a chunk, the others with the next one.
CutOneFrame ==
  /\ phase = "cutting" /\ Ends(buffer) # {}
  /\ LET i == CHOOSE j \in Ends(buffer) : \A k \in Ends(buffer) : j <= k
     IN /\ buffer' = SubSeq(buffer, i + 2, Len(buffer))
        /\ Handle(SubSeq(buffer, 1, i - 1), "reading")
  /\ UNCHANGED <<turn, cut, torn, at>>

\* The first frame of the buffer, as long as there is one.
CutFrame ==
  /\ phase = "cutting" /\ Ends(buffer) # {}
  /\ LET i == CHOOSE j \in Ends(buffer) : \A k \in Ends(buffer) : j <= k
     IN /\ buffer' = SubSeq(buffer, i + 2, Len(buffer))
        /\ Handle(SubSeq(buffer, 1, i - 1), "cutting")
  /\ UNCHANGED <<turn, cut, torn, at>>

NoFrame ==
  /\ phase = "cutting" /\ Ends(buffer) = {}
  /\ phase' = "reading"
  /\ UNCHANGED <<turn, cut, torn, at, buffer, seen, reply, how>>

Blank(b) == \A i \in 1..Len(b) : b[i] = LF

\* The stream ends: what is left in the buffer is a frame unless it is blank.
LastFrame ==
  /\ phase = "reading" /\ at = cut /\ ~Blank(buffer)
  /\ buffer' = <<>> /\ Handle(buffer, "closing")
  /\ UNCHANGED <<turn, cut, torn, at>>

Closes ==
  /\ phase = "closing" \/ (phase = "reading" /\ at = cut /\ Blank(buffer))
  /\ EndWith(reply, seen, "closed")
  /\ UNCHANGED <<turn, cut, torn, at, buffer, seen>>

\* read() throws: the connection is lost.
Breaks ==
  /\ phase = "reading" /\ at = cut
  /\ EndWith(Append(reply, ModelError), seen, "broken")
  /\ UNCHANGED <<turn, cut, torn, at, buffer, seen>>

\* New session: the fetch is aborted, and no error is shown for it.
Aborts ==
  /\ phase = "reading"
  /\ EndWith(reply, seen, "aborted")
  /\ UNCHANGED <<turn, cut, torn, at, buffer, seen>>

FramesNext ==
  \/ \E n \in 1..(cut - at) : Chunk(n)
  \/ CutFrame \/ NoFrame
  \/ LastFrame \/ Closes \/ Breaks \/ Aborts

FramesSpec == FramesInit /\ [][FramesNext]_frameVars

-----------------------------------------------------------------------------
(* The reference: frames are known from the host's side, not looked for.     *)

\* How many symbols the first k events are.
SizeOf(t, k) == Len(Sent(t)[k])

\* How many of the events have arrived whole within the first n symbols.
Whole(t, n) == CHOOSE k \in 0..Len(t) : SizeOf(t, k) <= n /\ (k < Len(t) => n < SizeOf(t, k + 1))

FramesTypeOK ==
  /\ turn \in Turns /\ cut \in 0..Len(Wire(turn)) /\ torn \in BOOLEAN
  /\ at \in 0..cut /\ buffer = SubSeq(Arrives, at - Len(buffer) + 1, at)
  /\ phase \in {"reading", "cutting", "closing", "ended"}
  /\ Len(seen) <= Len(turn)
  /\ how \in {"", "done", "error", "closed", "broken", "aborted"}
  /\ (how # "") = (phase = "ended")

\* Whenever the page waits for more, it has seen exactly the events that have arrived
\* whole, however the bytes were cut into chunks: none is held back in the buffer until
\* the next chunk, none is lost at a boundary, none is seen twice.
SeenIsWhatArrived == phase = "reading" => seen = SubSeq(turn, 1, Whole(turn, at))

\* A connection lost within a frame adds no event the host did not send: what is left in
\* the buffer is the event that was cut, or nothing.
NothingIsInvented == IsPrefix(seen, turn)

\* The reply at the end is what a reader of the whole events would show, by either of
\* the two readers of the code, and never an empty message: a stream that closes in
\* silence is told, a connection lost adds the error, New session does not.
ReplyIsOfTheEvents ==
  phase = "ended" =>
    LET said == Said(seen)[Len(seen)] IN
    reply = IF how = "broken" THEN Append(said, ModelError)
            ELSE IF said = <<>> /\ Contains(seen, "spec") THEN <<SpecOnly>>
            ELSE consumeChat(seen)
=============================================================================
