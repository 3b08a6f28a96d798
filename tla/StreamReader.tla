---------------------------- MODULE StreamReader ----------------------------
(***************************************************************************)
(* How the chat test shows an event stream while it arrives.  The bytes are *)
(* cut into chunks anywhere; a line says something if it is a "data:" line  *)
(* whose JSON has a text where the API mode puts it.                        *)
(***************************************************************************)
EXTENDS Browser

CONSTANTS
  Streams,  \* bodies: sequences of "data", API modes, texts, "other" and "nl"
  Texts     \* pieces of text

SseModes == {"openai", "anthropic", "responses", "gemini-chat"}

\* A body is finite, and no text holds the end of a line.
ASSUME StreamAssumption ==
  /\ "nl" \notin Texts
  /\ \A bytes \in Streams : bytes \in Seq({"data", "other", "nl"} \cup SseModes \cup Texts)

VARIABLES
  apiMode, body,  \* the send and the whole of its answer
  read,           \* how much of it has been read
  buffer,         \* the line begun
  said,           \* the texts shown
  stream          \* "open", "done" or "aborted"

streamVars == <<apiMode, body, read, buffer, said, stream>>

StreamInit(modes, bodies) ==
  /\ apiMode \in modes /\ body \in bodies
  /\ read = 0 /\ buffer = <<>> /\ said = <<>> /\ stream = "open"

\* sseJsonFromChatTestLine: what follows "data:", if it is JSON and not [DONE].
SseJson(line) == IF line # <<>> /\ line[1] = "data" THEN Tail(line) ELSE <<>>

StreamDelta(mode, line) ==
  LET json == SseJson(line)
  IN IF Len(json) = 2 /\ json[1] = mode /\ json[2] \in Texts THEN <<json[2]>> ELSE <<>>

\* A token ends the line begun, which says what it says, or goes on with it.
TakeToken(mode, acc, c) ==
  IF c = "nl" THEN [open |-> <<>>, said |-> acc.said \o StreamDelta(mode, acc.open)]
              ELSE [open |-> Append(acc.open, c), said |-> acc.said]

\* What the lines that end in the text say, and the line it leaves open.
TakeLines(text, mode, pieces) ==
  LET taken[i \in 0 .. Len(text)] ==
        IF i = 0 THEN [open |-> <<>>, said |-> pieces] ELSE TakeToken(mode, taken[i - 1], text[i])
  IN taken[Len(text)]

Chunk ==
  /\ stream = "open"
  /\ \E k \in (read + 1) .. Len(body) :
       LET taken == TakeLines(buffer \o SubSeq(body, read + 1, k), apiMode, said)
       IN read' = k /\ buffer' = taken.open /\ said' = taken.said
  /\ UNCHANGED <<apiMode, body, stream>>

\* (Mutant: a last line without its end is dropped.)
EndOfStreamCut ==
  /\ stream = "open" /\ read = Len(body) /\ stream' = "done"
  /\ UNCHANGED <<apiMode, body, read, buffer, said>>

\* The last line need not end in a newline.
EndOfStream ==
  /\ stream = "open" /\ read = Len(body)
  /\ said' = said \o StreamDelta(apiMode, buffer) /\ stream' = "done"
  /\ UNCHANGED <<apiMode, body, read, buffer>>

AbortStream ==
  /\ stream = "open" /\ stream' = "aborted"
  /\ UNCHANGED <<apiMode, body, read, buffer, said>>

PumpSse == Local /\ (Chunk \/ EndOfStream \/ AbortStream)

ConsolePumpSse == site = "console" /\ PumpSse
DemoPumpSse == site = "demo" /\ PumpSse

StreamNext == ConsolePumpSse \/ DemoPumpSse

\* A stream that is read by itself.
StreamSpec ==
  /\ BrowserInit({"console", "demo"}) /\ StreamInit(SseModes, Streams)
  /\ [][StreamNext]_<<browserVars, streamVars>>

-----------------------------------------------------------------------------

\* The places in the body where a whole line gives a text.
Sayings ==
  {i \in 1 .. Len(body) - 2 :
     /\ body[i] = "data" /\ body[i + 1] = apiMode /\ body[i + 2] \in Texts
     /\ i = 1 \/ body[i - 1] = "nl"
     /\ i + 3 > Len(body) \/ body[i + 3] = "nl"}

\* What the body says up to each of its tokens, and altogether.
Told[n \in 0 .. Len(body)] ==
  IF n = 0 THEN <<>> ELSE IF n - 2 \in Sayings THEN Append(Told[n - 1], body[n]) ELSE Told[n - 1]
Transcript == Told[Len(body)]

\* However the network cuts the stream, what is shown is always a beginning of
\* what it says, and all of it at the end, the last unterminated line included.
StreamWhole ==
  /\ \E k \in 0 .. Len(Transcript) : said = SubSeq(Transcript, 1, k)
  /\ stream = "done" => said = Transcript
=============================================================================
