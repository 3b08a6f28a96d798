------------------------------ MODULE ChatTest ------------------------------
(***************************************************************************)
(* The chat test of both consoles: a form (API mode, model, stream), a send *)
(* that falls back from the gateway to the page's own origin under one      *)
(* timeout, and in the console the recent configuration and the history     *)
(* kept in localStorage, and the presets.  The line of its messages, all    *)
(* that a refused send, the preview and the copied command write, is left   *)
(* out.                                                                     *)
(***************************************************************************)
EXTENDS Browser

CONSTANTS
  ChatModes,   \* API modes a user picks
  ChatModels,  \* names a model may have
  Listings,    \* sets of rows the price list may hold: a model, its provider
  KeptSends,   \* items the history keeps: 10 in the code
  Bodies       \* parsed bodies: the set of the parts that hold something

ASSUME ChatAssumption == KeptSends \in Nat

VARIABLES
  chatMode, chatModel,  \* the form; "" when no model is chosen
  priced,       \* cachedPricingModels
  chatOptions,  \* options of the model select (the demo has a text input)
  sendButton,   \* "on" or "off"
  output,       \* what is shown below the form: "", "text", "json", "image"
  aborted,      \* sends under way whose timer has fired
  crossed,      \* reference images were read while another send was out
  history,      \* localStorage: past sends, the newest first
  recent        \* localStorage: the last one, or Nil

formVars == <<chatMode, chatModel, priced, chatOptions>>
flight == <<aborted, crossed>>
chatVars == <<formVars, sendButton, output, flight, history, recent>>

ImageModes == {"gemini-image", "openai-image"}
GeminiModes == {"gemini-image", "gemini-chat"}
UnstreamedModes == ImageModes \cup {"openai-embeddings"}

\* Names that hold "claude", "gemini", "image".
Claudes == {"claude"}
Geminis == {"gemini", "gemini-image"}
Imagens == {"imagen", "gemini-image"}

\* inferModelCapabilities: by the provider of the row, else by the name.
Capabilities(row) ==
  IF row.provider = "anthropic" \/ row.model \in Claudes THEN {"anthropic"}
  ELSE IF row.provider \in {"gemini", "google"} \/ row.model \in Geminis
       THEN {IF row.model \in Imagens THEN "gemini-image" ELSE "gemini-chat"}
       ELSE {"openai", "responses"}

ModeToCapability(mode) == IF mode \in {"anthropic", "responses"} \cup GeminiModes THEN mode ELSE "openai"

Fitting(rows, mode) ==
  {row.model : row \in {x \in rows : ModeToCapability(mode) \in Capabilities(x)}}

RenderModelOptions(rows, mode, prev) ==
  /\ chatOptions' = Fitting(rows, mode)
  /\ chatModel' \in (IF prev \in chatOptions' THEN {prev}
                     ELSE IF chatOptions' = {} THEN {""} ELSE chatOptions')

ChatTestInit ==
  /\ chatMode = "openai" /\ chatModel = "" /\ priced = {} /\ chatOptions = {}
  /\ sendButton = "on" /\ output = ""
  /\ aborted = {} /\ crossed = FALSE /\ history = <<>> /\ recent = Nil

-----------------------------------------------------------------------------
\* The form.

Unsent == UNCHANGED <<sendButton, output, flight, history, recent>>

SyncApiMode(rows, mode, prev) ==
  /\ chatMode' = mode /\ priced' = rows
  /\ IF site = "console" THEN RenderModelOptions(rows, mode, prev)
     ELSE chatModel' = prev /\ UNCHANGED chatOptions

ChooseMode ==
  /\ Local /\ \E mode \in ChatModes : SyncApiMode(priced, mode, chatModel)
  /\ Unsent

ChooseModel ==
  /\ Local
  /\ chatModel' \in (IF site = "console" THEN chatOptions ELSE ChatModels) \cup {""}
  /\ UNCHANGED <<chatMode, priced, chatOptions>> /\ Unsent

\* ensureChatTestModelOption: a model the select lacks becomes an option, and
\* one the price list lacks becomes a row of it, of provider "openai".
Ensured(rows, options, m) ==
  IF m \in options \/ \E row \in rows : row.model = m THEN rows
  ELSE rows \cup {[model |-> m, provider |-> "openai"]}

Preset(mode, m) ==
  /\ Local
  /\ SyncApiMode(IF chatModel = "" THEN Ensured(priced, chatOptions, m) ELSE priced,
                 mode, IF chatModel = "" THEN m ELSE chatModel)
  /\ Unsent

PresetHealth == Preset(chatMode, "gpt")
PresetSummary == Preset("responses", "gpt")

RestoreModel(mode, m) ==
  /\ chatMode' = mode
  /\ chatOptions' = Fitting(priced, mode) \cup {m}
  /\ priced' = Ensured(priced, Fitting(priced, mode), m)
  /\ chatModel' = m

\* The options are drawn for the restored mode; then the model, if there is one,
\* is made an option and chosen.
Restore(mode, m) ==
  IF m = "" THEN SyncApiMode(priced, mode, chatModel) ELSE RestoreModel(mode, m)

HistoryApply ==
  /\ Local /\ \E k \in DOMAIN history : Restore(history[k].mode, history[k].model)
  /\ Unsent

HistoryClear ==
  /\ Local /\ history' = <<>>
  /\ UNCHANGED <<formVars, sendButton, output, flight, recent>>

ClearOutput ==
  /\ Local
  /\ output' = ""
  /\ UNCHANGED <<formVars, sendButton, flight, history, recent>>

-----------------------------------------------------------------------------
\* Loading the page.  Its handlers are installed before the data is there, and
\* the recent configuration is applied when everything is.

ReloadPage ==
  /\ session = "in" /\ clicks < MaxClicks
  /\ clicks' = clicks + 1 /\ calls' = IF site = "console" THEN <<Call("pricing", Nil)>> ELSE <<>>
  /\ chatMode' = "openai" /\ chatModel' = "" /\ priced' = {} /\ chatOptions' = {}
  /\ sendButton' = "on" /\ output' = ""
  /\ crossed' = FALSE /\ UNCHANGED <<aborted, history, recent, session, site>>

\* A failed load counts as an empty price list.  One sent by "refresh" may be
\* answered at any time and draws over what it finds then: the click is counted
\* when its answer comes.
DrawPricing ==
  /\ \E rows \in Listings \cup {{}} : SyncApiMode(rows, chatMode, chatModel)
  /\ Unsent

LoadPricing(n) == Asked(n, "pricing") /\ DrawPricing /\ Resume(n, <<Call("rest", Nil)>>)

RefreshPricing == Gesture(<<>>) /\ DrawPricing

LoadModelHealthSnapshot ==
  /\ Local /\ SyncApiMode(priced, chatMode, chatModel)
  /\ Unsent

ApplyRecentConfig(n) ==
  /\ Asked(n, "rest") /\ Resume(n, <<>>)
  /\ IF recent = Nil THEN UNCHANGED formVars ELSE Restore(recent.mode, recent.model)
  /\ Unsent

\* One of the other loads failed.
InitFails(n) == Asked(n, "rest") /\ Resume(n, <<>>) /\ UNCHANGED chatVars

-----------------------------------------------------------------------------
\* A send.  It fixes mode and model when the button is clicked.

Request(sse) ==
  [id |-> clicks + 1, mode |-> chatMode, model |-> chatModel,
   sse |-> sse /\ chatMode \notin UnstreamedModes]

\* The fetches of a send that is out.
Timed == {"post", "repost", "stream", "text"} \cup (IF site = "demo" THEN {"read"} ELSE {})
Out(n) == calls[n].op \in Timed

\* (Mutant: the button is not disabled.)
StartedEnabled(s) ==
  /\ output' = ""
  /\ UNCHANGED <<formVars, sendButton, aborted, history, recent>>

Started(s) ==
  /\ sendButton' = "off" /\ output' = ""
  /\ UNCHANGED <<formVars, aborted, history, recent>>

\* The console reads reference images before it disables the button, the demo
\* afterwards and under the timeout.
ClickSend ==
  /\ sendButton = "on" /\ chatModel # ""
  /\ \E sse \in BOOLEAN : Gesture(<<Call("post", Request(sse))>>) /\ Started(Request(sse))
  /\ UNCHANGED crossed

ClickSendImages ==
  /\ sendButton = "on" /\ chatModel # "" /\ chatMode = "gemini-image"
  /\ Gesture(<<Call("read", Request(FALSE))>>)
  /\ IF site = "demo" THEN Started(Request(FALSE)) /\ UNCHANGED crossed ELSE UNCHANGED chatVars

\* The console goes on with the send, whether another one is out by now or not.
ImagesRead(n) ==
  /\ Asked(n, "read") /\ Resume(n, <<Call("post", calls[n].arg)>>)
  /\ IF site = "console"
     THEN Started(calls[n].arg) /\ crossed' = (crossed \/ \E m \in DOMAIN calls : Out(m))
     ELSE UNCHANGED chatVars

\* "finally": the timer is cleared and the button enabled.
Over(n) ==
  /\ sendButton' = "on" /\ aborted' = aborted \ {calls[n].arg.id}
  /\ crossed' = (crossed /\ \E m \in DOMAIN calls \ {n} : Out(m))
  /\ Resume(n, <<>>)

\* The console leaves the button as another send may have set it.
ImagesNotRead(n) ==
  /\ Asked(n, "read")
  /\ IF site = "demo" THEN Over(n) ELSE Resume(n, <<>>) /\ UNCHANGED <<sendButton, flight>>
  /\ UNCHANGED <<formVars, output, history, recent>>

Late(n) == calls[n].arg.id \in aborted

TimeOut(n) ==
  /\ session = "in" /\ Out(n) /\ ~Late(n)
  /\ aborted' = aborted \cup {calls[n].arg.id} /\ UNCHANGED crossed
  /\ UNCHANGED <<formVars, sendButton, output, history, recent, browserVars>>

\* Any rejection of the first fetch, its abortion included, leads to a second
\* one; a signal already aborted makes that one reject at once.
FallBack(n) ==
  /\ Asked(n, "post") /\ Resume(n, <<Call("repost", calls[n].arg)>>)
  /\ UNCHANGED chatVars

SendFailed(n) ==
  /\ Over(n)
  /\ UNCHANGED <<formVars, output, history, recent>>

\* An HTTP error after either fetch, a rejection of the second, a stream cut
\* short, a body that is no JSON.
SendFails(n) ==
  /\ \/ (Asked(n, "post") \/ Asked(n, "text")) /\ ~Late(n)
     \/ Asked(n, "repost") \/ Asked(n, "stream")
  /\ SendFailed(n)

Opened(n) ==
  /\ Asked(n, "post") \/ Asked(n, "repost")
  /\ ~Late(n)
  /\ \/ /\ calls[n].arg.sse  \* and the answer is an event stream
        /\ output' = "text"
        /\ Resume(n, <<Call("stream", calls[n].arg)>>)
     \/ /\ Resume(n, <<Call("text", calls[n].arg)>>)
        /\ UNCHANGED output
  /\ UNCHANGED <<formVars, sendButton, flight, history, recent>>

\* (Mutant: the model is always the one that the form holds by now.)
ItemOfForm(s) == [mode |-> s.mode, model |-> chatModel]

\* The bodies of the Gemini modes carry no model: the history then takes the
\* one that the form holds by now.
Item(s) == [mode |-> s.mode, model |-> IF s.mode \in GeminiModes THEN chatModel ELSE s.model]

Remember(s) ==
  LET kept == IF Item(s).model = "" THEN history ELSE <<Item(s)>> \o history
  IN IF site = "demo" THEN UNCHANGED <<history, recent>>
     ELSE /\ history' = SubSeq(kept, 1, IF Len(kept) > KeptSends THEN KeptSends ELSE Len(kept))
          /\ recent' = Item(s)

SendDone(n) ==
  /\ Over(n) /\ Remember(calls[n].arg) /\ UNCHANGED formVars

StreamDone(n) == Asked(n, "stream") /\ ~Late(n) /\ SendDone(n) /\ UNCHANGED output

FindFirstGeminiInlineImage(data) == "image" \in data
GeminiAssistantPlainText(data) == "candidates" \in data
AnthropicAssistantPlainText(data) == "content" \in data
ResponsesAssistantPlainText(data) == "output" \in data
OpenAIAnswer(data) == "choices" \in data

\* What the body shows as: the picture or text found in it, else its JSON.
Rendered(mode, data) ==
  CASE mode \in ImageModes -> IF FindFirstGeminiInlineImage(data) THEN "image" ELSE "json"
    [] mode = "gemini-chat" -> IF GeminiAssistantPlainText(data) THEN "text" ELSE "json"
    [] mode = "anthropic" -> IF AnthropicAssistantPlainText(data) THEN "text" ELSE "json"
    [] mode = "responses" -> IF ResponsesAssistantPlainText(data) THEN "text" ELSE "json"
    [] OTHER -> IF OpenAIAnswer(data) THEN "text" ELSE "json"

\* A body that cannot be read, because it is lost or the send timed out, counts
\* as an empty one: such a send is reported as done, its output "{}".
TextRead(n) ==
  /\ Asked(n, "text")
  /\ \E data \in (IF Late(n) THEN {{}} ELSE Bodies \cup {{}}) :
       output' = Rendered(calls[n].arg.mode, data)
  /\ SendDone(n)

-----------------------------------------------------------------------------
\* The handlers of the two consoles.

SendHandlers ==
  \/ ClickSend \/ ClickSendImages
  \/ \E n \in DOMAIN calls :
       \/ ImagesRead(n) \/ ImagesNotRead(n) \/ TimeOut(n) \/ FallBack(n)
       \/ SendFails(n) \/ Opened(n) \/ StreamDone(n) \/ TextRead(n)

ConsoleChat == site = "console" /\ SendHandlers
DemoChat == site = "demo" /\ SendHandlers
ConsoleForm ==
  /\ site = "console"
  /\ \/ PresetHealth \/ PresetSummary \/ HistoryApply \/ HistoryClear
     \/ ClearOutput

ConsoleLoads ==
  /\ site = "console"
  /\ \/ RefreshPricing \/ LoadModelHealthSnapshot
     \/ \E n \in DOMAIN calls : LoadPricing(n) \/ ApplyRecentConfig(n) \/ InitFails(n)

ChatTestNext ==
  \/ ChooseMode \/ ChooseModel \/ ReloadPage
  \/ ConsoleForm \/ ConsoleLoads \/ ConsoleChat \/ DemoChat

\* The pane on its own page; any fetch may end the session.
ChatStart ==
  /\ site \in {"console", "demo"} /\ clicks = 0 /\ session = "in"
  /\ calls = IF site = "console" THEN <<Call("pricing", Nil)>> ELSE <<>>
  /\ ChatTestInit
ChatStep ==
  \/ ChatTestNext
  \/ (\E n \in DOMAIN calls : Denied(n)) /\ UNCHANGED chatVars
ChatSpec == ChatStart /\ [][ChatStep]_<<browserVars, chatVars>>

\* A fetch is settled at the latest when its signal aborts.
SendSettles(n) ==
  \/ ImagesRead(n) \/ ImagesNotRead(n) \/ FallBack(n) \/ SendFails(n) \/ StreamDone(n) \/ TextRead(n)

-----------------------------------------------------------------------------

InFlight == {calls[n].arg.id : n \in {m \in DOMAIN calls : Out(m)}}

\* While a send is out the button is off, so a second one cannot start, through
\* fallbacks, timeouts and reloads of the page.  There is one way around it, in
\* the console only: reference images are read before the button goes off, and
\* reading them ends while another send is out.  Once those sends are over, the
\* next ones are alone again.
OneSendAtATime ==
  /\ ~crossed => Cardinality(InFlight) <= 1 /\ (InFlight # {} => sendButton = "off")
  /\ site = "demo" => ~crossed

\* A model suits a mode if the select offered it there: as a listing has it, or
\* as a row added for a restored model.
Suited(mode, m) ==
  \E row \in (UNION Listings) \cup {[model |-> m, provider |-> "openai"]} :
    row.model = m /\ ModeToCapability(mode) \in Capabilities(row)

\* An item of the console's history, or its recent configuration, of a mode
\* whose requests name their model: the model suits the mode, although the form
\* may be changed while the send is out and items restore models that the price
\* list lacks.  (An item of the Gemini modes has the model that the form held
\* when the answer came, which may suit another mode: nothing is claimed of it.)
HistoryReplays ==
  \A item \in {history[k] : k \in DOMAIN history} \cup ({recent} \ {Nil}) :
    item.mode \notin GeminiModes /\ site = "console" => Suited(item.mode, item.model)
=============================================================================
