------------------------------ MODULE DocsPage ------------------------------
(***************************************************************************)
(* The documentation page, whose examples carry a key of the user; the     *)
(* language of a page; and the "copy" buttons of this page and of the      *)
(* others, which say "copied" for 1200 ms.                                 *)
(***************************************************************************)
EXTENDS Browser

CONSTANTS
  Keys,        \* tokens whose key localStorage holds
  MaxTimers,   \* bound: clicks whose 1200 ms run at once
  ZhTexts, EnTexts  \* keys of the two dictionaries

VARIABLES
  lang,        \* localStorage: "zh" or "en"
  buttonKind,  \* the copy button looked at
  label,       \* what it says
  labelTimers, \* for each click: what it said before
  docsOptions, docsPicked,  \* token select: options and value, Nil for "-"
  selectedPlainToken,       \* the script's copy of the value
  docsCode,    \* key in the code blocks; Nil is the placeholder
  docsModels   \* the table of models: "", "list", "empty" or "error"

docsVars == <<lang, buttonKind, label, labelTimers,
              docsOptions, docsPicked, selectedPlainToken, docsCode, docsModels>>

Dictionary(l) == IF l = "en" THEN EnTexts ELSE ZhTexts

\* A key the language lacks is taken from Chinese, one that lacks there too
\* stands for itself.
Translated(l, key) ==
  IF key \in Dictionary(l) THEN <<l, key>>
  ELSE IF key \in ZhTexts THEN <<"zh", key>> ELSE <<key>>

ButtonKinds == {"token", "fresh", "pricing", "docs"}
Marked == {"fresh", "docs"}  \* has a data-i18n mark

\* A pricing button is named after its model, in no language.
CopyLabel(kind, l) == IF kind = "pricing" THEN <<"model">> ELSE Translated(l, "copy")

DocsInit(kinds) ==
  /\ lang = "zh" /\ buttonKind \in kinds
  /\ label = CopyLabel(buttonKind, "zh") /\ labelTimers = <<>>
  /\ docsOptions = {} /\ docsPicked = Nil /\ selectedPlainToken = Nil /\ docsCode = Nil
  /\ docsModels = ""

UnchangedDocs == UNCHANGED <<docsOptions, docsPicked, selectedPlainToken, docsCode, docsModels>>

-----------------------------------------------------------------------------
\* Language and copy buttons.

\* applyI18n translates every marked node again, a button that says "copied"
\* included; the code blocks are drawn again as well.
SetLang ==
  /\ Local /\ lang' \in {"zh", "en"} \ {lang}
  /\ label' = IF buttonKind \in Marked THEN CopyLabel(buttonKind, lang') ELSE label
  /\ docsCode' = selectedPlainToken
  /\ UNCHANGED <<buttonKind, labelTimers, docsOptions, docsPicked, selectedPlainToken, docsModels>>

CopyToClipboard ==
  /\ Local /\ Len(labelTimers) < MaxTimers
  /\ label' = Translated(lang, "copied")
  /\ labelTimers' = Append(labelTimers, label)
  /\ UNCHANGED <<lang, buttonKind>> /\ UnchangedDocs

\* (Mutant: every button restores what it said when it was clicked.)
LabelBackSaved ==
  /\ Local /\ labelTimers # <<>>
  /\ label' = Head(labelTimers)
  /\ labelTimers' = Tail(labelTimers)
  /\ UNCHANGED <<lang, buttonKind>> /\ UnchangedDocs

\* The documentation restores what the button said when it was clicked, the
\* other pages what such a button says.
LabelBack ==
  /\ Local /\ labelTimers # <<>>
  /\ label' = IF buttonKind = "docs" THEN Head(labelTimers) ELSE CopyLabel(buttonKind, lang)
  /\ labelTimers' = Tail(labelTimers)
  /\ UNCHANGED <<lang, buttonKind>> /\ UnchangedDocs

-----------------------------------------------------------------------------
\* The documentation page.  It ignores a 401.

OpenDocs ==
  /\ docsModels = "" /\ calls = <<>> /\ buttonKind = "docs"
  /\ Gesture(<<Call("docsTokens", Nil), Call("docsPricing", Nil)>>)
  /\ UNCHANGED docsVars

RenderAllCodeBlocks(key) == selectedPlainToken' = key /\ docsCode' = key

\* Only tokens whose key is known become options; the first one is selected.
\* After a failure, or without options, the select holds a dash.
LoadTokensForDocs(n) ==
  /\ Asked(n, "docsTokens") /\ Resume(n, <<>>)
  /\ \/ \E held \in SUBSET Keys \ {{}} :
          /\ docsOptions' = held /\ docsPicked' \in held
          /\ RenderAllCodeBlocks(docsPicked')
     \/ /\ docsOptions' = {} /\ docsPicked' = Nil
        /\ RenderAllCodeBlocks(selectedPlainToken)
  /\ UNCHANGED <<lang, buttonKind, label, labelTimers, docsModels>>

PickDocsToken ==
  /\ Local /\ docsPicked' \in docsOptions \ {docsPicked}
  /\ RenderAllCodeBlocks(docsPicked')
  /\ UNCHANGED <<lang, buttonKind, label, labelTimers, docsOptions, docsModels>>

\* Prices without rows, or a refusal, lead to the gateway's list of models.
LoadModelsForDocs(n) ==
  /\ \/ Asked(n, "docsPricing") /\ Resume(n, <<>>) /\ docsModels' \in {"list", "error"}
     \/ Asked(n, "docsPricing") /\ Resume(n, <<Call("docsGateway", Nil)>>) /\ UNCHANGED docsModels
     \/ Asked(n, "docsGateway") /\ Resume(n, <<>>) /\ docsModels' \in {"list", "empty", "error"}
  /\ UNCHANGED <<lang, buttonKind, label, labelTimers, docsOptions, docsPicked, selectedPlainToken, docsCode>>

DocsHandlers ==
  \/ OpenDocs \/ PickDocsToken
  \/ \E n \in DOMAIN calls : LoadTokensForDocs(n) \/ LoadModelsForDocs(n)

ConsoleDocs == site = "console" /\ DocsHandlers
DemoDocs == site = "demo" /\ DocsHandlers

DocsNext == SetLang \/ CopyToClipboard \/ LabelBack \/ ConsoleDocs \/ DemoDocs

\* The page on its own, or another with such a button.
DocsSpec == BrowserInit({"console", "demo"}) /\ DocsInit(ButtonKinds) /\ [][DocsNext]_<<browserVars, docsVars>>

-----------------------------------------------------------------------------

\* A button does not go on saying "copied" once the last 1200 ms have passed,
\* whatever clicks and language switches fell into them.  On the documentation
\* page a second click breaks this.
CopiedGoesAway ==
  labelTimers = <<>> /\ buttonKind # "docs" =>
    label \in {CopyLabel(buttonKind, l) : l \in {"zh", "en"}}

\* The examples carry the key of the token that the select shows, through the
\* late list of tokens, its failure, choices and language switches.
CodeShowsPicked == docsCode = docsPicked

=============================================================================
