---------------------------- MODULE ModelDialogs ----------------------------
(***************************************************************************)
(* The dialogs of the administrator's models: one creates or edits a       *)
(* model, lists what a vendor offers and stages several of it for one      *)
(* batch; the other creates or edits an account of a model.                *)
(***************************************************************************)
EXTENDS Browser

CONSTANTS
  Existing,   \* models that exist, each with an account
  Offered,    \* sequence of the names a vendor offers
  MaxPicks    \* bound: names in the list of what a vendor offers

VARIABLES
  vendorsKnown,     \* providerCatalogCache is filled
  modelModal, modelEditId,  \* the dialog is visible; the model it edits, or Nil
  modelName, nameLocked,    \* its name field; whether it is disabled
  vendor, credential,  \* chosen vendor or Nil; there is a credential, typed or granted
  credentialHidden,    \* the credential is asked for by OAuth instead
  pickList, pickVisible, pickLocked,  \* names listed; their list is visible, disabled
  pickedNames,         \* those selected
  batchStagedModels, stagedBadge,  \* names for a batch; its badge is visible
  upstreamModal, upstreamEditId  \* the account's dialog is visible; the account it edits, or Nil

discoverVars == <<vendor, credential, credentialHidden, pickList, pickVisible, pickLocked, pickedNames>>
stageVars == <<batchStagedModels, stagedBadge>>
nameVars == <<modelName, nameLocked>>
upstreamVars == <<upstreamModal, upstreamEditId>>
dialogVars == <<vendorsKnown, modelModal, modelEditId, nameVars, discoverVars,
                stageVars, upstreamVars>>

Vendors == {"keyed", "oauth"}

DialogInit ==
  /\ vendorsKnown = FALSE
  /\ modelModal = FALSE /\ modelEditId = Nil /\ modelName = "" /\ nameLocked = FALSE
  /\ vendor = Nil /\ credential = FALSE /\ credentialHidden = FALSE
  /\ pickList = <<>> /\ pickVisible = FALSE /\ pickLocked = FALSE /\ pickedNames = {}
  /\ batchStagedModels = {} /\ stagedBadge = FALSE
  /\ upstreamModal = FALSE /\ upstreamEditId = Nil

Covered == modelModal \/ upstreamModal

-----------------------------------------------------------------------------
\* The model's dialog.

Unstage == batchStagedModels' = {} /\ stagedBadge' = FALSE

\* (Mutant: what was staged for a batch is kept.)
EditModelStaged ==
  /\ ~Covered /\ Local
  /\ \E m \in Existing : modelEditId' = m /\ modelName' = m
  /\ nameLocked' = FALSE /\ modelModal' = TRUE
  /\ UNCHANGED <<vendorsKnown, discoverVars, stageVars, upstreamVars>>

\* Editing leaves what the hidden list of names holds.
EditModel ==
  /\ ~Covered /\ Local
  /\ \E m \in Existing : modelEditId' = m /\ modelName' = m
  /\ nameLocked' = FALSE /\ Unstage /\ modelModal' = TRUE
  /\ UNCHANGED <<vendorsKnown, discoverVars, upstreamVars>>

\* A new model: the dialog is emptied at once, and shown when the vendors are
\* known, or cannot be.
AddModel ==
  /\ ~Covered
  /\ modelEditId' = Nil /\ modelName' = "" /\ nameLocked' = FALSE /\ Unstage
  /\ vendor' = Nil /\ credential' = FALSE /\ pickList' = <<>> /\ pickedNames' = {}
  /\ pickVisible' = FALSE /\ pickLocked' = FALSE
  /\ IF vendorsKnown THEN Local /\ modelModal' = TRUE
     ELSE Look(<<Call("vendors", Nil)>>) /\ UNCHANGED modelModal
  /\ UNCHANGED <<vendorsKnown, credentialHidden, upstreamVars>>

VendorsCome(n) ==
  /\ Asked(n, "vendors") /\ Resume(n, <<>>)
  /\ \/ vendorsKnown' = TRUE /\ vendor' = Nil
     \/ UNCHANGED <<vendorsKnown, vendor>>
  /\ modelModal' = TRUE
  /\ UNCHANGED <<modelEditId, nameVars, credential, credentialHidden, pickList, pickVisible,
                 pickLocked, pickedNames, stageVars, upstreamVars>>

HideModelModal ==
  /\ modelModal /\ Local /\ modelModal' = FALSE
  /\ UNCHANGED <<vendorsKnown, modelEditId, nameVars, discoverVars, stageVars, upstreamVars>>

Adding == modelModal /\ modelEditId = Nil

\* A vendor brings its kinds of credential; OAuth hides the field until the
\* popup has answered.
OnProviderCatalogChange ==
  /\ Adding /\ vendorsKnown /\ Local
  /\ vendor' \in Vendors /\ credentialHidden' = (vendor' = "oauth")
  /\ UNCHANGED <<vendorsKnown, modelModal, modelEditId, nameVars, credential, pickList, pickVisible, pickLocked,
                 pickedNames, stageVars, upstreamVars>>

TypeCredential ==
  /\ Adding /\ ~credentialHidden /\ Local /\ credential' = TRUE
  /\ UNCHANGED <<vendorsKnown, modelModal, modelEditId, nameVars, vendor, credentialHidden, pickList, pickVisible,
                 pickLocked, pickedNames, stageVars, upstreamVars>>

OAuthStart ==
  /\ Adding /\ credentialHidden /\ Gesture(<<Call("oauth", Nil)>>)
  /\ UNCHANGED dialogVars

\* The popup's message is taken whenever it comes, whatever the dialog is at.
OAuthMessage(n) ==
  /\ Asked(n, "oauth") /\ Resume(n, <<>>)
  /\ credential' = TRUE /\ credentialHidden' = FALSE
  /\ UNCHANGED <<vendorsKnown, modelModal, modelEditId, nameVars, vendor, pickList, pickVisible, pickLocked,
                 pickedNames, stageVars, upstreamVars>>

\* The list is emptied when names are asked for, and appended to when they come.
RunDiscoverModels ==
  /\ Adding /\ vendor # Nil /\ credential /\ Gesture(<<Call("discover", Nil)>>)
  /\ pickList' = <<>> /\ pickedNames' = {} /\ pickVisible' = FALSE
  /\ UNCHANGED <<vendorsKnown, modelModal, modelEditId, nameVars, vendor, credential, credentialHidden, pickLocked,
                 stageVars, upstreamVars>>

Discovered(n) ==
  /\ Asked(n, "discover") /\ Resume(n, <<>>)
  /\ \E names \in {<<>>, Offered} :
       /\ Len(pickList) + Len(names) <= MaxPicks
       /\ pickList' = pickList \o names /\ pickVisible' = (names # <<>>)
  /\ UNCHANGED <<vendorsKnown, modelModal, modelEditId, nameVars, vendor, credential, credentialHidden, pickLocked,
                 pickedNames, stageVars, upstreamVars>>

\* One name selected goes into the name field.
SyncDiscoverPickToModelName ==
  /\ Adding /\ pickVisible /\ ~pickLocked /\ Local
  /\ \E names \in SUBSET {pickList[k] : k \in DOMAIN pickList} :
       /\ pickedNames' = names
       /\ modelName' \in (IF Cardinality(names) = 1 THEN names ELSE {modelName})
  /\ UNCHANGED <<vendorsKnown, modelModal, modelEditId, nameLocked, vendor, credential, credentialHidden, pickList,
                 pickVisible, pickLocked, stageVars, upstreamVars>>

DiscoverBatchAdd ==
  /\ Adding /\ pickVisible /\ ~pickLocked /\ credential /\ pickedNames # {} /\ Local
  /\ batchStagedModels' = pickedNames /\ stagedBadge' = TRUE
  /\ pickLocked' = TRUE /\ nameLocked' = TRUE
  /\ modelName' \in (IF Cardinality(pickedNames) = 1 THEN pickedNames ELSE {"several"})
  /\ UNCHANGED <<vendorsKnown, modelModal, modelEditId, vendor, credential, credentialHidden, pickList, pickVisible,
                 pickedNames, upstreamVars>>

\* A batch; or the one name that is selected, before what was typed.
NameToSave ==
  IF modelEditId = Nil /\ pickVisible /\ Cardinality(pickedNames) = 1 THEN pickedNames ELSE {modelName}

SaveModel ==
  /\ modelModal
  /\ IF batchStagedModels # {} /\ modelEditId = Nil
     THEN Gesture(<<Call("batchModels", batchStagedModels)>>)
     ELSE Gesture(<<Call("saveModel", NameToSave)>>)
  /\ UNCHANGED dialogVars

\* The answer hides the dialog, be it still the one that was saved or not.
ModelSaved(n) ==
  /\ Asked(n, "batchModels") \/ Asked(n, "saveModel")
  /\ Resume(n, <<>>)
  /\ modelModal' = FALSE
  /\ batchStagedModels' = IF calls[n].op = "batchModels" THEN {} ELSE batchStagedModels
  /\ UNCHANGED <<vendorsKnown, modelEditId, nameVars, discoverVars, stagedBadge, upstreamVars>>

\* A failure is a message in the dialog.
DialogFails(n) ==
  /\ \E op \in {"batchModels", "saveModel", "saveUpstream", "oneUpstream", "oauth", "discover"} : Asked(n, op)
  /\ Resume(n, <<>>)
  /\ UNCHANGED dialogVars

-----------------------------------------------------------------------------
\* The account's dialog.  To edit one its model's accounts are fetched again,
\* and the dialog comes up when they are there, over whatever is shown by then.

NoModelDialog == UNCHANGED <<vendorsKnown, modelModal, modelEditId, nameVars, discoverVars, stageVars>>

OpenUpstreamModal(account) == upstreamModal' = TRUE /\ upstreamEditId' = account

AddUpstream ==
  /\ ~Covered /\ vendorsKnown /\ Local
  /\ OpenUpstreamModal(Nil)
  /\ NoModelDialog

EditModelAccount ==
  /\ ~Covered /\ vendorsKnown
  /\ \E account \in Existing : Gesture(<<Call("oneUpstream", account)>>)
  /\ NoModelDialog /\ UNCHANGED upstreamVars

ModelAccountFound(n) ==
  /\ Asked(n, "oneUpstream") /\ Resume(n, <<>>)
  /\ OpenUpstreamModal(calls[n].arg) \/ UNCHANGED upstreamVars
  /\ NoModelDialog

\* Its fields are filled anew at each opening: they are dropped here.
CloseUpstreamModal == upstreamModal' = FALSE /\ upstreamEditId' = Nil

HideUpstreamModal == upstreamModal /\ Local /\ CloseUpstreamModal /\ NoModelDialog

\* A new account needs a credential.
SaveUpstream ==
  /\ upstreamModal
  /\ (upstreamEditId = Nil /\ Local) \/ Gesture(<<Call("saveUpstream", upstreamEditId)>>)
  /\ NoModelDialog /\ UNCHANGED upstreamVars

UpstreamSaved(n) ==
  /\ Asked(n, "saveUpstream") /\ Resume(n, <<>>) /\ CloseUpstreamModal /\ NoModelDialog

ModelDialog ==
  \/ EditModel \/ AddModel \/ HideModelModal \/ SaveModel
  \/ \E n \in DOMAIN calls : VendorsCome(n) \/ ModelSaved(n)

Discovery ==
  \/ TypeCredential \/ RunDiscoverModels \/ SyncDiscoverPickToModelName \/ DiscoverBatchAdd
  \/ \E n \in DOMAIN calls : Discovered(n)

OAuthPopup == OAuthStart \/ \E n \in DOMAIN calls : OAuthMessage(n)

UpstreamDialog ==
  \/ AddUpstream \/ EditModelAccount \/ HideUpstreamModal \/ SaveUpstream
  \/ \E n \in DOMAIN calls : ModelAccountFound(n) \/ UpstreamSaved(n)

DialogNext ==
  \/ ModelDialog \/ OnProviderCatalogChange \/ Discovery \/ OAuthPopup \/ UpstreamDialog
  \/ \E n \in DOMAIN calls : DialogFails(n)

\* The pane on its own page; any fetch may end the session.
DialogStep ==
  \/ DialogNext
  \/ (\E n \in DOMAIN calls : Denied(n)) /\ UNCHANGED dialogVars
DialogSpec == BrowserInit({"admin"}) /\ DialogInit /\ [][DialogStep]_<<browserVars, dialogVars>>

-----------------------------------------------------------------------------

\* The names that a batch would create are announced by the badge and belong
\* to a new model, with the name field locked: staging, cancelling, editing
\* another model and a late answer of an earlier batch leave none behind.
StagedIsAnnounced ==
  session = "in" /\ batchStagedModels # {} => stagedBadge /\ nameLocked /\ pickLocked /\ modelEditId = Nil
=============================================================================
