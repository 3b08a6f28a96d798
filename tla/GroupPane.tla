----------------------------- MODULE GroupPane -----------------------------
(***************************************************************************)
(* The token groups of the administrator's page: their table, the dialog   *)
(* that links model accounts to a group, and the catalogue of all accounts *)
(* that it and the monitor look names up in.                               *)
(***************************************************************************)
EXTENDS Browser

CONSTANTS
  Groups,      \* 1 .. the number of groups
  Upstreams    \* 1 .. the number of accounts, of one model each

VARIABLES
  links,           \* server: the accounts linked to each group
  madeGroups,      \* server: groups that exist
  upstreamCatalog, \* the catalogue: accounts in the order they were appended
  groupTable,      \* rows of the table: a group, how many links it counted, its handlers
  tgLinksGroupId,  \* the dialog's hidden field
  tgLinksTable,    \* the dialog's table: whose it is, and the accounts in it
  tgLinksSelect,   \* what the dialog offers to link
  tgLinksModal,    \* the dialog is visible
  tokenGroupModal, \* so is the one that creates a group
  linksOpened, linksDrawn  \* number of the opening begun last, drawn last

groupVars == <<links, madeGroups, upstreamCatalog, groupTable, tgLinksGroupId, tgLinksTable,
               tgLinksSelect, tgLinksModal, tokenGroupModal, linksOpened, linksDrawn>>
linkDialog == <<tgLinksGroupId, tgLinksTable, tgLinksSelect, tgLinksModal, linksOpened, linksDrawn>>

\* The server lists groups and models by descending ids
\* (token_group_repo.go:48, model_repo.go:86).
Descending(ids) == LET Above(i) == Cardinality({j \in ids : j >= i})
                   IN [k \in 1 .. Cardinality(ids) |-> CHOOSE i \in ids : Above(i) = k]

GroupInit ==
  /\ links = [g \in Groups |-> {}] /\ madeGroups = {1, 2}
  /\ upstreamCatalog = <<2, 1>>
  /\ groupTable = [k \in 1 .. 2 |-> [group |-> 3 - k, count |-> 0, handlers |-> 1]]
  /\ tgLinksGroupId = Nil /\ tgLinksTable = [group |-> Nil, ids |-> {}] /\ tgLinksSelect = {}
  /\ tgLinksModal = FALSE /\ tokenGroupModal = FALSE /\ linksOpened = 0 /\ linksDrawn = 0

-----------------------------------------------------------------------------
\* rebuildUpstreamCatalog empties the catalogue at once and appends to it after
\* each answer; nothing keeps two of them apart.

Rebuild(opening) == Call("catalogue", [opening |-> opening, todo |-> Descending(Upstreams)])

CatalogueAccount(n) ==
  LET opening == calls[n].arg.opening  todo == calls[n].arg.todo
  IN /\ Asked(n, "catalogue")
     /\ upstreamCatalog' = Append(upstreamCatalog, Head(todo))
     /\ Resume(n, <<IF Len(todo) > 1 THEN Call("catalogue", [opening |-> opening, todo |-> Tail(todo)])
                    ELSE Call("links", opening)>>)
     /\ UNCHANGED <<links, madeGroups, groupTable, tokenGroupModal>> /\ UNCHANGED linkDialog

-----------------------------------------------------------------------------
\* The dialog of a group's links.  Its hidden field is set before the awaits,
\* table and offers after them.  "then" reloads the table of groups.

Opening(g, then) == [group |-> g, number |-> linksOpened + 1, then |-> then]

OpenTgLinksModal(g) ==
  /\ tgLinksGroupId' = g /\ upstreamCatalog' = <<>> /\ linksOpened' = linksOpened + 1

ClickLinks ==
  /\ ~tgLinksModal /\ ~tokenGroupModal
  /\ \E k \in DOMAIN groupTable :
       /\ groupTable[k].handlers > 0 /\ OpenTgLinksModal(groupTable[k].group)
       /\ Gesture([h \in 1 .. groupTable[k].handlers |-> Rebuild(Opening(groupTable[k].group, FALSE))])
  /\ UNCHANGED <<links, madeGroups, groupTable, tgLinksTable, tgLinksSelect, tgLinksModal, tokenGroupModal, linksDrawn>>

AllGroups(then) == IF then THEN <<Call("groups", Nil)>> ELSE <<>>

\* (Mutant: linked accounts are offered again.)
SyncTgLinksSelectAll(ids) == {upstreamCatalog[k] : k \in DOMAIN upstreamCatalog}

\* The catalogue offered is the one of this moment, whoever is rebuilding it.
SyncTgLinksSelect(ids) == {upstreamCatalog[k] : k \in DOMAIN upstreamCatalog} \ ids

LinksDrawn(n) ==
  /\ Asked(n, "links") /\ Resume(n, AllGroups(calls[n].arg.then))
  /\ tgLinksTable' = [group |-> calls[n].arg.group, ids |-> links[calls[n].arg.group]]
  /\ tgLinksSelect' = SyncTgLinksSelect(tgLinksTable'.ids)
  /\ tgLinksModal' = TRUE /\ linksDrawn' = calls[n].arg.number
  /\ UNCHANGED <<links, madeGroups, upstreamCatalog, groupTable, tokenGroupModal, tgLinksGroupId, linksOpened>>

HideLinks ==
  /\ tgLinksModal /\ Local /\ tgLinksModal' = FALSE
  /\ UNCHANGED <<links, madeGroups, upstreamCatalog, groupTable, tokenGroupModal>>
  /\ UNCHANGED <<tgLinksGroupId, tgLinksTable, tgLinksSelect, linksOpened, linksDrawn>>

\* Linking goes to the group of the hidden field, unlinking to the group whose
\* table was drawn.
AddTgUpstream ==
  /\ tgLinksModal
  /\ \E u \in tgLinksSelect : Gesture(<<Call("link", [group |-> tgLinksGroupId, account |-> u])>>)
  /\ UNCHANGED groupVars

RemoveTgUpstream ==
  /\ tgLinksModal
  /\ \E u \in tgLinksTable.ids : Gesture(<<Call("unlink", [group |-> tgLinksTable.group, account |-> u])>>)
  /\ UNCHANGED groupVars

\* The change, its answer, and the dialog opened again for the same group.
LinkChanged(n) ==
  LET g == calls[n].arg.group
  IN /\ \/ Asked(n, "link") /\ links' = [links EXCEPT ![g] = @ \cup {calls[n].arg.account}]
        \/ Asked(n, "unlink") /\ links' = [links EXCEPT ![g] = @ \ {calls[n].arg.account}]
     /\ OpenTgLinksModal(g) /\ Resume(n, <<Rebuild(Opening(g, TRUE))>>)
     /\ UNCHANGED <<madeGroups, groupTable, tgLinksTable, tgLinksSelect, tgLinksModal, tokenGroupModal, linksDrawn>>

-----------------------------------------------------------------------------
\* The table of groups: emptied when the list is there, then filled row by row.

LoadTokenGroups(n) ==
  /\ Asked(n, "groups") /\ groupTable' = <<>>
  /\ Resume(n, IF madeGroups = {} THEN <<>> ELSE <<Call("count", Descending(madeGroups))>>)
  /\ UNCHANGED <<links, madeGroups, upstreamCatalog, tokenGroupModal>> /\ UNCHANGED linkDialog

\* After its last row a load gives every row of the table a handler.
WithHandlers(rows, last) ==
  IF last THEN [k \in DOMAIN rows |-> [rows[k] EXCEPT !.handlers = @ + 1]] ELSE rows

GroupRow(n) ==
  LET g == Head(calls[n].arg)
  IN /\ Asked(n, "count")
     /\ \E count \in {Cardinality(links[g]), Nil} :
          groupTable' = WithHandlers(Append(groupTable, [group |-> g, count |-> count, handlers |-> 0]), Len(calls[n].arg) = 1)
     /\ Resume(n, IF Len(calls[n].arg) > 1 THEN <<Call("count", Tail(calls[n].arg))>> ELSE <<>>)
     /\ UNCHANGED <<links, madeGroups, upstreamCatalog, tokenGroupModal>> /\ UNCHANGED linkDialog

AddTokenGroup ==
  /\ ~tgLinksModal /\ tokenGroupModal' = ~tokenGroupModal /\ Local
  /\ UNCHANGED <<links, madeGroups, upstreamCatalog, groupTable>> /\ UNCHANGED linkDialog

SaveTokenGroup ==
  /\ tokenGroupModal /\ Gesture(<<Call("newGroup", Nil)>>)
  /\ UNCHANGED groupVars

TokenGroupSaved(n) ==
  /\ Asked(n, "newGroup") /\ Groups \ madeGroups # {}
  /\ madeGroups' = madeGroups \cup {CHOOSE g \in Groups \ madeGroups : \A h \in Groups \ madeGroups : g <= h}
  /\ tokenGroupModal' = FALSE /\ Resume(n, <<Call("groups", Nil)>>)
  /\ UNCHANGED <<links, upstreamCatalog, groupTable>> /\ UNCHANGED linkDialog

\* A fetch that fails ends its handler, with a message at most; its change may
\* have been carried out.
GroupFails(n) ==
  /\ \E op \in {"catalogue", "links", "link", "unlink", "groups", "newGroup"} : Asked(n, op)
  /\ Resume(n, <<>>)
  /\ links' \in {links} \cup (CASE calls[n].op = "link" -> {[links EXCEPT ![calls[n].arg.group] = @ \cup {calls[n].arg.account}]}
                                [] calls[n].op = "unlink" -> {[links EXCEPT ![calls[n].arg.group] = @ \ {calls[n].arg.account}]}
                                [] OTHER -> {})
  /\ UNCHANGED <<madeGroups, upstreamCatalog, groupTable, tokenGroupModal>> /\ UNCHANGED linkDialog

LinksDialog ==
  \/ ClickLinks \/ HideLinks \/ AddTgUpstream \/ RemoveTgUpstream
  \/ \E n \in DOMAIN calls : CatalogueAccount(n) \/ LinksDrawn(n) \/ LinkChanged(n)

TokenGroups ==
  \/ AddTokenGroup \/ SaveTokenGroup
  \/ \E n \in DOMAIN calls : LoadTokenGroups(n) \/ GroupRow(n) \/ TokenGroupSaved(n)

GroupNext == LinksDialog \/ TokenGroups \/ \E n \in DOMAIN calls : GroupFails(n)

\* The pane on its own page; any fetch may end the session.
GroupStep ==
  \/ GroupNext
  \/ (\E n \in DOMAIN calls : Denied(n)) /\ UNCHANGED groupVars
GroupSpec == BrowserInit({"admin"}) /\ GroupInit /\ [][GroupStep]_<<browserVars, groupVars>>

-----------------------------------------------------------------------------

\* Once every answer is in, and the opening drawn last is the one begun last,
\* the dialog's table, its offers and the group that "add" links to belong
\* together, and nothing offered is in the table.  Two
\* openings, changes and their reopenings may overlap.
LinksDialogTells ==
  Quiet /\ tgLinksModal /\ linksDrawn = linksOpened =>
    /\ tgLinksTable.group = tgLinksGroupId
    /\ tgLinksSelect \cap tgLinksTable.ids = {}
=============================================================================
