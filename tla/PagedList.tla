----------------------------- MODULE PagedList -----------------------------
(***************************************************************************)
(* The paged lists of both consoles: usage and balance logs of a user;     *)
(* users, redeem codes, usage logs and balance logs of an administrator.   *)
(* They differ in what a failed load does and in whether "next" looks at   *)
(* the number of pages.                                                    *)
(***************************************************************************)
EXTENDS Browser

CONSTANTS
  Lists,     \* the lists looked at, of AppLists \cup AdminLists
  Totals,    \* row counts the server may answer with
  PageSizes  \* sizes a page may have

AppLists == {"usage", "balance"}
AdminLists == {"users", "redeem", "usageLogs", "adminBalance"}

VARIABLES
  list,        \* the list this behaviour looks at
  page, size, total,  \* the module-level state of the script
  newest,      \* number of the load sent last
  drawn,       \* the rows on the page: number and page of the load that gave them
  pager        \* the pager as drawn: its page, and its two buttons

pagedVars == <<list, page, size, total, newest, drawn, pager>>

Pages(rows, perPage) == IF rows = 0 THEN 1 ELSE (rows + perPage - 1) \div perPage

\* (Mutant: every list names the page it asked for.)
RenderPagerAsked(asked, rows) ==
  [page |-> asked, prevOff |-> page <= 1, nextOff |-> page >= Pages(rows, size)]

\* What is drawn under the table; the redeem list names the page it asked for.
RenderPager(asked, rows) ==
  [page |-> IF list = "redeem" THEN asked ELSE page,
   prevOff |-> page <= 1,
   nextOff |-> page >= Pages(rows, size)]

PagedInit(lists) ==
  /\ list \in lists
  /\ page = 1 /\ size = 1 /\ total = 2 /\ newest = 0
  /\ drawn = [load |-> 0, page |-> 1]
  /\ pager = [page |-> 1, prevOff |-> TRUE, nextOff |-> FALSE]

Load(p) == Call("list", [load |-> newest + 1, page |-> p])

Turn(p) ==
  /\ page' = p /\ newest' = newest + 1
  /\ Gesture(<<Load(p)>>)
  /\ UNCHANGED <<list, total, drawn, pager>>

\* The user's lists test the page against the last total known; those of the
\* administrator rely on the button being disabled.
AppPager ==
  /\ list \in AppLists
  /\ \/ ~pager.prevOff /\ page > 1 /\ Turn(page - 1)
     \/ ~pager.nextOff /\ page < Pages(total, size) /\ Turn(page + 1)
     \/ \E v \in 1 .. Pages(total, size) : Turn(v)  \* jump
  /\ UNCHANGED size

AdminPager ==
  /\ list \in AdminLists
  /\ \/ ~pager.prevOff /\ page > 1 /\ Turn(page - 1)
     \/ ~pager.nextOff /\ Turn(page + 1)
  /\ UNCHANGED size

\* A search, a filter or another page size starts again at page 1; a refresh
\* (also the one after a redemption) stays on the page.
Restart ==
  /\ \/ list \in AppLists /\ size' \in PageSizes /\ Turn(1)
     \/ list \in AdminLists /\ UNCHANGED size /\ Turn(1)
     \/ UNCHANGED size /\ Turn(page)

\* Creating a batch of codes returns to page 1 when its answer arrives.
BatchRedeem ==
  /\ list = "redeem" /\ Gesture(<<Call("batch", Nil)>>)
  /\ UNCHANGED pagedVars

BatchCreated(n) ==
  /\ Asked(n, "batch")
  /\ \/ /\ page' = 1 /\ newest' = newest + 1
        /\ Resume(n, <<Load(1)>>)
        /\ UNCHANGED <<list, size, total, drawn, pager>>
     \/ Resume(n, <<>>) /\ UNCHANGED pagedVars

\* The answer is drawn under the page and the size the script holds now.
Drawn(n, rows) ==
  /\ Asked(n, "list")
  /\ total' = rows
  /\ drawn' = calls[n].arg
  /\ pager' = RenderPager(calls[n].arg.page, rows)
  /\ Resume(n, <<>>)
  /\ UNCHANGED <<list, page, size, newest>>

Answers(n) == \E rows \in Totals : Drawn(n, rows)
Unheard(n) == Asked(n, "list") /\ Resume(n, <<>>) /\ UNCHANGED pagedVars

\* Only the usage list catches a failed load, and draws it as an empty list.
LoadUsage(n) == list = "usage" /\ (Answers(n) \/ Drawn(n, 0))
LoadBalanceLogs(n) == list = "balance" /\ (Answers(n) \/ Unheard(n))
LoadUsers(n) == list = "users" /\ (Answers(n) \/ Unheard(n))
LoadRedeemList(n) == list = "redeem" /\ (Answers(n) \/ Unheard(n))
LoadUsageLogs(n) == list = "usageLogs" /\ (Answers(n) \/ Unheard(n))
LoadAdminBalanceLogs(n) == list = "adminBalance" /\ (Answers(n) \/ Unheard(n))

PagedNext ==
  \/ AppPager \/ AdminPager \/ Restart \/ BatchRedeem
  \/ \E n \in DOMAIN calls :
       \/ LoadUsage(n) \/ LoadBalanceLogs(n) \/ LoadUsers(n) \/ LoadRedeemList(n)
       \/ LoadUsageLogs(n) \/ LoadAdminBalanceLogs(n) \/ BatchCreated(n)

\* A list on its own page; any fetch may end the session.
PagedStep ==
  \/ PagedNext
  \/ (\E n \in DOMAIN calls : Denied(n)) /\ UNCHANGED pagedVars
PagedSpec == BrowserInit({"console", "admin"}) /\ PagedInit(Lists) /\ [][PagedStep]_<<browserVars, pagedVars>>

-----------------------------------------------------------------------------

\* When every answer is in, the pager names the page the script is on and the
\* rows are that page's, if the answer drawn last is the one asked for last;
\* "previous" is then enabled on every page but the first, even on a page
\* beyond the end that a stale total let the user reach.  The usage list is
\* drawn with its page after every answer, failed or overtaken ones included.
PagerTells ==
  Quiet => /\ drawn.load = newest => /\ pager.page = page /\ drawn.page = page
                                     /\ pager.prevOff <=> page = 1
           /\ list = "usage" => pager.page = page

=============================================================================
