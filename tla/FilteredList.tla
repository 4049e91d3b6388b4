----------------------------- MODULE FilteredList -----------------------------
(***************************************************************************)
(* A list that is filtered and paged by the server, as the screens of      *)
(* dispatches and of associates keep it: an effect of the filters, the     *)
(* page and a refresh token asks for the page after a pause of 200 ms, and *)
(* its cleanup aborts what was asked before.  The server reads the count   *)
(* and the rows in two queries of their own (Promise.all), while other     *)
(* operators and the worker change the table.                              *)
(*                                                                         *)
(*   table     what each item is now, as far as a filter tells             *)
(*   screen    filters, page, data of the page on the screen, flags        *)
(*   requests  what the effect has asked and not aborted                   *)
(*                                                                         *)
(* A filter is the set of kinds it lets through.  Items are in the order   *)
(* of the list; the sort key is one more filter that keeps every item, and *)
(* is left out like the totals and the options of the menus.               *)
(***************************************************************************)
EXTENDS Integers, FiniteSets

CONSTANTS
  Items,     \* rows of the base, numbered in the order of the list
  Kinds,     \* what the filters tell apart
  Filters,   \* the filters the operator may choose, subsets of Kinds
  PageSize

ASSUME ListAssumption ==
  /\ Items \subseteq Nat /\ IsFiniteSet(Items)
  /\ Filters \subseteq SUBSET Kinds
  /\ PageSize \in Nat \ {0}

VARIABLES table, screen, requests

listVars == <<table, screen, requests>>

Unread == -1

-----------------------------------------------------------------------------
(* getDispatchPage, getAssociadosCardPage *)

Filtered(filter) == {i \in Items : table[i] \in filter}

\* limit PageSize offset (page - 1) * PageSize
RowsOf(filter, page) ==
  LET rank(i) == Cardinality({j \in Filtered(filter) : j <= i})
  IN {i \in Filtered(filter) : (page - 1) * PageSize < rank(i) /\ rank(i) <= page * PageSize}

CeilDiv(n, d) == (n + d - 1) \div d
PageCount == LET pages == CeilDiv(screen.shown.count, PageSize)
             IN IF pages = 0 THEN 1 ELSE pages
CurrentPage == IF screen.page <= PageCount THEN screen.page ELSE PageCount

-----------------------------------------------------------------------------
(* The effect *)

Fresh(filter, page) ==
  [st |-> "timer", filter |-> filter, page |-> page, count |-> Unread, rows |-> {}, read |-> FALSE]

\* Mutant: the cleanup clears the timer and lets a request answer.
TimersCleared == {r \in requests : r.st = "sent"}

\* controller.abort() and clearTimeout.
Cleanup == {}

Reload(filter, page) ==
  /\ screen' = [screen EXCEPT !.filter = filter, !.page = page,
                              !.loading = TRUE, !.failed = FALSE]
  /\ requests' = Cleanup \cup {Fresh(filter, page)}

\* A state that is set to what it is makes no render.
Choose(filter, page) ==
  IF filter = screen.filter /\ page = screen.page
  THEN UNCHANGED <<screen, requests>>
  ELSE Reload(filter, page)

\* The first page comes with the document and is not asked for.
ListInit(filter) ==
  /\ screen = [filter |-> filter, page |-> 1, loading |-> FALSE, failed |-> FALSE,
               shown |-> [filter |-> filter, page |-> 1,
                          count |-> Cardinality(Filtered(filter)), rows |-> RowsOf(filter, 1)]]
  /\ requests = {}

\* router.refresh: a new first page changes the token, not what is shown.
Refresh == Reload(screen.filter, screen.page)

-----------------------------------------------------------------------------
(* A request *)

Replace(r, new) == requests' = (requests \ {r}) \cup {new}

TimerFires(r) ==
  /\ r.st = "timer"
  /\ Replace(r, [r EXCEPT !.st = "sent"])
  /\ UNCHANGED screen

CountQuery(r) ==
  /\ r.st = "sent" /\ r.count = Unread
  /\ Replace(r, [r EXCEPT !.count = Cardinality(Filtered(r.filter))])
  /\ UNCHANGED screen

RowsQuery(r) ==
  /\ r.st = "sent" /\ ~r.read
  /\ Replace(r, [r EXCEPT !.read = TRUE, !.rows = RowsOf(r.filter, r.page)])
  /\ UNCHANGED screen

Arrives(r) ==
  /\ r.st = "sent" /\ r.count # Unread /\ r.read
  /\ requests' = requests \ {r}
  /\ screen' = [screen EXCEPT !.loading = FALSE, !.failed = FALSE,
                  !.shown = [filter |-> r.filter, page |-> r.page,
                             count |-> r.count, rows |-> r.rows]]

\* The old data stay behind an error.
Fails(r) ==
  /\ r.st = "sent"
  /\ requests' = requests \ {r}
  /\ screen' = [screen EXCEPT !.loading = FALSE, !.failed = TRUE]

Answer == \E r \in requests :
  TimerFires(r) \/ CountQuery(r) \/ RowsQuery(r) \/ Arrives(r) \/ Fails(r)

-----------------------------------------------------------------------------
(* What the buttons look at *)

Ready == ~screen.loading /\ ~screen.failed

ListedRows == IF screen.failed THEN {} ELSE screen.shown.rows

-----------------------------------------------------------------------------
(* Properties *)

ListTypeOK ==
  /\ table \in [Items -> Kinds]
  /\ screen.filter \in Filters /\ screen.page \in Nat \ {0}
  /\ Cardinality(requests) <= 1

\* A list that does not say it is loading or has failed shows the filters and
\* the page that are on the screen, in whatever order the requests end
\* ("AbortController evita que uma resposta antiga sobrescreva a busca mais recente").
ListFollowsFilters ==
  Ready => screen.shown.filter = screen.filter /\ screen.shown.page = screen.page

\* The label "Pagina ${currentPage} de ${pageCount}" names the page of the rows
\* that are listed under it.
LabelNamesTheRows == Ready => screen.shown.page = CurrentPage
=============================================================================
