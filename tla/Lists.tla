------------------------------- MODULE Lists -------------------------------
(***************************************************************************)
(* A paginated list: its search box, its filters and its page live in the  *)
(* address, each a step of its own behind the other. What is typed reaches *)
(* the address after a pause; the router draws an address a while after it *)
(* has taken it; the answer to the drawn address comes later still, and    *)
(* until then the table keeps the rows it had. Back, a link and another    *)
(* filter may come in between any two of these, and rows go while the user *)
(* is looking, so the page the address names may be past the end.          *)
(***************************************************************************)
EXTENDS Integers, Sequences

CONSTANTS
    MaxMoves,       \* bound on what the user does
    MaxGone         \* bound on rows that go meanwhile

VARIABLES
    tab,            \* the tab: history, drawn address, box, table
    cache,          \* the answers kept, by address: how many rows it had, -1 none
    fetching,       \* the addresses whose answer is on its way
    unread,         \* the addresses whose last read failed
    gone,           \* the rows gone so far
    moves,          \* how often the user did something
    presses,        \* where in the history the user's own presses lead
    meant,          \* the term the user last typed, chose or cleared
    hurried         \* the user did something before an address was drawn

listVars == <<tab, cache, fetching, unread, gone, moves, presses, meant, hurried>>

(* Term 2 is term 1 with a space after it; term 0 is none. Two rows, one   *)
(* of which a term or a filter leaves; a date range back to front is not    *)
(* asked for. A page is one row.                                            *)
Trim(term) == IF term = 2 THEN 1 ELSE term
Searches  == [q : 0 .. 1, filter : {"none", "some", "backToFront"}, page : 1 .. 2]
Home      == [q |-> 0, filter |-> "none", page |-> 1]
Asks(search)  == search.filter # "backToFront"
RowsOf(search) ==
    LET rows == (IF search.q = 0 /\ search.filter = "none" THEN 2 ELSE 1) - gone
    IN  IF rows < 0 THEN 0 ELSE rows
NoTable   == [of |-> Home, rows |-> -1]

ListInit ==
    /\ tab = [history |-> <<Home>>, at |-> 1, search |-> Home, term |-> 0, debounced |-> 0,
               unread |-> FALSE, table |-> NoTable]
    /\ cache = [s \in Searches |-> -1]
    /\ fetching = {Home} /\ unread = {} /\ gone = 0 /\ moves = 0 /\ presses = 1 /\ meant = 0
    /\ hurried = FALSE
-----------------------------------------------------------------------------
Address(l) == l.history[l.at]
Replace(l, address) == [l EXCEPT !.history[l.at] = address]
(* The same address is not put twice.                                       *)
Push(l, address) ==
    IF address = Address(l) THEN l
    ELSE [l EXCEPT !.history = Append(SubSeq(@, 1, l.at), address), !.at = l.at + 1]

(* The box's term reaches the address, on its first page; a term the        *)
(* address has just replaced is still settling and does not.                *)
SettlesOrNot(l) == TRUE                                             \* mutant
Paused(l) == l.debounced = l.term
CommitSearch(l) ==
    IF Paused(l) /\ Trim(l.debounced) # l.search.q
    THEN Replace(l, [Address(l) EXCEPT !.q = Trim(l.debounced), !.page = 1])
    ELSE l
(* The table: the drawn address's answer, or what it showed before.         *)
WithTable(l, answers, lost) ==
    [l EXCEPT !.unread = l.search \in lost,
              !.table = IF Asks(l.search) /\ answers[l.search] # -1
                        THEN [of |-> l.search, rows |-> answers[l.search]] ELSE @]
TableDrawn(l) == Asks(l.search) /\ ~l.unread /\ l.table.rows # -1
PastEnd(l) == TableDrawn(l) /\ l.table.of.page > 1 /\ l.table.rows < l.table.of.page
LastPage(l) == IF l.table.rows < 1 THEN 1 ELSE l.table.rows
(* Past the end it steps back to the last page, in the place of the address.*)
StepsAhead(l) == IF PastEnd(l) THEN Push(l, [Address(l) EXCEPT !.page = LastPage(l)]) ELSE l \* mutant
StepBack(l) ==
    IF PastEnd(l) THEN Replace(l, [Address(l) EXCEPT !.page = LastPage(l)]) ELSE l
Drawn(l) == StepBack(WithTable(l, cache, unread))

Acts ==
    /\ moves < MaxMoves /\ moves' = moves + 1
    /\ hurried' = (hurried \/ tab.search # Address(tab))
ListType(term) ==
    /\ Acts /\ term # tab.term
    /\ tab' = Drawn(CommitSearch([tab EXCEPT !.term = term]))
    /\ meant' = Trim(term)
    /\ UNCHANGED <<cache, fetching, unread, gone, presses>>
ListPause ==
    /\ tab.debounced # tab.term
    /\ tab' = Drawn(CommitSearch([tab EXCEPT !.debounced = tab.term]))
    /\ UNCHANGED <<cache, fetching, unread, gone, moves, presses, meant, hurried>>
SetFilter(filter) ==
    /\ Acts /\ filter # Address(tab).filter
    /\ tab' = Replace(tab, [Address(tab) EXCEPT !.filter = filter, !.page = 1])
    /\ UNCHANGED <<cache, fetching, unread, gone, presses, meant>>
(* From the page the table shows, which may not be the drawn address's.     *)
TurnPage(page) ==
    /\ Acts /\ TableDrawn(tab)
    /\ page \in {tab.table.of.page - 1, tab.table.of.page + 1} /\ page \in 1 .. LastPage(tab)
    /\ tab' = Push(tab, [Address(tab) EXCEPT !.page = page])
    /\ presses' = tab'.at
    /\ UNCHANGED <<cache, fetching, unread, gone, meant>>

(* A term still on its way to the address goes on to the next one.          *)
MeantBy(q) == IF Trim(tab.term) # tab.search.q THEN Trim(tab.term) ELSE q
ListBack ==
    /\ Acts /\ tab.at > 1
    /\ tab' = [tab EXCEPT !.at = @ - 1]
    /\ presses' = presses - 1 /\ meant' = MeantBy(Address(tab').q)
    /\ UNCHANGED <<cache, fetching, unread, gone>>
ListLink ==
    /\ Acts
    /\ tab' = Push(tab, Home)
    /\ presses' = tab'.at /\ meant' = MeantBy(0)
    /\ UNCHANGED <<cache, fetching, unread, gone>>
ClearFilters ==
    /\ Acts /\ tab' = Replace(tab, Home) /\ meant' = MeantBy(0)
    /\ UNCHANGED <<cache, fetching, unread, gone, presses>>

(* The router draws the address it took: the box follows a term that is not *)
(* the one it holds, and the answer is asked for.                           *)
BoxFollows(l) ==
    IF Address(l).q # l.search.q /\ Trim(l.term) # Address(l).q
    THEN [l EXCEPT !.term = Address(l).q] ELSE l
RouterDraws ==
    /\ tab.search # Address(tab)
    /\ tab' = Drawn(CommitSearch([BoxFollows(tab) EXCEPT !.search = Address(tab)]))
    /\ fetching' = IF Asks(tab'.search) /\ cache[tab'.search] = -1
                THEN fetching \cup {tab'.search} ELSE fetching
    /\ UNCHANGED <<cache, unread, gone, moves, presses, meant, hurried>>
ListAnswer(search) ==
    /\ search \in fetching /\ fetching' = fetching \ {search} /\ unread' = unread \ {search}
    /\ cache' = [cache EXCEPT ![search] = RowsOf(search)]
    /\ tab' = StepBack(WithTable(tab, cache', unread'))
    /\ UNCHANGED <<gone, moves, presses, meant, hurried>>
ListFails(search) ==
    /\ search \in fetching /\ fetching' = fetching \ {search} /\ unread' = unread \cup {search}
    /\ tab' = WithTable(tab, cache, unread')
    /\ UNCHANGED <<cache, gone, moves, presses, meant, hurried>>
(* The tab is looked at again, the error's button pressed.                  *)
RowsReadAgain ==
    /\ Asks(tab.search) /\ tab.search \notin fetching
    /\ fetching' = fetching \cup {tab.search}
    /\ UNCHANGED <<tab, cache, unread, gone, moves, presses, meant, hurried>>
RowGoes ==
    /\ gone < MaxGone /\ gone' = gone + 1
    /\ UNCHANGED <<tab, cache, fetching, unread, moves, presses, meant, hurried>>

ListNext ==
    \/ \E term \in 0 .. 2 : ListType(term)
    \/ \E filter \in {"none", "some", "backToFront"} : SetFilter(filter)
    \/ \E page \in 1 .. 2 : TurnPage(page)
    \/ ListPause \/ ListBack \/ ListLink \/ ClearFilters \/ RouterDraws
    \/ \E search \in Searches : ListAnswer(search) \/ ListFails(search)
    \/ RowsReadAgain \/ RowGoes
ListSpec == ListInit /\ [][ListNext]_listVars
-----------------------------------------------------------------------------
AtPause ==
    tab.term = tab.debounced /\ tab.search = Address(tab) /\ tab.search \notin fetching

(* However typing, Back, links, filters and late answers come together, the *)
(* history holds what the user's own presses put there, so that Back leads  *)
(* to the entry before; and once nothing is on its way the table shows the  *)
(* address's own answer. Unless the user did something in the moment an     *)
(* address was taken and not yet drawn, that is not past its end, and the   *)
(* box holds the address's term, the one last typed, chosen or cleared.     *)
(* (use-list-route.ts, use-search-input.ts, data-table.tsx, page-query.ts)   *)
ListSettlesOnItsAddress ==
    /\ tab.at = presses
    /\ AtPause =>
          /\ Asks(tab.search) => tab.unread \/ TableDrawn(tab)
          /\ TableDrawn(tab) => tab.table.of = tab.search
          /\ ~hurried => ~PastEnd(tab) /\ Trim(tab.term) = tab.search.q
                         /\ tab.search.q = meant
=============================================================================
