----------------------------- MODULE SearchPage -----------------------------
(***************************************************************************)
(* The search page (app/search/page.tsx): searches that are answered out   *)
(* of order, the request counter that drops the stale answers, and the     *)
(* form, the page number and the address that go with them.                *)
(*                                                                         *)
(* A query stands for the text, the store, the type, the tag and the mode  *)
(* together.  The page is mounted once the sign-in is known (AuthGate).    *)
(* localStorage is taken to have room.                                     *)
(***************************************************************************)
EXTENDS Naturals

CONSTANTS
    Queries,        \* what can be searched for
    NoQuery,        \* an empty form
    MaxSearches,    \* bound: searches in a behaviour
    MaxPage         \* bound: pages of a result

ASSUME SearchAssumption ==
    /\ NoQuery \notin Queries
    /\ MaxSearches \in Nat /\ MaxPage \in Nat \ {0}

Terms == Queries \cup {NoQuery}
PageNumbers == 1..MaxPage

VARIABLES
    searchRequestId,    \* searchRequestIdRef
    searches,           \* calls of search() that wait for an answer
    searchStatus,       \* state.status
    allRecords,         \* the query whose records the page holds
    searchForm, currentPage,
    address,            \* the query and the page in the URL
    mounted,
    searchedFor         \* what search() was last called with

screenVars == <<searchStatus, allRecords>>
formVars   == <<searchForm, currentPage, address>>
searchVars == <<searchRequestId, searches, screenVars, formVars, mounted, searchedFor>>

\* awaits: api.search, then api.suggestions.
Searches == [id : Nat \ {0}, query : Queries, page : PageNumbers, awaits : {"results", "suggestions"}]

SearchInit ==
    /\ searchRequestId = 0 /\ searches = {}
    /\ searchStatus = "idle" /\ allRecords = NoQuery
    /\ address \in [query : Terms, page : PageNumbers]
    /\ searchForm = address.query /\ currentPage = address.page
    /\ mounted = FALSE
    /\ searchedFor = NoQuery

-----------------------------------------------------------------------------
Sent(id, q, page) == [id |-> id, query |-> q, page |-> page, awaits |-> "results"]

\* A call of search(): an empty one makes the page idle, any other loads.
Search(q, page) ==
    /\ searchRequestId < MaxSearches
    /\ searchRequestId' = searchRequestId + 1
    /\ searchedFor' = q
    /\ IF q = NoQuery
       THEN /\ searchStatus' = "idle" /\ allRecords' = NoQuery
            /\ UNCHANGED searches
       ELSE /\ searchStatus' = "loading"
            /\ searches' = searches \cup {Sent(searchRequestId + 1, q, page)}
            /\ UNCHANGED allRecords

\* The two effects of the first render, on a URL that names a query: both
\* search for it, the restoring one first and always for its first page.  Of a
\* user who does not have the context recorded, it empties the form instead.
MountFromAddress ==
    /\ address.query /= NoQuery
    /\ \/ /\ MaxSearches >= 2
          /\ searchRequestId' = 2
          /\ searches' = {Sent(1, address.query, 1), Sent(2, address.query, address.page)}
          /\ UNCHANGED searchForm
       \/ /\ MaxSearches >= 1
          /\ searchRequestId' = 1
          /\ searches' = {Sent(1, address.query, address.page)}
          /\ searchForm' = NoQuery
    /\ searchStatus' = "loading"
    /\ searchedFor' = address.query
    /\ UNCHANGED allRecords

\* On any other, what the preferences hold is restored, or nothing.
MountFromPreferences(q) ==
    /\ address.query = NoQuery
    /\ searchForm' = q
    /\ IF q = NoQuery
       THEN UNCHANGED <<searchRequestId, searches, screenVars, searchedFor>>
       ELSE Search(q, 1)

Mount ==
    /\ ~mounted
    /\ mounted' = TRUE
    /\ MountFromAddress \/ \E q \in Terms : MountFromPreferences(q)
    /\ UNCHANGED <<currentPage, address>>

-----------------------------------------------------------------------------
(* The answers.                                                            *)

IsLatest(c) == c.id = searchRequestId
Forget(c) == searches' = searches \ {c}

\* Mutant: an answer is applied whenever it comes.
ResultsArrive_Unguarded(c) ==
    /\ c.awaits = "results"
    /\ searchStatus' = "ready" /\ allRecords' = c.query
    /\ searches' = (searches \ {c}) \cup {[c EXCEPT !.awaits = "suggestions"]}
    /\ UNCHANGED <<searchRequestId, formVars, searchedFor>>

ResultsArrive(c) ==
    /\ c.awaits = "results"
    /\ IsLatest(c)
    /\ searchStatus' = "ready" /\ allRecords' = c.query
    /\ searches' = (searches \ {c}) \cup {[c EXCEPT !.awaits = "suggestions"]}
    /\ UNCHANGED <<searchRequestId, formVars, searchedFor>>

SearchFails(c) ==
    /\ c.awaits = "results"
    /\ IsLatest(c)
    /\ searchStatus' = "error"
    /\ Forget(c)
    /\ UNCHANGED <<searchRequestId, allRecords, formVars, searchedFor>>

\* The address follows only now, and the panel of suggestions with it.
SuggestionsArrive(c) ==
    /\ c.awaits = "suggestions"
    /\ IsLatest(c)
    /\ Forget(c)
    /\ address' = [query |-> c.query, page |-> c.page]
    /\ UNCHANGED <<searchRequestId, screenVars, searchForm, currentPage, searchedFor>>

StaleAnswer(c) ==
    /\ ~IsLatest(c)
    /\ Forget(c)
    /\ UNCHANGED <<searchRequestId, screenVars, formVars, searchedFor>>

-----------------------------------------------------------------------------
(* The user.                                                               *)

EditForm(q) ==
    /\ searchForm' = q
    /\ UNCHANGED <<searchRequestId, searches, screenVars, currentPage, address, searchedFor>>

\* The form is sent; a saved or a recent search is chosen.
SubmitSearch ==
    /\ Search(searchForm, 1)
    /\ currentPage' = 1
    /\ UNCHANGED <<searchForm, address>>

ChooseSearch(q) ==
    /\ Search(q, 1)
    /\ searchForm' = q /\ currentPage' = 1
    /\ UNCHANGED address

TurnPage(page) ==
    /\ searchStatus = "ready"
    /\ currentPage' = page
    /\ address' = [query |-> searchForm, page |-> page]
    /\ UNCHANGED <<searchRequestId, searches, screenVars, searchForm, searchedFor>>

\* The reset leaves the counter alone: a search under way is still answered.
ResetSearch ==
    /\ searchStatus' = "idle" /\ allRecords' = NoQuery
    /\ searchForm' = NoQuery /\ currentPage' = 1
    /\ address' = [query |-> NoQuery, page |-> 1]
    /\ UNCHANGED <<searchRequestId, searches, searchedFor>>

AnswerArrives ==
    \E c \in searches :
        \/ ResultsArrive(c) \/ SearchFails(c)
        \/ SuggestionsArrive(c)
        \/ StaleAnswer(c)

UserActs ==
    \/ \E q \in Terms : EditForm(q)
    \/ SubmitSearch
    \/ \E q \in Queries : ChooseSearch(q)
    \/ \E page \in PageNumbers : TurnPage(page)
    \/ ResetSearch

SearchNext == Mount \/ (mounted /\ (AnswerArrives \/ UserActs) /\ UNCHANGED mounted)

SearchSpec == SearchInit /\ [][SearchNext]_searchVars

-----------------------------------------------------------------------------
(* Properties                                                              *)

SearchTypeOK ==
    /\ searchRequestId \in Nat
    /\ searches \subseteq Searches
    /\ searchStatus \in {"idle", "loading", "ready", "error"}
    /\ allRecords \in Terms
    /\ searchForm \in Terms /\ currentPage \in PageNumbers
    /\ address \in [query : Terms, page : PageNumbers]
    /\ mounted \in BOOLEAN
    /\ searchedFor \in Terms

Awaited == \E c \in searches : IsLatest(c) /\ c.awaits = "results"

\* In whatever order the answers come, and whatever the user does meanwhile,
\* the results on the screen are those of the last search() called, and a page
\* that is loading waits for an answer that will be applied: no answer is
\* dropped that the spinner needs (search, the checks of searchRequestIdRef).
ScreenFollowsSearch ==
    /\ searchStatus = "ready" => allRecords = searchedFor
    /\ searchStatus = "loading" => Awaited

=============================================================================
