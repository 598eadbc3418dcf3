------------------------------- MODULE Paging -------------------------------
(***************************************************************************)
(* The condition page of the front end (usePagingCondition and its         *)
(* buttons) on top of the condition store: a user searches and turns pages *)
(* while requests are under way, and while conditions keep arriving.       *)
(*                                                                         *)
(* A change of the query makes React fetch it; the answer replaces what is *)
(* shown whenever it comes.  While loading, an overlay covers the list and *)
(* the Prev and Next buttons, but not the search form.                     *)
(***************************************************************************)
EXTENDS ConditionStore

CONSTANTS FirstQuery,  \* the query of the URL the page is opened with
          Searches,    \* bound: what the user may search for
          MaxClicks,   \* bound: searches and page turns
          MaxUnderWay  \* bound: requests under way at once

ASSUME PagingAssumption ==
    FirstQuery \in Query /\ Searches \subseteq Query /\ MaxClicks \in Nat

VARIABLES
    query,    \* state of the hook
    page,
    shown,    \* conditions
    cache,    \* from page numbers to the conditions kept of them
    loading,  \* isLoading of the page around it
    flights,  \* requests under way: [id, query, served, answer, stored]
    arriving, \* bound: batches that may still be POSTed
    clicks,   \* bound: counts the clicks; also the id of the newest request
    outdated, \* history: pages shown otherwise than they are kept
    hasty,    \* history: did the last search meet a request under way?
    failed,   \* history: has a request failed since the last search?
    returned, \* history: has the user come back to an outdated page?
    trail,    \* history: the pages that lead to the present one, as shown
    basis     \* history: what could be found when the first page was served

hook == <<query, page, shown, cache, loading>>
history == <<outdated, hasty, failed, returned, trail, basis>>
vars == <<store, hook, flights, arriving, clicks, history>>

Flight(id, q) ==
    [id |-> id, query |-> q, served |-> FALSE, answer |-> <<>>, stored |-> {}]

PagingInit ==
    /\ Init
    /\ query = FirstQuery /\ page = 1 /\ shown = <<>> /\ cache = <<>>
    /\ loading = TRUE /\ flights = {Flight(0, FirstQuery)}
    /\ arriving = Batches /\ clicks = 0
    /\ outdated = {} /\ hasty = FALSE /\ failed = FALSE /\ returned = FALSE
    /\ trail = <<>> /\ basis = {}

----------------------------------------------------------------------------
\* The effect of setQuery: the query is fetched.
Fetch(q) ==
    /\ clicks < MaxClicks /\ clicks' = clicks + 1
    /\ Cardinality(flights) < MaxUnderWay
    /\ query' = q
    /\ flights' = flights \cup {Flight(clicks + 1, q)}
    /\ loading' = TRUE

\* search: what is shown until now goes into the cache as page 1 of the new
\* query.
SearchFor(q) ==
    /\ Fetch(q)
    /\ page' = 1
    /\ cache' = <<shown>>
    /\ outdated' = {} /\ hasty' = (flights # {})
    /\ failed' = FALSE /\ returned' = FALSE
    /\ trail' = <<>> /\ basis' = {}
    /\ UNCHANGED <<store, shown, arriving>>

\* getNextRequestParams: the oldest condition shown is the new end.
After(q, conditions) == [q EXCEPT !.end = conditions[Limit].ts]

\* Keep(pages): next keeps the page left unless something is there already.
Keep(pages) == IF page \in DOMAIN pages THEN pages ELSE Append(pages, shown)

\* Mutants of TurnNext: the button is not covered; nothing is kept.
TurnNextUncovered ==
    /\ Len(shown) = Limit
    /\ Fetch(After(query, shown))
    /\ page' = page + 1 /\ cache' = Keep(cache)
    /\ UNCHANGED <<store, shown, arriving, history>>
TurnNextKeepsNothing ==
    /\ ~loading /\ Len(shown) = Limit
    /\ Fetch(After(query, shown))
    /\ page' = page + 1
    /\ UNCHANGED <<store, shown, cache, arriving, history>>

\* next; its button is enabled by a full page and covered while loading.
TurnNext ==
    /\ ~loading /\ Len(shown) = Limit
    /\ Fetch(After(query, shown))
    /\ page' = page + 1 /\ cache' = Keep(cache)
    /\ UNCHANGED <<store, shown, arriving, history>>

\* prev shows the page kept, which is that of an earlier visit when next found
\* one there, and what was shown before the search when it is page 1 of one.
\* The query stays the one of the page left.
TurnPrev ==
    /\ ~loading /\ page > 1
    /\ clicks < MaxClicks /\ clicks' = clicks + 1
    /\ page' = page - 1
    /\ shown' = cache[page - 1]
    /\ returned' = (returned \/ page - 1 \in outdated)
    /\ trail' = SubSeq(trail, 1, page - 1)
    /\ UNCHANGED <<store, query, cache, loading, flights, arriving,
                   outdated, hasty, failed, basis>>

----------------------------------------------------------------------------
\* The server answers a request, between two POSTs of the ISU.
Serve(f) ==
    /\ incoming = <<>> /\ f \in flights /\ ~f.served
    /\ flights' = (flights \ {f}) \cup
           {[f EXCEPT !.served = TRUE, !.answer = Page(items, f.query),
                      !.stored = Accepted(posted)]}
    /\ UNCHANGED <<store, hook, arriving, clicks, history>>

\* The answer arrives: it is shown whatever the query is by now, and the
\* overlay goes away even when another request is under way.
Receive(f) ==
    /\ f \in flights /\ f.served
    /\ flights' = flights \ {f}
    /\ shown' = f.answer /\ loading' = FALSE
    /\ trail' = Append(SubSeq(trail, 1, page - 1), f.answer)
    /\ basis' = IF page = 1 THEN Matching(f.stored, f.query) ELSE basis
    /\ outdated' = IF page \in DOMAIN cache /\ cache[page] # f.answer
                   THEN outdated \cup {page} ELSE outdated \ {page}
    /\ UNCHANGED <<store, query, page, cache, arriving, clicks, hasty, failed,
                   returned>>

\* The request fails: getConditions ends before it clears isLoading.
Fail(f) ==
    /\ f \in flights
    /\ flights' = flights \ {f}
    /\ failed' = TRUE
    /\ UNCHANGED <<store, hook, arriving, clicks, outdated, hasty, returned,
                   trail, basis>>

PostArrives(batch) ==
    /\ batch \in arriving /\ arriving' = arriving \ {batch}
    /\ Post(batch)
    /\ UNCHANGED <<hook, flights, clicks, history>>

Insert ==
    /\ InsertNext
    /\ UNCHANGED <<hook, flights, arriving, clicks, history>>

Next ==
    \/ \E q \in Searches : SearchFor(q)
    \/ TurnNext
    \/ TurnPrev
    \/ \E f \in flights : Serve(f) \/ Receive(f) \/ Fail(f)
    \/ \E batch \in Batches : PostArrives(batch)
    \/ Insert

Spec == PagingInit /\ [][Next]_vars

----------------------------------------------------------------------------
(* Properties.                                                             *)

\* The types; prev never meets a page that was not kept.
TypeOK ==
    /\ StoreTypeOK
    /\ page \in Nat \ {0} /\ loading \in BOOLEAN /\ clicks \in 0..MaxClicks
    /\ shown \in Seq(Condition) /\ Len(shown) <= Limit
    /\ cache \in Seq(Seq(Condition)) /\ page - 1 <= Len(cache)
    /\ \A f \in flights : f.id \in 0..clicks /\ f.served \in BOOLEAN

\* A request is answered with the newest conditions that match it, of all that
\* had been handled when it was served, however they came.
AnswersAreNewest ==
    \A f \in flights : f.served => IsNewest(f.answer, f.stored, f.query)

\* As long as no search overtakes a request, there is one request at a time:
\* the overlay is what keeps the answers of two pages from crossing.
OneAtATime == ~hasty => Cardinality(flights) <= 1

Read(pages) == UNION {Range(pages[p]) : p \in DOMAIN pages}

\* Newest first, within a page and from page to page.
NewestFirst(pages) ==
    \A p, r \in DOMAIN pages : \A m \in DOMAIN pages[p], n \in DOMAIN pages[r] :
        p < r \/ (p = r /\ m < n) => pages[p][m].ts > pages[r][n].ts

\* When the page has loaded, the pages turned so far are the answer to the
\* search in newest-first order without repetition or gap: a condition that
\* was there when the first page was served and is not older than the last
\* one shown is on one of them, whatever arrived in between.  Coming back to
\* an outdated page is left out.
PagesTile ==
    flights = {} /\ ~hasty /\ ~failed /\ ~returned =>
        /\ Len(trail) = page /\ shown = trail[page]
        /\ NewestFirst(trail)
        /\ \A c \in Read(trail) : Level(c.flags) \in query.levels /\ query.start <= c.ts
        /\ \A c \in basis \ Read(trail) : Len(shown) = Limit /\ c.ts < shown[Limit].ts
=============================================================================
