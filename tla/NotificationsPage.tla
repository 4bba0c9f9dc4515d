-------------------------- MODULE NotificationsPage --------------------------
(***************************************************************************)
(* The notifications page (src/src/app/notifications/page.tsx) over the    *)
(* page cache that outlives it (src/src/lib/notificationCache.ts): the list *)
(* of the filter chosen, reloaded in the background, extended by "load     *)
(* more" and changed by marking.                                           *)
(***************************************************************************)
EXTENDS Integers, FiniteSets

CONSTANTS Filters, NoFilter, MaxRequests, MaxListings    \* the last two are bounds

VARIABLES
    npFilter,          \* the filter chosen
    npPage,            \* the page shown: the filter it was asked with, its length
    npCache,           \* the cached page of every filter
    npLoading,         \* the skeleton is drawn
    npSequence,        \* requestSequence
    npOut,             \* requests out, each with the filter it closed over
    npMarking,         \* the flag marking
    npRefresh,         \* the debounce timer of an announced notification
    npCrossed          \* an unguarded answer crossed a change of the filter

npVars == <<npFilter, npPage, npCache, npLoading, npSequence, npOut, npMarking,
            npRefresh, npCrossed>>

NoPage == [filter |-> NoFilter, more |-> FALSE]
Request(kind, seq, first) ==
    [kind |-> kind, filter |-> npFilter, seq |-> seq, first |-> first, page |-> npPage]

\* load(): another request, the only one whose answer will count.
LoadAs(filter, first) ==
    [kind |-> "load", filter |-> filter, seq |-> npSequence + 1, first |-> first,
     page |-> NoPage]
Room(n) == npSequence + n <= MaxRequests /\ Cardinality(npOut) < MaxListings

\* Seeded fault: any answer counts, however many loads were started since.
Counts_Always(request) == TRUE

Counts(request) == request.seq = npSequence

NPLoaded(request, failed) ==
    /\ request.kind = "load" /\ npOut' = npOut \ {request}
    /\ IF Counts(request) /\ ~failed
       THEN /\ npPage' = [filter |-> request.filter, more |-> FALSE]
            /\ npCache' = [npCache EXCEPT ![request.filter] =
                             [filter |-> request.filter, more |-> FALSE]]
       ELSE UNCHANGED <<npPage, npCache>>
    /\ npLoading' = (npLoading /\ ~(request.first /\ Counts(request)))
    /\ UNCHANGED <<npFilter, npSequence, npMarking, npRefresh, npCrossed>>

\* Another filter: what is out is disowned, the cache is shown meanwhile.
NPChoose(filter) ==
    /\ filter # npFilter /\ Room(2)
    /\ npFilter' = filter /\ npSequence' = npSequence + 2
    /\ npPage' = npCache[filter] /\ npLoading' = (npCache[filter] = NoPage)
    /\ npOut' = npOut \cup
         {[LoadAs(filter, npCache[filter] = NoPage) EXCEPT !.seq = npSequence + 2]}
    /\ npRefresh' = FALSE
    /\ UNCHANGED <<npCache, npMarking, npCrossed>>

\* The provider announces a notification: one load, 120 ms after the last one.
NPAnnounced ==
    /\ ~npRefresh /\ npRefresh' = TRUE
    /\ UNCHANGED <<npFilter, npPage, npCache, npLoading, npSequence, npOut,
                   npMarking, npCrossed>>

NPRefresh ==
    /\ npRefresh /\ Room(1) /\ npRefresh' = FALSE
    /\ npSequence' = npSequence + 1 /\ npOut' = npOut \cup {LoadAs(npFilter, FALSE)}
    /\ UNCHANGED <<npFilter, npPage, npCache, npLoading, npMarking, npCrossed>>

\* markIds() and markAll(): one at a time, and only with something to mark.
NPMark(kind) ==
    /\ ~npMarking /\ ~npLoading /\ npPage # NoPage /\ Cardinality(npOut) < MaxListings
    /\ npMarking' = TRUE /\ npOut' = npOut \cup {Request(kind, 0, FALSE)}
    /\ UNCHANGED <<npFilter, npPage, npCache, npLoading, npSequence, npRefresh, npCrossed>>

\* Marked one group: a load, with the filter and by the function of back then.
NPMarked(request) ==
    /\ request.kind = "markIds" /\ Room(1)
    /\ npSequence' = npSequence + 1 /\ npMarking' = FALSE
    /\ npOut' = (npOut \ {request}) \cup {LoadAs(request.filter, FALSE)}
    /\ npCrossed' = (npCrossed \/ request.filter # npFilter)
    /\ UNCHANGED <<npFilter, npPage, npCache, npLoading, npRefresh>>

\* Marked everything, or more items loaded: the page of back then, changed, is
\* shown and cached, whatever was chosen or loaded since.
NPReplace(request) ==
    /\ request.kind \in {"markAll", "more"} /\ npOut' = npOut \ {request}
    /\ npPage' = [request.page EXCEPT !.more = @ \/ request.kind = "more"]
    /\ npCache' = [npCache EXCEPT ![request.filter] = npPage']
    /\ npCrossed' = (npCrossed \/ request.filter # npFilter)
    /\ npMarking' = (npMarking /\ request.kind = "more")
    /\ UNCHANGED <<npFilter, npLoading, npSequence, npRefresh>>

\* loadMore(): the button is there while the backend has more.
NPMore ==
    /\ ~npLoading /\ npPage # NoPage /\ ~npPage.more /\ Cardinality(npOut) < MaxListings
    /\ \A request \in npOut : request.kind # "more"
    /\ npOut' = npOut \cup {Request("more", 0, FALSE)}
    /\ UNCHANGED <<npFilter, npPage, npCache, npLoading, npSequence, npMarking,
                   npRefresh, npCrossed>>

\* A mark or a "load more" fails: only the message changes.
NPFailed(request) ==
    /\ request.kind # "load" /\ npOut' = npOut \ {request}
    /\ npMarking' = (npMarking /\ request.kind = "more")
    /\ UNCHANGED <<npFilter, npPage, npCache, npLoading, npSequence, npRefresh, npCrossed>>

NPInit ==
    /\ npFilter = (CHOOSE f \in Filters : TRUE) /\ npPage = NoPage
    /\ npCache = [f \in Filters |-> NoPage] /\ npLoading = TRUE /\ npSequence = 1
    /\ npOut = {[kind |-> "load", filter |-> npFilter, seq |-> 1, first |-> TRUE,
                 page |-> NoPage]}
    /\ npMarking = FALSE /\ npRefresh = FALSE /\ npCrossed = FALSE

NPNext ==
    \/ NPAnnounced \/ NPRefresh \/ NPMore
    \/ \E filter \in Filters : NPChoose(filter)
    \/ \E kind \in {"markIds", "markAll"} : NPMark(kind)
    \/ \E request \in npOut :
         \/ NPMarked(request) \/ NPReplace(request) \/ NPFailed(request)
         \/ \E failed \in BOOLEAN : NPLoaded(request, failed)

-----------------------------------------------------------------------------
\* Whatever loads overtake one another across changes of the filter, the list
\* shown, and the one kept for every filter, was asked for with that filter.
\* Only an answer the page does not guard (a mark, a "load more") can break
\* this, once it crossed a change of the filter (lines 77-114, 119-149).
ListFitsFilter ==
    ~npCrossed =>
        /\ npPage # NoPage => npPage.filter = npFilter
        /\ \A f \in Filters : npCache[f] # NoPage => npCache[f].filter = f
=============================================================================
