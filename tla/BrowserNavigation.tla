------------------------- MODULE BrowserNavigation --------------------------
(***************************************************************************)
(* internal/clientrt/assets/gowdk.js, in one browser tab: clicks on links  *)
(* and the back button load a document and put it in the place of the one  *)
(* that is shown; links that are hovered, focused or touched are fetched   *)
(* ahead, into a bounded cache.                                            *)
(*                                                                         *)
(* A step is what runs between two awaits.  Loads may overlap: nothing     *)
(* cancels one when another starts.  A full navigation (an assignment to   *)
(* window.location.href) ends everything that is under way in the page.    *)
(***************************************************************************)
EXTENDS Naturals, Sequences

CONSTANTS
  NavUrls, NavStart,   \* the pages, and the one the tab opens with
  PrefetchLimit,       \* prefetchLimit
  NavLoads,            \* bound: loads at once
  MaxNavFetches        \* bound: requests for documents

ASSUME NavAssumption ==
  /\ NavStart \in NavUrls
  /\ PrefetchLimit \in Nat \ {0} /\ NavLoads \in Nat /\ MaxNavFetches \in Nat

VARIABLES
  navUrl,       \* window.location
  navShown,     \* the page whose document is shown
  navVisited,   \* the pages the back button may lead to
  navBusy,      \* data-gowdk-navigating
  navFetches,   \* the requests so far: [url, state]
  navDocs,      \* prefetchedDocuments: url -> its request; 0: none
  navOrder,     \* prefetchOrder
  navHover,     \* the url the hover timer is set for, in a set; {}: no timer
  navLoad,      \* load -> [pc, url, push, fetch]
  navExcused    \* history: loads overlapped, or going back failed, since the
                \* tab was last at rest

navPage == <<navUrl, navShown, navVisited, navBusy, navExcused>>
navCache == <<navDocs, navOrder>>
navVars == <<navPage, navFetches, navCache, navHover, navLoad>>

Loads == 1 .. NavLoads
NoLoad == [pc |-> "none", url |-> NavStart, push |-> FALSE, fetch |-> 0]
LoadStates ==
  [pc : {"none", "fetching", "scripts"}, url : NavUrls, push : BOOLEAN, fetch : 0 .. MaxNavFetches]
Cached == {u \in NavUrls : navDocs[u] # 0}

\* Every variable has its type; the order lists the cached documents, each
\* once, and there are never more of them than the limit.
NavTypeOK ==
  /\ navUrl \in NavUrls /\ navShown \in NavUrls /\ navVisited \subseteq NavUrls
  /\ navBusy \in BOOLEAN /\ navExcused \in BOOLEAN
  /\ Len(navFetches) <= MaxNavFetches
  /\ \A f \in 1 .. Len(navFetches) :
       navFetches[f] \in [url : NavUrls, state : {"pending", "html", "other", "failed"}]
  /\ navDocs \in [NavUrls -> 0 .. Len(navFetches)]
  /\ {navOrder[i] : i \in 1 .. Len(navOrder)} = Cached
  /\ \A i, j \in 1 .. Len(navOrder) : navOrder[i] = navOrder[j] => i = j
  /\ Len(navOrder) <= PrefetchLimit
  /\ navHover \subseteq NavUrls
  /\ navLoad \in [Loads -> LoadStates]

NoDocs == [u \in NavUrls |-> 0]

NavInit ==
  /\ navUrl = NavStart /\ navShown = NavStart /\ navVisited = {NavStart}
  /\ navBusy = FALSE /\ navExcused = FALSE
  /\ navFetches = <<>>
  /\ navDocs = NoDocs /\ navOrder = <<>>
  /\ navHover = {}
  /\ navLoad = [l \in Loads |-> NoLoad]

-----------------------------------------------------------------------------
(* The cache of documents that were fetched ahead.                         *)

\* fetchDocument: a request is sent.
FetchDocument(url) ==
  /\ Len(navFetches) < MaxNavFetches
  /\ navFetches' = Append(navFetches, [url |-> url, state |-> "pending"])

\* rememberPrefetched: the oldest document goes when there are too many.
RememberPrefetched(url) ==
  LET full == Len(navOrder) = PrefetchLimit
  IN  /\ navDocs' = [u \in NavUrls |-> IF u = url THEN Len(navFetches) + 1
                                       ELSE IF full /\ u = Head(navOrder) THEN 0 ELSE navDocs[u]]
      /\ navOrder' = Append(IF full THEN Tail(navOrder) ELSE navOrder, url)

\* prefetchOrder.splice(i, 1)
Spliced(i) == [k \in 1 .. Len(navOrder) - 1 |-> IF k < i THEN navOrder[k] ELSE navOrder[k + 1]]

\* prefetchOrder.indexOf(url)
IndexOf(i, url) == navOrder[i] = url /\ \A k \in 1 .. i - 1 : navOrder[k] # url

\* forgetPrefetched, whichever request the cache holds for the url.
ForgetPrefetched(url) ==
  /\ navDocs' = [navDocs EXCEPT ![url] = 0]
  /\ \/ \E i \in 1 .. Len(navOrder) : IndexOf(i, url) /\ navOrder' = Spliced(i)
     \/ (\A i \in 1 .. Len(navOrder) : navOrder[i] # url) /\ UNCHANGED navOrder

\* prefetchDocument
PrefetchDocument(url) ==
  IF navDocs[url] = 0
    THEN FetchDocument(url) /\ RememberPrefetched(url)
    ELSE UNCHANGED <<navFetches, navCache>>

\* mouseover: the timer is set anew.
Hover(url) ==
  /\ url \notin navHover
  /\ navHover' = {url}
  /\ UNCHANGED <<navPage, navFetches, navCache, navLoad>>

HoverEnds ==
  /\ navHover # {}
  /\ navHover' = {}
  /\ UNCHANGED <<navPage, navFetches, navCache, navLoad>>

\* The timer fires; focus and touch fetch at once.
HoverFires ==
  /\ \E url \in navHover : PrefetchDocument(url)
  /\ navHover' = {}
  /\ UNCHANGED <<navPage, navLoad>>

FocusOrTouch(url) ==
  /\ PrefetchDocument(url)
  /\ UNCHANGED <<navPage, navHover, navLoad>>

\* The response of a request: a document, something else, or a failure, which
\* takes the url out of the cache when the request was made ahead (it is then
\* the one no load has made).
Responds(f) ==
  /\ navFetches[f].state = "pending"
  /\ \E state \in {"html", "other", "failed"} :
       /\ navFetches' = [navFetches EXCEPT ![f].state = state]
       /\ IF state = "failed" THEN \/ ForgetPrefetched(navFetches[f].url)
                                   \/ /\ \E l \in Loads : navLoad[l].fetch = f
                                      /\ navDocs[navFetches[f].url] # f
                                      /\ UNCHANGED navCache
                              ELSE UNCHANGED navCache
  /\ UNCHANGED <<navPage, navHover, navLoad>>

-----------------------------------------------------------------------------
(* loadDocument.                                                           *)

\* The load waits for the document that was fetched ahead, or for its own.
StartLoad(l, url, push) ==
  /\ navLoad[l].pc = "none"
  /\ IF navDocs[url] # 0 THEN UNCHANGED navFetches ELSE FetchDocument(url)
  /\ navLoad' = [navLoad EXCEPT ![l] =
       [pc |-> "fetching", url |-> url, push |-> push,
        fetch |-> IF navDocs[url] # 0 THEN navDocs[url] ELSE Len(navFetches) + 1]]
  /\ navBusy' = TRUE
  /\ navExcused' = (\E k \in Loads : navLoad[k].pc # "none")
  /\ UNCHANGED <<navShown, navVisited, navCache, navHover>>

\* navigateLink
Click(l, url) == StartLoad(l, url, TRUE) /\ UNCHANGED navUrl

\* popstate: the address has changed already.
Back(l) ==
  \E url \in navVisited \ {navUrl} : StartLoad(l, url, FALSE) /\ navUrl' = url

\* window.location.href = url: the page goes, with all that is under way.
FullNavigation(url) ==
  /\ navUrl' = url /\ navShown' = url
  /\ navVisited' = navVisited \cup {url}
  /\ navBusy' = FALSE /\ navExcused' = FALSE
  /\ navDocs' = NoDocs /\ navOrder' = <<>>
  /\ navHover' = {}
  /\ navLoad' = [l \in Loads |-> NoLoad]

\* A load that ends with an error and leaves the page as it is.
AbandonQuietly(l) ==
  /\ navBusy' = FALSE
  /\ navLoad' = [navLoad EXCEPT ![l] = NoLoad]
  /\ UNCHANGED <<navUrl, navShown, navVisited, navExcused, navCache, navHover>>

\* loadDocument throws: navigateLink falls back to a full navigation, the
\* listener of popstate has no handler.
Abandon(l) ==
  IF navLoad[l].push
    THEN FullNavigation(navLoad[l].url)
    ELSE /\ navBusy' = FALSE /\ navExcused' = TRUE
         /\ navLoad' = [navLoad EXCEPT ![l] = NoLoad]
         /\ UNCHANGED <<navUrl, navShown, navVisited, navCache, navHover>>

\* The request has failed.
LoadFails(l) ==
  /\ navLoad[l].pc = "fetching" /\ navFetches[navLoad[l].fetch].state = "failed"
  /\ Abandon(l)
  /\ UNCHANGED navFetches

\* The response is no document.
LoadIsOther(l) ==
  /\ navLoad[l].pc = "fetching" /\ navFetches[navLoad[l].fetch].state = "other"
  /\ FullNavigation(navLoad[l].url)
  /\ UNCHANGED navFetches

\* The document takes the place of the one that is shown; its scripts load.
\* Its address is the one that was asked for: fetch follows redirects, and the
\* code does not look where the document came from.
LoadShows(l) ==
  /\ navLoad[l].pc = "fetching" /\ navFetches[navLoad[l].fetch].state = "html"
  /\ ForgetPrefetched(navLoad[l].url)
  /\ navShown' = navLoad[l].url
  /\ navLoad' = [navLoad EXCEPT ![l].pc = "scripts"]
  /\ UNCHANGED <<navUrl, navVisited, navBusy, navExcused, navFetches, navHover>>

ScriptFails(l) ==
  /\ navLoad[l].pc = "scripts"
  /\ Abandon(l)
  /\ UNCHANGED navFetches

\* The scripts have run: the address follows, and the load is over.
LoadEnds(l) ==
  /\ navLoad[l].pc = "scripts"
  /\ IF navLoad[l].push
       THEN navUrl' = navLoad[l].url /\ navVisited' = navVisited \cup {navLoad[l].url}
       ELSE UNCHANGED <<navUrl, navVisited>>
  /\ navBusy' = FALSE
  /\ navLoad' = [navLoad EXCEPT ![l] = NoLoad]
  /\ UNCHANGED <<navShown, navExcused, navFetches, navCache, navHover>>

-----------------------------------------------------------------------------
NavNext ==
  \/ \E url \in NavUrls : Hover(url) \/ FocusOrTouch(url)
  \/ HoverEnds \/ HoverFires
  \/ \E f \in 1 .. Len(navFetches) : Responds(f)
  \/ \E l \in Loads :
       \/ \E url \in NavUrls : Click(l, url)
       \/ Back(l) \/ LoadFails(l) \/ LoadIsOther(l) \/ LoadShows(l) \/ ScriptFails(l) \/ LoadEnds(l)

NavSpec == NavInit /\ [][NavNext]_navVars

-----------------------------------------------------------------------------
(* Properties.                                                             *)

\* With no load under way the address is the one the document that is shown was
\* asked for by, and the page is not marked as navigating, whatever failed and whatever was
\* fetched ahead; unless loads overlapped, of which the last to finish each
\* step wins, or the load of a page the user went back to has failed.
AddressShown ==
  (\A l \in Loads : navLoad[l].pc = "none") /\ ~navExcused => navShown = navUrl /\ ~navBusy
=============================================================================
