---------------------------- MODULE BrowserProofs ----------------------------
(***************************************************************************)
(* Theorems about the browser runtime: navigation between pages, for any   *)
(* number of loads, pages and requests; and the regions of a page, for any *)
(* number of queries, forms and commands.                                  *)
(***************************************************************************)
EXTENDS BrowserNavigation, QueryRegions, SequenceTheorems, TLAPS

-----------------------------------------------------------------------------
(* Navigation.                                                             *)

\* The page and the loads have their types.
NavShape ==
  /\ navUrl \in NavUrls /\ navShown \in NavUrls /\ navVisited \subseteq NavUrls
  /\ navBusy \in BOOLEAN /\ navExcused \in BOOLEAN
  /\ navLoad = [l \in Loads |-> navLoad[l]]
  /\ \A l \in Loads :
       /\ navLoad[l] = [pc |-> navLoad[l].pc, url |-> navLoad[l].url,
                        push |-> navLoad[l].push, fetch |-> navLoad[l].fetch]
       /\ navLoad[l].pc \in {"none", "fetching", "scripts"}
       /\ navLoad[l].url \in NavUrls /\ navLoad[l].push \in BOOLEAN

UnderWay(l) == navLoad[l].pc # "none"

\* Unless the tab is excused there is one load at a time; the page of a load
\* that runs its scripts is shown; the page the user goes back to is that of
\* the address; and between loads the address is that of the page.
OneLoad == \A l, k \in Loads : UnderWay(l) /\ UnderWay(k) => l = k
ScriptsOfShown == \A l \in Loads : navLoad[l].pc = "scripts" => navShown = navLoad[l].url
BackToAddress == \A l \in Loads : UnderWay(l) /\ ~navLoad[l].push => navUrl = navLoad[l].url
RestsAtAddress == (\A l \in Loads : ~UnderWay(l)) => navShown = navUrl /\ ~navBusy

NavInv ==
  NavShape /\ (~navExcused => OneLoad /\ ScriptsOfShown /\ BackToAddress /\ RestsAtAddress)

\* What is fetched ahead does not touch the page.
LEMMA AheadKeeps ==
  ASSUME NavInv, UNCHANGED <<navPage, navLoad>>
  PROVE  NavInv'
  BY DEF NavInv, navPage, NavShape, OneLoad, ScriptsOfShown, BackToAddress, RestsAtAddress, UnderWay

\* A full navigation puts the tab at rest.
LEMMA FullNavigationRests ==
  ASSUME NavInv, NEW url \in NavUrls, FullNavigation(url)
  PROVE  NavInv'
<1>1. NavShape'
  BY NavAssumption DEF NavInv, NavShape, FullNavigation, NoLoad
<1>2. (OneLoad /\ ScriptsOfShown /\ BackToAddress /\ RestsAtAddress)'
  BY DEF FullNavigation, NoLoad, OneLoad, ScriptsOfShown, BackToAddress, RestsAtAddress, UnderWay
<1> QED BY <1>1, <1>2 DEF NavInv

\* A load begins: it is alone, or the tab is excused.
LEMMA LoadStartKeeps ==
  ASSUME NavInv, NEW l \in Loads, NEW url \in NavUrls, NEW push \in BOOLEAN,
         StartLoad(l, url, push), navUrl' = IF push THEN navUrl ELSE url
  PROVE  NavInv'
<1>1. PICK f : navLoad' = [navLoad EXCEPT ![l] =
                 [pc |-> "fetching", url |-> url, push |-> push, fetch |-> f]]
  BY DEF StartLoad
<1>2. /\ navBusy' = TRUE /\ navShown' = navShown /\ navVisited' = navVisited
      /\ navExcused' = (\E k \in Loads : navLoad[k].pc # "none")
      /\ navExcused' \in BOOLEAN
  BY DEF StartLoad
<1>3. NavShape'
  BY <1>1, <1>2 DEF NavInv, NavShape
<1>4. ASSUME ~navExcused' PROVE (OneLoad /\ ScriptsOfShown /\ BackToAddress /\ RestsAtAddress)'
  <2>1. \A k \in Loads : navLoad[k].pc = "none"
    BY <1>2, <1>4
  <2>2. /\ navLoad'[l].pc = "fetching" /\ navLoad'[l].url = url /\ navLoad'[l].push = push
        /\ \A k \in Loads : k # l => navLoad'[k].pc = "none"
    BY <1>1, <2>1 DEF NavInv, NavShape
  <2>3. OneLoad' /\ ScriptsOfShown' /\ RestsAtAddress'
    BY <2>2 DEF OneLoad, ScriptsOfShown, RestsAtAddress, UnderWay
  <2>4. ~push => navUrl' = url
    OBVIOUS
  <2>5. BackToAddress'
    BY <2>2, <2>4 DEF BackToAddress, UnderWay
  <2> QED BY <2>3, <2>5
<1> QED BY <1>3, <1>4 DEF NavInv

\* A load ends and leaves nothing under way, or the tab is excused.
LEMMA EndKeeps ==
  ASSUME NavInv, NEW l \in Loads, UnderWay(l),
         navLoad' = [navLoad EXCEPT ![l] = NoLoad],
         navUrl' \in NavUrls, navVisited' \subseteq NavUrls, navShown' = navShown,
         navBusy' = FALSE, navExcused' \in BOOLEAN,
         ~navExcused' => ~navExcused /\ navShown = navUrl'
  PROVE  NavInv'
<1>1. NavShape'
  BY NavAssumption DEF NavInv, NavShape, NoLoad
<1>2. ASSUME ~navExcused' PROVE (OneLoad /\ ScriptsOfShown /\ BackToAddress /\ RestsAtAddress)'
  <2>1. \A k \in Loads : k # l => navLoad[k].pc = "none"
    BY <1>2 DEF NavInv, OneLoad, UnderWay
  <2>2. \A k \in Loads : navLoad'[k].pc = "none"
    BY <2>1 DEF NavInv, NavShape, NoLoad
  <2> QED BY <1>2, <2>2 DEF OneLoad, ScriptsOfShown, BackToAddress, RestsAtAddress, UnderWay
<1> QED BY <1>1, <1>2 DEF NavInv

\* A load throws.
LEMMA AbandonKeeps ==
  ASSUME NavInv, NEW l \in Loads, UnderWay(l), Abandon(l)
  PROVE  NavInv'
<1>t. navLoad[l].url \in NavUrls /\ navLoad[l].push \in BOOLEAN
  BY DEF NavInv, NavShape
<1>1. CASE navLoad[l].push
  BY <1>1, <1>t, FullNavigationRests DEF Abandon
<1>2. CASE ~navLoad[l].push
  <2>1. /\ navBusy' = FALSE /\ navExcused' = TRUE /\ navLoad' = [navLoad EXCEPT ![l] = NoLoad]
        /\ navUrl' = navUrl /\ navShown' = navShown /\ navVisited' = navVisited
    BY <1>2 DEF Abandon
  <2> QED BY <2>1, EndKeeps DEF NavInv, NavShape
<1> QED BY <1>1, <1>2

\* The document of a load is shown.
LEMMA ShowKeeps == ASSUME NavInv, NEW l \in Loads, LoadShows(l) PROVE NavInv'
<1>f. /\ navLoad[l].pc = "fetching" /\ navShown' = navLoad[l].url
      /\ navLoad' = [navLoad EXCEPT ![l].pc = "scripts"]
      /\ navUrl' = navUrl /\ navVisited' = navVisited /\ navBusy' = navBusy
      /\ navExcused' = navExcused
  BY DEF LoadShows
<1>l. /\ navLoad'[l] = [pc |-> "scripts", url |-> navLoad[l].url,
                        push |-> navLoad[l].push, fetch |-> navLoad[l].fetch]
      /\ navLoad' = [k \in Loads |-> navLoad'[k]]
      /\ \A k \in Loads : k # l => navLoad'[k] = navLoad[k]
  BY <1>f DEF NavInv, NavShape
<1>1. NavShape'
  BY <1>f, <1>l DEF NavInv, NavShape
<1>2. ASSUME ~navExcused' PROVE (OneLoad /\ ScriptsOfShown /\ BackToAddress /\ RestsAtAddress)'
  <2>1. OneLoad /\ BackToAddress
    BY <1>2, <1>f DEF NavInv
  <2>2. \A k \in Loads : k # l => navLoad'[k].pc = "none"
    BY <2>1, <1>f, <1>l DEF OneLoad, UnderWay
  <2>3. ~navLoad[l].push => navUrl = navLoad[l].url
    BY <2>1, <1>f DEF BackToAddress, UnderWay
  <2> QED BY <2>2, <2>3, <1>f, <1>l DEF OneLoad, ScriptsOfShown, BackToAddress, RestsAtAddress, UnderWay
<1> QED BY <1>1, <1>2 DEF NavInv

\* The scripts have run: the address follows.
LEMMA LoadEndsKeeps == ASSUME NavInv, NEW l \in Loads, LoadEnds(l) PROVE NavInv'
<1>t. /\ navLoad[l].url \in NavUrls /\ navLoad[l].push \in BOOLEAN
      /\ navUrl \in NavUrls /\ navVisited \subseteq NavUrls /\ navExcused \in BOOLEAN
  BY DEF NavInv, NavShape
<1>f. /\ navLoad[l].pc = "scripts" /\ navLoad' = [navLoad EXCEPT ![l] = NoLoad]
      /\ navUrl' = IF navLoad[l].push THEN navLoad[l].url ELSE navUrl
      /\ navVisited' = IF navLoad[l].push THEN navVisited \cup {navLoad[l].url} ELSE navVisited
      /\ navBusy' = FALSE /\ navShown' = navShown /\ navExcused' = navExcused
  BY DEF LoadEnds
<1>1. ASSUME ~navExcused PROVE navShown = navUrl'
  <2>1. ScriptsOfShown /\ BackToAddress
    BY <1>1 DEF NavInv
  <2>2. navShown = navLoad[l].url /\ (~navLoad[l].push => navUrl = navLoad[l].url)
    BY <2>1, <1>f DEF ScriptsOfShown, BackToAddress, UnderWay
  <2> QED BY <2>2, <1>f
<1>2. UnderWay(l) /\ navUrl' \in NavUrls /\ navVisited' \subseteq NavUrls
  BY <1>t, <1>f DEF UnderWay
<1> QED BY <1>1, <1>2, <1>t, <1>f, EndKeeps

\* Every step keeps the invariant.
LEMMA NavInvStep == ASSUME NavInv, [NavNext]_navVars PROVE NavInv'
<1>1. CASE UNCHANGED navVars
  BY <1>1, AheadKeeps DEF navVars
<1>2. ASSUME NEW url \in NavUrls, Hover(url) \/ FocusOrTouch(url) PROVE NavInv'
  BY <1>2, AheadKeeps DEF Hover, FocusOrTouch
<1>3. CASE HoverEnds \/ HoverFires
  BY <1>3, AheadKeeps DEF HoverEnds, HoverFires
<1>4. ASSUME NEW f \in 1 .. Len(navFetches), Responds(f) PROVE NavInv'
  BY <1>4, AheadKeeps DEF Responds
<1>5. ASSUME NEW l \in Loads, NEW url \in NavUrls, Click(l, url) PROVE NavInv'
  BY <1>5, LoadStartKeeps DEF Click
<1>6. ASSUME NEW l \in Loads, Back(l) PROVE NavInv'
  <2>1. PICK url \in navVisited \ {navUrl} : StartLoad(l, url, FALSE) /\ navUrl' = url
    BY <1>6 DEF Back
  <2>2. url \in NavUrls
    BY DEF NavInv, NavShape
  <2> QED BY <2>1, <2>2, LoadStartKeeps
<1>7. ASSUME NEW l \in Loads, LoadFails(l) \/ ScriptFails(l) PROVE NavInv'
  BY <1>7, AbandonKeeps DEF LoadFails, ScriptFails, UnderWay
<1>8. ASSUME NEW l \in Loads, LoadIsOther(l) PROVE NavInv'
  <2>1. navLoad[l].url \in NavUrls
    BY DEF NavInv, NavShape
  <2> QED BY <1>8, <2>1, FullNavigationRests DEF LoadIsOther
<1> QED BY <1>1, <1>2, <1>3, <1>4, <1>5, <1>6, <1>7, <1>8, ShowKeeps, LoadEndsKeeps DEF NavNext

\* Loads and the page agree at every moment, unless the tab is excused.
THEOREM NavInvariant == NavSpec => []NavInv
<1>1. ASSUME NavInit PROVE NavInv
  <2>1. /\ navLoad = [l \in Loads |-> NoLoad] /\ navUrl = NavStart /\ navShown = NavStart
        /\ navVisited = {NavStart} /\ navBusy = FALSE /\ navExcused = FALSE
    BY <1>1 DEF NavInit
  <2>2. NavShape
    BY <2>1, NavAssumption DEF NavShape, NoLoad
  <2> QED BY <2>1, <2>2
          DEF NavInv, NoLoad, OneLoad, ScriptsOfShown, BackToAddress, RestsAtAddress, UnderWay
<1>2. NavInv /\ [NavNext]_navVars => NavInv'
  BY NavInvStep
<1> QED BY <1>1, <1>2, PTL DEF NavSpec

\* At rest the address is that of the document that is shown, whatever failed
\* and whatever was fetched ahead; unless loads overlapped or going back
\* failed.
THEOREM AddressIsShown == NavSpec => []AddressShown
<1>1. NavInv => AddressShown
  BY DEF NavInv, RestsAtAddress, UnderWay, AddressShown
<1> QED BY <1>1, NavInvariant, PTL

-----------------------------------------------------------------------------
(* The cache of documents that were fetched ahead.                         *)

FetchStates == [url : NavUrls, state : {"pending", "html", "other", "failed"}]

\* url is in the order.
Listed(url) == \E i \in 1 .. Len(navOrder) : navOrder[i] = url

OrderOK ==
  /\ navOrder \in Seq(NavUrls) /\ Len(navOrder) <= PrefetchLimit
  /\ \A i, j \in 1 .. Len(navOrder) : navOrder[i] = navOrder[j] => i = j
  /\ \A url \in NavUrls : navDocs[url] # 0 <=> Listed(url)

DocsOK ==
  /\ navFetches \in Seq(FetchStates) /\ Len(navFetches) <= MaxNavFetches
  /\ navDocs \in [NavUrls -> Nat] /\ \A url \in NavUrls : navDocs[url] <= Len(navFetches)

LoadsOK == navHover \subseteq NavUrls /\ navLoad \in [Loads -> LoadStates]

\* Inductive: the order is a list, without repetitions, of the cached urls.
CacheInv == OrderOK /\ DocsOK /\ LoadsOK

\* An interval from 1 tells its upper bound.
LEMMA SameInterval == ASSUME NEW l \in Nat, NEW n \in Nat, 1 .. l = 1 .. n PROVE l = n
<1>1. l > n => l \in 1 .. l /\ l \notin 1 .. n
  OBVIOUS
<1>2. n > l => n \in 1 .. n /\ n \notin 1 .. l
  OBVIOUS
<1>3. ~(l > n) /\ ~(n > l)
  BY <1>1, <1>2, Zenon
<1> QED BY <1>3

\* What splicing leaves: one entry less, and the others.
LEMMA SplicedOrder ==
  ASSUME OrderOK, NEW p \in 1 .. Len(navOrder)
  PROVE  /\ Spliced(p) \in Seq(NavUrls) /\ Len(Spliced(p)) = Len(navOrder) - 1
         /\ \A i, j \in 1 .. Len(navOrder) - 1 : Spliced(p)[i] = Spliced(p)[j] => i = j
         /\ \A url \in NavUrls :
              (\E i \in 1 .. Len(navOrder) - 1 : Spliced(p)[i] = url)
                <=> Listed(url) /\ url # navOrder[p]
<1> DEFINE n == Len(navOrder) - 1
<1>1. navOrder \in [1 .. n + 1 -> NavUrls] /\ n \in Nat /\ Len(navOrder) = n + 1
  BY LenProperties DEF OrderOK
<1>2. \A k \in 1 .. n : k \in 1 .. n + 1 /\ k + 1 \in 1 .. n + 1
  BY <1>1
<1>3. \A k \in 1 .. n : Spliced(p)[k] = IF k < p THEN navOrder[k] ELSE navOrder[k + 1]
  BY DEF Spliced
<1>4. Spliced(p) \in [1 .. n -> NavUrls]
  BY <1>1, <1>2 DEF Spliced
<1>5. Spliced(p) \in Seq(NavUrls)
  BY <1>1, <1>4, SeqDef
<1>6. Len(Spliced(p)) = n
  <2>1. Len(Spliced(p)) \in Nat /\ DOMAIN Spliced(p) = 1 .. Len(Spliced(p))
    BY <1>5, LenProperties
  <2>2. DOMAIN Spliced(p) = 1 .. n
    BY <1>4
  <2> HIDE DEF n
  <2> QED BY <1>1, <2>1, <2>2, SameInterval
<1>7. \A i, j \in 1 .. n + 1 : navOrder[i] = navOrder[j] => i = j
  BY <1>1 DEF OrderOK
<1>8. ASSUME NEW i \in 1 .. n, NEW j \in 1 .. n, Spliced(p)[i] = Spliced(p)[j] PROVE i = j
  BY <1>1, <1>2, <1>3, <1>7, <1>8
<1>9. ASSUME NEW url \in NavUrls
      PROVE  (\E i \in 1 .. n : Spliced(p)[i] = url) <=> Listed(url) /\ url # navOrder[p]
  <2>1. ASSUME NEW i \in 1 .. n, Spliced(p)[i] = url PROVE Listed(url) /\ url # navOrder[p]
    BY <1>1, <1>2, <1>3, <1>7, <2>1 DEF Listed
  <2>2. ASSUME NEW i \in 1 .. n + 1, navOrder[i] = url, url # navOrder[p]
        PROVE  \E k \in 1 .. n : Spliced(p)[k] = url
    <3>1. CASE i < p
      <4>1. i \in 1 .. n
        BY <1>1, <3>1
      <4> QED BY <1>3, <2>2, <3>1, <4>1
    <3>2. CASE ~(i < p)
      <4>1. i - 1 \in 1 .. n /\ ~(i - 1 < p) /\ (i - 1) + 1 = i
        BY <1>1, <2>2, <3>2
      <4> QED BY <1>3, <2>2, <4>1
    <3> QED BY <3>1, <3>2
  <2> QED BY <1>1, <2>1, <2>2 DEF Listed
<1> HIDE DEF n
<1>10. Len(navOrder) - 1 = n
  BY DEF n
<1> QED BY <1>5, <1>6, <1>8, <1>9, <1>10

\* forgetPrefetched keeps the list exact.
LEMMA ForgetKeepsOrder ==
  ASSUME OrderOK, DocsOK, NEW url \in NavUrls, ForgetPrefetched(url)
  PROVE  OrderOK' /\ navDocs' \in [NavUrls -> Nat]
         /\ \A u \in NavUrls : navDocs'[u] <= Len(navFetches)
<1>1. /\ navDocs' = [navDocs EXCEPT ![url] = 0] /\ Len(navFetches) \in Nat
      /\ Len(navOrder) \in Nat /\ PrefetchLimit \in Nat
  BY NavAssumption, LenProperties DEF ForgetPrefetched, DocsOK, OrderOK
<1>2. \A u \in NavUrls : navDocs'[u] = IF u = url THEN 0 ELSE navDocs[u]
  BY <1>1 DEF DocsOK
<1>3. OrderOK'
  <2>1. CASE \E i \in 1 .. Len(navOrder) : IndexOf(i, url) /\ navOrder' = Spliced(i)
    <3>1. PICK p \in 1 .. Len(navOrder) : navOrder[p] = url /\ navOrder' = Spliced(p)
      BY <2>1 DEF IndexOf
    <3>s. /\ Spliced(p) \in Seq(NavUrls) /\ Len(Spliced(p)) = Len(navOrder) - 1
          /\ \A i, j \in 1 .. Len(navOrder) - 1 : Spliced(p)[i] = Spliced(p)[j] => i = j
          /\ \A u \in NavUrls :
               (\E i \in 1 .. Len(navOrder) - 1 : Spliced(p)[i] = u) <=> Listed(u) /\ u # navOrder[p]
      BY SplicedOrder
    <3>2. /\ navOrder' \in Seq(NavUrls) /\ Len(navOrder') = Len(navOrder) - 1
          /\ \A i, j \in 1 .. Len(navOrder') : navOrder'[i] = navOrder'[j] => i = j
          /\ \A u \in NavUrls :
               (\E i \in 1 .. Len(navOrder') : navOrder'[i] = u) <=> Listed(u) /\ u # url
      BY <3>1, <3>s
    <3>3. Len(navOrder') <= PrefetchLimit
      BY <1>1, <3>2 DEF OrderOK
    <3>4. \A u \in NavUrls : navDocs'[u] # 0 <=> Listed(u)'
      BY <1>2, <3>2 DEF OrderOK, Listed
    <3> QED BY <3>2, <3>3, <3>4 DEF OrderOK
  <2>2. CASE (\A i \in 1 .. Len(navOrder) : navOrder[i] # url) /\ UNCHANGED navOrder
    BY <1>2, <2>2 DEF OrderOK, Listed
  <2> QED BY <2>1, <2>2 DEF ForgetPrefetched
<1> QED BY <1>1, <1>2, <1>3 DEF DocsOK

\* What rememberPrefetched keeps of the order when it makes room.
LEMMA RoomForOne ==
  ASSUME OrderOK
  PROVE  LET full == Len(navOrder) = PrefetchLimit
             base == IF full THEN Tail(navOrder) ELSE navOrder
         IN  /\ base \in Seq(NavUrls) /\ Len(base) < PrefetchLimit
             /\ \A i, j \in 1 .. Len(base) : base[i] = base[j] => i = j
             /\ \A url \in NavUrls :
                  (\E i \in 1 .. Len(base) : base[i] = url)
                    <=> Listed(url) /\ ~(full /\ url = Head(navOrder))
<1>1. Len(navOrder) \in Nat /\ Len(navOrder) <= PrefetchLimit /\ PrefetchLimit \in Nat \ {0}
      /\ \A i, j \in 1 .. Len(navOrder) : navOrder[i] = navOrder[j] => i = j
  BY NavAssumption, LenProperties DEF OrderOK
<1>2. CASE Len(navOrder) = PrefetchLimit
  <2> DEFINE t == Tail(navOrder)
  <2>1. navOrder # <<>> /\ Head(navOrder) = navOrder[1]
    BY <1>1, <1>2 DEF OrderOK
  <2>2. /\ t \in Seq(NavUrls) /\ Len(t) = Len(navOrder) - 1
        /\ \A i \in 1 .. Len(t) : t[i] = navOrder[i + 1]
    BY <2>1, HeadTailProperties DEF OrderOK
  <2> HIDE DEF t
  <2>3. \A i \in 1 .. Len(t) : i + 1 \in 1 .. Len(navOrder) /\ i + 1 # 1 /\ 1 \in 1 .. Len(navOrder)
    BY <1>1, <2>2
  <2>4. \A i, j \in 1 .. Len(t) : t[i] = t[j] => i = j
    <3>1. \A i, j \in 1 .. Len(t) : i + 1 = j + 1 => i = j
      BY <1>1, <2>2
    <3> QED BY <1>1, <2>2, <2>3, <3>1
  <2>5. ASSUME NEW url \in NavUrls
        PROVE  (\E i \in 1 .. Len(t) : t[i] = url) <=> Listed(url) /\ url # Head(navOrder)
    <3>1. ASSUME NEW i \in 1 .. Len(t), t[i] = url PROVE Listed(url) /\ url # Head(navOrder)
      BY <1>1, <2>1, <2>2, <2>3, <3>1 DEF Listed
    <3>2. ASSUME NEW i \in 1 .. Len(navOrder), navOrder[i] = url, url # Head(navOrder)
          PROVE  \E k \in 1 .. Len(t) : t[k] = url
      <4>1. i # 1
        BY <2>1, <3>2
      <4>2. i - 1 \in 1 .. Len(t) /\ (i - 1) + 1 = i
        BY <1>1, <2>2, <4>1
      <4> QED BY <2>2, <3>2, <4>2
    <3> QED BY <3>1, <3>2 DEF Listed
  <2>6. Len(t) < PrefetchLimit
    BY <1>1, <1>2, <2>2
  <2> QED BY <1>2, <2>2, <2>4, <2>5, <2>6 DEF t
<1>3. CASE Len(navOrder) # PrefetchLimit
  BY <1>1, <1>3 DEF OrderOK, Listed
<1> QED BY <1>2, <1>3

\* prefetchDocument keeps the list exact and within the limit.
LEMMA RememberKeepsOrder ==
  ASSUME OrderOK, DocsOK, NEW url \in NavUrls, navDocs[url] = 0, RememberPrefetched(url)
  PROVE  OrderOK' /\ navDocs' \in [NavUrls -> Nat]
         /\ \A u \in NavUrls : navDocs'[u] <= Len(navFetches) + 1
<1> DEFINE full == Len(navOrder) = PrefetchLimit
           base == IF full THEN Tail(navOrder) ELSE navOrder
<1>1. /\ navDocs' = [u \in NavUrls |-> IF u = url THEN Len(navFetches) + 1
                                      ELSE IF full /\ u = Head(navOrder) THEN 0 ELSE navDocs[u]]
      /\ navOrder' = Append(base, url)
  BY DEF RememberPrefetched
<1>2. /\ base \in Seq(NavUrls) /\ Len(base) < PrefetchLimit
      /\ \A i, j \in 1 .. Len(base) : base[i] = base[j] => i = j
      /\ \A u \in NavUrls :
           (\E i \in 1 .. Len(base) : base[i] = u) <=> Listed(u) /\ ~(full /\ u = Head(navOrder))
  BY RoomForOne
<1>3. Len(navFetches) \in Nat /\ PrefetchLimit \in Nat
  BY NavAssumption, LenProperties DEF DocsOK
<1>4. /\ navDocs' \in [NavUrls -> Nat]
      /\ \A u \in NavUrls : navDocs'[u] <= Len(navFetches) + 1
  <2> HIDE DEF full
  <2> QED BY <1>1, <1>3 DEF DocsOK
<1>5. \A u \in NavUrls : navDocs'[u] # 0 <=> u = url \/ (Listed(u) /\ ~(full /\ u = Head(navOrder)))
  <2> HIDE DEF full
  <2> QED BY <1>1, <1>3 DEF OrderOK, DocsOK
<1> HIDE DEF base, full
<1>6. /\ navOrder' \in Seq(NavUrls) /\ Len(navOrder') = Len(base) + 1 /\ Len(base) \in Nat
      /\ navOrder'[Len(base) + 1] = url
      /\ \A i \in 1 .. Len(base) : navOrder'[i] = base[i]
  BY <1>1, <1>2
<1>7. Len(navOrder') <= PrefetchLimit
  BY <1>2, <1>3, <1>6
<1>8. \A i \in 1 .. Len(base) : base[i] # url
  BY <1>2 DEF OrderOK
<1>9. \A i \in 1 .. Len(navOrder') : i \in 1 .. Len(base) \/ i = Len(base) + 1
  BY <1>6
<1>10. \A i \in 1 .. Len(base) : i \in 1 .. Len(navOrder')
  BY <1>6
<1>11. Len(base) + 1 \in 1 .. Len(navOrder')
  BY <1>6
<1>12. \A i, j \in 1 .. Len(navOrder') : navOrder'[i] = navOrder'[j] => i = j
  BY <1>2, <1>6, <1>8, <1>9
<1>13. \A u \in NavUrls : navDocs'[u] # 0 <=> Listed(u)'
  <2> SUFFICES ASSUME NEW u \in NavUrls
               PROVE  navDocs'[u] # 0 <=> \E i \in 1 .. Len(navOrder') : navOrder'[i] = u
    BY DEF Listed
  <2>1. (\E i \in 1 .. Len(navOrder') : navOrder'[i] = u)
          <=> u = url \/ \E i \in 1 .. Len(base) : base[i] = u
    BY <1>6, <1>9, <1>10, <1>11
  <2> QED BY <1>2, <1>5, <2>1
<1>14. OrderOK'
  BY <1>6, <1>7, <1>12, <1>13 DEF OrderOK
<1> QED BY <1>4, <1>14

\* A request that is sent.
LEMMA FetchAdds ==
  ASSUME DocsOK, NEW url \in NavUrls, FetchDocument(url)
  PROVE  /\ navFetches' \in Seq(FetchStates) /\ Len(navFetches') = Len(navFetches) + 1
         /\ Len(navFetches') <= MaxNavFetches /\ Len(navFetches) \in Nat
<1> DEFINE r == [url |-> url, state |-> "pending"]
<1>1. r \in FetchStates
  BY DEF FetchStates
<1>2. navFetches' = Append(navFetches, r) /\ Len(navFetches) < MaxNavFetches
  BY DEF FetchDocument
<1>3. navFetches \in Seq(FetchStates)
  BY DEF DocsOK
<1> HIDE DEF r
<1>4. /\ navFetches' \in Seq(FetchStates) /\ Len(navFetches') = Len(navFetches) + 1
      /\ Len(navFetches) \in Nat
  BY <1>1, <1>2, <1>3
<1> QED BY <1>2, <1>4, NavAssumption

\* prefetchDocument.
LEMMA PrefetchKeeps ==
  ASSUME CacheInv, NEW url \in NavUrls, PrefetchDocument(url) PROVE OrderOK' /\ DocsOK'
<1>i. OrderOK /\ DocsOK
  BY DEF CacheInv
<1>1. CASE navDocs[url] = 0
  <2>1. FetchDocument(url) /\ RememberPrefetched(url)
    BY <1>1 DEF PrefetchDocument
  <2>2. OrderOK' /\ navDocs' \in [NavUrls -> Nat]
        /\ \A u \in NavUrls : navDocs'[u] <= Len(navFetches) + 1
    BY <1>i, <1>1, <2>1, RememberKeepsOrder
  <2>3. /\ navFetches' \in Seq(FetchStates) /\ Len(navFetches') = Len(navFetches) + 1
        /\ Len(navFetches') <= MaxNavFetches
    BY <1>i, <2>1, FetchAdds
  <2> QED BY <2>2, <2>3 DEF DocsOK
<1>2. CASE navDocs[url] # 0
  BY <1>i, <1>2 DEF PrefetchDocument, navCache, OrderOK, DocsOK, Listed
<1> QED BY <1>1, <1>2

\* A response changes the state of its request.
LEMMA RespondsKeeps ==
  ASSUME CacheInv, NEW f \in 1 .. Len(navFetches), Responds(f) PROVE CacheInv'
<1>i. OrderOK /\ DocsOK /\ LoadsOK
  BY DEF CacheInv
<1>1. PICK state \in {"html", "other", "failed"} :
        /\ navFetches' = [navFetches EXCEPT ![f].state = state]
        /\ \/ ForgetPrefetched(navFetches[f].url)
           \/ UNCHANGED navCache
  BY DEF Responds
<1>2. navFetches \in Seq(FetchStates) /\ navFetches[f] \in FetchStates
  BY <1>i, ElementOfSeq DEF DocsOK
<1>3. [navFetches[f] EXCEPT !.state = state] \in FetchStates /\ navFetches[f].url \in NavUrls
  BY <1>2 DEF FetchStates
<1>4. navFetches' \in Seq(FetchStates) /\ Len(navFetches') = Len(navFetches)
  <2>1. navFetches' = [navFetches EXCEPT ![f] = [navFetches[f] EXCEPT !.state = state]]
    BY <1>1
  <2> DEFINE r == [navFetches[f] EXCEPT !.state = state]
  <2>2. r \in FetchStates /\ navFetches' = [navFetches EXCEPT ![f] = r]
    BY <1>3, <2>1
  <2> HIDE DEF r
  <2> QED BY <1>2, <2>2, ExceptSeq
<1>5. CASE ForgetPrefetched(navFetches[f].url)
  <2>1. OrderOK' /\ navDocs' \in [NavUrls -> Nat]
        /\ \A u \in NavUrls : navDocs'[u] <= Len(navFetches)
    BY <1>i, <1>3, <1>5, ForgetKeepsOrder
  <2>2. DocsOK'
    BY <1>i, <1>4, <2>1 DEF DocsOK
  <2> QED BY <1>i, <2>1, <2>2 DEF CacheInv, LoadsOK, Responds
<1>6. CASE UNCHANGED navCache
  <2>1. OrderOK'
    BY <1>i, <1>6 DEF navCache, OrderOK, Listed
  <2>2. DocsOK'
    BY <1>i, <1>4, <1>6 DEF DocsOK, navCache
  <2> QED BY <1>i, <2>1, <2>2 DEF CacheInv, LoadsOK, Responds
<1> QED BY <1>1, <1>5, <1>6

\* A load begins: it waits for the cached request or for a new one.
LEMMA StartLoadKeeps ==
  ASSUME CacheInv, NEW l \in Loads, NEW url \in NavUrls, NEW push \in BOOLEAN,
         StartLoad(l, url, push)
  PROVE  CacheInv'
<1>i. OrderOK /\ DocsOK /\ LoadsOK
  BY DEF CacheInv
<1>n. Len(navFetches) \in Nat /\ MaxNavFetches \in Nat /\ navDocs[url] \in Nat
  BY <1>i, NavAssumption, LenProperties DEF DocsOK
<1> DEFINE fetch == IF navDocs[url] # 0 THEN navDocs[url] ELSE Len(navFetches) + 1
<1>1. /\ IF navDocs[url] # 0 THEN UNCHANGED navFetches ELSE FetchDocument(url)
      /\ navLoad' = [navLoad EXCEPT ![l] =
           [pc |-> "fetching", url |-> url, push |-> push, fetch |-> fetch]]
      /\ UNCHANGED <<navCache, navHover>>
  BY DEF StartLoad
<1>2. /\ navFetches' \in Seq(FetchStates) /\ Len(navFetches') <= MaxNavFetches
      /\ Len(navFetches) <= Len(navFetches') /\ fetch <= MaxNavFetches
  <2>1. CASE navDocs[url] # 0
    BY <1>i, <1>n, <1>1, <2>1 DEF DocsOK
  <2>2. CASE navDocs[url] = 0
    <3>1. /\ navFetches' \in Seq(FetchStates) /\ Len(navFetches') = Len(navFetches) + 1
          /\ Len(navFetches') <= MaxNavFetches
      BY <1>i, <1>1, <2>2, FetchAdds
    <3> QED BY <1>n, <2>2, <3>1
  <2> QED BY <2>1, <2>2
<1>3. fetch \in 0 .. MaxNavFetches
  BY <1>n, <1>2
<1>4. LoadsOK'
  <2> HIDE DEF fetch
  <2>1. [pc |-> "fetching", url |-> url, push |-> push, fetch |-> fetch] \in LoadStates
    BY <1>3 DEF LoadStates
  <2> QED BY <1>i, <1>1, <2>1 DEF LoadsOK
<1>5. OrderOK'
  BY <1>i, <1>1 DEF navCache, OrderOK, Listed
<1>6. DocsOK'
  <2>1. Len(navFetches') \in Nat
    BY <1>2, LenProperties
  <2>2. navDocs' = navDocs
    BY <1>1 DEF navCache
  <2> QED BY <1>i, <1>n, <1>2, <2>1, <2>2 DEF DocsOK
<1> QED BY <1>4, <1>5, <1>6 DEF CacheInv

\* No load is a load.
LEMMA NoLoadIsLoad == NoLoad \in LoadStates
<1>1. 0 \in 0 .. MaxNavFetches /\ NavStart \in NavUrls
  BY NavAssumption
<1> QED BY <1>1 DEF NoLoad, LoadStates

\* A full navigation starts with an empty cache.
LEMMA FullNavigationEmpties ==
  ASSUME CacheInv, NEW url \in NavUrls, FullNavigation(url), UNCHANGED navFetches
  PROVE  CacheInv'
<1>1. /\ navDocs' = NoDocs /\ navOrder' = <<>> /\ navHover' = {}
      /\ navLoad' = [l \in Loads |-> NoLoad] /\ navFetches' = navFetches
  BY DEF FullNavigation
<1>2. OrderOK'
  BY <1>1, NavAssumption DEF OrderOK, Listed, NoDocs
<1>3. Len(navFetches) \in Nat
  BY LenProperties DEF CacheInv, DocsOK
<1>4. DocsOK'
  BY <1>1, <1>3 DEF CacheInv, DocsOK, NoDocs
<1>5. LoadsOK'
  BY <1>1, NoLoadIsLoad DEF LoadsOK
<1> QED BY <1>2, <1>4, <1>5 DEF CacheInv

\* A load throws.
LEMMA AbandonKeepsCache ==
  ASSUME CacheInv, NEW l \in Loads, Abandon(l), UNCHANGED navFetches PROVE CacheInv'
<1>1. CASE navLoad[l].push
  <2>1. navLoad[l].url \in NavUrls
    BY DEF CacheInv, LoadsOK, LoadStates
  <2> QED BY <1>1, <2>1, FullNavigationEmpties DEF Abandon
<1>2. CASE ~navLoad[l].push
  <2>1. navLoad' = [navLoad EXCEPT ![l] = NoLoad] /\ UNCHANGED <<navCache, navHover, navFetches>>
    BY <1>2 DEF Abandon
  <2>2. LoadsOK'
    BY <2>1, NoLoadIsLoad DEF CacheInv, LoadsOK
  <2> QED BY <2>1, <2>2 DEF CacheInv, navCache, OrderOK, DocsOK, Listed
<1> QED BY <1>1, <1>2

\* Every step keeps the cache in order.
LEMMA CacheInvStep == CacheInv /\ NavShape /\ [NavNext]_navVars => CacheInv'
<1> SUFFICES ASSUME CacheInv, NavShape, [NavNext]_navVars PROVE CacheInv'
  OBVIOUS
<1>i. OrderOK /\ DocsOK /\ LoadsOK
  BY DEF CacheInv
<1>s. ASSUME UNCHANGED <<navCache, navFetches>>, LoadsOK' PROVE CacheInv'
  BY <1>i, <1>s DEF CacheInv, navCache, OrderOK, DocsOK, Listed
<1>l. ASSUME UNCHANGED <<navHover, navLoad>>, OrderOK', DocsOK' PROVE CacheInv'
  BY <1>i, <1>l DEF CacheInv, LoadsOK
<1>1. CASE UNCHANGED navVars
  BY <1>i, <1>1, <1>s DEF navVars, LoadsOK
<1>2. ASSUME NEW url \in NavUrls, Hover(url) PROVE CacheInv'
  BY <1>i, <1>2, <1>s DEF Hover, LoadsOK
<1>3. ASSUME NEW url \in NavUrls, FocusOrTouch(url) PROVE CacheInv'
  BY <1>3, <1>l, PrefetchKeeps DEF FocusOrTouch
<1>4. CASE HoverEnds
  BY <1>i, <1>4, <1>s DEF HoverEnds, LoadsOK
<1>5. CASE HoverFires
  <2>1. PICK url \in navHover : PrefetchDocument(url)
    BY <1>5 DEF HoverFires
  <2>2. OrderOK' /\ DocsOK'
    BY <1>i, <2>1, PrefetchKeeps DEF LoadsOK
  <2> QED BY <1>i, <1>5, <2>2 DEF HoverFires, CacheInv, LoadsOK
<1>6. ASSUME NEW l \in Loads, NEW url \in NavUrls, Click(l, url) PROVE CacheInv'
  BY <1>6, StartLoadKeeps DEF Click
<1>7. ASSUME NEW l \in Loads, Back(l) PROVE CacheInv'
  <2>1. PICK url \in navVisited : StartLoad(l, url, FALSE)
    BY <1>7 DEF Back
  <2>2. url \in NavUrls
    BY DEF NavShape
  <2> QED BY <2>1, <2>2, StartLoadKeeps
<1>8. ASSUME NEW l \in Loads, LoadFails(l) \/ ScriptFails(l) PROVE CacheInv'
  BY <1>8, AbandonKeepsCache DEF LoadFails, ScriptFails
<1>9. ASSUME NEW l \in Loads, LoadIsOther(l) PROVE CacheInv'
  <2>1. navLoad[l].url \in NavUrls
    BY DEF NavShape
  <2> QED BY <1>9, <2>1, FullNavigationEmpties DEF LoadIsOther
<1>10. ASSUME NEW l \in Loads, LoadShows(l) PROVE CacheInv'
  <2>1. navLoad[l].url \in NavUrls
    BY DEF NavShape
  <2>2. OrderOK' /\ navDocs' \in [NavUrls -> Nat]
        /\ \A u \in NavUrls : navDocs'[u] <= Len(navFetches)
    BY <1>i, <1>10, <2>1, ForgetKeepsOrder DEF LoadShows
  <2>3. navLoad' = [navLoad EXCEPT ![l] = [navLoad[l] EXCEPT !.pc = "scripts"]]
        /\ navHover' = navHover /\ navFetches' = navFetches
    BY <1>10 DEF LoadShows
  <2>4. [navLoad[l] EXCEPT !.pc = "scripts"] \in LoadStates
    BY <1>i DEF LoadsOK, LoadStates
  <2>5. LoadsOK'
    BY <1>i, <2>3, <2>4 DEF LoadsOK
  <2> QED BY <1>i, <2>2, <2>3, <2>5 DEF CacheInv, DocsOK
<1>11. ASSUME NEW l \in Loads, LoadEnds(l) PROVE CacheInv'
  <2>1. LoadsOK'
    BY <1>i, <1>11, NoLoadIsLoad DEF LoadEnds, LoadsOK
  <2> QED BY <1>11, <1>s, <2>1 DEF LoadEnds
<1> QED BY <1>1, <1>2, <1>3, <1>4, <1>5, <1>6, <1>7, <1>8, <1>9, <1>10, <1>11, RespondsKeeps
        DEF NavNext

\* The order lists exactly the documents that were fetched ahead, each once and
\* never more than prefetchLimit, through evictions, failures, navigations and
\* loads that take a document out of the cache.
THEOREM PrefetchIsBounded == NavSpec => []NavTypeOK
<1>1. NavInit => CacheInv
  <2> SUFFICES ASSUME NavInit PROVE CacheInv
    OBVIOUS
  <2>1. OrderOK
    BY NavAssumption DEF NavInit, OrderOK, Listed, NoDocs
  <2>2. DocsOK
    BY NavAssumption DEF NavInit, DocsOK, NoDocs
  <2>3. LoadsOK
    BY NoLoadIsLoad DEF NavInit, LoadsOK
  <2> QED BY <2>1, <2>2, <2>3 DEF CacheInv
<1>2. NavInv => NavShape
  BY DEF NavInv
<1>3. NavShape /\ CacheInv => NavTypeOK
  <2> SUFFICES ASSUME NavShape, CacheInv PROVE NavTypeOK
    OBVIOUS
  <2>n. Len(navFetches) \in Nat
    BY LenProperties DEF CacheInv, DocsOK
  <2>1. \A f \in 1 .. Len(navFetches) :
          navFetches[f] \in [url : NavUrls, state : {"pending", "html", "other", "failed"}]
    BY ElementOfSeq DEF CacheInv, DocsOK, FetchStates
  <2>2. navDocs \in [NavUrls -> 0 .. Len(navFetches)]
    BY <2>n DEF CacheInv, DocsOK
  <2>3. {navOrder[i] : i \in 1 .. Len(navOrder)} = Cached
    <3>1. \A i \in 1 .. Len(navOrder) : navOrder[i] \in NavUrls
      BY ElementOfSeq DEF CacheInv, OrderOK
    <3> QED BY <3>1 DEF CacheInv, OrderOK, Listed, Cached
  <2> QED BY <2>1, <2>2, <2>3 DEF NavShape, CacheInv, OrderOK, DocsOK, LoadsOK, NavTypeOK
<1> QED BY <1>1, <1>2, <1>3, CacheInvStep, NavInvariant, PTL DEF NavSpec

-----------------------------------------------------------------------------
(* Query regions.                                                          *)

FormStates ==
  [pc : {"idle", "sent", "run", "answered"}, event : Nat, patched : SUBSET RegQueries, at : Nat]
RefreshStates ==
  [pc : {"none", "endpoint", "patches", "document", "page"}, queries : SUBSET RegQueries,
   held : SUBSET RegHere, patched : SUBSET RegQueries, at : Nat]

\* The variables the argument is about have their types, and only commands
\* that ran are told of or remembered.
RegShape ==
  /\ regTold \in Seq(SUBSET RegQueries) /\ Len(regTold) <= MaxRegEvents
  /\ regGot \in [RegHere -> Nat] /\ regPage \subseteq RegHere
  /\ regInbox \in Seq(Nat)
  /\ \A i \in 1 .. Len(regInbox) : 1 <= regInbox[i] /\ regInbox[i] <= Len(regTold)
  /\ regHandled \in Seq(Nat)
  /\ \A e \in Remembered : 1 <= e /\ e <= Len(regTold)
  /\ regForm \in [RegForms -> FormStates]
  /\ regRefresh \in [RegEvents -> RefreshStates]

\* An answer was rendered after its command ran.
FormOK(f) ==
  /\ regForm[f].pc \in {"run", "answered"} =>
       1 <= regForm[f].event /\ regForm[f].event <= Len(regTold)
  /\ regForm[f].pc = "answered" => regForm[f].event <= regForm[f].at

\* A refresh is for a command that ran; a region the command made stale is
\* still to be refreshed, or something rendered later has come for it; and
\* what the server renders for the refresh is later than the command.
RefreshOK(e) ==
  regRefresh[e].pc # "none" =>
    /\ e <= Len(regTold)
    /\ \A q \in regTold[e] \cap RegHere : q \in regRefresh[e].queries \/ e <= regGot[q]
    /\ regRefresh[e].pc \in {"patches", "page"} => e <= regRefresh[e].at

RegInv ==
  /\ RegShape
  /\ \A f \in RegForms : FormOK(f)
  /\ \A e \in RegEvents : RefreshOK(e)
  /\ HandledMeansRefreshed

\* Commands and renderings only add to what was told and what has come.
RegGrows ==
  /\ Len(regTold) <= Len(regTold')
  /\ \A e \in 1 .. Len(regTold) : regTold'[e] = regTold[e]
  /\ \A q \in RegHere : regGot[q] <= regGot'[q]
  /\ regMissed \subseteq regMissed'

\* Remembering an event adds it, and may forget another.
LEMMA RememberAdds ==
  ASSUME regHandled \in Seq(Nat), NEW e \in Nat, RememberHandled(e)
  PROVE  regHandled' \in Seq(Nat) /\ Remembered' \subseteq Remembered \cup {e}
<1> DEFINE order == IF e \in Remembered THEN regHandled ELSE Append(regHandled, e)
<1>1. regHandled' = IF Len(order) > RegHandledLimit THEN Tail(order) ELSE order
  BY DEF RememberHandled
<1>2. order \in Seq(Nat) /\ \A i \in 1 .. Len(order) : order[i] \in Remembered \cup {e}
  BY DEF Remembered
<1> HIDE DEF order
<1>3. RegHandledLimit \in Nat
  BY RegAssumption
<1>4. CASE Len(order) > RegHandledLimit
  <2>1. order # <<>>
    BY <1>2, <1>3, <1>4
  <2>2. /\ Tail(order) \in Seq(Nat) /\ Len(Tail(order)) = Len(order) - 1
        /\ \A i \in 1 .. Len(Tail(order)) : Tail(order)[i] = order[i + 1] /\ i + 1 \in 1 .. Len(order)
    BY <1>2, <2>1
  <2>3. regHandled' = Tail(order)
    BY <1>1, <1>4
  <2>4. \A i \in 1 .. Len(regHandled') : regHandled'[i] \in Remembered \cup {e}
    BY <1>2, <2>2, <2>3
  <2> QED BY <2>2, <2>3, <2>4 DEF Remembered
<1>5. CASE ~(Len(order) > RegHandledLimit)
  BY <1>1, <1>2, <1>5 DEF Remembered
<1> QED BY <1>4, <1>5

\* What is remembered stays refreshed, and an event that is remembered now is.
LEMMA HandledKept ==
  ASSUME RegInv, RegGrows, Len(regTold') \in Nat, regGot' \in [RegHere -> Nat],
         \/ regHandled' = regHandled
         \/ \E e \in Nat :
              /\ RememberHandled(e) /\ 1 <= e /\ e <= Len(regTold)
              /\ \A q \in regTold[e] \cap RegHere : e <= regGot'[q] \/ <<e, q>> \in regMissed'
  PROVE  /\ regHandled' \in Seq(Nat)
         /\ \A e \in Remembered' : 1 <= e /\ e <= Len(regTold')
         /\ HandledMeansRefreshed'
<1>t. /\ Len(regTold) \in Nat /\ regHandled \in Seq(Nat)
      /\ \A e \in Remembered : e \in Nat /\ 1 <= e /\ e <= Len(regTold)
      /\ \A q \in RegHere : regGot[q] \in Nat /\ regGot'[q] \in Nat
  <2>1. regTold \in Seq(SUBSET RegQueries) /\ regHandled \in Seq(Nat) /\ regGot \in [RegHere -> Nat]
    BY DEF RegInv, RegShape
  <2>2. \A e \in Remembered : e \in Nat
    BY <2>1 DEF Remembered
  <2>3. \A e \in Remembered : 1 <= e /\ e <= Len(regTold)
    BY DEF RegInv, RegShape
  <2> QED BY <2>1, <2>2, <2>3
<1>1. \A e \in Remembered :
        \A q \in regTold[e] \cap RegHere : e <= regGot'[q] \/ <<e, q>> \in regMissed'
  <2> SUFFICES ASSUME NEW e \in Remembered, NEW q \in regTold[e] \cap RegHere
               PROVE  e <= regGot'[q] \/ <<e, q>> \in regMissed'
    OBVIOUS
  <2>1. regGot[q] >= e \/ <<e, q>> \in regMissed
    BY DEF RegInv, HandledMeansRefreshed
  <2>2. regGot[q] <= regGot'[q] /\ regMissed \subseteq regMissed'
    BY DEF RegGrows
  <2> QED BY <2>1, <2>2, <1>t
<1>2. \A e \in Remembered' :
        /\ e \in Nat /\ 1 <= e /\ e <= Len(regTold)
        /\ \A q \in regTold[e] \cap RegHere : e <= regGot'[q] \/ <<e, q>> \in regMissed'
  <2>1. CASE regHandled' = regHandled
    BY <2>1, <1>t, <1>1 DEF Remembered
  <2>2. ASSUME NEW d \in Nat, RememberHandled(d), 1 <= d, d <= Len(regTold),
               \A q \in regTold[d] \cap RegHere : d <= regGot'[q] \/ <<d, q>> \in regMissed'
        PROVE  \A e \in Remembered' :
                 /\ e \in Nat /\ 1 <= e /\ e <= Len(regTold)
                 /\ \A q \in regTold[e] \cap RegHere : e <= regGot'[q] \/ <<e, q>> \in regMissed'
    <3>1. Remembered' \subseteq Remembered \cup {d}
      BY <2>2, <1>t, RememberAdds
    <3> QED BY <2>2, <3>1, <1>t, <1>1
  <2> QED BY <2>1, <2>2
<1>3. regHandled' \in Seq(Nat)
  BY <1>t, RememberAdds
<1>4. \A e \in Remembered' : 1 <= e /\ e <= Len(regTold') /\ regTold'[e] = regTold[e]
  BY <1>2, <1>t DEF RegGrows
<1>5. HandledMeansRefreshed'
  <2> SUFFICES ASSUME NEW e \in Remembered'
               PROVE  \A q \in regTold'[e] \cap RegHere :
                        regGot'[q] >= e \/ <<e, q>> \in regMissed'
    BY DEF HandledMeansRefreshed
  <2> QED BY <1>2, <1>4, <1>t
<1> QED BY <1>3, <1>4, <1>5

\* A refresh that is left alone stays as it should be.
LEMMA RefreshKept ==
  ASSUME RegInv, RegGrows, Len(regTold') \in Nat, regGot' \in [RegHere -> Nat],
         NEW e \in RegEvents,
         \/ regRefresh'[e].pc = "none"
         \/ /\ regRefresh'[e].pc = regRefresh[e].pc /\ regRefresh'[e].at = regRefresh[e].at
            /\ regRefresh'[e].queries = regRefresh[e].queries
  PROVE  RefreshOK(e)'
<1>1. CASE regRefresh'[e].pc = "none"
  BY <1>1 DEF RefreshOK
<1>2. CASE /\ regRefresh'[e].pc = regRefresh[e].pc /\ regRefresh'[e].at = regRefresh[e].at
           /\ regRefresh'[e].queries = regRefresh[e].queries /\ regRefresh[e].pc # "none"
  <2>1. /\ e \in Nat /\ 1 <= e /\ Len(regTold) \in Nat
        /\ \A q \in RegHere : regGot[q] \in Nat /\ regGot'[q] \in Nat
    BY RegAssumption DEF RegInv, RegShape, RegEvents
  <2>2. RefreshOK(e)
    BY DEF RegInv
  <2>3. e <= Len(regTold) /\ regTold'[e] = regTold[e] /\ e <= Len(regTold')
    BY <1>2, <2>1, <2>2 DEF RefreshOK, RegGrows
  <2>4. \A q \in regTold[e] \cap RegHere : q \in regRefresh[e].queries \/ e <= regGot'[q]
    BY <1>2, <2>1, <2>2 DEF RefreshOK, RegGrows
  <2> QED BY <1>2, <2>2, <2>3, <2>4 DEF RefreshOK
<1> QED BY <1>1, <1>2

\* Detach changes only what is held.
LEMMA DetachKeeps ==
  ASSUME RegInv, NEW rs \in SUBSET RegHere
  PROVE  /\ Detach(rs) \in [RegEvents -> RefreshStates]
         /\ \A e \in RegEvents :
              /\ Detach(rs)[e].pc = regRefresh[e].pc /\ Detach(rs)[e].at = regRefresh[e].at
              /\ Detach(rs)[e].queries = regRefresh[e].queries
<1>1. \A e \in RegEvents : regRefresh[e] \in RefreshStates
  BY DEF RegInv, RegShape
<1>2. \A e \in RegEvents : Detach(rs)[e] = [regRefresh[e] EXCEPT !.held = @ \ rs]
  BY DEF Detach
<1>3. \A r \in RefreshStates :
        /\ [r EXCEPT !.held = @ \ rs] \in RefreshStates
        /\ [r EXCEPT !.held = @ \ rs].pc = r.pc /\ [r EXCEPT !.held = @ \ rs].at = r.at
        /\ [r EXCEPT !.held = @ \ rs].queries = r.queries
  BY DEF RefreshStates
<1>4. Detach(rs) = [e \in RegEvents |-> Detach(rs)[e]]
  BY DEF Detach
<1> QED BY <1>1, <1>2, <1>3, <1>4

\* refreshInvalidatedQueries leaves an event alone, begins its refresh, or
\* remembers one that has no region in the page, and has missed those it had.
LEMMA StartRefreshDoes ==
  ASSUME NEW active \in [RegEvents -> RefreshStates], NEW e \in RegEvents,
         NEW queries \in SUBSET RegQueries, StartRefresh(active, e, queries), regPage \subseteq RegHere
  PROVE  /\ regRefresh' \in [RegEvents -> RefreshStates]
         /\ \A d \in RegEvents : d # e => regRefresh'[d] = active[d]
         /\ \/ regRefresh'[e] = active[e]
            \/ regRefresh'[e].pc = "endpoint" /\ regRefresh'[e].queries = queries
         /\ \/ regHandled' = regHandled
            \/ RememberHandled(e) /\ \A q \in queries \cap RegHere : <<e, q>> \in regMissed'
         /\ regMissed \subseteq regMissed'
<1> DEFINE begun == [NoRefresh EXCEPT !.pc = "endpoint", !.queries = queries,
                                      !.held = queries \cap regPage]
<1>1. begun \in RefreshStates /\ begun.pc = "endpoint" /\ begun.queries = queries
  BY DEF NoRefresh, RefreshStates
<1>2. \/ regRefresh' = active /\ regHandled' = regHandled /\ regMissed' = regMissed
      \/ regRefresh' = active /\ RememberHandled(e) /\ Miss(e, queries)
      \/ regRefresh' = [active EXCEPT ![e] = begun] /\ regHandled' = regHandled /\ regMissed' = regMissed
  <2>1. CASE e \in Remembered \/ active[e].pc # "none"
    BY <2>1 DEF StartRefresh
  <2>2. CASE e \notin Remembered /\ active[e].pc = "none" /\ queries \cap regPage = {}
    BY <2>2 DEF StartRefresh
  <2>3. CASE e \notin Remembered /\ active[e].pc = "none" /\ queries \cap regPage # {}
    BY <2>3 DEF StartRefresh
  <2> QED BY <2>1, <2>2, <2>3
<1>3. Miss(e, queries) =>
        regMissed \subseteq regMissed' /\ \A q \in queries \cap RegHere : <<e, q>> \in regMissed'
  BY DEF Miss
<1> HIDE DEF begun
<1> QED BY <1>1, <1>2, <1>3

\* The counters the steps compare.
LEMMA RegNumbers ==
  ASSUME RegInv
  PROVE  /\ Len(regTold) \in Nat /\ MaxRegEvents \in Nat
         /\ \A q \in RegHere : regGot[q] \in Nat
         /\ \A e \in RegEvents : e \in Nat /\ 1 <= e
         /\ \A f \in RegForms : regForm[f] \in FormStates
         /\ \A e \in RegEvents : regRefresh[e] \in RefreshStates
         /\ \A e \in Nat : 1 <= e /\ e <= Len(regTold) => e \in RegEvents /\ regTold[e] \in SUBSET RegQueries
<1>1. regTold \in Seq(SUBSET RegQueries) /\ Len(regTold) <= MaxRegEvents /\ MaxRegEvents \in Nat
  BY RegAssumption DEF RegInv, RegShape
<1>2. \A e \in Nat : 1 <= e /\ e <= Len(regTold) => e \in RegEvents /\ regTold[e] \in SUBSET RegQueries
  BY <1>1 DEF RegEvents
<1>3. /\ regGot \in [RegHere -> Nat] /\ regForm \in [RegForms -> FormStates]
      /\ regRefresh \in [RegEvents -> RefreshStates]
  BY DEF RegInv, RegShape
<1>4. \A e \in RegEvents : e \in Nat /\ 1 <= e
  BY <1>1 DEF RegEvents
<1>5. Len(regTold) \in Nat
  BY <1>1
<1> QED BY <1>1, <1>2, <1>3, <1>4, <1>5

\* A command runs: nothing that was told before changes.
LEMMA CommandTells ==
  ASSUME RegInv, NEW queries \in SUBSET RegQueries, RunCommandFor(queries),
         UNCHANGED <<regRefresh, regHandled, regHist>>
  PROVE  /\ regTold' \in Seq(SUBSET RegQueries)
         /\ Len(regTold') = Len(regTold) + 1 /\ Len(regTold') <= MaxRegEvents
         /\ regInbox' \in Seq(Nat)
         /\ \A i \in 1 .. Len(regInbox') : 1 <= regInbox'[i] /\ regInbox'[i] <= Len(regTold')
         /\ RegGrows /\ regGot' \in [RegHere -> Nat]
<1>n. /\ Len(regTold) \in Nat /\ MaxRegEvents \in Nat /\ regTold \in Seq(SUBSET RegQueries)
      /\ regInbox \in Seq(Nat)
      /\ \A i \in 1 .. Len(regInbox) : regInbox[i] \in Nat /\ 1 <= regInbox[i] /\ regInbox[i] <= Len(regTold)
  <2>1. regInbox \in Seq(Nat) /\ \A i \in 1 .. Len(regInbox) : 1 <= regInbox[i] /\ regInbox[i] <= Len(regTold)
    BY DEF RegInv, RegShape
  <2>2. \A i \in 1 .. Len(regInbox) : regInbox[i] \in Nat
    BY <2>1
  <2> QED BY <2>1, <2>2, RegNumbers DEF RegInv, RegShape
<1>1. /\ Len(regTold) < MaxRegEvents /\ regTold' = Append(regTold, queries)
      /\ regInbox' = Append(regInbox, Len(regTold) + 1) \/ regInbox' = regInbox
      /\ regGot' = regGot /\ regMissed' = regMissed
  BY DEF RunCommandFor, Version, regHist
<1>2. /\ regTold' \in Seq(SUBSET RegQueries) /\ Len(regTold') = Len(regTold) + 1
      /\ \A e \in 1 .. Len(regTold) : regTold'[e] = regTold[e]
  BY <1>1, <1>n
<1>3. /\ regInbox' \in Seq(Nat)
      /\ \A i \in 1 .. Len(regInbox') : 1 <= regInbox'[i] /\ regInbox'[i] <= Len(regTold) + 1
  <2>1. CASE regInbox' = regInbox
    BY <2>1, <1>n
  <2>2. CASE regInbox' = Append(regInbox, Len(regTold) + 1)
    <3>1. /\ regInbox' \in Seq(Nat) /\ Len(regInbox') = Len(regInbox) + 1
          /\ regInbox'[Len(regInbox) + 1] = Len(regTold) + 1
          /\ \A i \in 1 .. Len(regInbox) : regInbox'[i] = regInbox[i]
      BY <2>2, <1>n
    <3>2. ASSUME NEW i \in 1 .. Len(regInbox')
          PROVE 1 <= regInbox'[i] /\ regInbox'[i] <= Len(regTold) + 1
      <4>0. Len(regInbox) \in Nat /\ i \in 1 .. Len(regInbox) + 1
        BY <3>1, <1>n
      <4>1. CASE i = Len(regInbox) + 1
        <5>1. regInbox'[i] = Len(regTold) + 1
          BY <4>1, <3>1
        <5> QED BY <5>1, <1>n
      <4>2. CASE i \in 1 .. Len(regInbox)
        <5>1. regInbox'[i] = regInbox[i] /\ regInbox[i] \in Nat
              /\ 1 <= regInbox[i] /\ regInbox[i] <= Len(regTold)
          BY <4>2, <3>1, <1>n
        <5> QED BY <5>1, <1>n
      <4> QED BY <4>0, <4>1, <4>2
    <3> QED BY <3>1, <3>2
  <2> QED BY <1>1, <2>1, <2>2
<1>4. RegGrows
  BY <1>1, <1>2, <1>n, RegNumbers DEF RegGrows
<1> QED BY <1>1, <1>2, <1>3, <1>4, <1>n DEF RegInv, RegShape

\* What a rendering brings.
LEMMA GetBrings ==
  ASSUME RegInv, NEW qs, NEW at \in Nat, Get(qs, at), regTold' = regTold, regMissed \subseteq regMissed'
  PROVE  /\ RegGrows /\ regGot' \in [RegHere -> Nat]
         /\ \A q \in RegHere : q \in qs => at <= regGot'[q]
<1>n. Len(regTold) \in Nat /\ \A q \in RegHere : regGot[q] \in Nat
  BY RegNumbers
<1>1. \A q \in RegHere : regGot'[q] = IF q \in qs /\ at > regGot[q] THEN at ELSE regGot[q]
  BY DEF Get
<1>2. regGot' = [q \in RegHere |-> regGot'[q]]
  BY DEF Get
<1>3. \A q \in RegHere : regGot'[q] \in Nat /\ regGot[q] <= regGot'[q] /\ (q \in qs => at <= regGot'[q])
  BY <1>1, <1>n
<1> QED BY <1>2, <1>3, <1>n DEF RegGrows

\* A form that is left alone, or is idle again.
LEMMA FormKept ==
  ASSUME RegInv, RegGrows, Len(regTold') \in Nat, NEW f \in RegForms,
         regForm'[f] = regForm[f] \/ regForm'[f].pc \in {"idle", "sent"}
  PROVE  FormOK(f)'
<1>1. CASE regForm'[f].pc \in {"idle", "sent"}
  BY <1>1 DEF FormOK
<1>2. CASE regForm'[f] = regForm[f]
  <2>1. FormOK(f) /\ regForm[f].event \in Nat /\ Len(regTold) \in Nat
    BY RegNumbers DEF RegInv, FormStates
  <2>2. Len(regTold) <= Len(regTold')
    BY DEF RegGrows
  <2> QED BY <1>2, <2>1, <2>2 DEF FormOK
<1> QED BY <1>1, <1>2

\* The parts of the invariant, put together.
LEMMA RegInvFrom ==
  ASSUME RegInv, RegGrows,
         regTold' \in Seq(SUBSET RegQueries), Len(regTold') <= MaxRegEvents,
         regInbox' \in Seq(Nat),
         \A i \in 1 .. Len(regInbox') : 1 <= regInbox'[i] /\ regInbox'[i] <= Len(regTold'),
         regGot' \in [RegHere -> Nat], regPage' \subseteq RegHere,
         regForm' \in [RegForms -> FormStates], \A f \in RegForms : FormOK(f)',
         regRefresh' \in [RegEvents -> RefreshStates], \A e \in RegEvents : RefreshOK(e)',
         \/ regHandled' = regHandled
         \/ \E e \in Nat :
              /\ RememberHandled(e) /\ 1 <= e /\ e <= Len(regTold)
              /\ \A q \in regTold[e] \cap RegHere : e <= regGot'[q] \/ <<e, q>> \in regMissed'
  PROVE  RegInv'
<1>1. Len(regTold') \in Nat
  OBVIOUS
<1>2. /\ regHandled' \in Seq(Nat)
      /\ \A e \in Remembered' : 1 <= e /\ e <= Len(regTold')
      /\ HandledMeansRefreshed'
  BY <1>1, HandledKept
<1> QED BY <1>2 DEF RegInv, RegShape

\* What a step leaves alone, of the facts above.
LEMMA RegSame ==
  ASSUME RegInv
  PROVE  /\ regTold \in Seq(SUBSET RegQueries) /\ Len(regTold) <= MaxRegEvents
         /\ regInbox \in Seq(Nat)
         /\ \A i \in 1 .. Len(regInbox) : 1 <= regInbox[i] /\ regInbox[i] <= Len(regTold)
         /\ regGot \in [RegHere -> Nat] /\ regPage \subseteq RegHere
         /\ regForm \in [RegForms -> FormStates]
         /\ regRefresh \in [RegEvents -> RefreshStates]
         /\ regTold' = regTold /\ regGot' = regGot /\ regMissed \subseteq regMissed' => RegGrows
<1>1. /\ regTold \in Seq(SUBSET RegQueries) /\ Len(regTold) <= MaxRegEvents
      /\ regInbox \in Seq(Nat)
      /\ \A i \in 1 .. Len(regInbox) : 1 <= regInbox[i] /\ regInbox[i] <= Len(regTold)
      /\ regGot \in [RegHere -> Nat] /\ regPage \subseteq RegHere
      /\ regForm \in [RegForms -> FormStates]
      /\ regRefresh \in [RegEvents -> RefreshStates]
  BY DEF RegInv, RegShape
<1>2. regTold' = regTold /\ regGot' = regGot /\ regMissed \subseteq regMissed' => RegGrows
  BY RegNumbers DEF RegGrows
<1> QED BY <1>1, <1>2

\* A step of one form that changes nothing else.
LEMMA FormStep ==
  ASSUME RegInv, UNCHANGED <<regServer, regDoc, regRefresh, regHandled, regHist>>,
         regForm' \in [RegForms -> FormStates], \A f \in RegForms : FormOK(f)'
  PROVE  RegInv'
<1>1. /\ regTold' = regTold /\ regInbox' = regInbox /\ regRefresh' = regRefresh
      /\ regHandled' = regHandled /\ regGot' = regGot /\ regMissed' = regMissed /\ regPage' = regPage
  BY DEF regServer, regDoc, regHist
<1>2. RegGrows
  BY <1>1, RegSame
<1>3. ASSUME NEW e \in RegEvents PROVE RefreshOK(e)'
  BY <1>1, <1>2, RegSame, RegNumbers, RefreshKept
<1> QED BY <1>1, <1>2, <1>3, RegSame, RegInvFrom

\* A form is submitted, fails, or its answer is rendered.
LEMMA FormsKeep ==
  ASSUME RegInv, NEW f \in RegForms, Submit(f) \/ CommandFails(f) \/ RegionsRendered(f)
  PROVE  RegInv'
<1>n. regForm \in [RegForms -> FormStates] /\ regForm[f] \in FormStates /\ Len(regTold) \in Nat
  BY RegSame, RegNumbers
<1>u. UNCHANGED <<regServer, regDoc, regRefresh, regHandled, regHist>>
  BY DEF Submit, CommandFails, RegionsRendered
<1>g. RegGrows /\ regTold' = regTold
  BY <1>u, RegSame DEF regServer, regHist
<1>1. CASE Submit(f) \/ CommandFails(f)
  <2>1. PICK r \in FormStates :
          r.pc \in {"idle", "sent"} /\ regForm' = [regForm EXCEPT ![f] = r]
    <3>1. CASE Submit(f)
      <4>1. regForm' = [regForm EXCEPT ![f] = [regForm[f] EXCEPT !.pc = "sent"]]
        BY <3>1 DEF Submit
      <4>2. [regForm[f] EXCEPT !.pc = "sent"] \in FormStates /\ [regForm[f] EXCEPT !.pc = "sent"].pc = "sent"
        BY <1>n DEF FormStates
      <4> QED BY <4>1, <4>2
    <3>2. CASE CommandFails(f)
      <4>1. NoForm \in FormStates /\ NoForm.pc = "idle"
        BY DEF NoForm, FormStates
      <4> QED BY <3>2, <4>1 DEF CommandFails
    <3> QED BY <1>1, <3>1, <3>2
  <2>2. /\ regForm' \in [RegForms -> FormStates] /\ regForm'[f].pc \in {"idle", "sent"}
        /\ \A g \in RegForms : g # f => regForm'[g] = regForm[g]
    BY <2>1, <1>n
  <2>3. ASSUME NEW g \in RegForms PROVE FormOK(g)'
    BY <2>2, <1>g, <1>n, FormKept
  <2> QED BY <1>u, <2>2, <2>3, FormStep
<1>2. CASE RegionsRendered(f)
  <2>1. PICK patched \in SUBSET regTold[regForm[f].event] :
          regForm' = [regForm EXCEPT ![f] = [regForm[f] EXCEPT !.pc = "answered", !.patched = patched,
                                                               !.at = Len(regTold)]]
    BY <1>2 DEF RegionsRendered, Version
  <2>2. /\ regForm[f].event \in Nat /\ 1 <= regForm[f].event /\ regForm[f].event <= Len(regTold)
    BY <1>2, <1>n DEF RegionsRendered, RegInv, FormOK, FormStates
  <2>3. patched \in SUBSET RegQueries
    BY <2>2, RegNumbers
  <2> DEFINE r == [regForm[f] EXCEPT !.pc = "answered", !.patched = patched, !.at = Len(regTold)]
  <2>4. r \in FormStates /\ r.event = regForm[f].event /\ r.at = Len(regTold)
    BY <2>3, <1>n DEF FormStates
  <2> HIDE DEF r
  <2>5. /\ regForm' \in [RegForms -> FormStates] /\ regForm'[f] = r
        /\ \A g \in RegForms : g # f => regForm'[g] = regForm[g]
    BY <2>1, <2>4, <1>n DEF r
  <2>6. ASSUME NEW g \in RegForms PROVE FormOK(g)'
    <3>1. CASE g = f
      BY <3>1, <2>2, <2>4, <2>5, <1>g DEF FormOK
    <3>2. CASE g # f
      BY <3>2, <2>5, <1>g, <1>n, FormKept
    <3> QED BY <3>1, <3>2
  <2> QED BY <1>u, <2>5, <2>6, FormStep
<1> QED BY <1>1, <1>2

\* A command runs, of another client or of a form of this page.
LEMMA CommandKeeps ==
  ASSUME RegInv, OthersCommand \/ \E f \in RegForms : CommandRuns(f)
  PROVE  RegInv'
<1>1. PICK queries \in SUBSET RegQueries :
        RunCommandFor(queries) /\ UNCHANGED <<regRefresh, regHandled, regHist>> /\ regPage' = regPage
  BY DEF OthersCommand, CommandRuns, regDoc
<1>2. /\ regTold' \in Seq(SUBSET RegQueries)
      /\ Len(regTold') = Len(regTold) + 1 /\ Len(regTold') <= MaxRegEvents
      /\ regInbox' \in Seq(Nat)
      /\ \A i \in 1 .. Len(regInbox') : 1 <= regInbox'[i] /\ regInbox'[i] <= Len(regTold')
      /\ RegGrows /\ regGot' \in [RegHere -> Nat]
  BY <1>1, CommandTells
<1>n. /\ Len(regTold) \in Nat /\ Len(regTold') \in Nat
      /\ regForm \in [RegForms -> FormStates] /\ regRefresh \in [RegEvents -> RefreshStates]
      /\ \A f \in RegForms : regForm[f] \in FormStates
  BY <1>2, RegSame, RegNumbers
<1>3. ASSUME NEW e \in RegEvents PROVE RefreshOK(e)'
  BY <1>1, <1>2, <1>n, RefreshKept
<1>4. regForm' \in [RegForms -> FormStates] /\ \A f \in RegForms : FormOK(f)'
  <2>1. CASE OthersCommand
    <3>1. regForm' = regForm
      BY <2>1 DEF OthersCommand
    <3>2. ASSUME NEW f \in RegForms PROVE FormOK(f)'
      BY <3>1, <1>2, <1>n, FormKept
    <3> QED BY <3>1, <3>2, <1>n
  <2>2. ASSUME NEW f \in RegForms, CommandRuns(f)
        PROVE  regForm' \in [RegForms -> FormStates] /\ \A g \in RegForms : FormOK(g)'
    <3> DEFINE r == [regForm[f] EXCEPT !.pc = "run", !.event = Len(regTold) + 1]
    <3>1. regForm' = [regForm EXCEPT ![f] = r]
      BY <2>2, <1>n DEF CommandRuns, Version, FormStates
    <3>2. r \in FormStates /\ r.pc = "run" /\ r.event = Len(regTold) + 1
      <4>1. regForm[f] \in FormStates /\ Len(regTold) + 1 \in Nat
        BY <1>n
      <4> QED BY <4>1 DEF FormStates
    <3> HIDE DEF r
    <3>3. /\ regForm' \in [RegForms -> FormStates] /\ regForm'[f] = r
          /\ \A g \in RegForms : g # f => regForm'[g] = regForm[g]
      BY <3>1, <3>2, <1>n
    <3>4. ASSUME NEW g \in RegForms PROVE FormOK(g)'
      <4>1. CASE g = f
        BY <4>1, <3>2, <3>3, <1>2, <1>n DEF FormOK
      <4>2. CASE g # f
        BY <4>2, <3>3, <1>2, <1>n, FormKept
      <4> QED BY <4>1, <4>2
    <3> QED BY <3>3, <3>4
  <2> QED BY <2>1, <2>2
<1> QED BY <1>1, <1>2, <1>3, <1>4, <1>n, RegSame, RegInvFrom

\* The answer to a command is taken.
LEMMA AnswerKeeps ==
  ASSUME RegInv, NEW f \in RegForms, CommandAnswered(f)
  PROVE  RegInv'
<1> DEFINE e == regForm[f].event
           at == regForm[f].at
           applied == regForm[f].patched \cap regPage
           remaining == RemainingQueries(regTold[e], applied)
<1>n. /\ Len(regTold) \in Nat /\ regForm \in [RegForms -> FormStates]
      /\ regForm[f] \in FormStates /\ regRefresh \in [RegEvents -> RefreshStates]
  BY RegSame, RegNumbers
<1>a. regForm[f].pc = "answered"
  BY DEF CommandAnswered
<1>e. e \in Nat /\ at \in Nat /\ 1 <= e /\ e <= Len(regTold) /\ e <= at
  BY <1>a, <1>n DEF RegInv, FormOK, FormStates
<1>r. e \in RegEvents /\ regTold[e] \in SUBSET RegQueries
  BY <1>e, RegNumbers
<1>p. applied \in SUBSET RegHere /\ remaining \in SUBSET RegQueries
  BY <1>r, RegSame DEF RemainingQueries
<1>u. /\ regTold' = regTold /\ regInbox' = regInbox /\ regPage' = regPage
      /\ regForm' = [regForm EXCEPT ![f] = NoForm] /\ Get(applied, at)
      /\ \/ /\ remaining = {} /\ RememberHandled(e)
            /\ regRefresh' = Detach(applied) /\ regMissed' = regMissed
         \/ /\ regHandled' = regHandled
            /\ regRefresh' = Detach(applied) /\ regMissed' = regMissed
         \/ StartRefresh(Detach(applied), e, remaining)
  BY DEF CommandAnswered, regServer
<1>d. /\ Detach(applied) \in [RegEvents -> RefreshStates]
      /\ \A d \in RegEvents :
           /\ Detach(applied)[d].pc = regRefresh[d].pc /\ Detach(applied)[d].at = regRefresh[d].at
           /\ Detach(applied)[d].queries = regRefresh[d].queries
  BY <1>p, DetachKeeps
<1> HIDE DEF applied, remaining
<1>s. /\ regRefresh' \in [RegEvents -> RefreshStates]
      /\ \A d \in RegEvents : d # e => regRefresh'[d] = Detach(applied)[d]
      /\ \/ regRefresh'[e] = Detach(applied)[e]
         \/ regRefresh'[e].pc = "endpoint" /\ regRefresh'[e].queries = remaining
      /\ \/ regHandled' = regHandled
         \/ RememberHandled(e) /\ \A q \in remaining \cap RegHere : <<e, q>> \in regMissed'
      /\ regMissed \subseteq regMissed'
  <2>1. CASE StartRefresh(Detach(applied), e, remaining)
    BY <2>1, <1>d, <1>r, <1>p, RegSame, StartRefreshDoes
  <2>2. CASE ~StartRefresh(Detach(applied), e, remaining)
    BY <2>2, <1>u, <1>d, <1>r
  <2> QED BY <2>1, <2>2
<1>g. /\ RegGrows /\ regGot' \in [RegHere -> Nat]
      /\ \A q \in RegHere : q \in applied => at <= regGot'[q]
  BY <1>u, <1>e, <1>s, GetBrings
<1>q. \A q \in regTold[e] \cap RegHere : q \in remaining \/ e <= regGot'[q]
  <2> SUFFICES ASSUME NEW q \in regTold[e] \cap RegHere, q \notin remaining PROVE e <= regGot'[q]
    OBVIOUS
  <2>1. q \in applied
    BY DEF RemainingQueries, remaining
  <2>2. at <= regGot'[q] /\ regGot'[q] \in Nat
    BY <2>1, <1>g
  <2> QED BY <2>2, <1>e
<1> HIDE DEF e, at
<1>1. regForm' \in [RegForms -> FormStates] /\ \A h \in RegForms : FormOK(h)'
  <2>1. NoForm \in FormStates /\ NoForm.pc = "idle"
    BY DEF NoForm, FormStates
  <2>2. /\ regForm' \in [RegForms -> FormStates] /\ regForm'[f].pc = "idle"
        /\ \A h \in RegForms : h # f => regForm'[h] = regForm[h]
    BY <2>1, <1>u, <1>n
  <2>3. ASSUME NEW h \in RegForms PROVE FormOK(h)'
    BY <2>2, <1>g, <1>n, <1>u, FormKept
  <2> QED BY <2>2, <2>3
<1>3. ASSUME NEW d \in RegEvents PROVE RefreshOK(d)'
  <2>1. CASE regRefresh'[d] = Detach(applied)[d]
    BY <2>1, <1>d, <1>g, <1>n, <1>u, RefreshKept
  <2>2. CASE d = e /\ regRefresh'[e].pc = "endpoint" /\ regRefresh'[e].queries = remaining
    BY <2>2, <1>e, <1>q, <1>u DEF RefreshOK
  <2> QED BY <2>1, <2>2, <1>s
<1>4. \/ regHandled' = regHandled
      \/ \E d \in Nat :
           /\ RememberHandled(d) /\ 1 <= d /\ d <= Len(regTold)
           /\ \A q \in regTold[d] \cap RegHere : d <= regGot'[q] \/ <<d, q>> \in regMissed'
  BY <1>s, <1>e, <1>q
<1> QED BY <1>1, <1>s, <1>3, <1>4, <1>g, <1>u, RegSame, RegInvFrom

\* The stream changes its state or delivers a notice.
LEMMA StreamKeeps ==
  ASSUME RegInv, StreamOpens \/ StreamBreaks \/ StreamDelivers
  PROVE  RegInv'
<1>u. /\ regTold' = regTold /\ regForm' = regForm /\ regGot' = regGot /\ regPage' = regPage
      /\ regMissed \subseteq regMissed'
  BY DEF StreamOpens, StreamBreaks, StreamDelivers, StartRefresh, Miss, regDoc, regHist
<1>g. RegGrows /\ Len(regTold) \in Nat
  BY <1>u, RegSame, RegNumbers
<1>i. /\ regInbox \in Seq(Nat)
      /\ \A i \in 1 .. Len(regInbox) : regInbox[i] \in Nat /\ 1 <= regInbox[i] /\ regInbox[i] <= Len(regTold)
  <2>1. regInbox \in Seq(Nat)
    BY RegSame
  <2>2. \A i \in 1 .. Len(regInbox) : regInbox[i] \in Nat
    BY <2>1
  <2> QED BY <2>1, <2>2, RegSame
<1>f. \A f \in RegForms : FormOK(f)'
  <2>1. ASSUME NEW f \in RegForms PROVE FormOK(f)'
    BY <1>u, <1>g, FormKept
  <2> QED BY <2>1
<1>1. CASE StreamOpens \/ StreamBreaks
  <2>1. regRefresh' = regRefresh /\ regHandled' = regHandled /\ regInbox' \in {<<>>, regInbox}
    BY <1>1 DEF StreamOpens, StreamBreaks
  <2>2. /\ regInbox' \in Seq(Nat)
        /\ \A i \in 1 .. Len(regInbox') : 1 <= regInbox'[i] /\ regInbox'[i] <= Len(regTold')
    <3>1. CASE regInbox' = regInbox
      BY <3>1, <1>i, <1>u
    <3>2. CASE regInbox' = <<>>
      <4>1. Len(regInbox') = 0 /\ regInbox' \in Seq(Nat)
        BY <3>2
      <4> QED BY <4>1
    <3> QED BY <2>1, <3>1, <3>2
  <2>3. ASSUME NEW e \in RegEvents PROVE RefreshOK(e)'
    BY <2>1, <1>u, <1>g, RegSame, RefreshKept
  <2> QED BY <2>1, <2>2, <2>3, <1>u, <1>g, <1>f, RegSame, RegInvFrom
<1>2. CASE StreamDelivers
  <2> DEFINE e == Head(regInbox)
  <2>1. /\ regInbox # <<>> /\ regInbox' = Tail(regInbox)
        /\ StartRefresh(regRefresh, e, regTold[e])
    BY <1>2 DEF StreamDelivers
  <2>2. e \in Nat /\ 1 <= e /\ e <= Len(regTold)
    BY <2>1, <1>i
  <2>3. /\ regInbox' \in Seq(Nat)
        /\ \A i \in 1 .. Len(regInbox') : 1 <= regInbox'[i] /\ regInbox'[i] <= Len(regTold')
    <3>1. /\ Tail(regInbox) \in Seq(Nat) /\ Len(Tail(regInbox)) = Len(regInbox) - 1
          /\ \A i \in 1 .. Len(Tail(regInbox)) :
               i + 1 \in 1 .. Len(regInbox) /\ Tail(regInbox)[i] = regInbox[i + 1]
      BY <2>1, <1>i
    <3> QED BY <3>1, <2>1, <1>i, <1>u
  <2> HIDE DEF e
  <2>4. e \in RegEvents /\ regTold[e] \in SUBSET RegQueries
    BY <2>2, RegNumbers
  <2>5. /\ regRefresh' \in [RegEvents -> RefreshStates]
        /\ \A d \in RegEvents : d # e => regRefresh'[d] = regRefresh[d]
        /\ \/ regRefresh'[e] = regRefresh[e]
           \/ regRefresh'[e].pc = "endpoint" /\ regRefresh'[e].queries = regTold[e]
        /\ \/ regHandled' = regHandled
           \/ RememberHandled(e) /\ \A q \in regTold[e] \cap RegHere : <<e, q>> \in regMissed'
    BY <2>1, <2>4, RegSame, StartRefreshDoes
  <2>6. ASSUME NEW d \in RegEvents PROVE RefreshOK(d)'
    <3>1. CASE regRefresh'[d] = regRefresh[d]
      BY <3>1, <1>u, <1>g, RegSame, RefreshKept
    <3>2. CASE d = e /\ regRefresh'[e].pc = "endpoint" /\ regRefresh'[e].queries = regTold[e]
      BY <3>2, <2>2, <1>u DEF RefreshOK
    <3> QED BY <3>1, <3>2, <2>5
  <2> QED BY <2>2, <2>3, <2>5, <2>6, <1>u, <1>g, <1>f, RegSame, RegInvFrom
<1> QED BY <1>1, <1>2

\* A step of the refresh of one event, after which it is as it should be.
LEMMA RefreshStep ==
  ASSUME RegInv, NEW e \in RegEvents, RegGrows, UNCHANGED <<regServer, regForm>>,
         regGot' \in [RegHere -> Nat], regPage' \subseteq RegHere,
         regRefresh' \in [RegEvents -> RefreshStates],
         RefreshOK(e)',
         \A d \in RegEvents : d # e =>
           /\ regRefresh'[d].pc = regRefresh[d].pc /\ regRefresh'[d].at = regRefresh[d].at
           /\ regRefresh'[d].queries = regRefresh[d].queries,
         \/ regHandled' = regHandled
         \/ /\ RememberHandled(e) /\ e <= Len(regTold)
            /\ \A q \in regTold[e] \cap RegHere : e <= regGot'[q] \/ <<e, q>> \in regMissed'
  PROVE  RegInv'
<1>u. regTold' = regTold /\ regInbox' = regInbox /\ regForm' = regForm /\ Len(regTold') \in Nat
  BY RegNumbers DEF regServer
<1>1. ASSUME NEW f \in RegForms PROVE FormOK(f)'
  BY <1>u, FormKept
<1>2. ASSUME NEW d \in RegEvents PROVE RefreshOK(d)'
  <2>1. CASE d = e
    BY <2>1
  <2>2. CASE d # e
    BY <2>2, <1>u, RefreshKept
  <2> QED BY <2>1, <2>2
<1>3. e \in Nat /\ 1 <= e
  BY RegNumbers
<1> QED BY <1>u, <1>1, <1>2, <1>3, RegSame, RegInvFrom

\* The endpoint or the route renders.
LEMMA RendersKeep ==
  ASSUME RegInv, NEW e \in RegEvents, EndpointRenders(e) \/ DocumentRenders(e)
  PROVE  RegInv'
<1>n. /\ regRefresh \in [RegEvents -> RefreshStates] /\ regRefresh[e] \in RefreshStates
      /\ Len(regTold) \in Nat /\ e \in Nat
  BY RegSame, RegNumbers
<1>u. /\ UNCHANGED <<regServer, regForm>> /\ regHandled' = regHandled
      /\ regGot' = regGot /\ regMissed' = regMissed /\ regTold' = regTold /\ regPage' = regPage
      /\ regRefresh[e].pc # "none"
  BY DEF EndpointRenders, DocumentRenders, regServer, regDoc, regHist
<1>o. /\ e <= Len(regTold)
      /\ \A q \in regTold[e] \cap RegHere : q \in regRefresh[e].queries \/ e <= regGot[q]
  BY <1>u DEF RegInv, RefreshOK
<1>1. PICK r \in RefreshStates :
        /\ regRefresh' = [regRefresh EXCEPT ![e] = r]
        /\ r.queries = regRefresh[e].queries /\ r.at = Len(regTold)
  <2>1. CASE EndpointRenders(e)
    <3>1. PICK patched \in SUBSET regRefresh[e].queries :
            regRefresh' = [regRefresh EXCEPT ![e] =
              [regRefresh[e] EXCEPT !.pc = "patches", !.patched = patched, !.at = Len(regTold)]]
      BY <2>1 DEF EndpointRenders, Version
    <3> DEFINE r == [regRefresh[e] EXCEPT !.pc = "patches", !.patched = patched, !.at = Len(regTold)]
    <3>2. patched \in SUBSET RegQueries
      BY <1>n DEF RefreshStates
    <3>3. r \in RefreshStates /\ r.queries = regRefresh[e].queries /\ r.at = Len(regTold)
      BY <3>2, <1>n DEF RefreshStates
    <3> QED BY <3>1, <3>3
  <2>2. CASE DocumentRenders(e)
    <3> DEFINE r == [regRefresh[e] EXCEPT !.pc = "page", !.at = Len(regTold)]
    <3>1. regRefresh' = [regRefresh EXCEPT ![e] = r]
      BY <2>2 DEF DocumentRenders, Version
    <3>2. r \in RefreshStates /\ r.queries = regRefresh[e].queries /\ r.at = Len(regTold)
      BY <1>n DEF RefreshStates
    <3> QED BY <3>1, <3>2
  <2> QED BY <2>1, <2>2
<1>2. /\ regRefresh' \in [RegEvents -> RefreshStates] /\ regRefresh'[e] = r
      /\ \A d \in RegEvents : d # e => regRefresh'[d] = regRefresh[d]
  BY <1>1, <1>n
<1>3. RefreshOK(e)'
  BY <1>1, <1>2, <1>o, <1>u DEF RefreshOK
<1>4. RegGrows /\ regGot' \in [RegHere -> Nat] /\ regPage' \subseteq RegHere
  BY <1>u, RegSame
<1> QED BY <1>2, <1>3, <1>4, <1>u, RefreshStep

\* The patches of the endpoint are applied.
LEMMA EndpointKeeps ==
  ASSUME RegInv, NEW e \in RegEvents, EndpointAnswers(e)
  PROVE  RegInv'
<1> DEFINE r == regRefresh[e]
           applied == r.patched \cap regPage
           remaining == RemainingQueries(r.queries, applied)
           next == [NoRefresh EXCEPT !.pc = "document", !.queries = remaining,
                      !.held = IF applied = {} THEN r.held ELSE remaining \cap regPage]
<1>n. r \in RefreshStates /\ Len(regTold) \in Nat /\ e \in Nat
  BY RegNumbers
<1>u. /\ r.pc = "patches" /\ Get(applied, r.at)
      /\ \/ /\ regRefresh' = [Detach(applied) EXCEPT ![e] = NoRefresh]
            /\ RememberHandled(e) /\ Miss(e, remaining)
         \/ /\ regRefresh' = [Detach(applied) EXCEPT ![e] = next]
            /\ regHandled' = regHandled /\ regMissed' = regMissed
      /\ UNCHANGED <<regServer, regForm>> /\ regTold' = regTold /\ regPage' = regPage
  BY DEF EndpointAnswers, regServer
<1>m. /\ regMissed \subseteq regMissed'
      /\ \/ regHandled' = regHandled
         \/ RememberHandled(e) /\ \A q \in remaining \cap RegHere : <<e, q>> \in regMissed'
  BY <1>u DEF Miss
<1>o. /\ e <= Len(regTold) /\ r.at \in Nat /\ e <= r.at
      /\ \A q \in regTold[e] \cap RegHere : q \in r.queries \/ e <= regGot[q]
  BY <1>u, <1>n DEF RegInv, RefreshOK, RefreshStates
<1>p. applied \in SUBSET RegHere /\ remaining \in SUBSET RegQueries
  BY <1>n, RegSame DEF RemainingQueries, RefreshStates
<1>x. NoRefresh \in RefreshStates /\ NoRefresh.pc = "none"
  BY DEF NoRefresh, RefreshStates
<1>y. next \in RefreshStates /\ next.pc = "document" /\ next.queries = remaining
  <2>1. r.held \subseteq RegHere /\ remaining \cap regPage \subseteq RegHere
    BY <1>n, RegSame DEF RefreshStates
  <2> HIDE DEF applied, remaining
  <2> QED BY <2>1, <1>p DEF NoRefresh, RefreshStates
<1>g. /\ RegGrows /\ regGot' \in [RegHere -> Nat]
      /\ \A q \in RegHere : q \in applied => r.at <= regGot'[q]
  BY <1>u, <1>m, <1>o, GetBrings
<1>q. \A q \in regTold[e] \cap RegHere : q \in remaining \/ e <= regGot'[q]
  <2> SUFFICES ASSUME NEW q \in regTold[e] \cap RegHere, q \notin remaining PROVE e <= regGot'[q]
    OBVIOUS
  <2>n. regGot'[q] \in Nat /\ regGot[q] \in Nat /\ regGot[q] <= regGot'[q]
    BY <1>g, RegNumbers DEF RegGrows
  <2>1. CASE q \in applied
    <3>1. r.at <= regGot'[q]
      BY <2>1, <1>g
    <3> QED BY <3>1, <2>n, <1>o, <1>n
  <2>2. CASE q \notin applied
    <3>1. q \notin r.queries
      BY <2>2 DEF RemainingQueries
    <3>2. e <= regGot[q]
      BY <3>1, <1>o
    <3> QED BY <3>2, <2>n, <1>n
  <2> QED BY <2>1, <2>2
<1>d. /\ Detach(applied) \in [RegEvents -> RefreshStates]
      /\ \A d \in RegEvents :
           /\ Detach(applied)[d].pc = regRefresh[d].pc /\ Detach(applied)[d].at = regRefresh[d].at
           /\ Detach(applied)[d].queries = regRefresh[d].queries
  BY <1>p, DetachKeeps
<1> HIDE DEF r, applied, remaining, next
<1>1. PICK s \in RefreshStates :
        /\ regRefresh' = [Detach(applied) EXCEPT ![e] = s]
        /\ s.pc = "none" \/ (s.pc = "document" /\ s.queries = remaining)
  BY <1>u, <1>x, <1>y
<1>2. /\ regRefresh' \in [RegEvents -> RefreshStates] /\ regRefresh'[e] = s
      /\ \A d \in RegEvents : d # e => regRefresh'[d] = Detach(applied)[d]
  BY <1>1, <1>d
<1>3. RefreshOK(e)'
  BY <1>1, <1>2, <1>o, <1>q, <1>u DEF RefreshOK
<1> QED BY <1>2, <1>3, <1>d, <1>g, <1>m, <1>q, <1>o, <1>u, RegSame, RefreshStep

\* The document's regions are taken, or the response is no page, or there is
\* none.
LEMMA DocumentKeeps ==
  ASSUME RegInv, NEW e \in RegEvents, DocumentAnswers(e) \/ DocumentBlank(e) \/ DocumentFails(e)
  PROVE  RegInv'
<1> DEFINE r == regRefresh[e]
<1>n. /\ r \in RefreshStates /\ Len(regTold) \in Nat /\ e \in Nat
      /\ regRefresh \in [RegEvents -> RefreshStates]
  BY RegSame, RegNumbers
<1>x. NoRefresh \in RefreshStates /\ NoRefresh.pc = "none"
  BY DEF NoRefresh, RefreshStates
<1>1. CASE DocumentAnswers(e)
  <2> DEFINE wanted == r.queries \cap RegHere
  <2>1. PICK came, placed, lost \in SUBSET wanted :
          /\ Replacement(r, came, placed, lost)
          /\ Get(placed, r.at) /\ Miss(e, r.queries \ placed)
          /\ regPage' = (regPage \cup placed) \ lost
          /\ regRefresh' = [Detach(placed \cup lost) EXCEPT ![e] = NoRefresh]
    BY <1>1 DEF DocumentAnswers
  <2>u. /\ r.pc = "page" /\ RememberHandled(e)
        /\ UNCHANGED <<regServer, regForm>> /\ regTold' = regTold
    BY <1>1 DEF DocumentAnswers, regServer
  <2>o. /\ e <= Len(regTold) /\ r.at \in Nat /\ e <= r.at
        /\ \A q \in regTold[e] \cap RegHere : q \in r.queries \/ e <= regGot[q]
    BY <2>u, <1>n DEF RegInv, RefreshOK, RefreshStates
  <2>p. placed \cup lost \in SUBSET RegHere /\ regPage' \subseteq RegHere
    BY <2>1, RegSame
  <2>m. /\ regMissed \subseteq regMissed'
        /\ \A q \in RegHere : q \in r.queries => q \in placed \/ <<e, q>> \in regMissed'
    BY <2>1 DEF Miss
  <2>g. /\ RegGrows /\ regGot' \in [RegHere -> Nat]
        /\ \A q \in RegHere : q \in placed => r.at <= regGot'[q]
    BY <2>1, <2>u, <2>m, <2>o, GetBrings
  <2>q. ASSUME NEW q \in regTold[e] \cap RegHere PROVE e <= regGot'[q] \/ <<e, q>> \in regMissed'
    <3>n. regGot'[q] \in Nat /\ regGot[q] \in Nat /\ regGot[q] <= regGot'[q]
      BY <2>g, RegNumbers DEF RegGrows
    <3>1. CASE q \in placed
      <4>1. r.at <= regGot'[q]
        BY <3>1, <2>g
      <4> QED BY <4>1, <3>n, <2>o, <1>n
    <3>2. CASE q \notin r.queries
      <4>1. e <= regGot[q]
        BY <3>2, <2>o
      <4> QED BY <4>1, <3>n, <1>n
    <3> QED BY <3>1, <3>2, <2>m
  <2> DEFINE after == Detach(placed \cup lost)
  <2>d. /\ after \in [RegEvents -> RefreshStates]
        /\ \A d \in RegEvents :
             /\ after[d].pc = regRefresh[d].pc /\ after[d].at = regRefresh[d].at
             /\ after[d].queries = regRefresh[d].queries
    BY <2>p, DetachKeeps
  <2>x. regRefresh' = [after EXCEPT ![e] = NoRefresh]
    BY <2>1
  <2> HIDE DEF r, wanted, after
  <2>2. /\ regRefresh' \in [RegEvents -> RefreshStates] /\ regRefresh'[e].pc = "none"
        /\ \A d \in RegEvents : d # e => regRefresh'[d] = after[d]
    BY <2>x, <2>d, <1>x
  <2>3. RefreshOK(e)'
    BY <2>2 DEF RefreshOK
  <2> QED BY <2>2, <2>3, <2>d, <2>g, <2>p, <2>q, <2>o, <2>u, RefreshStep
<1>2. CASE DocumentBlank(e) \/ DocumentFails(e)
  <2>u. /\ r.pc # "none" /\ regGot' = regGot /\ regPage' = regPage
        /\ regRefresh' = [regRefresh EXCEPT ![e] = NoRefresh]
        /\ \/ regHandled' = regHandled /\ regMissed' = regMissed
           \/ RememberHandled(e) /\ Miss(e, r.queries)
        /\ UNCHANGED <<regServer, regForm>> /\ regTold' = regTold
    BY <1>2 DEF DocumentBlank, DocumentFails, regServer, regDoc
  <2>o. /\ e <= Len(regTold)
        /\ \A q \in regTold[e] \cap RegHere : q \in r.queries \/ e <= regGot[q]
    BY <2>u DEF RegInv, RefreshOK
  <2>m. /\ regMissed \subseteq regMissed'
        /\ \/ regHandled' = regHandled
           \/ /\ RememberHandled(e)
              /\ \A q \in regTold[e] \cap RegHere : e <= regGot'[q] \/ <<e, q>> \in regMissed'
    BY <2>u, <2>o DEF Miss
  <2>1. /\ regRefresh' \in [RegEvents -> RefreshStates] /\ regRefresh'[e].pc = "none"
        /\ \A d \in RegEvents : d # e => regRefresh'[d] = regRefresh[d]
    BY <2>u, <1>n, <1>x
  <2>2. RefreshOK(e)'
    BY <2>1 DEF RefreshOK
  <2>3. RegGrows /\ regGot' \in [RegHere -> Nat] /\ regPage' \subseteq RegHere
    BY <2>u, <2>m, RegSame
  <2> QED BY <2>1, <2>2, <2>3, <2>o, <2>m, <2>u, RefreshStep
<1> QED BY <1>1, <1>2

\* Every step keeps the invariant.
LEMMA RegInvStep == ASSUME RegInv, [RegNext]_regVars PROVE RegInv'
<1>1. CASE UNCHANGED regVars
  BY <1>1 DEF regVars, regServer, regDoc, regHist, RegInv, RegShape, FormOK, RefreshOK,
              HandledMeansRefreshed, Remembered
<1>2. ASSUME NEW f \in RegForms,
             Submit(f) \/ CommandRuns(f) \/ RegionsRendered(f) \/ CommandFails(f) \/ CommandAnswered(f)
      PROVE  RegInv'
  BY <1>2, FormsKeep, CommandKeeps, AnswerKeeps
<1>3. ASSUME NEW e \in RegEvents,
             \/ EndpointRenders(e) \/ EndpointAnswers(e)
             \/ DocumentRenders(e) \/ DocumentAnswers(e) \/ DocumentBlank(e) \/ DocumentFails(e)
      PROVE  RegInv'
  BY <1>3, RendersKeep, EndpointKeeps, DocumentKeeps
<1> QED BY <1>1, <1>2, <1>3, CommandKeeps, StreamKeeps DEF RegNext

\* Commands, answers, notices and refreshes interleave as they may: a refresh
\* knows of every region its command made stale that nothing later has come
\* for.
THEOREM RegInvariant == RegSpec => []RegInv
<1>1. ASSUME RegInit PROVE RegInv
  <2>1. /\ regTold = <<>> /\ regInbox = <<>> /\ regHandled = <<>>
        /\ regGot = [q \in RegHere |-> 0] /\ regPage = RegHere
        /\ regForm = [f \in RegForms |-> NoForm]
        /\ regRefresh = [e \in RegEvents |-> NoRefresh]
    BY <1>1 DEF RegInit
  <2>2. NoForm \in FormStates /\ NoForm.pc = "idle"
    BY DEF NoForm, FormStates
  <2>3. NoRefresh \in RefreshStates /\ NoRefresh.pc = "none"
    BY DEF NoRefresh, RefreshStates
  <2>4. Remembered = {} /\ MaxRegEvents \in Nat
    BY <2>1, RegAssumption DEF Remembered
  <2>5. RegShape
    BY <2>1, <2>2, <2>3, <2>4 DEF RegShape
  <2>6. /\ \A f \in RegForms : FormOK(f)
        /\ \A e \in RegEvents : RefreshOK(e)
    BY <2>1, <2>2, <2>3 DEF FormOK, RefreshOK
  <2> QED BY <2>4, <2>5, <2>6 DEF RegInv, HandledMeansRefreshed
<1>2. RegInv /\ [RegNext]_regVars => RegInv'
  BY RegInvStep
<1> QED BY <1>1, <1>2, PTL DEF RegSpec

\* A second notice of an event is ignored only when the first was enough, or
\* nothing could be done: for every region the event made stale something
\* rendered after it was put in the page, or the event is recorded as handled
\* with no region in the page, or with no replacement for it in the document.
THEOREM HandledIsRefreshed == RegSpec => []HandledMeansRefreshed
<1>1. RegInv => HandledMeansRefreshed
  BY DEF RegInv
<1> QED BY <1>1, RegInvariant, PTL

\* Nothing is of a later version than the server's, and only commands that ran
\* are named.
VersionsOK ==
  /\ regShown \in [RegHere -> Nat]
  /\ \A q \in RegHere : regShown[q] <= Len(regTold) /\ regGot[q] <= Len(regTold)
  /\ \A f \in RegForms : regForm[f].event <= Len(regTold) /\ regForm[f].at <= Len(regTold)
  /\ \A e \in RegEvents : regRefresh[e].at <= Len(regTold)

\* The remembered event IDs are within the limit, each listed once.
ListOK ==
  /\ Len(regHandled) <= RegHandledLimit
  /\ \A i, j \in 1 .. Len(regHandled) : regHandled[i] = regHandled[j] => i = j

\* The histories name commands that ran.
HistoryOK ==
  /\ regStream \in {"none", "connecting", "open", "closed"}
  /\ regOwn \subseteq 1 .. Len(regTold)
  /\ regMissed \subseteq (1 .. Len(regTold)) \X RegHere

RegBounds == VersionsOK /\ ListOK /\ HistoryOK

\* Remembering an event keeps the list within the limit, and adds no second
\* entry for it.
LEMMA RememberOnce ==
  ASSUME RegInv, ListOK, NEW e \in Nat, RememberHandled(e)
  PROVE  ListOK'
<1> DEFINE order == IF e \in Remembered THEN regHandled ELSE Append(regHandled, e)
<1>t. regHandled \in Seq(Nat) /\ RegHandledLimit \in Nat /\ Len(regHandled) \in Nat
  BY RegAssumption DEF RegInv, RegShape
<1>1. regHandled' = IF Len(order) > RegHandledLimit THEN Tail(order) ELSE order
  BY DEF RememberHandled
<1>2. /\ order \in Seq(Nat) /\ Len(order) <= RegHandledLimit + 1
      /\ \A i, j \in 1 .. Len(order) : order[i] = order[j] => i = j
  <2>1. CASE e \in Remembered
    BY <2>1, <1>t DEF ListOK
  <2>2. CASE e \notin Remembered
    <3>1. order = Append(regHandled, e)
      BY <2>2
    <3>2. \A i \in 1 .. Len(regHandled) : regHandled[i] # e
      BY <2>2 DEF Remembered
    <3> HIDE DEF order
    <3>3. /\ order \in Seq(Nat) /\ Len(order) = Len(regHandled) + 1
          /\ order[Len(regHandled) + 1] = e
          /\ \A i \in 1 .. Len(regHandled) : order[i] = regHandled[i]
      BY <3>1, <1>t
    <3>4. ASSUME NEW i \in 1 .. Len(order), NEW j \in 1 .. Len(order), order[i] = order[j]
          PROVE  i = j
      <4>1. /\ i \in 1 .. Len(regHandled) \/ i = Len(regHandled) + 1
            /\ j \in 1 .. Len(regHandled) \/ j = Len(regHandled) + 1
        BY <3>3, <1>t
      <4> QED BY <4>1, <3>2, <3>3, <3>4 DEF ListOK
    <3> QED BY <3>3, <3>4, <1>t DEF ListOK
  <2> QED BY <2>1, <2>2
<1> HIDE DEF order
<1>3. CASE Len(order) > RegHandledLimit
  <2>1. order # <<>>
    BY <1>2, <1>t, <1>3
  <2>2. /\ Len(Tail(order)) = Len(order) - 1
        /\ \A i \in 1 .. Len(Tail(order)) : Tail(order)[i] = order[i + 1] /\ i + 1 \in 1 .. Len(order)
    BY <1>2, <2>1
  <2>3. regHandled' = Tail(order)
    BY <1>1, <1>3
  <2>4. ASSUME NEW i \in 1 .. Len(regHandled'), NEW j \in 1 .. Len(regHandled'),
               regHandled'[i] = regHandled'[j]
        PROVE  i = j
    <3>1. i + 1 = j + 1
      BY <2>2, <2>3, <2>4, <1>2
    <3> QED BY <3>1
  <2>5. Len(regHandled') <= RegHandledLimit
    BY <2>2, <2>3, <1>2, <1>t
  <2> QED BY <2>4, <2>5 DEF ListOK
<1>4. CASE ~(Len(order) > RegHandledLimit)
  <2>1. regHandled' = order
    BY <1>1, <1>4
  <2>2. Len(order) <= RegHandledLimit
    BY <1>2, <1>t, <1>4
  <2> QED BY <2>1, <2>2, <1>2 DEF ListOK
<1> QED BY <1>3, <1>4

\* refreshInvalidatedQueries begins a refresh with nothing rendered, and
\* remembers at most its own event.
LEMMA StartRefreshBegins ==
  ASSUME NEW active \in [RegEvents -> RefreshStates], NEW e \in RegEvents,
         NEW queries \in SUBSET RegQueries, StartRefresh(active, e, queries)
  PROVE  /\ \A d \in RegEvents : regRefresh'[d].at \in {0, active[d].at}
         /\ regHandled' = regHandled \/ RememberHandled(e)
         /\ regMissed' \subseteq regMissed \cup ({e} \X RegHere)
<1> DEFINE begun == [NoRefresh EXCEPT !.pc = "endpoint", !.queries = queries,
                                      !.held = queries \cap regPage]
<1>1. begun.at = 0
  BY DEF NoRefresh
<1>2. \/ regRefresh' = active /\ (regHandled' = regHandled \/ RememberHandled(e))
      \/ regRefresh' = [active EXCEPT ![e] = begun] /\ regHandled' = regHandled
  <2>1. CASE e \in Remembered \/ active[e].pc # "none"
    BY <2>1 DEF StartRefresh
  <2>2. CASE e \notin Remembered /\ active[e].pc = "none" /\ queries \cap regPage = {}
    BY <2>2 DEF StartRefresh
  <2>3. CASE e \notin Remembered /\ active[e].pc = "none" /\ queries \cap regPage # {}
    BY <2>3 DEF StartRefresh
  <2> QED BY <2>1, <2>2, <2>3
<1>4. regMissed' \subseteq regMissed \cup ({e} \X RegHere)
  BY DEF StartRefresh, Miss
<1> HIDE DEF begun
<1>3. \A d \in RegEvents : [active EXCEPT ![e] = begun][d] = IF d = e THEN begun ELSE active[d]
  OBVIOUS
<1> QED BY <1>1, <1>2, <1>3, <1>4

\* A region that is replaced shows what was rendered, another what it showed.
LEMMA ShowsOrKeeps ==
  ASSUME RegInv, VersionsOK, regTold' = regTold,
         NEW rs, NEW qs, NEW at \in Nat, at <= Len(regTold), Show(rs, at), Get(qs, at)
  PROVE  /\ regShown' \in [RegHere -> Nat]
         /\ \A q \in RegHere : regShown'[q] <= Len(regTold') /\ regGot'[q] <= Len(regTold')
<1>n. /\ Len(regTold) \in Nat
      /\ \A q \in RegHere : /\ regGot[q] \in Nat /\ regShown[q] \in Nat
                            /\ regShown[q] <= Len(regTold) /\ regGot[q] <= Len(regTold)
  BY RegNumbers DEF VersionsOK
<1>1. \A q \in RegHere : /\ regGot'[q] \in {at, regGot[q]}
                         /\ regShown'[q] \in {at, regShown[q]}
  BY DEF Get, Show
<1>2. regShown' = [q \in RegHere |-> regShown'[q]]
  BY DEF Show
<1>3. \A q \in RegHere : regShown'[q] \in Nat
  BY <1>1, <1>n
<1> QED BY <1>1, <1>2, <1>3, <1>n

\* The bounds, from what a step does to the parts of the state.
LEMMA BoundsFrom ==
  ASSUME RegInv, RegInv', RegBounds, Len(regTold) <= Len(regTold'),
         \/ regShown' = regShown /\ regGot' = regGot
         \/ /\ regShown' \in [RegHere -> Nat]
            /\ \A q \in RegHere : regShown'[q] <= Len(regTold') /\ regGot'[q] <= Len(regTold'),
         \A f \in RegForms : \/ regForm'[f] = regForm[f]
                             \/ regForm'[f].event <= Len(regTold') /\ regForm'[f].at <= Len(regTold'),
         \A e \in RegEvents : regRefresh'[e].at \in {0, regRefresh[e].at, Len(regTold)},
         regHandled' = regHandled \/ \E e \in Nat : RememberHandled(e),
         regStream' \in {"none", "connecting", "open", "closed"},
         regOwn' \subseteq regOwn \cup 1 .. Len(regTold),
         regMissed' \subseteq regMissed \cup ((1 .. Len(regTold)) \X RegHere)
  PROVE  RegBounds'
<1>n. /\ Len(regTold) \in Nat /\ Len(regTold') \in Nat
      /\ \A q \in RegHere : regGot[q] \in Nat
      /\ \A f \in RegForms : regForm[f].event \in Nat /\ regForm[f].at \in Nat
      /\ \A e \in RegEvents : regRefresh[e].at \in Nat
  <2>1. Len(regTold') \in Nat
    BY DEF RegInv, RegShape
  <2> QED BY <2>1, RegNumbers DEF FormStates, RefreshStates
<1>b. VersionsOK /\ ListOK /\ HistoryOK
  BY DEF RegBounds
<1>1. /\ regShown' \in [RegHere -> Nat]
      /\ \A q \in RegHere : regShown'[q] <= Len(regTold') /\ regGot'[q] <= Len(regTold')
  BY <1>n, <1>b DEF VersionsOK
<1>2. \A f \in RegForms : regForm'[f].event <= Len(regTold') /\ regForm'[f].at <= Len(regTold')
  BY <1>n, <1>b DEF VersionsOK
<1>3. \A e \in RegEvents : regRefresh'[e].at <= Len(regTold')
  BY <1>n, <1>b DEF VersionsOK
<1>4. ListOK'
  <2>1. CASE regHandled' = regHandled
    BY <2>1, <1>b DEF ListOK
  <2>2. CASE \E e \in Nat : RememberHandled(e)
    BY <2>2, <1>b, RememberOnce
  <2> QED BY <2>1, <2>2
<1>5. HistoryOK'
  <2>1. 1 .. Len(regTold) \subseteq 1 .. Len(regTold')
    BY <1>n
  <2> QED BY <2>1, <1>b DEF HistoryOK
<1> QED BY <1>1, <1>2, <1>3, <1>4, <1>5 DEF RegBounds, VersionsOK

\* A step of a form that is not answered yet, or a command of another client.
LEMMA FormsBounded ==
  ASSUME RegInv, RegInv', RegBounds,
         \/ OthersCommand
         \/ \E f \in RegForms : Submit(f) \/ CommandRuns(f) \/ RegionsRendered(f) \/ CommandFails(f)
  PROVE  RegBounds'
<1>n. /\ Len(regTold) \in Nat /\ regForm \in [RegForms -> FormStates]
      /\ \A f \in RegForms : regForm[f] \in FormStates
      /\ \A f \in RegForms : regForm[f].event <= Len(regTold) /\ regForm[f].at <= Len(regTold)
  BY RegSame, RegNumbers DEF RegBounds, VersionsOK
<1>u. /\ regShown' = regShown /\ regGot' = regGot /\ regRefresh' = regRefresh
      /\ regHandled' = regHandled /\ regMissed' = regMissed /\ regOwn' = regOwn /\ regStream' = regStream
  BY DEF OthersCommand, Submit, CommandRuns, RegionsRendered, CommandFails, RunCommandFor,
         regServer, regDoc, regHist
<1>1. Len(regTold) <= Len(regTold')
  <2>1. regTold' = regTold \/ \E queries \in SUBSET RegQueries : regTold' = Append(regTold, queries)
    BY DEF OthersCommand, Submit, CommandRuns, RegionsRendered, CommandFails, RunCommandFor, regServer
  <2>2. regTold \in Seq(SUBSET RegQueries)
    BY RegSame
  <2> QED BY <2>1, <2>2
<1>2. \A g \in RegForms : \/ regForm'[g] = regForm[g]
                          \/ regForm'[g].event <= Len(regTold') /\ regForm'[g].at <= Len(regTold')
  <2>1. CASE OthersCommand
    BY <2>1 DEF OthersCommand
  <2>2. ASSUME NEW f \in RegForms,
               Submit(f) \/ CommandRuns(f) \/ RegionsRendered(f) \/ CommandFails(f)
        PROVE  \A g \in RegForms :
                 \/ regForm'[g] = regForm[g]
                 \/ regForm'[g].event <= Len(regTold') /\ regForm'[g].at <= Len(regTold')
    <3>n. Len(regTold') \in Nat /\ regForm[f].event \in Nat /\ regForm[f].at \in Nat
      BY <1>n DEF RegInv, RegShape, FormStates
    <3>1. PICK r : /\ regForm' = [regForm EXCEPT ![f] = r]
                   /\ r.event <= Len(regTold') /\ r.at <= Len(regTold')
      <4>1. CASE Submit(f)
        <5>1. regForm' = [regForm EXCEPT ![f] = [regForm[f] EXCEPT !.pc = "sent"]]
          BY <4>1 DEF Submit
        <5>2. /\ [regForm[f] EXCEPT !.pc = "sent"].event = regForm[f].event
              /\ [regForm[f] EXCEPT !.pc = "sent"].at = regForm[f].at
          BY <1>n DEF FormStates
        <5>3. regForm[f].event <= Len(regTold') /\ regForm[f].at <= Len(regTold')
          BY <1>1, <1>n, <3>n
        <5> QED BY <5>1, <5>2, <5>3
      <4>2. CASE CommandFails(f)
        <5>1. regForm' = [regForm EXCEPT ![f] = NoForm]
          BY <4>2 DEF CommandFails
        <5>2. NoForm.event <= Len(regTold') /\ NoForm.at <= Len(regTold')
          BY <3>n DEF NoForm
        <5> QED BY <5>1, <5>2
      <4>3. CASE CommandRuns(f)
        <5> DEFINE s == [regForm[f] EXCEPT !.pc = "run", !.event = Len(regTold) + 1]
        <5>1. regForm' = [regForm EXCEPT ![f] = s]
          BY <4>3, <1>n DEF CommandRuns, Version, FormStates
        <5>2. s.event = Len(regTold) + 1 /\ s.at = regForm[f].at
          BY <1>n DEF FormStates
        <5>3. Len(regTold') = Len(regTold) + 1
          <6>1. PICK queries \in SUBSET RegQueries : regTold' = Append(regTold, queries)
            BY <4>3 DEF CommandRuns, RunCommandFor
          <6>2. regTold \in Seq(SUBSET RegQueries)
            BY RegSame
          <6> QED BY <6>1, <6>2
        <5>4. regForm[f].at <= Len(regTold')
          BY <1>1, <1>n, <3>n
        <5>5. s.event <= Len(regTold') /\ s.at <= Len(regTold')
          BY <5>2, <5>3, <5>4, <3>n
        <5> HIDE DEF s
        <5> QED BY <5>1, <5>5
      <4>4. CASE RegionsRendered(f)
        <5>1. PICK patched \in SUBSET regTold[regForm[f].event] :
                regForm' = [regForm EXCEPT ![f] =
                  [regForm[f] EXCEPT !.pc = "answered", !.patched = patched, !.at = Len(regTold)]]
          BY <4>4 DEF RegionsRendered, Version
        <5> DEFINE s == [regForm[f] EXCEPT !.pc = "answered", !.patched = patched, !.at = Len(regTold)]
        <5>2. s.event = regForm[f].event /\ s.at = Len(regTold)
          BY <1>n DEF FormStates
        <5>3. regForm[f].event <= Len(regTold')
          BY <1>1, <1>n, <3>n
        <5>4. regForm' = [regForm EXCEPT ![f] = s]
          BY <5>1
        <5> HIDE DEF s
        <5> QED BY <5>2, <5>3, <5>4, <1>1
      <4> QED BY <2>2, <4>1, <4>2, <4>3, <4>4
    <3>2. \A g \in RegForms : regForm'[g] = IF g = f THEN r ELSE regForm[g]
      BY <3>1, <1>n
    <3> QED BY <3>1, <3>2
  <2> QED BY <2>1, <2>2
<1>3. regStream' \in {"none", "connecting", "open", "closed"}
  BY <1>u DEF RegBounds, HistoryOK
<1> QED BY <1>u, <1>1, <1>2, <1>3, BoundsFrom

\* The answer to a command is taken.
LEMMA AnswerBounded ==
  ASSUME RegInv, RegInv', RegBounds, NEW f \in RegForms, CommandAnswered(f)
  PROVE  RegBounds'
<1> DEFINE e == regForm[f].event
           at == regForm[f].at
           applied == regForm[f].patched \cap regPage
           remaining == RemainingQueries(regTold[e], applied)
<1>n. Len(regTold) \in Nat /\ regForm \in [RegForms -> FormStates] /\ regForm[f] \in FormStates
  BY RegSame, RegNumbers
<1>e. e \in Nat /\ at \in Nat /\ 1 <= e /\ e <= Len(regTold) /\ at <= Len(regTold)
  BY <1>n DEF CommandAnswered, RegInv, FormOK, FormStates, RegBounds, VersionsOK
<1>r. e \in RegEvents /\ regTold[e] \in SUBSET RegQueries
  BY <1>e, RegNumbers
<1>p. applied \in SUBSET RegHere /\ remaining \in SUBSET RegQueries
  BY <1>r, RegSame DEF RemainingQueries
<1>u. /\ regTold' = regTold /\ regStream' = regStream
      /\ regOwn' = regOwn \cup {e}
      /\ regForm' = [regForm EXCEPT ![f] = NoForm] /\ Show(applied, at) /\ Get(applied, at)
      /\ \/ /\ regRefresh' = Detach(applied) /\ regMissed' = regMissed
            /\ regHandled' = regHandled \/ RememberHandled(e)
         \/ StartRefresh(Detach(applied), e, remaining)
  BY DEF CommandAnswered, regServer
<1>d. /\ Detach(applied) \in [RegEvents -> RefreshStates]
      /\ \A d \in RegEvents : Detach(applied)[d].at = regRefresh[d].at
  BY <1>p, DetachKeeps
<1> HIDE DEF e, at, applied, remaining
<1>1. /\ \A d \in RegEvents : regRefresh'[d].at \in {0, regRefresh[d].at}
      /\ regHandled' = regHandled \/ RememberHandled(e)
      /\ regMissed' \subseteq regMissed \cup ({e} \X RegHere)
  <2>1. CASE StartRefresh(Detach(applied), e, remaining)
    BY <2>1, <1>d, <1>r, <1>p, StartRefreshBegins
  <2>2. CASE ~StartRefresh(Detach(applied), e, remaining)
    BY <2>2, <1>u, <1>d
  <2> QED BY <2>1, <2>2
<1>2. /\ regShown' \in [RegHere -> Nat]
      /\ \A q \in RegHere : regShown'[q] <= Len(regTold') /\ regGot'[q] <= Len(regTold')
  BY <1>u, <1>e, ShowsOrKeeps DEF RegBounds
<1>3. \A g \in RegForms : \/ regForm'[g] = regForm[g]
                          \/ regForm'[g].event <= Len(regTold') /\ regForm'[g].at <= Len(regTold')
  <2>1. NoForm.event = 0 /\ NoForm.at = 0
    BY DEF NoForm
  <2>2. \A g \in RegForms : regForm'[g] = IF g = f THEN NoForm ELSE regForm[g]
    BY <1>u, <1>n
  <2> QED BY <2>1, <2>2, <1>u, <1>n
<1>4. regStream' \in {"none", "connecting", "open", "closed"}
  BY <1>u DEF RegBounds, HistoryOK
<1>5. Len(regTold) <= Len(regTold')
  BY <1>u, <1>n
<1>6. /\ regOwn' \subseteq regOwn \cup 1 .. Len(regTold)
      /\ regMissed' \subseteq regMissed \cup ((1 .. Len(regTold)) \X RegHere)
  <2>1. e \in 1 .. Len(regTold)
    BY <1>e, <1>n
  <2> QED BY <2>1, <1>u, <1>1
<1> QED BY <1>1, <1>2, <1>3, <1>4, <1>5, <1>6, <1>e, BoundsFrom

\* The stream changes its state or delivers a notice.
LEMMA StreamBounded ==
  ASSUME RegInv, RegInv', RegBounds, StreamOpens \/ StreamBreaks \/ StreamDelivers
  PROVE  RegBounds'
<1>u. /\ regTold' = regTold /\ regForm' = regForm /\ regGot' = regGot /\ regShown' = regShown
      /\ regOwn' = regOwn
  BY DEF StreamOpens, StreamBreaks, StreamDelivers, regDoc, regHist
<1>s. regStream' \in {"none", "connecting", "open", "closed"}
  BY DEF StreamOpens, StreamBreaks, StreamDelivers, RegBounds, HistoryOK
<1>n. Len(regTold) \in Nat
  BY RegNumbers
<1>1. /\ \A d \in RegEvents : regRefresh'[d].at \in {0, regRefresh[d].at}
      /\ regHandled' = regHandled \/ \E e \in Nat : RememberHandled(e)
      /\ regMissed' \subseteq regMissed \cup ((1 .. Len(regTold)) \X RegHere)
  <2>1. CASE StreamOpens \/ StreamBreaks
    BY <2>1 DEF StreamOpens, StreamBreaks, regHist
  <2>2. CASE StreamDelivers
    <3> DEFINE e == Head(regInbox)
    <3>1. regInbox # <<>> /\ StartRefresh(regRefresh, e, regTold[e])
      BY <2>2 DEF StreamDelivers
    <3>2. e \in Nat /\ 1 <= e /\ e <= Len(regTold)
      BY <3>1, RegSame
    <3> HIDE DEF e
    <3>3. e \in RegEvents /\ regTold[e] \in SUBSET RegQueries
      BY <3>2, RegNumbers
    <3>4. /\ \A d \in RegEvents : regRefresh'[d].at \in {0, regRefresh[d].at}
          /\ regHandled' = regHandled \/ RememberHandled(e)
          /\ regMissed' \subseteq regMissed \cup ({e} \X RegHere)
      BY <3>1, <3>3, RegSame, StartRefreshBegins
    <3>5. e \in 1 .. Len(regTold)
      BY <3>2, <1>n
    <3> QED BY <3>2, <3>4, <3>5
  <2> QED BY <2>1, <2>2
<1> QED BY <1>u, <1>s, <1>n, <1>1, BoundsFrom

\* A refresh renders, answers or ends.
LEMMA RefreshBounded ==
  ASSUME RegInv, RegInv', RegBounds, NEW e \in RegEvents,
         \/ EndpointRenders(e) \/ EndpointAnswers(e)
         \/ DocumentRenders(e) \/ DocumentAnswers(e) \/ DocumentBlank(e) \/ DocumentFails(e)
  PROVE  RegBounds'
<1> DEFINE r == regRefresh[e]
           applied == r.patched \cap regPage
<1>n. /\ r \in RefreshStates /\ Len(regTold) \in Nat /\ e \in Nat /\ 1 <= e
      /\ regRefresh \in [RegEvents -> RefreshStates]
      /\ r.at \in Nat /\ r.at <= Len(regTold) /\ r.held \in SUBSET RegHere
      /\ applied \in SUBSET RegHere
  BY RegSame, RegNumbers DEF RegBounds, VersionsOK, RefreshStates
<1>u. /\ regTold' = regTold /\ regStream' = regStream /\ regForm' = regForm
      /\ regHandled' = regHandled \/ RememberHandled(e)
      /\ regRefresh[e].pc # "none"
      /\ regOwn' \subseteq regOwn
  BY DEF EndpointRenders, EndpointAnswers, DocumentRenders, DocumentAnswers, DocumentBlank,
         DocumentFails, regServer, regHist
<1>m. regMissed' \subseteq regMissed \cup ({e} \X RegHere)
  <2>1. CASE EndpointRenders(e) \/ DocumentRenders(e) \/ DocumentFails(e)
    BY <2>1 DEF EndpointRenders, DocumentRenders, DocumentFails, regHist
  <2>2. CASE EndpointAnswers(e) \/ DocumentAnswers(e) \/ DocumentBlank(e)
    <3>1. regMissed' = regMissed \/ \E qs : Miss(e, qs)
      BY <2>2 DEF EndpointAnswers, DocumentAnswers, DocumentBlank
    <3> QED BY <3>1 DEF Miss
  <2> QED BY <2>1, <2>2
<1>o. e <= Len(regTold)
  BY <1>u DEF RegInv, RefreshOK
<1>x. NoRefresh.at = 0
  BY DEF NoRefresh
<1>1. \/ regShown' = regShown /\ regGot' = regGot
      \/ /\ regShown' \in [RegHere -> Nat]
         /\ \A q \in RegHere : regShown'[q] <= Len(regTold') /\ regGot'[q] <= Len(regTold')
  <2>1. CASE EndpointAnswers(e)
    <3>1. Show(applied, r.at) /\ Get(applied, r.at)
      BY <2>1 DEF EndpointAnswers
    <3> QED BY <3>1, <1>n, <1>u, ShowsOrKeeps DEF RegBounds
  <2>2. CASE DocumentAnswers(e)
    <3>1. PICK placed : Show(placed, r.at) /\ Get(placed, r.at)
      BY <2>2 DEF DocumentAnswers
    <3> QED BY <3>1, <1>n, <1>u, ShowsOrKeeps DEF RegBounds
  <2>3. CASE EndpointRenders(e) \/ DocumentRenders(e) \/ DocumentBlank(e) \/ DocumentFails(e)
    BY <2>3 DEF EndpointRenders, DocumentRenders, DocumentBlank, DocumentFails, regDoc, regHist
  <2> QED BY <2>1, <2>2, <2>3
<1>2. \A d \in RegEvents : regRefresh'[d].at \in {0, regRefresh[d].at, Len(regTold)}
  <2>1. CASE EndpointRenders(e) \/ DocumentRenders(e)
    <3>1. PICK s : regRefresh' = [regRefresh EXCEPT ![e] = s] /\ s.at = Len(regTold)
      <4>1. CASE EndpointRenders(e)
        <5>1. PICK patched \in SUBSET r.queries :
                regRefresh' = [regRefresh EXCEPT ![e] =
                  [r EXCEPT !.pc = "patches", !.patched = patched, !.at = Len(regTold)]]
          BY <4>1 DEF EndpointRenders, Version
        <5>2. [r EXCEPT !.pc = "patches", !.patched = patched, !.at = Len(regTold)].at = Len(regTold)
          BY <1>n DEF RefreshStates
        <5> QED BY <5>1, <5>2
      <4>2. CASE DocumentRenders(e)
        <5>1. regRefresh' = [regRefresh EXCEPT ![e] = [r EXCEPT !.pc = "page", !.at = Len(regTold)]]
          BY <4>2 DEF DocumentRenders, Version
        <5>2. [r EXCEPT !.pc = "page", !.at = Len(regTold)].at = Len(regTold)
          BY <1>n DEF RefreshStates
        <5> QED BY <5>1, <5>2
      <4> QED BY <2>1, <4>1, <4>2
    <3>2. \A d \in RegEvents : regRefresh'[d] = IF d = e THEN s ELSE regRefresh[d]
      BY <3>1, <1>n
    <3> QED BY <3>1, <3>2
  <2>2. CASE EndpointAnswers(e) \/ DocumentAnswers(e) \/ DocumentBlank(e) \/ DocumentFails(e)
    <3>1. PICK active, s :
            /\ regRefresh' = [active EXCEPT ![e] = s] /\ s.at = 0
            /\ active \in [RegEvents -> RefreshStates]
            /\ \A d \in RegEvents : active[d].at = regRefresh[d].at
      <4>1. CASE EndpointAnswers(e)
        <5> DEFINE remaining == RemainingQueries(r.queries, applied)
                   next == [NoRefresh EXCEPT !.pc = "document", !.queries = remaining,
                              !.held = IF applied = {} THEN r.held ELSE remaining \cap regPage]
        <5>1. \/ regRefresh' = [Detach(applied) EXCEPT ![e] = NoRefresh]
              \/ regRefresh' = [Detach(applied) EXCEPT ![e] = next]
          BY <4>1 DEF EndpointAnswers
        <5>2. next.at = 0
          BY DEF NoRefresh
        <5> HIDE DEF next
        <5>3. /\ Detach(applied) \in [RegEvents -> RefreshStates]
              /\ \A d \in RegEvents : Detach(applied)[d].at = regRefresh[d].at
          BY <1>n, DetachKeeps
        <5> QED BY <5>1, <5>2, <5>3, <1>x
      <4>2. CASE DocumentAnswers(e)
        <5>1. PICK rs \in SUBSET RegHere : regRefresh' = [Detach(rs) EXCEPT ![e] = NoRefresh]
          BY <4>2 DEF DocumentAnswers
        <5>2. /\ Detach(rs) \in [RegEvents -> RefreshStates]
              /\ \A d \in RegEvents : Detach(rs)[d].at = regRefresh[d].at
          BY <1>n, DetachKeeps
        <5> QED BY <5>1, <5>2, <1>x
      <4>3. CASE DocumentBlank(e) \/ DocumentFails(e)
        <5>1. regRefresh' = [regRefresh EXCEPT ![e] = NoRefresh]
          BY <4>3 DEF DocumentBlank, DocumentFails
        <5> QED BY <5>1, <1>x, <1>n
      <4> QED BY <2>2, <4>1, <4>2, <4>3
    <3>2. \A d \in RegEvents : regRefresh'[d] = IF d = e THEN s ELSE active[d]
      BY <3>1
    <3> QED BY <3>1, <3>2
  <2> QED BY <2>1, <2>2
<1>3. regStream' \in {"none", "connecting", "open", "closed"}
  BY <1>u DEF RegBounds, HistoryOK
<1>4. /\ regOwn' \subseteq regOwn \cup 1 .. Len(regTold)
      /\ regMissed' \subseteq regMissed \cup ((1 .. Len(regTold)) \X RegHere)
  <2>1. e \in 1 .. Len(regTold)
    BY <1>n, <1>o
  <2> QED BY <2>1, <1>u, <1>m
<1> HIDE DEF r, applied
<1> QED BY <1>1, <1>2, <1>3, <1>4, <1>u, <1>n, BoundsFrom

\* A page shows nothing the server has not rendered, and the list of handled
\* events stays within its limit without naming an event twice, however often
\* the stream and the answers tell of it.
THEOREM HandledListIsBounded == RegSpec => []RegTypeOK
<1>1. ASSUME RegInit PROVE RegBounds
  <2>1. /\ regTold = <<>> /\ regHandled = <<>> /\ regMissed = {} /\ regOwn = {}
        /\ regGot = [q \in RegHere |-> 0] /\ regShown = [q \in RegHere |-> 0]
        /\ regForm = [f \in RegForms |-> NoForm]
        /\ regRefresh = [e \in RegEvents |-> NoRefresh]
        /\ regStream \in {"none", "connecting"}
    BY <1>1 DEF RegInit
  <2>2. VersionsOK
    BY <2>1 DEF VersionsOK, NoForm, NoRefresh
  <2>3. ListOK
    BY <2>1, RegAssumption DEF ListOK
  <2>4. HistoryOK
    BY <2>1 DEF HistoryOK
  <2> QED BY <2>2, <2>3, <2>4 DEF RegBounds
<1>2. RegInv /\ RegInv' /\ RegBounds /\ [RegNext]_regVars => RegBounds'
  <2> SUFFICES ASSUME RegInv, RegInv', RegBounds, [RegNext]_regVars PROVE RegBounds'
    OBVIOUS
  <2>1. CASE UNCHANGED regVars
    BY <2>1 DEF regVars, regServer, regDoc, regHist, RegBounds, VersionsOK, ListOK, HistoryOK
  <2>2. CASE RegNext
    BY <2>2, FormsBounded, AnswerBounded, StreamBounded, RefreshBounded DEF RegNext
  <2> QED BY <2>1, <2>2
<1>3. RegInv /\ RegBounds => RegTypeOK
  <2> SUFFICES ASSUME RegInv, RegBounds PROVE RegTypeOK
    OBVIOUS
  <2>n. /\ Len(regTold) \in Nat /\ MaxRegEvents \in Nat /\ Len(regTold) <= MaxRegEvents
        /\ regTold \in Seq(SUBSET RegQueries) /\ regInbox \in Seq(Nat) /\ regHandled \in Seq(Nat)
    BY RegNumbers DEF RegInv, RegShape
  <2>1. \A e \in 1 .. Len(regTold) : regTold[e] \subseteq RegQueries
    BY <2>n
  <2>2. regShown \in [RegHere -> 0 .. Version] /\ regGot \in [RegHere -> 0 .. Version]
    BY <2>n DEF RegInv, RegShape, RegBounds, VersionsOK, Version
  <2>3. \A i \in 1 .. Len(regInbox) : regInbox[i] \in 1 .. Version
    BY <2>n DEF RegInv, RegShape, Version
  <2>4. regForm \in [RegForms -> [pc : {"idle", "sent", "run", "answered"},
                                  event : 0 .. MaxRegEvents, patched : SUBSET RegQueries,
                                  at : 0 .. MaxRegEvents]]
    <3>1. regForm \in [RegForms -> FormStates]
      BY DEF RegInv, RegShape
    <3>2. ASSUME NEW f \in RegForms
          PROVE  regForm[f] \in [pc : {"idle", "sent", "run", "answered"},
                                 event : 0 .. MaxRegEvents, patched : SUBSET RegQueries,
                                 at : 0 .. MaxRegEvents]
      <4>1. regForm[f] \in FormStates
        BY <3>1
      <4>2. regForm[f].event \in 0 .. MaxRegEvents /\ regForm[f].at \in 0 .. MaxRegEvents
        BY <4>1, <2>n DEF FormStates, RegBounds, VersionsOK
      <4> QED BY <4>1, <4>2 DEF FormStates
    <3> QED BY <3>1, <3>2
  <2>5. regRefresh \in [RegEvents -> [pc : {"none", "endpoint", "patches", "document", "page"},
                                      queries : SUBSET RegQueries, held : SUBSET RegHere,
                                      patched : SUBSET RegQueries, at : 0 .. MaxRegEvents]]
    <3>1. regRefresh \in [RegEvents -> RefreshStates]
      BY DEF RegInv, RegShape
    <3>2. ASSUME NEW e \in RegEvents
          PROVE  regRefresh[e] \in [pc : {"none", "endpoint", "patches", "document", "page"},
                                    queries : SUBSET RegQueries, held : SUBSET RegHere,
                                    patched : SUBSET RegQueries, at : 0 .. MaxRegEvents]
      <4>1. regRefresh[e] \in RefreshStates
        BY <3>1
      <4>2. regRefresh[e].at \in 0 .. MaxRegEvents
        BY <4>1, <2>n DEF RefreshStates, RegBounds, VersionsOK
      <4> QED BY <4>1, <4>2 DEF RefreshStates
    <3> QED BY <3>1, <3>2
  <2>6. Remembered \subseteq 1 .. Version
    <3>1. \A e \in Remembered : e \in Nat
      BY <2>n DEF Remembered
    <3> QED BY <3>1, <2>n DEF RegInv, RegShape, Version
  <2>7. /\ regPage \subseteq RegHere /\ regOwn \subseteq 1 .. Version
        /\ regMissed \subseteq (1 .. Version) \X RegHere
    BY RegSame DEF RegBounds, HistoryOK, Version
  <2> QED BY <2>n, <2>1, <2>2, <2>3, <2>4, <2>5, <2>6, <2>7
          DEF RegTypeOK, RegBounds, ListOK, HistoryOK
<1> QED BY <1>1, <1>2, <1>3, RegInvariant, PTL DEF RegSpec
=============================================================================
