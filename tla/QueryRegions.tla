---------------------------- MODULE QueryRegions ----------------------------
(***************************************************************************)
(* internal/clientrt/assets/gowdk.js, the regions of a page that show the  *)
(* results of queries: a command of this page or of another client changes *)
(* what the server renders, the answer to the command and the realtime     *)
(* stream tell which queries are stale, and the regions are refreshed from *)
(* patches in the answer, from the route's refresh endpoint, or from the   *)
(* whole document.                                                         *)
(*                                                                         *)
(* A command that ran is an event, numbered from 1; what the server renders*)
(* after n commands is version n.  Every query of RegHere has one region   *)
(* in the page that was loaded, the others have none; a refresh from the   *)
(* document may lose a region, or bring one back.                          *)
(***************************************************************************)
EXTENDS Naturals, Sequences

CONSTANTS
  RegQueries, RegHere,   \* the queries, and those the page has a region for
  RegIds,                \* those whose region has an id
  RegForms,              \* the command forms of the page
  RegHandledLimit,       \* handledQueryRefreshEventIDLimit
  MaxRegEvents           \* bound: commands

ASSUME RegAssumption ==
  /\ RegIds \subseteq RegHere /\ RegHere \subseteq RegQueries
  /\ RegHandledLimit \in Nat /\ MaxRegEvents \in Nat

VARIABLES
  regTold,      \* the queries each event invalidates
  regPage,      \* the regions in the document
  regShown,     \* region -> the version it shows
  regStream,    \* realtimeSource: "none", "connecting", "open", "closed"
  regInbox,     \* events on their way along the stream
  regForm,      \* form -> [pc, event, patched, at]
  regRefresh,   \* activeQueryRefreshes: event -> [pc, queries, held, patched, at];
                \* held: the captured regions that are still in the document
  regHandled,   \* handledQueryRefreshEventIDOrder
  regGot,       \* history: region -> the latest version put in the page for it
  regMissed,    \* history: <<event, region>>, where the event counts as handled
                \* and there was no region, or no replacement for it
  regOwn        \* history: commands of this page whose answer was taken, less
                \* those whose document could not be had

regServer == <<regTold, regStream, regInbox>>
regDoc == <<regPage, regShown>>
regHist == <<regGot, regMissed, regOwn>>
regVars == <<regServer, regDoc, regForm, regRefresh, regHandled, regHist>>

RegEvents == 1 .. MaxRegEvents
Version == Len(regTold)
NoForm == [pc |-> "idle", event |-> 0, patched |-> {}, at |-> 0]
NoRefresh == [pc |-> "none", queries |-> {}, held |-> {}, patched |-> {}, at |-> 0]
Remembered == {regHandled[i] : i \in 1 .. Len(regHandled)}

\* Every variable has its type; no more event IDs are remembered than the
\* limit, each once.
RegTypeOK ==
  /\ Len(regTold) <= MaxRegEvents
  /\ \A e \in 1 .. Len(regTold) : regTold[e] \subseteq RegQueries
  /\ regShown \in [RegHere -> 0 .. Version] /\ regGot \in [RegHere -> 0 .. Version]
  /\ regStream \in {"none", "connecting", "open", "closed"}
  /\ \A i \in 1 .. Len(regInbox) : regInbox[i] \in 1 .. Version
  /\ regForm \in [RegForms -> [pc : {"idle", "sent", "run", "answered"}, event : 0 .. MaxRegEvents,
                               patched : SUBSET RegQueries, at : 0 .. MaxRegEvents]]
  /\ regRefresh \in [RegEvents -> [pc : {"none", "endpoint", "patches", "document", "page"},
                                   queries : SUBSET RegQueries, held : SUBSET RegHere,
                                   patched : SUBSET RegQueries, at : 0 .. MaxRegEvents]]
  /\ Remembered \subseteq 1 .. Version /\ Len(regHandled) <= RegHandledLimit
  /\ \A i, j \in 1 .. Len(regHandled) : regHandled[i] = regHandled[j] => i = j
  /\ regPage \subseteq RegHere /\ regOwn \subseteq 1 .. Version
  /\ regMissed \subseteq (1 .. Version) \X RegHere

RegInit ==
  /\ regTold = <<>>
  /\ regPage = RegHere /\ regShown = [q \in RegHere |-> 0] /\ regGot = regShown
  /\ regStream \in {"none", "connecting"} /\ regInbox = <<>>
  /\ regForm = [f \in RegForms |-> NoForm]
  /\ regRefresh = [e \in RegEvents |-> NoRefresh]
  /\ regHandled = <<>> /\ regMissed = {} /\ regOwn = {}

-----------------------------------------------------------------------------
(* Replacing regions, and remembering what was done.                       *)

\* The regions rs are replaced by what was rendered at version at: nobody
\* holds the old ones any more.
Show(rs, at) == regShown' = [q \in RegHere |-> IF q \in rs THEN at ELSE regShown[q]]

Detach(rs) == [e \in RegEvents |-> [regRefresh[e] EXCEPT !.held = @ \ rs]]

Get(qs, at) ==
  regGot' = [q \in RegHere |-> IF q \in qs /\ at > regGot[q] THEN at ELSE regGot[q]]

\* remainingQueries
RemainingQueries(queries, applied) == queries \ applied

\* rememberHandledQueryRefreshEventIDs: an evicted ID is forgotten.
RememberHandled(e) ==
  LET order == IF e \in Remembered THEN regHandled ELSE Append(regHandled, e)
  IN  regHandled' = IF Len(order) > RegHandledLimit THEN Tail(order) ELSE order

\* Event e is handled with nothing done for the regions of qs.
Miss(e, qs) == regMissed' = regMissed \cup ({e} \X (qs \cap RegHere))

\* An event that is remembered when its refresh begins.
StartRefreshHandled(active, e, queries) ==
  IF e \in Remembered \/ active[e].pc # "none"
    THEN regRefresh' = active /\ UNCHANGED <<regHandled, regMissed>>
    ELSE /\ regRefresh' = [active EXCEPT ![e] =
              [NoRefresh EXCEPT !.pc = "endpoint", !.queries = queries,
                                !.held = queries \cap regPage]]
         /\ RememberHandled(e) /\ UNCHANGED regMissed

\* refreshInvalidatedQueries, over the refreshes that are active: an event
\* that is handled or being handled is left alone, one without a region in
\* this page is handled at once.
StartRefresh(active, e, queries) ==
  CASE e \in Remembered \/ active[e].pc # "none" ->
         regRefresh' = active /\ UNCHANGED <<regHandled, regMissed>>
    [] e \notin Remembered /\ active[e].pc = "none" /\ queries \cap regPage = {} ->
         regRefresh' = active /\ RememberHandled(e) /\ Miss(e, queries)
    [] OTHER ->
         /\ regRefresh' = [active EXCEPT ![e] =
              [NoRefresh EXCEPT !.pc = "endpoint", !.queries = queries,
                                !.held = queries \cap regPage]]
         /\ UNCHANGED <<regHandled, regMissed>>

-----------------------------------------------------------------------------
(* Commands, and the notice that QueryInvalidationCommandEventSink sends.  *)

\* A stream that is connecting may get the notice when it is connected, from
\* the hub's replay, or never.
RunCommandFor(queries) ==
  /\ Len(regTold) < MaxRegEvents
  /\ regTold' = Append(regTold, queries)
  /\ \/ /\ queries # {} /\ regStream \in {"open", "connecting"}
        /\ regInbox' = Append(regInbox, Version + 1)
     \/ /\ queries = {} \/ regStream # "open"
        /\ UNCHANGED regInbox
  /\ UNCHANGED regStream

OthersCommand ==
  /\ \E queries \in SUBSET RegQueries : RunCommandFor(queries)
  /\ UNCHANGED <<regDoc, regForm, regRefresh, regHandled, regHist>>

\* submitCommand; a form that is in flight is not sent again.
Submit(f) ==
  /\ regForm[f].pc = "idle"
  /\ regForm' = [regForm EXCEPT ![f].pc = "sent"]
  /\ UNCHANGED <<regServer, regDoc, regRefresh, regHandled, regHist>>

CommandRuns(f) ==
  /\ regForm[f].pc = "sent"
  /\ \E queries \in SUBSET RegQueries : RunCommandFor(queries)
  /\ regForm' = [regForm EXCEPT ![f].pc = "run", ![f].event = Version + 1]
  /\ UNCHANGED <<regDoc, regRefresh, regHandled, regHist>>

\* RenderInvalidatedRegions: those that have a renderer, and load.
RegionsRendered(f) ==
  /\ regForm[f].pc = "run"
  /\ \E patched \in SUBSET regTold[regForm[f].event] :
       regForm' = [regForm EXCEPT ![f] = [@ EXCEPT !.pc = "answered", !.patched = patched,
                                                   !.at = Version]]
  /\ UNCHANGED <<regServer, regDoc, regRefresh, regHandled, regHist>>

\* The request, or its answer, fails.
CommandFails(f) ==
  /\ regForm[f].pc # "idle"
  /\ regForm' = [regForm EXCEPT ![f] = NoForm]
  /\ UNCHANGED <<regServer, regDoc, regRefresh, regHandled, regHist>>

\* realtimeInvalidationRefreshActive
StreamActive == regStream \in {"connecting", "open"}

\* The answer: its patches are applied; what they leave is refreshed, by the
\* stream when there is one.
CommandAnswered(f) ==
  LET e == regForm[f].event
      applied == regForm[f].patched \cap regPage
      remaining == RemainingQueries(regTold[e], applied)
  IN  /\ regForm[f].pc = "answered"
      /\ Show(applied, regForm[f].at) /\ Get(applied, regForm[f].at)
      /\ \/ /\ regTold[e] # {} /\ remaining = {}
            /\ RememberHandled(e) /\ regRefresh' = Detach(applied) /\ UNCHANGED regMissed
         \/ /\ regTold[e] = {} \/ (remaining # {} /\ StreamActive)
            /\ regRefresh' = Detach(applied) /\ UNCHANGED <<regHandled, regMissed>>
         \/ /\ remaining # {} /\ ~StreamActive
            /\ StartRefresh(Detach(applied), e, remaining)
      /\ regForm' = [regForm EXCEPT ![f] = NoForm]
      /\ regOwn' = regOwn \cup {e}
      /\ UNCHANGED <<regServer, regPage>>

-----------------------------------------------------------------------------
(* The stream.                                                             *)

StreamOpens ==
  /\ regStream = "connecting" /\ regStream' = "open"
  /\ UNCHANGED <<regTold, regInbox, regDoc, regForm, regRefresh, regHandled, regHist>>

\* The browser connects again, or, after an answer that is no stream, does not.
StreamBreaks ==
  /\ StreamActive
  /\ \/ regStream = "open" /\ regStream' = "connecting" /\ regInbox' \in {<<>>, regInbox}
     \/ regStream' = "closed" /\ regInbox' = <<>>
  /\ UNCHANGED <<regTold, regDoc, regForm, regRefresh, regHandled, regHist>>

\* handleRealtimeEvent, applyRealtimeEnvelope
StreamDelivers ==
  /\ regStream = "open" /\ regInbox # <<>>
  /\ StartRefresh(regRefresh, Head(regInbox), regTold[Head(regInbox)])
  /\ regInbox' = Tail(regInbox)
  /\ UNCHANGED <<regTold, regStream, regDoc, regForm, regGot, regOwn>>

-----------------------------------------------------------------------------
(* runInvalidatedQueryRefresh.                                             *)

\* The route's refresh endpoint renders some of the regions, or fails.
EndpointRenders(e) ==
  /\ regRefresh[e].pc = "endpoint"
  /\ \E patched \in SUBSET regRefresh[e].queries :
       regRefresh' = [regRefresh EXCEPT ![e] = [@ EXCEPT !.pc = "patches", !.patched = patched,
                                                         !.at = Version]]
  /\ UNCHANGED <<regServer, regDoc, regForm, regHandled, regHist>>

\* Its patches are applied; the regions that are left are captured again only
\* when there was a patch.
EndpointAnswers(e) ==
  LET r == regRefresh[e]
      applied == r.patched \cap regPage
      remaining == RemainingQueries(r.queries, applied)
      after == Detach(applied)
  IN  /\ r.pc = "patches"
      /\ Show(applied, r.at) /\ Get(applied, r.at)
      /\ IF applied # {} /\ remaining \cap regPage = {}
           THEN /\ regRefresh' = [after EXCEPT ![e] = NoRefresh]
                /\ RememberHandled(e) /\ Miss(e, remaining)
           ELSE /\ regRefresh' = [after EXCEPT ![e] =
                     [NoRefresh EXCEPT !.pc = "document", !.queries = remaining,
                        !.held = IF applied = {} THEN r.held ELSE remaining \cap regPage]]
                /\ UNCHANGED <<regHandled, regMissed>>
      /\ UNCHANGED <<regServer, regPage, regForm, regOwn>>

DocumentRenders(e) ==
  /\ regRefresh[e].pc = "document"
  /\ regRefresh' = [regRefresh EXCEPT ![e] = [@ EXCEPT !.pc = "page", !.at = Version]]
  /\ UNCHANGED <<regServer, regDoc, regForm, regHandled, regHist>>

\* replacementQueryRegion, for every captured region: it takes the region of
\* the document that has its id, or else the one at its index, or else none,
\* and stays as it is.  At its index is its own when the document has what was
\* captured; otherwise it may be another's, which takes its place: it is lost,
\* and one that was lost may be back.  Replacing a captured region that has
\* left the document does nothing.
\*   came: regions of the document that was fetched
\*   placed: those that are put in the page as regions of their own query
\*   lost: regions of the page that another's take the place of
Replacement(r, came, placed, lost) ==
  /\ placed \subseteq came \cap (r.held \cup (r.queries \ regPage))
  /\ came \cap r.held \cap RegIds \subseteq placed
  /\ lost \subseteq r.held \ placed
  /\ lost # {} => came # {}
  /\ placed \subseteq r.held \/ lost # {}
  /\ came = r.queries \cap RegHere /\ came = r.held => placed = came

\* The refresh ends, and the event counts as handled, whatever was replaced.
DocumentAnswers(e) ==
  LET r == regRefresh[e]
  IN  /\ r.pc = "page"
      /\ \E came, placed, lost \in SUBSET (r.queries \cap RegHere) :
           /\ Replacement(r, came, placed, lost)
           /\ Show(placed, r.at) /\ Get(placed, r.at) /\ Miss(e, r.queries \ placed)
           /\ regPage' = (regPage \cup placed) \ lost
           /\ regRefresh' = [Detach(placed \cup lost) EXCEPT ![e] = NoRefresh]
      /\ RememberHandled(e)
      /\ UNCHANGED <<regServer, regForm, regOwn>>

\* The response is no page: the refresh returns, and counts as handled.
DocumentBlank(e) ==
  /\ regRefresh[e].pc = "page"
  /\ regRefresh' = [regRefresh EXCEPT ![e] = NoRefresh]
  /\ RememberHandled(e) /\ Miss(e, regRefresh[e].queries)
  /\ UNCHANGED <<regServer, regDoc, regForm, regGot, regOwn>>

DocumentFails(e) ==
  /\ regRefresh[e].pc \in {"document", "page"}
  /\ regRefresh' = [regRefresh EXCEPT ![e] = NoRefresh]
  /\ regOwn' = regOwn \ {e}
  /\ UNCHANGED <<regServer, regDoc, regForm, regHandled, regGot, regMissed>>

-----------------------------------------------------------------------------
RegNext ==
  \/ OthersCommand
  \/ \E f \in RegForms :
       Submit(f) \/ CommandRuns(f) \/ RegionsRendered(f) \/ CommandFails(f) \/ CommandAnswered(f)
  \/ StreamOpens \/ StreamBreaks \/ StreamDelivers
  \/ \E e \in RegEvents :
       \/ EndpointRenders(e) \/ EndpointAnswers(e)
       \/ DocumentRenders(e) \/ DocumentAnswers(e) \/ DocumentBlank(e) \/ DocumentFails(e)

RegSpec == RegInit /\ [][RegNext]_regVars

-----------------------------------------------------------------------------
(* Properties.                                                             *)

\* An event is remembered as handled, so that a second notice of it is
\* ignored.  It is so only if, for every region it made stale, something
\* rendered after it was put in the page, from whichever of the three sources;
\* or the refresh is known to have had nothing to put there: the page has no
\* region left, the document asked for was no page, had no region to replace
\* this one, or this one had left the page since it was captured.  The code
\* checks none of the latter.
HandledMeansRefreshed ==
  \A e \in Remembered : \A q \in regTold[e] \cap RegHere :
    regGot[q] >= e \/ <<e, q>> \in regMissed

\* docs/reference/contracts.md: "the submitter's regions update immediately
\* without waiting for the realtime fanout".  When the page is at rest, with
\* nothing under way and the stream not connecting, the regions that its own
\* commands made stale have been refreshed, unless a request failed or had
\* nothing for them.
SubmitterRefreshed ==
  (/\ \A f \in RegForms : regForm[f].pc = "idle"
   /\ \A e \in RegEvents : regRefresh[e].pc = "none"
   /\ regInbox = <<>> /\ regStream # "connecting")
  => \A e \in regOwn : \A q \in regTold[e] \cap RegHere :
       regGot[q] >= e \/ <<e, q>> \in regMissed
=============================================================================
