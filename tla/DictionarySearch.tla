---------------------------- MODULE DictionarySearch -----------------------------
(***************************************************************************)
(* The dictionary page: its list of results, its suggestions while one     *)
(* types, and their requests, which are cancelled, time out, fail and are  *)
(* answered out of order.                                                  *)
(*                                                                         *)
(* The URL holds the committed search and drives the results; the text in  *)
(* the input is a draft.  Each of the two request managers numbers its     *)
(* requests, aborts the previous one as well as it can, and ignores the    *)
(* answer to any but the newest.  Effects ask only after a timer, and a    *)
(* render that changes what they depend on clears it.                      *)
(*                                                                         *)
(* A query that is too long is refused, which the suggestions call an      *)
(* invalid query; here it has failed like any other.                       *)
(***************************************************************************)
EXTENDS Integers

CONSTANTS
    Words,       \* queries that are not blank
    Filters,     \* settings of level and common words
    MaxRequests  \* bound on the numbers a manager gives

VARIABLES
    url,         \* the committed search
    draft,       \* the text in the input
    results,     \* the list: is it loading, has it failed, and what it answers
    refresh,     \* is the timer of the results' effect running
    popup,       \* the suggestions: open for which query, with what in it
    manager      \* manager[m]: the last number it gave, and its requests in flight

searchVars == <<url, draft, results, refresh, popup, manager>>

Blank == "blank"
Closed == "closed"

ASSUME SearchAssumption ==
    /\ MaxRequests \in Nat
    /\ Blank \notin Words
    /\ Closed \notin Words

Queries == Words \cup {Blank}
Searches == [query : Queries, filter : Filters]
Managers == {"results", "suggestions"}

\* The search that something answers, as a set: none yet.
Unanswered == {}

--------------------------------------------------------------------------------
(***************************************************************************)
(* The managers.                                                           *)
(***************************************************************************)
Aborted(requests) == {[c EXCEPT !.aborted = TRUE] : c \in requests}

\* Mutant: the previous request is aborted, and the new one has its number.
AskUnnumbered(m, asked) ==
    [m EXCEPT !.requests = Aborted(@)
                 \cup {[number |-> m.newest, asked |-> asked, aborted |-> FALSE]}]

Ask(m, asked) ==
    [newest |-> m.newest + 1,
     requests |-> Aborted(m.requests)
                    \cup {[number |-> m.newest + 1, asked |-> asked, aborted |-> FALSE]}]

Cancel(m) == [newest |-> m.newest + 1, requests |-> Aborted(m.requests)]

Answered(m, c) == [m EXCEPT !.requests = @ \ {c}]

\* A request that was aborted may be answered all the same.
Outcomes(c) == IF c.aborted THEN {"ok", "failed", "aborted"} ELSE {"ok", "failed"}

MayNumber(m) == manager[m].newest < MaxRequests

CancelSuggestions ==
    /\ MayNumber("suggestions")
    /\ manager' = [manager EXCEPT !["suggestions"] = Cancel(@)]

--------------------------------------------------------------------------------
(***************************************************************************)
(* The results.                                                            *)
(***************************************************************************)
FetchEntries ==
    /\ results' = [results EXCEPT !.loading = TRUE, !.failed = FALSE]
    /\ MayNumber("results")
    /\ manager' = [manager EXCEPT !["results"] = Ask(@, url)]

\* The effect of the committed search, behind a timer of no time.
RunRefresh ==
    /\ refresh
    /\ refresh' = FALSE
    /\ FetchEntries
    /\ UNCHANGED <<url, draft, popup>>

Retry ==
    /\ ~results.loading
    /\ FetchEntries
    /\ UNCHANGED <<url, draft, refresh, popup>>

AnswerResults(c, outcome) ==
    /\ manager' = [manager EXCEPT !["results"] = Answered(@, c)]
    /\ results' =
         IF c.number # manager["results"].newest THEN results
         ELSE [loading |-> FALSE,
               failed |-> outcome = "failed",
               of |-> IF outcome = "ok" THEN {c.asked} ELSE results.of]
    /\ UNCHANGED <<url, draft, refresh, popup>>

--------------------------------------------------------------------------------
(***************************************************************************)
(* The suggestions.                                                        *)
(***************************************************************************)
PopupOpen == draft # Blank /\ popup.open = draft

NoResult(query, status) == [query |-> query, status |-> status, of |-> Unanswered]

\* What the popup shows: a result for another text is not shown.
Visible == IF popup.result.query = draft THEN popup.result
           ELSE NoResult(draft, IF PopupOpen THEN "loading" ELSE "idle")

Type(q) ==
    /\ q # draft
    /\ draft' = q
    /\ popup' = [open |-> IF q = Blank THEN Closed ELSE q,
                 result |-> NoResult(q, IF q = Blank THEN "idle" ELSE "loading"),
                 timer |-> q # Blank]
    /\ CancelSuggestions
    /\ UNCHANGED <<url, results, refresh>>

Focus ==
    /\ draft # Blank
    /\ ~PopupOpen
    /\ popup' = [open |-> draft, result |-> NoResult(draft, "loading"), timer |-> TRUE]
    /\ CancelSuggestions
    /\ UNCHANGED <<url, draft, results, refresh>>

Dismissed == popup' = [open |-> Closed, result |-> NoResult(draft, "idle"), timer |-> FALSE]

\* Escape, or a suggestion chosen.
DismissSuggestions ==
    /\ PopupOpen
    /\ Dismissed
    /\ CancelSuggestions
    /\ UNCHANGED <<url, draft, results, refresh>>

\* Both lines: a search that is the committed one already is asked again at once.
FetchAndCancel ==
    /\ \A m \in Managers : MayNumber(m)
    /\ results' = [results EXCEPT !.loading = TRUE, !.failed = FALSE]
    /\ manager' = [manager EXCEPT !["results"] = Ask(@, [url EXCEPT !.query = draft']),
                                  !["suggestions"] = Cancel(@)]

\* Another one goes to the URL.
Submit ==
    /\ UNCHANGED <<url, draft, refresh>>
    /\ Dismissed
    /\ IF draft = url.query THEN FetchAndCancel ELSE CancelSuggestions /\ UNCHANGED results

\* The button beside the results; the popup learns of it by a render.
ClearSearch ==
    /\ draft # Blank
    /\ draft' = Blank
    /\ popup' = [popup EXCEPT !.timer = FALSE]
    /\ UNCHANGED <<url, refresh>>
    /\ IF url.query = Blank THEN FetchAndCancel ELSE CancelSuggestions /\ UNCHANGED results

RunSuggest ==
    /\ popup.timer
    /\ popup' = [popup EXCEPT !.result = NoResult(draft, "loading"), !.timer = FALSE]
    /\ MayNumber("suggestions")
    /\ manager' = [manager EXCEPT !["suggestions"] = Ask(@, draft)]
    /\ UNCHANGED <<url, draft, results, refresh>>

AnswerSuggestions(c, outcome) ==
    /\ manager' = [manager EXCEPT !["suggestions"] = Answered(@, c)]
    /\ popup' =
         IF c.number # manager["suggestions"].newest \/ outcome = "aborted" THEN popup
         ELSE [popup EXCEPT !.result = IF outcome = "ok"
                                       THEN [query |-> c.asked, status |-> "success", of |-> {c.asked}]
                                       ELSE NoResult(c.asked, "error")]
    /\ UNCHANGED <<url, draft, results, refresh>>

RetrySuggestions ==
    /\ PopupOpen
    /\ Visible.status = "error"
    /\ popup' = [popup EXCEPT !.result = NoResult(draft, "loading"), !.timer = TRUE]
    /\ CancelSuggestions
    /\ UNCHANGED <<url, draft, results, refresh>>

--------------------------------------------------------------------------------
(***************************************************************************)
(* Both.                                                                   *)
(***************************************************************************)
\* The URL changes, by what was submitted or through the browser's history.  A
\* committed query that changes replaces the draft, and what the effects depend
\* on is not what it was.
Navigate(s) ==
    /\ s # url
    /\ url' = s
    /\ refresh' = TRUE
    /\ draft' = IF s.query = url.query THEN draft ELSE s.query
    /\ IF draft' = draft THEN UNCHANGED <<popup, manager>>
       ELSE /\ popup' = [popup EXCEPT !.timer = draft' # Blank /\ popup.open = draft']
            /\ CancelSuggestions
    /\ UNCHANGED results

SearchInit ==
    /\ url \in Searches
    /\ draft = url.query
    /\ results = [loading |-> TRUE, failed |-> FALSE, of |-> Unanswered]
    /\ refresh = TRUE
    /\ popup = [open |-> Closed, result |-> NoResult(draft, "idle"), timer |-> FALSE]
    /\ manager = [m \in Managers |-> [newest |-> 0, requests |-> {}]]

SearchNext ==
    \/ RunRefresh
    \/ Retry
    \/ \E q \in Queries : Type(q)
    \/ Focus
    \/ DismissSuggestions
    \/ Submit
    \/ ClearSearch
    \/ RunSuggest
    \/ RetrySuggestions
    \/ \E s \in Searches : Navigate(s)
    \/ \E c \in manager["results"].requests : \E outcome \in Outcomes(c) : AnswerResults(c, outcome)
    \/ \E c \in manager["suggestions"].requests :
          \E outcome \in Outcomes(c) : AnswerSuggestions(c, outcome)

SearchSpec == SearchInit /\ [][SearchNext]_searchVars

--------------------------------------------------------------------------------
(***************************************************************************)
(* Properties                                                              *)
(***************************************************************************)

Asks(what) == [newest : 0 .. MaxRequests,
               requests : SUBSET [number : 0 .. MaxRequests, asked : what, aborted : BOOLEAN]]

\* The page, the popup and the managers have their types.
SearchTypeOK ==
    /\ url \in Searches
    /\ draft \in Queries
    /\ results \in [loading : BOOLEAN, failed : BOOLEAN, of : SUBSET Searches]
    /\ refresh \in BOOLEAN
    /\ popup \in [open : Words \cup {Closed}, timer : BOOLEAN,
                  result : [query : Queries, status : {"idle", "loading", "success", "error"},
                            of : SUBSET Words]]
    /\ manager = [m \in Managers |-> manager[m]]
    /\ manager["results"] \in Asks(Searches)
    /\ manager["suggestions"] \in Asks(Words)

InFlight(m) == \E c \in manager[m].requests : c.number = manager[m].newest /\ ~c.aborted

\* A page at rest shows the answer to its URL, and a popup the suggestions for
\* the text in the input, whatever was cancelled, failed or came late; and who
\* waits has something to wait for: a timer, or a request nobody aborted.
SearchIsAnswered ==
    /\ results.loading => refresh \/ InFlight("results")
    /\ ~(results.loading \/ results.failed \/ refresh) => results.of = {url}
    /\ PopupOpen /\ Visible.status = "loading" => popup.timer \/ InFlight("suggestions")
    /\ PopupOpen /\ Visible.status = "success" => Visible.of = {draft}
================================================================================
