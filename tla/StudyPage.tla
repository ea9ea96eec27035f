------------------------------- MODULE StudyPage --------------------------------
(***************************************************************************)
(* The page of a review session: what it shows, the requests it has under  *)
(* way, and the session on the server.                                     *)
(*                                                                         *)
(* The page asks for the session when it opens, grades the card it shows,  *)
(* undoes, and leaves.  busy keeps answers and undos apart; the first load *)
(* and the exit do not set it, and the U key works while the page loads    *)
(* and while it shows the summary.  Requests and replies get lost, and a   *)
(* page that is reloaded leaves requests behind that run on the server     *)
(* later.                                                                  *)
(*                                                                         *)
(* The queue is the cards 1 to QueueSize.  On the server one action is one *)
(* SQL statement that reads or writes the session or its reviews, and the  *)
(* statements of other requests run in between.                            *)
(***************************************************************************)
EXTENDS Integers, Sequences

CONSTANTS
    QueueSize,      \* cards in the queue of the session
    Tags,           \* names for the calls under way; bound on their number
    MaxGradings     \* bound on the clock: how many gradings are explored

VARIABLES
    session,    \* its reviews, by the instant they were graded at; its status; the clock
    screen,     \* the card shown, or 0; whether it is revealed; the summary; busy
    open,       \* whether the page is open
    calls,      \* requests under way, of the page and left behind by earlier ones
    doubt       \* what may have come between the page and the session (history)

studyVars == <<session, screen, open, calls, doubt>>

ASSUME StudyAssumption ==
    /\ QueueSize \in Nat \ {0}
    /\ MaxGradings \in Nat

Purposes == {"open", "answer", "undo", "exit"}
Questions == {"load", "answer", "undo", "summary", "abandon"}

\* Where a call is: not at the server yet, after the statement that reads the
\* session, its reviews, or the card and the clock, after the one that writes
\* the reviews, or answered.
Progress == {"sent", "opened", "found", "stamped", "written", "replied"}

SessionStatuses == {"active", "completed", "abandoned"}

\* Requests overlapped since the last load; a reply got lost or a statement
\* failed since the last load; an undo left a summary on the screen that came
\* after it was asked for; an answer or an undo was ever left behind.
Doubts == {"overlap", "loss", "kept", "orphan"}

\* A call belongs to a purpose and asks for one thing at a time; its reply is a
\* card, 0 for none, or Refused.
Refused == -1

BlankScreen == [card |-> 0, revealed |-> FALSE, summary |-> FALSE, busy |-> FALSE]

Mine == {c \in calls : c.mine}

Others(c) == calls \ {c}

--------------------------------------------------------------------------------
(***************************************************************************)
(* Requests.                                                               *)
(***************************************************************************)
\* A request is sent while the calls in others are under way.
Send(purpose, ask, card, knew, others) ==
    \E t \in Tags :
        /\ \A c \in others : c.tag # t
        /\ calls' = others \cup
              {[tag |-> t, mine |-> TRUE, purpose |-> purpose, asks |-> ask, card |-> card,
                knew |-> knew, stage |-> "sent", row |-> "active", review |-> 0, reply |-> 0]}

\* The call c is answered and goes on to ask for something else.
AskNext(c, ask) ==
    calls' = Others(c) \cup {[c EXCEPT !.asks = ask, !.card = 0, !.knew = FALSE, !.stage = "sent",
                                       !.row = "active", !.review = 0, !.reply = 0]}

\* What is sent is not called back when the page goes away or gives up: it may
\* change the session yet, and nobody waits for its reply.
LeftBehind(some) ==
    {[c EXCEPT !.mine = FALSE] :
        c \in {d \in some : d.stage # "replied" /\ d.asks \notin {"load", "summary"}}}

Beside(others) == IF others = {} THEN {} ELSE {"overlap"}

Orphaned(some) == IF \E c \in LeftBehind(some) : c.asks # "abandon" THEN {"orphan"} ELSE {}

OpenPage ==
    /\ open' = TRUE
    /\ screen' = BlankScreen
    /\ Send("open", "load", 0, FALSE, LeftBehind(calls))
    /\ doubt' = (doubt \cap {"orphan"}) \cup Beside(LeftBehind(calls)) \cup Orphaned(calls)
    /\ UNCHANGED session

Reveal ==
    /\ open
    /\ screen.card # 0
    /\ ~screen.revealed
    /\ screen' = [screen EXCEPT !.revealed = TRUE]
    /\ UNCHANGED <<session, open, calls, doubt>>

\* Mutant: a second click is not held back.
AnswerCardAgain ==
    /\ open
    /\ screen.card # 0 /\ screen.revealed
    /\ screen' = [screen EXCEPT !.busy = TRUE]
    /\ Send("answer", "answer", screen.card, FALSE, calls)
    /\ doubt' = doubt \cup Beside(calls)
    /\ UNCHANGED <<session, open>>

AnswerCard ==
    /\ open
    /\ screen.card # 0 /\ screen.revealed
    /\ ~screen.busy
    /\ screen' = [screen EXCEPT !.busy = TRUE]
    /\ Send("answer", "answer", screen.card, FALSE, calls)
    /\ doubt' = doubt \cup Beside(calls)
    /\ UNCHANGED <<session, open>>

\* The callback goes by the summary of the moment it is called.
UndoAnswer ==
    /\ open
    /\ ~screen.busy
    /\ screen' = [screen EXCEPT !.busy = TRUE]
    /\ Send("undo", "undo", 0, screen.summary, calls)
    /\ doubt' = doubt \cup Beside(calls)
    /\ UNCHANGED <<session, open>>

ExitPage ==
    /\ open
    /\ Send("exit", "abandon", 0, FALSE, calls)
    /\ doubt' = doubt \cup Beside(calls)
    /\ UNCHANGED <<session, screen, open>>

--------------------------------------------------------------------------------
(***************************************************************************)
(* The server, statement by statement.                                     *)
(***************************************************************************)
\* The card at the cursor, or none when the session is not active.
CardAt(status, log) ==
    IF status = "active" /\ Len(log) < QueueSize THEN Len(log) + 1 ELSE 0

CurrentCard(s) == CardAt(s.status, s.log)

\* The reviews with r in the place of its instant, and without the review id.
Filed(log, r) ==
    [i \in 1 .. Len(log) + 1 |->
        IF i <= Len(log) /\ log[i].id < r.id THEN log[i]
        ELSE IF i > 1 /\ log[i - 1].id > r.id THEN log[i - 1]
        ELSE r]

Without(log, id) ==
    IF \A i \in DOMAIN log : log[i].id # id THEN log
    ELSE [i \in 1 .. Len(log) - 1 |-> IF log[i].id < id THEN log[i] ELSE log[i + 1]]

MovesOn(c, d) == calls' = Others(c) \cup {d}

\* A call whose page is gone has nobody to reply to.
Replies(c, reply) ==
    calls' = Others(c) \cup
             (IF c.mine THEN {[c EXCEPT !.stage = "replied", !.reply = reply]} ELSE {})

\* Only answers look at the status at once.
ReadSession(c) ==
    /\ c.stage = "sent" /\ c.asks \in {"load", "answer", "undo"}
    /\ IF c.asks = "answer" /\ session.status # "active" THEN Replies(c, Refused)
       ELSE MovesOn(c, [c EXCEPT !.stage = "opened", !.row = session.status])
    /\ UNCHANGED session

FindCard(c) ==
    /\ c.stage = "opened" /\ c.asks = "load"
    /\ Replies(c, CardAt(c.row, session.log))
    /\ UNCHANGED session

CheckCursor(c) ==
    /\ c.stage = "opened" /\ c.asks = "answer"
    /\ IF c.card = Len(session.log) + 1 THEN MovesOn(c, [c EXCEPT !.stage = "found"])
       ELSE Replies(c, Refused)
    /\ UNCHANGED session

\* gradeCard reads the card and the clock.
StampReview(c) ==
    /\ c.stage = "found" /\ c.asks = "answer"
    /\ session.clock < MaxGradings
    /\ session' = [session EXCEPT !.clock = @ + 1]
    /\ MovesOn(c, [c EXCEPT !.stage = "stamped", !.review = session.clock + 1])

\* What is next goes by the cursor that was read.
FileReview(c) ==
    /\ c.stage = "stamped" /\ c.asks = "answer"
    /\ session' = [session EXCEPT !.log = Filed(@, [id |-> c.review, card |-> c.card])]
    /\ IF c.card = QueueSize THEN MovesOn(c, [c EXCEPT !.stage = "written"])
       ELSE Replies(c, c.card + 1)

FindLast(c) ==
    /\ c.stage = "opened" /\ c.asks = "undo"
    /\ IF session.log = <<>> THEN Replies(c, 0)
       ELSE MovesOn(c, [c EXCEPT !.stage = "found", !.review = session.log[Len(session.log)].id])
    /\ UNCHANGED session

DeleteReview(c) ==
    /\ c.stage = "found" /\ c.asks = "undo"
    /\ session' = [session EXCEPT !.log = Without(@, c.review)]
    /\ IF c.row = "completed" THEN MovesOn(c, [c EXCEPT !.stage = "written"])
       ELSE Replies(c, 0)

\* The last card completes the session, and to take it back opens it again.
WriteStatus(c) ==
    /\ c.stage = "written"
    /\ session' = [session EXCEPT !.status = IF c.asks = "answer" THEN "completed" ELSE "active"]
    /\ Replies(c, 0)

AbandonSession(c) ==
    /\ c.stage = "sent" /\ c.asks = "abandon"
    /\ session' = [session EXCEPT !.status = "abandoned"]
    /\ Replies(c, 0)

GetSummary(c) ==
    /\ c.stage = "sent" /\ c.asks = "summary"
    /\ Replies(c, 0)
    /\ UNCHANGED session

Serve(c) ==
    /\ \/ ReadSession(c) \/ FindCard(c) \/ GetSummary(c) \/ AbandonSession(c)
       \/ CheckCursor(c) \/ StampReview(c) \/ FileReview(c)
       \/ FindLast(c) \/ DeleteReview(c)
       \/ WriteStatus(c)
    /\ UNCHANGED <<screen, open, doubt>>

\* A statement fails; what was written before stays.
FailServer(c) ==
    /\ c.mine /\ c.stage # "replied"
    /\ Replies(c, Refused)
    /\ doubt' = doubt \cup {"loss"}
    /\ UNCHANGED <<session, screen, open>>

\* A request nobody waits for never arrives, or fails on the way.
DropCall(c) ==
    /\ ~c.mine
    /\ calls' = Others(c)
    /\ UNCHANGED <<session, screen, open, doubt>>

--------------------------------------------------------------------------------
(***************************************************************************)
(* Replies.                                                                *)
(***************************************************************************)
\* The call ends: whoever set busy takes it back.
Ended(s, c) == [s EXCEPT !.busy = IF c.purpose \in {"answer", "undo"} THEN FALSE ELSE @]

\* A card comes: it is shown, unrevealed.
ShowCard(c) ==
    /\ c.asks \in {"load", "answer"} /\ c.reply > 0
    /\ screen' = Ended([screen EXCEPT !.card = c.reply, !.revealed = FALSE], c)
    /\ calls' = Others(c)
    /\ UNCHANGED doubt

\* No card is left: a load says so to the page at once, an answer after the
\* summary has come.
AskSummary(c) ==
    /\ c.asks \in {"load", "answer"} /\ c.reply = 0
    /\ screen' = IF c.asks = "load" THEN [screen EXCEPT !.card = 0] ELSE screen
    /\ AskNext(c, "summary")
    /\ UNCHANGED doubt

\* A summary that is refused is not shown, and nothing is said of it.
ShowSummary(c) ==
    /\ c.asks = "summary"
    /\ screen' = Ended([screen EXCEPT !.summary = @ \/ c.reply # Refused,
                                      !.card = IF c.purpose = "answer" THEN 0 ELSE @], c)
    /\ calls' = Others(c)
    /\ UNCHANGED doubt

ShowError(c) ==
    /\ c.asks \in {"load", "answer", "undo"} /\ c.reply = Refused
    /\ screen' = Ended(screen, c)
    /\ calls' = Others(c)
    /\ UNCHANGED doubt

\* A load with nothing else under way starts afresh, but for a summary that the
\* callback did not know of.
Reloading(c) ==
    doubt' = (IF Others(c) = {} THEN doubt \cap {"orphan"} ELSE doubt)
             \cup (IF screen.summary /\ ~c.knew THEN {"kept"} ELSE {})

\* Mutant: the page is only loaded again when it showed the summary.
LoadAfterUndoOfSummary(c) ==
    /\ c.asks = "undo" /\ c.reply = 0
    /\ IF c.knew
       THEN /\ screen' = [screen EXCEPT !.summary = FALSE]
            /\ AskNext(c, "load")
            /\ Reloading(c)
       ELSE /\ screen' = Ended(screen, c)
            /\ calls' = Others(c)
            /\ UNCHANGED doubt

LoadAfterUndo(c) ==
    /\ c.asks = "undo" /\ c.reply = 0
    /\ screen' = [screen EXCEPT !.summary = @ /\ ~c.knew]
    /\ AskNext(c, "load")
    /\ Reloading(c)

Receive(c) ==
    /\ c.mine /\ c.stage = "replied"
    /\ ShowCard(c) \/ AskSummary(c) \/ ShowSummary(c) \/ ShowError(c) \/ LoadAfterUndo(c)
    /\ UNCHANGED <<session, open>>

\* The page is left when the exit is answered, whatever the answer is.
LeavePage(c) ==
    /\ c.mine /\ c.stage = "replied"
    /\ c.asks = "abandon"
    /\ open' = FALSE
    /\ screen' = BlankScreen
    /\ calls' = LeftBehind(calls)
    /\ doubt' = doubt \cup Orphaned(calls)
    /\ UNCHANGED session

\* The page learns of no reply; the request may be served yet.
FailCall(c) ==
    /\ c.mine
    /\ screen' = Ended(screen, c)
    /\ calls' = Others(c) \cup LeftBehind({c})
    /\ doubt' = doubt \cup {"loss"} \cup Orphaned({c})
    /\ UNCHANGED <<session, open>>

--------------------------------------------------------------------------------
StudyInit ==
    /\ session = [log |-> <<>>, status |-> "active", clock |-> 0]
    /\ screen = BlankScreen
    /\ open = FALSE
    /\ calls = {}
    /\ doubt = {}

StudyNext ==
    \/ OpenPage
    \/ Reveal
    \/ AnswerCard
    \/ UndoAnswer
    \/ ExitPage
    \/ \E c \in calls :
          \/ Serve(c)
          \/ FailServer(c)
          \/ DropCall(c)
          \/ Receive(c)
          \/ LeavePage(c)
          \/ FailCall(c)

StudySpec == StudyInit /\ [][StudyNext]_studyVars

--------------------------------------------------------------------------------
(***************************************************************************)
(* Properties                                                              *)
(***************************************************************************)

StudyReview == [id : 1 .. MaxGradings, card : 1 .. QueueSize]

StudyCall == [tag : Tags, mine : BOOLEAN, purpose : Purposes, asks : Questions,
              card : 0 .. QueueSize, knew : BOOLEAN, stage : Progress, row : SessionStatuses,
              review : 0 .. MaxGradings, reply : Refused .. QueueSize]

\* The session, the page and the calls have their types.
StudyTypeOK ==
    /\ session \in [log : Seq(StudyReview), status : SessionStatuses, clock : 0 .. MaxGradings]
    /\ screen \in [card : 0 .. QueueSize, revealed : BOOLEAN, summary : BOOLEAN, busy : BOOLEAN]
    /\ open \in BOOLEAN
    /\ calls \subseteq StudyCall
    /\ doubt \subseteq Doubts

AtRest == open /\ Mine = {}

\* The page and the session keep together.
\*  - As long as no answer or undo was left behind by a page that was reloaded
\*    or gave up, cards are graded in the order of the queue, each once,
\*    whatever loads and exits do in between.
\*  - The page is busy exactly while an answer or an undo is under way, so it
\*    never locks, whatever got lost.
\*  - At rest, with no reply lost since it was loaded, the page is never blank,
\*    however requests overlapped; if they did not, its card is the one the
\*    session is at; and it shows the summary exactly when no card is left,
\*    unless an undo was asked for before that summary came.
PageFollowsSession ==
    /\ "orphan" \notin doubt => \A i \in DOMAIN session.log : session.log[i].card = i
    /\ screen.busy <=> \E c \in Mine : c.purpose \in {"answer", "undo"}
    /\ (AtRest /\ "loss" \notin doubt) =>
          /\ screen.card # 0 \/ screen.summary
          /\ "overlap" \notin doubt =>
                /\ screen.card = CurrentCard(session)
                /\ "kept" \notin doubt => (screen.summary <=> CurrentCard(session) = 0)
================================================================================
