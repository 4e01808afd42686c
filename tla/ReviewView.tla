----------------------------- MODULE ReviewView -----------------------------
(***************************************************************************)
(* One browser's Review view (app/frontend/src: App.jsx, ReviewView.jsx,   *)
(* RunPanel.jsx) over the review API of module BriefService.               *)
(*                                                                         *)
(* Handlers run to completion between awaits, so a handler, the rendering  *)
(* and the effects it causes are one action.  What is awaited is in calls, *)
(* a bag: answers are formed by the server and handled by the view in any  *)
(* order.  The panel's poll is apart, in loop, as at most one is alive.    *)
(***************************************************************************)
EXTENDS BriefService, Naturals, FiniteSets, Bags, BagsExt

CONSTANTS
  MaxMisses,   \* MAX_POLL_MISSES of RunPanel.jsx (15 there)
  MaxCalls,    \* bound: calls awaited when the user acts or the panel finishes
  Patient      \* the user acts only once what was asked for has come

ASSUME ViewAssumption ==
  /\ NoClaim \notin Claims /\ NoRun \notin Runs
  /\ MaxMisses \in Nat \ {0}
  /\ MaxCalls \in Nat
  /\ Patient \in BOOLEAN

VARIABLES
  thread,      \* the Run of the registry's last thread per claim
  tab,         \* App's view: "investigate" or "review"
  selected,    \* App's reviewClaimId, which the view's own selection follows
  appRun,      \* App's reviewRunId, the Run of the last "Prepare a Brief" there
  detail,      \* the claim's detail on screen, or NoDetail
  timeline,    \* the claim whose timeline is on screen
  runId,       \* the Run the view narrates
  error,       \* the error banner is up
  shown,       \* the panel's run: the last answer of its poll
  loop,        \* the panel's poll loop
  strays,      \* polls of cancelled loops that are still unanswered
  calls        \* the other calls that are awaited

localVars == <<detail, timeline, runId, error, shown, loop, strays>>
viewVars == <<tab, selected, appRun, localVars, calls>>
serverVars == <<serviceVars, thread>>
vars == <<serverVars, viewVars>>

NoDetail == [claim |-> NoClaim, last |-> "none"]
NoShown == [run |-> NoRun, status |-> "none"]
NoLoop == [stage |-> "off", run |-> NoRun, claim |-> NoClaim, misses |-> 0, answer |-> "none"]

\* What a detail says of its claim: it has a Brief, its last Run failed, neither.
Lasts == {"brief", "failed", "none"}
\* A poll's answers; every rejection, a 404 included, is a miss.
PollAnswers == {"running", "completed", "failed", "missing"}
Kinds == {"detail", "timeline", "start", "prepare", "record"}

\* A call, as it was made and as it was answered.
Asked(kind, c) == [kind |-> kind, claim |-> c, answer |-> "none", run |-> NoRun, last |-> "none"]
Answered(k, r, last) == [k EXCEPT !.answer = "ok", !.run = r, !.last = last]
Rejected(k) == [k EXCEPT !.answer = "failed"]
Awaited == DOMAIN calls

-----------------------------------------------------------------------------
(* Rendering *)

Polling == loop.stage \in {"asked", "answered"}
Cancelled == IF Polling THEN {[run |-> loop.run, claim |-> loop.claim]} ELSE {}
OnPanel(d, r) == d # NoDetail /\ r # NoRun

NewLoop(r, c) == [stage |-> "asked", run |-> r, claim |-> c, misses |-> 0, answer |-> "none"]

\* The panel is mounted for a detail and a Run; its effect cancels the loop and
\* starts another when the Run or onFinished (hence the selection) changed.
Render(c, d, r) ==
  /\ selected' = c /\ detail' = d /\ runId' = r
  /\ strays' = IF OnPanel(d, r) /\ OnPanel(detail, runId) /\ r = runId /\ c = selected
               THEN strays ELSE strays \cup Cancelled
  /\ IF ~OnPanel(d, r)
     THEN shown' = NoShown /\ loop' = NoLoop
     ELSE IF OnPanel(detail, runId) /\ r = runId /\ c = selected
     THEN UNCHANGED <<shown, loop>>
     ELSE shown' = NoShown /\ loop' = NewLoop(r, c)

\* The view mounts: its state is afresh, its selection and Run are App's.
Mount(c, r) ==
  /\ tab' = "review" /\ selected' = c /\ appRun' = r /\ runId' = r
  /\ detail' = NoDetail /\ timeline' = NoClaim /\ error' = FALSE
  /\ shown' = NoShown /\ loop' = NoLoop /\ strays' = {}

\* loadDetail of a selection, unless there is none.
WithLoad(b, c) == IF c = NoClaim THEN b ELSE BagAdd(b, Asked("detail", c))

-----------------------------------------------------------------------------
(* The user *)

MayAct == BagCardinality(calls) < MaxCalls
MayMove == MayAct /\ (Patient => calls = EmptyBag)

\* The tab strip: the Review view appears with App's claim and Run.
EnterView ==
  /\ tab = "investigate" /\ MayMove
  /\ Mount(selected, appRun)
  /\ calls' = WithLoad(calls, selected)
  /\ UNCHANGED serverVars

\* The view unmounts and what it awaits changes nothing any more.  A POST of it
\* may still start a Run, which is then like one of another client.
LeaveView ==
  /\ tab = "review" /\ MayMove
  /\ tab' = "investigate"
  /\ detail' = NoDetail /\ timeline' = NoClaim /\ runId' = NoRun /\ error' = FALSE
  /\ shown' = NoShown /\ loop' = NoLoop /\ strays' = {}
  /\ calls' = [k \in {k \in Awaited : k.kind = "prepare"} |-> calls[k]]
  /\ UNCHANGED <<serverVars, selected, appRun>>

\* A row of the queue.  The row selected already clears the Run and loads nothing.
HandleSelect(c) ==
  /\ tab = "review" /\ MayMove
  /\ Patient => c # selected
  /\ Render(c, detail, NoRun)
  /\ appRun' = NoRun
  /\ calls' = IF c = selected THEN calls ELSE WithLoad(calls, c)
  /\ UNCHANGED <<serverVars, tab, timeline, error>>

MayStart ==
  /\ detail # NoDetail
  /\ \/ runId = NoRun /\ detail.last # "brief"
     \/ shown.status = "failed"

\* "Prepare a Brief" and "Try again": for the selection, not for the detail.
StartRun ==
  /\ tab = "review" /\ MayMove /\ MayStart
  /\ calls' = BagAdd(calls, Asked("start", selected))
  /\ UNCHANGED <<serverVars, tab, selected, appRun, localVars>>

\* "Prepare a Brief" in the workspace of an Investigation.
PrepareBrief(c) ==
  /\ tab = "investigate" /\ MayMove
  /\ calls' = BagAdd(calls, Asked("prepare", c))
  /\ UNCHANGED <<serverVars, tab, selected, appRun, localVars>>

\* The form is the shown detail's, and its onRecorded has that detail.
RecordDisposition ==
  /\ tab = "review" /\ MayMove
  /\ detail.last = "brief" /\ runId = NoRun
  /\ calls' = BagAdd(calls, Asked("record", detail.claim))
  /\ UNCHANGED <<serverVars, tab, selected, appRun, localVars>>

-----------------------------------------------------------------------------
(* The server: an answer is formed at one moment and handled at a later one. *)

\* last_run of the detail: a Run that failed shows while none is active.
LastOf(c) ==
  IF published[c] # NoRun THEN "brief"
  ELSE IF active[c] = NoRun /\ \E r \in Runs : claimOf[r] = c /\ status[r] = "failed" THEN "failed"
  ELSE "none"

\* start of the registry: a new Run, unless the claim's last thread is alive.
\* Then the answer is that thread's Run, or none when the thread ends before
\* run_id_for.  A thread outlives the record of its Run by its cleanup.
ThreadMayLive(c) == thread[c] # NoRun
ThreadLives(c) == ThreadMayLive(c) /\ status[thread[c]] \in {"minted", "running"}
Started(c, r) == Mint(c, r) /\ thread' = [thread EXCEPT ![c] = r]

AnswerTo(k, r, last) == calls' = BagAdd(BagRemove(calls, k), Answered(k, r, last))

ServeRead(k) ==
  /\ \/ k.kind = "detail" /\ AnswerTo(k, active[k.claim], LastOf(k.claim))
     \/ k.kind \in {"timeline", "record"} /\ AnswerTo(k, NoRun, "none")
  /\ UNCHANGED serverVars

ServeRequest(k) ==
  /\ k.kind \in {"start", "prepare"}
  /\ \/ /\ ~ThreadLives(k.claim)
        /\ \E r \in Runs : Started(k.claim, r) /\ AnswerTo(k, r, "none")
     \/ /\ ThreadMayLive(k.claim)
        /\ \E r \in {thread[k.claim], NoRun} : AnswerTo(k, r, "none")
        /\ UNCHANGED serverVars

Serve(k) ==
  /\ k.answer = "none"
  /\ ServeRead(k) \/ ServeRequest(k)
  /\ UNCHANGED <<tab, selected, appRun, localVars>>

\* A call fails on its way.  (A POST that started a Run all the same is an
\* OtherClient's Run and a call that failed.)
Fail(k) ==
  /\ k.answer = "none"
  /\ calls' = BagAdd(BagRemove(calls, k), Rejected(k))
  /\ UNCHANGED <<serverVars, tab, selected, appRun, localVars>>

\* Another browser's request, or the nightly job's Run.
OtherClient(c, r) ==
  /\ \/ ~ThreadLives(c) /\ Started(c, r)
     \/ Mint(c, r) /\ UNCHANGED thread
  /\ UNCHANGED viewVars

RunBegins(r) == (Begin(r) \/ Drop({r})) /\ UNCHANGED <<thread, viewVars>>
RunEnds(r) == (Publish(r) \/ GiveUp(r)) /\ UNCHANGED <<thread, viewVars>>

-----------------------------------------------------------------------------
(* The view handles what it awaited *)

Rest(k) == BagRemove(calls, k)

\* A detail read while a Run was active narrates that Run; the timeline is next.
OnDetail(k) ==
  /\ k.kind = "detail" /\ k.answer = "ok"
  /\ Render(selected, [claim |-> k.claim, last |-> k.last], IF k.run = NoRun THEN runId ELSE k.run)
  /\ calls' = BagAdd(Rest(k), Asked("timeline", k.claim))
  /\ UNCHANGED <<tab, appRun, timeline, error>>

OnTimeline(k) ==
  /\ k.kind = "timeline" /\ k.answer = "ok"
  /\ timeline' = k.claim
  /\ calls' = Rest(k)
  /\ UNCHANGED <<tab, selected, appRun, detail, runId, error, shown, loop, strays>>

OnStart(k) ==
  /\ k.kind = "start" /\ k.answer = "ok"
  /\ Render(selected, detail, k.run)
  /\ calls' = Rest(k)
  /\ UNCHANGED <<tab, appRun, timeline, error>>

OnRecorded(k) ==
  /\ k.kind = "record" /\ k.answer = "ok"
  /\ Render(selected, [claim |-> k.claim, last |-> "brief"], runId)
  /\ calls' = Rest(k)
  /\ UNCHANGED <<tab, appRun, timeline, error>>

\* App shows the Review view with the claim and its Run, or with no Run when the
\* request failed.  A view that is there already follows the two props that changed.
OnPrepared(k) ==
  /\ k.kind = "prepare" /\ k.answer # "none"
  /\ \/ /\ tab = "investigate"
        /\ Mount(k.claim, k.run)
        /\ calls' = WithLoad(Rest(k), k.claim)
     \/ /\ tab = "review"
        /\ Render(k.claim, detail,
                  IF k.run \notin {NoRun, appRun} THEN k.run ELSE IF k.claim # selected THEN NoRun ELSE runId)
        /\ appRun' = k.run
        /\ calls' = IF k.claim = selected THEN Rest(k) ELSE WithLoad(Rest(k), k.claim)
        /\ UNCHANGED <<tab, timeline, error>>

\* The banner goes up and stays; the form and App keep their failures to themselves.
OnRejection(k) ==
  /\ k.kind # "prepare" /\ k.answer = "failed"
  /\ error' = (error \/ k.kind # "record")
  /\ calls' = Rest(k)
  /\ UNCHANGED <<tab, selected, appRun, detail, timeline, runId, shown, loop, strays>>

Handle(k) ==
  /\ OnDetail(k) \/ OnTimeline(k) \/ OnStart(k) \/ OnRecorded(k) \/ OnPrepared(k) \/ OnRejection(k)
  /\ UNCHANGED serverVars

-----------------------------------------------------------------------------
(* The panel's poll *)

\* Mutant: every poll starts by forgetting the misses.
LoopStepForgetful(stage, answer, misses) ==
  loop' = [loop EXCEPT !.stage = stage, !.answer = answer, !.misses = 0]
LoopStep(stage, answer, misses) ==
  loop' = [loop EXCEPT !.stage = stage, !.answer = answer, !.misses = misses]

ServePoll ==
  /\ loop.stage = "asked"
  /\ LoopStep("answered",
              IF status[loop.run] \in {"running", "completed", "failed"} THEN status[loop.run] ELSE "missing",
              loop.misses)
  /\ UNCHANGED <<serverVars, tab, selected, appRun, detail, timeline, runId, error, shown, strays, calls>>

LosePoll ==
  /\ loop.stage = "asked"
  /\ LoopStep("answered", "missing", loop.misses)
  /\ UNCHANGED <<serverVars, tab, selected, appRun, detail, timeline, runId, error, shown, strays, calls>>

\* Mutant: the claim is not loaded again.
FinishSilently ==
  /\ MayAct
  /\ runId' = NoRun /\ shown' = NoShown /\ loop' = NoLoop
  /\ calls' = calls

\* onFinished: the panel goes, the claim it was mounted for is loaded again.
Finish ==
  /\ MayAct
  /\ runId' = NoRun /\ shown' = NoShown /\ loop' = NoLoop
  /\ calls' = WithLoad(calls, loop.claim)

\* Mutant: one miss too many.
GivesUpLate == loop.misses + 1 > MaxMisses
GivesUp == loop.misses + 1 >= MaxMisses

HandlePoll ==
  /\ loop.stage = "answered"
  /\ \/ /\ loop.answer = "running"
        /\ shown' = [run |-> loop.run, status |-> "running"]
        /\ LoopStep("timer", "none", 0)
        /\ UNCHANGED <<runId, calls>>
     \/ /\ loop.answer = "failed"
        /\ shown' = [run |-> loop.run, status |-> "failed"]
        /\ LoopStep("off", "none", 0)
        /\ UNCHANGED <<runId, calls>>
     \/ loop.answer = "completed" /\ Finish
     \/ loop.answer = "missing" /\ GivesUp /\ Finish
     \/ /\ loop.answer = "missing" /\ ~GivesUp
        /\ LoopStep("timer", "none", loop.misses + 1)
        /\ UNCHANGED <<runId, shown, calls>>
  /\ UNCHANGED <<serverVars, tab, selected, appRun, detail, timeline, error, strays>>

PollAgain ==
  /\ loop.stage = "timer"
  /\ LoopStep("asked", "none", loop.misses)
  /\ UNCHANGED <<serverVars, tab, selected, appRun, detail, timeline, runId, error, shown, strays, calls>>

\* Mutants: the answer is not ignored; it is shown, or ends the panel.
OnStrayShown(s) ==
  /\ shown' = [run |-> s.run, status |-> "running"]
  /\ strays' = strays \ {s}
  /\ UNCHANGED <<serverVars, tab, selected, appRun, detail, timeline, runId, error, loop, calls>>
OnStrayFinished(s) ==
  /\ status[s.run] = "completed"
  /\ runId' = NoRun /\ shown' = NoShown /\ loop' = NoLoop
  /\ calls' = WithLoad(calls, s.claim)
  /\ strays' = strays \ {s}
  /\ UNCHANGED <<serverVars, tab, selected, appRun, detail, timeline, error>>

\* The answer to a poll of a cancelled loop.
OnStray(s) ==
  /\ strays' = strays \ {s}
  /\ UNCHANGED <<serverVars, tab, selected, appRun, detail, timeline, runId, error, shown, loop, calls>>

-----------------------------------------------------------------------------
Init ==
  /\ ServiceInit
  /\ thread = [c \in Claims |-> NoRun]
  /\ tab = "investigate" /\ selected = NoClaim /\ appRun = NoRun
  /\ detail = NoDetail /\ timeline = NoClaim /\ runId = NoRun /\ error = FALSE
  /\ shown = NoShown /\ loop = NoLoop /\ strays = {}
  /\ calls = EmptyBag

Next ==
  \/ EnterView \/ LeaveView \/ StartRun \/ RecordDisposition
  \/ \E c \in Claims : HandleSelect(c) \/ PrepareBrief(c)
  \/ \E k \in Awaited : Serve(k) \/ Fail(k) \/ Handle(k)
  \/ \E c \in Claims, r \in Runs : OtherClient(c, r)
  \/ \E r \in Runs : RunBegins(r) \/ RunEnds(r)
  \/ ServePoll \/ LosePoll \/ HandlePoll \/ PollAgain
  \/ \E s \in strays : OnStray(s)

Spec == Init /\ [][Next]_vars

\* Runs begin and end (ClaimsSettle and WaitersEnd of module ReviewRuns), calls
\* are answered or fail, handlers and timers run, and not every poll is lost.
FairSpec ==
  /\ Spec
  /\ \A r \in Runs : WF_vars(RunBegins(r)) /\ WF_vars(RunEnds(r))
  /\ WF_vars(\E k \in Awaited : Serve(k) \/ Fail(k))
  /\ WF_vars(\E k \in Awaited : Handle(k))
  /\ WF_vars(HandlePoll) /\ WF_vars(PollAgain) /\ SF_vars(ServePoll)

-----------------------------------------------------------------------------
(* Properties *)

\* The view's state has the shape React gives it; at most one loop polls.
ViewTypeOK ==
  /\ ServiceTypeOK
  /\ thread \in [Claims -> Runs \cup {NoRun}]
  /\ tab \in {"investigate", "review"}
  /\ selected \in Claims \cup {NoClaim} /\ timeline \in Claims \cup {NoClaim}
  /\ appRun \in Runs \cup {NoRun} /\ runId \in Runs \cup {NoRun}
  /\ detail \in [claim : Claims \cup {NoClaim}, last : Lasts]
  /\ error \in BOOLEAN
  /\ shown \in [run : Runs \cup {NoRun}, status : {"none", "running", "failed"}]
  /\ loop \in [stage : {"off", "asked", "answered", "timer"}, run : Runs \cup {NoRun},
               claim : Claims \cup {NoClaim}, misses : 0 .. MaxMisses - 1,
               answer : PollAnswers \cup {"none"}]
  /\ strays \subseteq [run : Runs, claim : Claims]
  /\ Awaited \subseteq [kind : Kinds, claim : Claims, answer : {"none", "ok", "failed"},
                        run : Runs \cup {NoRun}, last : Lasts]

Panel == OnPanel(detail, runId)

\* The panel shows and polls the Run of the view and no other, however the Run
\* and the selection change under it (the cancelled flag of RunPanel.jsx:39-62).
ShowsItsOwnRun ==
  /\ shown.run # NoRun => Panel /\ shown.run = runId
  /\ loop.stage # "off" => Panel /\ loop.run = runId /\ loop.claim = selected

\* What is on screen is the selected claim's: the Run of the panel always, as it
\* is "cleared when the selected claim changes, so one claim's Run never narrates
\* another's" (ReviewView.jsx:24-25); the detail and the timeline once nothing is
\* awaited, or the error banner is up (ReviewView.jsx:50-63).  This is for a user
\* who waits for what was asked.
ShowsSelectedClaim ==
  /\ Panel => claimOf[runId] = selected
  /\ tab = "review" /\ calls = EmptyBag /\ ~error => detail.claim = selected /\ timeline = selected

\* Whatever the user does, nothing but a late answer, one to a call for a claim
\* that the selection has left since, puts another claim's Run, detail or
\* timeline on the screen (ReviewView.jsx:24-25, 40-63): a detail also brings its
\* Run, a disposition its detail.  A claim's own may still be on its way.
RunFits == runId # NoRun => claimOf[runId] = selected
OnItsWay(kinds) == \E k \in Awaited : k.kind \in kinds /\ k.claim = selected
DetailFits == tab = "review" => error \/ detail.claim = selected \/ OnItsWay({"detail"})
TimelineFits == tab = "review" => error \/ timeline = selected \/ OnItsWay({"detail", "timeline"})
Late(kinds) == \E k \in Awaited : k.kind \in kinds /\ k.claim # selected /\ Handle(k)
LateStep ==
  /\ RunFits => RunFits' \/ Late({"detail", "start"})
  /\ DetailFits => DetailFits' \/ Late({"detail", "record"})
  /\ TimelineFits => TimelineFits' \/ Late({"timeline"})
OnlyLateAnswersMislead == [][LateStep]_vars

\* A Run seen at work on the panel does not leave the user with nothing: one who
\* stays sees its Brief or its failure, that of the Run that came after it, or an
\* error, whatever polls are lost (RunPanel.jsx:27-32).  This is for a user who
\* waits, too: a click on the row selected clears the Run and loads nothing.
Concluded(r) ==
  \/ tab # "review" \/ selected # claimOf[r] \/ error
  \/ shown.status = "failed"
  \/ runId = NoRun /\ detail.claim = claimOf[r] /\ detail.last # "none"
WatchedRunsConclude ==
  \A r \in Runs : shown = [run |-> r, status |-> "running"] ~> Concluded(r)

\* A poll loop ends: with the Run, with the panel, or after MAX_POLL_MISSES.
PollingEnds == \A r \in Runs : loop.run = r /\ loop.stage # "off" ~> loop.run # r \/ loop.stage = "off"
=============================================================================
