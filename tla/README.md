# Policy Time Machine: specifications, model checks and proofs

Policy Time Machine shows an insurance adjuster how a policy evolved before a
claim. A pipeline derives version histories, claim links and patterns from
synthetic source tables; a Databricks app asks Genie about them; and a *Claim
Review Brief* agent prepares, per claim, a Brief a human disposes of. This
directory specifies three parts of the program.

- **The agent.** Steps of several processes meet: its Runs, the record they keep
  on Lakebase, the plan each Run follows, and the view in a browser that asks for
  a Run and watches it.
- **Investigations.** A tab asks questions, one after the other or across each
  other, of a back end that carries one Genie conversation per Investigation.
- **The data.** Three implementations of one notion of change must agree: the
  generator that makes a policy's history and plants its stories, the pipeline that
  derives the gold tables from it, and the validator that measures it.

Paths below are relative to the repository root.

## 1. Inventory

| Component | State it keeps | Operations | Met by | Hard because |
| --- | --- | --- | --- | --- |
| Review record (`app/backend/review/store.py`, `schema.py`) | tables `routed_claim`, `run`, `brief`, `disposition`, `dataset` on Lakebase main | upsert, `claim_run`, `start_run`, `update_run`, `complete_run`, `fail_run`, `record_disposition`, readers | app threads and nightly job, one connection each | statements replayed after a dropped connection; rows keyed by claim, not by Run |
| Run harness (`harness.py`) | one `_Run` per thread: branch, connection, step count | `run_brief`: claim, start, execute, promote, tear down, fail | record, branches, warehouse, Genie, model | every call may raise, and what follows depends on what was already done |
| Working Branches (`lakebase.py`) | Lakebase branches `run-<id>` with a TTL | create, delete | harness | only one may hold compute; both calls fail half way |
| Registry (`runner.py` `RunRegistry`) | last thread and run id per claim, one process lock | `start`, `run_id_for` | review API | threads wait for each other; the job does not use it |
| Nightly job (`routing.py`, `runner.py` `work_queue`, `workflow/*_task.py`) | a snapshot of the queue | route claims, build Briefs newest first | record | runs beside the app; its store does not re-dial |
| Review API (`api.py`) | none | queue, detail, request a Brief, disposition | record, registry | reads, then writes in a second statement |
| Questions of a Run (`questions.py`, the queries of `tools.py`) | none | select the rows of a claim, detect the situation and its window | gold tables, harness | three ways of saying which claim a change belongs to |
| Plan of a Run (`harness.py` `execute`, `tools.py`, `model.py`) | sections, scratch statements, the clock | fixed order of steps, three decision points of a model | warehouse, Genie, model | budgets, a deadline looked at between calls, unpredictable replies |
| Investigations (`main.py`, `genie.py`, `investigations.py`, `context.py`) | the conversation handle of each Investigation, in Lakebase or in memory | create an Investigation, post a message | front end, Genie | the handle is read, Genie waited for, and the handle written back; a restart may change the store |
| Front end: Review view (`ReviewView.jsx`, `RunPanel.jsx`, two props of `App.jsx`) | selection, detail, Run, a poll loop | select, load, request, poll, record an outcome | review API | answers arrive out of order or after the view moved on; polls are lost |
| Front end: workspace (`useInvestigation.js`) | the trail, what is on show, the awaited call, cached promises; trail and index in local storage | ask, find similar, open a timeline, go to a node, refresh | app API | two calls awaited as one; a promise cached whatever became of it; a refresh in the middle |
| Generator (`generator/build.py`) | per policy: versions, coverage versions, vehicles, the list of changes, the pending reinstatement; then claims | draw a scenario, plant it, lay ordinary changes around it, evolve one boundary day at a time, build the claims | pipeline, validator (through files) | several changes, a renewal and a premium on one day; status that must move each time; ordinary changes beside planted ones |
| Validator (`generator/validate.py`) | none | rebuild changes, links, exposure and rates with pandas | generator's files | must agree with a pipeline it shares no code with |
| Pipeline (`pipeline/transformations.py`) | none (pure Spark transformations) | version diffs, claim linkage, claim facts, patterns, profile, timeline, similarity | gold tables | window arithmetic and ties; one fact told at several grains |
| Expectations (`pipeline/expectations.py`, `dlt_pipeline.py`) | none | a catalogue per table, each row of which fails the update | gold tables | one row of one policy stops all of them |
| Genie space, CI contracts, regeneration workflow | files and tables | one-shot scripts | Databricks | live services |

What makes the agent and its view correct: a Brief on main is whole and belongs
to a completed Run of its claim; a claim has one Run at
work at a time, whichever process runs it; a claim does not stay in progress;
an outcome belongs to the Brief a human saw; no Working Branch is left alone;
a Run keeps its budgets and ends within a few calls of its deadline; what is on screen is
of the claim selected, and who watches a Run learns how it ended.

What makes Investigations correct: an Investigation keeps to one conversation; the
trail tells the questions in order, each once, whatever is answered late; every
question ends and frees the page; and the timeline on show is filled in the end.

What makes the policy data correct: a version is in force on each day, and only
one; the changes read off the versions are those that were made, on their day and
in their direction; a claim has the limit of its day and each change its claim;
and the tables, told at the grains of a change, a claim, a policy and an event,
never contradict each other, nor the validator, nor the expectations; and a
planted story has its shape and shows in the patterns, where a control does not.

The hazards are listed at their lines in `PROJECT.json`.

## 2. Modules

| Module | Models | Notes |
| --- | --- | --- |
| `ReviewRecord` | the tables and every writing method of `ReviewStore` on them | one action per method: each is one SQL statement or one transaction; its own `RecordSpec` lets callers do anything |
| `ReviewRuns` | `run_brief`, registry, API requests, nightly job, branches, dropped connections, crashes, passing time | extends `ReviewRecord` and says who calls what and when |
| `BriefPromise` | what a reader of the queue may rely on | the abstract specification `ReviewRuns` implements |
| `BriefService` | what the review API tells a client of Runs | a second abstract specification of `ReviewRuns`, and the server `ReviewView` runs against |
| `ReviewView` | one browser's Review view over that API | extends `BriefService` |
| `BriefPlan` | the inside of `_Run.execute` | `ReviewRuns` has all of it as the one action `Execute` |
| `PolicyHistory` | the generator's evolution of one policy, and the claims placed on it | a state machine: one action per boundary day |
| `GoldLayer` | the pipeline's tables over those versions | operators on the state: the pipeline has no state of its own |
| `Expectations` | the expectations catalogue on the rows of one policy, and the columns it speaks of | extends `GoldLayer`, which extends `PolicyHistory` |
| `BriefQuestions` | what a Run asks about a claim: the Routing Rule, the rows its tools select, the situation and the window of its question | extends `Expectations` |
| `DatasetChecks` | the validator's reconstruction, and what all of them must agree on | extends `BriefQuestions` |
| `Scenarios` | the scenario catalogue: planting, ordinary changes and claims, the evolution of what was planned, the validator's shapes | extends `DatasetChecks`, and drives `PolicyHistory`'s `Boundary` by a plan |
| `Investigations` | the back end: creation, one handler per question, the store and its in-memory twin, restarts | says nothing of who asks |
| `Workspace` | one investigation tab: questions, the trail, timelines and their cache, a page refresh | extends `Investigations`, and is the system that is checked |
| `MCReviewRuns`, `MCReviewView`, `MCDataset`, `MCScenarios` | small sets, the symmetry of Runs, claims, locations and agents | instances for TLC; `BriefPlan` and `Workspace` need none |
| `ReviewRunsProofs`, `TimelyRunsProofs`, `BriefPlanProofs`, `ReviewViewProofs`, `DatasetProofs`, `GoldProofs`, `ScenarioProofs`, `WorkspaceProofs` | | theorems |

How they compose: `ReviewRuns` implements `ReviewRecord` (`RecordSpec`),
`BriefPromise` (`KeepsPromise`) and `BriefService` (`ServesTheApi`, whose `active`
and `status` are what `claim_detail` and `run_status` answer). `ReviewView`
takes its server's steps from `BriefService`, so what is shown of the view holds
over the detailed system as far as `ServesTheApi` goes: with timely Runs.
`Workspace` is client and server in one state machine, in which a message is the
handler's phase: `unsent` before the page posts it, `sent` to `told` while the
handler runs, `replied` or `failed` on its way back, `over` once the page has it.
The policy data is a system of its own: what it hands to the agent are rows, and
which rows a Run sees is a nondeterministic reply in `BriefPlan`, and what it would
ask of them is `BriefQuestions`.

### State and actions

`ReviewRecord`'s variables are columns: `runState`, `activeRun` and `routedBy`
of `routed_claim`, `runClaim` and `runStatus` of `run`, `brief` and
`disposition` by claim, `anchor` for the row of `dataset`. Data is abstracted:
a Brief is the Run that built it, a disposition the Brief it was formed on
(a ghost: the table does not store it, which is why `DispositionsFitBriefs` is a
question), `updated_at` the fact `stale` whether `STALE_RUN_SECONDS` have
passed. The progress columns of `run` decide nothing and are left out.

`ReviewRuns` adds a program counter per Run id. A Run id is minted once
(`uuid4`), so a thread *is* a Run id: `unborn` before, `dead` when its process was killed.

| `pc` | stands before | code |
| --- | --- | --- |
| `waiting` | the registry's lock | `runner.py:84-86` |
| `claiming`, `starting` | `claim_run`, `start_run` | `harness.py:323-332` |
| `forking`, `working` | the branch, the rest of `execute` | `harness.py:276-304` |
| `promoting` | `complete_run` | `harness.py:351-356` |
| `holding`, `deleting`, `marking` | the three calls of `teardown` | `harness.py:306-317` |
| `excusing` | the best-effort marker after a promoted Run's cleanup failed | `harness.py:363-367` |
| `failing` | `fail_run` | `harness.py:370-374` |

`verdict` is what `run_brief` knows of itself (`brief is not None`,
`failure is not None`, `promoted`). A store call returns, or loses its
connection before the commit, or (with `LostAcks`) after it. The app re-dials
and replays once while it holds the store lock (`redial`); the job's store has
no factory, so its connection stays lost and every later call raises
(`jobConn`). `Elapse` makes a row stale, `ExpireBranch` is the TTL, `CrashApp`
and `CrashJob` kill a process. External calls (warehouse, Genie, model, branch
API) return or raise; what they return matters only in `BriefPlan`, where a
reply is one of the classes the harness tells apart. A method of the store that
opens a transaction is one action: that its statements commit together or not at
all is taken from the database, and is no property here.

`BriefPlan` has the place of `_Run.execute` as `pc` and counts the calls made there
in `CallsAt`: those to the warehouse, Genie, the model, the review record and
the branches, and those on the branch connection, an `ensure_stage_tables`, a
`stage` or the INSERT of a step being one each. `StepCalls` are the two that
`_Run.step` makes before it reads the clock.

Reading a claim for a reader is `ViewBrief`; permission checks are left out,
since they only decide whether a request reaches the record at all.

`ReviewView` has the state hooks of the view and of its panel as variables.
JavaScript runs a handler to its end, so one action is a handler with the
rendering and the effects it causes: `Render` mounts or unmounts the panel and
restarts its poll when its Run or its `onFinished` (hence the selection) changed,
as React's dependency arrays do. A call awaited is an element of the bag
`calls`: asked, then answered by the server (`Serve`) or failed (`Fail`), then
handled (`Handle`), all in any order. A poll is in `loop`, of which at most one is
live; an unanswered poll of a cancelled loop is a `stray`.

`Investigations` has `_store` as `backend`, with a table for each (`lakebase`,
`memory`), and the handlers of `post_message` as `messages`. A handler is read
at its four waits: the read of the handle, the start of the conversation or of the
message in it, the wait for the answer, the write of the handle. `AskRefused` and
`GenieTimesOut` are the two exceptions `ask_genie` turns into a status, before and
after Genie has the question; a thread started by a message that timed out is
known to nobody. `carried` is a history of the handles ever written.

`Workspace` has the hooks of `useInvestigation` as variables. `submitQuestion` is
cut at its awaits: `Ask` and `AskSeed` go as far as the first one that waits,
`Created` sends the message, and `AnswerArrives`, `FailureArrives`,
`TimelineArrives` and `TimelineFails` are what `Promise.all` waits for: it is
fulfilled by the last of the two calls and rejected by the first that fails.
`fetches` is the cache of promises and `timelines` what they resolved to; the one
is never cleared, and the other is read by the effect `FetchDisplayed`.
`restored` (a ghost) is how much of the trail a refresh brought.

`Scenarios` follows `Builder.run`: `Plant` sets a member's limits and appends its
planned changes and claims, `LayChange` is an ordinary endorsement outside the
windows kept clear, `Evolve` applies what is planned for the next boundary day
through `PolicyHistory`'s `Boundary` or fails as `_assert_direction` does, and
`Build` places the claims. A plan is an element of `S1` to `S6`, `C1` to `C5` or
`Demo`, one operator per branch of `_plant_scenarios`; the records they are made of
(`Raised`, `Cut`, `MovedInGap`, `Clustered`, ...) have the names of the stories.

`Expectations` builds the rows the pipeline publishes (`ChangeEventRow`,
`ClaimEventRow`, `ClaimContextRow`, `PolicyProfile`), each column from the operator
that derives it, and has an operator per catalogue that reads a row and nothing else,
as the expectations do; a column that is NULL is the empty set. `FailedExpectations`
are the ids of those some row breaks.

`DatasetChecks` adds what the validator makes of the generator's tables: its change
rows, its link, its exposure windows, and the claims it counts behind the ranking of
categories (`WindowedClaims`). `QueriedClaims` are those of the query that
`genie/build_space.py` gives Genie for the same question, so that `ValidatorAgrees`
says the figures of the validation report are those a user is told.

`BriefQuestions` has an operator per query of `tools.py` and per function of
`questions.py` that decides something: `RelevantChanges(k)` and `MatchesOn(k)` are the rows,
`DetectSituation(k)` and `WindowDays(k)` what is made of them. `BriefFitsTables`, a
conjunct of `EvidenceAgrees`, says what a Brief and its claim's rows must
share although each section is a query of its own.

`PolicyHistory` has the generator's tables as variables: `history` and, by line,
`coverage` are sequences of versions, `changes` is the generator's own list of
what it did. `Boundary(day, today)` is one turn of the loop of `_evolve_policies`:
a renewal, some changes, or both, which together append one version, at most one
coverage version per line, and one vehicle. `BuildClaims` ends the build. The
operators of `GoldLayer` have the names of the tables' columns or of the functions
that make them, and are sets where a join may find nothing: `LinkedClaim(c)` is
empty or a singleton, and that it is never more is part of `EvidenceAgrees`.

### Simplifications

- One policy: no table of the pipeline that is modelled relates two of them.
  Customers, notes and the similarity of claims are left out. Of a payment only
  its day is kept, in the expectation that compares it with the anchor.
- Days count from the policy's start. The generator draws all changes first and
  evolves the policy afterwards; as a turn only looks at the changes of its day,
  they are drawn day by day. Which policy is planted or calibrated to have which
  changes is a nondeterministic choice, so every rate may occur.
- A premium is 0 or 1 and moves whenever the policy is re-rated: only whether two
  versions differ is ever used. A direction the code leaves NULL is `"switch"`;
  `change_event_id` numbers the sorted rows, and is their order `Before`.
- `9999-12-31` is the day after the last one.
- In `Scenarios` what `rng` draws from a range is its first or its last value, and
  ordinary changes and claims fall on or beside the days a story is sensitive to
  (`Sensitive`): the ends of its windows, its changes, its claims.
- A question of the workspace names one policy or none: a question about several
  has no timeline (`policy_ids.py`). The status of a Genie answer, the chips, the
  highlighting and the pending text decide no step and are left out.
  `startNewInvestigation` is called by no component: a new investigation is a new tab.
- Local storage follows the trail at once: the effect that writes it runs before
  a user can refresh.
- `_Run.execute` is one action in `ReviewRuns`, with the result "built" or
  "failed". Between its calls it writes nothing but progress columns.
- Replays of the store calls of HTTP requests (not of Runs) are folded: such a
  request succeeds or fails in one step, as it holds the store lock meanwhile.
- An HTTP request is one at a time per claim. Two requests for one claim meet
  in the registry's lock, and what the second would do, the first's `IsRunning`
  branch already does.
- `ReviewView` leaves out denied access, the queue's own reload and the other
  tabs of `App`. The reads of `get_claim` are one moment. A request of a view that
  was left is one of another client. The text of an outcome is not data the view decides on.
- Each killed process is back at once. Its memory is not.
- The routing task's connection is not tracked: when one of its calls raises,
  the task fails and the later tasks do not run (`RoutingFails`).

## 3. Runs

| Run | Checks | Bounds and why they are enough |
| --- | --- | --- |
| `runs_timely` | `TypeOK`; `OwnersAreActive`, the claim row is a lock; `BriefsAreFinal`; `DispositionsFitBriefs`; `KeepsPromise` and `ServesTheApi`, refinement of `BriefPromise` and `BriefService` | one claim, three Runs, two crashes: two Runs suffice for an overlap, three for a reclaim of a reclaimed claim. Claims do not interact but through locks and connections, which the other runs have |
| `runs_faulty` | `ClaimRowsCoherent`, and that the system is a caller of the record (`RecordSpec`) | everything may fail, zombies included; one claim, two Runs, one crash |
| `runs_branches` | `BranchesAreAttended` | two claims and two Runs, so that two Runs want the lock; no crash, no branch fault, no demo hold, each of which leaks a branch until its TTL |
| `runs_live` | `ClaimsSettle`, `WaitersEnd` | two claims and two Runs under fairness; without symmetry, which liveness does not allow |
| `plan` | `PlanTypeOK`, `BriefIsWhole`, `OverrunIsBounded`, `BudgetsHold` | the code's budgets (3 turns, 8 statements); a deadline of 3 ticks and calls of 0 to 2, so that the deadline may pass before the clock is first read, and later between any two readings. Both halves of `OverrunIsBounded` are reached with equality. 546,085 states |
| `view` | `ViewTypeOK`; `ShowsItsOwnRun`; for a patient user `ShowsSelectedClaim` | two claims and two Runs, so that each answer can be of the other one; two calls awaited at once when the user acts, which a detail, its timeline and a request already are |
| `view_live` | `PollingEnds`, `WatchedRunsConclude` | one claim, since the panel has one; two Runs, for one that supersedes another |
| `workspace` | `TypeOK`; `OverlapsFollowFailures`, when two messages can be under way together; `OneCarriedConversation`; `TrailInOrder`; `NodesAreWarm`; liveness `QuestionsEnd`, `TimelinesSettle` | one policy, two questions and a seed that names no policy: two messages overlap, and one about a policy meets one about none; one refresh and one restart, at any moment. 138,143 states. Two policies are beyond the time of a run, and are what the theorems are for |
| `gold` | `DatasetTypeOK`; the generator's own promise `VersionsInForce`; the pipeline against the generator: `ChangesRoundTrip`, `PatternsMeanWhatTheySay`; table against table: `GapsAgree`, `EvidenceAgrees` (with what a Brief makes of the tables), `SnapshotsAgree`, `TimelineTells`; the validator against the pipeline, and against what Genie is told to count: `ValidatorAgrees`; the catalogue: `PipelinePasses` | five days with a renewal on the fourth; three changes and claims together, of them two claims: a claim with a change before, in and after its gap, two claims with a tie, a cluster of three. Windows of one day, so that a window, of a month or more in the code, has a day inside, a last day and a day outside. Two lines, one without a deductible. 121,440 states |
| `scenarios` | `ShapesHold`, the validator's `check_scenario_shapes` and that no planted change is contradicted; `ScenariosShow`, that a story shows in the gold patterns and in the question of its Run, and a control does not | the constants of the source in days (offsets, quiet windows, report lags, pattern windows) and its ladders' ends; one policy of each population, 400 days long, with one ordinary change and one ordinary claim at the days the story is sensitive to. 77,367 states |
| `reclaim`, `promote` | one sentence of the documentation each, and its counterexample | smallest instance that shows it |

`NightlyCap` is the code's 20: with two claims it never bites. `MaxCrashes`
bounds the crashes; nothing else is bounded but by the constants.

`MaxMisses` is 2 for the code's 15: one miss that is forgiven and one that ends
the poll. `MaxCalls` bounds the calls awaited when the user acts. `Patient`
is an assumption on the user that nothing in the code enforces: while any call is
awaited no row is selected, no Run requested, no outcome recorded and the view
neither entered nor left, and the row selected already is not selected again.
`ShowsSelectedClaim` needs it, as two details in flight break what it says
(section 4), and `WatchedRunsConclude` does, as a click on the selected row clears the
Run and loads nothing. The theorems of the view hold for any user.
`OnlyLateAnswersMislead` is in no run: two claims, two Runs and a user who does not
wait are beyond the time of one (`MCView.cfg` with one Run and `Patient = FALSE` passes).

`ReviewRuns` really stops (no Run id left, the job idle), so deadlock is not
checked there, nor in `ReviewView`, nor in `BriefPlan`, `PolicyHistory`, `Scenarios`
and `Workspace`, which end: a plan, a policy and a tab's questions are used up.

### Which assumptions, and where they come from

`Timely` says that a live Run neither outlives `STALE_RUN_SECONDS` (1200 s) nor its
branch's TTL (900 s). The code means this to hold: a Run is stopped after 180 s
(`store.py:25`), but the clock is only looked at after some calls, so it is an
assumption on how long a call takes. `OverrunIsBounded` says how far it goes: the
clock is first read after at most eight calls (two before the branch, six up to
the end of its step), and from then on a late Run has left `execute` after at
most six more (those of `relevant`, or the follow-up decision and `similar`).
A call counts as one whatever it does inside: a branch is created by several
requests and a poll. The promotion, the demo hold and the teardown come on
top, and the record counts from `claim_run`, before the Run's own clock starts. Without
`Timely` a zombie Run overwrites its successor's claim row: nothing in
`complete_run` or `fail_run` compares `active_run_id` (`store.py:272`, `280`).
`runs_faulty` shows what is left then. `LostAcks` is the difference between a
connection that drops before a commit and one that drops after.

### Fairness

`FairSpec` has weak fairness of each Run's next step. A thread that may run
runs in the end, and the calls it makes return or raise: the SDK's pollers,
Genie's loop and the warehouse's wait all have an end. The registry's lock is a
`threading.Lock`, which promises no order; weak fairness of taking it is enough
because run ids are finite in the model. With an endless supply of
requests a waiting thread could be overtaken for ever. Nothing is assumed fair
about requests, the nightly job's driver, time or crashes, and the run has no
crash and no drop: with one, a claim stays in progress until somebody asks for
its Brief again.

`ReviewView`'s `FairSpec` has Runs begin and end, which is what `ClaimsSettle` and
`WaitersEnd` say of the server; calls are answered or fail, handlers and timers
run, as a browser's event loop does. Strong fairness of `ServePoll` says that
not every poll is lost; `PollingEnds` and `WatchedRunsConclude` allow any finite
number of losses in between. Nothing is assumed of the user.

`Workspace`'s `FairSpec`: a handler goes on, since Genie's wait is bounded by
`GENIE_TIMEOUT_SECONDS`, a statement's polls by the warehouse's deadline
(`warehouse.py:89-100`) and a store call by its connection; a response, or the
failure of a connection a restart broke, reaches the page; a timeline's read ends in
rows, no rows, no access or a failure; and effects run after a rendering. Weak
fairness is enough, as nothing disables these steps but their own outcome, a
restart or a refresh, which are finitely many. Nothing is assumed of the user, and
nothing makes a call succeed.

## 4. Where the code and its documentation part

1. `reclaim`: `runner.py:6-8` has the nightly pass reclaim a stale claim;
   `pending_claims` (`store.py:342`) lists queued and failed ones only. Only an
   on-demand request reclaims, and only if the routing pass has not refreshed
   `updated_at` within the window (`store.py:238`).
2. `promote`: "Failed Runs promote nothing" (ADR-0017); with a lost
   acknowledgement the Brief is on main, its Run `failed`, its claim `queued`.
   The claim then has a Brief, so the nightly pass skips it, and the next Run
   of it, if asked for, replaces a Brief that may already carry an outcome.

The others were met while modelling and have no run.

Of the view: "one claim's Run never narrates another's" (`ReviewView.jsx:24-25`).
`loadDetail` applies the detail it awaited whatever is selected by then
(`ReviewView.jsx:50-56`), so for a user who does not wait a detail answered late
brings its claim, its timeline and its Run to the screen of another claim. A Run
requested, or an outcome recorded, before the selection moved on does the same
(`:74`, `:113`). `ScreenOnlyMisledByLateAnswers` proves that nothing else does.

The panel gives up on a Run that waits for the registry's lock
for more than 15 polls, and its "lost" message is never seen, because
`onFinished` unmounts the panel that shows it (`RunPanel.jsx:57`). A Run whose
process was killed says `running` for ever, and is polled for ever. A retry while
the failed Run's thread still cleans up gets no Run. The error banner is never cleared.

Of Investigations: an Investigation is one Genie conversation (`genie.py:3`, ADR-0011),
but a first message that times out leaves its thread behind and the next one starts
another (`genie.py:84-87`), and after a timeline failed two messages may be under way,
of which the later write wins (`main.py:78`); `OneCarriedConversation` says what is left.
"A restart no longer forgets" an Investigation (`investigations.py:3-5`), but the
fallback of `context.py:36` keeps them in memory until the next one, and `InvestigationStore`
then has forgotten both. Genie's answer survives every failure of Genie's (`genie.py:9-13`), not
one of the store: the write of the handle that fails is a 500, and the answer is
lost with it. "The timeline for that
node is already in `resolvedTimelines`" (`useInvestigation.js:251-253`) is not so of
nodes that a refresh brought back, whose timelines the effect fetches.

Of the policy data: of a pattern that fires more than once "the most recent one is kept"
(`transformations.py:1258-1260`), but `_densest_window` (`:1242`) keeps the densest
window, and of equally dense ones the first. A C5 control has "no claim near the
cluster" (`build.py:460`), but the days kept free of claims begin 30 days before the
cluster while a report may lag 60 (`REPORT_LAG_CAP_DAYS`): an ordinary claim 31 days
before it may be reported after the first changes, which then fall in its gap
(`ScenariosShow` has the exception). A status change on the day of a claim's report is
shown after the claim marker, because `TIMELINE_EVENT_TYPES` (`transformations.py:240-242`)
sorts its type last (`TimelineTells` has the exception). Of two claims reported on one day
the pipeline links a change to the one with the lower `claim_id`, the validator
to the one with the earlier loss (`validate.py:168-201`); `ValidatorAgrees` excepts such
ties. A change in the gap of one claim may be linked to another that is reported
earlier: `claim_event` counts it, and R3, which asks for the link, does not show it.
The generator's windows (`_window_flags`, `[day, day + N - 1]`) are a day shorter than
those of the pipeline's rules (`[loss - N, loss]`).

Of the questions: a window is the "smallest of 30/60/90 that covers the nearest" Relevant
Change (`questions.py:38`), and 90 when none covers it (`:50`), so a change 200 days before
the loss is asked about with a window it is not in: a link has no lower bound in days. A claim
may be marked `relevant_coverage_change` while its Brief finds `nothing_before`, when a claim
reported no later took the change (`BriefFitsTables` has the exception); and
`nothing_before` only means nothing relevant: the Sequence beside it may show an address
change. The Sequence's `material_change_count` leaves out changes of status, whose event
type is another one (`harness.py:147`), while the claim's own counts have them. A question about a
change in the gap stands beside a Sequence that ends at the loss (`tools.py:45`).

More were met and are not given a run. Runs are never concurrent "across claims either"
(`runner.py:4-5`), but the lock is the process's own, and the nightly job is
another process. "A dropped connection never committed" (`store.py:191-193`) is not
so of one that drops after the commit, and the statement is replayed. The design counts 2 + 4 × 3 = 14
model calls per Run; the follow-up decision (`harness.py:197`) makes it 15,
the number in `BudgetsHold`. And `store.py:25` calls the wall clock capped at 180 s.

## 5. Proofs

All theorems hold for any finite or infinite sets of claims and Runs and any
values of the other constants within the named assumptions.

- **`ReviewRunsProofs`.** Of the record: `RecordTypeCorrect`, `RecordIsCoherent`. The invariant `RecordInv` is the coherence properties
  plus what a Run's row says of its claim. Of the Runs: `RunsUseTheRecord`: each step of the system is a step
  of the record or leaves it alone, so that every theorem about `RecordSpec`
  holds here whatever drops or crashes. It rests on `ThreadsCoherent`: a thread
  past `claim_run` has a claim, which is routed, and one past `start_run` has its run row;
  without them the record's foreign keys would have to be taken on trust.
  `WholeBriefsOnly`: a promotion is a step of a Run whose verdict is "built"; like
  `ScratchAlwaysShared` of `BriefPlanProofs` it is proved and no longer in a run.
  `RunsWorkAlone` under any fault;
  `BranchesStayAttended` for `MaxCrashes = 0`, no branch fault, no demo hold.
- **`TimelyRunsProofs`** assumes `Timely` and `~LostAcks`. The inductive
  invariant `TimelyInv` has three parts. *The claim row is a lock*: a Run that
  still has its claim row to write is the row's active Run, and the row is
  not stale. *Briefs*: the Brief of a claim is a completed Run's, its claim is
  `brief_ready` and therefore never claimed again. *Active Runs*: an active Run
  id belongs to a thread that has claimed, so a fresh id is nobody's. The
  steps are first reduced to a handful of moves of a Run and of its drivers
  (`RunMoves`, `DriverMoves`), and the invariant is proved for these.
  `RunsKeepPromise` maps each move to a step of `BriefPromise` or a stutter, and
  `RunsServeTheApi` to one of `BriefService`: there a Run may only be answered to
  be the active one of its own claim, which is what the claim row as a lock gives.
- **`BriefPlanProofs`.** For all budgets: `PlanTypeCorrect`,
  `BudgetsAlwaysHold`, `OverrunAlwaysBounded`, `BriefAlwaysWhole`,
  `ScratchAlwaysShared`. `PlanInv` counts the turns spent in earlier sections,
  from which the number of scratch statements and of model calls follows. `ClockInv`
  bounds the time at each place by the calls that can have been made since the clock
  was read last; it is needed because a few places are reached without a reading:
  the fork, a second proposal of the question, and what follows the follow-up decision.
- **`ReviewViewProofs`.** `ViewTypeCorrect` and `PanelShowsItsOwnRun`, for any
  user. `ViewInv` adds to the types that a detail on screen needs a selection and
  that every call was asked for a claim (`DetailIsSelected`, `CallsAreSelected`).
  `ScreenOnlyMisledByLateAnswers`, for any user: each step keeps the Run, the
  detail and the timeline on screen those of the selection, or still on their
  way, unless it handles an answer to a call for another claim. Its `NamesInv` says of each
  place a Run is named, the server's table (`ServiceFits`), an answer (`AnswersFit`),
  App (`AppFits`), that the Run was minted for the claim it is named with, so that
  what is not late is the selection's.
- **`DatasetProofs`.** `DatasetTypeCorrect`; `GapGrainsAgree`, which needs the types
  only; and `RoundTrip`, for any number of lines, changes and days. Its invariant
  `RoundTripInv` adds to `ChangesRoundTrip` that each line has a version
  (`LinesStarted`) and how the status stands with the plan (`StatusInv`): a policy
  that leaves is active until its last day, and else a reinstatement is pending
  just when the policy is lapsed. Without it a status change could be to the status
  the policy has already, and leave no difference between versions. A boundary day
  is then a matter of what one appended version adds to the differences of a
  sequence (`AppendPolicyRow`, `AppendLineRow`) and what the generator adds to
  its list (`InApplied`).

- **`GoldProofs`.** What the tables say of one policy, for any anchor, term, lines,
  ladders and windows and any numbers of changes and claims. From `HistoryHolds`:
  `VersionsAlwaysInForce` and `TimelineAlwaysTells`; from `PolicyHolds`:
  `ValidatorAlwaysAgrees` and `EvidenceAlwaysAgrees`; from `GoldHolds`:
  `SnapshotsAlwaysAgree`, `PatternsAlwaysMean` and `PipelineAlwaysPasses`. The
  invariant adds to `RoundTripInv`, part by part as the tables need it:
  - `DatesInv`: versions start at day 0 and ascend, so that one is in force each day;
  - `TermInv`: the renewals shown are the multiples of the term up to the latest
    version, so that the timeline can tell them from the versions alone;
  - `BooksInv`: who leaves the books and when, and that a claim is lost before the
    last day and reported no sooner than the least lag;
  - `StartInv`: a policy starts active, and each later vehicle came with a change.

  The tables choose (the version in force, the first report, the latest, nearest or
  densest row). That there is a row to choose, and what choosing it means, is the
  least element of a set of naturals (`LeastByTwo`, `GreatestNumber`), which the
  library's facts on well-founded sets give; a fact about every row is then shown of
  the least row that would break it. Change rows are totally ordered by `Before`; the
  densest span and the nearest peer are maximal elements of a finite strict order;
  a cluster of at least the minimum contains one of exactly the minimum
  (`SubsetOfSize`). `PipelineAlwaysPasses` has one lemma per catalogue.
  The proofs use the named assumptions of `PolicyHistory`, `GoldLayer` and
  `Expectations`, all of which the source's constants meet: finitely many lines,
  positive limits, a cluster of at least one change, ascending windows, and the window
  of a relevant change no longer than the second of the prior windows nor than the
  widest window of a question.

- **`ScenarioProofs`.** The scenario catalogue: `ShapesAlwaysHold`,
  `ScenariosAlwaysShow`, and `ScenariosAreHistories`, which carries the theorems of
  `GoldProofs` over to the policies that are planted. They hold for any ladders and lines that
  have the rungs and the two lines (collision, comprehensive) the stories name, any report lags up to
  the cap, any anchor at least 400 days on, and any number of ordinary changes and
  claims on the days the model lays them; what `rng` draws from a range is its first
  or its last value here too. The argument has three parts.
  - *The run of the builder.* `ScenarioInv` has `GoldInv`, of which each step of
    `Scenarios` is a step or a stutter once `Inception` allows for planted values;
    `Clear`, that ordinary changes keep out of the quiet windows; `Happened` and
    `AsPlanned`, that planned changes up to the current day and change rows answer each
    other; and `Laddered` and `LinesDated`, that a line stands where it was planted
    until its declared change comes. The last two are why `_assert_direction` never fails
    (`NeverContradicted`), which no earlier invariant tells.
  - *The tables of a story.* What each plan says is stated once, as a predicate per population
    (`RaisedStory`, `CutStory`, ...), and turned into what is in the tables (`RaisedTables`,
    `QuietTables`, ...): its claim with its amount and dates, its rows, and, where
    the windows close the policy to others, that there is nothing else. The validator's
    shapes follow (`ShapesFollow`).
  - *What the rules make of them.* A rule whose window holds the days of a story matches
    it, and a rule whose window ends before the days kept clear matches no control
    (`MatchWithin`, `ThreeNear`, `PairNear`); the question of a Run takes its
    nearest or its last window (`NearestWindow`, `LastWindow`).

  `StoriesAssumption` is what the third part needs of constants of other packages:
  claim windows that hold the longest distance of a story and end before the days kept
  clear (60 and 90 days in the source, between 32 and 120), spans that hold a cluster
  of 25 days (30 and 60), the two nearer windows of a question (30 and 60, between 24 and 130),
  a severity cut no higher than what the generator calls a high cost (both 10,000), and
  a routing window of a month at least (90). Nothing in the source ties these
  constants together: a change of one that leaves these bounds would silence a story or
  make a control tell one.

- **`WorkspaceProofs`.** For any policies and any numbers of questions, refreshes and
  restarts: `WorkspaceTypeCorrect`, `OverlapsAlwaysFollowFailures`,
  `TrailAlwaysInOrder`, `NodesAlwaysWarm`, `OneConversationCarried`. Types need an
  invariant of their own here, `WorkspaceInv`: that a thread's number is one of a
  question's rests on counting the questions Genie was asked (`ThreadsOK`), that an
  Investigation's is rests on `CountsOK`, and that the awaited call is about the
  last question asked, whose message is not sent before its Investigation is there,
  is `CallOK`. An answer to a call then appends a question later than all of
  the trail (`TrailInv`). `ConversationInv` says of the Investigation on screen that
  it has a row in one of the two stores at most, that the row holds the one thread
  ever saved, and that a handler which has read it carries that thread or, if there was none,
  any (`Matches`). It is kept because, as long as no timeline failed, the
  handler that writes is the only one in flight (`OneInFlight`, from
  `OverlapsAlwaysFollowFailures`); a restart keeps it because it ends every handler
  and empties only the twin.

Only model-checked:

- liveness: `ClaimsSettle`, `WaitersEnd`, `WatchedRunsConclude`, `PollingEnds`,
  `QuestionsEnd`, `TimelinesSettle`;
- the counterexamples.

## 6. Plan

1. *Done*: record, Runs, promise, plan, with their proofs.
2. *Done*: Investigations and their tab, composed, with answers that overtake each
   other, a refresh and restarts; their safety proved.
3. *Done*: the Review view, its poll and the race of details.
4. *Done*: history, version diff, claim linkage, patterns, profile, timeline, the
   validator's copy of them, with the round trip proved; the scenario catalogue and
   the validator's shape checks; the expectations. Left: the similarity of
   claims (`transformations.py:1817-1990`), the only table that relates policies.
5. *Done*: the Questions of a Run: situation, window, the rows they come from. Left:
   what makes a proposal valid, which is about words.
6. Left: the regeneration workflow as a task graph; the allocation arithmetic of the
   generator; several nights of the routing pass, for the cap of 20 that newest
   claims which always fail would use up.
7. *Done*: every safety invariant and action property of the runs proved, the
   scenario catalogue included, and both refinements of the Runs.
8. Left: of the queries that `genie/build_space.py` gives Genie, the one for the change
   that most recently preceded each claim, against `LastBeforeLoss`; the in-memory
   record as a store of its own under `ReviewRuns`.

## 7. Not modelled

Which data the generator draws, and how often, is random and calibrated
(`calibration.py`, `behaviour.py`, `allocation.py`, notes, identifiers): that the rates
come out as declared is a statistic of five thousand policies. The Genie space builder
(`genie/build_space.py`), but for the one query of `QueriedClaims`, and the UC comments assemble documents; the CI scripts
question a live workspace; access control and the warehouse client are modelled by
their outcomes only, as rows, no rows, no access or failure. The front end's rendering is left out.
Of `InMemoryReviewStore` the investigation handles are modelled; its claims and Runs
are a test twin of the record, and the fallback of `context.py` to them makes a
record of one process's own, which the model of Runs does not have. Tracing changes nothing:
`harness.py:347-350` swallows its failures. `PROJECT.json` gives the reason for
each component.
