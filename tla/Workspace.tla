------------------------------ MODULE Workspace ------------------------------
(***************************************************************************)
(* One investigation tab (app/frontend hooks/useInvestigation.js) over the *)
(* back end of module Investigations: the trail of answered questions, the *)
(* timeline beside it with its fetch-once cache, and what a page refresh   *)
(* finds in local storage.                                                 *)
(*                                                                         *)
(* JavaScript runs a handler from one await to the next, and these are the *)
(* steps.  submitQuestion waits for Genie and for the timeline at once     *)
(* (Promise.all): when the timeline is the one that fails, it stops        *)
(* waiting although its message is still being handled.  Questions are     *)
(* numbered as they are asked, and known by number and by the one policy   *)
(* they name.  useInvestigation's startNewInvestigation is left out: no    *)
(* component calls it, a new investigation is a new tab.                   *)
(***************************************************************************)
EXTENDS Investigations

CONSTANTS Seed,       \* the policy of the seed question, or NoSeed
          NoSeed,     \* the tab was opened without one
          MaxReloads  \* bound: page refreshes

ASSUME WorkspaceAssumption ==
  /\ Seed \in Policies \cup {NoPolicy, NoSeed}
  /\ NoSeed \notin Policies \cup {NoPolicy}
  /\ MaxReloads \in Nat

VARIABLES
  trail,        \* the nodes: one per answered question
  activeIndex,  \* the node on show, 0 for none
  manualTimelineId, liveTimelineId,
  genieLoading,
  call,         \* the submitQuestion or findSimilar that is awaited
  bootError,    \* an error is on screen
  investigationId,   \* investigationIdRef
  fetches,      \* fetchCacheRef: the promise of each policy's timeline
  timelines,    \* resolvedTimelines
  asked,        \* the questions asked so far
  seeded,       \* seededRef
  restored,     \* the nodes that came with the last load of the page
  reloads

timelineVars == <<fetches, timelines>>
pageVars     == <<restored, reloads>>
clientVars   == <<trail, activeIndex, manualTimelineId, liveTimelineId, genieLoading,
                  call, bootError, investigationId, timelineVars, asked, seeded, pageVars>>
vars == <<serverVars, clientVars>>

Kinds == {"typed", "seed", "similar"}
Node  == [question : Questions, about : Policies \cup {NoPolicy}, kind : Kinds]

\* Where the awaited call stands: it creates the Investigation, waits for
\* Genie and the timeline, or reads policy_similarity.
Calls == [at : {"create", "answer", "similar"}, question : Questions,
          about : Policies \cup {NoPolicy}, kind : Kinds, answered : BOOLEAN]
NoCall == [at |-> "nowhere", question |-> 0, about |-> NoPolicy, kind |-> "typed",
           answered |-> FALSE]

\* A timeline's promise: the timeline is read, then the patterns.
FetchStates == {"none", "timeline", "patterns", "done", "failed"}
Snapshots   == {"none", "found", "not_found", "no_access"}

\* displayedTimelineId.
Displayed ==
  IF manualTimelineId # NoPolicy THEN manualTimelineId
  ELSE IF genieLoading THEN liveTimelineId
  ELSE IF activeIndex = 0 THEN NoPolicy ELSE trail[activeIndex].about

Init ==
  /\ ServerInit
  /\ trail = <<>> /\ activeIndex = 0
  /\ manualTimelineId = NoPolicy /\ liveTimelineId = NoPolicy
  /\ genieLoading = FALSE /\ call = NoCall /\ bootError = FALSE
  /\ investigationId = NoInvestigation
  /\ fetches = [p \in Policies |-> "none"]
  /\ timelines = [p \in Policies |-> "none"]
  /\ asked = 0 /\ seeded = FALSE /\ restored = 0 /\ reloads = 0

-----------------------------------------------------------------------------
(* The end of a call, and the steps it is made of. *)

\* The catch and finally branches.
EndBroken ==
  /\ call' = NoCall /\ genieLoading' = FALSE /\ liveTimelineId' = NoPolicy
  /\ bootError' = TRUE
  /\ UNCHANGED <<trail, activeIndex>>

\* Mutant: the index is that of the node before.
EndBehind ==
  /\ trail' = Append(trail, [question |-> call.question, about |-> call.about,
                             kind |-> call.kind])
  /\ activeIndex' = Len(trail)
  /\ call' = NoCall /\ genieLoading' = FALSE /\ liveTimelineId' = NoPolicy
  /\ UNCHANGED bootError

\* The node of the answered question is appended and shown.
EndAnswered ==
  /\ trail' = Append(trail, [question |-> call.question, about |-> call.about,
                             kind |-> call.kind])
  /\ activeIndex' = Len(trail) + 1
  /\ call' = NoCall /\ genieLoading' = FALSE /\ liveTimelineId' = NoPolicy
  /\ UNCHANGED bootError

\* The call waits, for the first time or still.
Await(c) == /\ call' = c /\ genieLoading' = TRUE /\ liveTimelineId' = c.about
            /\ UNCHANGED <<trail, activeIndex>>

\* fetchTimelineSnapshot: one promise per policy, kept whatever becomes of it.
Fetching(p) == IF p # NoPolicy /\ fetches[p] = "none"
               THEN [fetches EXCEPT ![p] = "timeline"] ELSE fetches

TimelineLost(c)  == c.about # NoPolicy /\ fetches[c.about] = "failed"
TimelineReady(c) == c.about # NoPolicy => fetches[c.about] = "done"

\* sendMessage: the message is posted, then awaited together with the
\* timeline; if that is lost already, Promise.all fails at once.
Send(inv, c) ==
  /\ messages' = [messages EXCEPT ![c.question] =
                    At("sent", inv, c.about)]
  /\ IF TimelineLost(c) THEN EndBroken
     ELSE Await([c EXCEPT !.at = "answer"]) /\ bootError' = FALSE

-----------------------------------------------------------------------------
(* Asking. *)

NewCall(about, kind) == [at |-> "create", question |-> asked + 1, about |-> about,
                         kind |-> kind, answered |-> FALSE]

\* Mutant: a question may be asked while another one is awaited.
SubmitAnyTime(about, kind) ==
  /\ asked < MaxQuestions
  /\ asked' = asked + 1
  /\ manualTimelineId' = NoPolicy
  /\ fetches' = Fetching(about)
  /\ IF investigationId = NoInvestigation
     THEN Await(NewCall(about, kind)) /\ bootError' = FALSE /\ UNCHANGED messages
     ELSE Send(investigationId, NewCall(about, kind))
  /\ UNCHANGED <<backend, lakebase, memory, created, threads, carried, restarts,
                 investigationId, timelines, pageVars>>

\* submitQuestion, up to the first await that has to wait.
SubmitQuestion(about, kind) ==
  /\ ~genieLoading /\ asked < MaxQuestions
  /\ asked' = asked + 1
  /\ manualTimelineId' = NoPolicy
  /\ fetches' = Fetching(about)
  /\ IF investigationId = NoInvestigation
     THEN Await(NewCall(about, kind)) /\ bootError' = FALSE /\ UNCHANGED messages
     ELSE Send(investigationId, NewCall(about, kind))
  /\ UNCHANGED <<backend, lakebase, memory, created, threads, carried, restarts,
                 investigationId, timelines, pageVars>>

\* The user types a question or clicks a chip.
Ask(about) == SubmitQuestion(about, "typed") /\ UNCHANGED seeded

\* The effect that asks the seed question of a tab opened from a Brief.
AskSeed ==
  /\ Seed # NoSeed /\ ~seeded /\ trail = <<>>
  /\ seeded' = TRUE
  /\ SubmitQuestion(Seed, "seed")

\* findSimilar, which is offered on a timeline that was found.
FindSimilar(p) ==
  /\ p = Displayed /\ timelines[p] = "found"
  /\ ~genieLoading /\ asked < MaxQuestions
  /\ asked' = asked + 1
  /\ manualTimelineId' = NoPolicy
  /\ Await([NewCall(p, "similar") EXCEPT
              !.at = IF investigationId = NoInvestigation THEN "create" ELSE "similar"])
  /\ bootError' = FALSE
  /\ UNCHANGED <<serverVars, investigationId, timelineVars, seeded, pageVars>>

\* ensureInvestigation: the Investigation is created, and the call goes on.
Created ==
  /\ call.at = "create"
  /\ CreateInvestigation
  /\ investigationId' = created + 1
  /\ IF call.kind = "similar"
     THEN Await([call EXCEPT !.at = "similar"]) /\ UNCHANGED <<messages, bootError>>
     ELSE Send(created + 1, call)
  /\ UNCHANGED <<manualTimelineId, timelineVars, asked, seeded, pageVars>>

\* The Investigation is not created, or the similar policies are not read.
CallFails ==
  /\ call.at \in {"create", "similar"}
  /\ EndBroken
  /\ UNCHANGED <<serverVars, manualTimelineId, investigationId, timelineVars, asked,
                 seeded, pageVars>>

\* getSimilar answers, with neighbours or with no access.
SimilarArrives ==
  /\ call.at = "similar"
  /\ EndAnswered
  /\ UNCHANGED <<serverVars, manualTimelineId, investigationId, timelineVars, asked,
                 seeded, pageVars>>

-----------------------------------------------------------------------------
(* Answers. *)

Delivered(i) == messages' = [messages EXCEPT ![i] = Over]
Awaits(i)    == call.at = "answer" /\ call.question = i

\* Mutant: the node is made as soon as Genie answers.
AnswerShownAtOnce(i) ==
  /\ messages[i].phase = "replied"
  /\ Delivered(i)
  /\ IF ~Awaits(i) THEN UNCHANGED <<trail, activeIndex, call, genieLoading, liveTimelineId, bootError>>
     ELSE EndAnswered
  /\ UNCHANGED <<backend, lakebase, memory, created, threads, carried, restarts,
                 manualTimelineId, investigationId, timelineVars, asked, seeded, pageVars>>

\* Mutant: an answer nobody waits for becomes a node all the same.
AnswerKeptAnyway(i) ==
  /\ messages[i].phase = "replied"
  /\ Delivered(i)
  /\ trail' = Append(trail, [question |-> i, about |-> messages[i].about, kind |-> "typed"])
  /\ activeIndex' = Len(trail) + 1
  /\ IF Awaits(i) THEN call' = NoCall /\ genieLoading' = FALSE ELSE UNCHANGED <<call, genieLoading>>
  /\ UNCHANGED <<liveTimelineId, bootError>>
  /\ UNCHANGED <<backend, lakebase, memory, created, threads, carried, restarts,
                 manualTimelineId, investigationId, timelineVars, asked, seeded, pageVars>>

\* The response to a message: a node once the timeline is there as well; one
\* nobody waits for any more is dropped.
AnswerArrives(i) ==
  /\ messages[i].phase = "replied"
  /\ Delivered(i)
  /\ IF ~Awaits(i) THEN UNCHANGED <<trail, activeIndex, call, genieLoading, liveTimelineId, bootError>>
     ELSE IF TimelineReady(call) THEN EndAnswered
     ELSE Await([call EXCEPT !.answered = TRUE]) /\ UNCHANGED bootError
  /\ UNCHANGED <<backend, lakebase, memory, created, threads, carried, restarts,
                 manualTimelineId, investigationId, timelineVars, asked, seeded, pageVars>>

\* Mutant: a message that failed does not end its call.
FailureSwallowed(i) ==
  /\ messages[i].phase = "failed"
  /\ Delivered(i)
  /\ UNCHANGED <<trail, activeIndex, call, genieLoading, liveTimelineId, bootError>>
  /\ UNCHANGED <<backend, lakebase, memory, created, threads, carried, restarts,
                 manualTimelineId, investigationId, timelineVars, asked, seeded, pageVars>>

\* A message that failed: 404, 500 or a broken connection.
FailureArrives(i) ==
  /\ messages[i].phase = "failed"
  /\ Delivered(i)
  /\ IF Awaits(i) THEN EndBroken
     ELSE UNCHANGED <<trail, activeIndex, call, genieLoading, liveTimelineId, bootError>>
  /\ UNCHANGED <<backend, lakebase, memory, created, threads, carried, restarts,
                 manualTimelineId, investigationId, timelineVars, asked, seeded, pageVars>>

\* The endpoints of a policy: GET timeline, then GET patterns of one that was
\* found.  A query that is not allowed is answered, one that fails is a 502.
Snapshot(outcome) == CASE outcome = "no_access" -> "no_access"
                       [] outcome = "no_rows" -> "not_found"
                       [] OTHER -> "found"

TimelineRead(p) ==
  /\ fetches[p] = "timeline"
  /\ fetches' = [fetches EXCEPT ![p] = "patterns"]
  /\ UNCHANGED <<timelines, trail, activeIndex, call, genieLoading, liveTimelineId, bootError>>

\* The promise resolves: on patterns of any outcome but failure, or on a
\* timeline that has none.
TimelineArrives(p, outcome) ==
  /\ IF fetches[p] = "patterns" THEN outcome = "rows"
     ELSE fetches[p] = "timeline" /\ outcome \in {"no_rows", "no_access"}
  /\ fetches' = [fetches EXCEPT ![p] = "done"]
  /\ timelines' = [timelines EXCEPT ![p] = Snapshot(outcome)]
  /\ IF call.at = "answer" /\ call.about = p /\ call.answered
     THEN EndAnswered
     ELSE UNCHANGED <<trail, activeIndex, call, genieLoading, liveTimelineId, bootError>>

\* The promise is rejected, and with it the Promise.all that waits for it.
TimelineFails(p) ==
  /\ fetches[p] \in {"timeline", "patterns"}
  /\ fetches' = [fetches EXCEPT ![p] = "failed"]
  /\ IF call.at = "answer" /\ call.about = p THEN EndBroken
     ELSE UNCHANGED <<trail, activeIndex, call, genieLoading, liveTimelineId, bootError>>
  /\ UNCHANGED timelines

TimelineStep(p) ==
  /\ \/ TimelineRead(p)
     \/ \E outcome \in {"rows", "no_rows", "no_access"} : TimelineArrives(p, outcome)
     \/ TimelineFails(p)
  /\ UNCHANGED <<serverVars, manualTimelineId, investigationId, asked, seeded, pageVars>>

-----------------------------------------------------------------------------
(* Looking around. *)

\* openPolicyTimeline, from a row of a result on screen.
OpenPolicyTimeline(p) ==
  /\ trail # <<>>
  /\ manualTimelineId' = p
  /\ fetches' = Fetching(p)
  /\ UNCHANGED <<serverVars, trail, activeIndex, liveTimelineId, genieLoading, call, bootError,
                 investigationId, timelines, asked, seeded, pageVars>>

\* goToNode.
GoToNode(index) ==
  /\ manualTimelineId' = NoPolicy
  /\ activeIndex' = index
  /\ UNCHANGED <<serverVars, trail, liveTimelineId, genieLoading, call, bootError,
                 investigationId, timelineVars, asked, seeded, pageVars>>

\* Mutant: only a timeline the user opened is fetched.
FetchOpened ==
  /\ manualTimelineId # NoPolicy
  /\ timelines[manualTimelineId] = "none" /\ fetches[manualTimelineId] = "none"
  /\ fetches' = Fetching(manualTimelineId)
  /\ UNCHANGED <<serverVars, trail, activeIndex, manualTimelineId, liveTimelineId,
                 genieLoading, call, bootError, investigationId, timelines, asked, seeded,
                 pageVars>>

\* The effect that fetches the timeline on show.
FetchDisplayed ==
  /\ Displayed # NoPolicy /\ timelines[Displayed] = "none" /\ fetches[Displayed] = "none"
  /\ fetches' = Fetching(Displayed)
  /\ UNCHANGED <<serverVars, trail, activeIndex, manualTimelineId, liveTimelineId,
                 genieLoading, call, bootError, investigationId, timelines, asked, seeded,
                 pageVars>>

\* The page is refreshed: the trail and the index are read back from
\* local storage, which an effect keeps up with them; the rest is new, and
\* nobody waits for the messages under way.
Reload ==
  /\ reloads < MaxReloads
  /\ reloads' = reloads + 1
  /\ restored' = Len(trail)
  /\ manualTimelineId' = NoPolicy /\ liveTimelineId' = NoPolicy
  /\ genieLoading' = FALSE /\ call' = NoCall /\ bootError' = FALSE
  /\ investigationId' = NoInvestigation
  /\ fetches' = [p \in Policies |-> "none"]
  /\ timelines' = [p \in Policies |-> "none"]
  /\ seeded' = FALSE
  /\ UNCHANGED <<serverVars, trail, activeIndex, asked>>

-----------------------------------------------------------------------------
Server == /\ RestartServer \/ \E i \in Questions : Handle(i)
          /\ UNCHANGED clientVars

Page == \/ \E about \in Policies \cup {NoPolicy} : Ask(about)
        \/ AskSeed
        \/ \E p \in Policies : FindSimilar(p) \/ TimelineStep(p) \/ OpenPolicyTimeline(p)
        \/ Created \/ CallFails \/ SimilarArrives
        \/ \E i \in Questions : AnswerArrives(i) \/ FailureArrives(i)
        \/ \E index \in DOMAIN trail : GoToNode(index)
        \/ FetchDisplayed \/ Reload

Next == Server \/ Page

Spec == Init /\ [][Next]_vars

\* Handlers end: Genie's wait and the polls of a query are bounded.  Responses
\* and failures reach the page, and its effects run.
Fairness ==
  /\ \A i \in Questions :
       /\ WF_vars(Handle(i) /\ UNCHANGED clientVars)
       /\ WF_vars(AnswerArrives(i) \/ FailureArrives(i))
  /\ \A p \in Policies : WF_vars(TimelineStep(p))
  /\ WF_vars(Created \/ CallFails \/ SimilarArrives)
  /\ WF_vars(AskSeed) /\ WF_vars(FetchDisplayed)

FairSpec == Spec /\ Fairness

-----------------------------------------------------------------------------
TypeOK ==
  /\ backend \in {"lakebase", "memory"}
  /\ lakebase \in Rows /\ memory \in Rows
  /\ created \in 0..MaxQuestions
  /\ threads \in 0..MaxQuestions
  /\ carried \in [Investigation -> SUBSET Questions]
  /\ messages \in [Questions -> Message]
  /\ restarts \in 0..MaxRestarts
  /\ trail \in Seq(Node)
  /\ activeIndex \in 0..Len(trail) /\ (activeIndex = 0 => trail = <<>>)
  /\ {manualTimelineId, liveTimelineId} \subseteq Policies \cup {NoPolicy}
  /\ genieLoading \in BOOLEAN
  /\ call \in Calls \cup {NoCall}
  /\ bootError \in BOOLEAN
  /\ investigationId \in Investigation \cup {NoInvestigation}
  /\ fetches \in [Policies -> FetchStates] /\ timelines \in [Policies -> Snapshots]
  /\ asked \in 0..MaxQuestions /\ seeded \in BOOLEAN
  /\ restored \in 0..Len(trail) /\ reloads \in 0..MaxReloads

\* Within a page, two messages of its Investigation are in flight together only
\* after a timeline failed: a message nobody waits for is about a policy whose
\* timeline was lost (submitQuestion frees the page when Promise.all fails).
OverlapsFollowFailures ==
  \A i \in Questions :
    InFlight(i) /\ messages[i].inv = investigationId /\ investigationId # NoInvestigation
      => \/ Awaits(i)
         \/ messages[i].about # NoPolicy /\ fetches[messages[i].about] = "failed"

\* One Genie conversation per Investigation (genie.py:3, ADR-0011): unless a
\* timeline failed, no second thread's handle is ever written over the first,
\* through refusals, timeouts, failing stores and restarts.
OneCarriedConversation ==
  (\A p \in Policies : fetches[p] # "failed") /\ investigationId # NoInvestigation
    => Cardinality(carried[investigationId]) <= 1

\* The trail tells the investigation in order: questions in the order they were
\* asked, each once, refreshes and late answers included, and a seed question
\* only as its first.
TrailInOrder ==
  \A m, n \in DOMAIN trail :
    /\ m < n => trail[m].question < trail[n].question
    /\ trail[n].kind = "seed" => n = 1

\* "The timeline for that node is already in resolvedTimelines": going to a node
\* made since the page was loaded never fetches (useInvestigation.js:251-253).
NodesAreWarm ==
  \A n \in DOMAIN trail :
    n > restored /\ trail[n].about # NoPolicy => timelines[trail[n].about] # "none"

\* Every question ends, unless the page is reloaded: in its node or in an error
\* on screen, and with the page free for the next one.
QuestionsEnd ==
  \A i \in Questions :
    call.question = i /\ reloads = MaxReloads
      ~> /\ call.question # i
         /\ bootError \/ \E n \in DOMAIN trail : trail[n].question = i

\* A timeline on show is filled, or its fetch has failed: it does not wait for a
\* fetch nobody started, after a refresh or beside a question that failed.
TimelinesSettle ==
  \A p \in Policies :
    Displayed = p ~> Displayed # p \/ timelines[p] # "none" \/ fetches[p] = "failed"
=============================================================================
