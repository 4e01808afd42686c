-------------------------- MODULE ReviewViewProofs --------------------------
(***************************************************************************)
(* The panel of the Review view shows and polls the view's own Run, for    *)
(* any number of claims and Runs, any user and any number of calls awaited *)
(* at once; and what it shows of another claim than the selected one, a    *)
(* late answer brought there.                                              *)
(***************************************************************************)
EXTENDS ReviewView, TLAPS

Call == [kind : Kinds, claim : Claims, answer : {"none", "ok", "failed"},
         run : Runs \cup {NoRun}, last : Lasts]
Detail == [claim : Claims \cup {NoClaim}, last : Lasts]

\* ViewTypeOK without the calls, which are a bag.
ScreenTypeOK ==
  /\ selected \in Claims \cup {NoClaim}
  /\ runId \in Runs \cup {NoRun}
  /\ detail \in Detail
  /\ shown \in [run : Runs \cup {NoRun}, status : {"none", "running", "failed"}]
  /\ loop \in [stage : {"off", "asked", "answered", "timer"}, run : Runs \cup {NoRun},
               claim : Claims \cup {NoClaim}, misses : 0 .. MaxMisses - 1,
               answer : PollAnswers \cup {"none"}]
  /\ strays \subseteq [run : Runs, claim : Claims]
PropsTypeOK ==
  /\ tab \in {"investigate", "review"}
  /\ timeline \in Claims \cup {NoClaim}
  /\ appRun \in Runs \cup {NoRun}
  /\ error \in BOOLEAN
ServerTypeOK == ServiceTypeOK /\ thread \in [Claims -> Runs \cup {NoRun}]
CallsTypeOK == Awaited \subseteq Call

\* What is on screen is a claim's, and a selection is there for it; only a
\* selection makes the view call for anything.
DetailIsSelected == detail # NoDetail => detail.claim \in Claims /\ selected \in Claims
CallsAreSelected == \A k \in Awaited : k.kind = "prepare" \/ selected \in Claims

ScreenInv == ScreenTypeOK /\ DetailIsSelected /\ ShowsItsOwnRun
CallsInv == CallsTypeOK /\ CallsAreSelected
ViewInv == ServerTypeOK /\ PropsTypeOK /\ ScreenInv /\ CallsInv

LEMMA ViewInvTypes ==
  ViewTypeOK <=> ServerTypeOK /\ PropsTypeOK /\ ScreenTypeOK /\ CallsTypeOK
BY DEF ViewTypeOK, ServerTypeOK, PropsTypeOK, ScreenTypeOK, CallsTypeOK, Call, Detail

-----------------------------------------------------------------------------
(* Bags of calls *)

LEMMA AddedCalls ==
  ASSUME NEW B, NEW x
  PROVE  DOMAIN BagAdd(B, x) = (DOMAIN B) \cup {x}
BY DEF BagAdd

LEMMA RemovedCalls ==
  ASSUME NEW B, NEW x
  PROVE  DOMAIN BagRemove(B, x) \subseteq DOMAIN B
BY DEF BagRemove

LEMMA CallsGo ==
  ASSUME CallsInv, selected \in Claims => selected' \in Claims, Awaited' \subseteq Awaited
  PROVE  CallsInv'
BY DEF CallsInv, CallsTypeOK, CallsAreSelected

\* Some calls go, and one of a selection, or one of App's, comes.
LEMMA CallsCome ==
  ASSUME CallsInv, selected \in Claims => selected' \in Claims,
         NEW x \in Call, x.kind = "prepare" \/ selected' \in Claims,
         NEW B, DOMAIN B \subseteq Awaited, calls' = BagAdd(B, x)
  PROVE  CallsInv'
<1>1. Awaited' \subseteq Awaited \cup {x}
  BY AddedCalls DEF Awaited
<1>2. QED
  BY <1>1 DEF CallsInv, CallsTypeOK, CallsAreSelected

LEMMA AskedIsCall ==
  ASSUME NEW kind \in Kinds, NEW c \in Claims
  PROVE  Asked(kind, c) \in Call /\ Asked(kind, c).kind = kind
BY DEF Asked, Call, Kinds, Lasts

LEMMA LoadAsked ==
  ASSUME CallsInv, selected' \in Claims \cup {NoClaim}, selected \in Claims => selected' \in Claims,
         NEW B, DOMAIN B \subseteq Awaited, calls' = WithLoad(B, selected')
  PROVE  CallsInv'
<1>1. CASE selected' = NoClaim
  <2>1. calls' = B
    BY <1>1 DEF WithLoad
  <2>2. Awaited' \subseteq Awaited
    BY <2>1 DEF Awaited
  <2>3. QED
    BY <2>2, CallsGo
<1>2. CASE selected' \in Claims /\ selected' # NoClaim
  BY <1>2, CallsCome, AskedIsCall DEF WithLoad, Kinds
<1>3. QED
  BY <1>1, <1>2

-----------------------------------------------------------------------------
(* Rendering *)

LEMMA Rendered ==
  ASSUME ViewAssumption, ScreenInv,
         NEW c \in Claims \cup {NoClaim}, NEW d \in Detail, NEW r \in Runs \cup {NoRun},
         d # NoDetail => d.claim \in Claims /\ c \in Claims,
         Render(c, d, r)
  PROVE  ScreenInv'
<1> USE DEF ScreenInv, ScreenTypeOK, DetailIsSelected, ShowsItsOwnRun, Panel, Render, OnPanel,
            Cancelled, Polling, NoLoop, NoShown, NewLoop, PollAnswers, ViewAssumption
<1>1. Cancelled \subseteq [run : Runs, claim : Claims]
  OBVIOUS
<1>2. CASE ~OnPanel(d, r)
  BY <1>1, <1>2
<1>3. CASE OnPanel(d, r) /\ OnPanel(detail, runId) /\ r = runId /\ c = selected
  BY <1>3
<1>4. CASE OnPanel(d, r) /\ ~(OnPanel(detail, runId) /\ r = runId /\ c = selected)
  <2>1. r \in Runs /\ c \in Claims /\ d # NoDetail /\ d.claim \in Claims
    BY <1>4
  <2>2. selected' = c /\ detail' = d /\ runId' = r /\ shown' = NoShown /\ loop' = NewLoop(r, c)
    BY <1>4
  <2>3. strays' \subseteq [run : Runs, claim : Claims]
    BY <1>1
  <2>4. 0 \in 0 .. MaxMisses - 1
    OBVIOUS
  <2>5. ScreenTypeOK'
    BY <2>1, <2>2, <2>3, <2>4
  <2>6. DetailIsSelected'
    BY <2>1, <2>2
  <2>7. ShowsItsOwnRun'
    BY <2>1, <2>2
  <2>8. QED
    BY <2>5, <2>6, <2>7
<1>5. QED
  BY <1>2, <1>3, <1>4

LEMMA Mounted ==
  ASSUME ViewAssumption, NEW c \in Claims \cup {NoClaim}, NEW r \in Runs \cup {NoRun}, Mount(c, r)
  PROVE  ScreenInv' /\ PropsTypeOK'
<1>1. 0 \in 0 .. MaxMisses - 1
  BY DEF ViewAssumption
<1>2. ScreenTypeOK'
  BY <1>1 DEF Mount, ScreenTypeOK, NoDetail, NoLoop, NoShown, PollAnswers, Detail, Lasts
<1>3. DetailIsSelected' /\ PropsTypeOK'
  BY DEF Mount, DetailIsSelected, PropsTypeOK
<1>4. ShowsItsOwnRun'
  BY DEF Mount, ShowsItsOwnRun, NoLoop, NoShown
<1>5. QED
  BY <1>2, <1>3, <1>4 DEF ScreenInv

LEMMA Blank ==
  ASSUME ViewAssumption, selected' \in Claims \cup {NoClaim}, runId' = NoRun,
         detail' \in Detail, detail' # NoDetail => detail'.claim \in Claims /\ selected' \in Claims,
         shown' = NoShown, loop' = NoLoop, strays' \subseteq [run : Runs, claim : Claims]
  PROVE  ScreenInv'
<1>1. 0 \in 0 .. MaxMisses - 1
  BY DEF ViewAssumption
<1>2. ScreenTypeOK'
  BY <1>1 DEF ScreenTypeOK, NoLoop, NoShown, PollAnswers
<1>3. DetailIsSelected' /\ ShowsItsOwnRun'
  BY DEF DetailIsSelected, ShowsItsOwnRun, NoLoop, NoShown
<1>4. QED
  BY <1>2, <1>3 DEF ScreenInv

-----------------------------------------------------------------------------
(* The steps *)

\* The screen stays as it is.
LEMMA ScreenStays ==
  ASSUME ScreenInv, UNCHANGED <<selected, localVars>>
  PROVE  ScreenInv'
BY DEF ScreenInv, ScreenTypeOK, DetailIsSelected, ShowsItsOwnRun, Panel, OnPanel, localVars

\* The service keeps its types.
LEMMA MintStep ==
  ASSUME ServerTypeOK, NEW c \in Claims, NEW r \in Runs,
         Started(c, r) \/ (Mint(c, r) /\ UNCHANGED thread)
  PROVE  ServerTypeOK'
BY DEF ServerTypeOK, ServiceTypeOK, Started, Mint

LEMMA ServiceStep ==
  ASSUME ServerTypeOK, ViewAssumption,
         \/ \E r \in Runs : (Begin(r) \/ Drop({r}) \/ Publish(r) \/ GiveUp(r)) /\ UNCHANGED thread
         \/ UNCHANGED serverVars
  PROVE  ServerTypeOK'
<1> USE DEF ServerTypeOK, ServiceTypeOK
<1>2. ASSUME NEW r \in Runs, Begin(r) PROVE ServiceTypeOK'
  BY <1>2 DEF Begin
<1>3. ASSUME NEW r \in Runs, Drop({r}) PROVE ServiceTypeOK'
  BY <1>3 DEF Drop
<1>4. ASSUME NEW r \in Runs, Publish(r) PROVE ServiceTypeOK'
  BY <1>4 DEF Publish
<1>5. ASSUME NEW r \in Runs, GiveUp(r) PROVE ServiceTypeOK'
  BY <1>5 DEF GiveUp
<1>6. CASE UNCHANGED serverVars
  BY <1>6 DEF serverVars, serviceVars
<1>7. QED
  BY <1>2, <1>3, <1>4, <1>5, <1>6

\* What the user does.
LEMMA UserStep ==
  ASSUME ViewAssumption, ViewInv,
         \/ EnterView \/ LeaveView \/ StartRun \/ RecordDisposition
         \/ \E c \in Claims : HandleSelect(c) \/ PrepareBrief(c)
  PROVE  ViewInv'
<1> USE DEF ViewInv
<1>1. CASE EnterView
  <2>1. ScreenInv' /\ PropsTypeOK'
    BY <1>1, Mounted DEF EnterView, ScreenInv, ScreenTypeOK, PropsTypeOK
  <2>2. selected' = selected /\ selected \in Claims \cup {NoClaim}
    BY <1>1 DEF EnterView, Mount, ScreenInv, ScreenTypeOK
  <2>3. CallsInv'
    BY <1>1, <2>2, LoadAsked DEF EnterView, Awaited
  <2>4. QED
    BY <1>1, <2>1, <2>3, ServiceStep DEF EnterView
<1>2. CASE LeaveView
  <2>1. ScreenInv'
    BY <1>2, Blank DEF LeaveView, ScreenInv, ScreenTypeOK, Detail, NoDetail, Lasts
  <2>2. PropsTypeOK'
    BY <1>2 DEF LeaveView, PropsTypeOK
  <2>3. CallsInv'
    BY <1>2 DEF LeaveView, CallsInv, CallsTypeOK, CallsAreSelected, Awaited
  <2>4. QED
    BY <1>2, <2>1, <2>2, <2>3, ServiceStep DEF LeaveView
<1>3. CASE StartRun
  <2>1. CallsInv'
    BY <1>3, CallsCome, AskedIsCall DEF StartRun, MayStart, Kinds, ScreenInv, DetailIsSelected, Awaited
  <2>2. QED
    BY <1>3, <2>1, ScreenStays, ServiceStep DEF StartRun, PropsTypeOK, localVars
<1>4. CASE RecordDisposition
  <2>1. detail # NoDetail
    BY <1>4 DEF RecordDisposition, NoDetail
  <2>2. CallsInv'
    BY <1>4, <2>1, CallsCome, AskedIsCall DEF RecordDisposition, Kinds, ScreenInv, DetailIsSelected, Awaited
  <2>3. QED
    BY <1>4, <2>2, ScreenStays, ServiceStep DEF RecordDisposition, PropsTypeOK, localVars
<1>5. ASSUME NEW c \in Claims, HandleSelect(c) PROVE ViewInv'
  <2>1. ScreenInv'
    BY <1>5, Rendered DEF HandleSelect, ScreenInv, ScreenTypeOK, DetailIsSelected
  <2>2. CallsInv'
    BY <1>5, CallsGo, LoadAsked DEF HandleSelect, Render, Awaited
  <2>3. QED
    BY <1>5, <2>1, <2>2, ServiceStep DEF HandleSelect, PropsTypeOK
<1>6. ASSUME NEW c \in Claims, PrepareBrief(c) PROVE ViewInv'
  <2>1. CallsInv'
    BY <1>6, CallsCome, AskedIsCall DEF PrepareBrief, Kinds, ScreenInv, ScreenTypeOK, Awaited
  <2>2. QED
    BY <1>6, <2>1, ScreenStays, ServiceStep DEF PrepareBrief, PropsTypeOK, localVars
<1>7. QED
  BY <1>1, <1>2, <1>3, <1>4, <1>5, <1>6

\* What the server does: answers, refusals and the Runs of others.
LEMMA ServerStep ==
  ASSUME ViewAssumption, ViewInv,
         \/ \E k \in Awaited : Serve(k) \/ Fail(k)
         \/ \E c \in Claims, r \in Runs : OtherClient(c, r)
         \/ \E r \in Runs : RunBegins(r) \/ RunEnds(r)
  PROVE  ViewInv'
<1> USE DEF ViewInv
<1>1. ASSUME NEW k \in Awaited, NEW r \in Runs \cup {NoRun}, NEW last \in Lasts,
             UNCHANGED selected, AnswerTo(k, r, last)
      PROVE  CallsInv'
  <2>1. Answered(k, r, last) \in Call /\ Answered(k, r, last).kind = k.kind
    BY DEF Answered, CallsInv, CallsTypeOK, Call
  <2>2. k.kind = "prepare" \/ selected \in Claims
    BY DEF CallsInv, CallsAreSelected
  <2>3. QED
    BY <1>1, <2>1, <2>2, CallsCome, RemovedCalls DEF AnswerTo, Awaited
<1>2. ASSUME NEW k \in Awaited, Serve(k) PROVE ViewInv'
  <2>1. k.claim \in Claims
    BY DEF CallsInv, CallsTypeOK, Call
  <2>2. ScreenInv' /\ PropsTypeOK'
    BY <1>2, ScreenStays DEF Serve, PropsTypeOK, localVars
  <2>3. CASE ServeRead(k)
    <3>1. active[k.claim] \in Runs \cup {NoRun} /\ LastOf(k.claim) \in Lasts /\ "none" \in Lasts
      BY <2>1 DEF ServerTypeOK, ServiceTypeOK, LastOf, Lasts
    <3>2. CallsInv'
      BY <1>1, <1>2, <2>3, <3>1 DEF Serve, ServeRead
    <3>3. QED
      BY <2>2, <2>3, <3>2, ServiceStep DEF ServeRead
  <2>4. CASE ServeRequest(k)
    <3>1. thread[k.claim] \in Runs \cup {NoRun} /\ "none" \in Lasts
      BY <2>1 DEF ServerTypeOK, Lasts
    <3>2. CallsInv'
      BY <1>1, <1>2, <2>4, <3>1 DEF Serve, ServeRequest
    <3>3. ServerTypeOK'
      <4>1. ASSUME NEW r \in Runs, Started(k.claim, r) PROVE ServerTypeOK'
        BY <2>1, <4>1, MintStep
      <4>2. CASE UNCHANGED serverVars
        BY <4>2, ServiceStep
      <4>3. QED
        BY <2>4, <4>1, <4>2 DEF ServeRequest
    <3>4. QED
      BY <2>2, <3>2, <3>3
  <2>5. QED
    BY <1>2, <2>3, <2>4 DEF Serve
<1>3. ASSUME NEW k \in Awaited, Fail(k) PROVE ViewInv'
  <2>1. Rejected(k) \in Call /\ Rejected(k).kind = k.kind
    BY DEF Rejected, CallsInv, CallsTypeOK, Call
  <2>2. k.kind = "prepare" \/ selected \in Claims
    BY DEF CallsInv, CallsAreSelected
  <2>3. CallsInv'
    BY <1>3, <2>1, <2>2, CallsCome, RemovedCalls DEF Fail, Awaited
  <2>4. QED
    BY <1>3, <2>3, ScreenStays, ServiceStep DEF Fail, PropsTypeOK, localVars
<1>4. ASSUME UNCHANGED viewVars PROVE ScreenInv' /\ PropsTypeOK' /\ CallsInv'
  BY <1>4, ScreenStays, CallsGo DEF viewVars, localVars, PropsTypeOK, Awaited
<1>5. ASSUME NEW c \in Claims, NEW r \in Runs, OtherClient(c, r) PROVE ViewInv'
  <2>1. ServerTypeOK'
    <3>1. Started(c, r) \/ (Mint(c, r) /\ UNCHANGED thread)
      BY <1>5 DEF OtherClient
    <3>2. QED
      BY <3>1, MintStep
  <2>2. UNCHANGED viewVars
    BY <1>5 DEF OtherClient
  <2>3. QED
    BY <1>4, <2>1, <2>2
<1>6. ASSUME NEW r \in Runs, RunBegins(r) \/ RunEnds(r) PROVE ViewInv'
  BY <1>4, <1>6, ServiceStep DEF RunBegins, RunEnds
<1>7. QED
  BY <1>2, <1>3, <1>5, <1>6

\* The view handles an answer.
LEMMA HandleStep ==
  ASSUME ViewAssumption, ViewInv, NEW k \in Awaited, Handle(k)
  PROVE  ViewInv'
<1> USE DEF ViewInv
<1>1. k \in Call /\ (k.kind = "prepare" \/ selected \in Claims)
  BY DEF CallsInv, CallsTypeOK, CallsAreSelected
<1>2. k.claim \in Claims /\ k.run \in Runs \cup {NoRun} /\ k.last \in Lasts /\ "brief" \in Lasts
  BY <1>1 DEF Call, Lasts
<1>3. selected \in Claims \cup {NoClaim} /\ runId \in Runs \cup {NoRun} /\ detail \in Detail
  BY DEF ScreenInv, ScreenTypeOK
<1>4. DOMAIN Rest(k) \subseteq Awaited
  BY RemovedCalls DEF Rest, Awaited
<1>5. ServerTypeOK'
  BY ServiceStep DEF Handle
<1>6. CASE OnDetail(k)
  <2>1. selected \in Claims /\ selected' = selected
    BY <1>1, <1>6 DEF OnDetail, Render
  <2>2. ScreenInv'
    BY <1>2, <1>3, <1>6, <2>1, Rendered DEF OnDetail, Detail
  <2>3. CallsInv'
    BY <1>2, <1>4, <1>6, <2>1, CallsCome, AskedIsCall DEF OnDetail, Kinds
  <2>4. QED
    BY <1>5, <1>6, <2>2, <2>3 DEF OnDetail, PropsTypeOK
<1>7. CASE OnTimeline(k)
  <2>1. CallsInv'
    BY <1>4, <1>7, CallsGo DEF OnTimeline, Awaited
  <2>2. ScreenInv'
    BY <1>7, ScreenStays DEF OnTimeline, localVars, ScreenInv, ScreenTypeOK, DetailIsSelected, ShowsItsOwnRun, Panel, OnPanel
  <2>3. QED
    BY <1>2, <1>5, <1>7, <2>1, <2>2 DEF OnTimeline, PropsTypeOK
<1>8. CASE OnStart(k)
  <2>1. ScreenInv'
    BY <1>2, <1>3, <1>8, Rendered DEF OnStart, ScreenInv, DetailIsSelected
  <2>2. CallsInv'
    BY <1>4, <1>8, CallsGo DEF OnStart, Render, Awaited
  <2>3. QED
    BY <1>5, <1>8, <2>1, <2>2 DEF OnStart, PropsTypeOK
<1>9. CASE OnRecorded(k)
  <2>1. selected \in Claims
    BY <1>1, <1>9 DEF OnRecorded
  <2>2. ScreenInv'
    BY <1>2, <1>3, <1>9, <2>1, Rendered DEF OnRecorded, Detail
  <2>3. CallsInv'
    BY <1>4, <1>9, CallsGo DEF OnRecorded, Render, Awaited
  <2>4. QED
    BY <1>5, <1>9, <2>2, <2>3 DEF OnRecorded, PropsTypeOK
<1>10. CASE OnPrepared(k)
  <2>1. CASE tab = "investigate" /\ Mount(k.claim, k.run) /\ calls' = WithLoad(Rest(k), k.claim)
    <3>1. selected' = k.claim
      BY <2>1 DEF Mount
    <3>2. QED
      BY <1>2, <1>4, <1>5, <2>1, <3>1, Mounted, LoadAsked
  <2>2. CASE tab = "review"
    <3>1. selected' = k.claim
      BY <1>10, <2>2 DEF OnPrepared, Render
    <3>2. ScreenInv'
      BY <1>2, <1>3, <1>10, <2>2, Rendered DEF OnPrepared, ScreenInv, DetailIsSelected
    <3>3. CallsInv'
      BY <1>2, <1>4, <1>10, <2>2, <3>1, CallsGo, LoadAsked DEF OnPrepared, Awaited
    <3>4. QED
      BY <1>2, <1>5, <1>10, <2>2, <3>2, <3>3 DEF OnPrepared, PropsTypeOK
  <2>3. QED
    BY <1>10, <2>1, <2>2 DEF OnPrepared
<1>11. CASE OnRejection(k)
  <2>1. CallsInv'
    BY <1>4, <1>11, CallsGo DEF OnRejection, Awaited
  <2>2. ScreenInv'
    BY <1>11 DEF OnRejection, ScreenInv, ScreenTypeOK, DetailIsSelected, ShowsItsOwnRun, Panel, OnPanel
  <2>3. QED
    BY <1>5, <1>11, <2>1, <2>2 DEF OnRejection, PropsTypeOK
<1>12. QED
  BY <1>6, <1>7, <1>8, <1>9, <1>10, <1>11 DEF Handle

\* The panel's poll.
LEMMA PollStep ==
  ASSUME ViewAssumption, ViewInv,
         ServePoll \/ LosePoll \/ HandlePoll \/ PollAgain \/ \E s \in strays : OnStray(s)
  PROVE  ViewInv'
<1> USE DEF ViewInv
<1>1. ServerTypeOK' /\ PropsTypeOK'
  BY ServiceStep DEF ServePoll, LosePoll, HandlePoll, PollAgain, OnStray, PropsTypeOK
<1>2. CASE ServePoll \/ LosePoll \/ PollAgain
  <2>1. CallsInv'
    BY <1>2, CallsGo DEF ServePoll, LosePoll, PollAgain, Awaited
  <2>2. ScreenInv'
    BY <1>2 DEF ServePoll, LosePoll, PollAgain, LoopStep, ScreenInv, ScreenTypeOK, DetailIsSelected, ShowsItsOwnRun, Panel, OnPanel, PollAnswers
  <2>3. QED
    BY <1>1, <2>1, <2>2
<1>3. ASSUME NEW s \in strays, OnStray(s) PROVE ViewInv'
  <2>1. CallsInv'
    BY <1>3, CallsGo DEF OnStray, Awaited
  <2>2. ScreenInv'
    BY <1>3 DEF OnStray, ScreenInv, ScreenTypeOK, DetailIsSelected, ShowsItsOwnRun, Panel, OnPanel
  <2>3. QED
    BY <1>1, <2>1, <2>2
<1>4. CASE HandlePoll
  <2>1. CASE Finish
    <3>1. selected' = selected /\ selected \in Claims /\ loop.claim = selected
      BY <1>4 DEF HandlePoll, ScreenInv, DetailIsSelected, ShowsItsOwnRun, Panel, OnPanel
    <3>2. CallsInv'
      BY <2>1, <3>1, LoadAsked DEF Finish, Awaited
    <3>3. ScreenInv'
      BY <1>4, <2>1, Blank DEF HandlePoll, Finish, ScreenInv, ScreenTypeOK, DetailIsSelected
    <3>4. QED
      BY <1>1, <3>2, <3>3
  <2>2. CASE ~Finish
    <3>1. CallsInv'
      BY <1>4, <2>2, CallsGo DEF HandlePoll, Awaited
    <3>2. loop.misses + 1 \in 0 .. MaxMisses - 1 \/ GivesUp
      BY DEF GivesUp, ScreenInv, ScreenTypeOK, ViewAssumption
    <3>3. 0 \in 0 .. MaxMisses - 1
      BY DEF ViewAssumption
    <3>4. ScreenInv'
      <4> USE DEF HandlePoll, LoopStep, PollAnswers
      <4>1. UNCHANGED <<selected, detail, runId, strays>> /\ loop.stage # "off"
        BY <1>4, <2>2
      <4>2. UNCHANGED shown \/ shown' \in [run : {loop.run}, status : {"running", "failed"}]
        BY <1>4, <2>2
      <4>3. \E stage \in {"timer", "off"}, m \in 0 .. MaxMisses - 1 : LoopStep(stage, "none", m)
        BY <1>4, <2>2, <3>2, <3>3
      <4>4. Panel /\ loop.run = runId /\ loop.claim = selected /\ runId \in Runs \cup {NoRun}
        BY <4>1 DEF ScreenInv, ScreenTypeOK, ShowsItsOwnRun
      <4>5. ScreenTypeOK'
        BY <4>1, <4>2, <4>3, <4>4 DEF ScreenInv, ScreenTypeOK
      <4>6. DetailIsSelected'
        BY <4>1 DEF ScreenInv, DetailIsSelected
      <4>7. loop'.run = loop.run /\ loop'.claim = loop.claim
        BY <4>3 DEF ScreenInv, ScreenTypeOK
      <4>8. ShowsItsOwnRun'
        BY <4>1, <4>2, <4>4, <4>7 DEF ScreenInv, ShowsItsOwnRun, Panel, OnPanel
      <4>9. QED
        BY <4>5, <4>6, <4>8 DEF ScreenInv
    <3>5. QED
      BY <1>1, <3>1, <3>4
  <2>3. QED
    BY <2>1, <2>2
<1>5. QED
  BY <1>2, <1>3, <1>4

-----------------------------------------------------------------------------
LEMMA ViewInvInit == ViewAssumption /\ Init => ViewInv
<1> SUFFICES ASSUME ViewAssumption, Init PROVE ViewInv
  OBVIOUS
<1>1. 0 \in 0 .. MaxMisses - 1
  BY DEF ViewAssumption
<1>2. ServerTypeOK
  BY DEF Init, ServiceInit, ServerTypeOK, ServiceTypeOK
<1>3. ScreenTypeOK /\ PropsTypeOK
  BY <1>1 DEF Init, ScreenTypeOK, PropsTypeOK, NoDetail, NoShown, NoLoop, Detail, Lasts, PollAnswers
<1>4. DetailIsSelected /\ ShowsItsOwnRun
  BY DEF Init, DetailIsSelected, ShowsItsOwnRun, NoShown, NoLoop
<1>5. CallsInv
  BY DEF Init, CallsInv, CallsTypeOK, CallsAreSelected, Awaited, EmptyBag, SetToBag
<1>6. QED
  BY <1>2, <1>3, <1>4, <1>5 DEF ViewInv, ScreenInv

LEMMA ViewInvStep == ViewAssumption /\ ViewInv /\ [Next]_vars => ViewInv'
<1> SUFFICES ASSUME ViewAssumption, ViewInv, [Next]_vars PROVE ViewInv'
  OBVIOUS
<1>1. CASE Next
  BY <1>1, UserStep, ServerStep, HandleStep, PollStep DEF Next
<1>2. CASE UNCHANGED vars
  <2>1. UNCHANGED <<selected, localVars>> /\ UNCHANGED serverVars
    BY <1>2 DEF vars, viewVars
  <2>2. ScreenInv' /\ ServerTypeOK'
    BY <2>1, ScreenStays, ServiceStep DEF ViewInv
  <2>3. CallsInv' /\ PropsTypeOK'
    BY <1>2, CallsGo DEF ViewInv, vars, viewVars, localVars, Awaited, PropsTypeOK
  <2>4. QED
    BY <2>2, <2>3 DEF ViewInv
<1>3. QED
  BY <1>1, <1>2

\* Type correctness of the view, for any user and any number of awaited calls.
THEOREM ViewTypeCorrect == Spec => []ViewTypeOK
<1>1. ViewInv => ViewTypeOK
  BY ViewInvTypes DEF ViewInv, ScreenInv, CallsInv
<1>2. QED
  BY <1>1, ViewAssumption, ViewInvInit, ViewInvStep, PTL DEF Spec

\* Whatever the user and the server do and in whatever order answers come, the
\* panel shows and polls the Run of the view (RunPanel.jsx:37-63).
THEOREM PanelShowsItsOwnRun == Spec => []ShowsItsOwnRun
<1>1. ViewInv => ShowsItsOwnRun
  BY DEF ViewInv, ScreenInv
<1>2. QED
  BY <1>1, ViewAssumption, ViewInvInit, ViewInvStep, PTL DEF Spec

-----------------------------------------------------------------------------
(* What may mislead.  A Run that anything names was minted, for the claim    *)
(* that it is named with, and App's is the selection's; so the screen fits   *)
(* the selection until an answer to a call for another claim is handled.     *)

Minted(r, c) == status[r] # "unborn" /\ claimOf[r] = c

ServiceFits ==
  \A c \in Claims : /\ active[c] # NoRun => Minted(active[c], c)
                    /\ thread[c] # NoRun => Minted(thread[c], c)
AnswersFit == \A k \in Awaited : k.run # NoRun => Minted(k.run, k.claim)
AppFits == appRun # NoRun => Minted(appRun, selected)
\* The Run narrated may be a late one, but it is a Run of some claim.
ShownMinted == runId # NoRun => status[runId] # "unborn"

NamesInv == ServiceFits /\ AnswersFit /\ AppFits /\ ShownMinted

\* A Run once minted stays so, for its claim.
LEMMA MintedStays ==
  ASSUME ServerTypeOK,
         \/ \E c \in Claims, r \in Runs : Mint(c, r)
         \/ \E r \in Runs : Begin(r) \/ Drop({r}) \/ Publish(r) \/ GiveUp(r)
         \/ UNCHANGED serverVars
  PROVE  \A c : \A r \in Runs : Minted(r, c) => Minted(r, c)'
BY DEF ServerTypeOK, ServiceTypeOK, Minted, Mint, Begin, Drop, Publish, GiveUp, serverVars, serviceVars

\* The service's own names stay right, whatever it does.
LEMMA ServiceFitsStep ==
  ASSUME ViewAssumption, ServerTypeOK, ServiceFits,
         \/ \E c \in Claims, r \in Runs : Started(c, r) \/ (Mint(c, r) /\ UNCHANGED thread)
         \/ \E r \in Runs : (Begin(r) \/ Drop({r}) \/ Publish(r) \/ GiveUp(r)) /\ UNCHANGED thread
         \/ UNCHANGED serverVars
  PROVE  ServiceFits' /\ \A c : \A r \in Runs : Minted(r, c) => Minted(r, c)'
<1> USE DEF ServerTypeOK, ServiceTypeOK, ViewAssumption
<1>1. \A c : \A r \in Runs : Minted(r, c) => Minted(r, c)'
  BY MintedStays DEF Started
<1>2. ASSUME NEW c \in Claims, active'[c] # NoRun PROVE Minted(active[c], c)' /\ active'[c] \in Runs
  <2>1. CASE active'[c] = active[c]
    BY <1>1, <1>2, <2>1 DEF ServiceFits, Minted
  <2>2. CASE active'[c] # active[c]
    BY <1>2, <2>2 DEF Started, Mint, Begin, Drop, Publish, GiveUp, serverVars, serviceVars, Minted
  <2>3. QED
    BY <2>1, <2>2
<1>3. ASSUME NEW c \in Claims, thread'[c] # NoRun PROVE Minted(thread[c], c)' /\ thread'[c] \in Runs
  <2>1. CASE thread'[c] = thread[c]
    BY <1>1, <1>3, <2>1 DEF ServiceFits, Minted
  <2>2. CASE thread'[c] # thread[c]
    BY <1>3, <2>2 DEF Started, Mint, serverVars, serviceVars, Minted
  <2>3. QED
    BY <2>1, <2>2
<1>4. QED
  BY <1>1, <1>2, <1>3 DEF ServiceFits

LEMMA StillFits ==
  ASSUME NamesInv, UNCHANGED serverVars
  PROVE  /\ ServiceFits' /\ (ShownMinted /\ runId' = runId => ShownMinted')
         /\ \A r, c : (Minted(r, c) <=> Minted(r, c)') /\ claimOf' = claimOf
BY DEF NamesInv, ServiceFits, ShownMinted, Minted, serverVars, serviceVars

LEMMA AskedOf ==
  ASSUME NEW kind, NEW c
  PROVE  Asked(kind, c).kind = kind /\ Asked(kind, c).claim = c /\ Asked(kind, c).run = NoRun
BY DEF Asked

\* A call comes, one takes the place of another, and one goes.
LEMMA CallAdded ==
  ASSUME AnswersFit, \A r, c : Minted(r, c) => Minted(r, c)',
         NEW B, DOMAIN B \subseteq Awaited, NEW kind, NEW c, calls' = BagAdd(B, Asked(kind, c))
  PROVE  AnswersFit' /\ Asked(kind, c) \in Awaited' /\ DOMAIN B \subseteq Awaited'
<1>1. Awaited' = (DOMAIN B) \cup {Asked(kind, c)}
  BY AddedCalls DEF Awaited
<1>2. QED
  BY <1>1, AskedOf DEF AnswersFit

LEMMA LoadAdded ==
  ASSUME AnswersFit, \A r, c : Minted(r, c) => Minted(r, c)',
         NEW B, DOMAIN B \subseteq Awaited, NEW c, calls' = WithLoad(B, c)
  PROVE  /\ AnswersFit' /\ DOMAIN B \subseteq Awaited'
         /\ c # NoClaim => \E k \in Awaited' : k.kind = "detail" /\ k.claim = c
<1>1. CASE c = NoClaim
  BY <1>1 DEF WithLoad, Awaited, AnswersFit
<1>2. CASE c # NoClaim
  <2>1. calls' = BagAdd(B, Asked("detail", c))
    BY <1>2 DEF WithLoad
  <2>2. QED
    BY <1>2, <2>1, CallAdded, AskedOf
<1>3. QED
  BY <1>1, <1>2

LEMMA CallReplaced ==
  ASSUME NEW k \in Awaited, NEW x, calls' = BagAdd(BagRemove(calls, k), x)
  PROVE  /\ Awaited' \subseteq Awaited \cup {x}
         /\ Awaited \ {k} \subseteq Awaited' /\ x \in Awaited'
<1>1. DOMAIN BagRemove(calls, k) \subseteq Awaited /\ Awaited \ {k} \subseteq DOMAIN BagRemove(calls, k)
  BY DEF BagRemove, Awaited
<1>2. Awaited' = (DOMAIN BagRemove(calls, k)) \cup {x}
  BY AddedCalls DEF Awaited
<1>3. QED
  BY <1>1, <1>2

LEMMA CallGone ==
  ASSUME NEW k
  PROVE  DOMAIN Rest(k) \subseteq Awaited /\ Awaited \ {k} \subseteq DOMAIN Rest(k)
BY DEF BagRemove, Awaited, Rest

\* The screen stays, and what was on its way still is.
LEMMA ScreenStands ==
  ASSUME ViewInv, NamesInv, UNCHANGED <<tab, selected, appRun, runId, detail, timeline>>, error => error',
         \A c : \A r \in Runs : Minted(r, c) => Minted(r, c)',
         \A k \in Awaited : \E j \in Awaited' : j.kind = k.kind /\ j.claim = k.claim,
         ServiceFits', AnswersFit'
  PROVE  NamesInv' /\ LateStep
<1>1. appRun \in Runs \cup {NoRun} /\ runId \in Runs \cup {NoRun}
  BY DEF ViewInv, PropsTypeOK, ScreenInv, ScreenTypeOK
<1>2. NamesInv'
  BY <1>1 DEF NamesInv, AppFits, ShownMinted, Minted
<1>3. RunFits => RunFits'
  BY <1>1 DEF NamesInv, ShownMinted, RunFits, Minted
<1>4. \A kinds : OnItsWay(kinds) => OnItsWay(kinds)'
  BY DEF OnItsWay
<1>5. (DetailFits => DetailFits') /\ (TimelineFits => TimelineFits')
  BY <1>4 DEF DetailFits, TimelineFits
<1>6. QED
  BY <1>2, <1>3, <1>5 DEF LateStep

LEMMA UserMisleadsNobody ==
  ASSUME ViewAssumption, ViewInv, NamesInv,
         \/ EnterView \/ LeaveView \/ StartRun \/ RecordDisposition
         \/ \E c \in Claims : HandleSelect(c) \/ PrepareBrief(c)
  PROVE  NamesInv' /\ LateStep
<1>1. /\ ServiceFits' /\ (ShownMinted /\ runId' = runId => ShownMinted')
      /\ \A r, c : (Minted(r, c) <=> Minted(r, c)') /\ claimOf' = claimOf
  BY StillFits DEF EnterView, LeaveView, StartRun, RecordDisposition, HandleSelect, PrepareBrief
<1>2. AnswersFit /\ AppFits /\ ShownMinted /\ DOMAIN calls \subseteq Awaited
  BY DEF NamesInv, Awaited
<1>3. ASSUME NEW kind, NEW c, calls' = BagAdd(calls, Asked(kind, c)),
             UNCHANGED <<tab, selected, appRun, localVars>>
      PROVE  NamesInv' /\ LateStep
  <2>1. AnswersFit' /\ Awaited \subseteq Awaited'
    BY <1>1, <1>2, <1>3, CallAdded DEF Awaited
  <2>2. QED
    BY <1>1, <1>3, <2>1, ScreenStands DEF localVars
<1>4. CASE EnterView
  <2>1. /\ tab' = "review" /\ selected' = selected /\ appRun' = appRun /\ runId' = appRun
        /\ detail' = NoDetail /\ timeline' = NoClaim
    BY <1>4 DEF EnterView, Mount
  <2>2. AnswersFit' /\ (selected # NoClaim => \E k \in Awaited' : k.kind = "detail" /\ k.claim = selected)
    BY <1>1, <1>2, <1>4, LoadAdded DEF EnterView
  <2>3. AppFits' /\ ShownMinted' /\ RunFits'
    BY <1>1, <1>2, <2>1 DEF AppFits, ShownMinted, RunFits, Minted
  <2>4. DetailFits' /\ TimelineFits'
    BY <2>1, <2>2 DEF DetailFits, TimelineFits, OnItsWay, NoDetail
  <2>5. QED
    BY <1>1, <2>2, <2>3, <2>4 DEF NamesInv, LateStep
<1>5. CASE LeaveView
  <2>1. tab' = "investigate" /\ UNCHANGED <<selected, appRun>> /\ runId' = NoRun
    BY <1>5 DEF LeaveView
  <2>2. Awaited' \subseteq Awaited
    BY <1>5 DEF LeaveView, Awaited
  <2>3. AnswersFit' /\ AppFits' /\ ShownMinted'
    BY <1>1, <1>2, <2>1, <2>2 DEF AnswersFit, AppFits, ShownMinted
  <2>4. RunFits' /\ DetailFits' /\ TimelineFits'
    BY <2>1 DEF RunFits, DetailFits, TimelineFits
  <2>5. QED
    BY <1>1, <2>3, <2>4 DEF NamesInv, LateStep
<1>6. CASE StartRun
  BY <1>3, <1>6 DEF StartRun
<1>7. CASE RecordDisposition
  BY <1>3, <1>7 DEF RecordDisposition
<1>8. ASSUME NEW c \in Claims, HandleSelect(c) PROVE NamesInv' /\ LateStep
  <2>1. c # NoClaim
    BY DEF ViewAssumption
  <2>2. selected' = c /\ detail' = detail /\ runId' = NoRun /\ appRun' = NoRun
        /\ UNCHANGED <<tab, timeline, error>>
    BY <1>8 DEF HandleSelect, Render
  <2>3. /\ AnswersFit'
        /\ c = selected => Awaited' = Awaited
        /\ c # selected => \E k \in Awaited' : k.kind = "detail" /\ k.claim = c
    <3>1. CASE c = selected
      <4>1. calls' = calls
        BY <1>8, <3>1 DEF HandleSelect
      <4>2. QED
        BY <1>1, <1>2, <3>1, <4>1 DEF Awaited, AnswersFit
    <3>2. CASE c # selected
      <4>1. calls' = WithLoad(calls, c)
        BY <1>8, <3>2 DEF HandleSelect
      <4>2. QED
        BY <1>1, <1>2, <2>1, <3>2, <4>1, LoadAdded
    <3>3. QED
      BY <3>1, <3>2
  <2>4. AppFits' /\ ShownMinted' /\ RunFits'
    BY <2>2 DEF AppFits, ShownMinted, RunFits
  <2>5. (DetailFits => DetailFits') /\ (TimelineFits => TimelineFits')
    <3>1. CASE c = selected
      BY <2>2, <2>3, <3>1 DEF DetailFits, TimelineFits, OnItsWay
    <3>2. CASE c # selected
      BY <2>2, <2>3, <3>2 DEF DetailFits, TimelineFits, OnItsWay
    <3>3. QED
      BY <3>1, <3>2
  <2>6. QED
    BY <1>1, <2>3, <2>4, <2>5 DEF NamesInv, LateStep
<1>9. ASSUME NEW c \in Claims, PrepareBrief(c) PROVE NamesInv' /\ LateStep
  BY <1>3, <1>9 DEF PrepareBrief
<1>10. QED
  BY <1>4, <1>5, <1>6, <1>7, <1>8, <1>9

\* An answer or a refusal is of the claim that was asked about.
LEMMA AnsweredStands ==
  ASSUME ViewInv, NamesInv, NEW k \in Awaited, NEW x,
         x.kind = k.kind, x.claim = k.claim,
         x.run # NoRun => Minted(x.run, x.claim)',
         \A c : \A r \in Runs : Minted(r, c) => Minted(r, c)', ServiceFits',
         calls' = BagAdd(BagRemove(calls, k), x), UNCHANGED <<tab, selected, appRun, localVars>>
  PROVE  NamesInv' /\ LateStep
<1>1. Awaited' \subseteq Awaited \cup {x} /\ Awaited \ {k} \subseteq Awaited' /\ x \in Awaited'
  BY CallReplaced
<1>2. AnswersFit'
  <2>1. \A j \in Awaited : j.run \in Runs \cup {NoRun}
    BY DEF ViewInv, CallsInv, CallsTypeOK, Call
  <2>2. QED
    BY <1>1, <2>1 DEF NamesInv, AnswersFit
<1>3. \A j \in Awaited : \E i \in Awaited' : i.kind = j.kind /\ i.claim = j.claim
  BY <1>1
<1>4. QED
  BY <1>2, <1>3, ScreenStands DEF localVars

LEMMA ServerMisleadsNobody ==
  ASSUME ViewAssumption, ViewInv, NamesInv,
         \/ \E k \in Awaited : Serve(k) \/ Fail(k)
         \/ \E c \in Claims, r \in Runs : OtherClient(c, r)
         \/ \E r \in Runs : RunBegins(r) \/ RunEnds(r)
  PROVE  NamesInv' /\ LateStep
<1>1. ASSUME NEW k \in Awaited, Serve(k) PROVE NamesInv' /\ LateStep
  <2>1. k.claim \in Claims
    BY DEF ViewInv, CallsInv, CallsTypeOK, Call
  <2>2. active[k.claim] \in Runs \cup {NoRun} /\ thread[k.claim] \in Runs \cup {NoRun}
    BY <2>1 DEF ViewInv, ServerTypeOK, ServiceTypeOK
  <2>3. ASSUME NEW r, NEW last
        PROVE  /\ Answered(k, r, last).kind = k.kind
               /\ Answered(k, r, last).claim = k.claim
               /\ Answered(k, r, last).run = r
    BY DEF Answered, ViewInv, CallsInv, CallsTypeOK, Call
  <2>4. UNCHANGED <<tab, selected, appRun, localVars>>
    BY <1>1 DEF Serve
  <2>5. CASE ServeRead(k)
    <3>1. ServiceFits' /\ \A r, c : Minted(r, c) => Minted(r, c)'
      BY <2>5, StillFits DEF ServeRead
    <3>2. PICK r \in {active[k.claim], NoRun}, last \in {LastOf(k.claim), "none"} : AnswerTo(k, r, last)
      BY <2>5 DEF ServeRead
    <3>3. r # NoRun => Minted(r, k.claim)'
      BY <2>1, <3>1 DEF NamesInv, ServiceFits
    <3>4. QED
      BY <2>3, <2>4, <3>1, <3>2, <3>3, AnsweredStands DEF AnswerTo
  <2>6. CASE (\E r \in {thread[k.claim], NoRun} : AnswerTo(k, r, "none")) /\ UNCHANGED serverVars
    <3>1. ServiceFits' /\ \A r, c : Minted(r, c) => Minted(r, c)'
      BY <2>6, StillFits
    <3>2. PICK r \in {thread[k.claim], NoRun} : AnswerTo(k, r, "none")
      BY <2>6
    <3>3. r # NoRun => Minted(r, k.claim)'
      BY <2>1, <3>1 DEF NamesInv, ServiceFits
    <3>4. QED
      BY <2>3, <2>4, <3>1, <3>2, <3>3, AnsweredStands DEF AnswerTo
  <2>7. ASSUME NEW r \in Runs, Started(k.claim, r), AnswerTo(k, r, "none") PROVE NamesInv' /\ LateStep
    <3>1. ServiceFits' /\ \A c : \A q \in Runs : Minted(q, c) => Minted(q, c)'
      BY <2>1, <2>7, ServiceFitsStep DEF ViewInv, NamesInv
    <3>2. Minted(r, k.claim)'
      BY <2>7 DEF Started, Mint, Minted, ViewInv, ServerTypeOK, ServiceTypeOK
    <3>3. QED
      BY <2>3, <2>4, <2>7, <3>1, <3>2, AnsweredStands DEF AnswerTo
  <2>8. QED
    BY <1>1, <2>5, <2>6, <2>7 DEF Serve, ServeRequest
<1>2. ASSUME NEW k \in Awaited, Fail(k) PROVE NamesInv' /\ LateStep
  <2>1. /\ Rejected(k).kind = k.kind /\ Rejected(k).claim = k.claim /\ Rejected(k).run = k.run
    BY DEF Rejected, ViewInv, CallsInv, CallsTypeOK, Call
  <2>2. ServiceFits' /\ \A r, c : Minted(r, c) => Minted(r, c)'
    BY <1>2, StillFits DEF Fail
  <2>3. Rejected(k).run # NoRun => Minted(Rejected(k).run, Rejected(k).claim)'
    BY <2>1, <2>2 DEF NamesInv, AnswersFit
  <2>4. QED
    BY <1>2, <2>1, <2>2, <2>3, AnsweredStands DEF Fail
<1>3. ASSUME UNCHANGED viewVars, ServiceFits', \A c : \A r \in Runs : Minted(r, c) => Minted(r, c)'
      PROVE  NamesInv' /\ LateStep
  <2>1. AnswersFit' /\ Awaited' = Awaited
    BY <1>3 DEF viewVars, Awaited, NamesInv, AnswersFit, ViewInv, CallsInv, CallsTypeOK, Call
  <2>2. QED
    BY <1>3, <2>1, ScreenStands DEF viewVars, localVars
<1>4. ASSUME NEW c \in Claims, NEW r \in Runs, OtherClient(c, r) PROVE NamesInv' /\ LateStep
  BY <1>3, <1>4, ServiceFitsStep DEF OtherClient, ViewInv, NamesInv
<1>5. ASSUME NEW r \in Runs, RunBegins(r) \/ RunEnds(r) PROVE NamesInv' /\ LateStep
  BY <1>3, <1>5, ServiceFitsStep DEF RunBegins, RunEnds, ViewInv, NamesInv
<1>6. QED
  BY <1>1, <1>2, <1>4, <1>5

LEMMA PollMisleadsNobody ==
  ASSUME ViewAssumption, ViewInv, NamesInv,
         ServePoll \/ LosePoll \/ HandlePoll \/ PollAgain \/ \E s \in strays : OnStray(s)
  PROVE  NamesInv' /\ LateStep
<1>1. UNCHANGED <<serverVars, tab, selected, appRun, detail, timeline, error>>
  BY DEF ServePoll, LosePoll, HandlePoll, PollAgain, OnStray
<1>2. ServiceFits' /\ \A r, c : Minted(r, c) => Minted(r, c)'
  BY <1>1, StillFits
<1>3. CASE UNCHANGED <<runId, calls>>
  <2>1. AnswersFit' /\ Awaited' = Awaited
    BY <1>2, <1>3 DEF Awaited, NamesInv, AnswersFit
  <2>2. QED
    BY <1>1, <1>2, <1>3, <2>1, ScreenStands
<1>4. CASE HandlePoll /\ Finish
  <2>1. calls' = WithLoad(calls, loop.claim) /\ runId' = NoRun
    BY <1>4 DEF Finish
  <2>2. AnswersFit' /\ Awaited \subseteq Awaited'
    BY <1>2, <2>1, LoadAdded DEF Awaited, NamesInv
  <2>3. AppFits' /\ ShownMinted' /\ RunFits'
    BY <1>1, <1>2, <2>1 DEF NamesInv, AppFits, ShownMinted, RunFits
  <2>4. (DetailFits => DetailFits') /\ (TimelineFits => TimelineFits')
    BY <1>1, <2>2 DEF DetailFits, TimelineFits, OnItsWay
  <2>5. QED
    BY <1>2, <2>2, <2>3, <2>4 DEF NamesInv, LateStep
<1>5. QED
  BY <1>3, <1>4 DEF ServePoll, LosePoll, HandlePoll, PollAgain, OnStray

\* Only here can the screen change its claim: an answer that is handled is late,
\* or is the selection's, or brings the selection with it.
LEMMA OnlyLateHandledMislead ==
  ASSUME ViewAssumption, ViewInv, NamesInv, NEW k \in Awaited, Handle(k)
  PROVE  NamesInv' /\ LateStep
<1>1. /\ ServiceFits' /\ (ShownMinted /\ runId' = runId => ShownMinted')
      /\ \A r, c : (Minted(r, c) <=> Minted(r, c)') /\ claimOf' = claimOf
  BY StillFits DEF Handle
<1>2. /\ k.claim \in Claims /\ k.claim # NoClaim
      /\ k.run # NoRun => Minted(k.run, k.claim)
      /\ tab \in {"investigate", "review"} /\ error \in BOOLEAN
      /\ AnswersFit /\ AppFits /\ ShownMinted
  BY DEF ViewInv, PropsTypeOK, CallsInv, CallsTypeOK, Call, NamesInv, AnswersFit, ViewAssumption
<1>3. DOMAIN Rest(k) \subseteq Awaited /\ Awaited \ {k} \subseteq DOMAIN Rest(k)
  BY CallGone
<1>4. ASSUME NEW kinds, k.kind \in kinds, k.claim # selected PROVE Late(kinds)
  BY <1>4 DEF Late
<1>5. ASSUME calls' = Rest(k)
      PROVE  AnswersFit' /\ Awaited \ {k} \subseteq Awaited'
  BY <1>1, <1>2, <1>3, <1>5 DEF AnswersFit, Awaited
<1>6. CASE OnDetail(k)
  <2>1. /\ k.kind = "detail" /\ UNCHANGED <<tab, selected, appRun, timeline, error>>
        /\ detail'.claim = k.claim /\ runId' \in {runId, k.run}
        /\ runId' # runId => k.run # NoRun
    BY <1>6 DEF OnDetail, Render
  <2>2. /\ AnswersFit' /\ Awaited \ {k} \subseteq Awaited'
        /\ Asked("timeline", k.claim) \in Awaited'
    <3>1. calls' = BagAdd(Rest(k), Asked("timeline", k.claim))
      BY <1>6 DEF OnDetail
    <3>2. QED
      BY <1>1, <1>2, <1>3, <3>1, CallAdded
  <2>3. AppFits' /\ ShownMinted'
    BY <1>1, <1>2, <2>1 DEF AppFits, ShownMinted, Minted
  <2>4. CASE k.claim # selected
    <3>1. Late({"detail", "start"}) /\ Late({"detail", "record"})
      BY <1>4, <2>1, <2>4
    <3>2. TimelineFits => TimelineFits'
      BY <2>1, <2>2, <2>4 DEF TimelineFits, OnItsWay
    <3>3. QED
      BY <1>1, <2>2, <2>3, <3>1, <3>2 DEF NamesInv, LateStep
  <2>5. CASE k.claim = selected
    <3>1. RunFits => RunFits'
      BY <1>1, <1>2, <2>1, <2>5 DEF RunFits, Minted
    <3>2. DetailFits'
      BY <2>1, <2>5 DEF DetailFits
    <3>3. TimelineFits'
      BY <2>1, <2>2, <2>5, AskedOf DEF TimelineFits, OnItsWay
    <3>4. QED
      BY <1>1, <2>2, <2>3, <3>1, <3>2, <3>3 DEF NamesInv, LateStep
  <2>6. QED
    BY <2>4, <2>5
<1>7. CASE OnTimeline(k)
  <2>1. k.kind = "timeline" /\ timeline' = k.claim
        /\ UNCHANGED <<tab, selected, appRun, detail, runId, error>>
    BY <1>7 DEF OnTimeline
  <2>2. AnswersFit' /\ Awaited \ {k} \subseteq Awaited'
    BY <1>5, <1>7 DEF OnTimeline
  <2>3. AppFits' /\ ShownMinted' /\ (RunFits => RunFits')
    BY <1>1, <1>2, <2>1 DEF AppFits, RunFits
  <2>4. DetailFits => DetailFits'
    BY <2>1, <2>2 DEF DetailFits, OnItsWay
  <2>5. TimelineFits' \/ Late({"timeline"})
    BY <1>4, <2>1 DEF TimelineFits
  <2>6. QED
    BY <1>1, <2>2, <2>3, <2>4, <2>5 DEF NamesInv, LateStep
<1>8. CASE OnStart(k)
  <2>1. k.kind = "start" /\ runId' = k.run
        /\ UNCHANGED <<tab, selected, appRun, detail, timeline, error>>
    BY <1>8 DEF OnStart, Render
  <2>2. AnswersFit' /\ Awaited \ {k} \subseteq Awaited'
    BY <1>5, <1>8 DEF OnStart
  <2>3. AppFits' /\ ShownMinted'
    BY <1>1, <1>2, <2>1 DEF AppFits, ShownMinted, Minted
  <2>4. RunFits' \/ Late({"detail", "start"})
    BY <1>1, <1>2, <1>4, <2>1 DEF RunFits, Minted
  <2>5. (DetailFits => DetailFits') /\ (TimelineFits => TimelineFits')
    BY <2>1, <2>2 DEF DetailFits, TimelineFits, OnItsWay
  <2>6. QED
    BY <1>1, <2>2, <2>3, <2>4, <2>5 DEF NamesInv, LateStep
<1>9. CASE OnRecorded(k)
  <2>1. k.kind = "record" /\ detail'.claim = k.claim
        /\ UNCHANGED <<tab, selected, appRun, runId, timeline, error>>
    BY <1>9 DEF OnRecorded, Render
  <2>2. AnswersFit' /\ Awaited \ {k} \subseteq Awaited'
    BY <1>5, <1>9 DEF OnRecorded
  <2>3. AppFits' /\ ShownMinted' /\ (RunFits => RunFits')
    BY <1>1, <1>2, <2>1 DEF AppFits, RunFits
  <2>4. DetailFits' \/ Late({"detail", "record"})
    BY <1>4, <2>1 DEF DetailFits
  <2>5. TimelineFits => TimelineFits'
    BY <2>1, <2>2 DEF TimelineFits, OnItsWay
  <2>6. QED
    BY <1>1, <2>2, <2>3, <2>4, <2>5 DEF NamesInv, LateStep
<1>10. CASE OnPrepared(k)
  <2>1. CASE Mount(k.claim, k.run) /\ calls' = WithLoad(Rest(k), k.claim)
    <3>1. selected' = k.claim /\ appRun' = k.run /\ runId' = k.run
      BY <2>1 DEF Mount
    <3>2. AnswersFit' /\ \E j \in Awaited' : j.kind = "detail" /\ j.claim = k.claim
      BY <1>1, <1>2, <1>3, <2>1, LoadAdded
    <3>3. AppFits' /\ ShownMinted' /\ RunFits'
      BY <1>1, <1>2, <3>1 DEF AppFits, ShownMinted, RunFits, Minted
    <3>4. DetailFits' /\ TimelineFits'
      BY <3>1, <3>2 DEF DetailFits, TimelineFits, OnItsWay
    <3>5. QED
      BY <1>1, <3>2, <3>3, <3>4 DEF NamesInv, LateStep
  <2>2. CASE tab = "review"
    <3>1. /\ k.kind = "prepare" /\ selected' = k.claim /\ appRun' = k.run /\ detail' = detail
          /\ runId' = IF k.run \notin {NoRun, appRun} THEN k.run
                      ELSE IF k.claim # selected THEN NoRun ELSE runId
          /\ UNCHANGED <<tab, timeline, error>>
      BY <1>10, <2>2 DEF OnPrepared, Render
    <3>2. /\ AnswersFit'
          /\ k.claim = selected => Awaited \ {k} \subseteq Awaited'
          /\ k.claim # selected => \E j \in Awaited' : j.kind = "detail" /\ j.claim = k.claim
      <4>1. CASE k.claim = selected
        BY <1>5, <1>10, <2>2, <4>1 DEF OnPrepared
      <4>2. CASE k.claim # selected
        <5>1. calls' = WithLoad(Rest(k), k.claim)
          BY <1>10, <2>2, <4>2 DEF OnPrepared
        <5>2. QED
          BY <1>1, <1>2, <1>3, <4>2, <5>1, LoadAdded
      <4>3. QED
        BY <4>1, <4>2
    <3>3. AppFits' /\ ShownMinted'
      BY <1>1, <1>2, <3>1 DEF AppFits, ShownMinted, Minted
    <3>4. RunFits => RunFits'
      BY <1>1, <1>2, <3>1 DEF RunFits, Minted
    <3>5. (DetailFits => DetailFits') /\ (TimelineFits => TimelineFits')
      <4>1. CASE k.claim = selected
        BY <3>1, <3>2, <4>1 DEF DetailFits, TimelineFits, OnItsWay
      <4>2. CASE k.claim # selected
        BY <3>1, <3>2, <4>2 DEF DetailFits, TimelineFits, OnItsWay
      <4>3. QED
        BY <4>1, <4>2
    <3>6. QED
      BY <1>1, <3>2, <3>3, <3>4, <3>5 DEF NamesInv, LateStep
  <2>3. QED
    BY <1>10, <2>1, <2>2 DEF OnPrepared
<1>11. CASE OnRejection(k)
  <2>1. /\ k.kind # "prepare" /\ (error => error') /\ (k.kind # "record" => error')
        /\ UNCHANGED <<tab, selected, appRun, detail, timeline, runId>>
    BY <1>2, <1>11 DEF OnRejection
  <2>2. AnswersFit' /\ Awaited \ {k} \subseteq Awaited'
    BY <1>5, <1>11 DEF OnRejection
  <2>3. AppFits' /\ ShownMinted' /\ (RunFits => RunFits')
    BY <1>1, <1>2, <2>1 DEF AppFits, RunFits
  <2>4. (DetailFits => DetailFits') /\ (TimelineFits => TimelineFits')
    BY <2>1, <2>2 DEF DetailFits, TimelineFits, OnItsWay
  <2>5. QED
    BY <1>1, <2>2, <2>3, <2>4 DEF NamesInv, LateStep
<1>12. QED
  BY <1>6, <1>7, <1>8, <1>9, <1>10, <1>11 DEF Handle

\* Whatever the user does, only an answer to a call for a claim the selection has
\* left puts another claim's Run, detail or timeline on the screen: two details
\* answered in the other order, a start answered after the selection moved on
\* (ReviewView.jsx:24-25, 40-78).  Everything else, a request from an
\* Investigation and the end of a Run included, keeps the screen the selection's.
THEOREM ScreenOnlyMisledByLateAnswers == Spec => OnlyLateAnswersMislead
<1>1. Init => ViewInv /\ NamesInv
  <2> SUFFICES ASSUME Init PROVE ViewInv /\ NamesInv
    OBVIOUS
  <2>1. Awaited = {}
    BY DEF Init, Awaited, EmptyBag, SetToBag
  <2>2. QED
    BY <2>1, ViewInvInit, ViewAssumption
    DEF Init, ServiceInit, NamesInv, ServiceFits, AnswersFit, AppFits, ShownMinted
<1>2. (ViewInv /\ NamesInv) /\ [Next]_vars => (ViewInv /\ NamesInv)' /\ [LateStep]_vars
  <2> SUFFICES ASSUME ViewInv, NamesInv, [Next]_vars
               PROVE  (ViewInv /\ NamesInv)' /\ [LateStep]_vars
    OBVIOUS
  <2>1. ViewInv'
    BY ViewInvStep, ViewAssumption
  <2>2. CASE Next
    BY <2>1, <2>2, UserMisleadsNobody, ServerMisleadsNobody, OnlyLateHandledMislead,
       PollMisleadsNobody, ViewAssumption DEF Next
  <2>3. CASE UNCHANGED vars
    <3>1. ServiceFits' /\ \A r, c : Minted(r, c) <=> Minted(r, c)'
      BY <2>3, StillFits DEF vars
    <3>2. NamesInv'
      BY <2>3, <3>1 DEF vars, viewVars, localVars, serverVars, serviceVars, NamesInv,
         AnswersFit, AppFits, ShownMinted, Awaited
    <3>3. QED
      BY <2>1, <2>3, <3>2
  <2>4. QED
    BY <2>2, <2>3
<1>3. QED
  BY <1>1, <1>2, PTL DEF Spec, OnlyLateAnswersMislead
=============================================================================
