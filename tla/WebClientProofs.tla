--------------------------- MODULE WebClientProofs ---------------------------
(***************************************************************************)
(* What WebClient guarantees for every number of tokens and of pending     *)
(* logouts, every limit and every window.  A session on the page is in     *)
(* danger from the answers still on their way; so the invariant says what  *)
(* those may hold: a login's token is one nobody else has seen, and a      *)
(* logout that has revoked the page's session is still to be answered.     *)
(***************************************************************************)
EXTENDS WebClient, TLAPS

\* The token of an answered form is good, and no one else's yet.
AnswersAreNew ==
    \A f \in Forms :
        forms[f].pc = "ok" =>
            /\ forms[f].token \in live
            /\ forms[f].token # session /\ forms[f].token \notin gone
            /\ \A l \in Lanes : logouts[l].token # forms[f].token
            /\ \A g \in Forms \ {f} : forms[g].pc = "ok" => forms[g].token # forms[f].token

\* What a logout carries is a token the server has issued.
LogoutsCarryIssued ==
    \A l \in Lanes :
        /\ logouts[l].pc = "idle" => logouts[l].token = None
        /\ logouts[l].pc # "idle" => logouts[l].token \in issued

\* Every submission on the bar is as young as the bar's window.
BarInWindow == \A i \in 1..RlMax : i <= rlUsed => sent[i] <= rlAge

IInv ==
    /\ TypeOK
    /\ (session # None => session \in issued)
    /\ AnswersAreNew
    /\ LogoutsCarryIssued
    /\ ShownSessionIsLive
    /\ LoggedOutStaysForgotten
    /\ BarInWindow

page == <<session, shown, toast, forms, logouts, issued, live, gone>>

\* The variables but those of the bar.
PageOK ==
    /\ session \in Tokens \union {None} /\ shown = (session # None)
    /\ toast \in {"none", "logged out", "server logout failed"}
    /\ forms \in [Forms -> Pending] /\ logouts \in [Lanes -> Pending]
    /\ live \subseteq issued /\ issued \subseteq Tokens /\ gone \subseteq issued
    /\ (session # None => session \in issued)
    /\ AnswersAreNew
    /\ LogoutsCarryIssued
    /\ ShownSessionIsLive
    /\ LoggedOutStaysForgotten

BarOK ==
    /\ rlUsed \in 0..RlMax /\ rlAge \in Ages /\ sent \in [1..RlMax -> Ages]
    /\ BarInWindow

LEMMA Halves == IInv <=> PageOK /\ BarOK
BY DEF IInv, TypeOK, PageOK, BarOK

LEMMA Quiet == ASSUME PageOK, UNCHANGED page PROVE PageOK'
BY DEF PageOK, page, AnswersAreNew, LogoutsCarryIssued, ShownSessionIsLive,
       LoggedOutStaysForgotten

LEMMA OlderAges ==
    ASSUME NEW a \in Ages
    PROVE  /\ Older(a) \in Ages /\ a <= Older(a)
           /\ \A b \in Ages : a <= b => Older(a) <= Older(b)
BY WebAssumption DEF Ages, Older

LEMMA TickBar == ASSUME BarOK, Tick PROVE BarOK'
<1>1. /\ rlAge' = Older(rlAge) /\ rlUsed' = rlUsed
      /\ sent' = [i \in 1..RlMax |-> Older(sent[i])]
  BY DEF Tick
<1>2. rlAge' \in Ages /\ sent' \in [1..RlMax -> Ages]
  BY <1>1, OlderAges DEF BarOK
<1>3. BarInWindow'
  BY <1>1, OlderAges DEF BarOK, BarInWindow
<1> QED BY <1>1, <1>2, <1>3 DEF BarOK

LEMMA TimerBar == ASSUME BarOK, RlTimer PROVE BarOK'
<1>1. rlUsed' = 0 /\ rlAge' = 0 /\ sent' = sent
  BY DEF RlTimer
<1>2. rlUsed' \in 0..RlMax /\ rlAge' \in Ages
  BY <1>1, WebAssumption DEF Ages
<1>3. BarInWindow'
  BY <1>1 DEF BarInWindow
<1> QED BY <1>1, <1>2, <1>3 DEF BarOK

\* A submission: the bar is young enough, whichever reset came first.
LEMMA SubmitBar ==
    ASSUME BarOK, NEW f \in Forms, Submit(f)
    PROVE  BarOK' /\ sent'[rlUsed'] <= RlWindow
<1>1. /\ RlWindow \in Nat \ {0} /\ RlMax \in Nat \ {0}
      /\ rlUsed \in 0..RlMax /\ rlAge \in Ages /\ sent \in [1..RlMax -> Ages]
  BY WebAssumption DEF BarOK
<1>2. PICK used \in 0..RlMax, age \in Ages :
         /\ age <= RlWindow
         /\ \A i \in 1..RlMax : i <= used => sent[i] <= age
         /\ rlAge' = age /\ rlUsed' = Lesser(used + 1, RlMax)
  <2>1. CASE rlAge > RlWindow
    <3>1. rlAge' = 0 /\ rlUsed' = Lesser(0 + 1, RlMax)
      BY <2>1 DEF Submit, RlIncrement
    <3>2. 0 \in 0..RlMax /\ 0 \in Ages /\ 0 <= RlWindow
          /\ \A i \in 1..RlMax : i <= 0 => sent[i] <= 0
      BY <1>1 DEF Ages
    <3> QED BY <3>1, <3>2
  <2>2. CASE ~(rlAge > RlWindow)
    <3>1. rlAge' = rlAge /\ rlUsed' = Lesser(rlUsed + 1, RlMax)
      BY <2>2 DEF Submit, RlIncrement
    <3>2. rlAge <= RlWindow
      BY <1>1, <2>2 DEF Ages
    <3> QED BY <1>1, <3>1, <3>2 DEF BarOK, BarInWindow
  <2> QED BY <2>1, <2>2
<1>3. sent' = [i \in 1..RlMax |-> IF i = 1 THEN 0 ELSE sent[i - 1]]
  BY DEF Submit
<1>4. rlUsed' \in 1..RlMax /\ rlUsed' <= used + 1
  BY <1>1, <1>2 DEF Lesser
<1>5. ASSUME NEW i \in 1..RlMax
      PROVE  sent'[i] \in Ages /\ (i <= rlUsed' => sent'[i] <= age)
  <2>1. CASE i = 1
    BY <1>1, <1>2, <1>3, <2>1 DEF Ages
  <2>2. CASE i # 1
    <3>1. i - 1 \in 1..RlMax /\ sent'[i] = sent[i - 1]
      BY <1>1, <1>3, <2>2
    <3>2. i <= rlUsed' => i - 1 <= used
      BY <1>1, <1>2, <1>4
    <3> QED BY <1>1, <1>2, <3>1, <3>2
  <2> QED BY <2>1, <2>2
<1>6. sent' \in [1..RlMax -> Ages]
  BY <1>3, <1>5
<1>7. BarInWindow'
  BY <1>2, <1>5 DEF BarInWindow
<1>8. BarOK'
  BY <1>1, <1>2, <1>4, <1>6, <1>7 DEF BarOK
<1>9. sent'[rlUsed'] <= RlWindow
  BY <1>1, <1>2, <1>4, <1>5 DEF Ages
<1> QED BY <1>8, <1>9

\* What PageOK says of one moment, taken apart.
LEMMA PageFacts ==
    ASSUME PageOK
    PROVE  /\ forms \in [Forms -> Pending] /\ logouts \in [Lanes -> Pending]
           /\ live \subseteq issued /\ issued \subseteq Tokens /\ gone \subseteq issued
           /\ session # None => session \in issued
           /\ None \notin Tokens
BY WebAssumption DEF PageOK

\* A form goes on, and holds no answer afterwards.
LEMMA FormStep ==
    ASSUME PageOK, NEW f \in Forms, NEW q \in Pending, q.pc # "ok",
           forms' = [forms EXCEPT ![f] = q],
           UNCHANGED <<session, shown, toast, logouts, issued, live, gone>>
    PROVE  PageOK'
<1>1. /\ forms' \in [Forms -> Pending] /\ forms'[f] = q
      /\ \A g \in Forms \ {f} : forms'[g] = forms[g]
  BY PageFacts
<1>2. AnswersAreNew'
  BY <1>1 DEF PageOK, AnswersAreNew
<1> QED BY <1>1, <1>2 DEF PageOK, LogoutsCarryIssued, ShownSessionIsLive, LoggedOutStaysForgotten

LEMMA IdleIsPending == Idle \in Pending /\ Idle.pc = "idle" /\ Idle.token = None
BY DEF Idle, Pending

LEMMA SubmitPage == ASSUME PageOK, NEW f \in Forms, Submit(f) PROVE PageOK'
<1>1. PICK q : q = [forms[f] EXCEPT !.pc = "sent"]
  OBVIOUS
<1>2. q \in Pending /\ q.pc # "ok"
  BY <1>1, PageFacts DEF Pending
<1>3. /\ forms' = [forms EXCEPT ![f] = q]
      /\ UNCHANGED <<session, shown, toast, logouts, issued, live, gone>>
  BY <1>1 DEF Submit
<1> QED BY <1>2, <1>3, FormStep

LEMMA FailPage == ASSUME PageOK, NEW f \in Forms, Fail(f) PROVE PageOK'
<1>1. PICK q : q = [pc |-> "failed", token |-> None]
  OBVIOUS
<1>2. q \in Pending /\ q.pc # "ok"
  BY <1>1 DEF Pending
<1>3. /\ forms' = [forms EXCEPT ![f] = q]
      /\ UNCHANGED <<session, shown, toast, logouts, issued, live, gone>>
  BY <1>1 DEF Fail
<1> QED BY <1>2, <1>3, FormStep

LEMMA AcceptPage == ASSUME PageOK, NEW f \in Forms, Accept(f) PROVE PageOK'
<1>1. PICK t \in Tokens \ issued :
         /\ forms' = [forms EXCEPT ![f] = [pc |-> "ok", token |-> t]]
         /\ issued' = issued \union {t} /\ live' = live \union {t}
  BY DEF Accept
<1>2. UNCHANGED <<session, shown, toast, logouts, gone>>
  BY DEF Accept
<1>3. [pc |-> "ok", token |-> t] \in Pending
  BY DEF Pending
<1>4. /\ forms' \in [Forms -> Pending]
      /\ forms'[f].pc = "ok" /\ forms'[f].token = t
      /\ \A g \in Forms \ {f} : forms'[g] = forms[g]
  BY <1>1, <1>3, PageFacts
<1>5. live' \subseteq issued' /\ issued' \subseteq Tokens /\ gone' \subseteq issued'
  BY <1>1, <1>2, PageFacts
<1>6. t # session /\ t \notin gone /\ \A l \in Lanes : logouts[l].token # t
  BY <1>1, PageFacts DEF PageOK, LogoutsCarryIssued
<1>7. \A g \in Forms : forms[g].pc = "ok" => forms[g].token # t
  BY <1>1, PageFacts DEF PageOK, AnswersAreNew
<1>8. AnswersAreNew'
  BY <1>1, <1>2, <1>4, <1>6, <1>7 DEF PageOK, AnswersAreNew
<1>9. LogoutsCarryIssued'
  BY <1>1, <1>2 DEF PageOK, LogoutsCarryIssued
<1>10. ShownSessionIsLive' /\ LoggedOutStaysForgotten'
  BY <1>1, <1>2 DEF PageOK, ShownSessionIsLive, LoggedOutStaysForgotten
<1> QED BY <1>1, <1>2, <1>4, <1>5, <1>8, <1>9, <1>10 DEF PageOK

LEMMA AnswerPage == ASSUME PageOK, NEW f \in Forms, Answer(f) PROVE PageOK'
<1>1. CASE RegisterAnswered
  BY <1>1, FormStep, IdleIsPending DEF RegisterAnswered, Forms
<1>2. CASE LoginAnswered /\ forms["login"].pc # "ok"
  BY <1>2, FormStep, IdleIsPending DEF LoginAnswered, Forms
<1>3. CASE LoginAnswered /\ forms["login"].pc = "ok"
  <2>1. PICK t : t = forms["login"].token
    OBVIOUS
  <2>2. /\ forms' = [forms EXCEPT !["login"] = Idle] /\ session' = t /\ shown' = TRUE
        /\ UNCHANGED <<toast, logouts, issued, live, gone>>
    BY <1>3, <2>1 DEF LoginAnswered
  <2>3. /\ t \in live /\ t # None /\ t \notin gone
        /\ \A g \in Forms \ {"login"} : forms[g].pc = "ok" => forms[g].token # t
    BY <1>3, <2>1, PageFacts DEF PageOK, AnswersAreNew, Forms
  <2>4. /\ forms' \in [Forms -> Pending] /\ forms'["login"].pc = "idle"
        /\ \A g \in Forms \ {"login"} : forms'[g] = forms[g]
    BY <2>2, IdleIsPending, PageFacts DEF Forms
  <2>5. AnswersAreNew'
    BY <2>2, <2>3, <2>4 DEF PageOK, AnswersAreNew
  <2>6. session' \in Tokens \union {None} /\ shown' = (session' # None) /\ session' \in issued'
    BY <2>2, <2>3, PageFacts
  <2>7. ShownSessionIsLive' /\ LoggedOutStaysForgotten' /\ LogoutsCarryIssued'
    BY <2>2, <2>3 DEF PageOK, ShownSessionIsLive, LoggedOutStaysForgotten, LogoutsCarryIssued
  <2> QED BY <2>2, <2>4, <2>5, <2>6, <2>7 DEF PageOK
<1> QED BY <1>1, <1>2, <1>3 DEF Answer

LEMMA ClickPage == ASSUME PageOK, NEW l \in Lanes, ClickLogout(l) PROVE PageOK'
<1>1. /\ logouts' = [logouts EXCEPT ![l] = [pc |-> "sent", token |-> session]]
      /\ UNCHANGED <<session, shown, toast, forms, issued, live, gone>>
      /\ session # None /\ session \in issued /\ session \in Tokens
  BY PageFacts DEF ClickLogout, PageOK
<1>2. [pc |-> "sent", token |-> session] \in Pending
  BY <1>1 DEF Pending
<1>3. /\ logouts' \in [Lanes -> Pending]
      /\ logouts'[l].pc = "sent" /\ logouts'[l].token = session
      /\ \A o \in Lanes \ {l} : logouts'[o] = logouts[o]
  BY <1>1, <1>2, PageFacts
<1>4. AnswersAreNew'
  BY <1>1, <1>3 DEF PageOK, AnswersAreNew
<1>5. LogoutsCarryIssued'
  BY <1>1, <1>3 DEF PageOK, LogoutsCarryIssued
<1>6. ShownSessionIsLive' /\ LoggedOutStaysForgotten'
  BY <1>1, <1>3 DEF PageOK, ShownSessionIsLive, LoggedOutStaysForgotten
<1> QED BY <1>1, <1>3, <1>4, <1>5, <1>6 DEF PageOK

\* A pending logout learns of its end: its token may be revoked by now.
LEMMA LogoutPending ==
    ASSUME PageOK, NEW l \in Lanes, logouts[l].pc # "idle",
           logouts' \in [Lanes -> Pending],
           \A o \in Lanes : /\ logouts'[o].token = logouts[o].token
                            /\ logouts'[o].pc = "idle" <=> logouts[o].pc = "idle",
           live' \subseteq live,
           \A x \in live : x # logouts[l].token => x \in live',
           UNCHANGED <<session, shown, toast, forms, issued, gone>>
    PROVE  PageOK'
<1>1. AnswersAreNew'
  BY DEF PageOK, AnswersAreNew
<1>2. LogoutsCarryIssued'
  BY DEF PageOK, LogoutsCarryIssued
<1>3. ShownSessionIsLive' /\ LoggedOutStaysForgotten'
  BY DEF PageOK, ShownSessionIsLive, LoggedOutStaysForgotten
<1>4. live' \subseteq issued'
  BY PageFacts
<1> QED BY <1>1, <1>2, <1>3, <1>4 DEF PageOK

LEMMA LogoutMoves ==
    ASSUME PageOK, NEW l \in Lanes, NEW pc \in {"ok", "failed"}, logouts[l].pc # "idle",
           logouts' = [logouts EXCEPT ![l].pc = pc]
    PROVE  /\ logouts' \in [Lanes -> Pending]
           /\ \A o \in Lanes : /\ logouts'[o].token = logouts[o].token
                               /\ logouts'[o].pc = "idle" <=> logouts[o].pc = "idle"
BY PageFacts DEF Pending

LEMMA AcceptLogoutPage == ASSUME PageOK, NEW l \in Lanes, AcceptLogout(l) PROVE PageOK'
<1>1. /\ logouts[l].pc # "idle" /\ logouts' = [logouts EXCEPT ![l].pc = "ok"]
      /\ live' = live \ {logouts[l].token}
      /\ UNCHANGED <<session, shown, toast, forms, issued, gone>>
  BY DEF AcceptLogout
<1>2. live' \subseteq live /\ \A x \in live : x # logouts[l].token => x \in live'
  BY <1>1
<1> QED BY <1>1, <1>2, LogoutMoves, LogoutPending

LEMMA FailLogoutPage == ASSUME PageOK, NEW l \in Lanes, FailLogout(l) PROVE PageOK'
<1>1. /\ logouts[l].pc # "idle" /\ logouts' = [logouts EXCEPT ![l].pc = "failed"]
      /\ live' = live
      /\ UNCHANGED <<session, shown, toast, forms, issued, gone>>
  BY DEF FailLogout
<1> QED BY <1>1, LogoutMoves, LogoutPending

LEMMA LogoutAnsweredPage == ASSUME PageOK, NEW l \in Lanes, LogoutAnswered(l) PROVE PageOK'
<1>1. PICK t : t = logouts[l].token
  OBVIOUS
<1>2. /\ logouts' = [logouts EXCEPT ![l] = Idle] /\ gone' = gone \union {t}
      /\ toast' \in {"logged out", "server logout failed"}
      /\ session' = None /\ shown' = FALSE
      /\ UNCHANGED <<forms, issued, live>>
  BY <1>1 DEF LogoutAnswered, ClearSession
<1>3. t \in issued
  BY <1>1 DEF LogoutAnswered, PageOK, LogoutsCarryIssued
<1>4. /\ logouts' \in [Lanes -> Pending]
      /\ logouts'[l].pc = "idle" /\ logouts'[l].token = None
      /\ \A o \in Lanes \ {l} : logouts'[o] = logouts[o]
  BY <1>2, IdleIsPending, PageFacts
<1>5. \A f \in Forms : forms[f].pc = "ok" => forms[f].token # None
  BY PageFacts DEF PageOK, AnswersAreNew
<1>6. AnswersAreNew'
  BY <1>1, <1>2, <1>4, <1>5 DEF PageOK, AnswersAreNew
<1>7. LogoutsCarryIssued'
  BY <1>2, <1>4 DEF PageOK, LogoutsCarryIssued
<1>8. ShownSessionIsLive' /\ LoggedOutStaysForgotten'
  BY <1>2, <1>3, PageFacts DEF ShownSessionIsLive, LoggedOutStaysForgotten
<1>9. gone' \subseteq issued'
  BY <1>2, <1>3, PageFacts
<1> QED BY <1>2, <1>4, <1>6, <1>7, <1>8, <1>9 DEF PageOK

LEMMA InitHolds == Init => IInv
<1> SUFFICES ASSUME Init PROVE PageOK /\ BarOK
  BY Halves
<1>1. forms \in [Forms -> Pending] /\ logouts \in [Lanes -> Pending]
  BY IdleIsPending DEF Init
<1>2. \A f \in Forms : forms[f].pc = "idle"
  BY IdleIsPending DEF Init
<1>3. \A l \in Lanes : logouts[l].pc = "idle" /\ logouts[l].token = None
  BY IdleIsPending DEF Init
<1>4. PageOK
  BY <1>1, <1>2, <1>3
     DEF Init, PageOK, AnswersAreNew, LogoutsCarryIssued, ShownSessionIsLive,
         LoggedOutStaysForgotten
<1>5. BarOK
  BY WebAssumption DEF Init, BarOK, BarInWindow, Ages
<1> QED BY <1>4, <1>5

LEMMA Invariance == Spec => []IInv
<1>1. IInv /\ [Next]_vars => IInv'
  <2>0. IInv' <=> PageOK' /\ BarOK'
    BY DEF IInv, TypeOK, PageOK, BarOK
  <2> SUFFICES ASSUME PageOK, BarOK, [Next]_vars PROVE PageOK' /\ BarOK'
    BY <2>0, Halves
  <2>1. CASE RlTimer
    BY <2>1, TimerBar, Quiet DEF RlTimer, page
  <2>2. CASE Tick
    BY <2>2, TickBar, Quiet DEF Tick, page
  <2>3. ASSUME UNCHANGED rl PROVE BarOK'
    BY <2>3 DEF rl, BarOK, BarInWindow
  <2>4. CASE \E f \in Forms : Submit(f)
    BY <2>4, SubmitBar, SubmitPage
  <2>5. CASE \E f \in Forms : Accept(f)
    BY <2>3, <2>5, AcceptPage DEF Accept
  <2>6. CASE \E f \in Forms : Fail(f)
    BY <2>3, <2>6, FailPage DEF Fail
  <2>7. CASE \E f \in Forms : Answer(f)
    BY <2>3, <2>7, AnswerPage DEF Answer, RegisterAnswered, LoginAnswered
  <2>8. CASE \E l \in Lanes : ClickLogout(l)
    BY <2>3, <2>8, ClickPage DEF ClickLogout
  <2>9. CASE \E l \in Lanes : AcceptLogout(l)
    BY <2>3, <2>9, AcceptLogoutPage DEF AcceptLogout
  <2>10. CASE \E l \in Lanes : FailLogout(l)
    BY <2>3, <2>10, FailLogoutPage DEF FailLogout
  <2>11. CASE \E l \in Lanes : LogoutAnswered(l)
    BY <2>3, <2>11, LogoutAnsweredPage DEF LogoutAnswered
  <2>12. CASE UNCHANGED vars
    BY <2>3, <2>12, Quiet DEF vars, page, rl
  <2> QED BY <2>1, <2>2, <2>4, <2>5, <2>6, <2>7, <2>8, <2>9, <2>10, <2>11, <2>12 DEF Next
<1> QED BY InitHolds, <1>1, PTL DEF Spec

\* The page's variables keep their types, and the panel of a session is visible
\* exactly when there is one (app.js:212-218, 250-266).
THEOREM PageTypeCorrect == Spec => []TypeOK
<1>1. IInv => TypeOK
  BY DEF IInv
<1> QED BY Invariance, <1>1, PTL

\* However many logouts and logins overlap, the page shows no revoked session but
\* one whose logout it is still waiting for.
THEOREM ShownIsLive == Spec => []ShownSessionIsLive
<1>1. IInv => ShownSessionIsLive
  BY DEF IInv
<1> QED BY Invariance, <1>1, PTL

\* A session whose logout has run to its end never comes back on the page.
THEOREM LogoutsAreForGood == Spec => []LoggedOutStaysForgotten
<1>1. IInv => LoggedOutStaysForgotten
  BY DEF IInv
<1> QED BY Invariance, <1>1, PTL

\* A submission finds a bar of one window, whichever of the two resets was first.
THEOREM BarIsOfItsWindow == Spec => BarCountsItsWindow
<1> DEFINE Young == \A f \in Forms :
                       forms[f].pc = "idle" /\ forms'[f].pc = "sent" => sent'[rlUsed'] <= RlWindow
<1>1. ASSUME IInv, Next, NEW f \in Forms, forms[f].pc = "idle", forms'[f].pc = "sent"
      PROVE  sent'[rlUsed'] <= RlWindow
  <2>1. forms \in [Forms -> Pending] /\ BarOK
    BY <1>1, Halves DEF PageOK
  <2>2. CASE \E g \in Forms : Submit(g)
    BY <2>1, <2>2, SubmitBar
  <2>3. CASE UNCHANGED forms
    BY <1>1, <2>3
  <2>4. CASE \E g \in Forms : Accept(g)
    BY <1>1, <2>1, <2>4 DEF Accept
  <2>5. CASE \E g \in Forms : Fail(g)
    BY <1>1, <2>1, <2>5 DEF Fail
  <2>6. CASE \E g \in Forms : Answer(g)
    BY <1>1, <2>1, <2>6, IdleIsPending DEF Answer, RegisterAnswered, LoginAnswered
  <2> QED BY <1>1, <2>2, <2>3, <2>4, <2>5, <2>6
        DEF Next, RlTimer, Tick, ClickLogout, AcceptLogout, FailLogout, LogoutAnswered
<1>2. IInv /\ [Next]_vars => [Young]_vars
  BY <1>1
<1> QED BY Invariance, <1>2, PTL DEF Spec, BarCountsItsWindow
=============================================================================
