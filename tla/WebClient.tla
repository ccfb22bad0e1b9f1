----------------------------- MODULE WebClient -----------------------------
(***************************************************************************)
(* The Auth Lab of app/web/app.js: the page's session variable, its forms, *)
(* its logout button, and its mirror of the rate limit.  JavaScript runs   *)
(* one callback at a time; between a click and the continuation of its     *)
(* await any other callback runs, and answers come in any order.  A form's *)
(* button is disabled while its request is pending; the logout button is   *)
(* not.  Of the server there is what the page depends on: the refresh      *)
(* tokens it has issued, and those that are still good.                    *)
(***************************************************************************)
EXTENDS Integers

CONSTANTS Tokens,    \* refresh tokens
          Lanes,     \* logouts that can be pending at once
          None,      \* no session, no token
          RlMax,     \* RL_MAX
          RlWindow   \* RL_WINDOW_MS, in ticks

ASSUME WebAssumption ==
    /\ None \notin Tokens
    /\ RlMax \in Nat \ {0}
    /\ RlWindow \in Nat \ {0}

VARIABLES
    session,  \* session.refreshToken
    shown,    \* the session's panel is visible and logoutBtn is enabled
    toast,    \* what the last toast about a logout said
    forms,    \* the request of each form
    logouts,  \* the pending logouts
    issued, live,           \* the server's tokens, and those not revoked
    rlUsed, rlAge,          \* the mirror; rlAge is now - rlWindowStart
    gone,     \* history: tokens whose logout has run to its end on the page
    sent      \* history: the ages of the last submissions, the latest first

vars == <<session, shown, toast, forms, logouts, issued, live, rlUsed, rlAge, gone, sent>>
rl   == <<rlUsed, rlAge, sent>>

Forms == {"register", "login"}

\* A request: on its way, answered with success, answered or ended otherwise.
Pending == [pc : {"idle", "sent", "ok", "failed"}, token : Tokens \union {None}]
Idle    == [pc |-> "idle", token |-> None]

\* Bound of the model: ages past the window are all alike.
Ages == 0..(RlWindow + 1)
Older(age) == IF age > RlWindow THEN age ELSE age + 1

Init ==
    /\ session = None /\ shown = FALSE /\ toast = "none"
    /\ forms = [f \in Forms |-> Idle]
    /\ logouts = [l \in Lanes |-> Idle]
    /\ issued = {} /\ live = {} /\ gone = {}
    /\ rlUsed = 0 /\ rlAge = 0
    /\ sent = [i \in 1..RlMax |-> RlWindow + 1]

-----------------------------------------------------------------------------
(* The mirror of the rate limit.                                           *)

Lesser(a, b) == IF a < b THEN a ELSE b

\* Mutant: only the timer starts a new window.
RlIncrementTrustsTimer ==
    /\ rlUsed' = Lesser(rlUsed + 1, RlMax)
    /\ UNCHANGED rlAge

RlIncrement ==
    LET over == rlAge > RlWindow IN
    /\ rlAge' = IF over THEN 0 ELSE rlAge
    /\ rlUsed' = Lesser((IF over THEN 0 ELSE rlUsed) + 1, RlMax)

\* The callback of the 500 ms interval, which a page in the background gets late.
RlTimer ==
    /\ rlAge >= RlWindow
    /\ rlUsed' = 0 /\ rlAge' = 0
    /\ UNCHANGED <<session, shown, toast, forms, logouts, issued, live, gone, sent>>

Tick ==
    /\ rlAge' = Older(rlAge)
    /\ sent' = [i \in 1..RlMax |-> Older(sent[i])]
    /\ UNCHANGED <<session, shown, toast, forms, logouts, issued, live, rlUsed, gone>>

-----------------------------------------------------------------------------
(* The forms.                                                              *)

Submit(f) ==
    /\ forms[f].pc = "idle"
    /\ forms' = [forms EXCEPT ![f].pc = "sent"]
    /\ RlIncrement
    /\ sent' = [i \in 1..RlMax |-> IF i = 1 THEN 0 ELSE sent[i - 1]]
    /\ UNCHANGED <<session, shown, toast, logouts, issued, live, gone>>

\* The server answers either form with a token pair.
Accept(f) ==
    /\ forms[f].pc = "sent"
    /\ \E t \in Tokens \ issued :
          /\ forms' = [forms EXCEPT ![f] = [pc |-> "ok", token |-> t]]
          /\ issued' = issued \union {t}
          /\ live' = live \union {t}
    /\ UNCHANGED <<session, shown, toast, logouts, gone, rl>>

\* The server refuses or fails, or the connection is lost with its answer.
Fail(f) ==
    /\ forms[f].pc \in {"sent", "ok"}
    /\ forms' = [forms EXCEPT ![f] = [pc |-> "failed", token |-> None]]
    /\ UNCHANGED <<session, shown, toast, logouts, issued, live, gone, rl>>

\* The pair in register's answer is not looked at: the user is to log in.
RegisterAnswered ==
    /\ forms["register"].pc \in {"ok", "failed"}
    /\ forms' = [forms EXCEPT !["register"] = Idle]
    /\ UNCHANGED <<session, shown, toast, logouts, issued, live, gone, rl>>

\* Mutant: the new session is not shown.
LoginAnsweredHidden ==
    /\ forms["login"].pc \in {"ok", "failed"}
    /\ forms' = [forms EXCEPT !["login"] = Idle]
    /\ session' = forms["login"].token
    /\ UNCHANGED <<shown, toast, logouts, issued, live, gone, rl>>

\* Mutant: the button is only enabled again when the login succeeds.
LoginAnsweredWithoutFinally ==
    /\ forms["login"].pc = "ok"
    /\ forms' = [forms EXCEPT !["login"] = Idle]
    /\ session' = forms["login"].token /\ shown' = TRUE
    /\ UNCHANGED <<toast, logouts, issued, live, gone, rl>>

LoginAnswered ==
    /\ forms["login"].pc \in {"ok", "failed"}
    /\ forms' = [forms EXCEPT !["login"] = Idle]
    /\ IF forms["login"].pc = "ok"
       THEN session' = forms["login"].token /\ shown' = TRUE
       ELSE UNCHANGED <<session, shown>>
    /\ UNCHANGED <<toast, logouts, issued, live, gone, rl>>

-----------------------------------------------------------------------------
(* The logout button.                                                      *)

ClearSession == session' = None /\ shown' = FALSE

\* The token is taken from the session when the button is clicked.
ClickLogout(l) ==
    /\ shown /\ logouts[l].pc = "idle"
    /\ logouts' = [logouts EXCEPT ![l] = [pc |-> "sent", token |-> session]]
    /\ UNCHANGED <<session, shown, toast, forms, issued, live, gone, rl>>

\* The server revokes the token and answers 204.
AcceptLogout(l) ==
    /\ logouts[l].pc = "sent"
    /\ logouts' = [logouts EXCEPT ![l].pc = "ok"]
    /\ live' = live \ {logouts[l].token}
    /\ UNCHANGED <<session, shown, toast, forms, issued, gone, rl>>

FailLogout(l) ==
    /\ logouts[l].pc \in {"sent", "ok"}
    /\ logouts' = [logouts EXCEPT ![l].pc = "failed"]
    /\ UNCHANGED <<session, shown, toast, forms, issued, live, gone, rl>>

\* fetchJson returns only if there is a body to parse: the answer of a form has
\* one, a 204 has none.
FetchJsonReturns(q, body) == q.pc = "ok" /\ body

\* Mutant: clearSession is inside the try, after the await.
LogoutAnsweredClearsInTry(l) ==
    /\ logouts[l].pc \in {"ok", "failed"}
    /\ logouts' = [logouts EXCEPT ![l] = Idle]
    /\ gone' = gone \union {logouts[l].token}
    /\ IF FetchJsonReturns(logouts[l], FALSE)
       THEN toast' = "logged out" /\ ClearSession
       ELSE toast' = "server logout failed" /\ UNCHANGED <<session, shown>>
    /\ UNCHANGED <<forms, issued, live, rl>>

\* Mutant: the catch puts back the session that was to be logged out.
LogoutAnsweredRestores(l) ==
    /\ logouts[l].pc \in {"ok", "failed"}
    /\ logouts' = [logouts EXCEPT ![l] = Idle]
    /\ gone' = gone \union {logouts[l].token}
    /\ toast' = "server logout failed"
    /\ session' = logouts[l].token
    /\ shown' = TRUE
    /\ UNCHANGED <<forms, issued, live, rl>>

LogoutAnswered(l) ==
    /\ logouts[l].pc \in {"ok", "failed"}
    /\ logouts' = [logouts EXCEPT ![l] = Idle]
    /\ gone' = gone \union {logouts[l].token}
    /\ toast' = IF FetchJsonReturns(logouts[l], FALSE)
                THEN "logged out" ELSE "server logout failed"
    /\ ClearSession
    /\ UNCHANGED <<forms, issued, live, rl>>

-----------------------------------------------------------------------------
Answer(f) == IF f = "register" THEN RegisterAnswered ELSE LoginAnswered

Next ==
    \/ RlTimer
    \/ Tick
    \/ \E f \in Forms : Submit(f) \/ Accept(f) \/ Fail(f) \/ Answer(f)
    \/ \E l \in Lanes :
          ClickLogout(l) \/ AcceptLogout(l) \/ FailLogout(l) \/ LogoutAnswered(l)

Spec == Init /\ [][Next]_vars

\* Each fetch is answered or fails in the end, and its continuation then runs.
Fairness ==
    /\ \A f \in Forms : WF_vars(Accept(f) \/ Fail(f)) /\ WF_vars(Answer(f))
    /\ \A l \in Lanes :
          /\ WF_vars(AcceptLogout(l) \/ FailLogout(l))
          /\ WF_vars(LogoutAnswered(l))

LiveSpec == Spec /\ Fairness

-----------------------------------------------------------------------------
(* What the page promises.                                                 *)

\* Every variable keeps its type, and the page shows a session when it has one.
TypeOK ==
    /\ session \in Tokens \union {None} /\ shown = (session # None)
    /\ toast \in {"none", "logged out", "server logout failed"}
    /\ forms \in [Forms -> Pending] /\ logouts \in [Lanes -> Pending]
    /\ live \subseteq issued /\ issued \subseteq Tokens /\ gone \subseteq issued
    /\ rlUsed \in 0..RlMax /\ rlAge \in Ages /\ sent \in [1..RlMax -> Ages]

\* However logins and several logouts overlap, the page only shows as signed in
\* a session the server has not revoked, or one whose logout the page is still
\* waiting for.  (Sessions do not expire here; AuthSessions has their clock.)
ShownSessionIsLive ==
    session # None =>
        \/ session \in live
        \/ \E l \in Lanes : logouts[l].pc # "idle" /\ logouts[l].token = session

\* Once the logout of a session has run to its end, in whatever way it ended,
\* that session never comes back on the page.
LoggedOutStaysForgotten == session \notin gone

\* When a submission moves the bar, the bar counts only submissions of the last
\* RL_WINDOW_MS, although its two resets, the timer's and rlIncrement's, race.
BarCountsItsWindow ==
    [][\A f \in Forms :
          forms[f].pc = "idle" /\ forms'[f].pc = "sent" => sent'[rlUsed'] <= RlWindow]_vars

\* A form can be used again in the end, whatever became of its request.
FormsComeBack == \A f \in Forms : forms[f].pc # "idle" ~> forms[f].pc = "idle"

-----------------------------------------------------------------------------
(* What app.js says of itself, and does not do.                            *)

\* app.js:278-280: a logout the server has done is reported as successful, and
\* "Server logout failed" means that it was not.
ToastTellsTheAnswer ==
    [][\A l \in Lanes :
          logouts[l].pc = "ok" /\ logouts'[l].pc = "idle" => toast' = "logged out"]_vars
=============================================================================
