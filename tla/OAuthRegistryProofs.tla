------------------------- MODULE OAuthRegistryProofs -------------------------
(***************************************************************************)
(* The two callbacks of OAuthAccounts implement IdentityRegistry, for      *)
(* every number of callbacks, users, addresses, providers and states.      *)
(*                                                                         *)
(* The registry knows tickets where the code has lanes, so that the        *)
(* mapping is only right if no two lanes ever hold the same state.  IInv   *)
(* does not say so, Apart does.                                            *)
(***************************************************************************)
EXTENDS OAuthAccountsProofs

\* The states that callbacks hold are their own.
Apart ==
    /\ \A r \in Requests : req[r].pc = "idle" => req[r].state = None
    /\ \A r, x \in Requests :
          req[r].pc # "idle" /\ req[x].state = req[r].state => x = r

-----------------------------------------------------------------------------
(* How a callback goes on.                                                 *)

\* It goes on with its state, in one of pcs, still or for the first time
\* knowing the identity i.
Onward(r, pcs, i) ==
    \E q \in Req : /\ To(r, q) /\ q.pc \in pcs
                   /\ q.state = req[r].state /\ q.identity = i

LEMMA IdentifyStep ==
    ASSUME IInv, NEW r \in Requests, Identify(r)
    PROVE  /\ At(r, "provider")
           /\ \E i \in Identity : Onward(r, {"find_account", "link_load"}, i)
<1>1. req[r] \in Req /\ LaneOK(req[r]) /\ At(r, "provider")
  BY DEF IInv, TypeOK, Identify
<1>2. PICK x \in Subjects, f \in GitHubProfiles \union GoogleProfiles :
          To(r, [req[r] EXCEPT
                    !.pc = IF req[r].flow = "login" THEN "find_account" ELSE "link_load",
                    !.identity = [provider |-> req[r].provider, subject |-> x],
                    !.email = f.email, !.vouched = f.vouched, !.proved = f.proved])
  BY DEF Identify
<1> DEFINE pc == IF req[r].flow = "login" THEN "find_account" ELSE "link_load"
           i  == [provider |-> req[r].provider, subject |-> x]
           p1 == [req[r] EXCEPT !.pc = pc]
           p2 == [p1 EXCEPT !.identity = i]
           p3 == [p2 EXCEPT !.email = f.email]
           p4 == [p3 EXCEPT !.vouched = f.vouched]
           q  == [p4 EXCEPT !.proved = f.proved]
<1>3. To(r, q)
  BY <1>2
<1>4. i \in Identity
  BY <1>1 DEF At, LaneOK, LaneShape, Identity
<1>5. pc \in PCs /\ pc \in {"find_account", "link_load"}
  BY DEF PCs
<1> HIDE DEF pc, i
<1>6. p1 \in Req /\ p1.pc = pc /\ p1.state = req[r].state
  BY <1>1, <1>5 DEF Req
<1> HIDE DEF p1
<1>7. p2 \in Req /\ p2.pc = pc /\ p2.state = req[r].state /\ p2.identity = i
  BY <1>4, <1>6 DEF Req
<1> HIDE DEF p2
<1>8. p3 \in Req /\ p3.pc = pc /\ p3.state = req[r].state /\ p3.identity = i
  BY <1>7, ProfileFields DEF Req
<1> HIDE DEF p3
<1>9. p4 \in Req /\ p4.pc = pc /\ p4.state = req[r].state /\ p4.identity = i
  BY <1>8, ProfileFields DEF Req
<1> HIDE DEF p4
<1>10. q \in Req /\ q.pc = pc /\ q.state = req[r].state /\ q.identity = i
  BY <1>9, ProfileFields DEF Req
<1> HIDE DEF q
<1>11. Onward(r, {"find_account", "link_load"}, i)
  BY <1>3, <1>5, <1>10 DEF Onward
<1>12. QED
  BY <1>1, <1>4, <1>11

LEMMA OnwardWith ==
    ASSUME NEW r \in Requests, NEW pc, NEW q \in Req, q.pc = pc,
           SameHold(q, req[r]), To(r, q)
    PROVE  Onward(r, {pc}, req[r].identity)
BY DEF Onward, SameHold

LEMMA FindAccountStep ==
    ASSUME IInv, NEW r \in Requests, FindAccount(r)
    PROVE  /\ At(r, "find_account")
           /\ \/ /\ accounts[req[r].identity] # None
                 /\ Onward(r, {"load_user"}, req[r].identity)
              \/ Onward(r, {"find_email"}, req[r].identity)
<1> DEFINE u == accounts[req[r].identity]
<1>1. req[r] \in Req /\ LaneOK(req[r]) /\ At(r, "find_account")
  BY DEF IInv, TypeOK, FindAccount
<1>2. CASE u # None
  <2> DEFINE q == GotoUser(req[r], "load_user", u)
  <2>1. u \in UserIds
    BY <1>1, <1>2 DEF At, LaneOK, LaneShape, LoginPCs, IInv, TypeOK
  <2>2. To(r, q)
    BY <1>2 DEF FindAccount, GotoUser
  <2> HIDE DEF u
  <2>3. q \in Req /\ q.pc = "load_user" /\ SameHold(q, req[r])
    BY <1>1, <2>1, GotoUserFields DEF PCs
  <2> HIDE DEF q
  <2>4. Onward(r, {"load_user"}, req[r].identity)
    BY <2>2, <2>3, OnwardWith
  <2>5. QED
    BY <1>1, <1>2, <2>4 DEF u
<1>3. CASE u = None
  <2> DEFINE q == Goto(req[r], "find_email")
  <2>1. q \in Req /\ q.pc = "find_email" /\ SameHold(q, req[r])
    BY <1>1, GotoFields DEF PCs
  <2>2. To(r, q)
    BY <1>3 DEF FindAccount
  <2> HIDE DEF q
  <2>3. QED
    BY <1>1, <2>1, <2>2, OnwardWith
<1>4. QED
  BY <1>2, <1>3

LEMMA LoadUserStep ==
    ASSUME IInv, NEW r \in Requests, LoadUser(r)
    PROVE  At(r, "load_user") /\ Onward(r, {"save_profile"}, req[r].identity)
<1> DEFINE seen == users[req[r].user].verified
           q == GotoSeen(req[r], "save_profile", seen)
<1>1. req[r] \in Req /\ LaneOK(req[r]) /\ At(r, "load_user")
  BY DEF IInv, TypeOK, LoadUser
<1>2. /\ req[r].user \in UserIds /\ req[r].identity \in Identity
      /\ accounts[req[r].identity] = req[r].user
  BY <1>1 DEF At, LaneOK, LaneShape, LaneFacts, LoginPCs
<1>3. users[req[r].user] \in UserRow
  BY <1>2, OAuthAssumption DEF IInv, TypeOK, ForeignKey
<1>4. seen \in BOOLEAN
  BY <1>3 DEF UserRow
<1>5. To(r, q)
  BY DEF LoadUser, GotoSeen
<1> HIDE DEF seen
<1>6. "save_profile" \in PCs
  BY DEF PCs
<1>7. q \in Req /\ q.pc = "save_profile" /\ SameHold(q, req[r])
  BY <1>1, <1>4, <1>6, GotoSeenFields, Zenon
<1> HIDE DEF q
<1>8. QED
  BY <1>1, <1>5, <1>7, OnwardWith

LEMMA SaveProfileStep ==
    ASSUME IInv, NEW r \in Requests, SaveProfile(r)
    PROVE  At(r, "save_profile") /\ Onward(r, {"pair"}, req[r].identity)
<1> DEFINE q == Goto(req[r], "pair")
<1>1. req[r] \in Req /\ At(r, "save_profile") /\ To(r, q)
  BY DEF IInv, TypeOK, SaveProfile
<1>2. q \in Req /\ q.pc = "pair" /\ SameHold(q, req[r])
  BY <1>1, GotoFields DEF PCs
<1> HIDE DEF q
<1>3. QED
  BY <1>1, <1>2, OnwardWith

LEMMA FindEmailStep ==
    ASSUME IInv, NEW r \in Requests, FindEmail(r)
    PROVE  At(r, "find_email") /\ (Leave(r) \/ Onward(r, {"create"}, req[r].identity))
<1> DEFINE q == Goto(req[r], "create")
<1>1. req[r] \in Req /\ At(r, "find_email") /\ (Leave(r) \/ To(r, q))
  BY DEF IInv, TypeOK, FindEmail
<1>2. q \in Req /\ q.pc = "create" /\ SameHold(q, req[r])
  BY <1>1, GotoFields DEF PCs
<1> HIDE DEF q
<1>3. QED
  BY <1>1, <1>2, OnwardWith

LEMMA LinkLoadStep ==
    ASSUME IInv, NEW r \in Requests, LinkLoad(r)
    PROVE  At(r, "link_load") /\ (Leave(r) \/ Onward(r, {"link_email"}, req[r].identity))
<1> DEFINE seen == users[req[r].user].verified
           q == GotoSeen(req[r], "link_email", seen)
<1>1. req[r] \in Req /\ LaneOK(req[r]) /\ At(r, "link_load")
  BY DEF IInv, TypeOK, LinkLoad
<1>2. CASE req[r].user = None \/ users[req[r].user] = None
  BY <1>1, <1>2 DEF LinkLoad
<1>3. CASE ~(req[r].user = None \/ users[req[r].user] = None)
  <2>1. req[r].user \in UserIds /\ users[req[r].user] # None
    BY <1>1, <1>3 DEF Req
  <2>2. seen \in BOOLEAN
    BY <2>1 DEF IInv, TypeOK, UserRow
  <2>3. To(r, q)
    BY <1>3 DEF LinkLoad, GotoSeen
  <2> HIDE DEF seen
  <2>4. "link_email" \in PCs
    BY DEF PCs
  <2>5. q \in Req /\ q.pc = "link_email" /\ SameHold(q, req[r])
    BY <1>1, <2>2, <2>4, GotoSeenFields, Zenon
  <2> HIDE DEF q
  <2>6. QED
    BY <1>1, <2>3, <2>5, OnwardWith
<1>4. QED
  BY <1>2, <1>3

LEMMA LinkEmailStep ==
    ASSUME IInv, NEW r \in Requests, LinkEmail(r)
    PROVE  At(r, "link_email") /\ (Leave(r) \/ Onward(r, {"link_account"}, req[r].identity))
<1> DEFINE q == Goto(req[r], "link_account")
<1>1. req[r] \in Req /\ At(r, "link_email") /\ (Leave(r) \/ To(r, q))
  BY DEF IInv, TypeOK, LinkEmail
<1>2. q \in Req /\ q.pc = "link_account" /\ SameHold(q, req[r])
  BY <1>1, GotoFields DEF PCs
<1> HIDE DEF q
<1>3. QED
  BY <1>1, <1>2, OnwardWith

LEMMA LinkAccountStep ==
    ASSUME IInv, NEW r \in Requests, LinkAccount(r)
    PROVE  At(r, "link_account") /\ (Leave(r) \/ Onward(r, {"link_save"}, req[r].identity))
<1> DEFINE bound == accounts[req[r].identity] # None
           p == Goto(req[r], "link_save")
           q == [p EXCEPT !.bound = bound]
<1>1. req[r] \in Req /\ At(r, "link_account")
  BY DEF IInv, TypeOK, LinkAccount
<1>2. Leave(r) \/ To(r, q)
  BY DEF LinkAccount, Goto
<1>3. p \in Req /\ p.pc = "link_save" /\ SameHold(p, req[r])
  BY <1>1, GotoFields DEF PCs
<1> HIDE DEF p
<1>4. q \in Req /\ q.pc = "link_save" /\ SameHold(q, req[r])
  BY <1>3 DEF Req, SameHold
<1> HIDE DEF q
<1>5. QED
  BY <1>1, <1>2, <1>4, OnwardWith

\* The callback whose state was drawn for its flow gets a lane, with nothing yet.
LEMMA ConsumeStep ==
    ASSUME IInv, NEW r \in Requests, NEW s \in States, NEW p \in Providers,
           NEW flow \in Flows, Consume(r, s, p, flow)
    PROVE  /\ At(r, "idle") /\ states[s] # None
           /\ states' = [states EXCEPT ![s] = None]
           /\ UNCHANGED <<users, accounts, started, signIns>>
           /\ \/ req' = req
              \/ \E q \in Req : To(r, q) /\ q.pc = "provider" /\ q.state = s
<1>1. /\ At(r, "idle") /\ states[s] # None
      /\ states' = [states EXCEPT ![s] = None]
      /\ UNCHANGED <<users, accounts, started, signIns>>
  BY DEF Consume, Found, Burned, database
<1>2. CASE ~ExpectedFlow(s, flow)
  BY <1>1, <1>2 DEF Consume
<1>3. CASE ExpectedFlow(s, flow)
  <2> DEFINE user == states[s].purpose.user
             p1 == [IdleReq EXCEPT !.pc = "provider"]
             p2 == [p1 EXCEPT !.state = s]
             p3 == [p2 EXCEPT !.flow = flow]
             p4 == [p3 EXCEPT !.provider = p]
             q  == [p4 EXCEPT !.user = user]
  <2>1. To(r, q)
    BY <1>3 DEF Consume
  <2>2. states[s] \in Stored
    BY <1>1 DEF IInv, TypeOK
  <2>3. user \in UserIds \union {None}
    BY <2>2 DEF Stored, Purpose
  <2> HIDE DEF user
  <2>4. p1 \in Req /\ p1.pc = "provider"
    BY IdleReqOK DEF Req, PCs, IdleReq
  <2> HIDE DEF p1
  <2>5. p2 \in Req /\ p2.pc = "provider" /\ p2.state = s
    BY <2>4 DEF Req
  <2> HIDE DEF p2
  <2>6. p3 \in Req /\ p3.pc = "provider" /\ p3.state = s
    BY <2>5 DEF Req
  <2> HIDE DEF p3
  <2>7. p4 \in Req /\ p4.pc = "provider" /\ p4.state = s
    BY <2>6 DEF Req
  <2> HIDE DEF p4
  <2>8. q \in Req /\ q.pc = "provider" /\ q.state = s
    BY <2>3, <2>7 DEF Req
  <2> HIDE DEF q
  <2>9. QED
    BY <1>1, <2>1, <2>8
<1>4. QED
  BY <1>2, <1>3

-----------------------------------------------------------------------------
(* No two callbacks hold the same state.                                   *)

\* What a lane does with its state: it forgets it, or goes on with it.
LEMMA ProgressHolds ==
    ASSUME IInv, NEW r \in Requests, Progress(r) \/ Abort(r)
    PROVE  /\ req[r].pc # "idle"
           /\ \/ Leave(r)
              \/ \E q \in Req : To(r, q) /\ q.pc # "idle" /\ q.state = req[r].state
<1> DEFINE Held == \/ Leave(r)
                   \/ \E q \in Req : To(r, q) /\ q.pc # "idle" /\ q.state = req[r].state
           Here == req[r].pc # "idle"
<1>1. CASE Abort(r)
  BY <1>1 DEF Abort, At
<1>2. CASE Pair(r) \/ LinkSave(r)
  BY <1>2 DEF Pair, LinkSave, At
<1>3. CASE Create(r)
  <2>1. CASE Leave(r) /\ UNCHANGED database
    BY <1>3, <2>1 DEF Create, At
  <2>2. CASE ~(Leave(r) /\ UNCHANGED database)
    <3>1. PICK u \in UserIds : To(r, GotoUser(req[r], "pair", u))
      BY <1>3, <2>2, CreateStep
    <3> DEFINE q == GotoUser(req[r], "pair", u)
    <3>2. q \in Req /\ q.pc = "pair" /\ SameHold(q, req[r])
      BY GotoUserFields DEF IInv, TypeOK, PCs
    <3>3. To(r, q)
      BY <3>1
    <3> HIDE DEF q
    <3>4. QED
      BY <1>3, <3>2, <3>3 DEF Create, At, SameHold
  <2>3. QED
    BY <2>1, <2>2
<1>4. CASE Identify(r) \/ FindAccount(r) \/ LoadUser(r) \/ SaveProfile(r)
  BY <1>4, IdentifyStep, FindAccountStep, LoadUserStep, SaveProfileStep DEF At, Onward
<1>5. CASE FindEmail(r) \/ LinkLoad(r) \/ LinkEmail(r) \/ LinkAccount(r)
  BY <1>5, FindEmailStep, LinkLoadStep, LinkEmailStep, LinkAccountStep DEF At, Onward
<1>6. QED
  BY <1>1, <1>2, <1>3, <1>4, <1>5 DEF Progress

LEMMA ApartInit == Init => Apart
BY DEF Init, Apart, IdleReq

LEMMA ApartNext == IInv /\ Apart /\ [Next]_vars => Apart'
<1> SUFFICES ASSUME IInv, Apart, [Next]_vars
             PROVE  Apart'
  OBVIOUS
<1>1. \A x \in Requests :
          /\ req[x].pc # "idle" => req[x].state \in States /\ states[req[x].state] = None
          /\ req[x].pc = "idle" => req[x].state = None
  BY DEF IInv, LaneOK, LaneShape, LaneFacts, Apart
<1>2. None \notin States
  BY OAuthAssumption
<1>3. ASSUME NEW r \in Requests, NEW q \in Req, To(r, q)
      PROVE  \A x \in Requests : req'[x] = IF x = r THEN q ELSE req[x]
  BY <1>3 DEF To, IInv, TypeOK
<1>4. CASE req' = req
  BY <1>4 DEF Apart
<1>5. ASSUME NEW r \in Requests, NEW s \in States, NEW p \in Providers,
             NEW flow \in Flows, Consume(r, s, p, flow)
      PROVE  Apart'
  <2>1. CASE req' = req
    BY <1>4, <2>1
  <2>2. CASE req' # req
    <3>1. PICK q \in Req : To(r, q) /\ q.pc = "provider" /\ q.state = s
      BY <1>5, <2>2, ConsumeStep
    <3>2. states[s] # None
      BY <1>5, ConsumeStep
    <3>3. QED
      BY <1>1, <1>2, <1>3, <3>1, <3>2 DEF Apart
  <2>3. QED
    BY <2>1, <2>2
<1>6. ASSUME NEW r \in Requests, Progress(r) \/ Abort(r)
      PROVE  Apart'
  <2>1. CASE Leave(r)
    <3>1. \A x \in Requests : req'[x] = IF x = r THEN IdleReq ELSE req[x]
      BY <1>3, <2>1, IdleReqOK DEF Leave
    <3>2. IdleReq.pc = "idle" /\ IdleReq.state = None
      BY DEF IdleReq
    <3>3. QED
      BY <1>1, <1>2, <3>1, <3>2 DEF Apart
  <2>2. CASE ~Leave(r)
    <3>1. PICK q \in Req : To(r, q) /\ q.pc # "idle" /\ q.state = req[r].state
      BY <1>6, <2>2, ProgressHolds
    <3>2. req[r].pc # "idle"
      BY <1>6, ProgressHolds
    <3>3. QED
      BY <1>1, <1>2, <1>3, <3>1, <3>2 DEF Apart
  <2>3. QED
    BY <2>1, <2>2
<1>7. QED
  BY <1>4, <1>5, <1>6
  DEF Next, vars, StartLogin, StartLink, Draw, Register, Tick

LEMMA StatesAreHeldApart == Spec => [](IInv /\ Apart)
<1>1. Spec => []Apart
  BY ApartInit, ApartNext, Invariance, PTL DEF Spec
<1>2. QED
  BY <1>1, Invariance, PTL

-----------------------------------------------------------------------------
(* What the registry sees of a lane.                                       *)

\* A ticket's holder is nobody yet, or may enter on one identity.
LEMMA Seen ==
    ASSUME IInv, Apart, NEW r \in Requests, req[r].pc # "idle",
           NEW t \in States, t = req[r].state
    PROVE  /\ t \in Working <=> req[r].pc \notin Settled
           /\ \A i \in Identity :
                 <<t, i>> \in Admitted <=> req[r].pc \in Settled /\ req[r].identity = i
BY DEF Apart, Working, Admitted

\* What the others hold stays in sight.
LEMMA OthersSeen ==
    ASSUME IInv, Apart, NEW r \in Requests, NEW q \in Req, To(r, q),
           NEW s \in States, req[r].state # s, q.state # s
    PROVE  /\ s \in Working' <=> s \in Working
           /\ \A i \in Identity : <<s, i>> \in Admitted' <=> <<s, i>> \in Admitted
<1>1. \A x \in Requests : req'[x] = IF x = r THEN q ELSE req[x]
  BY DEF To, IInv, TypeOK
<1>2. s \in Working' <=> s \in Working
  BY <1>1 DEF Working
<1>3. ASSUME NEW i \in Identity
      PROVE  <<s, i>> \in Admitted' <=> <<s, i>> \in Admitted
  BY <1>1 DEF Admitted
<1>4. QED
  BY <1>2, <1>3

\* Who leaves, leaves nothing.
LEMMA LeaveSeen ==
    ASSUME IInv, Apart, NEW r \in Requests, req[r].pc # "idle", Leave(r),
           NEW t \in States, t = req[r].state
    PROVE  /\ Working' = Working \ {t}
           /\ Admitted' = {x \in Admitted : x[1] # t}
<1>1. \A x \in Requests : req'[x] = IF x = r THEN IdleReq ELSE req[x]
  BY IdleReqOK DEF Leave, To, IInv, TypeOK
<1>2. IdleReq.state = None /\ None \notin States
  BY OAuthAssumption DEF IdleReq
<1>3. t \notin Working' /\ \A i \in Identity : <<t, i>> \notin Admitted'
  BY <1>1, <1>2 DEF Apart, Working, Admitted
<1>4. \A s \in States \ {t} :
          /\ s \in Working' <=> s \in Working
          /\ \A i \in Identity : <<s, i>> \in Admitted' <=> <<s, i>> \in Admitted
  BY <1>2, IdleReqOK, OthersSeen DEF Leave
<1>5. Working \subseteq States /\ Working' \subseteq States
  BY DEF Working
<1>6. Admitted \subseteq States \X Identity /\ Admitted' \subseteq States \X Identity
  BY DEF Admitted
<1>7. Working' = Working \ {t}
  BY <1>3, <1>4, <1>5
<1>8. Admitted' = {x \in Admitted : x[1] # t}
  BY <1>3, <1>4, <1>6
<1>9. QED
  BY <1>7, <1>8

\* Who goes on may be settled already, get settled, or not.
LEMMA OnwardSeen ==
    ASSUME IInv, Apart, NEW r \in Requests, req[r].pc # "idle",
           NEW t \in States, t = req[r].state,
           NEW q \in Req, To(r, q), q.pc # "idle", q.state = t,
           q.pc \in Settled => q.identity \in Identity,
           req[r].pc \in Settled => q.pc \in Settled /\ q.identity = req[r].identity
    PROVE  IF q.pc \in Settled /\ req[r].pc \notin Settled
           THEN /\ Working' = Working \ {t}
                /\ Admitted' = Admitted \union {<<t, q.identity>>}
           ELSE UNCHANGED <<Working, Admitted>>
<1>1. \A x \in Requests : req'[x] = IF x = r THEN q ELSE req[x]
  BY DEF To, IInv, TypeOK
<1>2. /\ t \in Working' <=> q.pc \notin Settled
      /\ \A i \in Identity :
            <<t, i>> \in Admitted' <=> q.pc \in Settled /\ q.identity = i
  BY <1>1 DEF Apart, Working, Admitted
<1>3. /\ t \in Working <=> req[r].pc \notin Settled
      /\ \A i \in Identity :
            <<t, i>> \in Admitted <=> req[r].pc \in Settled /\ req[r].identity = i
  BY Seen
<1>4. \A s \in States \ {t} :
          /\ s \in Working' <=> s \in Working
          /\ \A i \in Identity : <<s, i>> \in Admitted' <=> <<s, i>> \in Admitted
  BY OthersSeen
<1>5. Working \subseteq States /\ Working' \subseteq States
  BY DEF Working
<1>6. Admitted \subseteq States \X Identity /\ Admitted' \subseteq States \X Identity
  BY DEF Admitted
<1>7. CASE q.pc \in Settled /\ req[r].pc \notin Settled
  <2>1. Working' = Working \ {t}
    BY <1>2, <1>4, <1>5, <1>7
  <2>2. Admitted' = Admitted \union {<<t, q.identity>>}
    BY <1>2, <1>3, <1>4, <1>6, <1>7
  <2>3. QED
    BY <1>7, <2>1, <2>2
<1>8. CASE ~(q.pc \in Settled /\ req[r].pc \notin Settled)
  <2>1. Working' = Working
    BY <1>2, <1>3, <1>4, <1>5, <1>8
  <2>2. Admitted' = Admitted
    BY <1>2, <1>3, <1>4, <1>6, <1>8
  <2>3. QED
    BY <1>8, <2>1, <2>2
<1>9. QED
  BY <1>7, <1>8

\* A callback that is let in shows as the holder of its ticket.
LEMMA ArrivalSeen ==
    ASSUME IInv, Apart, NEW r \in Requests, At(r, "idle"),
           NEW t \in States, NEW q \in Req, To(r, q), q.pc = "provider", q.state = t,
           \A x \in Requests : req[x].state # t
    PROVE  Working' = Working \union {t} /\ Admitted' = Admitted
<1>1. \A x \in Requests : req'[x] = IF x = r THEN q ELSE req[x]
  BY DEF To, IInv, TypeOK
<1>2. t \in Working' /\ \A i \in Identity : <<t, i>> \notin Admitted'
  BY <1>1 DEF Working, Admitted, Settled
<1>3. \A i \in Identity : <<t, i>> \notin Admitted
  BY DEF Admitted
<1>4. req[r].state = None /\ None \notin States
  BY OAuthAssumption DEF At, Apart
<1>5. \A s \in States \ {t} :
          /\ s \in Working' <=> s \in Working
          /\ \A i \in Identity : <<s, i>> \in Admitted' <=> <<s, i>> \in Admitted
  BY <1>4, OthersSeen
<1>6. Working \subseteq States /\ Working' \subseteq States
  BY DEF Working
<1>7. Admitted \subseteq States \X Identity /\ Admitted' \subseteq States \X Identity
  BY DEF Admitted
<1>8. Working' = Working \union {t}
  BY <1>2, <1>5, <1>6
<1>9. \A s \in States, i \in Identity : <<s, i>> \in Admitted' <=> <<s, i>> \in Admitted
  BY <1>2, <1>3, <1>5
<1>10. Admitted' = Admitted
  BY <1>7, <1>9
<1>11. QED
  BY <1>8, <1>10


-----------------------------------------------------------------------------
(* Every step of the two callbacks is one of the registry, or none.        *)

\* The tickets that can be redeemed, and the members, as the registry sees them.
Open    == {s \in States : states[s] # None}
Members == {u \in UserIds : users[u] # None}

LEMMA MappedInit == Init => Registry!RegistryInit
<1> SUFFICES ASSUME Init
             PROVE  Registry!RegistryInit
  OBVIOUS
<1>1. IInv /\ \A r \in Requests : req[r] = IdleReq
  BY InitOK DEF Init
<1>2. Open = {} /\ Members = {}
  BY DEF Init, Open, Members
<1>3. IdleReq.state = None
  BY DEF IdleReq
<1>4. Working = {} /\ Admitted = {}
  BY <1>1, <1>3, OAuthAssumption DEF Working, Admitted
<1>5. QED
  BY <1>2, <1>4 DEF Init, Registry!RegistryInit, Open, Members

\* What a working or settled lane tells the registry of its ticket.
LEMMA LaneTicket ==
    ASSUME IInv, NEW r \in Requests, req[r].pc # "idle"
    PROVE  /\ req[r].state \in States
           /\ req[r].pc \in LoginPCs =>
                 /\ req[r].identity \in Identity
                 /\ started[req[r].state]
                       = Registry!LoginPurpose(req[r].identity.provider)
           /\ req[r].pc = "link_save" =>
                 /\ req[r].identity \in Identity
                 /\ started[req[r].state]
                       = Registry!LinkPurpose(req[r].identity.provider, req[r].user)
<1>1. LaneShape(req[r]) /\ LaneFacts(req[r])
  BY DEF IInv, LaneOK
<1>2. req[r].state \in States /\ started[req[r].state] = DrawnFor(req[r])
  BY <1>1 DEF LaneShape, LaneFacts
<1>3. CASE req[r].pc \in LoginPCs
  BY <1>1, <1>2, <1>3 DEF LaneShape, LoginPCs, DrawnFor, Registry!LoginPurpose
<1>4. CASE req[r].pc = "link_save"
  BY <1>1, <1>2, <1>4 DEF LaneShape, LinkPCs, LoginPCs, DrawnFor, Registry!LinkPurpose
<1>5. CASE req[r].pc \notin LoginPCs \union {"link_save"}
  BY <1>2, <1>5
<1>6. QED
  BY <1>3, <1>4, <1>5

\* A state drawn is a ticket drawn.
LEMMA DrawMaps ==
    ASSUME IInv, NEW s \in States, NEW p \in Providers,
           StartLogin(s, p) \/ \E u \in UserIds : StartLink(s, p, u)
    PROVE  Registry!RegistryNext
<1>1. ASSUME NEW purpose \in Purpose, Draw(s, purpose)
      PROVE  Registry!DrawTicket(s, purpose)
  <2> DEFINE stored == [purpose |-> purpose, ttl |-> StateTTL]
  <2>1. stored \in Stored
    BY OAuthAssumption DEF Stored
  <2>2. states' = [states EXCEPT ![s] = stored]
    BY <1>1 DEF Draw
  <2> HIDE DEF stored
  <2>3. \A x \in States : states'[x] = IF x = s THEN stored ELSE states[x]
    BY <2>2 DEF IInv, TypeOK
  <2>4. Open' = Open \union {s}
    BY <2>1, <2>3, NoneIsNoRecord DEF Open
  <2>5. UNCHANGED <<users, accounts, req, signIns>>
    BY <1>1 DEF Draw, database
  <2>6. UNCHANGED <<Working, Admitted, Members>>
    BY <2>5 DEF Working, Admitted, Members
  <2>7. /\ started[s] = None
        /\ started' = [started EXCEPT ![s] = purpose]
    BY <1>1 DEF Draw
  <2>8. QED
    BY <2>4, <2>5, <2>6, <2>7 DEF Registry!DrawTicket, Open, Members
<1>2. CASE StartLogin(s, p)
  <2> DEFINE purpose == [provider |-> p, flow |-> "login", user |-> None]
  <2>1. purpose \in Purpose /\ purpose = Registry!LoginPurpose(p)
    BY DEF Purpose, Flows, Registry!LoginPurpose
  <2>2. Draw(s, purpose)
    BY <1>2 DEF StartLogin
  <2> HIDE DEF purpose
  <2>3. Registry!DrawTicket(s, Registry!LoginPurpose(p))
    BY <1>1, <2>1, <2>2
  <2>4. QED
    BY <2>3 DEF Registry!RegistryNext
<1>3. ASSUME NEW u \in UserIds, StartLink(s, p, u)
      PROVE  Registry!RegistryNext
  <2> DEFINE purpose == [provider |-> p, flow |-> "link", user |-> u]
  <2>1. purpose \in Purpose /\ purpose = Registry!LinkPurpose(p, u)
    BY DEF Purpose, Flows, Registry!LinkPurpose
  <2>2. Draw(s, purpose) /\ users[u] # None
    BY <1>3 DEF StartLink
  <2> HIDE DEF purpose
  <2>3. Registry!DrawTicket(s, Registry!LinkPurpose(p, u))
    BY <1>1, <2>1, <2>2
  <2>4. QED
    BY <2>2, <2>3 DEF Registry!RegistryNext
<1>4. QED
  BY <1>2, <1>3

\* A state consumed is a ticket redeemed, or void if it is presented to the
\* other flow.
LEMMA ConsumeMaps ==
    ASSUME IInv, Apart, NEW r \in Requests, NEW s \in States, NEW p \in Providers,
           NEW flow \in Flows, Consume(r, s, p, flow)
    PROVE  Registry!RegistryNext
<1>1. /\ At(r, "idle") /\ states[s] # None
      /\ states' = [states EXCEPT ![s] = None]
      /\ UNCHANGED <<users, accounts, started, signIns>>
      /\ \/ req' = req
         \/ \E q \in Req : To(r, q) /\ q.pc = "provider" /\ q.state = s
  BY ConsumeStep
<1>2. \A x \in States : states'[x] = IF x = s THEN None ELSE states[x]
  BY <1>1 DEF IInv, TypeOK
<1>3. Open' = Open \ {s} /\ s \in Open
  BY <1>1, <1>2 DEF Open
<1>4. Members' = Members
  BY <1>1 DEF Members
<1>5. CASE req' = req
  <2>1. Working' = Working /\ Admitted' = Admitted
    BY <1>5 DEF Working, Admitted
  <2>2. Registry!Void({s})
    BY <1>1, <1>3, <1>4, <2>1 DEF Registry!Void, Open, Members
  <2>3. QED
    BY <2>2 DEF Registry!RegistryNext
<1>6. CASE \E q \in Req : To(r, q) /\ q.pc = "provider" /\ q.state = s
  <2>1. PICK q \in Req : To(r, q) /\ q.pc = "provider" /\ q.state = s
    BY <1>6
  <2>2. \A x \in Requests : req[x].state # s
    BY <1>1, OAuthAssumption DEF IInv, LaneOK, LaneFacts, Apart
  <2>3. Working' = Working \union {s} /\ Admitted' = Admitted
    BY <1>1, <2>1, <2>2, ArrivalSeen
  <2>4. Registry!Redeem(s)
    BY <1>1, <1>3, <1>4, <2>3 DEF Registry!Redeem, Open, Members
  <2>5. QED
    BY <2>4 DEF Registry!RegistryNext
<1>7. QED
  BY <1>1, <1>5, <1>6


\* A callback that leaves, with the tables as they were but for verifications,
\* drops its ticket.
LEMMA LeaveMaps ==
    ASSUME IInv, Apart, NEW r \in Requests, req[r].pc # "idle", Leave(r),
           UNCHANGED <<states, accounts, started, signIns>>,
           UNCHANGED users \/ SameRows
    PROVE  Registry!RegistryNext
<1>1. PICK t \in States : t = req[r].state
  BY LaneTicket
<1>2. Working' = Working \ {t} /\ Admitted' = {x \in Admitted : x[1] # t}
  BY <1>1, LeaveSeen
<1>3. Open' = Open /\ Members' = Members
  BY DEF Open, Members, SameRows
<1>4. Registry!Drop(t)
  BY <1>2, <1>3 DEF Registry!Drop, Open, Members
<1>5. QED
  BY <1>4 DEF Registry!RegistryNext

\* A callback that goes on as unsettled or as settled as it was shows nothing.
LEMMA OnwardMaps ==
    ASSUME IInv, Apart, NEW r \in Requests, req[r].pc # "idle",
           NEW pcs \in SUBSET PCs, NEW i \in Identity, Onward(r, pcs, i),
           \/ req[r].pc \notin Settled /\ pcs \intersect (Settled \union {"idle"}) = {}
           \/ req[r].pc \in Settled /\ pcs \subseteq Settled /\ i = req[r].identity,
           UNCHANGED <<states, accounts, started, signIns>>,
           UNCHANGED users \/ SameRows
    PROVE  UNCHANGED Registry!registryVars
<1>1. PICK t \in States : t = req[r].state
  BY LaneTicket
<1>2. PICK q \in Req : /\ To(r, q) /\ q.pc \in pcs
                       /\ q.state = t /\ q.identity = i
  BY <1>1 DEF Onward
<1>3. q.pc # "idle" /\ (q.pc \in Settled <=> req[r].pc \in Settled)
  BY <1>2 DEF Settled
<1>4. UNCHANGED <<Working, Admitted>>
  BY <1>1, <1>2, <1>3, OnwardSeen
<1>5. Open' = Open /\ Members' = Members
  BY DEF Open, Members, SameRows
<1>6. QED
  BY <1>4, <1>5 DEF Registry!registryVars, Open, Members

LEMMA IdentifyMaps ==
    ASSUME IInv, Apart, NEW r \in Requests, Identify(r)
    PROVE  UNCHANGED Registry!registryVars
<1>1. PICK i \in Identity : Onward(r, {"find_account", "link_load"}, i)
  BY IdentifyStep
<1>2. req[r].pc = "provider" /\ UNCHANGED <<states, users, accounts, started, signIns>>
  BY DEF Identify, At, database, redis
<1>3. {"find_account", "link_load"} \in SUBSET PCs
  BY DEF PCs
<1>4. QED
  BY <1>1, <1>2, <1>3, OnwardMaps DEF Settled

\* The owner of the identity is recognised at the first SELECT.
LEMMA FindAccountMaps ==
    ASSUME IInv, Apart, NEW r \in Requests, FindAccount(r)
    PROVE  Registry!RegistryNext \/ UNCHANGED Registry!registryVars
<1>1. req[r].pc = "find_account" /\ UNCHANGED <<states, users, accounts, started, signIns>>
  BY DEF FindAccount, At, database, redis
<1>2. PICK t \in States, i \in Identity :
          /\ t = req[r].state /\ i = req[r].identity
          /\ started[t] = Registry!LoginPurpose(i.provider)
  BY <1>1, LaneTicket DEF LoginPCs
<1>3. CASE Onward(r, {"find_email"}, i)
  <2>1. {"find_email"} \in SUBSET PCs
    BY DEF PCs
  <2>2. QED
    BY <1>1, <1>3, <2>1, OnwardMaps DEF Settled
<1>4. CASE accounts[i] # None /\ Onward(r, {"load_user"}, i)
  <2>1. PICK q \in Req : /\ To(r, q) /\ q.pc = "load_user"
                         /\ q.state = t /\ q.identity = i
    BY <1>2, <1>4 DEF Onward
  <2>2. /\ Working' = Working \ {t}
        /\ Admitted' = Admitted \union {<<t, i>>}
    BY <1>1, <1>2, <2>1, OnwardSeen DEF Settled
  <2>3. t \in Working
    BY <1>1, <1>2, Seen DEF Settled
  <2>4. Open' = Open /\ Members' = Members
    BY <1>1 DEF Open, Members
  <2>5. Registry!Recognise(t, i)
    BY <1>1, <1>2, <1>4, <2>2, <2>3, <2>4
    DEF Registry!Recognise, Registry!Admit, Open, Members
  <2>6. QED
    BY <2>5 DEF Registry!RegistryNext
<1>5. QED
  BY <1>2, <1>3, <1>4, FindAccountStep

\* The steps of a login that only wait, or refuse.
LEMMA LoginMaps ==
    ASSUME IInv, Apart, NEW r \in Requests,
           LoadUser(r) \/ SaveProfile(r) \/ FindEmail(r)
    PROVE  Registry!RegistryNext \/ UNCHANGED Registry!registryVars
<1>1. req[r].pc \in LoginPCs /\ UNCHANGED <<states, accounts, started, signIns>>
  BY DEF LoadUser, SaveProfile, FindEmail, At, LoginPCs, database, redis
<1>2. PICK i \in Identity : i = req[r].identity
  BY <1>1, LaneTicket DEF LoginPCs
<1>3. {"save_profile"} \in SUBSET PCs /\ {"pair"} \in SUBSET PCs /\ {"create"} \in SUBSET PCs
  BY DEF PCs
<1>4. CASE LoadUser(r)
  <2>1. /\ req[r].pc = "load_user" /\ Onward(r, {"save_profile"}, i)
        /\ UNCHANGED users
    BY <1>2, <1>4, LoadUserStep DEF LoadUser, At, database
  <2>2. QED
    BY <1>1, <1>2, <1>3, <2>1, OnwardMaps DEF Settled
<1>5. CASE SaveProfile(r)
  <2>1. /\ req[r].pc = "save_profile" /\ Onward(r, {"pair"}, i)
        /\ SameRows
    BY <1>2, <1>5, SaveProfileStep, SaveProfileOK DEF At
  <2>2. QED
    BY <1>1, <1>2, <1>3, <2>1, OnwardMaps DEF Settled
<1>6. CASE FindEmail(r)
  <2>1. /\ req[r].pc = "find_email" /\ (Leave(r) \/ Onward(r, {"create"}, i))
        /\ UNCHANGED users
    BY <1>2, <1>6, FindEmailStep DEF FindEmail, At, database
  <2>2. CASE Leave(r)
    BY <1>1, <2>1, <2>2, LeaveMaps
  <2>3. CASE Onward(r, {"create"}, i)
    BY <1>1, <1>2, <1>3, <2>1, <2>3, OnwardMaps DEF Settled
  <2>4. QED
    BY <2>1, <2>2, <2>3
<1>7. QED
  BY <1>4, <1>5, <1>6


\* User and account in one transaction: a new member is enrolled, or nobody is.
LEMMA CreateMaps ==
    ASSUME IInv, Apart, NEW r \in Requests, Create(r)
    PROVE  Registry!RegistryNext
<1>1. req[r].pc = "create" /\ UNCHANGED <<states, started, signIns>>
  BY DEF Create, At, redis
<1>2. PICK t \in States, i \in Identity :
          /\ t = req[r].state /\ i = req[r].identity
          /\ started[t] = Registry!LoginPurpose(i.provider)
  BY <1>1, LaneTicket DEF LoginPCs
<1>3. CASE Leave(r) /\ UNCHANGED database
  BY <1>1, <1>3, LeaveMaps DEF database
<1>4. CASE ~(Leave(r) /\ UNCHANGED database)
  <2>1. accounts[i] = None
    BY <1>2, <1>4, CreateStep
  <2>2. PICK u \in UserIds, row \in UserRow :
            /\ users[u] = None
            /\ users' = [users EXCEPT ![u] = row]
            /\ accounts' = [accounts EXCEPT ![i] = u]
            /\ To(r, GotoUser(req[r], "pair", u))
    BY <1>2, <1>4, CreateStep
  <2> DEFINE q == GotoUser(req[r], "pair", u)
  <2>3. q \in Req /\ q.pc = "pair" /\ q.state = t /\ q.identity = i
    BY <1>2, GotoUserFields DEF SameHold, IInv, TypeOK, PCs
  <2>4. To(r, q)
    BY <2>2
  <2> HIDE DEF q
  <2>5. /\ Working' = Working \ {t}
        /\ Admitted' = Admitted \union {<<t, i>>}
    BY <1>1, <1>2, <2>3, <2>4, OnwardSeen DEF Settled
  <2>6. t \in Working
    BY <1>1, <1>2, Seen DEF Settled
  <2>7. \A v \in UserIds : users'[v] = IF v = u THEN row ELSE users[v]
    BY <2>2 DEF IInv, TypeOK
  <2>8. Members' = Members \union {u} /\ u \notin Members
    BY <2>2, <2>7, NoneIsNoRecord DEF Members
  <2>9. Open' = Open
    BY <1>1 DEF Open
  <2>10. Registry!Enrol(t, i, u)
    BY <1>1, <1>2, <2>1, <2>2, <2>5, <2>6, <2>8, <2>9
    DEF Registry!Enrol, Registry!Admit, Open, Members
  <2>11. QED
    BY <2>10 DEF Registry!RegistryNext
<1>5. QED
  BY <1>3, <1>4

\* The token pair goes to the owner of the identity, whoever that is.
LEMMA PairMaps ==
    ASSUME IInv, Apart, NEW r \in Requests, Pair(r)
    PROVE  Registry!RegistryNext
<1>1. /\ req[r].pc = "pair" /\ Leave(r)
      /\ UNCHANGED <<states, users, accounts, started>>
      /\ signIns' = signIns \union {[user |-> req[r].user, identity |-> req[r].identity]}
  BY DEF Pair, At, database, redis
<1>2. PICK t \in States, i \in Identity : t = req[r].state /\ i = req[r].identity
  BY <1>1, LaneTicket DEF LoginPCs
<1>3. accounts[i] = req[r].user
  BY <1>1, <1>2 DEF IInv, LaneOK, LaneFacts
<1>4. /\ Working' = Working \ {t}
      /\ Admitted' = {x \in Admitted : x[1] # t}
  BY <1>1, <1>2, LeaveSeen
<1>5. t \notin Working /\ <<t, i>> \in Admitted
  BY <1>1, <1>2, Seen DEF Settled
<1>6. Open' = Open /\ Members' = Members
  BY <1>1 DEF Open, Members
<1>7. signIns' = signIns \union {[user |-> accounts[i], identity |-> i]}
  BY <1>1, <1>2, <1>3
<1>8. Working' = Working
  BY <1>4, <1>5
<1>9. Registry!Enter(t, i)
  BY <1>1, <1>4, <1>5, <1>6, <1>7, <1>8 DEF Registry!Enter, Open, Members
<1>10. QED
  BY <1>9 DEF Registry!RegistryNext

\* The steps of a link that only wait, or refuse.
LEMMA LinkMaps ==
    ASSUME IInv, Apart, NEW r \in Requests,
           LinkLoad(r) \/ LinkEmail(r) \/ LinkAccount(r)
    PROVE  Registry!RegistryNext \/ UNCHANGED Registry!registryVars
<1>1. /\ req[r].pc \in {"link_load", "link_email", "link_account"}
      /\ UNCHANGED <<states, users, accounts, started, signIns>>
  BY DEF LinkLoad, LinkEmail, LinkAccount, At, database, redis
<1>2. PICK i \in Identity : i = req[r].identity
  BY <1>1 DEF IInv, LaneOK, LaneShape, LinkPCs
<1>3. PICK pc \in {"link_email", "link_account", "link_save"} :
          Leave(r) \/ Onward(r, {pc}, i)
  BY <1>2, LinkLoadStep, LinkEmailStep, LinkAccountStep
<1>4. CASE Leave(r)
  BY <1>1, <1>4, LeaveMaps
<1>5. CASE Onward(r, {pc}, i)
  <2>1. {pc} \in SUBSET PCs /\ {pc} \intersect (Settled \union {"idle"}) = {}
    BY DEF PCs, Settled
  <2>2. req[r].pc \notin Settled /\ req[r].pc # "idle"
    BY <1>1 DEF Settled
  <2>3. QED
    BY <1>1, <1>5, <2>1, <2>2, OnwardMaps
<1>6. QED
  BY <1>3, <1>4, <1>5

\* The COMMIT gives the starter the identity, if it is nobody's yet.
LEMMA LinkSaveMaps ==
    ASSUME IInv, Apart, NEW r \in Requests, LinkSave(r)
    PROVE  Registry!RegistryNext
<1>1. /\ req[r].pc = "link_save" /\ Leave(r)
      /\ UNCHANGED <<states, started, signIns>>
  BY DEF LinkSave, At, redis
<1>2. CASE UNCHANGED database
  BY <1>1, <1>2, LeaveMaps DEF database
<1>3. CASE ~UNCHANGED database
  <2>1. PICK t \in States, i \in Identity, u \in UserIds :
            /\ t = req[r].state /\ i = req[r].identity /\ u = req[r].user
            /\ started[t] = Registry!LinkPurpose(i.provider, u)
            /\ users[u] # None
    BY <1>1, <1>3, LaneTicket, LinkSaveStep
  <2>2. SameRows /\ \/ accounts' = accounts
                    \/ accounts[i] = None /\ accounts' = [accounts EXCEPT ![i] = u]
    BY <1>3, <2>1, LinkSaveStep
  <2>3. CASE accounts' = accounts
    BY <1>1, <2>2, <2>3, LeaveMaps
  <2>4. CASE accounts[i] = None /\ accounts' = [accounts EXCEPT ![i] = u]
    <3>1. /\ Working' = Working \ {t}
          /\ Admitted' = {x \in Admitted : x[1] # t}
      BY <1>1, <2>1, LeaveSeen
    <3>2. /\ t \in Working
          /\ \A j \in Identity : <<t, j>> \notin Admitted
      BY <1>1, <2>1, Seen DEF Settled
    <3>3. Admitted \subseteq States \X Identity
      BY DEF Admitted
    <3>4. Admitted' = Admitted
      BY <3>1, <3>2, <3>3
    <3>5. Open' = Open /\ Members' = Members /\ u \in Members
      BY <1>1, <2>1, <2>2 DEF Open, Members, SameRows
    <3>6. Registry!Bind(t, i, u)
      BY <1>1, <2>1, <2>4, <3>1, <3>2, <3>4, <3>5 DEF Registry!Bind, Open, Members
    <3>7. QED
      BY <3>6 DEF Registry!RegistryNext
  <2>5. QED
    BY <2>2, <2>3, <2>4
<1>4. QED
  BY <1>2, <1>3

LEMMA RegisterMaps ==
    ASSUME IInv, NEW u \in UserIds, NEW e \in Emails, Register(u, e)
    PROVE  Registry!RegistryNext
<1> DEFINE row == [email |-> e, verified |-> FALSE, password |-> TRUE]
<1>1. row \in UserRow
  BY DEF UserRow
<1>2. /\ users[u] = None /\ users' = [users EXCEPT ![u] = row]
      /\ UNCHANGED <<accounts, req, states, started, signIns>>
  BY DEF Register, redis
<1> HIDE DEF row
<1>3. \A v \in UserIds : users'[v] = IF v = u THEN row ELSE users[v]
  BY <1>2 DEF IInv, TypeOK
<1>4. Members' = Members \union {u} /\ u \notin Members
  BY <1>1, <1>2, <1>3, NoneIsNoRecord DEF Members
<1>5. UNCHANGED <<Working, Admitted, Open>>
  BY <1>2 DEF Working, Admitted, Open
<1>6. Registry!Join(u)
  BY <1>2, <1>4, <1>5 DEF Registry!Join, Open, Members
<1>7. QED
  BY <1>6 DEF Registry!RegistryNext

\* Redis lets the tickets expire that nobody has redeemed.
LEMMA TickMaps ==
    ASSUME IInv, Tick
    PROVE  Registry!RegistryNext
<1>1. UNCHANGED <<users, accounts, req, started, signIns>>
  BY DEF Tick, database
<1>2. \A s \in States : states[s] = None => states'[s] = None
  BY AgedState DEF Tick, IInv, TypeOK
<1>3. PICK T \in SUBSET States : T = {s \in States : states[s] # None /\ states'[s] = None}
  OBVIOUS
<1>4. Open' = Open \ T
  BY <1>2, <1>3 DEF Open
<1>5. UNCHANGED <<Working, Admitted, Members>>
  BY <1>1 DEF Working, Admitted, Members
<1>6. Registry!Void(T)
  BY <1>1, <1>4, <1>5 DEF Registry!Void, Open, Members
<1>7. QED
  BY <1>6 DEF Registry!RegistryNext

LEMMA MappedNext ==
    IInv /\ Apart /\ [Next]_vars => [Registry!RegistryNext]_Registry!registryVars
<1> SUFFICES ASSUME IInv, Apart, [Next]_vars
             PROVE  Registry!RegistryNext \/ UNCHANGED Registry!registryVars
  OBVIOUS
<1>1. CASE UNCHANGED vars
  BY <1>1 DEF vars, Registry!registryVars, Working, Admitted
<1>2. ASSUME NEW r \in Requests, Progress(r)
      PROVE  Registry!RegistryNext \/ UNCHANGED Registry!registryVars
  BY <1>2, IdentifyMaps, FindAccountMaps, LoginMaps, CreateMaps, PairMaps, LinkMaps,
     LinkSaveMaps
  DEF Progress
<1>3. ASSUME NEW r \in Requests, Abort(r)
      PROVE  Registry!RegistryNext
  BY <1>3, LeaveMaps DEF Abort, At, database, redis
<1>4. QED
  BY <1>1, <1>2, <1>3, DrawMaps, ConsumeMaps, RegisterMaps, TickMaps DEF Next

\* However callbacks interleave, fail and meet the other flow, each does with its
\* state one thing at most, and one the state was drawn for (consume_oauth_state,
\* get_or_create_oauth_user, link_oauth_account_to_user).
THEOREM ImplementsRegistry == Spec => RegistryImplemented
BY MappedInit, MappedNext, StatesAreHeldApart, PTL
DEF Spec, RegistryImplemented, Registry!RegistrySpec
=============================================================================
