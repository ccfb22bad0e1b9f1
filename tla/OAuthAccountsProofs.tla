------------------------- MODULE OAuthAccountsProofs -------------------------
(***************************************************************************)
(* What OAuthAccounts guarantees for every number of callbacks, users,     *)
(* addresses, providers and states, proved from one inductive invariant.   *)
(*                                                                         *)
(* The promises are about tables, but what makes them hold is what each    *)
(* callback still knows when it resumes: that its state is spent, by it    *)
(* alone, and what it was drawn for (LaneFacts, StateLife), and that the   *)
(* user and the binding it read are still there.                           *)
(***************************************************************************)
EXTENDS OAuthAccounts, TLAPS

LoginPCs == {"find_account", "load_user", "save_profile", "find_email",
             "create", "pair"}
LinkPCs  == {"link_load", "link_email", "link_account", "link_save"}

\* What a suspended callback holds, by the place where it is suspended.
LaneShape(q) ==
    /\ q.pc # "idle" => q.state \in States /\ q.provider \in Providers
    /\ q.pc \in LoginPCs => q.flow = "login"
    /\ q.pc \in LinkPCs => q.flow = "link"
    /\ q.pc \in LoginPCs \union LinkPCs =>
           /\ q.identity \in Identity /\ q.identity.provider = q.provider
           /\ q.email \in Emails
    /\ q.vouched => q.proved

\* What the callback's state was drawn for.
DrawnFor(q) ==
    [provider |-> q.provider, flow |-> q.flow,
     user |-> IF q.flow = "link" THEN q.user ELSE None]

\* What Redis and the tables say of it, whatever the others have done since.
LaneFacts(q) ==
    /\ q.pc # "idle" =>
           /\ states[q.state] = None /\ uses[q.state] = 1
           /\ started[q.state] = DrawnFor(q)
    /\ q.pc \in {"load_user", "save_profile", "pair"} =>
           q.user \in UserIds /\ accounts[q.identity] = q.user
    /\ q.pc \in {"link_email", "link_account", "link_save"} =>
           q.user \in UserIds /\ users[q.user] # None

LaneOK(q) == LaneShape(q) /\ LaneFacts(q)

\* A state is drawn, then perhaps spent, once; what it was drawn for stays known.
StateLife ==
    \A s \in States :
        /\ started[s] = None => states[s] = None /\ uses[s] = 0
        /\ started[s] # None /\ started[s].flow = "login" => started[s].user = None
        /\ states[s] # None => started[s] = states[s].purpose /\ uses[s] = 0

\* oauth_accounts.user_id is a foreign key.
ForeignKey == \A i \in Identity : accounts[i] # None => users[accounts[i]] # None

IInv ==
    /\ TypeOK
    /\ StateLife
    /\ StateUsedOnce
    /\ EmailUnique
    /\ ForeignKey
    /\ SignInsByOwner
    /\ NobodyLockedOut
    /\ \A r \in Requests : LaneOK(req[r])

-----------------------------------------------------------------------------
(* The states a callback goes through.                                     *)

LEMMA IdleReqOK == IdleReq \in Req /\ LaneOK(IdleReq)
BY DEF IdleReq, Req, PCs, Flows, LaneOK, LaneShape, LaneFacts, LoginPCs, LinkPCs

\* Everything else a callback holds, but its program counter.
SameHold(n, q) ==
    /\ n.state = q.state /\ n.flow = q.flow /\ n.provider = q.provider
    /\ n.identity = q.identity /\ n.email = q.email
    /\ n.vouched = q.vouched /\ n.proved = q.proved

LEMMA GotoFields ==
    ASSUME NEW q \in Req, NEW pc \in PCs
    PROVE  /\ Goto(q, pc) \in Req
           /\ Goto(q, pc).pc = pc
           /\ Goto(q, pc).user = q.user
           /\ SameHold(Goto(q, pc), q)
BY DEF Goto, Req, SameHold

\* It goes on with user u, or with what it saw of the user's row.
GotoUser(q, pc, u)    == [q EXCEPT !.pc = pc, !.user = u]
GotoSeen(q, pc, seen) == [q EXCEPT !.pc = pc, !.seen = seen]

LEMMA GotoUserFields ==
    ASSUME NEW q \in Req, NEW pc \in PCs, NEW u \in UserIds
    PROVE  /\ GotoUser(q, pc, u) \in Req
           /\ GotoUser(q, pc, u).pc = pc /\ GotoUser(q, pc, u).user = u
           /\ SameHold(GotoUser(q, pc, u), q)
<1> DEFINE p == [q EXCEPT !.pc = pc]
           n == [p EXCEPT !.user = u]
<1>1. p \in Req /\ p.pc = pc /\ SameHold(p, q)
  BY DEF Req, SameHold
<1> HIDE DEF p
<1>2. n \in Req /\ n.pc = pc /\ n.user = u /\ SameHold(n, q)
  BY <1>1 DEF Req, SameHold
<1>3. QED
  BY <1>2 DEF n, p, GotoUser

LEMMA GotoSeenFields ==
    ASSUME NEW q \in Req, NEW pc \in PCs, NEW seen \in BOOLEAN
    PROVE  /\ GotoSeen(q, pc, seen) \in Req
           /\ GotoSeen(q, pc, seen).pc = pc /\ GotoSeen(q, pc, seen).user = q.user
           /\ SameHold(GotoSeen(q, pc, seen), q)
<1> DEFINE p == [q EXCEPT !.pc = pc]
           n == [p EXCEPT !.seen = seen]
<1>1. p \in Req /\ p.pc = pc /\ p.user = q.user /\ SameHold(p, q)
  BY DEF Req, SameHold
<1> HIDE DEF p
<1>2. n \in Req /\ n.pc = pc /\ n.user = q.user /\ SameHold(n, q)
  BY <1>1 DEF Req, SameHold
<1>3. QED
  BY <1>2 DEF n, p, GotoSeen

-----------------------------------------------------------------------------
(* Steps that only move one lane.                                          *)

\* If q is a state the invariant allows a lane in, and Redis and the tables
\* stay, the invariant survives.
LEMMA MoveOK ==
    ASSUME IInv, NEW r \in Requests, NEW q, q \in Req, LaneOK(q),
           To(r, q), UNCHANGED <<database, redis, signIns>>
    PROVE  IInv'
<1> USE DEF To, database, redis
<1>1. \A s \in Requests : req'[s] = IF s = r THEN q ELSE req[s]
  BY DEF IInv, TypeOK
<1>2. TypeOK'
  BY DEF IInv, TypeOK
<1>3. \A s \in Requests : LaneOK(req[s])'
  BY <1>1 DEF IInv, LaneOK, LaneShape, LaneFacts, DrawnFor
<1>4. StateLife' /\ StateUsedOnce' /\ EmailUnique' /\ ForeignKey'
  BY DEF IInv, StateLife, StateUsedOnce, EmailUnique, ForeignKey
<1>5. SignInsByOwner' /\ NobodyLockedOut'
  BY DEF IInv, SignInsByOwner, NobodyLockedOut
<1>6. QED
  BY <1>2, <1>3, <1>4, <1>5 DEF IInv

\* A callback that is refused or lost leaves an idle lane behind.
LEMMA LeaveOK ==
    ASSUME IInv, NEW r \in Requests, Leave(r), UNCHANGED <<database, redis, signIns>>
    PROVE  IInv'
BY IdleReqOK, MoveOK DEF Leave

LEMMA ProfileFields ==
    ASSUME NEW f \in GitHubProfiles \union GoogleProfiles
    PROVE  /\ f.email \in Emails /\ f.vouched \in BOOLEAN /\ f.proved \in BOOLEAN
           /\ f.vouched => f.proved
BY DEF GitHubProfiles, GoogleProfiles, Profile

LEMMA IdentifyOK ==
    ASSUME IInv, NEW r \in Requests, Identify(r)
    PROVE  IInv'
<1>1. req[r] \in Req /\ LaneOK(req[r]) /\ At(r, "provider")
  BY DEF IInv, TypeOK, Identify
<1>2. PICK x \in Subjects, f \in GitHubProfiles \union GoogleProfiles :
          To(r, [req[r] EXCEPT
                    !.pc = IF req[r].flow = "login" THEN "find_account" ELSE "link_load",
                    !.identity = [provider |-> req[r].provider, subject |-> x],
                    !.email = f.email, !.vouched = f.vouched, !.proved = f.proved])
  BY DEF Identify
<1> DEFINE pc == IF req[r].flow = "login" THEN "find_account" ELSE "link_load"
           i  == [provider |-> req[r].provider, subject |-> x]
           p1 == [req[r] EXCEPT !.pc = pc]
           p2 == [p1 EXCEPT !.identity = i]
           p3 == [p2 EXCEPT !.email = f.email]
           p4 == [p3 EXCEPT !.vouched = f.vouched]
           q  == [p4 EXCEPT !.proved = f.proved]
<1>3. To(r, q) /\ UNCHANGED <<database, redis, signIns>>
  BY <1>2 DEF Identify
<1>4. i \in Identity /\ i.provider = req[r].provider
  BY <1>1 DEF At, LaneOK, LaneShape, Identity
<1>5. req[r].flow \in {"login", "link"}
  BY <1>1 DEF Req, Flows
<1>6. /\ pc \in PCs /\ pc \in {"find_account", "link_load"}
      /\ pc = "find_account" => req[r].flow = "login"
      /\ pc = "link_load" => req[r].flow = "link"
  BY <1>5 DEF PCs
<1> HIDE DEF pc, i
<1>7. /\ p1 \in Req /\ p1.pc = pc
      /\ p1.state = req[r].state /\ p1.flow = req[r].flow
      /\ p1.provider = req[r].provider /\ p1.user = req[r].user
  BY <1>1, <1>6 DEF Req
<1> HIDE DEF p1
<1>8. /\ p2 \in Req /\ p2.pc = pc /\ p2.identity = i
      /\ p2.state = req[r].state /\ p2.flow = req[r].flow
      /\ p2.provider = req[r].provider /\ p2.user = req[r].user
  BY <1>4, <1>7 DEF Req
<1> HIDE DEF p2
<1>9. /\ p3 \in Req /\ p3.pc = pc /\ p3.identity = i /\ p3.email = f.email
      /\ p3.state = req[r].state /\ p3.flow = req[r].flow
      /\ p3.provider = req[r].provider /\ p3.user = req[r].user
  BY <1>8, ProfileFields DEF Req
<1> HIDE DEF p3
<1>10. /\ p4 \in Req /\ p4.pc = pc /\ p4.identity = i /\ p4.email = f.email
       /\ p4.vouched = f.vouched
       /\ p4.state = req[r].state /\ p4.flow = req[r].flow
       /\ p4.provider = req[r].provider /\ p4.user = req[r].user
  BY <1>9, ProfileFields DEF Req
<1> HIDE DEF p4
<1>11. /\ q \in Req /\ q.pc = pc /\ q.identity = i /\ q.email = f.email
       /\ q.vouched = f.vouched /\ q.proved = f.proved
       /\ q.state = req[r].state /\ q.flow = req[r].flow
       /\ q.provider = req[r].provider /\ q.user = req[r].user
  BY <1>10, ProfileFields DEF Req
<1> HIDE DEF q
<1>12. LaneShape(q)
  BY <1>1, <1>4, <1>6, <1>11, ProfileFields
  DEF At, LaneOK, LaneShape, LoginPCs, LinkPCs
<1>13. LaneFacts(q)
  <2>1. DrawnFor(q) = DrawnFor(req[r])
    BY <1>11 DEF DrawnFor
  <2>2. QED
    BY <1>1, <1>6, <1>11, <2>1 DEF At, LaneOK, LaneFacts
<1>14. QED
  BY <1>3, <1>11, <1>12, <1>13, MoveOK DEF LaneOK

\* A callback that goes on within its flow, knowing what it then relies on.
LEMMA GoOnOK ==
    ASSUME IInv, NEW r \in Requests, NEW q, q \in Req, SameHold(q, req[r]),
           \/ req[r].pc \in LoginPCs /\ q.pc \in LoginPCs
           \/ req[r].pc \in LinkPCs /\ q.pc \in LinkPCs /\ q.user = req[r].user,
           q.pc \in {"load_user", "save_profile", "pair"} =>
               q.user \in UserIds /\ accounts[q.identity] = q.user,
           q.pc \in {"link_email", "link_account", "link_save"} =>
               q.user \in UserIds /\ users[q.user] # None,
           To(r, q), UNCHANGED <<database, redis, signIns>>
    PROVE  IInv'
<1>1. req[r] \in Req /\ LaneOK(req[r])
  BY DEF IInv, TypeOK
<1>2. LaneShape(q)
  BY <1>1 DEF LaneOK, LaneShape, SameHold, LoginPCs, LinkPCs
<1>3. DrawnFor(q) = DrawnFor(req[r])
  BY <1>1 DEF LaneOK, LaneShape, SameHold, DrawnFor
<1>4. LaneFacts(q)
  BY <1>1, <1>3 DEF LaneOK, LaneFacts, SameHold, LoginPCs, LinkPCs
<1>5. QED
  BY <1>2, <1>4, MoveOK DEF LaneOK

LEMMA FindAccountOK ==
    ASSUME IInv, NEW r \in Requests, FindAccount(r)
    PROVE  IInv'
<1> DEFINE u == accounts[req[r].identity]
<1>1. /\ req[r] \in Req /\ LaneOK(req[r]) /\ At(r, "find_account")
      /\ UNCHANGED <<database, redis, signIns>>
  BY DEF IInv, TypeOK, FindAccount
<1>2. CASE u # None
  <2> DEFINE q == GotoUser(req[r], "load_user", u)
  <2>1. u \in UserIds
    BY <1>1, <1>2 DEF At, LaneOK, LaneShape, LoginPCs, IInv, TypeOK
  <2>2. To(r, q)
    BY <1>2 DEF FindAccount, GotoUser
  <2> HIDE DEF u
  <2>3. /\ q \in Req /\ q.pc = "load_user" /\ q.user = u
        /\ SameHold(q, req[r])
    BY <1>1, <2>1, GotoUserFields DEF PCs
  <2> HIDE DEF q
  <2>4. accounts[q.identity] = q.user
    BY <2>3 DEF u, SameHold
  <2>5. QED
    BY <1>1, <2>1, <2>2, <2>3, <2>4, GoOnOK DEF At, LoginPCs, LinkPCs
<1>3. CASE u = None
  <2> DEFINE q == Goto(req[r], "find_email")
  <2>1. q \in Req /\ q.pc = "find_email" /\ SameHold(q, req[r])
    BY <1>1, GotoFields DEF PCs
  <2>2. To(r, q)
    BY <1>3 DEF FindAccount
  <2> HIDE DEF q
  <2>3. QED
    BY <1>1, <2>1, <2>2, GoOnOK DEF At, LoginPCs, LinkPCs
<1>4. QED
  BY <1>2, <1>3

LEMMA LoadUserOK ==
    ASSUME IInv, NEW r \in Requests, LoadUser(r)
    PROVE  IInv'
<1> DEFINE seen == users[req[r].user].verified
           q == GotoSeen(req[r], "save_profile", seen)
<1>1. /\ req[r] \in Req /\ LaneOK(req[r]) /\ At(r, "load_user")
      /\ UNCHANGED <<database, redis, signIns>>
  BY DEF IInv, TypeOK, LoadUser
<1>2. /\ req[r].user \in UserIds /\ req[r].identity \in Identity
      /\ accounts[req[r].identity] = req[r].user
  BY <1>1 DEF At, LaneOK, LaneShape, LaneFacts, LoginPCs
<1>3. users[req[r].user] \in UserRow
  BY <1>2, OAuthAssumption DEF IInv, TypeOK, ForeignKey
<1>4. seen \in BOOLEAN
  BY <1>3 DEF UserRow
<1>5. To(r, q)
  BY DEF LoadUser, GotoSeen
<1> HIDE DEF seen
<1>6. /\ q \in Req /\ q.pc = "save_profile" /\ q.user = req[r].user
      /\ SameHold(q, req[r])
  <2>1. "save_profile" \in PCs
    BY DEF PCs
  <2>2. QED
    BY <1>1, <1>4, <2>1, GotoSeenFields, Zenon
<1> HIDE DEF q
<1>7. accounts[q.identity] = q.user
  BY <1>2, <1>6 DEF SameHold
<1>8. QED
  BY <1>1, <1>2, <1>5, <1>6, <1>7, GoOnOK DEF At, LoginPCs, LinkPCs

LEMMA FindEmailOK ==
    ASSUME IInv, NEW r \in Requests, FindEmail(r)
    PROVE  IInv'
<1> DEFINE q == Goto(req[r], "create")
<1>1. /\ req[r] \in Req /\ At(r, "find_email")
      /\ UNCHANGED <<database, redis, signIns>>
  BY DEF IInv, TypeOK, FindEmail
<1>2. Leave(r) \/ To(r, q)
  BY DEF FindEmail
<1>3. q \in Req /\ q.pc = "create" /\ SameHold(q, req[r])
  BY <1>1, GotoFields DEF PCs
<1> HIDE DEF q
<1>4. QED
  BY <1>1, <1>2, <1>3, LeaveOK, GoOnOK DEF At, LoginPCs, LinkPCs

LEMMA LinkLoadOK ==
    ASSUME IInv, NEW r \in Requests, LinkLoad(r)
    PROVE  IInv'
<1> DEFINE seen == users[req[r].user].verified
           q == GotoSeen(req[r], "link_email", seen)
<1>1. /\ req[r] \in Req /\ LaneOK(req[r]) /\ At(r, "link_load")
      /\ UNCHANGED <<database, redis, signIns>>
  BY DEF IInv, TypeOK, LinkLoad
<1>2. CASE req[r].user = None \/ users[req[r].user] = None
  BY <1>1, <1>2, LeaveOK DEF LinkLoad
<1>3. CASE ~(req[r].user = None \/ users[req[r].user] = None)
  <2>1. req[r].user \in UserIds /\ users[req[r].user] # None
    BY <1>1, <1>3 DEF Req
  <2>2. seen \in BOOLEAN
    BY <2>1 DEF IInv, TypeOK, UserRow
  <2>3. To(r, q)
    BY <1>3 DEF LinkLoad, GotoSeen
  <2> HIDE DEF seen
  <2>4. /\ q \in Req /\ q.pc = "link_email" /\ q.user = req[r].user
        /\ SameHold(q, req[r])
    <3>1. "link_email" \in PCs
      BY DEF PCs
    <3>2. QED
      BY <1>1, <2>2, <3>1, GotoSeenFields, Zenon
  <2> HIDE DEF q
  <2>5. QED
    BY <1>1, <2>1, <2>3, <2>4, GoOnOK DEF At, LoginPCs, LinkPCs
<1>4. QED
  BY <1>2, <1>3

LEMMA LinkEmailOK ==
    ASSUME IInv, NEW r \in Requests, LinkEmail(r)
    PROVE  IInv'
<1> DEFINE q == Goto(req[r], "link_account")
<1>1. /\ req[r] \in Req /\ LaneOK(req[r]) /\ At(r, "link_email")
      /\ UNCHANGED <<database, redis, signIns>>
  BY DEF IInv, TypeOK, LinkEmail
<1>2. Leave(r) \/ To(r, q)
  BY DEF LinkEmail
<1>3. /\ q \in Req /\ q.pc = "link_account" /\ q.user = req[r].user
      /\ SameHold(q, req[r])
  BY <1>1, GotoFields DEF PCs
<1> HIDE DEF q
<1>4. req[r].user \in UserIds /\ users[req[r].user] # None
  BY <1>1 DEF At, LaneOK, LaneFacts
<1>5. QED
  BY <1>1, <1>2, <1>3, <1>4, LeaveOK, GoOnOK DEF At, LoginPCs, LinkPCs

LEMMA LinkAccountOK ==
    ASSUME IInv, NEW r \in Requests, LinkAccount(r)
    PROVE  IInv'
<1> DEFINE bound == accounts[req[r].identity] # None
           p == Goto(req[r], "link_save")
           q == [p EXCEPT !.bound = bound]
<1>1. /\ req[r] \in Req /\ LaneOK(req[r]) /\ At(r, "link_account")
      /\ UNCHANGED <<database, redis, signIns>>
  BY DEF IInv, TypeOK, LinkAccount
<1>2. Leave(r) \/ To(r, q)
  BY DEF LinkAccount, Goto
<1>3. /\ p \in Req /\ p.pc = "link_save" /\ p.user = req[r].user
      /\ SameHold(p, req[r])
  BY <1>1, GotoFields DEF PCs
<1> HIDE DEF p
<1>4. /\ q \in Req /\ q.pc = "link_save" /\ q.user = req[r].user
      /\ SameHold(q, req[r])
  BY <1>3 DEF Req, SameHold
<1> HIDE DEF q
<1>5. req[r].user \in UserIds /\ users[req[r].user] # None
  BY <1>1 DEF At, LaneOK, LaneFacts
<1>6. QED
  BY <1>1, <1>2, <1>4, <1>5, LeaveOK, GoOnOK DEF At, LoginPCs, LinkPCs

-----------------------------------------------------------------------------
(* Steps that change Redis, the tables or the history.                     *)

\* How Redis and the tables evolve: a state drawn stays known and, once spent,
\* stays spent; a user and a binding stay.
Grows ==
    /\ \A s \in States :
          started[s] # None => /\ started'[s] = started[s]
                               /\ states[s] = None => /\ states'[s] = None
                                                      /\ uses'[s] = uses[s]
    /\ \A u \in UserIds : users[u] # None => users'[u] # None
    /\ \A i \in Identity : accounts[i] # None => accounts'[i] = accounts[i]

\* No such step takes from a callback what it relies on.
LEMMA OthersOK ==
    ASSUME IInv, NEW r \in Requests, req'[r] = req[r], Grows
    PROVE  LaneOK(req[r])'
<1>1. req[r] \in Req /\ LaneShape(req[r]) /\ LaneFacts(req[r])
  BY DEF IInv, TypeOK, LaneOK
<1>2. ASSUME req[r].pc # "idle"
      PROVE  /\ states'[req[r].state] = None /\ uses'[req[r].state] = 1
             /\ started'[req[r].state] = DrawnFor(req[r])
  <2>1. /\ req[r].state \in States
        /\ states[req[r].state] = None /\ uses[req[r].state] = 1
        /\ started[req[r].state] = DrawnFor(req[r])
    BY <1>1, <1>2 DEF LaneShape, LaneFacts
  <2>2. started[req[r].state] # None
    BY <2>1 DEF IInv, TypeOK, StateLife
  <2>3. QED
    BY <2>1, <2>2 DEF Grows
<1>3. ASSUME req[r].pc \in {"load_user", "save_profile", "pair"}
      PROVE  req[r].user \in UserIds /\ accounts'[req[r].identity] = req[r].user
  BY <1>1, <1>3, OAuthAssumption DEF LaneShape, LaneFacts, LoginPCs, Grows
<1>4. ASSUME req[r].pc \in {"link_email", "link_account", "link_save"}
      PROVE  req[r].user \in UserIds /\ users'[req[r].user] # None
  BY <1>1, <1>4 DEF LaneFacts, Grows
<1>5. LaneFacts(req[r])'
  BY <1>2, <1>3, <1>4 DEF LaneFacts, DrawnFor
<1>6. LaneShape(req[r])'
  BY <1>1 DEF LaneShape
<1>7. QED
  BY <1>5, <1>6 DEF LaneOK

LEMMA DrawOK ==
    ASSUME IInv, NEW s \in States, NEW purpose \in Purpose, Draw(s, purpose),
           purpose.flow = "login" => purpose.user = None
    PROVE  IInv'
<1> DEFINE stored == [purpose |-> purpose, ttl |-> StateTTL]
<1>1. /\ started[s] = None
      /\ UNCHANGED <<users, accounts, req, uses, signIns>>
  BY DEF Draw, database
<1>2. stored \in Stored /\ stored.purpose = purpose
  BY OAuthAssumption DEF Stored
<1>3. states' = [states EXCEPT ![s] = stored]
  BY DEF Draw
<1> HIDE DEF stored
<1>4. \A x \in States :
          /\ states'[x] = IF x = s THEN stored ELSE states[x]
          /\ started'[x] = IF x = s THEN purpose ELSE started[x]
  BY <1>3 DEF Draw, IInv, TypeOK
<1>5. TypeOK'
  BY <1>1, <1>2, <1>3 DEF Draw, IInv, TypeOK
<1>6. StateLife'
  BY <1>1, <1>2, <1>4, NoneIsNoRecord DEF IInv, StateLife
<1>7. Grows
  BY <1>1, <1>4 DEF Grows
<1>8. \A r \in Requests : LaneOK(req[r])'
  BY <1>1, <1>7, OthersOK
<1>9. StateUsedOnce' /\ EmailUnique' /\ ForeignKey' /\ SignInsByOwner' /\ NobodyLockedOut'
  BY <1>1 DEF IInv, StateUsedOnce, EmailUnique, ForeignKey, SignInsByOwner, NobodyLockedOut
<1>10. QED
  BY <1>5, <1>6, <1>8, <1>9 DEF IInv

LEMMA StartOK ==
    ASSUME IInv, NEW s \in States, NEW p \in Providers,
           StartLogin(s, p) \/ \E u \in UserIds : StartLink(s, p, u)
    PROVE  IInv'
<1>1. CASE StartLogin(s, p)
  <2> DEFINE purpose == [provider |-> p, flow |-> "login", user |-> None]
  <2>1. purpose \in Purpose /\ purpose.user = None
    BY DEF Purpose, Flows
  <2>2. Draw(s, purpose)
    BY <1>1 DEF StartLogin
  <2> HIDE DEF purpose
  <2>3. QED
    BY <2>1, <2>2, DrawOK
<1>2. CASE \E u \in UserIds : StartLink(s, p, u)
  <2>1. PICK u \in UserIds : StartLink(s, p, u)
    BY <1>2
  <2> DEFINE purpose == [provider |-> p, flow |-> "link", user |-> u]
  <2>2. purpose \in Purpose /\ purpose.flow = "link"
    BY DEF Purpose, Flows
  <2>3. Draw(s, purpose)
    BY <2>1 DEF StartLink
  <2> HIDE DEF purpose
  <2>4. QED
    BY <2>2, <2>3, DrawOK
<1>3. QED
  BY <1>1, <1>2

LEMMA ConsumeOK ==
    ASSUME IInv, NEW r \in Requests, NEW s \in States, NEW p \in Providers,
           NEW flow \in Flows, Consume(r, s, p, flow)
    PROVE  IInv'
<1>1. /\ states[s] \in Stored /\ states[s].purpose.provider = p
      /\ states[s] # None /\ started[s] = states[s].purpose /\ uses[s] = 0
  BY DEF Consume, Found, IInv, TypeOK, StateLife
<1>2. /\ states' = [states EXCEPT ![s] = None]
      /\ UNCHANGED <<users, accounts, started, signIns>>
  BY DEF Consume, Burned, database
<1>3. \A x \in States : states'[x] = IF x = s THEN None ELSE states[x]
  BY <1>2 DEF IInv, TypeOK
<1>4. started[s] # None /\ started[s] \in Purpose
  BY <1>1, NoneIsNoRecord DEF Stored
<1>5. EmailUnique' /\ ForeignKey' /\ SignInsByOwner' /\ NobodyLockedOut'
  BY <1>2 DEF IInv, EmailUnique, ForeignKey, SignInsByOwner, NobodyLockedOut
<1>6. states' \in [States -> Stored \union {None}]
  BY <1>2 DEF IInv, TypeOK
<1>7. CASE ~ExpectedFlow(s, flow)
  <2>1. UNCHANGED <<req, uses>>
    BY <1>7 DEF Consume
  <2>2. TypeOK' /\ StateUsedOnce' /\ StateLife'
    BY <1>1, <1>2, <1>3, <1>6, <2>1 DEF IInv, TypeOK, StateUsedOnce, StateLife
  <2>3. Grows
    BY <1>2, <1>3, <2>1 DEF Grows
  <2>4. QED
    BY <1>5, <2>1, <2>2, <2>3, OthersOK DEF IInv
<1>8. CASE ExpectedFlow(s, flow)
  <2> DEFINE user == states[s].purpose.user
             p1 == [IdleReq EXCEPT !.pc = "provider"]
             p2 == [p1 EXCEPT !.state = s]
             p3 == [p2 EXCEPT !.flow = flow]
             p4 == [p3 EXCEPT !.provider = p]
             q  == [p4 EXCEPT !.user = user]
  <2>1. To(r, q)
    BY <1>8 DEF Consume
  <2>2. uses' = [uses EXCEPT ![s] = 1]
    BY <1>1, <1>8 DEF Consume
  <2>3. /\ user \in UserIds \union {None}
        /\ states[s].purpose.flow = flow
        /\ flow = "login" => user = None
    BY <1>1, <1>4, <1>8 DEF ExpectedFlow, Stored, Purpose, IInv, StateLife
  <2> HIDE DEF user
  <2>4. /\ q \in Req
        /\ q.pc = "provider" /\ q.state = s /\ q.flow = flow /\ q.provider = p
        /\ q.user = user /\ q.vouched = FALSE
    <3>1. p1 \in Req /\ p1.pc = "provider" /\ p1.vouched = FALSE
      BY IdleReqOK DEF Req, PCs, IdleReq
    <3> HIDE DEF p1
    <3>2. p2 \in Req /\ p2.pc = "provider" /\ p2.vouched = FALSE /\ p2.state = s
      BY <3>1 DEF Req
    <3> HIDE DEF p2
    <3>3. /\ p3 \in Req /\ p3.pc = "provider" /\ p3.vouched = FALSE /\ p3.state = s
          /\ p3.flow = flow
      BY <3>2 DEF Req
    <3> HIDE DEF p3
    <3>4. /\ p4 \in Req /\ p4.pc = "provider" /\ p4.vouched = FALSE /\ p4.state = s
          /\ p4.flow = flow /\ p4.provider = p
      BY <3>3 DEF Req
    <3> HIDE DEF p4
    <3>5. QED
      BY <2>3, <3>4 DEF Req
  <2> HIDE DEF q
  <2>5. /\ req' \in [Requests -> Req] /\ req'[r] = q
        /\ \A x \in Requests \ {r} : req'[x] = req[x]
    BY <2>1, <2>4 DEF To, IInv, TypeOK
  <2>6. \A x \in States : uses'[x] = IF x = s THEN 1 ELSE uses[x]
    BY <2>2 DEF IInv, TypeOK
  <2>7. TypeOK' /\ StateUsedOnce' /\ StateLife'
    <3>1. uses' \in [States -> 0..2]
      BY <2>2 DEF IInv, TypeOK
    <3>2. TypeOK'
      BY <1>2, <1>6, <2>5, <3>1 DEF IInv, TypeOK
    <3>3. StateUsedOnce'
      BY <2>6 DEF IInv, StateUsedOnce
    <3>4. StateLife'
      BY <1>2, <1>3, <1>4, <2>6 DEF IInv, StateLife
    <3>5. QED
      BY <3>2, <3>3, <3>4
  <2>8. Grows
    BY <1>1, <1>2, <1>3, <2>6 DEF Grows
  <2>9. DrawnFor(q) = started[s]
    <3>1. DrawnFor(q) = [provider |-> p, flow |-> flow, user |-> user]
      BY <2>3, <2>4 DEF DrawnFor, Flows
    <3>2. started[s] = [provider |-> started[s].provider, flow |-> started[s].flow,
                        user |-> started[s].user]
      BY <1>4 DEF Purpose
    <3>3. QED
      BY <1>1, <2>3, <3>1, <3>2 DEF user
  <2>10. LaneOK(req[r])'
    <3>1. LaneShape(req[r])'
      BY <2>4, <2>5 DEF LaneShape, LoginPCs, LinkPCs
    <3>2. DrawnFor(req[r])' = started[s]
      BY <2>5, <2>9 DEF DrawnFor
    <3>3. LaneFacts(req[r])'
      BY <1>2, <1>3, <2>4, <2>5, <2>6, <3>2 DEF LaneFacts
    <3>4. QED
      BY <3>1, <3>3 DEF LaneOK
  <2>11. \A x \in Requests : LaneOK(req[x])'
    BY <2>5, <2>8, <2>10, OthersOK
  <2>12. QED
    BY <1>5, <2>7, <2>11 DEF IInv
<1>9. QED
  BY <1>7, <1>8

\* Users change their verification at most, and none appears.
SameRows ==
    \A u \in UserIds :
        /\ users'[u] = None <=> users[u] = None
        /\ users[u] # None => /\ users'[u].email = users[u].email
                              /\ users'[u].password = users[u].password
                              /\ users[u].verified => users'[u].verified

\* user.email_verified = user.email_verified or identity.email_verified
LEMMA VerifiedRows ==
    ASSUME IInv, NEW q \in Req, q.user \in UserIds, users[q.user] # None,
           users' = Verified(q)
    PROVE  users' \in [UserIds -> UserRow \union {None}] /\ SameRows
<1> DEFINE row == [users[q.user] EXCEPT !.verified = TRUE]
<1>1. users[q.user] \in UserRow
  BY DEF IInv, TypeOK
<1>2. /\ row \in UserRow /\ row.verified = TRUE
      /\ row.email = users[q.user].email /\ row.password = users[q.user].password
  BY <1>1 DEF UserRow
<1>3. row # None
  BY <1>2, NoneIsNoRecord
<1>4. users' = users \/ users' = [users EXCEPT ![q.user] = row]
  BY <1>1 DEF Verified, IInv, TypeOK
<1> HIDE DEF row
<1>5. CASE users' = users
  BY <1>5 DEF IInv, TypeOK, SameRows
<1>6. CASE users' = [users EXCEPT ![q.user] = row]
  <2>1. \A u \in UserIds : users'[u] = IF u = q.user THEN row ELSE users[u]
    BY <1>6 DEF IInv, TypeOK
  <2>2. users' \in [UserIds -> UserRow \union {None}]
    BY <1>2, <1>6 DEF IInv, TypeOK
  <2>3. SameRows
    BY <1>2, <1>3, <2>1 DEF SameRows
  <2>4. QED
    BY <2>2, <2>3
<1>7. QED
  BY <1>4, <1>5, <1>6

LEMMA SaveProfileOK ==
    ASSUME IInv, NEW r \in Requests, SaveProfile(r)
    PROVE  IInv' /\ SameRows /\ accounts' = accounts
<1> DEFINE q == Goto(req[r], "pair")
<1>1. /\ req[r] \in Req /\ LaneOK(req[r]) /\ At(r, "save_profile")
      /\ UNCHANGED <<accounts, states, started, uses, signIns>>
  BY DEF IInv, TypeOK, SaveProfile, redis
<1>2. /\ req[r].user \in UserIds /\ req[r].identity \in Identity
      /\ accounts[req[r].identity] = req[r].user
  BY <1>1 DEF At, LaneOK, LaneShape, LaneFacts, LoginPCs
<1>3. users[req[r].user] # None
  BY <1>2, OAuthAssumption DEF IInv, TypeOK, ForeignKey
<1>4. users' \in [UserIds -> UserRow \union {None}] /\ SameRows
  BY <1>1, <1>2, <1>3, VerifiedRows DEF SaveProfile
<1>5. /\ q \in Req /\ q.pc = "pair" /\ q.user = req[r].user
      /\ SameHold(q, req[r])
  BY <1>1, GotoFields DEF PCs
<1>6. /\ req' \in [Requests -> Req] /\ req'[r] = q
      /\ \A s \in Requests \ {r} : req'[s] = req[s]
  BY <1>5 DEF SaveProfile, To, IInv, TypeOK
<1> HIDE DEF q
<1>7. TypeOK'
  BY <1>1, <1>4, <1>6 DEF IInv, TypeOK
<1>8. StateLife' /\ StateUsedOnce' /\ SignInsByOwner'
  BY <1>1 DEF IInv, StateLife, StateUsedOnce, SignInsByOwner
<1>9. EmailUnique' /\ NobodyLockedOut' /\ ForeignKey'
  BY <1>1, <1>4 DEF IInv, TypeOK, SameRows, EmailUnique, NobodyLockedOut, ForeignKey
<1>10. Grows
  BY <1>1, <1>4 DEF Grows, SameRows
<1>11. LaneOK(req[r])'
  <2>1. LaneShape(req[r])'
    BY <1>1, <1>5, <1>6 DEF At, LaneOK, LaneShape, SameHold, LoginPCs, LinkPCs
  <2>2. DrawnFor(req[r])' = DrawnFor(req[r])
    BY <1>5, <1>6 DEF SameHold, DrawnFor
  <2>3. LaneFacts(req[r])'
    BY <1>1, <1>2, <1>5, <1>6, <2>2 DEF At, LaneOK, LaneFacts, SameHold
  <2>4. QED
    BY <2>1, <2>3 DEF LaneOK
<1>12. QED
  BY <1>1, <1>4, <1>6, <1>7, <1>8, <1>9, <1>10, <1>11, OthersOK DEF IInv

\* A new row with an address nobody has, for a user without a row.
LEMMA NewUser ==
    ASSUME IInv, NEW u \in UserIds, users[u] = None, NEW row \in UserRow,
           ~EmailTaken(row.email), users' = [users EXCEPT ![u] = row]
    PROVE  /\ users' \in [UserIds -> UserRow \union {None}]
           /\ \A v \in UserIds : users'[v] = IF v = u THEN row ELSE users[v]
           /\ users'[u] # None
           /\ EmailUnique'
<1>1. /\ users' \in [UserIds -> UserRow \union {None}]
      /\ \A v \in UserIds : users'[v] = IF v = u THEN row ELSE users[v]
  BY DEF IInv, TypeOK
<1>2. EmailUnique'
  BY <1>1 DEF IInv, EmailUnique, EmailTaken
<1>3. row # None
  BY NoneIsNoRecord
<1>4. QED
  BY <1>1, <1>2, <1>3

\* What the successful branch of Create does.
LEMMA CreateStep ==
    ASSUME IInv, NEW r \in Requests, Create(r), ~(Leave(r) /\ UNCHANGED database)
    PROVE  /\ At(r, "create") /\ accounts[req[r].identity] = None
           /\ \E u \in UserIds :
                 LET row == [email |-> req[r].email, verified |-> req[r].vouched,
                             password |-> FALSE]
                 IN /\ users[u] = None /\ row \in UserRow /\ ~EmailTaken(row.email)
                    /\ users' = [users EXCEPT ![u] = row]
                    /\ accounts' = [accounts EXCEPT ![req[r].identity] = u]
                    /\ To(r, GotoUser(req[r], "pair", u))
<1>1. req[r] \in Req /\ LaneOK(req[r]) /\ At(r, "create")
  BY DEF IInv, TypeOK, Create
<1>2. req[r].email \in Emails /\ req[r].vouched \in BOOLEAN
  BY <1>1 DEF At, LaneOK, LaneShape, LoginPCs, Req
<1>3. PICK u \in UserIds :
          /\ users[u] = None
          /\ users' = [users EXCEPT ![u] = [email |-> req[r].email,
                          verified |-> req[r].vouched, password |-> FALSE]]
          /\ accounts' = [accounts EXCEPT ![req[r].identity] = u]
          /\ To(r, [req[r] EXCEPT !.pc = "pair", !.user = u])
  BY DEF Create
<1>4. ~EmailTaken(req[r].email) /\ accounts[req[r].identity] = None
  BY DEF Create, EmailViolation, IdentityViolation
<1> DEFINE row == [email |-> req[r].email, verified |-> req[r].vouched,
                   password |-> FALSE]
<1>5. row \in UserRow /\ row.email = req[r].email
  BY <1>2 DEF UserRow
<1>6. users' = [users EXCEPT ![u] = row]
  BY <1>3
<1> HIDE DEF row
<1>7. To(r, GotoUser(req[r], "pair", u))
  BY <1>3 DEF GotoUser
<1>8. /\ users[u] = None /\ row \in UserRow /\ ~EmailTaken(row.email)
      /\ users' = [users EXCEPT ![u] = row]
      /\ accounts' = [accounts EXCEPT ![req[r].identity] = u]
      /\ To(r, GotoUser(req[r], "pair", u))
  BY <1>3, <1>4, <1>5, <1>6, <1>7
<1>9. QED
  BY <1>1, <1>4, <1>8 DEF row

LEMMA CreateOK ==
    ASSUME IInv, NEW r \in Requests, Create(r)
    PROVE  IInv'
<1>1. /\ req[r] \in Req /\ LaneOK(req[r]) /\ At(r, "create")
      /\ UNCHANGED <<states, started, uses, signIns>>
  BY DEF IInv, TypeOK, Create, redis
<1>2. CASE Leave(r) /\ UNCHANGED database
  BY <1>1, <1>2, LeaveOK DEF redis
<1>3. CASE ~(Leave(r) /\ UNCHANGED database)
  <2> DEFINE i == req[r].identity
  <2>1. i \in Identity /\ accounts[i] = None
    BY <1>1, <1>3 DEF At, LaneOK, LaneShape, LoginPCs, Create, IdentityViolation
  <2>2. PICK u \in UserIds :
            LET row == [email |-> req[r].email, verified |-> req[r].vouched,
                        password |-> FALSE]
            IN /\ users[u] = None /\ row \in UserRow /\ ~EmailTaken(row.email)
               /\ users' = [users EXCEPT ![u] = row]
               /\ accounts' = [accounts EXCEPT ![i] = u]
               /\ To(r, GotoUser(req[r], "pair", u))
    BY <1>3, CreateStep
  <2> DEFINE row == [email |-> req[r].email, verified |-> req[r].vouched,
                     password |-> FALSE]
             q == GotoUser(req[r], "pair", u)
  <2>3. /\ users[u] = None /\ row \in UserRow /\ ~EmailTaken(row.email)
        /\ users' = [users EXCEPT ![u] = row]
        /\ accounts' = [accounts EXCEPT ![i] = u]
        /\ To(r, q)
    BY <2>2
  <2>4. row.password = FALSE
    OBVIOUS
  <2> HIDE DEF row, i
  <2>5. /\ users' \in [UserIds -> UserRow \union {None}]
        /\ \A v \in UserIds : users'[v] = IF v = u THEN row ELSE users[v]
        /\ users'[u] # None /\ EmailUnique'
    BY <2>3, NewUser
  <2>6. \A j \in Identity : accounts'[j] = IF j = i THEN u ELSE accounts[j]
    BY <2>3 DEF IInv, TypeOK
  <2>7. /\ q \in Req /\ q.pc = "pair" /\ q.user = u
        /\ SameHold(q, req[r])
    BY <1>1, GotoUserFields DEF PCs
  <2>8. /\ req' \in [Requests -> Req] /\ req'[r] = q
        /\ \A s \in Requests \ {r} : req'[s] = req[s]
    BY <2>3, <2>7 DEF To, IInv, TypeOK
  <2> HIDE DEF q
  <2>9. TypeOK'
    BY <1>1, <2>3, <2>5, <2>8 DEF IInv, TypeOK
  <2>10. StateLife' /\ StateUsedOnce'
    BY <1>1 DEF IInv, StateLife, StateUsedOnce
  <2>11. ForeignKey'
    BY <2>3, <2>5, <2>6 DEF IInv, TypeOK, ForeignKey
  <2>12. SignInsByOwner'
    BY <1>1, <2>1, <2>6, OAuthAssumption DEF IInv, TypeOK, SignInsByOwner
  <2>13. NobodyLockedOut'
    <3>1. SUFFICES ASSUME NEW v \in UserIds, users'[v] # None, ~users'[v].password
                   PROVE  \E j \in Identity : accounts'[j] = v
      BY DEF NobodyLockedOut
    <3>2. CASE v = u
      BY <2>1, <2>6, <3>2
    <3>3. CASE v # u
      <4>1. PICK j \in Identity : accounts[j] = v
        BY <2>5, <3>1, <3>3 DEF IInv, NobodyLockedOut
      <4>2. j # i
        BY <2>1, <4>1, OAuthAssumption
      <4>3. QED
        BY <2>6, <4>1, <4>2
    <3>4. QED
      BY <3>2, <3>3
  <2>14. Grows
    BY <1>1, <2>1, <2>5, <2>6 DEF Grows
  <2>15. LaneOK(req[r])'
    <3>1. LaneShape(req[r])'
      BY <1>1, <2>7, <2>8 DEF At, LaneOK, LaneShape, SameHold, LoginPCs, LinkPCs
    <3>2. DrawnFor(req[r])' = DrawnFor(req[r])
      BY <1>1, <2>7, <2>8 DEF At, LaneOK, LaneShape, LoginPCs, SameHold, DrawnFor
    <3>3. accounts'[req'[r].identity] = u
      BY <2>1, <2>6, <2>7, <2>8 DEF SameHold, i
    <3>4. LaneFacts(req[r])'
      BY <1>1, <2>7, <2>8, <3>2, <3>3 DEF At, LaneOK, LaneFacts, SameHold
    <3>5. QED
      BY <3>1, <3>4 DEF LaneOK
  <2>16. QED
    BY <2>5, <2>8, <2>9, <2>10, <2>11, <2>12, <2>13, <2>14, <2>15, OthersOK DEF IInv
<1>4. QED
  BY <1>2, <1>3

LEMMA PairOK ==
    ASSUME IInv, NEW r \in Requests, Pair(r)
    PROVE  IInv'
<1>1. /\ req[r] \in Req /\ LaneOK(req[r]) /\ At(r, "pair")
      /\ UNCHANGED <<users, accounts, states, started, uses>>
  BY DEF IInv, TypeOK, Pair, database, redis
<1>2. /\ req[r].user \in UserIds /\ req[r].identity \in Identity
      /\ accounts[req[r].identity] = req[r].user
  BY <1>1 DEF At, LaneOK, LaneShape, LaneFacts, LoginPCs
<1>3. /\ req' \in [Requests -> Req] /\ req'[r] = IdleReq
      /\ \A s \in Requests \ {r} : req'[s] = req[s]
  BY IdleReqOK DEF Pair, Leave, To, IInv, TypeOK
<1> DEFINE new == [user |-> req[r].user, identity |-> req[r].identity]
<1>4. new.user = req[r].user /\ new.identity = req[r].identity
  OBVIOUS
<1>5. signIns' = signIns \union {new} /\ new \in [user : UserIds, identity : Identity]
  BY <1>2 DEF Pair
<1> HIDE DEF new
<1>6. TypeOK'
  BY <1>1, <1>3, <1>5 DEF IInv, TypeOK
<1>7. SignInsByOwner'
  BY <1>1, <1>2, <1>4, <1>5 DEF IInv, SignInsByOwner
<1>8. StateLife' /\ StateUsedOnce' /\ EmailUnique' /\ ForeignKey' /\ NobodyLockedOut'
  BY <1>1 DEF IInv, StateLife, StateUsedOnce, EmailUnique, ForeignKey, NobodyLockedOut
<1>9. Grows
  BY <1>1 DEF Grows
<1>10. LaneOK(req[r])'
  BY <1>3 DEF LaneOK, LaneShape, LaneFacts, IdleReq, LoginPCs, LinkPCs
<1>11. QED
  BY <1>3, <1>6, <1>7, <1>8, <1>9, <1>10, OthersOK DEF IInv

\* The branch of LinkSave that commits.
LEMMA LinkSaveStep ==
    ASSUME IInv, NEW r \in Requests, LinkSave(r), ~UNCHANGED database
    PROVE  /\ At(r, "link_save")
           /\ req[r].user \in UserIds /\ users[req[r].user] # None
           /\ req[r].identity \in Identity
           /\ users' \in [UserIds -> UserRow \union {None}] /\ SameRows
           /\ \/ accounts' = accounts
              \/ /\ accounts[req[r].identity] = None
                 /\ accounts' = [accounts EXCEPT ![req[r].identity] = req[r].user]
<1>1. req[r] \in Req /\ LaneOK(req[r]) /\ At(r, "link_save")
  BY DEF IInv, TypeOK, LinkSave
<1>2. /\ req[r].user \in UserIds /\ users[req[r].user] # None
      /\ req[r].identity \in Identity
  BY <1>1 DEF At, LaneOK, LaneShape, LaneFacts, LinkPCs
<1>3. /\ users' = Verified(req[r])
      /\ \/ accounts' = accounts
         \/ /\ accounts[req[r].identity] = None
            /\ accounts' = [accounts EXCEPT ![req[r].identity] = req[r].user]
  BY DEF LinkSave, IdentityViolation
<1>4. users' \in [UserIds -> UserRow \union {None}] /\ SameRows
  BY <1>1, <1>2, <1>3, VerifiedRows
<1>5. QED
  BY <1>1, <1>2, <1>3, <1>4

LEMMA LinkSaveOK ==
    ASSUME IInv, NEW r \in Requests, LinkSave(r)
    PROVE  IInv'
<1>1. Leave(r) /\ UNCHANGED <<states, started, uses, signIns>>
  BY DEF LinkSave, redis
<1>2. CASE UNCHANGED database
  BY <1>1, <1>2, LeaveOK DEF redis
<1>3. CASE ~UNCHANGED database
  <2> DEFINE u == req[r].user
             i == req[r].identity
  <2>1. /\ u \in UserIds /\ users[u] # None /\ i \in Identity
        /\ users' \in [UserIds -> UserRow \union {None}] /\ SameRows
        /\ \/ accounts' = accounts
           \/ accounts[i] = None /\ accounts' = [accounts EXCEPT ![i] = u]
    BY <1>3, LinkSaveStep
  <2> HIDE DEF u, i
  <2>2. /\ req' \in [Requests -> Req] /\ req'[r] = IdleReq
        /\ \A s \in Requests \ {r} : req'[s] = req[s]
    BY <1>1, IdleReqOK DEF Leave, To, IInv, TypeOK
  <2>3. /\ accounts' \in [Identity -> UserIds \union {None}]
        /\ \A j \in Identity :
              /\ accounts[j] # None => accounts'[j] = accounts[j]
              /\ accounts'[j] = accounts[j] \/ accounts'[j] = u
    BY <2>1 DEF IInv, TypeOK
  <2>4. TypeOK'
    BY <1>1, <2>1, <2>2, <2>3 DEF IInv, TypeOK
  <2>5. StateLife' /\ StateUsedOnce'
    BY <1>1 DEF IInv, StateLife, StateUsedOnce
  <2>6. EmailUnique'
    BY <2>1 DEF IInv, TypeOK, SameRows, EmailUnique
  <2>7. ForeignKey'
    BY <2>1, <2>3 DEF IInv, TypeOK, SameRows, ForeignKey
  <2>8. SignInsByOwner'
    BY <1>1, <2>3, OAuthAssumption DEF IInv, TypeOK, SignInsByOwner
  <2>9. NobodyLockedOut'
    BY <2>1, <2>3, OAuthAssumption DEF IInv, TypeOK, SameRows, NobodyLockedOut
  <2>10. Grows
    BY <1>1, <2>1, <2>3 DEF Grows, SameRows
  <2>11. LaneOK(req[r])'
    BY <2>2 DEF LaneOK, LaneShape, LaneFacts, IdleReq, LoginPCs, LinkPCs
  <2>12. QED
    BY <2>2, <2>4, <2>5, <2>6, <2>7, <2>8, <2>9, <2>10, <2>11, OthersOK DEF IInv
<1>4. QED
  BY <1>2, <1>3

LEMMA RegisterOK ==
    ASSUME IInv, NEW u \in UserIds, NEW e \in Emails, Register(u, e)
    PROVE  IInv'
<1> DEFINE row == [email |-> e, verified |-> FALSE, password |-> TRUE]
<1>1. /\ row \in UserRow /\ row.email = e /\ row.password = TRUE
  BY DEF UserRow
<1>2. /\ users[u] = None /\ ~EmailTaken(e)
      /\ users' = [users EXCEPT ![u] = row]
      /\ UNCHANGED <<accounts, req, states, started, uses, signIns>>
  BY DEF Register, EmailViolation, redis
<1> HIDE DEF row
<1>3. /\ users' \in [UserIds -> UserRow \union {None}]
      /\ \A v \in UserIds : users'[v] = IF v = u THEN row ELSE users[v]
      /\ users'[u] # None /\ EmailUnique'
  BY <1>1, <1>2, NewUser
<1>4. TypeOK'
  BY <1>2, <1>3 DEF IInv, TypeOK
<1>5. StateLife' /\ StateUsedOnce' /\ SignInsByOwner'
  BY <1>2 DEF IInv, StateLife, StateUsedOnce, SignInsByOwner
<1>6. ForeignKey'
  BY <1>2, <1>3 DEF IInv, TypeOK, ForeignKey
<1>7. NobodyLockedOut'
  BY <1>1, <1>2, <1>3 DEF IInv, NobodyLockedOut
<1>8. Grows
  BY <1>2, <1>3 DEF Grows
<1>9. QED
  BY <1>2, <1>3, <1>4, <1>5, <1>6, <1>7, <1>8, OthersOK DEF IInv

\* Time to live counts down; what a key says does not change.
LEMMA AgedState ==
    ASSUME NEW stored \in Stored \union {None}
    PROVE  /\ Aged(stored) \in Stored \union {None}
           /\ stored = None => Aged(stored) = None
           /\ Aged(stored) # None => Aged(stored).purpose = stored.purpose
<1>1. CASE stored = None
  BY <1>1 DEF Aged
<1>2. CASE stored \in Stored
  <2>1. stored.purpose \in Purpose /\ stored.ttl \in 1..StateTTL /\ StateTTL \in Nat
    BY <1>2, OAuthAssumption DEF Stored
  <2>2. CASE stored.ttl # 1 /\ stored.ttl # None
    <3> DEFINE aged == [purpose |-> stored.purpose, ttl |-> stored.ttl - 1]
    <3>1. stored.ttl - 1 \in 1..StateTTL
      BY <2>1, <2>2
    <3>2. aged \in Stored /\ aged.purpose = stored.purpose
      BY <2>1, <3>1 DEF Stored
    <3>3. Aged(stored) = aged
      BY <1>2, <2>2, NoneIsNoRecord DEF Aged
    <3> HIDE DEF aged
    <3>4. QED
      BY <1>2, <3>2, <3>3, NoneIsNoRecord
  <2>3. CASE stored.ttl = 1 \/ stored.ttl = None
    BY <1>2, <2>3 DEF Aged
  <2>4. QED
    BY <2>2, <2>3
<1>3. QED
  BY <1>1, <1>2

LEMMA TickOK ==
    ASSUME IInv, Tick
    PROVE  IInv'
<1>1. /\ UNCHANGED <<users, accounts, req, started, uses, signIns>>
      /\ states' = [s \in States |-> Aged(states[s])]
  BY DEF Tick, database
<1>2. \A s \in States :
          /\ states'[s] \in Stored \union {None}
          /\ states[s] = None => states'[s] = None
          /\ states'[s] # None => states'[s].purpose = states[s].purpose
  BY <1>1, AgedState DEF IInv, TypeOK
<1>3. TypeOK'
  BY <1>1, <1>2 DEF IInv, TypeOK
<1>4. StateLife'
  BY <1>1, <1>2 DEF IInv, StateLife
<1>5. StateUsedOnce' /\ EmailUnique' /\ ForeignKey' /\ SignInsByOwner' /\ NobodyLockedOut'
  BY <1>1 DEF IInv, StateUsedOnce, EmailUnique, ForeignKey, SignInsByOwner, NobodyLockedOut
<1>6. Grows
  BY <1>1, <1>2 DEF Grows
<1>7. QED
  BY <1>1, <1>3, <1>4, <1>5, <1>6, OthersOK DEF IInv

LEMMA StutterOK ==
    ASSUME IInv, UNCHANGED vars
    PROVE  IInv'
<1> USE DEF vars
<1>1. TypeOK' /\ StateLife' /\ StateUsedOnce'
  BY DEF IInv, TypeOK, StateLife, StateUsedOnce
<1>2. EmailUnique' /\ ForeignKey' /\ SignInsByOwner' /\ NobodyLockedOut'
  BY DEF IInv, EmailUnique, ForeignKey, SignInsByOwner, NobodyLockedOut
<1>3. Grows
  BY DEF Grows
<1>4. QED
  BY <1>1, <1>2, <1>3, OthersOK DEF IInv

-----------------------------------------------------------------------------
(* The invariant, and what it yields.                                      *)

LEMMA InitOK == Init => IInv
<1> SUFFICES ASSUME Init
             PROVE  IInv
  OBVIOUS
<1>1. /\ states = [s \in States |-> None] /\ users = [u \in UserIds |-> None]
      /\ accounts = [i \in Identity |-> None] /\ req = [r \in Requests |-> IdleReq]
      /\ started = [s \in States |-> None] /\ uses = [s \in States |-> 0]
      /\ signIns = {}
  BY DEF Init
<1>2. TypeOK
  BY <1>1, IdleReqOK DEF TypeOK
<1>3. StateLife /\ StateUsedOnce /\ EmailUnique /\ ForeignKey
  BY <1>1 DEF StateLife, StateUsedOnce, EmailUnique, ForeignKey
<1>4. SignInsByOwner /\ NobodyLockedOut
  BY <1>1 DEF SignInsByOwner, NobodyLockedOut
<1>5. \A r \in Requests : LaneOK(req[r])
  BY <1>1, IdleReqOK
<1>6. QED
  BY <1>2, <1>3, <1>4, <1>5 DEF IInv

LEMMA ProgressOK ==
    ASSUME IInv, NEW r \in Requests, Progress(r) \/ Abort(r)
    PROVE  IInv'
<1>1. Abort(r) => IInv'
  BY LeaveOK DEF Abort
<1>2. QED
  BY <1>1, IdentifyOK, FindAccountOK, LoadUserOK, SaveProfileOK, FindEmailOK, CreateOK,
     PairOK, LinkLoadOK, LinkEmailOK, LinkAccountOK, LinkSaveOK
  DEF Progress

LEMMA NextOK == IInv /\ [Next]_vars => IInv'
<1> SUFFICES ASSUME IInv, [Next]_vars
             PROVE  IInv'
  OBVIOUS
<1>1. CASE \E s \in States, p \in Providers :
               StartLogin(s, p) \/ \E u \in UserIds : StartLink(s, p, u)
  BY <1>1, StartOK
<1>2. CASE \E r \in Requests, s \in States, p \in Providers, flow \in Flows :
               Consume(r, s, p, flow)
  BY <1>2, ConsumeOK
<1>3. CASE \E r \in Requests : Progress(r) \/ Abort(r)
  BY <1>3, ProgressOK
<1>4. CASE \E u \in UserIds, e \in Emails : Register(u, e)
  BY <1>4, RegisterOK
<1>5. CASE Tick \/ UNCHANGED vars
  BY <1>5, TickOK, StutterOK
<1>6. QED
  BY <1>1, <1>2, <1>3, <1>4, <1>5 DEF Next

THEOREM Invariance == Spec => []IInv
BY InitOK, NextOK, PTL DEF Spec

\* Every variable keeps to the shape of its table, Redis key or handler.
THEOREM TypeCorrect == Spec => []TypeOK
<1>1. IInv => TypeOK
  BY DEF IInv
<1>2. QED
  BY <1>1, Invariance, PTL

\* consume_oauth_state: of all callbacks that present a state, one gets in.
THEOREM StatesLetOneIn == Spec => []StateUsedOnce
<1>1. IInv => StateUsedOnce
  BY DEF IInv
<1>2. QED
  BY <1>1, Invariance, PTL

\* register_user and get_or_create_oauth_user: no interleaving doubles an address.
THEOREM EmailsStayUnique == Spec => []EmailUnique
<1>1. IInv => EmailUnique
  BY DEF IInv
<1>2. QED
  BY <1>1, Invariance, PTL

\* oauth_callback: a pair goes to the user the identity belongs to, still.
THEOREM SignInsAreTheOwners == Spec => []SignInsByOwner
<1>1. IInv => SignInsByOwner
  BY DEF IInv
<1>2. QED
  BY <1>1, Invariance, PTL

\* get_or_create_oauth_user: user and account are committed together.
THEOREM NobodyIsLockedOut == Spec => []NobodyLockedOut
<1>1. IInv => NobodyLockedOut
  BY DEF IInv
<1>2. QED
  BY <1>1, Invariance, PTL

-----------------------------------------------------------------------------
(* What a step may do.                                                     *)

\* Which steps touch the tables.
LEMMA StepKinds ==
    ASSUME IInv, [Next]_vars
    PROVE  \/ UNCHANGED database
           \/ SameRows /\ accounts' = accounts
           \/ \E r \in Requests : Create(r) /\ ~UNCHANGED database
           \/ \E r \in Requests : LinkSave(r) /\ ~UNCHANGED database
           \/ \E u \in UserIds, e \in Emails : Register(u, e)
<1>1. ASSUME NEW s \in States, NEW p \in Providers,
             StartLogin(s, p) \/ \E u \in UserIds : StartLink(s, p, u)
      PROVE  UNCHANGED database
  BY <1>1 DEF StartLogin, StartLink, Draw
<1>2. ASSUME NEW r \in Requests, NEW s \in States, NEW p \in Providers,
             NEW flow \in Flows, Consume(r, s, p, flow)
      PROVE  UNCHANGED database
  BY <1>2 DEF Consume
<1>3. ASSUME NEW r \in Requests, Progress(r) \/ Abort(r)
      PROVE  \/ UNCHANGED database
             \/ SameRows /\ accounts' = accounts
             \/ Create(r) \/ LinkSave(r)
  BY <1>3, SaveProfileOK
  DEF Progress, Abort, Identify, FindAccount, LoadUser, FindEmail, Pair, LinkLoad,
      LinkEmail, LinkAccount
<1>4. ASSUME Tick \/ UNCHANGED vars
      PROVE  UNCHANGED database
  BY <1>4 DEF Tick, vars, database
<1>5. QED
  BY <1>1, <1>2, <1>3, <1>4 DEF Next

\* The unique constraint and the transactions: nobody takes an identity over.
THEOREM IdentitiesAreKept == Spec => IdentityKept
<1> DEFINE Kept == \A i \in Identity : accounts[i] # None => accounts'[i] = accounts[i]
<1>1. IInv /\ [Next]_vars => [Kept]_vars
  <2> SUFFICES ASSUME IInv, [Next]_vars, NEW i \in Identity, accounts[i] # None
               PROVE  accounts'[i] = accounts[i]
    OBVIOUS
  <2>1. CASE accounts' = accounts
    BY <2>1
  <2>2. CASE \E r \in Requests : Create(r) /\ ~UNCHANGED database
    <3>1. PICK r \in Requests : Create(r) /\ ~UNCHANGED database
      BY <2>2
    <3>2. /\ accounts[req[r].identity] = None
          /\ \E u \in UserIds : accounts' = [accounts EXCEPT ![req[r].identity] = u]
      BY <3>1, CreateStep
    <3>3. QED
      BY <3>2 DEF IInv, TypeOK
  <2>3. CASE \E r \in Requests : LinkSave(r) /\ ~UNCHANGED database
    BY <2>3, LinkSaveStep DEF IInv, TypeOK
  <2>4. QED
    BY <2>1, <2>2, <2>3, StepKinds DEF Register, database
<1>2. QED
  BY <1>1, Invariance, PTL DEF Spec, IdentityKept

\* link_oauth_account_to_user and the state: only who started a link gets it.
THEOREM OnlyTheStarterLinks == Spec => LinkedByStarter
<1> DEFINE Purposed(u, i) ==
               IF users[u] = None
               THEN [provider |-> i.provider, flow |-> "login", user |-> None]
               ELSE [provider |-> i.provider, flow |-> "link", user |-> u]
           Linked ==
               \A i \in Identity :
                   accounts'[i] # accounts[i] =>
                       \E r \in Requests, s \in States :
                           /\ req[r].identity = i /\ req[r].state = s
                           /\ uses[s] = 1
                           /\ started[s] = Purposed(accounts'[i], i)
<1>1. IInv /\ [Next]_vars => [Linked]_vars
  <2> SUFFICES ASSUME IInv, [Next]_vars, NEW i \in Identity, accounts'[i] # accounts[i]
               PROVE  \E r \in Requests, s \in States :
                          /\ req[r].identity = i /\ req[r].state = s
                          /\ uses[s] = 1
                          /\ started[s] = Purposed(accounts'[i], i)
    OBVIOUS
  <2>1. CASE \E r \in Requests : Create(r) /\ ~UNCHANGED database
    <3>1. PICK r \in Requests : Create(r) /\ ~UNCHANGED database
      BY <2>1
    <3>2. At(r, "create") /\ LaneOK(req[r])
      BY <3>1, CreateStep DEF IInv
    <3>3. PICK u \in UserIds :
              users[u] = None /\ accounts' = [accounts EXCEPT ![req[r].identity] = u]
      BY <3>1, CreateStep
    <3>4. i = req[r].identity /\ accounts'[i] = u
      BY <3>3 DEF IInv, TypeOK
    <3>5. /\ req[r].state \in States /\ uses[req[r].state] = 1
          /\ req[r].flow = "login" /\ i.provider = req[r].provider
          /\ started[req[r].state] = DrawnFor(req[r])
      BY <3>2, <3>4 DEF At, LaneOK, LaneShape, LaneFacts, LoginPCs
    <3>6. started[req[r].state] = Purposed(accounts'[i], i)
      BY <3>3, <3>4, <3>5 DEF DrawnFor
    <3>7. QED
      BY <3>4, <3>5, <3>6
  <2>2. CASE \E r \in Requests : LinkSave(r) /\ ~UNCHANGED database
    <3>1. PICK r \in Requests : LinkSave(r) /\ ~UNCHANGED database
      BY <2>2
    <3>2. At(r, "link_save") /\ LaneOK(req[r])
      BY <3>1, LinkSaveStep DEF IInv
    <3>3. /\ users[req[r].user] # None
          /\ accounts' = [accounts EXCEPT ![req[r].identity] = req[r].user]
      BY <3>1, LinkSaveStep
    <3>4. i = req[r].identity /\ accounts'[i] = req[r].user
      BY <3>3 DEF IInv, TypeOK
    <3>5. /\ req[r].state \in States /\ uses[req[r].state] = 1
          /\ req[r].flow = "link" /\ i.provider = req[r].provider
          /\ started[req[r].state] = DrawnFor(req[r])
      BY <3>2, <3>4 DEF At, LaneOK, LaneShape, LaneFacts, LinkPCs
    <3>6. started[req[r].state] = Purposed(accounts'[i], i)
      BY <3>3, <3>4, <3>5 DEF DrawnFor
    <3>7. QED
      BY <3>4, <3>5, <3>6
  <2>3. QED
    BY <2>1, <2>2, StepKinds DEF Register, database
<1>2. QED
  BY <1>1, Invariance, PTL DEF Spec, LinkedByStarter

\* _fetch_github_identity: the flag a new account gets is about its own address.
THEOREM NewAccountsAreProved == Spec => BornVerified
<1> DEFINE Born ==
        \A u \in UserIds :
            users[u] = None /\ users'[u] # None /\ users'[u].verified =>
                \E r \in Requests : /\ At(r, "create") /\ req[r].proved
                                    /\ req[r].email = users'[u].email
<1>1. IInv /\ [Next]_vars => [Born]_vars
  <2> SUFFICES ASSUME IInv, [Next]_vars, NEW u \in UserIds,
                      users[u] = None, users'[u] # None, users'[u].verified
               PROVE  \E r \in Requests : /\ At(r, "create") /\ req[r].proved
                                          /\ req[r].email = users'[u].email
    OBVIOUS
  <2>1. CASE UNCHANGED database \/ SameRows
    BY <2>1 DEF SameRows, database
  <2>2. CASE \E r \in Requests : Create(r) /\ ~UNCHANGED database
    <3>1. PICK r \in Requests : Create(r) /\ ~UNCHANGED database
      BY <2>2
    <3> DEFINE row == [email |-> req[r].email, verified |-> req[r].vouched,
                       password |-> FALSE]
    <3>2. PICK v \in UserIds : users' = [users EXCEPT ![v] = row]
      BY <3>1, CreateStep
    <3>3. row.email = req[r].email /\ row.verified = req[r].vouched
      OBVIOUS
    <3> HIDE DEF row
    <3>4. users'[u] = row
      BY <3>2 DEF IInv, TypeOK
    <3>5. At(r, "create") /\ LaneShape(req[r])
      BY <3>1, CreateStep DEF IInv, LaneOK
    <3>6. req[r].proved
      BY <3>3, <3>4, <3>5 DEF LaneShape
    <3>7. QED
      BY <3>3, <3>4, <3>5, <3>6
  <2>3. CASE \E r \in Requests : LinkSave(r) /\ ~UNCHANGED database
    BY <2>3, LinkSaveStep DEF SameRows
  <2>4. CASE \E v \in UserIds, e \in Emails : Register(v, e)
    <3>1. PICK v \in UserIds, e \in Emails :
              users' = [users EXCEPT ![v] =
                           [email |-> e, verified |-> FALSE, password |-> TRUE]]
      BY <2>4 DEF Register
    <3>2. users'[u] = [email |-> e, verified |-> FALSE, password |-> TRUE]
      BY <3>1 DEF IInv, TypeOK
    <3>3. QED
      BY <3>2
  <2>5. QED
    BY <2>1, <2>2, <2>3, <2>4, StepKinds
<1>2. QED
  BY <1>1, Invariance, PTL DEF Spec, BornVerified

\* The UPDATE that names email_verified only when it turns true.
THEOREM VerificationStays == Spec => VerifiedSticks
<1> DEFINE Sticks ==
        \A u \in UserIds : users[u] # None /\ users[u].verified => users'[u].verified
<1>1. IInv /\ [Next]_vars => [Sticks]_vars
  <2> SUFFICES ASSUME IInv, [Next]_vars, NEW u \in UserIds,
                      users[u] # None, users[u].verified
               PROVE  users'[u].verified
    OBVIOUS
  <2>1. CASE UNCHANGED database \/ SameRows
    BY <2>1 DEF SameRows, database
  <2>2. CASE \E r \in Requests : Create(r) /\ ~UNCHANGED database
    <3>1. PICK r \in Requests : Create(r) /\ ~UNCHANGED database
      BY <2>2
    <3>2. PICK v \in UserIds :
              /\ users[v] = None
              /\ users' = [users EXCEPT ![v] =
                              [email |-> req[r].email, verified |-> req[r].vouched,
                               password |-> FALSE]]
      BY <3>1, CreateStep
    <3>3. users'[u] = users[u]
      BY <3>2 DEF IInv, TypeOK
    <3>4. QED
      BY <3>3
  <2>3. CASE \E r \in Requests : LinkSave(r) /\ ~UNCHANGED database
    BY <2>3, LinkSaveStep DEF SameRows
  <2>4. CASE \E v \in UserIds, e \in Emails : Register(v, e)
    <3>1. PICK v \in UserIds, e \in Emails :
              /\ users[v] = None
              /\ users' = [users EXCEPT ![v] =
                              [email |-> e, verified |-> FALSE, password |-> TRUE]]
      BY <2>4 DEF Register
    <3>2. users'[u] = users[u]
      BY <3>1 DEF IInv, TypeOK
    <3>3. QED
      BY <3>2
  <2>5. QED
    BY <2>1, <2>2, <2>3, <2>4, StepKinds
<1>2. QED
  BY <1>1, Invariance, PTL DEF Spec, VerifiedSticks
=============================================================================
