------------------------- MODULE AuthSessionsProofs -------------------------
(***************************************************************************)
(* What AuthSessions guarantees for every number of lanes, users, tokens   *)
(* and every lifetime, proved from the inductive invariant IInv.           *)
(*                                                                         *)
(* TypeOK is not inductive: it says nothing of what a handler has in hand  *)
(* when it resumes.  IInv adds, for each point at which a handler can be   *)
(* suspended, what it has already established (LaneShape), and which of    *)
(* those facts the database still bears out, other requests notwithstand-  *)
(* ing (LaneFacts, LateLane).  On top of it, FInv says who a session       *)
(* belongs to and what a logout has done, and SInv what holds in addition  *)
(* when requests do not overlap.                                           *)
(***************************************************************************)
EXTENDS AuthSessions, TLAPS

RefreshTok == {tok \in Token : tok.type = "refresh" /\ tok.jti \in Jtis}

\* What a suspended handler holds, by the place where it is suspended.
LaneShape(q) ==
    /\ q.pc \in {"register_select", "register_insert"} =>
           q.op = "register" /\ q.email \in Emails
    /\ q.pc = "login_select" => q.op = "login" /\ q.email \in Emails
    /\ q.pc \in {"refresh_select", "refresh_check", "refresh_revoke",
                 "logout_select", "logout_revoke"} => q.tok \in RefreshTok
    /\ q.pc = "me_select" => q.op = "me" /\ q.tok \in Token
    /\ q.pc \in {"logout_select", "logout_revoke"} => q.op = "logout"
    /\ q.pc \in {"refresh_select", "refresh_check", "refresh_revoke"} => q.op = "refresh"
    /\ q.pc = "refresh_check" => q.row \in TokenRow
    /\ q.pc \in {"refresh_revoke", "mint", "insert"} => q.user \in UserIds
    /\ q.pc \in {"mint", "insert"} /\ q.op = "refresh" => q.tok \in RefreshTok
    /\ q.pc = "insert" => q.jti \in Jtis
    /\ q.pc # "reply" => q.status = 0
    /\ q.pc \notin {"insert", "reply"} => q.jti = None
    /\ q.status \in {200, 201} /\ q.op \in MintingOps =>
           q.user \in UserIds /\ q.jti \in Jtis
    /\ q.status = 204 => q.op = "logout" /\ q.tok \in RefreshTok
    /\ q.op = "me" => /\ q.pc \in {"me_select", "reply"}
                      /\ q.tok \in Token
                      /\ q.at < q.tok.iat + AccessTTL

\* What the tables say of it, whatever the other lanes have done since.
LaneFacts(q) ==
    /\ q.pc \in {"refresh_check", "refresh_revoke", "logout_revoke"} =>
           tokens[q.tok.jti] # None
    /\ q.pc \in {"mint", "insert"} /\ q.op = "refresh" => q.tok.jti \in Closed
    /\ q.pc = "insert" => tokens[q.jti] = None
    /\ q.status \in {200, 201} /\ q.op \in MintingOps =>
           /\ tokens[q.jti] # None
           /\ tokens[q.jti].user = q.user
           /\ tokens[q.jti].expires_at = q.at + RefreshTTL
    /\ q.barred \subseteq Barred
    /\ q.pc \in {"refresh_revoke", "mint", "insert"} \/ q.status \in {200, 201} =>
           q.op = "oauth" \/ q.user \notin q.barred

\* A request that came late is turned away before it can revoke or mint.
LateLane(q) ==
    q.late =>
        /\ q.pc \in {"refresh_select", "refresh_check", "logout_select",
                     "logout_revoke", "me_select", "reply"}
        /\ q.pc \in {"refresh_select", "refresh_check"} => q.tok.jti \in Closed
        /\ q.pc = "refresh_check" => q.row.revoked

LaneOK(q) == LaneShape(q) /\ LaneFacts(q) /\ LateLane(q)

\* A client's tokens: a refresh token has a jti, an access token its lifetime.
WellMade(tok) ==
    /\ tok.type = "refresh" => tok.jti \in Jtis
    /\ tok.type = "access" => tok.exp <= tok.iat + AccessTTL

WalletShape == \A tok \in wallet : WellMade(tok)

\* No two lanes draw the same uuid4.
JtisApart ==
    \A r, s \in Requests : r # s /\ req[r].jti = req[s].jti => req[r].jti = None

IInv ==
    /\ TypeOK
    /\ WalletShape
    /\ WalletBacked
    /\ NeverBothLive
    /\ EmailUnique
    /\ JtisApart
    /\ \A r \in Requests : LaneOK(req[r])

-----------------------------------------------------------------------------
(* Rounding down, and what the two kinds of token look like.               *)

\* A NumericDate is a number of ticks no later than the instant it rounds.
LEMMA NumericDateBound ==
    ASSUME NEW t \in Nat
    PROVE  NumericDate(t) \in Nat /\ NumericDate(t) <= t
<1>1. TicksPerSecond \in Nat \ {0}
  BY TimeAssumption
<1>2. t % TicksPerSecond \in 0..(TicksPerSecond - 1)
  BY <1>1, SMT
<1>3. t % TicksPerSecond <= t
  <2>1. t = (TicksPerSecond * (t \div TicksPerSecond)) + (t % TicksPerSecond)
    BY <1>1, SMT
  <2>2. t \div TicksPerSecond \in Nat
    BY <1>1, SMT
  <2>3. TicksPerSecond * (t \div TicksPerSecond) \in Nat
    BY <1>1, <2>2, SMT
  <2>4. QED
    BY <1>1, <1>2, <2>1, <2>3, SMT
<1>4. QED
  BY <1>1, <1>2, <1>3, SMT DEF NumericDate

\* Of two different multiples of a number, the larger is larger by that number.
LEMMA MultiplesApart ==
    ASSUME NEW n \in Nat, NEW a \in Int, NEW b \in Int, a < b
    PROVE  n * a + n <= n * b
<1> DEFINE d == b - a - 1
<1>1. d \in Nat /\ b = a + 1 + d
  OBVIOUS
<1> HIDE DEF d
<1>2. n * d \in Nat
  BY <1>1, SMT
<1>3. n * b = n * a + n + n * d
  BY <1>1, SMT
<1>4. n * a \in Int
  BY SMT
<1>5. QED
  BY <1>2, <1>3, <1>4, SMT

\* The configured lifetime is whole seconds: a later instant is rounded down
\* by as much as the earlier one.
LEMMA NumericDateShift ==
    ASSUME NEW t \in Nat
    PROVE  NumericDate(t + AccessTTL) = NumericDate(t) + AccessTTL
<1> DEFINE T == TicksPerSecond
           x == t + AccessTTL
           a == (t \div T) + (AccessTTL \div T)
           b == x \div T
           m == t % T
           n == x % T
<1>1. /\ T \in Nat \ {0} /\ AccessTTL \in Nat /\ x \in Nat
      /\ AccessTTL % T = 0
  BY TimeAssumption
<1>2. /\ t \div T \in Int /\ AccessTTL \div T \in Int /\ b \in Int
      /\ m \in 0..(T - 1) /\ n \in 0..(T - 1)
  BY <1>1, SMT
<1>3. /\ t = T * (t \div T) + m
      /\ AccessTTL = T * (AccessTTL \div T) + (AccessTTL % T)
      /\ x = T * b + n
  BY <1>1, SMT
<1>4. a \in Int /\ T * a = T * (t \div T) + T * (AccessTTL \div T)
  BY <1>1, <1>2, SMT
<1>5. T * a \in Int /\ T * b \in Int /\ x = T * a + m
  <2>1. T * (t \div T) \in Int /\ T * (AccessTTL \div T) \in Int /\ T * b \in Int
    BY <1>1, <1>2, SMT
  <2>2. x = T * (t \div T) + m + T * (AccessTTL \div T)
    BY <1>1, <1>2, <1>3, <2>1
  <2> HIDE DEF a, m, x, b
  <2>3. QED
    BY <1>1, <1>2, <1>4, <2>1, <2>2
<1>6. a < b => T * a + T <= T * b
  BY <1>1, <1>2, <1>4, MultiplesApart
<1>7. b < a => T * b + T <= T * a
  BY <1>1, <1>2, <1>4, MultiplesApart
<1>8. x = T * b + n
  BY <1>3
<1> HIDE DEF T, a, b, m, n, x
<1>9. m = n
  <2>1. CASE a = b
    BY <1>1, <1>2, <1>4, <1>5, <1>8, <2>1
  <2>2. CASE a < b
    BY <1>1, <1>2, <1>4, <1>5, <1>6, <1>8, <2>2
  <2>3. CASE b < a
    BY <1>1, <1>2, <1>4, <1>5, <1>7, <1>8, <2>3
  <2>4. QED
    BY <1>2, <1>4, <2>1, <2>2, <2>3
<1>10. NumericDate(x) = x - n /\ NumericDate(t) = t - m /\ x = t + AccessTTL
  BY DEF NumericDate, T, m, n, x
<1>11. QED
  BY <1>1, <1>2, <1>9, <1>10

\* Both tokens of a pair are tokens, and the refresh token does not outlive
\* the row InsertRefresh writes for it.
LEMMA PairTokens ==
    ASSUME NEW u \in UserIds, NEW j \in Jtis, NEW t \in Nat
    PROVE  /\ AccessToken(u, t) \in Token
           /\ AccessToken(u, t).exp = AccessToken(u, t).iat + AccessTTL
           /\ RefreshToken(u, j, t) \in Token
           /\ RefreshToken(u, j, t).exp <= t + RefreshTTL
<1>1. t + AccessTTL \in Nat /\ t + RefreshTTL \in Nat
  BY TimeAssumption
<1>2. QED
  BY <1>1, NumericDateBound, NumericDateShift DEF AccessToken, RefreshToken, Token

-----------------------------------------------------------------------------
(* The states a handler goes through.                                      *)

\* A lane that serves nothing.
LEMMA IdleReqOK ==
    /\ IdleReq \in Req
    /\ LaneOK(IdleReq)
    /\ IdleReq.pc = "idle"
    /\ IdleReq.op = "none" /\ IdleReq.jti = None /\ IdleReq.status = 0
    /\ IdleReq.barred = {} /\ IdleReq.late = FALSE /\ IdleReq.user = None
BY DEF IdleReq, Req, PCs, LaneOK, LaneShape, LaneFacts, LateLane, MintingOps

\* The fields an HTTPException leaves.
LEMMA RefusedFields ==
    ASSUME NEW status \in {401, 403, 409, 500}
    PROVE  LET q == Refused(status) IN
           /\ q \in Req
           /\ q.pc = "reply" /\ q.status = status /\ q.op = "none" /\ q.jti = None
           /\ q.barred = {} /\ q.late = FALSE
<1> DEFINE p == [IdleReq EXCEPT !.pc = "reply"]
<1>1. /\ p \in Req
      /\ p.pc = "reply" /\ p.op = "none" /\ p.jti = None
      /\ p.barred = {} /\ p.late = FALSE
  BY IdleReqOK DEF Req, PCs
<1>2. Refused(status) = [p EXCEPT !.status = status]
  BY DEF Refused
<1> HIDE DEF p
<1>3. QED
  BY <1>1, <1>2 DEF Req

\* Returning keeps everything but the program counter and the status.
LEMMA ReturnedFields ==
    ASSUME NEW q \in Req, NEW status \in {200, 201, 204}
    PROVE  LET n == Returned(q, status) IN
           /\ n \in Req
           /\ n.pc = "reply" /\ n.status = status
           /\ n.op = q.op /\ n.user = q.user /\ n.tok = q.tok /\ n.jti = q.jti
           /\ n.at = q.at /\ n.late = q.late /\ n.barred = q.barred
<1> DEFINE p == [q EXCEPT !.pc = "reply"]
<1>1. /\ p \in Req
      /\ p.pc = "reply"
      /\ p.op = q.op /\ p.user = q.user /\ p.tok = q.tok /\ p.jti = q.jti
      /\ p.at = q.at /\ p.late = q.late /\ p.barred = q.barred
  BY DEF Req, PCs
<1>2. Returned(q, status) = [p EXCEPT !.status = status]
  BY DEF Returned
<1> HIDE DEF p
<1>3. QED
  BY <1>1, <1>2 DEF Req

\* Proceeding changes the program counter, the user and the snapshot.
LEMMA ProceedingFields ==
    ASSUME NEW q \in Req, NEW pc \in PCs, NEW u \in UserIds \union {None}
    PROVE  LET n == Proceeding(q, pc, u) IN
           /\ n \in Req
           /\ n.pc = pc /\ n.user = u
           /\ n.op = q.op /\ n.email = q.email /\ n.tok = q.tok /\ n.jti = q.jti
           /\ n.status = q.status /\ n.late = q.late /\ n.barred = q.barred
<1> DEFINE p1 == [q EXCEPT !.pc = pc]
           p2 == [p1 EXCEPT !.user = u]
<1>1. /\ p1 \in Req
      /\ p1.pc = pc
      /\ p1.op = q.op /\ p1.email = q.email /\ p1.tok = q.tok /\ p1.jti = q.jti
      /\ p1.status = q.status /\ p1.late = q.late /\ p1.barred = q.barred
  BY DEF Req
<1>2. Proceeding(q, pc, u) = [p2 EXCEPT !.row = None]
  BY DEF Proceeding
<1> HIDE DEF p1
<1>3. /\ p2 \in Req
      /\ p2.pc = pc /\ p2.user = u
      /\ p2.op = q.op /\ p2.email = q.email /\ p2.tok = q.tok /\ p2.jti = q.jti
      /\ p2.status = q.status /\ p2.late = q.late /\ p2.barred = q.barred
  BY <1>1 DEF Req
<1> HIDE DEF p2
<1>4. QED
  BY <1>2, <1>3 DEF Req

-----------------------------------------------------------------------------
(* Steps that only move one lane.                                          *)

\* If q is a state the invariant allows a lane in, and no table changes, the
\* invariant survives.
LEMMA MoveOK ==
    ASSUME IInv, NEW r \in Requests, NEW q, q \in Req, LaneOK(q),
           \A s \in Requests \ {r} : req[s].jti = q.jti => q.jti = None,
           To(r, q), UNCHANGED <<now, database, history>>
    PROVE  IInv'
<1> USE DEF To, database, history
<1>1. \A s \in Requests : req'[s] = IF s = r THEN q ELSE req[s]
  BY DEF IInv, TypeOK
<1>2. TypeOK'
  BY DEF IInv, TypeOK
<1>3. \A s \in Requests : LaneOK(req[s])'
  BY <1>1 DEF IInv, LaneOK, LaneShape, LaneFacts, LateLane, Closed, Barred
<1>4. JtisApart'
  BY <1>1 DEF IInv, JtisApart
<1>5. WalletShape' /\ WalletBacked' /\ NeverBothLive' /\ EmailUnique'
  BY DEF IInv, WalletShape, WalletBacked, NeverBothLive, EmailUnique
<1>6. QED
  BY <1>2, <1>3, <1>4, <1>5 DEF IInv

\* An HTTPException at any point leaves the invariant intact.
LEMMA RefuseOK ==
    ASSUME IInv, NEW r \in Requests, NEW status \in {401, 403, 409, 500},
           To(r, Refused(status)), UNCHANGED <<now, database, history>>
    PROVE  IInv'
<1>1. LaneOK(Refused(status))
  BY RefusedFields DEF LaneOK, LaneShape, LaneFacts, LateLane, MintingOps
<1>2. QED
  BY <1>1, RefusedFields, MoveOK

\* A request may arrive at any time: nothing is established yet.
LEMMA ArriveOK ==
    ASSUME IInv, NEW r \in Requests,
           NEW pc \in {"register_select", "login_select", "refresh_select",
                       "logout_select", "me_select"},
           NEW op \in {"register", "login", "refresh", "logout", "me"},
           NEW email \in Emails \union {None}, NEW tok \in Token \union {None},
           LaneShape(Arrived(pc, op, email, tok)),
           pc \in {"register_select", "login_select"} => tok = None,
           To(r, Arrived(pc, op, email, tok)), UNCHANGED <<now, database, history>>
    PROVE  IInv'
<1> DEFINE q == Arrived(pc, op, email, tok)
<1>1. /\ q.pc = pc /\ q.jti = None /\ q.status = 0 /\ q.barred = Barred
      /\ q.tok = tok /\ q.late = (tok # None /\ tok.jti \in Closed)
  BY DEF Arrived
<1>2. q \in Req
  BY DEF Arrived, Req, PCs, IInv, TypeOK, Barred
<1>3. LaneOK(q)
  <2>1. LaneFacts(q)
    BY <1>1 DEF LaneFacts
  <2>2. LateLane(q)
    BY <1>1 DEF LateLane
  <2>3. QED
    BY <2>1, <2>2 DEF LaneOK
<1>4. QED
  BY <1>1, <1>2, <1>3, MoveOK

\* A callback arrives with its user known; nobody asks whether it is active.
LEMMA OAuthBeginOK ==
    ASSUME IInv, NEW r \in Requests, NEW u \in UserIds, OAuthBegin(r, u)
    PROVE  IInv'
<1> DEFINE p == Arrived("mint", "oauth", None, None)
           q == [p EXCEPT !.user = u]
<1>1. /\ p \in Req
      /\ p.pc = "mint" /\ p.op = "oauth" /\ p.jti = None /\ p.status = 0
      /\ p.late = FALSE /\ p.barred = Barred
  BY DEF Arrived, Req, PCs, IInv, TypeOK, Barred
<1>2. To(r, q) /\ UNCHANGED <<now, database, history>>
  BY DEF OAuthBegin
<1> HIDE DEF p
<1>3. /\ q \in Req
      /\ q.pc = "mint" /\ q.op = "oauth" /\ q.jti = None /\ q.status = 0
      /\ q.late = FALSE /\ q.barred = Barred /\ q.user = u
  BY <1>1 DEF Req
<1> HIDE DEF q
<1>4. LaneOK(q)
  BY <1>3 DEF LaneOK, LaneShape, LaneFacts, LateLane
<1>5. QED
  BY <1>2, <1>3, <1>4, MoveOK

LEMMA BeginOK ==
    ASSUME IInv, NEW r \in Requests, Begin(r)
    PROVE  IInv'
<1>1. \A tok \in wallet :
          /\ tok \in Token
          /\ tok.type = "refresh" => tok \in RefreshTok
          /\ tok.type = "access" => tok.exp <= tok.iat + AccessTTL
  BY DEF IInv, TypeOK, WalletShape, WellMade, RefreshTok
<1>2. CASE \E e \in Emails : RegisterBegin(r, e)
  <2>1. PICK e \in Emails : RegisterBegin(r, e)
    BY <1>2
  <2>2. LaneShape(Arrived("register_select", "register", e, None))
    BY DEF LaneShape, Arrived
  <2>3. QED
    BY <2>1, <2>2, ArriveOK DEF RegisterBegin
<1>3. CASE \E e \in Emails : LoginBegin(r, e)
  <2>1. PICK e \in Emails : LoginBegin(r, e)
    BY <1>3
  <2>2. LaneShape(Arrived("login_select", "login", e, None))
    BY DEF LaneShape, Arrived
  <2>3. QED
    BY <2>1, <2>2, ArriveOK DEF LoginBegin
<1>4. CASE \E tok \in wallet \union {None} : RefreshBegin(r, tok)
  <2>1. PICK tok \in wallet \union {None} : RefreshBegin(r, tok)
    BY <1>4
  <2>2. CASE Decodes(tok, "refresh")
    <3>1. tok \in RefreshTok /\ tok \in Token
      BY <1>1, <2>2 DEF Decodes
    <3>2. LaneShape(Arrived("refresh_select", "refresh", None, tok))
      BY <3>1 DEF LaneShape, Arrived
    <3>3. QED
      BY <2>1, <2>2, <3>1, <3>2, ArriveOK DEF RefreshBegin
  <2>3. CASE ~Decodes(tok, "refresh")
    BY <2>1, <2>3, RefuseOK DEF RefreshBegin
  <2>4. QED
    BY <2>2, <2>3
<1>5. CASE \E tok \in wallet \union {None} : LogoutBegin(r, tok)
  <2>1. PICK tok \in wallet \union {None} : LogoutBegin(r, tok)
    BY <1>5
  <2>2. CASE Decodes(tok, "refresh")
    <3>1. tok \in RefreshTok /\ tok \in Token
      BY <1>1, <2>2 DEF Decodes
    <3>2. LaneShape(Arrived("logout_select", "logout", None, tok))
      BY <3>1 DEF LaneShape, Arrived
    <3>3. QED
      BY <2>1, <2>2, <3>1, <3>2, ArriveOK DEF LogoutBegin
  <2>3. CASE ~Decodes(tok, "refresh")
    BY <2>1, <2>3, RefuseOK DEF LogoutBegin
  <2>4. QED
    BY <2>2, <2>3
<1>6. CASE \E tok \in wallet \union {None} : MeBegin(r, tok)
  <2>1. PICK tok \in wallet \union {None} : MeBegin(r, tok)
    BY <1>6
  <2>2. CASE Decodes(tok, "access")
    <3>1. tok \in Token /\ now < tok.iat + AccessTTL
      <4>1. /\ tok \in Token /\ tok.exp > now
            /\ tok.exp <= tok.iat + AccessTTL
        BY <1>1, <2>2 DEF Decodes
      <4>2. /\ now \in Nat /\ AccessTTL \in Nat
            /\ tok.iat \in Nat /\ tok.exp \in Nat
        BY <4>1, TimeAssumption DEF IInv, TypeOK, Token
      <4>3. QED
        BY <4>1, <4>2
    <3>2. LaneShape(Arrived("me_select", "me", None, tok))
      BY <3>1 DEF LaneShape, Arrived
    <3>3. QED
      BY <2>1, <2>2, <3>1, <3>2, ArriveOK DEF MeBegin
  <2>3. CASE ~Decodes(tok, "access")
    BY <2>1, <2>3, RefuseOK DEF MeBegin
  <2>4. QED
    BY <2>2, <2>3
<1>7. CASE \E u \in UserIds : OAuthBegin(r, u)
  BY <1>7, OAuthBeginOK
<1>8. QED
  BY <1>2, <1>3, <1>4, <1>5, <1>6, <1>7 DEF Begin

-----------------------------------------------------------------------------
(* Steps that read the tables and move one lane.                           *)

LEMMA RegisterSelectOK ==
    ASSUME IInv, NEW r \in Requests, RegisterSelect(r)
    PROVE  IInv'
<1>1. req[r] \in Req /\ LaneOK(req[r]) /\ At(r, "register_select")
  BY DEF IInv, TypeOK, RegisterSelect
<1>2. CASE EmailTaken(req[r].email)
  BY <1>2, RefuseOK DEF RegisterSelect
<1>3. CASE ~EmailTaken(req[r].email)
  <2> DEFINE q == Proceeding(req[r], "register_insert", None)
  <2>1. /\ q \in Req
        /\ q.pc = "register_insert" /\ q.user = None
        /\ q.op = req[r].op /\ q.email = req[r].email /\ q.tok = req[r].tok
        /\ q.jti = req[r].jti /\ q.status = req[r].status
        /\ q.late = req[r].late /\ q.barred = req[r].barred
    BY <1>1, ProceedingFields DEF PCs
  <2>2. To(r, q) /\ UNCHANGED <<now, database, history>>
    BY <1>3 DEF RegisterSelect
  <2> HIDE DEF q
  <2>3. q.jti = None /\ LaneOK(q)
    BY <1>1, <2>1 DEF At, LaneOK, LaneShape, LaneFacts, LateLane
  <2>4. QED
    BY <2>1, <2>2, <2>3, MoveOK
<1>4. QED
  BY <1>2, <1>3

LEMMA LoginSelectOK ==
    ASSUME IInv, NEW r \in Requests, LoginSelect(r)
    PROVE  IInv'
<1>1. req[r] \in Req /\ LaneOK(req[r]) /\ At(r, "login_select")
  BY DEF IInv, TypeOK, LoginSelect
<1>2. CASE To(r, Refused(401)) \/ To(r, Refused(403))
  BY <1>2, RefuseOK DEF LoginSelect
<1>3. CASE \E u \in UserIds : /\ users[u].active
                              /\ To(r, Proceeding(req[r], "mint", u))
  <2>1. PICK u \in UserIds : /\ users[u].active
                            /\ To(r, Proceeding(req[r], "mint", u))
    BY <1>3
  <2> DEFINE q == Proceeding(req[r], "mint", u)
  <2>2. u \notin Barred
    BY <2>1 DEF Barred
  <2>3. /\ q \in Req
        /\ q.pc = "mint" /\ q.user = u
        /\ q.op = req[r].op /\ q.email = req[r].email /\ q.tok = req[r].tok
        /\ q.jti = req[r].jti /\ q.status = req[r].status
        /\ q.late = req[r].late /\ q.barred = req[r].barred
    <3>1. u \in UserIds \union {None} /\ "mint" \in PCs
      BY <2>1 DEF PCs
    <3>2. QED
      BY <1>1, <3>1, ProceedingFields
  <2>4. To(r, q) /\ UNCHANGED <<now, database, history>>
    BY <2>1 DEF LoginSelect
  <2> HIDE DEF q
  <2>5. q.jti = None /\ LaneOK(q)
    BY <1>1, <2>2, <2>3 DEF At, LaneOK, LaneShape, LaneFacts, LateLane
  <2>6. QED
    BY <2>3, <2>4, <2>5, MoveOK
<1>4. QED
  BY <1>2, <1>3 DEF LoginSelect

LEMMA RefreshSelectOK ==
    ASSUME IInv, NEW r \in Requests, RefreshSelect(r)
    PROVE  IInv'
<1> DEFINE row == tokens[req[r].tok.jti]
           p == [req[r] EXCEPT !.pc = "refresh_check"]
           q == [p EXCEPT !.row = row]
<1>1. req[r] \in Req /\ LaneOK(req[r]) /\ At(r, "refresh_select")
  BY DEF IInv, TypeOK, RefreshSelect
<1>2. CASE row = None
  BY <1>2, RefuseOK DEF RefreshSelect
<1>3. CASE row # None
  <2>1. req[r].tok \in RefreshTok
    BY <1>1 DEF LaneOK, LaneShape, At
  <2>2. row \in TokenRow
    BY <1>3, <2>1 DEF IInv, TypeOK, RefreshTok
  <2>3. /\ p \in Req
        /\ p.pc = "refresh_check"
        /\ p.tok = req[r].tok /\ p.jti = req[r].jti /\ p.status = req[r].status
        /\ p.op = req[r].op /\ p.late = req[r].late /\ p.barred = req[r].barred
    BY <1>1 DEF Req, PCs
  <2>4. To(r, q) /\ UNCHANGED <<now, database, history>>
    BY <1>3 DEF RefreshSelect
  <2> HIDE DEF p
  <2>5. /\ q \in Req
        /\ q.pc = "refresh_check" /\ q.row = row
        /\ q.tok = req[r].tok /\ q.jti = req[r].jti /\ q.status = req[r].status
        /\ q.op = req[r].op /\ q.late = req[r].late /\ q.barred = req[r].barred
    BY <2>2, <2>3 DEF Req
  <2> HIDE DEF q
  <2>6. q.jti = None /\ LaneShape(q)
    BY <1>1, <2>1, <2>2, <2>5 DEF At, LaneOK, LaneShape
  <2>7. LaneFacts(q)
    BY <1>1, <1>3, <2>5 DEF At, LaneOK, LaneShape, LaneFacts
  <2>8. LateLane(q)
    BY <1>1, <2>5 DEF At, LaneOK, LateLane, Closed
  <2>9. QED
    BY <2>4, <2>5, <2>6, <2>7, <2>8, MoveOK DEF LaneOK
<1>4. QED
  BY <1>2, <1>3

LEMMA RefreshCheckOK ==
    ASSUME IInv, NEW r \in Requests, RefreshCheck(r)
    PROVE  IInv'
<1> DEFINE row == req[r].row
           verdict == RefreshVerdict(row, req[r].tok, users[row.user])
           q == Proceeding(req[r], "refresh_revoke", row.user)
<1>1. req[r] \in Req /\ LaneOK(req[r]) /\ At(r, "refresh_check")
  BY DEF IInv, TypeOK, RefreshCheck
<1>2. row \in TokenRow /\ req[r].tok \in RefreshTok
  BY <1>1 DEF LaneOK, LaneShape, At
<1>3. CASE verdict = 0
  <2>1. ~row.revoked /\ users[row.user].active
    BY <1>3 DEF RefreshVerdict
  <2>2. row.user \in UserIds /\ row.user \notin Barred
    BY <1>2, <2>1 DEF TokenRow, Barred
  <2>3. /\ q \in Req
        /\ q.pc = "refresh_revoke" /\ q.user = row.user
        /\ q.op = req[r].op /\ q.email = req[r].email /\ q.tok = req[r].tok
        /\ q.jti = req[r].jti /\ q.status = req[r].status
        /\ q.late = req[r].late /\ q.barred = req[r].barred
    <3>1. row.user \in UserIds \union {None} /\ "refresh_revoke" \in PCs
      BY <2>2 DEF PCs
    <3> HIDE DEF row
    <3>2. QED
      BY <1>1, <3>1, ProceedingFields
  <2>4. To(r, q) /\ UNCHANGED <<now, database, history>>
    BY <1>3 DEF RefreshCheck
  <2> HIDE DEF q
  <2>5. q.jti = None /\ LaneOK(q)
    BY <1>1, <1>2, <2>1, <2>2, <2>3 DEF At, LaneOK, LaneShape, LaneFacts, LateLane
  <2>6. QED
    BY <2>3, <2>4, <2>5, MoveOK
<1>4. CASE verdict # 0
  <2>1. verdict \in {401, 403}
    BY <1>4 DEF RefreshVerdict
  <2>2. QED
    BY <1>4, <2>1, RefuseOK DEF RefreshCheck
<1>5. QED
  BY <1>3, <1>4

LEMMA MintOK ==
    ASSUME IInv, NEW r \in Requests, Mint(r)
    PROVE  IInv'
<1>1. req[r] \in Req /\ LaneOK(req[r]) /\ At(r, "mint")
  BY DEF IInv, TypeOK, Mint
<1>2. PICK j \in FreshJtis :
          To(r, [req[r] EXCEPT !.pc = "insert", !.jti = j, !.at = now])
  BY DEF Mint
<1> DEFINE p1 == [req[r] EXCEPT !.pc = "insert"]
           p2 == [p1 EXCEPT !.jti = j]
           q  == [p2 EXCEPT !.at = now]
<1>3. To(r, q) /\ UNCHANGED <<now, database, history>>
  BY <1>2 DEF Mint
<1>4. j \in Jtis /\ tokens[j] = None /\ \A s \in Requests : req[s].jti # j
  BY DEF FreshJtis
<1>5. /\ p1 \in Req
      /\ p1.pc = "insert"
      /\ p1.op = req[r].op /\ p1.user = req[r].user /\ p1.tok = req[r].tok
      /\ p1.status = req[r].status /\ p1.late = req[r].late
      /\ p1.barred = req[r].barred
  BY <1>1 DEF Req, PCs
<1> HIDE DEF p1
<1>6. /\ p2 \in Req
      /\ p2.pc = "insert" /\ p2.jti = j
      /\ p2.op = req[r].op /\ p2.user = req[r].user /\ p2.tok = req[r].tok
      /\ p2.status = req[r].status /\ p2.late = req[r].late
      /\ p2.barred = req[r].barred
  BY <1>4, <1>5 DEF Req
<1> HIDE DEF p2
<1>7. /\ q \in Req
      /\ q.pc = "insert" /\ q.jti = j
      /\ q.op = req[r].op /\ q.user = req[r].user /\ q.tok = req[r].tok
      /\ q.status = req[r].status /\ q.late = req[r].late
      /\ q.barred = req[r].barred
  BY <1>6 DEF Req, IInv, TypeOK
<1> HIDE DEF q
<1>8. LaneOK(q)
  BY <1>1, <1>4, <1>7 DEF At, LaneOK, LaneShape, LaneFacts, LateLane
<1>9. QED
  BY <1>3, <1>4, <1>7, <1>8, MoveOK

LEMMA LogoutSelectOK ==
    ASSUME IInv, NEW r \in Requests, LogoutSelect(r)
    PROVE  IInv'
<1>1. req[r] \in Req /\ LaneOK(req[r]) /\ At(r, "logout_select")
  BY DEF IInv, TypeOK, LogoutSelect
<1>2. CASE tokens[req[r].tok.jti] = None
  <2> DEFINE q == Returned(req[r], 204)
  <2>1. q \in Req /\ q.jti = None /\ LaneOK(q)
    BY <1>1, ReturnedFields
    DEF At, LaneOK, LaneShape, LaneFacts, LateLane, MintingOps
  <2>2. QED
    BY <1>2, <2>1, MoveOK DEF LogoutSelect
<1>3. CASE tokens[req[r].tok.jti] # None
  <2> DEFINE q == Proceeding(req[r], "logout_revoke", None)
  <2>1. /\ q \in Req
        /\ q.pc = "logout_revoke" /\ q.user = None
        /\ q.op = req[r].op /\ q.email = req[r].email /\ q.tok = req[r].tok
        /\ q.jti = req[r].jti /\ q.status = req[r].status
        /\ q.late = req[r].late /\ q.barred = req[r].barred
    BY <1>1, ProceedingFields DEF PCs
  <2>2. To(r, q) /\ UNCHANGED <<now, database, history>>
    BY <1>3 DEF LogoutSelect
  <2> HIDE DEF q
  <2>3. q.jti = None /\ LaneOK(q)
    BY <1>1, <1>3, <2>1 DEF At, LaneOK, LaneShape, LaneFacts, LateLane
  <2>4. QED
    BY <2>1, <2>2, <2>3, MoveOK
<1>4. QED
  BY <1>2, <1>3

LEMMA MeSelectOK ==
    ASSUME IInv, NEW r \in Requests, MeSelect(r)
    PROVE  IInv'
<1> DEFINE u == req[r].tok.sub
           p1 == [req[r] EXCEPT !.pc = "reply"]
           p2 == [p1 EXCEPT !.status = 200]
           q  == [p2 EXCEPT !.user = u]
<1>1. req[r] \in Req /\ LaneOK(req[r]) /\ At(r, "me_select")
  BY DEF IInv, TypeOK, MeSelect
<1>2. CASE ~(users[u] # None /\ users[u].active)
  BY <1>2, RefuseOK DEF MeSelect
<1>3. CASE users[u] # None /\ users[u].active
  <2>1. u \in UserIds /\ u \notin Barred
    BY <1>1, <1>3 DEF Barred, At, LaneOK, LaneShape, Token
  <2>2. To(r, q) /\ UNCHANGED <<now, database, history>>
    BY <1>3 DEF MeSelect
  <2>3. /\ p1 \in Req
        /\ p1.pc = "reply" /\ p1.op = req[r].op /\ p1.jti = req[r].jti
        /\ p1.tok = req[r].tok /\ p1.at = req[r].at
        /\ p1.late = req[r].late /\ p1.barred = req[r].barred
    BY <1>1 DEF Req, PCs
  <2> HIDE DEF p1
  <2>4. /\ p2 \in Req
        /\ p2.pc = "reply" /\ p2.op = req[r].op /\ p2.jti = req[r].jti
        /\ p2.tok = req[r].tok /\ p2.at = req[r].at
        /\ p2.late = req[r].late /\ p2.barred = req[r].barred /\ p2.status = 200
    BY <2>3 DEF Req
  <2> HIDE DEF p2
  <2>5. /\ q \in Req
        /\ q.pc = "reply" /\ q.op = req[r].op /\ q.jti = req[r].jti
        /\ q.tok = req[r].tok /\ q.at = req[r].at
        /\ q.late = req[r].late /\ q.barred = req[r].barred /\ q.status = 200
        /\ q.user = u
    BY <2>1, <2>4 DEF Req
  <2> HIDE DEF q
  <2>6. q.jti = None /\ LaneOK(q)
    BY <1>1, <2>1, <2>5
    DEF At, LaneOK, LaneShape, LaneFacts, LateLane, MintingOps
  <2>7. QED
    BY <2>2, <2>5, <2>6, MoveOK
<1>4. QED
  BY <1>2, <1>3

\* A lost request leaves an idle lane behind.
LEMMA AbortOK ==
    ASSUME IInv, NEW r \in Requests, Abort(r)
    PROVE  IInv'
BY IdleReqOK, MoveOK DEF Abort

-----------------------------------------------------------------------------
(* Steps that change the tables or the history.                            *)

\* How the tables evolve when lane r takes a step: users stay barred, rows
\* stay, keep owner and expiry and stay revoked, and no row appears but the
\* one whose jti r drew.
Grows(r) ==
    /\ Barred \subseteq Barred'
    /\ \A j \in Jtis :
          /\ tokens[j] # None =>
                /\ tokens'[j] # None
                /\ tokens'[j].user = tokens[j].user
                /\ tokens'[j].expires_at = tokens[j].expires_at
                /\ tokens[j].revoked => tokens'[j].revoked
          /\ tokens[j] = None /\ tokens'[j] # None => j = req[r].jti

\* A step of lane r leaves the other lanes all they rely on.
LEMMA OthersOK ==
    ASSUME IInv, NEW r \in Requests, NEW s \in Requests, s # r,
           req'[s] = req[s], Grows(r)
    PROVE  LaneOK(req[s])'
<1>1. LaneOK(req[s]) /\ req[s] \in Req
  BY DEF IInv, TypeOK
<1>2. Closed \subseteq Closed'
  BY DEF Closed, Grows
<1>3. LaneShape(req[s])'
  BY <1>1 DEF LaneOK, LaneShape
<1>4. LateLane(req[s])'
  BY <1>1, <1>2 DEF LaneOK, LateLane
<1>5. req[s].pc = "insert" => tokens'[req[s].jti] = None
  <2>1. SUFFICES ASSUME req[s].pc = "insert", tokens'[req[s].jti] # None
                 PROVE  FALSE
    OBVIOUS
  <2>2. req[s].jti \in Jtis /\ tokens[req[s].jti] = None
    BY <1>1, <2>1 DEF LaneOK, LaneShape, LaneFacts
  <2>3. req[s].jti = req[r].jti
    BY <2>1, <2>2 DEF Grows
  <2>4. QED
    BY <2>2, <2>3, NoneAssumption DEF IInv, JtisApart
<1>6. LaneFacts(req[s])'
  <2>1. req[s].pc \in {"refresh_check", "refresh_revoke", "logout_revoke"} =>
            tokens'[req[s].tok.jti] # None
    BY <1>1 DEF LaneOK, LaneShape, LaneFacts, RefreshTok, Grows
  <2>2. req[s].status \in {200, 201} /\ req[s].op \in MintingOps =>
            /\ tokens'[req[s].jti] # None
            /\ tokens'[req[s].jti].user = req[s].user
            /\ tokens'[req[s].jti].expires_at = req[s].at + RefreshTTL
    BY <1>1 DEF LaneOK, LaneShape, LaneFacts, Grows
  <2>3. req[s].barred \subseteq Barred'
    BY <1>1 DEF LaneOK, LaneFacts, Grows
  <2>4. QED
    BY <1>1, <1>2, <1>5, <2>1, <2>2, <2>3 DEF LaneOK, LaneFacts
<1>7. QED
  BY <1>3, <1>4, <1>6 DEF LaneOK

\* Rows that stay keep every delivered token backed and every exchange paid.
LEMMA HistoryOK ==
    ASSUME IInv, NEW r \in Requests, Grows(r)
    PROVE  /\ wallet' = wallet => WalletBacked' /\ WalletShape'
           /\ exchanges' = exchanges => NeverBothLive'
<1>1. ASSUME wallet' = wallet
      PROVE  WalletBacked' /\ WalletShape'
  BY <1>1 DEF IInv, WalletBacked, WalletShape, WellMade, Grows
<1>2. ASSUME exchanges' = exchanges
      PROVE  NeverBothLive'
  BY <1>2 DEF IInv, TypeOK, NeverBothLive, Grows
<1>3. QED
  BY <1>1, <1>2

\* When lane r goes to q and the tables grow, what is left to show is about q
\* and about the types.
LEMMA StepOK ==
    ASSUME IInv, NEW r \in Requests, Grows(r), TypeOK',
           \A s \in Requests \ {r} : req'[s] = req[s],
           LaneOK(req[r])',
           req'[r].jti \in {req[r].jti, None},
           wallet' = wallet, exchanges' = exchanges, EmailUnique'
    PROVE  IInv'
<1>1. \A s \in Requests : LaneOK(req[s])'
  BY OthersOK
<1>2. JtisApart'
  BY DEF IInv, JtisApart
<1>3. QED
  BY <1>1, <1>2, HistoryOK DEF IInv

\* revoke(record, ...) and its commit.
LEMMA RevokedGrows ==
    ASSUME IInv, NEW r \in Requests, NEW j \in Jtis, tokens[j] # None,
           tokens' = Revoked(j), UNCHANGED users
    PROVE  /\ Grows(r)
           /\ tokens' \in [Jtis -> TokenRow \union {None}]
           /\ j \in Closed'
<1>1. tokens[j] \in TokenRow /\ tokens \in [Jtis -> TokenRow \union {None}]
  BY DEF IInv, TypeOK
<1> DEFINE row == [tokens[j] EXCEPT !.revoked = TRUE]
<1>2. /\ row \in TokenRow /\ row.revoked = TRUE
      /\ row.user = tokens[j].user /\ row.expires_at = tokens[j].expires_at
  BY <1>1 DEF TokenRow
<1>3. row # None
  BY <1>2, NoneIsNoRecord
<1>4. tokens' = [tokens EXCEPT ![j] = row]
  BY <1>1 DEF Revoked
<1> HIDE DEF row
<1>5. \A i \in Jtis : tokens'[i] = IF i = j THEN row ELSE tokens[i]
  BY <1>1, <1>4
<1>6. Barred' = Barred
  BY DEF Barred
<1>7. QED
  BY <1>1, <1>2, <1>3, <1>4, <1>5, <1>6 DEF Grows, Closed

LEMMA RegisterInsertOK ==
    ASSUME IInv, NEW r \in Requests, RegisterInsert(r)
    PROVE  IInv'
<1>1. req[r] \in Req /\ LaneOK(req[r]) /\ At(r, "register_insert")
  BY DEF IInv, TypeOK, RegisterInsert
<1>2. CASE UniqueViolation(req[r].email)
  BY <1>2, RefuseOK DEF RegisterInsert, database
<1>3. CASE ~UniqueViolation(req[r].email)
  <2>1. PICK u \in UserIds :
            /\ users[u] = None
            /\ users' = [users EXCEPT ![u] =
                            [email |-> req[r].email, active |-> TRUE]]
            /\ To(r, Proceeding(req[r], "mint", u))
    BY <1>3 DEF RegisterInsert
  <2> DEFINE q == Proceeding(req[r], "mint", u)
  <2>2. UNCHANGED <<now, tokens, wallet, exchanges, loggedOut>>
    BY DEF RegisterInsert, history
  <2>3. /\ q \in Req
        /\ q.pc = "mint" /\ q.user = u
        /\ q.op = req[r].op /\ q.email = req[r].email /\ q.tok = req[r].tok
        /\ q.jti = req[r].jti /\ q.status = req[r].status
        /\ q.late = req[r].late /\ q.barred = req[r].barred
    <3>1. u \in UserIds \union {None} /\ "mint" \in PCs
      BY <2>1 DEF PCs
    <3>2. QED
      BY <1>1, <3>1, ProceedingFields
  <2>4. /\ req' \in [Requests -> Req] /\ req'[r] = q
        /\ \A s \in Requests \ {r} : req'[s] = req[s]
    BY <2>1, <2>3 DEF To, IInv, TypeOK
  <2> HIDE DEF q
  <2>5. [email |-> req[r].email, active |-> TRUE] \in UserRow
    BY <1>1 DEF At, LaneOK, LaneShape, UserRow
  <2>6. \A v \in UserIds :
            users'[v] = IF v = u THEN [email |-> req[r].email, active |-> TRUE]
                        ELSE users[v]
    BY <2>1 DEF IInv, TypeOK
  <2>7. Barred' = Barred /\ u \notin Barred
    BY <2>1, <2>6 DEF Barred
  <2>8. TypeOK'
    BY <2>1, <2>2, <2>4, <2>5 DEF IInv, TypeOK
  <2>9. Grows(r)
    BY <2>2, <2>7 DEF Grows
  <2>10. LaneOK(req[r])'
    BY <1>1, <2>2, <2>3, <2>4, <2>7
    DEF At, LaneOK, LaneShape, LaneFacts, LateLane, Closed
  <2>11. EmailUnique'
    BY <1>3, <2>6 DEF IInv, EmailUnique, UniqueViolation, EmailTaken
  <2>12. QED
    BY <2>2, <2>3, <2>4, <2>8, <2>9, <2>10, <2>11, StepOK
<1>4. QED
  BY <1>2, <1>3

LEMMA RefreshRevokeOK ==
    ASSUME IInv, NEW r \in Requests, RefreshRevoke(r)
    PROVE  IInv'
<1> DEFINE j == req[r].tok.jti
           q == Proceeding(req[r], "mint", req[r].user)
<1>1. req[r] \in Req /\ LaneOK(req[r]) /\ At(r, "refresh_revoke")
  BY DEF IInv, TypeOK, RefreshRevoke
<1>2. UNCHANGED <<now, users, wallet, exchanges, loggedOut>>
  BY DEF RefreshRevoke, history
<1>3. j \in Jtis /\ tokens[j] # None
  BY <1>1 DEF At, LaneOK, LaneShape, LaneFacts, RefreshTok
<1>4. tokens' = Revoked(j)
  BY DEF RefreshRevoke
<1> HIDE DEF j
<1>5. Grows(r) /\ tokens' \in [Jtis -> TokenRow \union {None}] /\ j \in Closed'
  BY <1>2, <1>3, <1>4, RevokedGrows
<1>6. /\ q \in Req
      /\ q.pc = "mint" /\ q.user = req[r].user
      /\ q.op = req[r].op /\ q.email = req[r].email /\ q.tok = req[r].tok
      /\ q.jti = req[r].jti /\ q.status = req[r].status
      /\ q.late = req[r].late /\ q.barred = req[r].barred
  <2>1. req[r].user \in UserIds \union {None} /\ "mint" \in PCs
    BY <1>1 DEF PCs, Req
  <2>2. QED
    BY <1>1, <2>1, ProceedingFields
<1>7. /\ req' \in [Requests -> Req] /\ req'[r] = q
      /\ \A s \in Requests \ {r} : req'[s] = req[s]
  BY <1>6 DEF RefreshRevoke, To, IInv, TypeOK
<1> HIDE DEF q
<1>8. TypeOK' /\ EmailUnique'
  BY <1>2, <1>5, <1>7 DEF IInv, TypeOK, EmailUnique
<1>9. LaneOK(req[r])'
  BY <1>1, <1>2, <1>5, <1>6, <1>7
  DEF At, LaneOK, LaneShape, LaneFacts, LateLane, Barred, j
<1>10. QED
  BY <1>2, <1>5, <1>6, <1>7, <1>8, <1>9, StepOK

LEMMA LogoutRevokeOK ==
    ASSUME IInv, NEW r \in Requests, LogoutRevoke(r)
    PROVE  IInv'
<1> DEFINE j == req[r].tok.jti
           q == Returned(req[r], 204)
<1>1. req[r] \in Req /\ LaneOK(req[r]) /\ At(r, "logout_revoke")
  BY DEF IInv, TypeOK, LogoutRevoke
<1>2. UNCHANGED <<now, users, wallet, exchanges, loggedOut>>
  BY DEF LogoutRevoke, history
<1>3. j \in Jtis /\ tokens[j] # None
  BY <1>1 DEF At, LaneOK, LaneShape, LaneFacts, RefreshTok
<1>4. tokens' = Revoked(j)
  BY DEF LogoutRevoke
<1> HIDE DEF j
<1>5. Grows(r) /\ tokens' \in [Jtis -> TokenRow \union {None}]
  BY <1>2, <1>3, <1>4, RevokedGrows
<1>6. /\ q \in Req
      /\ q.pc = "reply" /\ q.status = 204
      /\ q.op = req[r].op /\ q.user = req[r].user /\ q.tok = req[r].tok
      /\ q.jti = req[r].jti /\ q.at = req[r].at
      /\ q.late = req[r].late /\ q.barred = req[r].barred
  BY <1>1, ReturnedFields
<1>7. /\ req' \in [Requests -> Req] /\ req'[r] = q
      /\ \A s \in Requests \ {r} : req'[s] = req[s]
  BY <1>6 DEF LogoutRevoke, To, IInv, TypeOK
<1> HIDE DEF q
<1>8. TypeOK' /\ EmailUnique'
  BY <1>2, <1>5, <1>7 DEF IInv, TypeOK, EmailUnique
<1>9. LaneOK(req[r])'
  BY <1>1, <1>2, <1>6, <1>7
  DEF At, LaneOK, LaneShape, LaneFacts, LateLane, Barred, MintingOps
<1>10. QED
  BY <1>2, <1>5, <1>6, <1>7, <1>8, <1>9, StepOK

LEMMA InsertRefreshOK ==
    ASSUME IInv, NEW r \in Requests, InsertRefresh(r)
    PROVE  IInv'
<1> DEFINE j == req[r].jti
           row == [user |-> req[r].user, expires_at |-> req[r].at + RefreshTTL,
                   revoked |-> FALSE]
           status == IF req[r].op = "register" THEN 201 ELSE 200
           q == Returned(req[r], status)
<1>1. req[r] \in Req /\ LaneOK(req[r]) /\ At(r, "insert")
  BY DEF IInv, TypeOK, InsertRefresh
<1>2. UNCHANGED <<now, users, wallet, loggedOut>>
  BY DEF InsertRefresh
<1>3. /\ j \in Jtis /\ tokens[j] = None
      /\ req[r].op = "refresh" => req[r].tok.jti \in Closed
      /\ req[r].op = "oauth" \/ req[r].user \notin req[r].barred
  BY <1>1 DEF At, LaneOK, LaneShape, LaneFacts
<1>4. row \in TokenRow /\ row # None
  <2>1. req[r].user \in UserIds /\ req[r].at + RefreshTTL \in Nat
    BY <1>1, TimeAssumption DEF At, LaneOK, LaneShape, Req
  <2>2. row \in TokenRow
    BY <2>1 DEF TokenRow
  <2>3. QED
    BY <2>2, NoneIsNoRecord
<1>5. \A i \in Jtis : tokens'[i] = IF i = j THEN row ELSE tokens[i]
  BY DEF InsertRefresh, IInv, TypeOK
<1>6. /\ q \in Req
      /\ q.pc = "reply" /\ q.status = status
      /\ q.op = req[r].op /\ q.user = req[r].user /\ q.tok = req[r].tok
      /\ q.jti = req[r].jti /\ q.at = req[r].at
      /\ q.late = req[r].late /\ q.barred = req[r].barred
  BY <1>1, ReturnedFields
<1>7. /\ req' \in [Requests -> Req] /\ req'[r] = q
      /\ \A s \in Requests \ {r} : req'[s] = req[s]
  BY <1>6 DEF InsertRefresh, To, IInv, TypeOK
<1>8. exchanges' \subseteq exchanges \union
          {e \in [parent : Jtis, child : Jtis] : e.parent \in Closed /\ e.child = j}
  BY <1>3 DEF InsertRefresh, Closed
<1>9. /\ row.user = req[r].user /\ row.expires_at = req[r].at + RefreshTTL
      /\ status \in {200, 201}
  OBVIOUS
<1>10. tokens' \in [Jtis -> TokenRow \union {None}]
  BY <1>4 DEF InsertRefresh, IInv, TypeOK
<1> HIDE DEF q, row, status
<1>11. Grows(r) /\ Closed \subseteq Closed'
  BY <1>2, <1>3, <1>4, <1>5 DEF Grows, Barred, Closed
<1>12. TypeOK'
  BY <1>2, <1>7, <1>8, <1>10 DEF IInv, TypeOK
<1>13. NeverBothLive'
  <2>1. SUFFICES ASSUME NEW e \in exchanges'
                 PROVE  /\ e.parent \in Closed'
                        /\ tokens'[e.child] # None
    BY DEF NeverBothLive, Closed
  <2>2. CASE e \in exchanges
    BY <2>2, <1>11 DEF IInv, TypeOK, NeverBothLive, Closed, Grows
  <2>3. CASE e \notin exchanges
    BY <2>3, <1>3, <1>4, <1>5, <1>8, <1>11
  <2>4. QED
    BY <2>2, <2>3
<1>14. LaneOK(req[r])'
  BY <1>1, <1>2, <1>3, <1>4, <1>5, <1>6, <1>7, <1>9
  DEF At, LaneOK, LaneShape, LaneFacts, LateLane, Barred
<1>15. \A s \in Requests : LaneOK(req[s])'
  BY <1>7, <1>11, <1>14, OthersOK
<1>16. JtisApart' /\ EmailUnique'
  BY <1>2, <1>6, <1>7 DEF IInv, JtisApart, EmailUnique
<1>17. WalletBacked' /\ WalletShape'
  BY <1>2, <1>11, HistoryOK
<1>18. QED
  BY <1>12, <1>13, <1>15, <1>16, <1>17 DEF IInv

LEMMA ReplyOK ==
    ASSUME IInv, NEW r \in Requests, Reply(r)
    PROVE  IInv'
<1>1. req[r] \in Req /\ LaneOK(req[r]) /\ At(r, "reply")
  BY DEF IInv, TypeOK, Reply
<1>2. UNCHANGED <<now, users, tokens, exchanges>>
  BY DEF Reply, database
<1>3. /\ req' \in [Requests -> Req] /\ req'[r] = IdleReq
      /\ \A s \in Requests \ {r} : req'[s] = req[s]
  BY IdleReqOK DEF Reply, To, IInv, TypeOK
<1>4. \A tok \in Pair(req[r]) :
          /\ tok \in Token /\ WellMade(tok)
          /\ tok.type = "refresh" =>
                /\ tokens[tok.jti] # None
                /\ tokens[tok.jti].user = tok.sub
                /\ tok.exp <= tokens[tok.jti].expires_at
  <2>1. SUFFICES ASSUME req[r].op \in MintingOps, req[r].status \in {200, 201},
                        NEW tok \in {AccessToken(req[r].user, req[r].at),
                                     RefreshToken(req[r].user, req[r].jti, req[r].at)}
                 PROVE  /\ tok \in Token /\ WellMade(tok)
                        /\ tok.type = "refresh" =>
                              /\ tokens[tok.jti] # None
                              /\ tokens[tok.jti].user = tok.sub
                              /\ tok.exp <= tokens[tok.jti].expires_at
    BY DEF Pair
  <2>2. /\ req[r].user \in UserIds /\ req[r].jti \in Jtis /\ req[r].at \in Nat
        /\ tokens[req[r].jti] # None
        /\ tokens[req[r].jti].user = req[r].user
        /\ tokens[req[r].jti].expires_at = req[r].at + RefreshTTL
    BY <1>1, <2>1 DEF LaneOK, LaneShape, LaneFacts, Req
  <2>3. CASE tok = AccessToken(req[r].user, req[r].at)
    <3>1. tok \in Token /\ tok.exp = tok.iat + AccessTTL
      BY <2>2, <2>3, PairTokens
    <3>2. tok.type = "access" /\ tok.exp \in Nat
      BY <2>3, <3>1 DEF AccessToken, Token
    <3>3. QED
      BY <3>1, <3>2 DEF WellMade
  <2>4. CASE tok = RefreshToken(req[r].user, req[r].jti, req[r].at)
    <3>1. tok \in Token /\ tok.exp <= req[r].at + RefreshTTL
      BY <2>2, <2>4, PairTokens
    <3>2. tok.jti = req[r].jti /\ tok.sub = req[r].user /\ tok.type = "refresh"
      BY <2>4 DEF RefreshToken
    <3>3. QED
      BY <2>2, <3>1, <3>2 DEF WellMade
  <2>5. QED
    BY <2>1, <2>3, <2>4
<1>5. req[r].status = 204 => req[r].tok.jti \in Jtis
  BY <1>1 DEF LaneOK, LaneShape, RefreshTok
<1>6. TypeOK'
  BY <1>2, <1>3, <1>4, <1>5 DEF IInv, TypeOK, Reply
<1>7. WalletShape' /\ WalletBacked'
  BY <1>2, <1>4 DEF IInv, WalletShape, WalletBacked, Reply
<1>8. NeverBothLive' /\ EmailUnique'
  BY <1>2 DEF IInv, NeverBothLive, EmailUnique
<1>9. Grows(r)
  BY <1>2 DEF Grows, Barred
<1>10. LaneOK(req[r])'
  BY <1>3, IdleReqOK DEF LaneOK, LaneShape, LaneFacts, LateLane, MintingOps
<1>11. \A s \in Requests : LaneOK(req[s])'
  BY <1>3, <1>9, <1>10, OthersOK
<1>12. JtisApart'
  BY <1>3, IdleReqOK DEF IInv, JtisApart
<1>13. QED
  BY <1>6, <1>7, <1>8, <1>11, <1>12 DEF IInv

\* Steps no lane takes: an operator's, the clock's, and stuttering.
LEMMA DeactivateOK ==
    ASSUME IInv, NEW u \in UserIds, Deactivate(u)
    PROVE  IInv'
<1> DEFINE row == [users[u] EXCEPT !.active = FALSE]
<1>1. UNCHANGED <<now, tokens, req, wallet, exchanges, loggedOut>>
  BY DEF Deactivate, history
<1>2. row \in UserRow /\ row.email = users[u].email /\ row.active = FALSE
  BY DEF Deactivate, IInv, TypeOK, UserRow
<1>3. users' = [users EXCEPT ![u] = row] /\ users[u] # None
  BY DEF Deactivate, IInv, TypeOK
<1> HIDE DEF row
<1>4. \A v \in UserIds : users'[v] = IF v = u THEN row ELSE users[v]
  BY <1>3 DEF IInv, TypeOK
<1>5. TypeOK'
  BY <1>1, <1>2, <1>3 DEF IInv, TypeOK
<1>6. Barred \subseteq Barred'
  BY <1>2, <1>4, NoneIsNoRecord DEF Barred
<1>7. EmailUnique'
  BY <1>2, <1>3, <1>4 DEF IInv, EmailUnique
<1>8. \A s \in Requests : LaneOK(req[s])'
  BY <1>1, <1>6 DEF IInv, LaneOK, LaneShape, LaneFacts, LateLane, Closed
<1>9. WalletShape' /\ WalletBacked' /\ NeverBothLive' /\ JtisApart'
  BY <1>1 DEF IInv, WalletShape, WalletBacked, NeverBothLive, JtisApart
<1>10. QED
  BY <1>5, <1>7, <1>8, <1>9 DEF IInv

LEMMA QuietOK ==
    ASSUME IInv, Tick \/ UNCHANGED vars
    PROVE  IInv'
<1>1. UNCHANGED <<users, tokens, req, wallet, exchanges, loggedOut>>
  BY DEF Tick, vars, database, history
<1>2. now' \in Nat
  BY DEF Tick, vars, IInv, TypeOK
<1>3. TypeOK'
  BY <1>1, <1>2 DEF IInv, TypeOK
<1>4. \A s \in Requests : LaneOK(req[s])'
  BY <1>1 DEF IInv, LaneOK, LaneShape, LaneFacts, LateLane, Closed, Barred
<1>5. WalletShape' /\ WalletBacked' /\ NeverBothLive' /\ JtisApart' /\ EmailUnique'
  BY <1>1 DEF IInv, WalletShape, WalletBacked, NeverBothLive, JtisApart, EmailUnique
<1>6. QED
  BY <1>3, <1>4, <1>5 DEF IInv

-----------------------------------------------------------------------------
(* The invariant, and what it yields.                                      *)

LEMMA InitOK == Init => IInv
<1> SUFFICES ASSUME Init
             PROVE  IInv
  OBVIOUS
<1>1. /\ users = [u \in UserIds |-> None] /\ tokens = [j \in Jtis |-> None]
      /\ req = [r \in Requests |-> IdleReq]
      /\ now = 0 /\ wallet = {} /\ exchanges = {} /\ loggedOut = {}
  BY DEF Init
<1>2. TypeOK
  BY <1>1, IdleReqOK DEF TypeOK
<1>3. WalletShape /\ WalletBacked /\ NeverBothLive /\ EmailUnique
  BY <1>1 DEF WalletShape, WalletBacked, NeverBothLive, EmailUnique
<1>4. JtisApart /\ \A r \in Requests : LaneOK(req[r])
  BY <1>1, IdleReqOK DEF JtisApart
<1>5. QED
  BY <1>2, <1>3, <1>4 DEF IInv

LEMMA ProgressOK ==
    ASSUME IInv, NEW r \in Requests, Progress(r)
    PROVE  IInv'
BY RegisterSelectOK, RegisterInsertOK, LoginSelectOK, RefreshSelectOK,
   RefreshCheckOK, RefreshRevokeOK, MintOK, InsertRefreshOK, LogoutSelectOK,
   LogoutRevokeOK, MeSelectOK, ReplyOK
DEF Progress

LEMMA NextOK == IInv /\ [Next]_vars => IInv'
<1> SUFFICES ASSUME IInv, [Next]_vars
             PROVE  IInv'
  OBVIOUS
<1>1. CASE \E r \in Requests : Begin(r) \/ Progress(r) \/ Abort(r)
  BY <1>1, BeginOK, ProgressOK, AbortOK
<1>2. CASE \E u \in UserIds : Deactivate(u)
  BY <1>2, DeactivateOK
<1>3. CASE Tick \/ UNCHANGED vars
  BY <1>3, QuietOK
<1>4. QED
  BY <1>1, <1>2, <1>3 DEF Next

THEOREM Invariance == Spec => []IInv
BY InitOK, NextOK, PTL DEF Spec

\* Every variable keeps to the shape of its table, token or handler state.
THEOREM TypeCorrect == Spec => []TypeOK
<1>1. IInv => TypeOK
  BY DEF IInv
<1>2. QED
  BY <1>1, Invariance, PTL

\* register_user: no interleaving of registrations doubles an address.
THEOREM EmailsStayUnique == Spec => []EmailUnique
<1>1. IInv => EmailUnique
  BY DEF IInv
<1>2. QED
  BY <1>1, Invariance, PTL

\* refresh_access_pair: a token with a successor is revoked already.
THEOREM RotationRevokesFirst == Spec => []NeverBothLive
<1>1. IInv => NeverBothLive
  BY DEF IInv
<1>2. QED
  BY <1>1, Invariance, PTL

\* issue_token_pair: no client holds a refresh token the table lacks.
THEOREM DeliveredTokensAreBacked == Spec => []WalletBacked
<1>1. IInv => WalletBacked
  BY DEF IInv
<1>2. QED
  BY <1>1, Invariance, PTL

\* The is_active checks: no request of a user barred on arrival succeeds.
THEOREM InactiveStayOut == Spec => []InactiveLockedOut
<1>1. IInv => InactiveLockedOut
  BY DEF IInv, InactiveLockedOut, LaneOK, LaneFacts
<1>2. QED
  BY <1>1, Invariance, PTL

\* get_current_user: no token is answered beyond the lifetime of an access
\* token, and so no refresh token passes for one.
THEOREM AccessEndsWithItsWindow == Spec => []AccessWindow
<1>1. IInv => AccessWindow
  BY DEF IInv, AccessWindow, LaneOK, LaneShape
<1>2. QED
  BY <1>1, Invariance, PTL

-----------------------------------------------------------------------------
(* What a step may do.                                                     *)

\* Which steps touch the table and the record of exchanges.
LEMMA StepKinds ==
    ASSUME IInv, [Next]_vars
    PROVE  \/ UNCHANGED <<tokens, exchanges>>
           \/ \E r \in Requests : RefreshRevoke(r) \/ LogoutRevoke(r)
           \/ \E r \in Requests : InsertRefresh(r)
<1>1. ASSUME NEW r \in Requests, Begin(r)
      PROVE  UNCHANGED <<tokens, exchanges>>
  BY <1>1 DEF Begin, RegisterBegin, LoginBegin, OAuthBegin, RefreshBegin, LogoutBegin,
              MeBegin, database, history
<1>2. ASSUME NEW r \in Requests, Progress(r)
      PROVE  \/ UNCHANGED <<tokens, exchanges>>
             \/ RefreshRevoke(r) \/ LogoutRevoke(r) \/ InsertRefresh(r)
  BY <1>2 DEF Progress, RegisterSelect, RegisterInsert, LoginSelect, RefreshSelect,
              RefreshCheck, Mint, LogoutSelect, MeSelect, Reply, database, history
<1>3. ASSUME NEW r \in Requests, Abort(r)
      PROVE  UNCHANGED <<tokens, exchanges>>
  BY <1>3 DEF Abort, database, history
<1>4. ASSUME (\E u \in UserIds : Deactivate(u)) \/ Tick \/ UNCHANGED vars
      PROVE  UNCHANGED <<tokens, exchanges>>
  BY <1>4 DEF Deactivate, Tick, vars, database, history
<1>5. QED
  BY <1>1, <1>2, <1>3, <1>4 DEF Next

\* A revocation changes one row, and only its revoked_at.
LEMMA RevokeStep ==
    ASSUME IInv, NEW r \in Requests, RefreshRevoke(r) \/ LogoutRevoke(r)
    PROVE  \E j \in Jtis :
               /\ tokens[j] # None /\ j \in Closed'
               /\ tokens' = [tokens EXCEPT ![j] = [tokens[j] EXCEPT !.revoked = TRUE]]
               /\ exchanges' = exchanges /\ users' = users
<1> DEFINE j == req[r].tok.jti
<1>1. LaneOK(req[r]) /\ (At(r, "refresh_revoke") \/ At(r, "logout_revoke"))
  BY DEF IInv, RefreshRevoke, LogoutRevoke
<1>2. j \in Jtis /\ tokens[j] # None
  BY <1>1 DEF At, LaneOK, LaneShape, LaneFacts, RefreshTok
<1>3. tokens' = Revoked(j) /\ exchanges' = exchanges /\ users' = users
  BY DEF RefreshRevoke, LogoutRevoke, history
<1>4. tokens' = [tokens EXCEPT ![j] = [tokens[j] EXCEPT !.revoked = TRUE]]
  BY <1>2, <1>3 DEF Revoked, IInv, TypeOK
<1> HIDE DEF j
<1>5. j \in Closed'
  BY <1>2, <1>3, RevokedGrows
<1>6. QED
  BY <1>2, <1>3, <1>4, <1>5

\* An INSERT adds a row that was not there, for a parent already revoked and
\* not yet revoked when the request arrived.
LEMMA InsertStep ==
    ASSUME IInv, NEW r \in Requests, InsertRefresh(r)
    PROVE  \E j \in Jtis, row \in TokenRow :
               /\ tokens[j] = None /\ row.revoked = FALSE
               /\ tokens' = [tokens EXCEPT ![j] = row]
               /\ j = req[r].jti /\ ~req[r].late
               /\ \/ exchanges' = exchanges
                  \/ /\ req[r].tok \in RefreshTok /\ req[r].tok.jti \in Closed
                     /\ exchanges' = exchanges \union
                            {[parent |-> req[r].tok.jti, child |-> j]}
<1> DEFINE row == [user |-> req[r].user, expires_at |-> req[r].at + RefreshTTL,
                   revoked |-> FALSE]
<1>1. req[r] \in Req /\ LaneOK(req[r]) /\ At(r, "insert")
  BY DEF IInv, TypeOK, InsertRefresh
<1>2. req[r].user \in UserIds /\ req[r].at + RefreshTTL \in Nat
  BY <1>1, TimeAssumption DEF At, LaneOK, LaneShape, Req
<1>3. row \in TokenRow /\ row.revoked = FALSE
  BY <1>2 DEF TokenRow
<1>4. /\ req[r].jti \in Jtis /\ tokens[req[r].jti] = None /\ ~req[r].late
      /\ req[r].op = "refresh" =>
             req[r].tok \in RefreshTok /\ req[r].tok.jti \in Closed
  BY <1>1 DEF At, LaneOK, LaneShape, LaneFacts, LateLane
<1>5. tokens' = [tokens EXCEPT ![req[r].jti] = row]
  BY DEF InsertRefresh
<1>6. \/ exchanges' = exchanges
      \/ /\ req[r].op = "refresh"
         /\ exchanges' = exchanges \union
                {[parent |-> req[r].tok.jti, child |-> req[r].jti]}
  BY DEF InsertRefresh
<1> HIDE DEF row
<1>7. QED
  BY <1>3, <1>4, <1>5, <1>6

\* refresh_access_pair: a request that arrives after the commit of its
\* token's revocation never gets a pair for it, however many race.
THEOREM LateRequestsRefused == Spec => LateExchangeRefused
<1> DEFINE Refusal ==
        \A e \in exchanges' \ exchanges :
            \E r \in Requests : /\ req[r].tok # None
                                /\ req[r].tok.jti = e.parent
                                /\ req[r].jti = e.child
                                /\ ~req[r].late
<1>1. IInv /\ [Next]_vars => [Refusal]_vars
  <2> SUFFICES ASSUME IInv, [Next]_vars
               PROVE  Refusal
    OBVIOUS
  <2>1. CASE exchanges' = exchanges
    BY <2>1
  <2>2. CASE \E r \in Requests : InsertRefresh(r)
    <3>1. PICK r \in Requests : InsertRefresh(r)
      BY <2>2
    <3>2. SUFFICES ASSUME NEW e \in exchanges' \ exchanges
                   PROVE  /\ req[r].tok # None
                          /\ req[r].tok.jti = e.parent
                          /\ req[r].jti = e.child
                          /\ ~req[r].late
      OBVIOUS
    <3>3. /\ ~req[r].late /\ req[r].tok \in RefreshTok
          /\ e.parent = req[r].tok.jti /\ e.child = req[r].jti
      <4>1. PICK j \in Jtis :
                /\ j = req[r].jti /\ ~req[r].late
                /\ \/ exchanges' = exchanges
                   \/ /\ req[r].tok \in RefreshTok
                      /\ exchanges' = exchanges \union
                             {[parent |-> req[r].tok.jti, child |-> j]}
        BY <3>1, InsertStep
      <4>2. /\ req[r].tok \in RefreshTok
            /\ e = [parent |-> req[r].tok.jti, child |-> j]
        BY <3>2, <4>1
      <4>3. QED
        BY <4>1, <4>2
    <3>4. req[r].tok # None
      BY <3>3, NoneIsNoRecord DEF RefreshTok
    <3>5. QED
      BY <3>3, <3>4
  <2>3. QED
    BY <2>1, <2>2, StepKinds, RevokeStep
<1>2. QED
  BY <1>1, Invariance, PTL DEF Spec, LateExchangeRefused

\* No statement deletes a row, and no UPDATE but the revocation exists.
THEOREM RowsAreOnlyRevoked == Spec => RowsOnlyRevoke
<1> DEFINE Only ==
        \A j \in Jtis :
            tokens[j] # None =>
                /\ tokens'[j] # None
                /\ tokens'[j] \in {tokens[j], [tokens[j] EXCEPT !.revoked = TRUE]}
<1>1. IInv /\ [Next]_vars => [Only]_vars
  <2> SUFFICES ASSUME IInv, [Next]_vars, NEW j \in Jtis, tokens[j] # None
               PROVE  /\ tokens'[j] # None
                      /\ tokens'[j] \in {tokens[j], [tokens[j] EXCEPT !.revoked = TRUE]}
    OBVIOUS
  <2>1. CASE tokens' = tokens
    BY <2>1
  <2>2. CASE \E r \in Requests : RefreshRevoke(r) \/ LogoutRevoke(r)
    <3>1. PICK i \in Jtis :
              tokens' = [tokens EXCEPT ![i] = [tokens[i] EXCEPT !.revoked = TRUE]]
      BY <2>2, RevokeStep
    <3> DEFINE row == [tokens[i] EXCEPT !.revoked = TRUE]
    <3>2. i = j => row \in TokenRow
      BY DEF IInv, TypeOK, TokenRow
    <3> HIDE DEF row
    <3>3. tokens'[j] = IF i = j THEN row ELSE tokens[j]
      BY <3>1 DEF IInv, TypeOK, row
    <3>4. QED
      BY <3>2, <3>3, NoneIsNoRecord DEF row
  <2>3. CASE \E r \in Requests : InsertRefresh(r)
    BY <2>3, InsertStep DEF IInv, TypeOK
  <2>4. QED
    BY <2>1, <2>2, <2>3, StepKinds
<1>2. QED
  BY <1>1, Invariance, PTL DEF Spec, RowsOnlyRevoke

\* Rotation with its races, crashes and round trips implements the ledger in
\* which a successor is only issued once its predecessor is revoked.
THEOREM ImplementsLedger == Spec => LedgerImplemented
<1> DEFINE issued == {j \in Jtis : tokens[j] # None}
           succ == {<<e.parent, e.child>> : e \in exchanges}
<1>1. Init => Ledger!LedgerInit
  BY DEF Init, Ledger!LedgerInit, Closed
<1>2. IInv /\ [Next]_vars => [Ledger!LedgerNext]_(Ledger!ledgerVars)
  <2> SUFFICES ASSUME IInv, [Next]_vars
               PROVE  Ledger!LedgerNext \/ UNCHANGED Ledger!ledgerVars
    OBVIOUS
  <2>1. CASE UNCHANGED <<tokens, exchanges>>
    BY <2>1 DEF Ledger!ledgerVars, Closed
  <2>2. CASE \E r \in Requests : RefreshRevoke(r) \/ LogoutRevoke(r)
    <3>1. PICK j \in Jtis :
              /\ tokens[j] # None /\ j \in Closed'
              /\ tokens' = [tokens EXCEPT ![j] = [tokens[j] EXCEPT !.revoked = TRUE]]
              /\ exchanges' = exchanges
      BY <2>2, RevokeStep
    <3>2. /\ \A i \in Jtis \ {j} : tokens'[i] = tokens[i]
          /\ tokens'[j] # None
      BY <3>1 DEF IInv, TypeOK, Closed
    <3>3. issued' = issued /\ Closed' = Closed \union {j} /\ succ' = succ
      BY <3>1, <3>2 DEF Closed
    <3>4. CASE j \in Closed
      BY <3>3, <3>4 DEF Ledger!ledgerVars
    <3>5. CASE j \notin Closed
      <4>1. Ledger!Revoke(j)
        BY <3>1, <3>3, <3>5 DEF Ledger!Revoke
      <4>2. QED
        BY <4>1 DEF Ledger!LedgerNext
    <3>6. QED
      BY <3>4, <3>5
  <2>3. CASE \E r \in Requests : InsertRefresh(r)
    <3>1. PICK r \in Requests : InsertRefresh(r)
      BY <2>3
    <3>2. PICK j \in Jtis, row \in TokenRow :
              /\ tokens[j] = None /\ row.revoked = FALSE
              /\ tokens' = [tokens EXCEPT ![j] = row]
              /\ \/ exchanges' = exchanges
                 \/ /\ req[r].tok \in RefreshTok /\ req[r].tok.jti \in Closed
                    /\ exchanges' = exchanges \union
                           {[parent |-> req[r].tok.jti, child |-> j]}
      BY <3>1, InsertStep
    <3>3. \A i \in Jtis : tokens'[i] = IF i = j THEN row ELSE tokens[i]
      BY <3>2 DEF IInv, TypeOK
    <3>4. /\ issued' = issued \union {j} /\ j \notin issued
          /\ Closed' = Closed
      BY <3>2, <3>3, NoneIsNoRecord DEF Closed
    <3>5. CASE exchanges' = exchanges
      <4>1. Ledger!Issue(j)
        BY <3>4, <3>5 DEF Ledger!Issue
      <4>2. QED
        BY <4>1 DEF Ledger!LedgerNext
    <3>6. CASE /\ req[r].tok \in RefreshTok /\ req[r].tok.jti \in Closed
               /\ exchanges' = exchanges \union
                      {[parent |-> req[r].tok.jti, child |-> j]}
      <4>1. succ' = succ \union {<<req[r].tok.jti, j>>}
        <5> DEFINE new == [parent |-> req[r].tok.jti, child |-> j]
        <5>1. new.parent = req[r].tok.jti /\ new.child = j
          OBVIOUS
        <5>2. exchanges' = exchanges \union {new}
          BY <3>6
        <5> HIDE DEF new
        <5>3. QED
          BY <5>1, <5>2
      <4>2. Ledger!Rotate(req[r].tok.jti, j) /\ req[r].tok.jti \in Jtis
        BY <3>4, <3>6, <4>1 DEF Ledger!Rotate, RefreshTok
      <4>3. QED
        BY <4>2 DEF Ledger!LedgerNext
    <3>7. QED
      BY <3>2, <3>5, <3>6
  <2>4. QED
    BY <2>1, <2>2, <2>3, StepKinds
<1>3. QED
  BY <1>1, <1>2, Invariance, PTL DEF Spec, LedgerImplemented, Ledger!LedgerSpec

\* What the ledger guarantees, rotation does: no token has two ancestries, none
\* is its own ancestor.
THEOREM SessionsFormFamilies == Spec => []FamiliesAreTrees
<1>1. Ledger!LedgerSpec => [](Ledger!LedgerShape /\ Ledger!Forest)
  BY Ledger!LedgerForest
<1>2. Ledger!LedgerShape /\ Ledger!Forest => FamiliesAreTrees
  BY DEF FamiliesAreTrees
<1>3. QED
  BY <1>1, <1>2, ImplementsLedger, PTL DEF LedgerImplemented

-----------------------------------------------------------------------------
(* How a step moves its lane and keeps the rows.                           *)

LEMMA Moved ==
    ASSUME IInv, NEW r \in Requests, NEW q, To(r, q)
    PROVE  \A s \in Requests : req'[s] = IF s = r THEN q ELSE req[s]
BY DEF IInv, TypeOK, To

\* Rows stay, of the same user, and revoked ones revoked.
Kept(j) ==
    tokens[j] # None =>
        /\ tokens'[j] # None /\ tokens'[j].user = tokens[j].user
        /\ j \in Closed => j \in Closed'

LEMMA RowsAreKept ==
    ASSUME IInv, [Next]_vars
    PROVE  \A j \in Jtis : Kept(j)
<1>1. CASE UNCHANGED <<tokens, exchanges>>
  BY <1>1 DEF Kept, Closed
<1>2. CASE \E r \in Requests : RefreshRevoke(r) \/ LogoutRevoke(r)
  <2>1. PICK i \in Jtis :
            /\ tokens[i] # None
            /\ tokens' = [tokens EXCEPT ![i] = [tokens[i] EXCEPT !.revoked = TRUE]]
    BY <1>2, RevokeStep
  <2> DEFINE row == [tokens[i] EXCEPT !.revoked = TRUE]
  <2>2. row \in TokenRow /\ row.user = tokens[i].user /\ row.revoked = TRUE
    BY <2>1 DEF IInv, TypeOK, TokenRow
  <2> HIDE DEF row
  <2>3. \A j \in Jtis : tokens'[j] = IF j = i THEN row ELSE tokens[j]
    BY <2>1 DEF IInv, TypeOK, row
  <2>4. QED
    BY <2>2, <2>3, NoneIsNoRecord DEF Kept, Closed
<1>3. CASE \E r \in Requests : InsertRefresh(r)
  <2>1. PICK i \in Jtis, row \in TokenRow :
            tokens[i] = None /\ tokens' = [tokens EXCEPT ![i] = row]
    BY <1>3, InsertStep
  <2>2. \A j \in Jtis : tokens'[j] = IF j = i THEN row ELSE tokens[j]
    BY <2>1 DEF IInv, TypeOK
  <2>3. QED
    BY <2>1, <2>2 DEF Kept, Closed
<1>4. QED
  BY <1>1, <1>2, <1>3, StepKinds

\* A lane with none of these facts to keep.
Calm(q) ==
    /\ q.pc \notin {"refresh_check", "refresh_revoke", "logout_select"}
    /\ q.pc \in {"mint", "insert"} => q.op # "refresh"
    /\ q.status # 204

\* Lane r goes from p to q with the token it was given.
Goes(r, p, q) ==
    /\ At(r, p)
    /\ req'[r].pc = q /\ req'[r].status = 0
    /\ req'[r].op = req[r].op /\ req'[r].tok = req[r].tok

\* What a step of lane r means for the facts above.
LaneMove(r) ==
    \/ Calm(req'[r])
    \/ /\ req'[r].pc = "logout_select" /\ req'[r].status = 0
       /\ tokens'[req'[r].tok.jti] # None
    \/ /\ Goes(r, "refresh_select", "refresh_check")
       /\ req'[r].row = tokens[req[r].tok.jti] /\ tokens' = tokens
    \/ /\ Goes(r, "refresh_check", "refresh_revoke")
       /\ ~req[r].row.revoked
       /\ req'[r].user = req[r].row.user /\ tokens' = tokens
    \/ /\ Goes(r, "refresh_revoke", "mint")
       /\ req'[r].user = req[r].user /\ tokens' = Revoked(req[r].tok.jti)
    \/ /\ Goes(r, "mint", "insert")
       /\ req'[r].user = req[r].user /\ tokens' = tokens
    \/ At(r, "logout_select") /\ tokens[req[r].tok.jti] = None
    \/ /\ At(r, "logout_revoke")
       /\ req'[r].pc = "reply" /\ req'[r].tok = req[r].tok
       /\ tokens' = Revoked(req[r].tok.jti)

LEMMA RefusedCalm == \A st \in {401, 403, 409, 500} : Calm(Refused(st))
BY RefusedFields DEF Calm

LEMMA BeginMoves ==
    ASSUME IInv, NEW r \in Requests, Begin(r)
    PROVE  LaneMove(r)
<1>1. ASSUME NEW e \in Emails, RegisterBegin(r, e) \/ LoginBegin(r, e)
      PROVE  Calm(req'[r])
  BY <1>1, Moved DEF RegisterBegin, LoginBegin, Arrived, Calm
<1>2. ASSUME NEW u \in UserIds, OAuthBegin(r, u)
      PROVE  Calm(req'[r])
  BY <1>2, Moved DEF OAuthBegin, Arrived, Calm
<1>3. ASSUME NEW tok \in wallet \union {None}, RefreshBegin(r, tok) \/ MeBegin(r, tok)
      PROVE  Calm(req'[r])
  <2>1. Calm(Arrived("refresh_select", "refresh", None, tok))
        /\ Calm(Arrived("me_select", "me", None, tok))
    BY DEF Arrived, Calm
  <2>2. QED
    BY <1>3, <2>1, RefusedCalm, Moved DEF RefreshBegin, MeBegin
<1>4. ASSUME NEW tok \in wallet \union {None}, LogoutBegin(r, tok)
      PROVE  LaneMove(r)
  <2>1. CASE Decodes(tok, "refresh")
    <3>1. tok \in wallet /\ tok.type = "refresh"
      BY <2>1 DEF Decodes
    <3>2. tokens'[tok.jti] # None
      BY <1>4, <3>1 DEF IInv, WalletBacked, LogoutBegin, database
    <3>3. req'[r] = Arrived("logout_select", "logout", None, tok)
      BY <1>4, <2>1, Moved DEF LogoutBegin
    <3>4. req'[r].pc = "logout_select" /\ req'[r].status = 0 /\ req'[r].tok = tok
      BY <3>3 DEF Arrived
    <3>5. QED
      BY <3>2, <3>4 DEF LaneMove
  <2>2. CASE ~Decodes(tok, "refresh")
    BY <1>4, <2>2, RefusedCalm, Moved DEF LogoutBegin, LaneMove
  <2>3. QED
    BY <2>1, <2>2
<1>5. QED
  BY <1>1, <1>2, <1>3, <1>4 DEF Begin, LaneMove

LEMMA RegisterLoginMoves ==
    ASSUME IInv, NEW r \in Requests,
           RegisterSelect(r) \/ RegisterInsert(r) \/ LoginSelect(r)
    PROVE  Calm(req'[r])
<1>1. req[r] \in Req /\ LaneOK(req[r])
  BY DEF IInv, TypeOK
<1>2. req[r].status = 0 /\ req[r].op \in {"register", "login"}
  BY <1>1 DEF RegisterSelect, RegisterInsert, LoginSelect, At, LaneOK, LaneShape
<1>3. \/ \E st \in {401, 403, 409, 500} : req'[r] = Refused(st)
      \/ \E u \in UserIds \union {None}, pc \in {"register_insert", "mint"} :
            req'[r] = Proceeding(req[r], pc, u)
  BY Moved DEF RegisterSelect, RegisterInsert, LoginSelect
<1>4. CASE \E u \in UserIds \union {None}, pc \in {"register_insert", "mint"} :
              req'[r] = Proceeding(req[r], pc, u)
  <2>1. PICK u \in UserIds \union {None}, pc \in {"register_insert", "mint"} :
            req'[r] = Proceeding(req[r], pc, u)
    BY <1>4
  <2>2. pc \in PCs
    BY DEF PCs
  <2>3. req'[r].pc = pc /\ req'[r].op = req[r].op /\ req'[r].status = req[r].status
    BY <1>1, <2>1, <2>2, ProceedingFields
  <2>4. QED
    BY <1>2, <2>3 DEF Calm
<1>5. QED
  BY <1>3, <1>4, RefusedCalm

LEMMA RefreshSelectMoves ==
    ASSUME IInv, NEW r \in Requests, RefreshSelect(r)
    PROVE  LaneMove(r)
<1> DEFINE row == tokens[req[r].tok.jti]
           p == [req[r] EXCEPT !.pc = "refresh_check"]
           q == [p EXCEPT !.row = row]
<1>1. req[r] \in Req /\ LaneOK(req[r]) /\ At(r, "refresh_select")
  BY DEF IInv, TypeOK, RefreshSelect
<1>2. req[r].status = 0
  BY <1>1 DEF At, LaneOK, LaneShape
<1>3. CASE row = None
  BY <1>3, RefusedCalm, Moved DEF RefreshSelect, LaneMove
<1>4. CASE row # None
  <2>1. To(r, q) /\ tokens' = tokens
    BY <1>4 DEF RefreshSelect, database
  <2>2. req'[r] = q
    BY <2>1, Moved
  <2>3. /\ p.pc = "refresh_check" /\ p.op = req[r].op /\ p.tok = req[r].tok
        /\ p.status = 0 /\ DOMAIN p = DOMAIN req[r]
    BY <1>1, <1>2 DEF Req
  <2>4. "row" \in DOMAIN req[r]
    BY <1>1 DEF Req
  <2> HIDE DEF p, row
  <2>5. q.pc = "refresh_check" /\ q.row = row /\ q.op = p.op /\ q.tok = p.tok /\ q.status = 0
    BY <2>3, <2>4
  <2>6. QED
    BY <1>1, <2>1, <2>2, <2>3, <2>5 DEF LaneMove, Goes, row
<1>5. QED
  BY <1>3, <1>4

LEMMA RefreshCheckMoves ==
    ASSUME IInv, NEW r \in Requests, RefreshCheck(r)
    PROVE  LaneMove(r)
<1> DEFINE row == req[r].row
           verdict == RefreshVerdict(row, req[r].tok, users[row.user])
           q == Proceeding(req[r], "refresh_revoke", row.user)
<1>1. req[r] \in Req /\ LaneOK(req[r]) /\ At(r, "refresh_check")
  BY DEF IInv, TypeOK, RefreshCheck
<1>2. row \in TokenRow /\ req[r].status = 0
  BY <1>1 DEF LaneOK, LaneShape, At
<1>3. CASE verdict = 0
  <2>1. ~row.revoked
    BY <1>3 DEF RefreshVerdict
  <2>2. row.user \in UserIds \union {None} /\ "refresh_revoke" \in PCs
    BY <1>2 DEF TokenRow, PCs
  <2>3. To(r, q) /\ tokens' = tokens
    BY <1>3 DEF RefreshCheck, database
  <2>4. req'[r] = q
    BY <2>3, Moved
  <2>5. /\ q.pc = "refresh_revoke" /\ q.user = row.user /\ q.op = req[r].op
        /\ q.tok = req[r].tok /\ q.status = req[r].status
    <3> HIDE DEF row
    <3>1. QED
      BY <1>1, <2>2, ProceedingFields
  <2> HIDE DEF q
  <2>6. Goes(r, "refresh_check", "refresh_revoke") /\ req'[r].user = row.user
    BY <1>1, <1>2, <2>4, <2>5 DEF Goes
  <2>7. QED
    BY <2>1, <2>3, <2>6 DEF LaneMove
<1>4. CASE verdict # 0
  <2>1. verdict \in {401, 403}
    BY <1>4 DEF RefreshVerdict
  <2>2. To(r, Refused(verdict))
    BY <1>4 DEF RefreshCheck
  <2> HIDE DEF verdict
  <2>3. QED
    BY <2>1, <2>2, RefusedCalm, Moved DEF LaneMove
<1>5. QED
  BY <1>3, <1>4

LEMMA RefreshRevokeMoves ==
    ASSUME IInv, NEW r \in Requests, RefreshRevoke(r)
    PROVE  Goes(r, "refresh_revoke", "mint") /\ LaneMove(r)
<1> DEFINE q == Proceeding(req[r], "mint", req[r].user)
<1>1. req[r] \in Req /\ LaneOK(req[r]) /\ At(r, "refresh_revoke")
  BY DEF IInv, TypeOK, RefreshRevoke
<1>2. req[r].user \in UserIds \union {None} /\ "mint" \in PCs
  BY <1>1 DEF Req, PCs
<1>3. To(r, q) /\ tokens' = Revoked(req[r].tok.jti)
  BY DEF RefreshRevoke
<1>4. req'[r] = q /\ req[r].status = 0
  BY <1>1, <1>3, Moved DEF At, LaneOK, LaneShape
<1>5. /\ q.pc = "mint" /\ q.user = req[r].user /\ q.op = req[r].op
      /\ q.tok = req[r].tok /\ q.status = req[r].status
  BY <1>1, <1>2, ProceedingFields
<1> HIDE DEF q
<1>6. Goes(r, "refresh_revoke", "mint") /\ req'[r].user = req[r].user
  BY <1>1, <1>4, <1>5 DEF Goes
<1>7. QED
  BY <1>3, <1>6 DEF LaneMove

LEMMA MintMoves ==
    ASSUME IInv, NEW r \in Requests, Mint(r)
    PROVE  Goes(r, "mint", "insert") /\ LaneMove(r)
<1>1. req[r] \in Req /\ LaneOK(req[r]) /\ At(r, "mint")
  BY DEF IInv, TypeOK, Mint
<1>2. req[r].status = 0
  BY <1>1 DEF At, LaneOK, LaneShape
<1>3. PICK j \in FreshJtis :
          To(r, [req[r] EXCEPT !.pc = "insert", !.jti = j, !.at = now])
  BY DEF Mint
<1> DEFINE p1 == [req[r] EXCEPT !.pc = "insert"]
           p2 == [p1 EXCEPT !.jti = j]
           q  == [p2 EXCEPT !.at = now]
<1>4. To(r, q) /\ tokens' = tokens
  BY <1>3 DEF Mint, database
<1>5. /\ p1.pc = "insert" /\ p1.op = req[r].op /\ p1.user = req[r].user
      /\ p1.tok = req[r].tok /\ p1.status = 0
  BY <1>1, <1>2 DEF Req
<1> HIDE DEF p1
<1>6. /\ p2.pc = "insert" /\ p2.op = req[r].op /\ p2.user = req[r].user
      /\ p2.tok = req[r].tok /\ p2.status = 0
  BY <1>5
<1> HIDE DEF p2
<1>7. /\ q.pc = "insert" /\ q.op = req[r].op /\ q.user = req[r].user
      /\ q.tok = req[r].tok /\ q.status = 0
  BY <1>6
<1> HIDE DEF q
<1>8. req'[r] = q
  BY <1>4, Moved
<1>9. Goes(r, "mint", "insert") /\ req'[r].user = req[r].user
  BY <1>1, <1>7, <1>8 DEF Goes
<1>10. QED
  BY <1>4, <1>9 DEF LaneMove

LEMMA InsertMoves ==
    ASSUME IInv, NEW r \in Requests, InsertRefresh(r)
    PROVE  Calm(req'[r])
<1> DEFINE st == IF req[r].op = "register" THEN 201 ELSE 200
<1>1. req[r] \in Req
  BY DEF IInv, TypeOK
<1>2. req'[r] = Returned(req[r], st)
  BY Moved DEF InsertRefresh
<1>3. st \in {200, 201}
  OBVIOUS
<1> HIDE DEF st
<1>4. req'[r].pc = "reply" /\ req'[r].status = st
  BY <1>1, <1>2, <1>3, ReturnedFields
<1>5. QED
  BY <1>3, <1>4 DEF Calm

LEMMA LogoutMoves ==
    ASSUME IInv, NEW r \in Requests, LogoutSelect(r) \/ LogoutRevoke(r)
    PROVE  LaneMove(r)
<1>1. req[r] \in Req /\ LaneOK(req[r])
  BY DEF IInv, TypeOK
<1>2. CASE LogoutSelect(r)
  <2>1. At(r, "logout_select") /\ req[r].status = 0
    BY <1>1, <1>2 DEF LogoutSelect, At, LaneOK, LaneShape
  <2>2. CASE tokens[req[r].tok.jti] # None
    <3>1. req'[r] = Proceeding(req[r], "logout_revoke", None)
      BY <1>2, <2>2, Moved DEF LogoutSelect
    <3>2. req'[r].pc = "logout_revoke" /\ req'[r].status = 0
      BY <1>1, <2>1, <3>1, ProceedingFields DEF PCs
    <3>3. QED
      BY <3>2 DEF LaneMove, Calm
  <2>3. QED
    BY <2>1, <2>2 DEF LaneMove
<1>3. CASE LogoutRevoke(r)
  <2>1. /\ At(r, "logout_revoke") /\ tokens' = Revoked(req[r].tok.jti)
        /\ req'[r] = Returned(req[r], 204)
    BY <1>3, Moved DEF LogoutRevoke
  <2>2. req'[r].pc = "reply" /\ req'[r].tok = req[r].tok
    BY <1>1, <2>1, ReturnedFields
  <2>3. QED
    BY <2>1, <2>2 DEF LaneMove
<1>4. QED
  BY <1>2, <1>3

LEMMA MeSelectMoves ==
    ASSUME IInv, NEW r \in Requests, MeSelect(r)
    PROVE  Calm(req'[r])
<1> DEFINE u == req[r].tok.sub
           p1 == [req[r] EXCEPT !.pc = "reply"]
           p2 == [p1 EXCEPT !.status = 200]
           q  == [p2 EXCEPT !.user = u]
<1>1. req[r] \in Req
  BY DEF IInv, TypeOK
<1>2. To(r, q) \/ To(r, Refused(401))
  BY DEF MeSelect
<1>3. p1.pc = "reply" /\ DOMAIN p1 = DOMAIN req[r]
  BY <1>1 DEF Req
<1>4. "status" \in DOMAIN req[r]
  BY <1>1 DEF Req
<1> HIDE DEF p1
<1>5. p2.pc = "reply" /\ p2.status = 200
  BY <1>3, <1>4
<1> HIDE DEF p2
<1>6. q.pc = "reply" /\ q.status = 200
  BY <1>5
<1> HIDE DEF q
<1>7. Calm(q)
  BY <1>6 DEF Calm
<1>8. QED
  BY <1>2, <1>7, RefusedCalm, Moved

\* One step of one lane.
LEMMA LaneMoves ==
    ASSUME IInv, NEW r \in Requests, Begin(r) \/ Progress(r) \/ Abort(r)
    PROVE  /\ \A s \in Requests \ {r} : req'[s] = req[s]
           /\ LaneMove(r)
<1>1. \E q : To(r, q)
  <2>1. CASE Begin(r)
    BY <2>1 DEF Begin, RegisterBegin, LoginBegin, OAuthBegin, RefreshBegin,
       LogoutBegin, MeBegin
  <2>2. CASE Progress(r) \/ Abort(r)
    BY <2>2 DEF Progress, Abort, RegisterSelect, RegisterInsert, LoginSelect,
       RefreshSelect, RefreshCheck, RefreshRevoke, Mint, InsertRefresh,
       LogoutSelect, LogoutRevoke, MeSelect, Reply
  <2>3. QED
    BY <2>1, <2>2
<1>2. \A s \in Requests \ {r} : req'[s] = req[s]
  BY <1>1, Moved
<1>3. ASSUME Reply(r) \/ Abort(r)
      PROVE  Calm(req'[r])
  <2>1. req'[r] = IdleReq
    BY <1>3, Moved DEF Reply, Abort
  <2>2. QED
    BY <2>1 DEF IdleReq, Calm
<1>4. ASSUME \/ RegisterSelect(r) \/ RegisterInsert(r) \/ LoginSelect(r)
             \/ InsertRefresh(r) \/ MeSelect(r)
      PROVE  Calm(req'[r])
  BY <1>4, RegisterLoginMoves, InsertMoves, MeSelectMoves
<1>5. ASSUME \/ RefreshSelect(r) \/ RefreshCheck(r) \/ RefreshRevoke(r)
             \/ Mint(r) \/ LogoutSelect(r) \/ LogoutRevoke(r)
      PROVE  LaneMove(r)
  BY <1>5, RefreshSelectMoves, RefreshCheckMoves, RefreshRevokeMoves, MintMoves,
     LogoutMoves
<1>6. LaneMove(r)
  <2>1. Calm(req'[r]) => LaneMove(r)
    BY DEF LaneMove
  <2>2. QED
    BY <1>3, <1>4, <1>5, <2>1, BeginMoves DEF Progress
<1>7. QED
  BY <1>2, <1>6

\* The record of logouts changes when an answer is delivered, that of exchanges
\* when a row is inserted.
LEMMA HistoryMoves ==
    ASSUME IInv, [Next]_vars
    PROVE  /\ exchanges' = exchanges \/ \E r \in Requests : InsertRefresh(r)
           /\ loggedOut' = loggedOut \/ \E r \in Requests : Reply(r)
<1>1. ASSUME NEW r \in Requests, Begin(r)
      PROVE  exchanges' = exchanges /\ loggedOut' = loggedOut
  BY <1>1 DEF Begin, RegisterBegin, LoginBegin, OAuthBegin, RefreshBegin, LogoutBegin,
              MeBegin, history
<1>2. ASSUME NEW r \in Requests, Progress(r)
      PROVE  /\ exchanges' = exchanges \/ InsertRefresh(r)
             /\ loggedOut' = loggedOut \/ Reply(r)
  BY <1>2 DEF Progress, RegisterSelect, RegisterInsert, LoginSelect, RefreshSelect,
              RefreshCheck, RefreshRevoke, Mint, InsertRefresh, LogoutSelect,
              LogoutRevoke, MeSelect, Reply, history
<1>3. ASSUME NEW r \in Requests, Abort(r)
      PROVE  exchanges' = exchanges /\ loggedOut' = loggedOut
  BY <1>3 DEF Abort, history
<1>4. ASSUME (\E u \in UserIds : Deactivate(u)) \/ Tick \/ UNCHANGED vars
      PROVE  exchanges' = exchanges /\ loggedOut' = loggedOut
  BY <1>4 DEF Deactivate, Tick, vars, history
<1>5. QED
  BY <1>1, <1>2, <1>3, <1>4 DEF Next

-----------------------------------------------------------------------------
(* Why a session ends.                                                     *)

\* A lane that has revoked a token has it or its successor to show after its
\* next step, unless it is lost.
LEMMA OwedIsPaid ==
    ASSUME IInv, [Next]_vars, NEW r \in Requests, NEW j \in Jtis, Owes(r, j)
    PROVE  Accounted(j)' \/ Abort(r)
<1>1. /\ req[r] \in Req /\ LaneOK(req[r])
      /\ req[r].tok # None /\ req[r].tok.jti = j
  BY DEF IInv, TypeOK, Owes
<1>2. \/ req[r].op = "refresh" /\ req[r].pc \in {"mint", "insert"}
      \/ req[r].pc = "reply" /\ req[r].status = 204
  BY <1>1 DEF Owes, At, LaneOK, LaneShape
<1>3. CASE req'[r] = req[r]
  BY <1>3 DEF Owes, Accounted, At
<1>4. CASE Mint(r)
  <2>1. req[r].op = "refresh"
    BY <1>2, <1>4 DEF Mint, At
  <2>2. Goes(r, "mint", "insert")
    BY <1>4, MintMoves
  <2>3. QED
    BY <1>1, <2>1, <2>2 DEF Goes, Owes, Accounted, At
<1>5. CASE InsertRefresh(r)
  <2>1. req[r].op = "refresh"
    BY <1>2, <1>5 DEF InsertRefresh, At
  <2>2. [parent |-> j, child |-> req[r].jti] \in exchanges'
    BY <1>1, <1>5, <2>1 DEF InsertRefresh
  <2>3. QED
    BY <2>2 DEF Accounted
<1>6. CASE Reply(r)
  BY <1>1, <1>2, <1>6 DEF Reply, At, Accounted
<1>7. CASE Begin(r) \/ Progress(r) \/ Abort(r)
  BY <1>2, <1>4, <1>5, <1>6, <1>7
     DEF Begin, Progress, At, RegisterBegin, LoginBegin, OAuthBegin, RefreshBegin,
         LogoutBegin, MeBegin, RegisterSelect, RegisterInsert, LoginSelect,
         RefreshSelect, RefreshCheck, RefreshRevoke, LogoutSelect, LogoutRevoke, MeSelect
<1>8. QED
  <2>1. CASE \E s \in Requests : Begin(s) \/ Progress(s) \/ Abort(s)
    BY <1>3, <1>7, <2>1, LaneMoves
  <2>2. CASE (\E u \in UserIds : Deactivate(u)) \/ Tick \/ UNCHANGED vars
    BY <1>3, <2>2 DEF Deactivate, Tick, vars
  <2>3. QED
    BY <2>1, <2>2 DEF Next

\* Whoever revokes a token owes an account of it.
LEMMA RevokerOwes ==
    ASSUME IInv, [Next]_vars, NEW j \in Closed' \ Closed
    PROVE  Accounted(j)'
<1>1. CASE UNCHANGED <<tokens, exchanges>>
  BY <1>1 DEF Closed
<1>2. CASE \E r \in Requests : InsertRefresh(r)
  <2>1. PICK i \in Jtis, row \in TokenRow :
            /\ tokens' = [tokens EXCEPT ![i] = row]
            /\ ~row.revoked
    BY <1>2, InsertStep
  <2>2. QED
    BY <2>1 DEF IInv, TypeOK, Closed
<1>3. ASSUME NEW r \in Requests, RefreshRevoke(r) \/ LogoutRevoke(r)
      PROVE  Accounted(j)'
  <2>1. /\ tokens' = Revoked(req[r].tok.jti) /\ req[r] \in Req /\ LaneOK(req[r])
        /\ At(r, "refresh_revoke") \/ At(r, "logout_revoke")
    BY <1>3 DEF RefreshRevoke, LogoutRevoke, IInv, TypeOK
  <2>2. req[r].tok \in RefreshTok
    BY <2>1 DEF At, LaneOK, LaneShape
  <2>3. j = req[r].tok.jti
    BY <2>1 DEF Revoked, IInv, TypeOK, Closed
  <2>4. req[r].tok # None
    BY <2>2, NoneIsNoRecord DEF RefreshTok
  <2>5. CASE RefreshRevoke(r)
    <3>1. req[r].op = "refresh" /\ At(r, "refresh_revoke")
      BY <2>1, <2>5 DEF RefreshRevoke, At, LaneOK, LaneShape
    <3>2. Goes(r, "refresh_revoke", "mint")
      BY <2>5, RefreshRevokeMoves
    <3>3. QED
      BY <2>3, <2>4, <3>1, <3>2 DEF Goes, Owes, Accounted, At
  <2>6. CASE LogoutRevoke(r)
    <3>1. req'[r] = Returned(req[r], 204)
      BY <2>6, Moved DEF LogoutRevoke
    <3>2. req'[r].status = 204 /\ req'[r].tok = req[r].tok
      BY <2>1, <3>1, ReturnedFields
    <3>3. QED
      BY <2>3, <2>4, <3>2 DEF Owes, Accounted
  <2>7. QED
    BY <1>3, <2>5, <2>6
<1>4. QED
  BY <1>1, <1>2, <1>3, StepKinds

\* refresh_access_pair, logout_refresh_token: no session ends but by being
\* exchanged, logged out, or cut off between the two commits.
THEOREM SessionsEndForAReason == Spec => RevocationAccounted
<1>1. ASSUME IInv, [Next]_vars, NEW j \in Jtis, Accounted(j), ~Accounted(j)'
      PROVE  \E r \in Requests : Owes(r, j) /\ Abort(r)
  <2>1. loggedOut \subseteq loggedOut' /\ exchanges \subseteq exchanges'
    BY <1>1, HistoryMoves DEF InsertRefresh, Reply
  <2>2. PICK r \in Requests : Owes(r, j)
    BY <1>1, <2>1 DEF Accounted
  <2>3. QED
    BY <1>1, <2>2, OwedIsPaid
<1> DEFINE Step ==
        \A j \in Jtis :
            /\ j \in Closed' \ Closed => Accounted(j)'
            /\ Accounted(j) /\ ~Accounted(j)' => \E r \in Requests : Owes(r, j) /\ Abort(r)
<1>2. IInv /\ [Next]_vars => [Step]_vars
  BY <1>1, RevokerOwes
<1>3. QED
  BY <1>2, Invariance, PTL DEF Spec, RevocationAccounted

-----------------------------------------------------------------------------
(* Who a session belongs to, and what a logout has done.                   *)

\* The user a refresh works for is the owner of the row it has read, and stays
\* so until the successor is written.
OwnerLane(q) ==
    /\ q.pc = "refresh_check" => q.row.user = tokens[q.tok.jti].user
    /\ q.pc = "refresh_revoke" \/ (q.pc \in {"mint", "insert"} /\ q.op = "refresh") =>
           q.user = tokens[q.tok.jti].user

\* The token of a logout has a row, so that "no row" is never why it returns 204.
LogoutLane(q) ==
    /\ q.pc = "logout_select" => tokens[q.tok.jti] # None
    /\ q.status = 204 => q.tok.jti \in Closed

FInv ==
    /\ SessionKeepsUser
    /\ LogoutRevokes
    /\ \A r \in Requests : OwnerLane(req[r]) /\ LogoutLane(req[r])

\* A lane's move keeps its user the owner of its token's row, and no 204 is
\* returned before the revocation is committed.
LEMMA LaneKeeps ==
    ASSUME IInv, FInv, [Next]_vars, NEW r \in Requests, LaneMove(r)
    PROVE  (OwnerLane(req[r]) /\ LogoutLane(req[r]))'
<1>1. /\ req[r] \in Req /\ LaneOK(req[r])
      /\ OwnerLane(req[r]) /\ LogoutLane(req[r])
  BY DEF IInv, FInv, TypeOK
<1>2. CASE Calm(req'[r])
  BY <1>2 DEF Calm, OwnerLane, LogoutLane
<1>3. CASE /\ req'[r].pc = "logout_select" /\ req'[r].status = 0
           /\ tokens'[req'[r].tok.jti] # None
  BY <1>3 DEF OwnerLane, LogoutLane
<1>4. CASE /\ Goes(r, "refresh_select", "refresh_check")
           /\ req'[r].row = tokens[req[r].tok.jti] /\ tokens' = tokens
  BY <1>4 DEF Goes, OwnerLane, LogoutLane
<1>5. CASE /\ Goes(r, "refresh_check", "refresh_revoke")
           /\ req'[r].user = req[r].row.user /\ tokens' = tokens
  BY <1>1, <1>5 DEF Goes, At, OwnerLane, LogoutLane
<1>6. CASE /\ Goes(r, "refresh_revoke", "mint")
           /\ req'[r].user = req[r].user /\ tokens' = Revoked(req[r].tok.jti)
  <2>1. /\ req[r].tok.jti \in Jtis /\ tokens[req[r].tok.jti] # None
        /\ req[r].user = tokens[req[r].tok.jti].user
    BY <1>1, <1>6 DEF Goes, At, LaneOK, LaneShape, LaneFacts, OwnerLane, RefreshTok
  <2>2. tokens'[req[r].tok.jti].user = tokens[req[r].tok.jti].user
    BY <2>1, RowsAreKept DEF Kept
  <2>3. QED
    BY <1>6, <2>1, <2>2 DEF Goes, OwnerLane, LogoutLane
<1>7. CASE /\ Goes(r, "mint", "insert")
           /\ req'[r].user = req[r].user /\ tokens' = tokens
  BY <1>1, <1>7 DEF Goes, At, OwnerLane, LogoutLane
<1>8. CASE At(r, "logout_select") /\ tokens[req[r].tok.jti] = None
  BY <1>1, <1>8 DEF At, LogoutLane
<1>9. CASE /\ At(r, "logout_revoke")
           /\ req'[r].pc = "reply" /\ req'[r].tok = req[r].tok
           /\ tokens' = Revoked(req[r].tok.jti)
  <2>1. req[r].tok.jti \in Jtis /\ tokens[req[r].tok.jti] # None
    BY <1>1, <1>9 DEF At, LaneOK, LaneShape, LaneFacts, RefreshTok
  <2>2. req[r].tok.jti \in Closed'
    <3> DEFINE j == req[r].tok.jti
               row == [tokens[j] EXCEPT !.revoked = TRUE]
    <3>1. tokens' = [tokens EXCEPT ![j] = row] /\ tokens[j] \in TokenRow
      BY <1>9, <2>1 DEF Revoked, IInv, TypeOK
    <3>2. row \in TokenRow /\ row.revoked = TRUE
      BY <3>1 DEF TokenRow
    <3> HIDE DEF row, j
    <3>3. tokens'[j] = row
      BY <2>1, <3>1 DEF IInv, TypeOK, j
    <3>4. QED
      BY <2>1, <3>2, <3>3, NoneIsNoRecord DEF Closed, j
  <2>3. QED
    BY <1>9, <2>2 DEF OwnerLane, LogoutLane
<1>10. QED
  BY <1>2, <1>3, <1>4, <1>5, <1>6, <1>7, <1>8, <1>9 DEF LaneMove

\* The row is written for the user the exchange was allowed for.
LEMMA InsertKeepsUser ==
    ASSUME IInv, FInv, NEW r \in Requests, InsertRefresh(r)
    PROVE  SessionKeepsUser'
<1>1. req[r] \in Req /\ LaneOK(req[r]) /\ OwnerLane(req[r]) /\ At(r, "insert")
  BY DEF IInv, FInv, TypeOK, InsertRefresh
<1>2. req[r].op = "refresh" => /\ req[r].user = tokens[req[r].tok.jti].user
                               /\ req[r].tok.jti \in Closed
  BY <1>1 DEF At, LaneOK, LaneFacts, OwnerLane
<1> DEFINE row == [user |-> req[r].user, expires_at |-> req[r].at + RefreshTTL,
                   revoked |-> FALSE]
<1>3. req[r].jti \in Jtis /\ tokens[req[r].jti] = None
  BY <1>1 DEF InsertRefresh, At, LaneOK, LaneShape, LaneFacts
<1>4. tokens' = [tokens EXCEPT ![req[r].jti] = row] /\ row.user = req[r].user
  BY DEF InsertRefresh
<1> HIDE DEF row
<1>5. \A j \in Jtis : tokens'[j] = IF j = req[r].jti THEN row ELSE tokens[j]
  BY <1>4 DEF IInv, TypeOK
<1>6. ASSUME NEW e \in exchanges'
      PROVE  tokens'[e.parent].user = tokens'[e.child].user
  <2>1. CASE e \in exchanges
    <3>1. /\ e.parent \in Jtis /\ e.child \in Jtis
          /\ tokens[e.parent] # None /\ tokens[e.child] # None
          /\ tokens[e.parent].user = tokens[e.child].user
      BY <2>1 DEF IInv, FInv, TypeOK, NeverBothLive, SessionKeepsUser
    <3>2. QED
      BY <1>3, <1>5, <3>1
  <2>2. CASE e \notin exchanges
    <3>1. /\ req[r].op = "refresh"
          /\ e = [parent |-> req[r].tok.jti, child |-> req[r].jti]
      BY <1>6, <2>2 DEF InsertRefresh
    <3>2. /\ e.parent = req[r].tok.jti /\ e.child = req[r].jti
          /\ e.parent \in Jtis /\ tokens[e.parent] # None
      BY <1>2, <3>1 DEF Closed
    <3>3. QED
      BY <1>2, <1>3, <1>4, <1>5, <3>1, <3>2
  <2>3. QED
    BY <2>1, <2>2
<1>7. QED
  BY <1>6 DEF SessionKeepsUser

\* A 204 that is delivered says what the database says.
LEMMA ReplyKeepsLogouts ==
    ASSUME IInv, FInv, NEW r \in Requests, Reply(r)
    PROVE  LogoutRevokes'
<1>1. LogoutLane(req[r])
  BY DEF FInv
<1>2. /\ tokens' = tokens
      /\ loggedOut' \subseteq loggedOut \union
             (IF req[r].status = 204 THEN {req[r].tok.jti} ELSE {})
  BY DEF Reply, database
<1>3. QED
  BY <1>1, <1>2 DEF FInv, LogoutRevokes, LogoutLane, Closed

LEMMA FNextOK == IInv /\ FInv /\ [Next]_vars => FInv'
<1> SUFFICES ASSUME IInv, FInv, [Next]_vars
             PROVE  FInv'
  OBVIOUS
<1>1. \A j \in Jtis : Kept(j)
  BY RowsAreKept
<1>2. SessionKeepsUser'
  <2>1. CASE exchanges' = exchanges
    BY <1>1, <2>1 DEF FInv, IInv, TypeOK, NeverBothLive, SessionKeepsUser, Kept
  <2>2. QED
    BY <2>1, HistoryMoves, InsertKeepsUser
<1>3. LogoutRevokes'
  <2>1. CASE loggedOut' = loggedOut
    BY <1>1, <2>1 DEF FInv, LogoutRevokes, Kept, Closed
  <2>2. QED
    BY <2>1, HistoryMoves, ReplyKeepsLogouts
<1>4. ASSUME NEW s \in Requests, req'[s] = req[s]
      PROVE  (OwnerLane(req[s]) /\ LogoutLane(req[s]))'
  <2>1. /\ req[s] \in Req /\ LaneOK(req[s])
        /\ OwnerLane(req[s]) /\ LogoutLane(req[s])
    BY DEF IInv, FInv, TypeOK
  <2>2. req[s].pc \in {"refresh_check", "refresh_revoke", "logout_select"}
            => req[s].tok.jti \in Jtis /\ tokens[req[s].tok.jti] # None
    BY <2>1 DEF LaneOK, LaneShape, LaneFacts, LogoutLane, RefreshTok
  <2>3. req[s].pc \in {"mint", "insert"} /\ req[s].op = "refresh"
            => req[s].tok.jti \in Jtis /\ tokens[req[s].tok.jti] # None
    BY <2>1 DEF LaneOK, LaneShape, LaneFacts, RefreshTok, Closed
  <2>4. req[s].status = 204
            => /\ req[s].tok.jti \in Jtis /\ tokens[req[s].tok.jti] # None
               /\ req[s].tok.jti \in Closed'
    BY <1>1, <2>1 DEF LogoutLane, Closed, Kept
  <2>5. OwnerLane(req[s])'
    BY <1>1, <1>4, <2>1, <2>2, <2>3 DEF OwnerLane, Kept
  <2>6. LogoutLane(req[s])'
    BY <1>1, <1>4, <2>1, <2>2, <2>4 DEF LogoutLane, Kept
  <2>7. QED
    BY <2>5, <2>6
<1>5. CASE \E r \in Requests : Begin(r) \/ Progress(r) \/ Abort(r)
  <2>1. PICK r \in Requests : Begin(r) \/ Progress(r) \/ Abort(r)
    BY <1>5
  <2>2. /\ \A s \in Requests \ {r} : req'[s] = req[s]
        /\ (OwnerLane(req[r]) /\ LogoutLane(req[r]))'
    BY <2>1, LaneMoves, LaneKeeps
  <2>3. \A s \in Requests : (OwnerLane(req[s]) /\ LogoutLane(req[s]))'
    BY <1>4, <2>2
  <2>4. QED
    BY <1>2, <1>3, <2>3 DEF FInv
<1>6. CASE (\E u \in UserIds : Deactivate(u)) \/ Tick \/ UNCHANGED vars
  <2>1. req' = req
    BY <1>6 DEF Deactivate, Tick, vars
  <2>2. QED
    BY <1>2, <1>3, <1>4, <2>1 DEF FInv
<1>7. QED
  BY <1>5, <1>6 DEF Next

LEMMA FInitOK == Init => FInv
BY IdleReqOK
DEF Init, FInv, SessionKeepsUser, LogoutRevokes, OwnerLane, LogoutLane

THEOREM FamilyInvariance == Spec => []FInv
BY FInitOK, FNextOK, Invariance, PTL DEF Spec

\* refresh_access_pair, issue_token_pair: a session stays its user's.
THEOREM SessionsStayTheirs == Spec => []SessionKeepsUser
<1>1. FInv => SessionKeepsUser
  BY DEF FInv
<1>2. QED
  BY <1>1, FamilyInvariance, PTL

\* logout_refresh_token: 204 means revoked, whatever a refresh does meanwhile.
THEOREM LogoutsRevoke == Spec => []LogoutRevokes
<1>1. FInv => LogoutRevokes
  BY DEF FInv
<1>2. QED
  BY <1>1, FamilyInvariance, PTL

-----------------------------------------------------------------------------
(* What README.md says of refresh and logout, when requests do not overlap. *)

\* Without other requests in flight, what a refresh has read of its row is
\* still so, and what it has revoked nobody else had.
SerialLane(q) ==
    /\ q.pc = "refresh_check" /\ ~q.row.revoked => q.tok.jti \notin Closed
    /\ q.pc = "refresh_revoke" => q.tok.jti \notin Closed
    /\ q.pc \in {"mint", "insert"} /\ q.op = "refresh" =>
           /\ q.tok.jti \notin loggedOut
           /\ \A e \in exchanges : e.parent # q.tok.jti

SInv ==
    /\ SingleUse
    /\ NoOverlap
    /\ \A r \in Requests : SerialLane(req[r])

\* A new exchange is of the token the inserting request was given.
LEMMA NewExchange ==
    ASSUME IInv, NEW r \in Requests, InsertRefresh(r),
           NEW e \in exchanges', e \notin exchanges
    PROVE  /\ req[r].op = "refresh" /\ At(r, "insert")
           /\ e = [parent |-> req[r].tok.jti, child |-> req[r].jti]
           /\ e.parent = req[r].tok.jti
<1>1. /\ req[r].op = "refresh" /\ At(r, "insert")
      /\ e = [parent |-> req[r].tok.jti, child |-> req[r].jti]
  BY DEF InsertRefresh
<1>2. QED
  BY <1>1

LEMMA SerialLaneKeeps ==
    ASSUME IInv, FInv, SInv, [Next]_vars, NEW r \in Requests,
           LaneMove(r)
    PROVE  SerialLane(req[r])'
<1>1. LaneOK(req[r]) /\ SerialLane(req[r])
  BY DEF IInv, SInv
<1>2. ASSUME req[r].pc \in {"refresh_revoke", "mint"}
      PROVE  exchanges' = exchanges /\ loggedOut' = loggedOut
  <2>1. ASSUME NEW s \in Requests, InsertRefresh(s) \/ Reply(s)
        PROVE  FALSE
    <3>1. req[s].pc \in {"insert", "reply"}
      BY <2>1 DEF InsertRefresh, Reply, At
    <3>2. r # s /\ req[r].pc # "idle" /\ req[s].pc # "idle"
      BY <1>2, <3>1
    <3>3. QED
      BY <3>2 DEF SInv, NoOverlap, At
  <2>2. QED
    BY <2>1, HistoryMoves
<1>3. CASE Calm(req'[r]) \/ req'[r].pc \in {"logout_select", "reply"}
  BY <1>3 DEF Calm, SerialLane
<1>4. CASE /\ Goes(r, "refresh_select", "refresh_check")
           /\ req'[r].row = tokens[req[r].tok.jti] /\ tokens' = tokens
  BY <1>4 DEF Goes, SerialLane, Closed
<1>5. CASE /\ Goes(r, "refresh_check", "refresh_revoke")
           /\ ~req[r].row.revoked /\ tokens' = tokens
  BY <1>1, <1>5 DEF Goes, At, SerialLane, Closed
<1>6. CASE Goes(r, "refresh_revoke", "mint")
  <2>1. req[r].tok.jti \notin Closed
    BY <1>1, <1>6 DEF Goes, At, SerialLane
  <2>2. loggedOut \subseteq Closed /\ \A e \in exchanges : e.parent \in Closed
    BY DEF IInv, FInv, TypeOK, LogoutRevokes, NeverBothLive, Closed
  <2>3. exchanges' = exchanges /\ loggedOut' = loggedOut
    BY <1>2, <1>6 DEF Goes, At
  <2>4. QED
    BY <1>6, <2>1, <2>2, <2>3 DEF Goes, SerialLane
<1>7. CASE Goes(r, "mint", "insert")
  <2>1. exchanges' = exchanges /\ loggedOut' = loggedOut
    BY <1>2, <1>7 DEF Goes, At
  <2>2. QED
    BY <1>1, <1>7, <2>1 DEF Goes, At, SerialLane
<1>8. CASE At(r, "logout_select") /\ tokens[req[r].tok.jti] = None
  BY <1>8 DEF FInv, LogoutLane, At
<1>9. QED
  BY <1>3, <1>4, <1>5, <1>6, <1>7, <1>8 DEF LaneMove

\* Only the lane that moves has anything to lose: the others are idle, or the
\* step is an arrival and writes nothing.
LEMMA SNextOK == IInv /\ FInv /\ SInv /\ [Next /\ NoOverlap']_vars => SInv'
<1> SUFFICES ASSUME IInv, FInv, SInv, [Next /\ NoOverlap']_vars
             PROVE  SInv'
  OBVIOUS
<1>1. [Next]_vars
  OBVIOUS
<1>2. NoOverlap'
  BY DEF SInv, NoOverlap, At, vars
<1>3. SingleUse'
  <2>1. ASSUME NEW r \in Requests, InsertRefresh(r),
               NEW e \in exchanges', NEW f \in exchanges', e.parent = f.parent
        PROVE  e = f
    <3>1. SerialLane(req[r])
      BY DEF SInv
    <3>2. \A d \in exchanges' \ exchanges :
              /\ d = [parent |-> req[r].tok.jti, child |-> req[r].jti]
              /\ \A g \in exchanges : g.parent # d.parent
      BY <2>1, <3>1, NewExchange DEF SerialLane, At
    <3>3. QED
      BY <2>1, <3>2 DEF SInv, SingleUse
  <2>2. CASE exchanges' = exchanges
    BY <2>2 DEF SInv, SingleUse
  <2>3. QED
    BY <1>1, <2>1, <2>2, HistoryMoves DEF SingleUse
<1>4. ASSUME NEW r \in Requests, Begin(r)
      PROVE  \A s \in Requests : SerialLane(req[s])'
  <2>1. UNCHANGED <<tokens, exchanges, loggedOut>>
    BY <1>4 DEF Begin, RegisterBegin, LoginBegin, OAuthBegin, RefreshBegin, LogoutBegin,
                MeBegin, database, history
  <2>2. SerialLane(req[r])' /\ \A s \in Requests \ {r} : req'[s] = req[s]
    BY <1>1, <1>4, LaneMoves, SerialLaneKeeps
  <2>3. QED
    BY <2>1, <2>2 DEF SInv, SerialLane, Closed
<1>5. ASSUME NEW r \in Requests, Progress(r) \/ Abort(r)
      PROVE  \A s \in Requests : SerialLane(req[s])'
  <2>1. ~At(r, "idle")
    BY <1>5 DEF Progress, Abort, RegisterSelect, RegisterInsert, LoginSelect,
       RefreshSelect, RefreshCheck, RefreshRevoke, Mint, InsertRefresh,
       LogoutSelect, LogoutRevoke, MeSelect, Reply, At
  <2>2. SerialLane(req[r])' /\ \A s \in Requests \ {r} : req'[s] = req[s]
    BY <1>1, <1>5, LaneMoves, SerialLaneKeeps
  <2>3. \A s \in Requests \ {r} : req'[s].pc = "idle"
    BY <2>1, <2>2 DEF SInv, NoOverlap, At
  <2>4. QED
    BY <2>2, <2>3 DEF SerialLane
<1>6. ASSUME (\E u \in UserIds : Deactivate(u)) \/ Tick \/ UNCHANGED vars
      PROVE  \A s \in Requests : SerialLane(req[s])'
  <2>1. UNCHANGED <<tokens, req, exchanges, loggedOut>>
    BY <1>6 DEF Deactivate, Tick, vars, database, history
  <2>2. QED
    BY <2>1 DEF SInv, SerialLane, Closed
<1>7. QED
  BY <1>1, <1>2, <1>3, <1>4, <1>5, <1>6 DEF SInv, Next

LEMMA SerialIsSpec == SerialSpec => Spec
<1>1. [Next /\ NoOverlap']_vars => [Next]_vars
  OBVIOUS
<1>2. QED
  BY <1>1, PTL DEF SerialSpec, Spec

THEOREM SerialInvariance == SerialSpec => []SInv
<1>1. Init => SInv
  BY DEF Init, SInv, SingleUse, NoOverlap, SerialLane, IdleReq, At
<1>2. QED
  BY <1>1, SNextOK, SerialIsSpec, Invariance, FamilyInvariance, PTL DEF SerialSpec

\* README.md:367 of refresh_access_pair: requests that do not overlap exchange a
\* token once, whatever crashes in between.
THEOREM SerialRefreshIsSingleUse == SerialSpec => []SingleUse
<1>1. SInv => SingleUse
  BY DEF SInv
<1>2. QED
  BY <1>1, SerialInvariance, PTL

\* README.md:300 of logout_refresh_token, likewise.
THEOREM SerialLogoutIsFinal == SerialSpec => LogoutIsFinal
<1>1. IInv /\ SInv /\ [Next]_vars
          => \A e \in exchanges' \ exchanges : e.parent \notin loggedOut
  <2> SUFFICES ASSUME IInv, SInv, [Next]_vars, NEW e \in exchanges' \ exchanges
               PROVE  e.parent \notin loggedOut
    OBVIOUS
  <2>1. PICK r \in Requests : InsertRefresh(r)
    BY HistoryMoves
  <2>2. req[r].op = "refresh" /\ At(r, "insert") /\ e.parent = req[r].tok.jti
    BY <2>1, NewExchange
  <2>3. QED
    BY <2>2 DEF SInv, SerialLane, At
<1>2. QED
  BY <1>1, SerialIsSpec, Invariance, SerialInvariance, PTL DEF Spec, LogoutIsFinal
=============================================================================
