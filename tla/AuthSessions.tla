---------------------------- MODULE AuthSessions ----------------------------
(***************************************************************************)
(* Password accounts and the two-token session: register, login, refresh   *)
(* with rotation, logout, and the access-token check of /me, as served by  *)
(* app/services/auth_service.py, app/core/security.py, app/api/deps.py and *)
(* app/repositories/auth.py over the tables of app/models/user.py.         *)
(*                                                                         *)
(* A lane of Requests is one request being served by some replica, and is  *)
(* reused for the next request.  One action is one database round trip     *)
(* with the synchronous Python up to the next await, so that requests      *)
(* interleave exactly where the code lets them; a commit is atomic (READ   *)
(* COMMITTED, no SELECT ... FOR UPDATE anywhere).  Time is measured in     *)
(* ticks of a fraction of a second, because a JWT carries whole seconds    *)
(* and a database row does not.                                            *)
(***************************************************************************)
EXTENDS Integers, FiniteSets

CONSTANTS Requests,        \* lanes: requests that can be in flight at once
          UserIds,         \* primary keys of table users
          Emails,          \* lower-cased addresses
          Jtis,            \* uuid4 values for refresh tokens
          None,            \* SQL NULL, no row, or a string that is no token
          AccessTTL,       \* access_token_expire_minutes, in ticks
          RefreshTTL,      \* refresh_token_expire_days, in ticks
          TicksPerSecond,
          MaxTime          \* bound of the clock

ASSUME NoneAssumption ==
    None \notin Requests \union UserIds \union Emails \union Jtis

ASSUME TimeAssumption ==
    /\ AccessTTL \in Nat \ {0}
    /\ RefreshTTL \in Nat \ {0}
    /\ TicksPerSecond \in Nat \ {0}
    /\ AccessTTL % TicksPerSecond = 0      \* configured in whole minutes
    /\ RefreshTTL % TicksPerSecond = 0     \* and whole days
    /\ MaxTime \in Nat

VARIABLES
    now,        \* the clock every replica and the database read
    users,      \* table users: id -> row or None
    tokens,     \* table refresh_tokens: jti -> row or None
    req,        \* what each lane is doing
    wallet,     \* history: the tokens clients have received
    exchanges,  \* history: refresh tokens issued in exchange for others
    loggedOut   \* history: tokens whose logout was answered 204

vars == <<now, users, tokens, req, wallet, exchanges, loggedOut>>

-----------------------------------------------------------------------------
UserRow  == [email : Emails, active : BOOLEAN]

\* revoked stands for "revoked_at is not None", all the code ever reads of it.
TokenRow == [user : UserIds, expires_at : Nat, revoked : BOOLEAN]

\* A signed JWT: what create_access_token and create_refresh_token encode.
\* The jti of an access token is never looked up, so it is left out.
Token == [type : {"access", "refresh"}, sub : UserIds,
          jti : Jtis \union {None}, iat : Nat, exp : Nat]

ASSUME NoneIsNoRecord ==
    None \notin UserRow \union TokenRow \union Token

\* PyJWT writes a datetime as a NumericDate of whole seconds, rounding down.
NumericDate(t) == t - (t % TicksPerSecond)

AccessToken(u, t) ==
    [type |-> "access", sub |-> u, jti |-> None,
     iat |-> NumericDate(t), exp |-> NumericDate(t + AccessTTL)]

RefreshToken(u, j, t) ==
    [type |-> "refresh", sub |-> u, jti |-> j,
     iat |-> NumericDate(t), exp |-> NumericDate(t + RefreshTTL)]

\* Mutant: get_current_user takes a token of either type.
DecodesAnyType(tok, type) ==
    tok # None /\ tok.exp > now /\ (tok.type = type \/ type = "access")

\* decode_token: a genuine token that has not expired and is of this type.
Decodes(tok, type) == tok # None /\ tok.exp > now /\ tok.type = type

-----------------------------------------------------------------------------
\* What a request carries from one await to the next.  row is the snapshot
\* of the refresh_tokens row its SELECT returned; late (the token presented was
\* already revoked) and barred (who was already inactive) date from its arrival.
IdleReq == [pc |-> "idle", op |-> "none", email |-> None, user |-> None,
            tok |-> None, row |-> None, jti |-> None, at |-> 0, status |-> 0,
            late |-> FALSE, barred |-> {}]

PCs == {"idle", "register_select", "register_insert", "login_select",
        "refresh_select", "refresh_check", "refresh_revoke",
        "logout_select", "logout_revoke", "me_select",
        "mint", "insert", "reply"}

Req == [pc : PCs,
        op : {"none", "register", "login", "oauth", "refresh", "logout", "me"},
        email : Emails \union {None}, user : UserIds \union {None},
        tok : Token \union {None}, row : TokenRow \union {None},
        jti : Jtis \union {None}, at : Nat,
        status : {0, 200, 201, 204, 401, 403, 409, 500},
        late : BOOLEAN, barred : SUBSET UserIds]

MintingOps == {"register", "login", "oauth", "refresh"}

At(r, pc) == req[r].pc = pc

\* Revoked tokens and inactive users, as the database holds them now.
Closed == {j \in Jtis : tokens[j] # None /\ tokens[j].revoked}
Barred == {u \in UserIds : users[u] # None /\ ~users[u].active}

\* A uuid4 nobody has drawn before.
FreshJtis ==
    {j \in Jtis : tokens[j] = None /\ \A r \in Requests : req[r].jti # j}

\* Bound of the model: every request that may still mint a token will find a
\* fresh jti, so running out of model values never blocks a handler.
JtiBudget ==
    Cardinality({r \in Requests : req[r].op \in MintingOps /\ req[r].jti = None})
        < Cardinality(FreshJtis)

Init ==
    /\ now = 0
    /\ users = [u \in UserIds |-> None]
    /\ tokens = [j \in Jtis |-> None]
    /\ req = [r \in Requests |-> IdleReq]
    /\ wallet = {}
    /\ exchanges = {}
    /\ loggedOut = {}

-----------------------------------------------------------------------------
(* Steps every handler is made of.                                         *)

\* Lane r goes to state q.
To(r, q) == req' = [req EXCEPT ![r] = q]

\* The request has arrived and run to its first await.
Arrived(pc, op, email, tok) ==
    [pc |-> pc, op |-> op, email |-> email, user |-> None, tok |-> tok,
     row |-> None, jti |-> None, at |-> IF op = "me" THEN now ELSE 0,
     status |-> 0, late |-> tok # None /\ tok.jti \in Closed, barred |-> Barred]

\* HTTPException, or the 500 of an exception nobody caught.
Refused(status) == [IdleReq EXCEPT !.pc = "reply", !.status = status]

\* The handler q has returned.
Returned(q, status) == [q EXCEPT !.pc = "reply", !.status = status]

\* The handler q goes on to its next round trip on behalf of user u.
Proceeding(q, pc, u) == [q EXCEPT !.pc = pc, !.user = u, !.row = None]

database == <<users, tokens>>
history  == <<wallet, exchanges, loggedOut>>

-----------------------------------------------------------------------------
(* POST /auth/register                                                     *)

RegisterBegin(r, e) ==
    /\ At(r, "idle")
    /\ JtiBudget
    /\ To(r, Arrived("register_select", "register", e, None))
    /\ UNCHANGED <<now, database, history>>

\* get_by_email finds a row.
EmailTaken(e) == \E u \in UserIds : users[u] # None /\ users[u].email = e

RegisterSelect(r) ==
    /\ At(r, "register_select")
    /\ IF EmailTaken(req[r].email)
       THEN To(r, Refused(409))
       ELSE To(r, Proceeding(req[r], "register_insert", None))
    /\ UNCHANGED <<now, database, history>>

\* Mutant: users.email without its unique constraint.
NoUniqueEmail(e) == FALSE

\* The unique constraint refuses the INSERT.
UniqueViolation(e) == EmailTaken(e)

\* Mutant: the new user's id is read before the INSERT assigns it.
RegisterInsertWithoutId(r) ==
    /\ At(r, "register_insert")
    /\ ~UniqueViolation(req[r].email)
    /\ \E u \in UserIds :
          /\ users[u] = None
          /\ users' = [users EXCEPT ![u] =
                          [email |-> req[r].email, active |-> TRUE]]
          /\ To(r, Proceeding(req[r], "mint", None))
    /\ UNCHANGED <<now, tokens, history>>

\* INSERT and COMMIT; users.email is unique, and the IntegrityError of a
\* registration that lost the race is not caught: the client gets a 500.
RegisterInsert(r) ==
    /\ At(r, "register_insert")
    /\ \/ /\ UniqueViolation(req[r].email)
          /\ To(r, Refused(500))
          /\ UNCHANGED users
       \/ /\ ~UniqueViolation(req[r].email)
          /\ \E u \in UserIds :
                /\ users[u] = None
                /\ users' = [users EXCEPT ![u] =
                                [email |-> req[r].email, active |-> TRUE]]
                /\ To(r, Proceeding(req[r], "mint", u))
    /\ UNCHANGED <<now, tokens, history>>

-----------------------------------------------------------------------------
(* POST /auth/login                                                        *)

LoginBegin(r, e) ==
    /\ At(r, "idle")
    /\ JtiBudget
    /\ To(r, Arrived("login_select", "login", e, None))
    /\ UNCHANGED <<now, database, history>>

\* authenticate_user; whether the password verifies is any Boolean.
LoginSelect(r) ==
    /\ At(r, "login_select")
    /\ \/ To(r, Refused(401))
       \/ \E u \in UserIds :
             /\ users[u] # None
             /\ users[u].email = req[r].email
             /\ \/ users[u].active /\ To(r, Proceeding(req[r], "mint", u))
                \/ ~users[u].active /\ To(r, Refused(403))
    /\ UNCHANGED <<now, database, history>>

-----------------------------------------------------------------------------
(* GET /auth/oauth/{provider}/callback                                     *)

\* get_or_create_oauth_user has found the user of the identity, without a look
\* at is_active (OAuthAccounts has its round trips, and the users it creates).
OAuthBegin(r, u) ==
    /\ At(r, "idle")
    /\ JtiBudget
    /\ users[u] # None
    /\ To(r, [Arrived("mint", "oauth", None, None) EXCEPT !.user = u])
    /\ UNCHANGED <<now, database, history>>

-----------------------------------------------------------------------------
(* POST /auth/refresh                                                      *)

RefreshBegin(r, tok) ==
    /\ At(r, "idle")
    /\ JtiBudget
    /\ IF Decodes(tok, "refresh")
       THEN To(r, Arrived("refresh_select", "refresh", None, tok))
       ELSE To(r, Refused(401))
    /\ UNCHANGED <<now, database, history>>

\* First SELECT of get_with_user: the row is read here and used later.
RefreshSelect(r) ==
    /\ At(r, "refresh_select")
    /\ LET row == tokens[req[r].tok.jti] IN
       IF row = None
       THEN To(r, Refused(401))
       ELSE To(r, [req[r] EXCEPT !.pc = "refresh_check", !.row = row])
    /\ UNCHANGED <<now, database, history>>

\* Mutant: revoked_at is not looked at.
VerdictOnRevokedToo(row, tok, owner) ==
    IF row.expires_at <= now \/ row.user # tok.sub THEN 401
    ELSE IF ~owner.active THEN 403
    ELSE 0

\* Mutant: is_active is not looked at.
VerdictOnInactiveToo(row, tok, owner) ==
    IF row.revoked \/ row.expires_at <= now \/ row.user # tok.sub THEN 401 ELSE 0

\* The verdict on a snapshot of the token's row and its owner's, in the
\* order of the code's checks; 0 lets the exchange go on.
RefreshVerdict(row, tok, owner) ==
    IF row.revoked \/ row.expires_at <= now \/ row.user # tok.sub THEN 401
    ELSE IF ~owner.active THEN 403
    ELSE 0

\* Mutant: the old token is revoked before is_active is looked at.
RefreshCheckAfterRevoking(r) ==
    /\ At(r, "refresh_check")
    /\ LET row == req[r].row
           verdict == RefreshVerdict(row, req[r].tok, users[row.user])
       IN /\ IF verdict = 0
             THEN To(r, Proceeding(req[r], "refresh_revoke", row.user))
             ELSE To(r, Refused(verdict))
          /\ tokens' = IF verdict = 403
                       THEN [tokens EXCEPT ![req[r].tok.jti].revoked = TRUE]
                       ELSE tokens
    /\ UNCHANGED <<now, users, history>>

\* selectinload's second SELECT reads the owner; then the checks run.
RefreshCheck(r) ==
    /\ At(r, "refresh_check")
    /\ LET row == req[r].row
           verdict == RefreshVerdict(row, req[r].tok, users[row.user])
       IN IF verdict = 0
          THEN To(r, Proceeding(req[r], "refresh_revoke", row.user))
          ELSE To(r, Refused(verdict))
    /\ UNCHANGED <<now, database, history>>

\* Mutant: the change to the row is not committed.
RevokedInMemoryOnly(j) == tokens

\* Table refresh_tokens once revoke(record, ...) is committed.
Revoked(j) == [tokens EXCEPT ![j].revoked = TRUE]

\* UPDATE ... WHERE id and COMMIT: it does not look at revoked_at again.
RefreshRevoke(r) ==
    /\ At(r, "refresh_revoke")
    /\ tokens' = Revoked(req[r].tok.jti)
    /\ To(r, Proceeding(req[r], "mint", req[r].user))
    /\ UNCHANGED <<now, users, history>>

-----------------------------------------------------------------------------
(* issue_token_pair, the end of register, login, callback and refresh      *)

\* Mutant: the pair is answered and its row never added.
MintWithoutRow(r) ==
    /\ At(r, "mint")
    /\ \E j \in FreshJtis :
          To(r, [req[r] EXCEPT !.pc = "reply", !.status = 200,
                               !.jti = j, !.at = now])
    /\ UNCHANGED <<now, database, history>>

\* Mutant: a rotated token keeps the jti of the one it replaces.
MintSameJti(r) ==
    /\ At(r, "mint")
    /\ \E j \in IF req[r].op = "refresh" THEN {req[r].tok.jti} ELSE FreshJtis :
          To(r, [req[r] EXCEPT !.pc = "insert", !.jti = j, !.at = now])
    /\ UNCHANGED <<now, database, history>>

Mint(r) ==
    /\ At(r, "mint")
    /\ \E j \in FreshJtis :
          To(r, [req[r] EXCEPT !.pc = "insert", !.jti = j, !.at = now])
    /\ UNCHANGED <<now, database, history>>

\* INSERT and COMMIT of the row, whose expiry is not rounded.
InsertRefresh(r) ==
    /\ At(r, "insert")
    /\ tokens' = [tokens EXCEPT ![req[r].jti] =
                     [user |-> req[r].user, expires_at |-> req[r].at + RefreshTTL,
                      revoked |-> FALSE]]
    /\ exchanges' = IF req[r].op = "refresh"
                    THEN exchanges \union {[parent |-> req[r].tok.jti, child |-> req[r].jti]}
                    ELSE exchanges
    /\ To(r, Returned(req[r], IF req[r].op = "register" THEN 201 ELSE 200))
    /\ UNCHANGED <<now, users, wallet, loggedOut>>

-----------------------------------------------------------------------------
(* POST /auth/logout                                                       *)

LogoutBegin(r, tok) ==
    /\ At(r, "idle")
    /\ IF Decodes(tok, "refresh")
       THEN To(r, Arrived("logout_select", "logout", None, tok))
       ELSE To(r, Refused(401))
    /\ UNCHANGED <<now, database, history>>

LogoutSelect(r) ==
    /\ At(r, "logout_select")
    /\ IF tokens[req[r].tok.jti] = None
       THEN To(r, Returned(req[r], 204))
       ELSE To(r, Proceeding(req[r], "logout_revoke", None))
    /\ UNCHANGED <<now, database, history>>

\* Mutant: logout deletes the row it should revoke.
LogoutDelete(r) ==
    /\ At(r, "logout_revoke")
    /\ tokens' = [tokens EXCEPT ![req[r].tok.jti] = None]
    /\ To(r, Returned(req[r], 204))
    /\ UNCHANGED <<now, users, history>>

LogoutRevoke(r) ==
    /\ At(r, "logout_revoke")
    /\ tokens' = Revoked(req[r].tok.jti)
    /\ To(r, Returned(req[r], 204))
    /\ UNCHANGED <<now, users, history>>

-----------------------------------------------------------------------------
(* GET /auth/me: get_current_user                                          *)

MeBegin(r, tok) ==
    /\ At(r, "idle")
    /\ IF Decodes(tok, "access")
       THEN To(r, Arrived("me_select", "me", None, tok))
       ELSE To(r, Refused(401))
    /\ UNCHANGED <<now, database, history>>

MeSelect(r) ==
    /\ At(r, "me_select")
    /\ LET u == req[r].tok.sub IN
       IF users[u] # None /\ users[u].active
       THEN To(r, [req[r] EXCEPT !.pc = "reply", !.status = 200, !.user = u])
       ELSE To(r, Refused(401))
    /\ UNCHANGED <<now, database, history>>

-----------------------------------------------------------------------------
\* What a 200 or 201 of register, login, callback or refresh carries.
Pair(q) ==
    IF q.op \in MintingOps /\ q.status \in {200, 201}
    THEN {AccessToken(q.user, q.at), RefreshToken(q.user, q.jti, q.at)}
    ELSE {}

\* The response reaches the client.
Reply(r) ==
    /\ At(r, "reply")
    /\ wallet' = wallet \union Pair(req[r])
    /\ loggedOut' = IF req[r].status = 204
                    THEN loggedOut \union {req[r].tok.jti} ELSE loggedOut
    /\ To(r, IdleReq)
    /\ UNCHANGED <<now, database, exchanges>>

\* The replica dies, the database refuses, the client goes away: whatever was
\* committed stays, the rest of the request and its response are lost.
Abort(r) ==
    /\ ~At(r, "idle")
    /\ To(r, IdleReq)
    /\ UNCHANGED <<now, database, history>>

\* An operator sets is_active to false by SQL; the program only reads it.
Deactivate(u) ==
    /\ users[u] # None
    /\ users[u].active
    /\ users' = [users EXCEPT ![u].active = FALSE]
    /\ UNCHANGED <<now, tokens, req, history>>

Tick ==
    /\ now < MaxTime
    /\ now' = now + 1
    /\ UNCHANGED <<database, req, history>>

-----------------------------------------------------------------------------
\* A client may present any token it was given, or something that is none.
Begin(r) ==
    \/ \E e \in Emails : RegisterBegin(r, e) \/ LoginBegin(r, e)
    \/ \E u \in UserIds : OAuthBegin(r, u)
    \/ \E tok \in wallet \union {None} :
          RefreshBegin(r, tok) \/ LogoutBegin(r, tok) \/ MeBegin(r, tok)

Progress(r) ==
    \/ RegisterSelect(r)
    \/ RegisterInsert(r)
    \/ LoginSelect(r)
    \/ RefreshSelect(r)
    \/ RefreshCheck(r)
    \/ RefreshRevoke(r)
    \/ Mint(r)
    \/ InsertRefresh(r)
    \/ LogoutSelect(r)
    \/ LogoutRevoke(r)
    \/ MeSelect(r)
    \/ Reply(r)

Next ==
    \/ \E r \in Requests : Begin(r) \/ Progress(r) \/ Abort(r)
    \/ \E u \in UserIds : Deactivate(u)
    \/ Tick

Spec == Init /\ [][Next]_vars

\* The service as a client meets it that waits for each answer before it sends
\* the next request, and as tests/test_auth_security.py awaits one call after
\* the other: no two requests are in flight at once.
NoOverlap == \A r, s \in Requests : ~At(r, "idle") /\ ~At(s, "idle") => r = s

SerialSpec == Init /\ [][Next /\ NoOverlap']_vars

-----------------------------------------------------------------------------
(* What the sessions promise.                                              *)

\* Every variable keeps to the shape of its table, token or handler state.
TypeOK ==
    /\ now \in Nat
    /\ users \in [UserIds -> UserRow \union {None}]
    /\ tokens \in [Jtis -> TokenRow \union {None}]
    /\ req \in [Requests -> Req]
    /\ wallet \subseteq Token
    /\ exchanges \subseteq [parent : Jtis, child : Jtis]
    /\ loggedOut \subseteq Jtis

\* However many registrations of one address interleave between their SELECT
\* and their INSERT, one account at most carries it (register_user).
EmailUnique ==
    \A u, v \in UserIds :
        users[u] # None /\ users[v] # None /\ users[u].email = users[v].email
            => u = v

\* Rotation revokes before it issues, in a transaction of its own: at no
\* instant, and after no crash in between, is a token still accepted while
\* one issued in exchange for it exists (refresh_access_pair).
NeverBothLive ==
    \A e \in exchanges :
        /\ tokens[e.parent] # None /\ tokens[e.parent].revoked
        /\ tokens[e.child] # None

\* A request that arrives when its token's revocation is already committed,
\* by a refresh or a logout, never gets a new pair for it, whatever else is
\* in flight; only requests that overlap the revocation can.
LateExchangeRefused ==
    [][\A e \in exchanges' \ exchanges :
          \E r \in Requests : /\ req[r].tok # None
                              /\ req[r].tok.jti = e.parent
                              /\ req[r].jti = e.child
                              /\ ~req[r].late]_vars

\* A request that arrives when its user is already inactive never mints a token
\* and is answered with no pair and no profile (the is_active checks of login,
\* refresh and get_current_user).  Only an OAuth callback mints for such a user,
\* and what it hands out is then refused by /refresh and by /me.
InactiveLockedOut ==
    \A r \in Requests :
        req[r].pc \in {"mint", "insert"} \/ req[r].status \in {200, 201}
            => req[r].op = "oauth" \/ req[r].user \notin req[r].barred

\* /me answers only to a token presented within AccessTTL of its minting: a
\* refresh token, which lives longer, does not stand in for an access token.
AccessWindow ==
    \A r \in Requests :
        req[r].op = "me" /\ req[r].status = 200
            => req[r].at < req[r].tok.iat + AccessTTL

\* A refresh token in a client's hands has a committed row of the same user
\* that expires no earlier than the token says: no crash or rounding leaves a
\* client with a pair the server does not know.
WalletBacked ==
    \A tok \in wallet :
        tok.type = "refresh" =>
            /\ tokens[tok.jti] # None
            /\ tokens[tok.jti].user = tok.sub
            /\ tok.exp <= tokens[tok.jti].expires_at

\* Rows are never deleted, moved to another user or another expiry, nor
\* brought back to life: all that ever happens to one is its revocation.
RowsOnlyRevoke ==
    [][\A j \in Jtis :
          tokens[j] # None =>
              /\ tokens'[j] # None
              /\ tokens'[j] \in {tokens[j], [tokens[j] EXCEPT !.revoked = TRUE]}]_vars

\* Rotation as a whole keeps the ledger of TokenLedger.
Ledger == INSTANCE TokenLedger WITH
    issued  <- {j \in Jtis : tokens[j] # None},
    revoked <- Closed,
    succ    <- {<<e.parent, e.child>> : e \in exchanges}

LedgerImplemented == Ledger!LedgerSpec

\* The successors of a token are a tree: however exchanges race, a token stems
\* from one other at most, and none is its own ancestor.
FamiliesAreTrees == Ledger!Forest

\* A session never changes hands: a token issued in exchange for another is of
\* the same user, whatever was read of row and owner in between
\* (get_with_user, issue_token_pair).
SessionKeepsUser ==
    \A e \in exchanges : tokens[e.parent].user = tokens[e.child].user

\* A logout that was answered 204 has revoked its token for good: a refresh
\* that races it and writes the row after it does not bring the token back.
LogoutRevokes == loggedOut \subseteq Closed

\* Why a token may be revoked: it was exchanged, its logout was answered, or the
\* request r has revoked it and is about to come to one of the two.
Owes(r, j) ==
    /\ req[r].tok # None /\ req[r].tok.jti = j
    /\ \/ req[r].op = "refresh" /\ (At(r, "mint") \/ At(r, "insert"))
       \/ req[r].status = 204

Accounted(j) ==
    \/ j \in loggedOut
    \/ \E e \in exchanges : e.parent = j
    \/ \E r \in Requests : Owes(r, j)

\* A session does not end for nothing: whatever revokes a token accounts for it,
\* and all that loses the account is the loss of a request between the two
\* commits of refresh_access_pair, or before a logout's answer.  In particular a
\* request that is refused costs nobody a token.
RevocationAccounted ==
    [][\A j \in Jtis :
          /\ j \in Closed' \ Closed => Accounted(j)'
          /\ Accounted(j) /\ ~Accounted(j)' => \E r \in Requests : Owes(r, j) /\ Abort(r)]_vars

-----------------------------------------------------------------------------
(* What README.md says of them, and the code only does for requests that   *)
(* do not overlap.                                                         *)

\* README.md:367: the old token is immediately invalidated, so that it has
\* one use: no token is exchanged for two.  (The other half of that sentence,
\* that the legitimate user's next refresh then locks the thief out, the code
\* does not do even then: whoever comes second is refused, and the session of
\* whoever came first goes on.)
SingleUse ==
    \A e, f \in exchanges : e.parent = f.parent => e = f

\* README.md:300: logout prevents that refresh token from being reused later.
LogoutIsFinal ==
    [][\A e \in exchanges' \ exchanges : e.parent \notin loggedOut]_vars
=============================================================================
