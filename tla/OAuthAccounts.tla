--------------------------- MODULE OAuthAccounts ---------------------------
(***************************************************************************)
(* Signing in and linking through Google or GitHub: the one-time state in  *)
(* Redis, the two callbacks of app/services/oauth_service.py, and the      *)
(* tables users and oauth_accounts they share with password registration.  *)
(*                                                                         *)
(* A lane of Requests is one callback being served.  One action is one     *)
(* round trip to Redis, to the provider or to the database, with the       *)
(* synchronous Python up to the next await; a transaction takes effect at  *)
(* its COMMIT, since an INSERT that meets the uncommitted row of another   *)
(* waits for that one to end.  A request that is refused or dies simply    *)
(* leaves its lane.  Names and pictures are left out.                      *)
(***************************************************************************)
EXTENDS Integers

CONSTANTS Requests,   \* lanes: callbacks that can be in flight at once
          UserIds,    \* primary keys of table users
          Emails,     \* lower-cased addresses
          Providers,  \* google and github
          GitHub,     \* the provider that lists a user's addresses
          Subjects,   \* values of provider_user_id
          States,     \* values of token_urlsafe(24): the states ever drawn
          None,       \* SQL NULL, no row, no Redis key
          StateTTL    \* the 600 seconds of SETEX, in ticks

ASSUME OAuthAssumption ==
    /\ None \notin Requests \union UserIds \union Emails
                   \union Providers \union Subjects \union States
    /\ GitHub \in Providers
    /\ StateTTL \in Nat \ {0}

VARIABLES
    states,    \* the keys oauth:state:<provider>:<state>
    users,     \* table users: id -> row or None
    accounts,  \* table oauth_accounts: identity -> user_id or None
    req,       \* what each lane is doing
    started,   \* history: what each state was drawn for
    uses,      \* history: how many callbacks each state has let in, up to 2
    signIns    \* history: who was given a token pair, and on what identity

vars == <<states, users, accounts, req, started, uses, signIns>>

-----------------------------------------------------------------------------
Flows == {"login", "link"}

UserRow == [email : Emails, verified : BOOLEAN, password : BOOLEAN]

\* The unique key of oauth_accounts: provider and provider_user_id.
Identity == [provider : Providers, subject : Subjects]

\* The JSON under a state's key, with the provider the key contains.
Purpose == [provider : Providers, flow : Flows, user : UserIds \union {None}]
Stored  == [purpose : Purpose, ttl : 1..StateTTL]

ASSUME NoneIsNoRecord == None \notin UserRow \union Purpose \union Stored

PCs == {"idle", "provider", "find_account", "load_user", "save_profile",
        "find_email", "create", "pair",
        "link_load", "link_email", "link_account", "link_save"}

\* vouched is the email_verified of the OAuthIdentity, proved (history) whether
\* the provider did verify that address; seen and bound are what the SELECTs
\* returned: the user's email_verified, and whether the identity had an account.
Req == [pc : PCs, state : States \union {None}, flow : Flows,
        provider : Providers \union {None},
        user : UserIds \union {None}, identity : Identity \union {None},
        email : Emails \union {None},
        vouched : BOOLEAN, proved : BOOLEAN, seen : BOOLEAN, bound : BOOLEAN]

IdleReq == [pc |-> "idle", state |-> None, flow |-> "login",
            provider |-> None, user |-> None,
            identity |-> None, email |-> None,
            vouched |-> FALSE, proved |-> FALSE, seen |-> FALSE, bound |-> FALSE]

At(r, pc) == req[r].pc = pc
To(r, q)  == req' = [req EXCEPT ![r] = q]
Goto(q, pc) == [q EXCEPT !.pc = pc]

\* The request is answered or refused; neither changes anything but its lane.
Leave(r) == To(r, IdleReq)

EmailTaken(e) == \E u \in UserIds : users[u] # None /\ users[u].email = e

database == <<users, accounts>>
redis    == <<states, started, uses>>

Init ==
    /\ states = [s \in States |-> None]
    /\ users = [u \in UserIds |-> None]
    /\ accounts = [i \in Identity |-> None]
    /\ req = [r \in Requests |-> IdleReq]
    /\ started = [s \in States |-> None]
    /\ uses = [s \in States |-> 0]
    /\ signIns = {}

-----------------------------------------------------------------------------
(* GET /auth/oauth/{provider}/login and /link                              *)

\* Redis drops a key whose time to live is over; one without any stays.
Aged(stored) ==
    IF stored = None \/ stored.ttl = None THEN stored
    ELSE IF stored.ttl = 1 THEN None
    ELSE [purpose |-> stored.purpose, ttl |-> stored.ttl - 1]

\* Mutant: SET without an expiry.
DrawForGood(s, purpose) ==
    /\ started[s] = None
    /\ started' = [started EXCEPT ![s] = purpose]
    /\ states' = [states EXCEPT ![s] = [purpose |-> purpose, ttl |-> None]]
    /\ UNCHANGED <<database, req, uses, signIns>>

\* Mutant: the 600 are taken for minutes.
DrawForMinutes(s, purpose) ==
    /\ started[s] = None
    /\ started' = [started EXCEPT ![s] = purpose]
    /\ states' = [states EXCEPT ![s] = [purpose |-> purpose, ttl |-> 60 * StateTTL]]
    /\ UNCHANGED <<database, req, uses, signIns>>

\* SETEX of a state nobody has drawn before.
Draw(s, purpose) ==
    /\ started[s] = None
    /\ started' = [started EXCEPT ![s] = purpose]
    /\ states' = [states EXCEPT ![s] = [purpose |-> purpose, ttl |-> StateTTL]]
    /\ UNCHANGED <<database, req, uses, signIns>>

StartLogin(s, p) == Draw(s, [provider |-> p, flow |-> "login", user |-> None])

\* Only for a user get_current_user has authenticated (AuthSessions).
StartLink(s, p, u) ==
    /\ users[u] # None
    /\ Draw(s, [provider |-> p, flow |-> "link", user |-> u])

-----------------------------------------------------------------------------
(* Both callbacks: exchange_code_for_identity                              *)

\* The key the callback of provider p looks up exists.
Found(s, p) == states[s] # None /\ states[s].purpose.provider = p

\* Redis after the DELETE of the key.
Burned(s) == [states EXCEPT ![s] = None]

\* Mutant: the flow under the key is not compared.
AnyFlow(s, flow) == TRUE

ExpectedFlow(s, flow) == states[s].purpose.flow = flow

\* MULTI GET DELETE EXEC: whatever becomes of the callback, the state is
\* spent, also if it was drawn for the other flow.
Consume(r, s, p, flow) ==
    /\ At(r, "idle")
    /\ Found(s, p)
    /\ states' = Burned(s)
    /\ IF ExpectedFlow(s, flow)
       THEN /\ To(r, [IdleReq EXCEPT !.pc = "provider", !.state = s, !.flow = flow,
                                     !.provider = p,
                                     !.user = states[s].purpose.user])
            /\ uses' = [uses EXCEPT ![s] = IF @ < 2 THEN @ + 1 ELSE 2]
       ELSE UNCHANGED <<req, uses>>
    /\ UNCHANGED <<database, started, signIns>>

\* An address with the identity's email_verified, and the provider's own word.
Profile(e, vouched, proved) == [email |-> e, vouched |-> vouched, proved |-> proved]

\* _fetch_google_identity takes both from the userinfo answer.
GoogleProfiles == {Profile(e, v, v) : e \in Emails, v \in BOOLEAN}

\* Mutant: verified if any of the listed addresses is.
GitHubVouchesForAny ==
    {Profile(e, any, proved) : e \in Emails, any \in BOOLEAN, proved \in BOOLEAN}

\* _fetch_github_identity takes the primary address or, if none is, the first
\* one listed, and counts only a primary one as verified; if the list is empty
\* it makes up an address nobody verified.
GitHubProfiles ==
    {Profile(e, primary /\ verified, verified) :
        e \in Emails, primary \in BOOLEAN, verified \in BOOLEAN}

\* The provider exchanges the code for a profile.  Whose it is is up to whoever
\* approved there; address and verification may differ from the last time.
Identify(r) ==
    /\ At(r, "provider")
    /\ \E x \in Subjects :
          \E f \in IF req[r].provider = GitHub THEN GitHubProfiles ELSE GoogleProfiles :
             To(r, [req[r] EXCEPT
                       !.pc = IF req[r].flow = "login"
                              THEN "find_account" ELSE "link_load",
                       !.identity = [provider |-> req[r].provider, subject |-> x],
                       !.email = f.email, !.vouched = f.vouched, !.proved = f.proved])
    /\ UNCHANGED <<database, redis, signIns>>

-----------------------------------------------------------------------------
(* The login callback: get_or_create_oauth_user, issue_token_pair          *)

FindAccount(r) ==
    /\ At(r, "find_account")
    /\ LET u == accounts[req[r].identity] IN
       IF u # None
       THEN To(r, [req[r] EXCEPT !.pc = "load_user", !.user = u])
       ELSE To(r, Goto(req[r], "find_email"))
    /\ UNCHANGED <<database, redis, signIns>>

\* The user is there: oauth_accounts.user_id is a foreign key.
LoadUser(r) ==
    /\ At(r, "load_user")
    /\ To(r, [req[r] EXCEPT !.pc = "save_profile",
                            !.seen = users[req[r].user].verified])
    /\ UNCHANGED <<database, redis, signIns>>

\* Mutant: the value computed from the snapshot is always written.
VerifiedOverwritten(q) ==
    [users EXCEPT ![q.user].verified = q.seen \/ q.vouched]

\* email_verified = email_verified or identity.email_verified; the UPDATE
\* names the column only when that differs from what was loaded.
Verified(q) ==
    IF q.seen # (q.seen \/ q.vouched)
    THEN [users EXCEPT ![q.user].verified = TRUE] ELSE users

SaveProfile(r) ==
    /\ At(r, "save_profile")
    /\ users' = Verified(req[r])
    /\ To(r, Goto(req[r], "pair"))
    /\ UNCHANGED <<accounts, redis, signIns>>

\* Mutant: an account of that address is signed in.
FindEmailAutoLinks(r) ==
    /\ At(r, "find_email")
    /\ \/ /\ ~EmailTaken(req[r].email)
          /\ To(r, Goto(req[r], "create"))
       \/ \E u \in UserIds :
             /\ users[u] # None /\ users[u].email = req[r].email
             /\ To(r, [req[r] EXCEPT !.pc = "pair", !.user = u])
    /\ UNCHANGED <<database, redis, signIns>>

\* 409 if the address belongs to an account already.
FindEmail(r) ==
    /\ At(r, "find_email")
    /\ IF EmailTaken(req[r].email)
       THEN Leave(r)
       ELSE To(r, Goto(req[r], "create"))
    /\ UNCHANGED <<database, redis, signIns>>

\* Mutant: users.email without its unique constraint.
NoUniqueEmail(e) == FALSE

\* The unique constraints of users.email and of oauth_accounts.
EmailViolation(e)    == EmailTaken(e)
IdentityViolation(i) == accounts[i] # None

\* Mutant: the user is committed and the account row is lost.
CreateUserAlone(r) ==
    /\ At(r, "create")
    /\ ~EmailViolation(req[r].email)
    /\ \E u \in UserIds :
          /\ users[u] = None
          /\ users' = [users EXCEPT ![u] = [email |-> req[r].email,
                          verified |-> req[r].vouched, password |-> FALSE]]
          /\ To(r, [req[r] EXCEPT !.pc = "pair", !.user = u])
    /\ UNCHANGED <<accounts, redis, signIns>>

\* User and account in one transaction; either constraint rolls both back
\* and the client gets a 500.
Create(r) ==
    /\ At(r, "create")
    /\ \/ /\ EmailViolation(req[r].email) \/ IdentityViolation(req[r].identity)
          /\ Leave(r)
          /\ UNCHANGED database
       \/ /\ ~EmailViolation(req[r].email) /\ ~IdentityViolation(req[r].identity)
          /\ \E u \in UserIds :
                /\ users[u] = None
                /\ users' = [users EXCEPT ![u] = [email |-> req[r].email,
                                verified |-> req[r].vouched, password |-> FALSE]]
                /\ accounts' = [accounts EXCEPT ![req[r].identity] = u]
                /\ To(r, [req[r] EXCEPT !.pc = "pair", !.user = u])
    /\ UNCHANGED <<redis, signIns>>

\* issue_token_pair (AuthSessions has its steps) and the response.
Pair(r) ==
    /\ At(r, "pair")
    /\ signIns' = signIns \union {[user |-> req[r].user, identity |-> req[r].identity]}
    /\ Leave(r)
    /\ UNCHANGED <<database, redis>>

-----------------------------------------------------------------------------
(* The link callback: link_oauth_account_to_user                           *)

LinkLoad(r) ==
    /\ At(r, "link_load")
    /\ IF req[r].user = None \/ users[req[r].user] = None
       THEN Leave(r)
       ELSE To(r, [req[r] EXCEPT !.pc = "link_email",
                                 !.seen = users[req[r].user].verified])
    /\ UNCHANGED <<database, redis, signIns>>

\* Mutant: the identity goes to the account of its address.
LinkEmailWins(r) ==
    /\ At(r, "link_email")
    /\ \/ /\ ~EmailTaken(req[r].email)
          /\ To(r, Goto(req[r], "link_account"))
       \/ \E u \in UserIds :
             /\ users[u] # None /\ users[u].email = req[r].email
             /\ To(r, [req[r] EXCEPT !.pc = "link_account", !.user = u])
    /\ UNCHANGED <<database, redis, signIns>>

\* 409 if the address belongs to a different account.
LinkEmail(r) ==
    /\ At(r, "link_email")
    /\ IF \E u \in UserIds \ {req[r].user} :
              users[u] # None /\ users[u].email = req[r].email
       THEN Leave(r)
       ELSE To(r, Goto(req[r], "link_account"))
    /\ UNCHANGED <<database, redis, signIns>>

\* 409 if the identity belongs to a different account.
LinkAccount(r) ==
    /\ At(r, "link_account")
    /\ LET owner == accounts[req[r].identity] IN
       IF owner \notin {None, req[r].user}
       THEN Leave(r)
       ELSE To(r, [req[r] EXCEPT !.pc = "link_save", !.bound = (owner # None)])
    /\ UNCHANGED <<database, redis, signIns>>

\* UPDATE and INSERT in one transaction, rolled back by the constraint if the
\* identity was bound since the SELECT.
LinkSave(r) ==
    /\ At(r, "link_save")
    /\ IF ~req[r].bound /\ IdentityViolation(req[r].identity)
       THEN UNCHANGED database
       ELSE /\ users' = Verified(req[r])
            /\ accounts' = IF req[r].bound THEN accounts
                           ELSE [accounts EXCEPT ![req[r].identity] = req[r].user]
    /\ Leave(r)
    /\ UNCHANGED <<redis, signIns>>

-----------------------------------------------------------------------------
(* Around them                                                             *)

\* The COMMIT of register_user (AuthSessions has its steps).
Register(u, e) ==
    /\ users[u] = None
    /\ ~EmailViolation(e)
    /\ users' = [users EXCEPT ![u] = [email |-> e, verified |-> FALSE, password |-> TRUE]]
    /\ UNCHANGED <<accounts, req, redis, signIns>>

\* The replica dies, the provider, Redis or the database fails, or the
\* client goes away: what was committed or deleted stays so.
Abort(r) ==
    /\ ~At(r, "idle")
    /\ Leave(r)
    /\ UNCHANGED <<database, redis, signIns>>

Tick ==
    /\ states' = [s \in States |-> Aged(states[s])]
    /\ UNCHANGED <<database, req, started, uses, signIns>>

Progress(r) ==
    \/ Identify(r)
    \/ FindAccount(r)
    \/ LoadUser(r)
    \/ SaveProfile(r)
    \/ FindEmail(r)
    \/ Create(r)
    \/ Pair(r)
    \/ LinkLoad(r)
    \/ LinkEmail(r)
    \/ LinkAccount(r)
    \/ LinkSave(r)

Next ==
    \/ \E s \in States, p \in Providers :
          StartLogin(s, p) \/ \E u \in UserIds : StartLink(s, p, u)
    \/ \E r \in Requests, s \in States, p \in Providers, flow \in Flows :
          Consume(r, s, p, flow)
    \/ \E r \in Requests : Progress(r) \/ Abort(r)
    \/ \E u \in UserIds, e \in Emails : Register(u, e)
    \/ Tick

Spec == Init /\ [][Next]_vars

\* Redis counts the time to live down by itself.
LiveSpec == Spec /\ WF_vars(Tick)

-----------------------------------------------------------------------------
(* What the flows promise.                                                 *)

\* Every variable keeps to the shape of its table, Redis key or handler.
TypeOK ==
    /\ states \in [States -> Stored \union {None}]
    /\ users \in [UserIds -> UserRow \union {None}]
    /\ accounts \in [Identity -> UserIds \union {None}]
    /\ req \in [Requests -> Req]
    /\ started \in [States -> Purpose \union {None}]
    /\ uses \in [States -> 0..2]
    /\ signIns \subseteq [user : UserIds, identity : Identity]

\* A state lets one callback in at most, however many present it at once or
\* later (the MULTI of consume_oauth_state).
StateUsedOnce == \A s \in States : uses[s] <= 1

\* Registrations and first sign-ins with one address may interleave between
\* their SELECT and their INSERT: one account at most carries the address.
EmailUnique ==
    \A u, v \in UserIds :
        users[u] # None /\ users[v] # None /\ users[u].email = users[v].email
            => u = v

\* A pair is only ever handed out on an identity that belongs to the very
\* user: an address in common with an existing account signs nobody in.
SignInsByOwner ==
    \A x \in signIns : accounts[x.identity] = x.user

\* An account made without a password keeps an identity to sign in with: no
\* failed or lost callback leaves one nobody can enter.
NobodyLockedOut ==
    \A u \in UserIds :
        users[u] # None /\ ~users[u].password =>
            \E i \in Identity : accounts[i] = u

\* Once an identity belongs to a user it does for good, also when callbacks
\* race to bind it (get_or_create_oauth_user, link_oauth_account_to_user).
IdentityKept ==
    [][\A i \in Identity : accounts[i] # None => accounts'[i] = accounts[i]]_vars

\* An identity is bound only by a callback whose state, used this once, was
\* drawn for its provider: to a new user by a login flow, to an existing user
\* only by a link flow that this user started while signed in (README.md:336).
LinkedByStarter ==
    [][\A i \in Identity :
          accounts'[i] # accounts[i] =>
              \E r \in Requests, s \in States :
                  /\ req[r].identity = i /\ req[r].state = s
                  /\ uses[s] = 1
                  /\ started[s] =
                        IF users[accounts'[i]] = None
                        THEN [provider |-> i.provider, flow |-> "login", user |-> None]
                        ELSE [provider |-> i.provider, flow |-> "link",
                              user |-> accounts'[i]]]_vars

\* No account starts out with a verified address which the provider had not
\* verified: the address and the flag, which GitHub's profile has from different
\* places, belong together (_fetch_github_identity, get_or_create_oauth_user).
BornVerified ==
    [][\A u \in UserIds :
          users[u] = None /\ users'[u] # None /\ users'[u].verified =>
              \E r \in Requests : /\ At(r, "create") /\ req[r].proved
                                  /\ req[r].email = users'[u].email]_vars

\* A verified address stays verified: two callbacks of one user that read the
\* row at the same time do not undo each other.
VerifiedSticks ==
    [][\A u \in UserIds :
          users[u] # None /\ users[u].verified => users'[u].verified]_vars

\* Callbacks that have found out who they let in.
Settled == {"load_user", "save_profile", "pair"}

Working ==
    {s \in States : \E r \in Requests : req[r].state = s /\ req[r].pc \notin Settled}
Admitted ==
    {x \in States \X Identity :
        \E r \in Requests :
            req[r].state = x[1] /\ req[r].identity = x[2] /\ req[r].pc \in Settled}

\* However callbacks interleave, fail and meet the other flow, each does with its
\* state one thing at most, and one the state was drawn for: it lets in the owner
\* of an identity, enrols a new one, or gives the starter an identity.
Registry == INSTANCE IdentityRegistry WITH
    Tickets    <- States,
    Users      <- UserIds,
    Identities <- Identity,
    purpose    <- started,
    open       <- {s \in States : states[s] # None},
    working    <- Working,
    admitted   <- Admitted,
    members    <- {u \in UserIds : users[u] # None},
    owner      <- accounts,
    entered    <- signIns

RegistryImplemented == Registry!RegistrySpec

\* Every state is gone in the end, whether a callback spent it or nobody came
\* back from the provider.
StatesExpire == \A s \in States : (states[s] # None) ~> (states[s] = None)
=============================================================================
