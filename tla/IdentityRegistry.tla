-------------------------- MODULE IdentityRegistry --------------------------
(***************************************************************************)
(* The abstract promise of OAuth sign-in and linking, with no Redis, no    *)
(* time to live, no round trips and no addresses: a ticket is drawn for    *)
(* one purpose and redeemed once, and whoever holds it may do one of two   *)
(* things with it, once.  A login ticket lets its holder in as the owner   *)
(* of an identity of its provider, as a new member if it has none.  A link *)
(* ticket gives its starter an identity of its provider that nobody else   *)
(* owns.  Owners never change.  OAuthAccounts implements this.             *)
(***************************************************************************)
CONSTANTS Tickets,     \* the states ever drawn
          Users,
          Providers,
          Identities,  \* records with a field provider
          None         \* no purpose, no user

VARIABLES purpose,     \* what each ticket was drawn for, or None
          open,        \* tickets that can still be redeemed
          working,     \* redeemed tickets whose holder is nobody yet
          admitted,    \* pairs <<t, i>>: the holder of t may enter on i
          members,     \* users that exist
          owner,       \* of each identity, or None
          entered      \* who was let in, and on what identity

registryVars == <<purpose, open, working, admitted, members, owner, entered>>

RegistryInit ==
    /\ purpose = [t \in Tickets |-> None]
    /\ open = {} /\ working = {} /\ admitted = {}
    /\ members = {}
    /\ owner = [i \in Identities |-> None]
    /\ entered = {}

LoginPurpose(p)   == [provider |-> p, flow |-> "login", user |-> None]
LinkPurpose(p, u) == [provider |-> p, flow |-> "link", user |-> u]

DrawTicket(t, for) ==
    /\ purpose[t] = None
    /\ purpose' = [purpose EXCEPT ![t] = for]
    /\ open' = open \union {t}
    /\ UNCHANGED <<working, admitted, members, owner, entered>>

\* Tickets become void, by time or by misuse.
Void(T) ==
    /\ open' = open \ T
    /\ UNCHANGED <<purpose, working, admitted, members, owner, entered>>

Redeem(t) ==
    /\ t \in open
    /\ open' = open \ {t}
    /\ working' = working \union {t}
    /\ UNCHANGED <<purpose, admitted, members, owner, entered>>

\* The holder of a redeemed ticket goes away.
Drop(t) ==
    /\ working' = working \ {t}
    /\ admitted' = {x \in admitted : x[1] # t}
    /\ UNCHANGED <<purpose, open, members, owner, entered>>

Admit(t, i) ==
    /\ t \in working
    /\ purpose[t] = LoginPurpose(i.provider)
    /\ working' = working \ {t}
    /\ admitted' = admitted \union {<<t, i>>}

Recognise(t, i) ==
    /\ owner[i] # None
    /\ Admit(t, i)
    /\ UNCHANGED <<purpose, open, members, owner, entered>>

Enrol(t, i, u) ==
    /\ owner[i] = None
    /\ u \notin members
    /\ members' = members \union {u}
    /\ owner' = [owner EXCEPT ![i] = u]
    /\ Admit(t, i)
    /\ UNCHANGED <<purpose, open, entered>>

Enter(t, i) ==
    /\ <<t, i>> \in admitted
    /\ entered' = entered \union {[user |-> owner[i], identity |-> i]}
    /\ admitted' = {x \in admitted : x[1] # t}
    /\ UNCHANGED <<purpose, open, working, members, owner>>

Bind(t, i, u) ==
    /\ t \in working
    /\ purpose[t] = LinkPurpose(i.provider, u)
    /\ u \in members
    /\ owner[i] = None
    /\ owner' = [owner EXCEPT ![i] = u]
    /\ working' = working \ {t}
    /\ UNCHANGED <<purpose, open, admitted, members, entered>>

\* A member that registers with a password.
Join(u) ==
    /\ u \notin members
    /\ members' = members \union {u}
    /\ UNCHANGED <<purpose, open, working, admitted, owner, entered>>

RegistryNext ==
    \/ \E t \in Tickets, p \in Providers :
          \/ DrawTicket(t, LoginPurpose(p))
          \/ \E u \in members : DrawTicket(t, LinkPurpose(p, u))
    \/ \E T \in SUBSET Tickets : Void(T)
    \/ \E t \in Tickets : Redeem(t) \/ Drop(t)
    \/ \E t \in Tickets, i \in Identities :
          \/ Recognise(t, i)
          \/ Enter(t, i)
          \/ \E u \in Users : Enrol(t, i, u) \/ Bind(t, i, u)
    \/ \E u \in Users : Join(u)

RegistrySpec == RegistryInit /\ [][RegistryNext]_registryVars
=============================================================================
