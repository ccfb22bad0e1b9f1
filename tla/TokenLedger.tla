---------------------------- MODULE TokenLedger ----------------------------
(***************************************************************************)
(* The abstract promise of refresh-token rotation, with no requests, no    *)
(* clock and no database round trips: a token is issued once, is revoked   *)
(* at most once and for good, and a token that succeeds another one is     *)
(* only issued when its predecessor is already revoked.  AuthSessions      *)
(* implements this specification, and so has what is proved of it here.    *)
(***************************************************************************)
EXTENDS TLAPS

CONSTANT Jtis          \* the identifiers refresh tokens are issued under

VARIABLES issued,      \* tokens ever issued
          revoked,     \* issued tokens that are revoked
          succ         \* pairs <<p, c>>: c was issued in exchange for p

ledgerVars == <<issued, revoked, succ>>

LedgerInit ==
    /\ issued = {}
    /\ revoked = {}
    /\ succ = {}

\* A token that starts a session: it replaces no other token.
Issue(c) ==
    /\ c \notin issued
    /\ issued' = issued \union {c}
    /\ UNCHANGED <<revoked, succ>>

\* A token that continues a session: its predecessor is already dead.
Rotate(p, c) ==
    /\ p \in revoked
    /\ c \notin issued
    /\ issued' = issued \union {c}
    /\ succ' = succ \union {<<p, c>>}
    /\ UNCHANGED revoked

Revoke(j) ==
    /\ j \in issued \ revoked
    /\ revoked' = revoked \union {j}
    /\ UNCHANGED <<issued, succ>>

LedgerNext ==
    \/ \E c \in Jtis : Issue(c)
    \/ \E p, c \in Jtis : Rotate(p, c)
    \/ \E j \in Jtis : Revoke(j)

LedgerSpec == LedgerInit /\ [][LedgerNext]_ledgerVars

-----------------------------------------------------------------------------
\* The tokens of a session and their successors form trees: a token succeeds
\* one other at most, and no chain of successions comes back to where it
\* started (each set of tokens has one whose successors are all outside it).
Forest ==
    /\ \A x, y \in succ : x[2] = y[2] => x[1] = y[1]
    /\ \A S \in SUBSET Jtis :
          S # {} => \E p \in S : \A c \in S : <<p, c>> \notin succ

LedgerShape ==
    /\ issued \subseteq Jtis
    /\ revoked \subseteq issued
    /\ succ \subseteq revoked \X issued

\* A successor is a token that was never issued before: it has no successor
\* itself, and nothing it could already be the successor of.
THEOREM LedgerForest == LedgerSpec => [](LedgerShape /\ Forest)
<1>1. LedgerInit => LedgerShape /\ Forest
  BY DEF LedgerInit, LedgerShape, Forest
<1>2. LedgerShape /\ Forest /\ [LedgerNext]_ledgerVars => (LedgerShape /\ Forest)'
  <2> SUFFICES ASSUME LedgerShape, Forest, [LedgerNext]_ledgerVars
               PROVE  LedgerShape' /\ Forest'
    OBVIOUS
  <2>1. CASE UNCHANGED succ /\ issued \subseteq issued' /\ revoked \subseteq revoked'
             /\ issued' \subseteq Jtis /\ revoked' \subseteq issued'
    BY <2>1 DEF LedgerShape, Forest
  <2>2. ASSUME NEW p \in Jtis, NEW c \in Jtis, Rotate(p, c)
        PROVE  LedgerShape' /\ Forest'
    <3>1. /\ p \in revoked /\ c \notin issued /\ p # c
          /\ issued' = issued \union {c} /\ revoked' = revoked
          /\ succ' = succ \union {<<p, c>>}
      BY <2>2 DEF Rotate, LedgerShape
    <3>2. LedgerShape'
      BY <3>1 DEF LedgerShape
    <3>3. \A x \in succ : x[1] \in issued /\ x[2] \in issued
      BY DEF LedgerShape
    <3>4. \A x, y \in succ' : x[2] = y[2] => x[1] = y[1]
      BY <3>1, <3>3 DEF Forest
    <3>5. ASSUME NEW S \in SUBSET Jtis, S # {}
          PROVE  \E q \in S : \A d \in S : <<q, d>> \notin succ'
      <4>1. CASE c \in S
        <5>1. \A d \in S : <<c, d>> \notin succ'
          BY <3>1, <3>3
        <5>2. QED
          BY <4>1, <5>1
      <4>2. CASE c \notin S
        <5>1. PICK q \in S : \A d \in S : <<q, d>> \notin succ
          BY <3>5 DEF Forest
        <5>2. \A d \in S : <<q, d>> \notin succ'
          BY <3>1, <4>2, <5>1
        <5>3. QED
          BY <5>2
      <4>3. QED
        BY <4>1, <4>2
    <3>6. QED
      BY <3>2, <3>4, <3>5 DEF Forest
  <2>3. ASSUME (\E c \in Jtis : Issue(c)) \/ (\E j \in Jtis : Revoke(j)) \/ UNCHANGED ledgerVars
        PROVE  LedgerShape' /\ Forest'
    BY <2>1, <2>3 DEF Issue, Revoke, ledgerVars, LedgerShape
  <2>4. QED
    BY <2>2, <2>3 DEF LedgerNext
<1>3. QED
  BY <1>1, <1>2, PTL DEF LedgerSpec

=============================================================================
