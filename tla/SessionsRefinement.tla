------------------------- MODULE SessionsRefinement -------------------------
(***************************************************************************)
(* Sessions implements Rotation, for any number of requests, users, tokens *)
(* and families.                                                           *)
(*                                                                         *)
(* Three steps change the chain: Start opens a session, a successful       *)
(* MarkUsed spends its last token, Mint extends it.  IssuerAlone and       *)
(* OneSpendable give what Rotation demands of them, and the request that   *)
(* makes them is what keeps its session from being over.  Every other step *)
(* can at most end sessions, because DeadStep says it revives none.        *)
(***************************************************************************)
EXTENDS SessionsProofs

\* The mapped variables over and chain.
Over == {f \in families : Dead(f)}
ChainOf == [f \in Families |-> {t \in minted : fam[t] = f}]

\* Nothing was opened, and the empty table has empty chains.
LEMMA InitRotation == Init => Chain!Init
BY DEF Init, Chain!Init

\* A step that leaves sessions, chains and spent tokens alone ends some
\* sessions or none.
LEMMA EndRotation ==
    ASSUME ChainInv, [Next]_vars, UNCHANGED <<families, used, minted, fam>>
    PROVE  [Chain!Next]_(Chain!rotation)
<1> DEFINE F == Over' \ Over
<1>1. \A f \in families : f \in Families
  BY DEF ChainInv, TypeOK
<1>2. Over \subseteq Over'
  BY <1>1, DeadStep DEF Over
<1>3. F \in SUBSET (families \ Over) /\ Over' = Over \cup F
  BY <1>2 DEF Over
<1>4. UNCHANGED ChainOf
  BY DEF ChainOf
<1>5. Chain!End(F)
  BY <1>3, <1>4 DEF Chain!End, Over, ChainOf
<1> HIDE DEF F
<1> QED
  BY <1>3, <1>5 DEF Chain!Next, Over

\* The families whose tokens and requests a step leaves alone are over after
\* it only if they were before.
LEMMA SameLife ==
    ASSUME ChainInv, NEW g \in families, Dead(g)',
           UNCHANGED <<clock, stored, revoked>>,
           minted \subseteq minted',
           \A t \in minted : fam'[t] = fam[t] /\ expires'[t] = expires[t],
           \A t \in minted : fam[t] = g => (t \in used' <=> t \in used),
           \A r \in Requests : req'[r] = req[r] \/ ~Pending(r, g)
    PROVE  Dead(g)
<1>1. \A t \in minted : fam[t] = g => ~Active(t)
  BY DEF Dead, Active, Expired
<1>2. ASSUME NEW r \in Requests, Pending(r, g) PROVE FALSE
  <2>1. req'[r] = req[r] /\ ~Pending(r, g)'
    BY <1>2 DEF Dead
  <2>2. At(r, "check") => req[r].tok \in minted
    BY DEF ChainInv, LocalsAgree, At
  <2> QED
    BY <1>2, <2>1, <2>2 DEF Pending, Expired, At
<1> QED
  BY <1>1, <1>2 DEF Dead

\* Start opens a session nobody had, and the request on its way to issue
\* keeps it from being over.
LEMMA StartRotation ==
    ASSUME ChainInv, [Next]_vars, NEW r \in Requests, NEW u \in Users, Start(r, u)
    PROVE  [Chain!Next]_(Chain!rotation)
<1>1. PICK f \in Families \ families :
        /\ families' = families \cup {f}
        /\ req' = [req EXCEPT ![r] = [Idle EXCEPT !.pc = "issue",
                        !.op = "start", !.fam = f, !.user = u]]
  BY DEF Start
<1>2. /\ UNCHANGED <<clock, stored, fam, expires, used, revoked, minted>>
      /\ At(r, "idle")
  BY DEF Start, table, history
<1>3. req \in [Requests -> Request] /\ families \subseteq Families
  BY DEF ChainInv, TypeOK
<1>4. Over \subseteq Over'
  BY <1>1, <1>3, DeadStep DEF Over
<1>5. ~Dead(f)'
  <2>1. req'[r].pc = "issue" /\ req'[r].fam = f
    BY <1>1, <1>3 DEF Idle
  <2> QED
    BY <2>1 DEF Dead, Pending, At
<1>6. ASSUME NEW g \in families, Dead(g)' PROVE Dead(g)
  <2>1. \A s \in Requests : req'[s] = req[s] \/ ~Pending(s, g)
    BY <1>1, <1>2, <1>3 DEF Pending, At
  <2> QED
    BY <1>2, <1>6, <2>1, SameLife
<1>7. Over' = Over
  BY <1>1, <1>4, <1>5, <1>6 DEF Over
<1>8. UNCHANGED ChainOf
  BY <1>2 DEF ChainOf
<1>9. Chain!Open(f)
  BY <1>1, <1>2, <1>7, <1>8 DEF Chain!Open, Over, ChainOf
<1> QED
  BY <1>9 DEF Chain!Next

\* The MarkUsed that wins spends the last token of a session that is not over.
LEMMA SpendRotation ==
    ASSUME ChainInv, [Next]_vars, NEW r \in Requests, MarkUsed(r),
           Consumable(req[r].tok)
    PROVE  [Chain!Next]_(Chain!rotation)
<1> DEFINE t == req[r].tok
           f == req[r].fam
<1>1. /\ At(r, "consume") /\ used' = used \cup {t}
      /\ req' = [req EXCEPT ![r].pc = "issue"]
      /\ UNCHANGED <<clock, stored, fam, expires, revoked, minted, families>>
  BY DEF MarkUsed, Goto, ids
<1>2. /\ t \in minted /\ t \notin used /\ f = fam[t] /\ f \in families
      /\ f \in Families /\ t \in Tokens
  BY <1>1 DEF ChainInv, LocalsAgree, Lineage, TypeOK, Consumable, At
<1>3. req \in [Requests -> Request] /\ families \subseteq Families
  BY DEF ChainInv, TypeOK
<1>4. /\ req'[r].pc = "issue" /\ req'[r].fam = f
      /\ \A s \in Requests : s # r => req'[s] = req[s]
  BY <1>1, <1>3 DEF Request
<1>5. ~Dead(f) /\ ~Dead(f)'
  BY <1>1, <1>4 DEF Dead, Pending, At
<1>6. Over \subseteq Over'
  BY <1>1, <1>3, DeadStep DEF Over
<1>7. ASSUME NEW g \in families, Dead(g)' PROVE Dead(g)
  <2>1. g # f
    BY <1>4, <1>7 DEF Dead, Pending, At
  <2>2. \A s \in Requests : req'[s] = req[s] \/ ~Pending(s, g)
    BY <1>4, <2>1 DEF Pending
  <2>3. \A s \in minted : fam[s] = g => (s \in used' <=> s \in used)
    BY <1>1, <1>2, <2>1
  <2> QED
    BY <1>1, <1>7, <2>2, <2>3, SameLife
<1>8. Over' = Over /\ f \in families \ Over
  BY <1>1, <1>2, <1>5, <1>6, <1>7 DEF Over
<1>9. UNCHANGED ChainOf /\ t \in ChainOf[f] \ used
  BY <1>1, <1>2 DEF ChainOf
<1>10. Chain!Spend(f, t)
  BY <1>1, <1>8, <1>9 DEF Chain!Spend, Over, ChainOf
<1> QED
  BY <1>2, <1>10 DEF Chain!Next

\* Mint extends a session that is not over and whose tokens are all spent.
LEMMA ExtendRotation ==
    ASSUME ChainInv, [Next]_vars, NEW r \in Requests, Mint(r)
    PROVE  [Chain!Next]_(Chain!rotation)
<1>0. PICK f \in Families : f = req[r].fam /\ f \in families
  BY DEF Mint, At, ChainInv, TypeOK, LocalsAgree
<1>1. PICK t \in Tokens \ minted :
        /\ minted' = minted \cup {t}
        /\ fam' = [fam EXCEPT ![t] = f]
        /\ expires' = [expires EXCEPT ![t] = clock + RefreshTTL]
        /\ req' = [req EXCEPT ![r].pc = "insert", ![r].out = t]
  BY <1>0 DEF Mint
<1>2. At(r, "issue") /\ UNCHANGED <<clock, stored, used, revoked, families>>
  BY DEF Mint
<1>3. /\ req \in [Requests -> Request] /\ families \subseteq Families
      /\ minted \subseteq Tokens /\ stored \subseteq minted
  BY DEF ChainInv, TypeOK
<1>4. f \in families /\ \A s \in minted : fam[s] = f => s \in used
  BY <1>0, <1>2 DEF ChainInv, IssuerAlone
<1>5. /\ req'[r].pc = "insert" /\ req'[r].fam = f
      /\ \A s \in Requests : s # r => req'[s] = req[s]
  BY <1>0, <1>1, <1>3 DEF Request
<1>6. /\ fam'[t] = f
      /\ \A s \in minted : fam'[s] = fam[s] /\ expires'[s] = expires[s]
  BY <1>1, <1>3 DEF ChainInv, TypeOK
<1>7. ~Dead(f) /\ ~Dead(f)'
  BY <1>0, <1>2, <1>5 DEF Dead, Pending, At
<1>8. Over \subseteq Over'
  BY <1>2, <1>3, DeadStep DEF Over
<1>9. ASSUME NEW g \in families, Dead(g)' PROVE Dead(g)
  <2>1. g # f
    BY <1>5, <1>9 DEF Dead, Pending, At
  <2>2. \A s \in Requests : req'[s] = req[s] \/ ~Pending(s, g)
    BY <1>0, <1>5, <2>1 DEF Pending
  <2>3. minted \subseteq minted'
    BY <1>1
  <2> QED
    BY <1>2, <1>6, <1>9, <2>2, <2>3, SameLife
<1>10. Over' = Over /\ f \in families \ Over
  BY <1>2, <1>4, <1>7, <1>8, <1>9 DEF Over
<1>11. /\ ChainOf[f] \subseteq used
       /\ \A g \in Families : t \notin ChainOf[g]
  BY <1>1, <1>3, <1>4 DEF ChainOf
<1>12. ChainOf' = [ChainOf EXCEPT ![f] = @ \cup {t}]
  <2>1. \A g \in Families :
            {s \in minted' : fam'[s] = g} =
                IF g = f THEN {s \in minted : fam[s] = g} \cup {t}
                         ELSE {s \in minted : fam[s] = g}
    BY <1>1, <1>3, <1>6
  <2> QED
    BY <1>3, <1>4, <2>1 DEF ChainOf
<1>13. Chain!Extend(f, t)
  BY <1>2, <1>10, <1>11, <1>12 DEF Chain!Extend, Over, ChainOf
<1> QED
  BY <1>13 DEF Chain!Next

\* Every step of Sessions is a step of Rotation or changes nothing of it.
LEMMA NextRotation ==
    ChainInv /\ [Next]_vars => [Chain!Next]_(Chain!rotation)
<1> SUFFICES ASSUME ChainInv, [Next]_vars
             PROVE  [Chain!Next]_(Chain!rotation)
  OBVIOUS
<1>1. CASE \E r \in Requests, u \in Users : Start(r, u)
  BY <1>1, StartRotation
<1>2. CASE \E r \in Requests : Mint(r)
  BY <1>2, ExtendRotation
<1>3. ASSUME NEW r \in Requests, MarkUsed(r)
      PROVE  [Chain!Next]_(Chain!rotation)
  <2>1. CASE Consumable(req[r].tok)
    BY <1>3, <2>1, SpendRotation
  <2>2. CASE ~Consumable(req[r].tok)
    BY <1>3, <2>2, EndRotation DEF MarkUsed, ids
  <2> QED
    BY <2>1, <2>2
<1>4. CASE UNCHANGED <<families, used, minted, fam>>
  BY <1>4, EndRotation
<1>5. \/ \E r \in Requests, u \in Users : Start(r, u)
      \/ \E r \in Requests : Mint(r) \/ MarkUsed(r)
      \/ UNCHANGED <<families, used, minted, fam>>
  BY DEF Next, Handle, Present, LookupMiss, LookupHit, CheckExpiry,
     RevokeFamily, Insert, Reply, Fail, DeleteExpired, RevokeAllForUser, Tick,
     vars, table, ids
<1> QED
  BY <1>1, <1>2, <1>3, <1>4, <1>5

\* The refresh tokens of the program form rotation chains: whatever requests
\* interleave, fail or are repeated, a session is opened once, its chain grows
\* only from a spent last token, and a session that is over is never extended.
THEOREM RotationImplemented == Spec => ImplementsRotation
<1>1. Init => Chain!Init
  BY InitRotation
<1>2. ChainInv /\ [Next]_vars => [Chain!Next]_(Chain!rotation)
  BY NextRotation
<1> QED
  BY <1>1, <1>2, ChainSafety, PTL DEF Spec, Chain!Spec, ImplementsRotation
=============================================================================
