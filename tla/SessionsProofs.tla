--------------------------- MODULE SessionsProofs ---------------------------
(***************************************************************************)
(* Proofs about Sessions for any number of requests, users, tokens and     *)
(* families and any durations.                                             *)
(*                                                                         *)
(* OneSpendable is not inductive by itself: a request between MarkUsed and *)
(* the INSERT will add an unspent token, so ChainInv says when a request   *)
(* may be there (IssuerAlone) and that the family it carries is the right  *)
(* one (LocalsAgree).  Each action is shown to preserve ChainInv, conjunct *)
(* by conjunct.                                                            *)
(***************************************************************************)
EXTENDS Sessions, TLAPS

\* The empty table satisfies the invariant.
LEMMA InitChain == Init => ChainInv
BY TimeAssumption
DEF Init, ChainInv, TypeOK, LocalsAgree, Lineage, IssuerAlone, OneSpendable,
    NoDoubleExchange, RetentionHolds, Request, Idle, Steps, Ops, At

\* A new login takes a family nobody is in.
LEMMA StartChain ==
    ASSUME ChainInv, NEW r \in Requests, NEW u \in Users, Start(r, u)
    PROVE  ChainInv'
<1> USE TokenAssumption, FamilyAssumption DEF ChainInv, At, table, history
<1> PICK f \in Families \ families :
        /\ families' = families \cup {f}
        /\ req' = [req EXCEPT ![r] = [Idle EXCEPT !.pc = "issue",
                        !.op = "start", !.fam = f, !.user = u]]
  BY DEF Start
<1>0. UNCHANGED <<clock, table, minted, delivered, history>>
  BY DEF Start
<1>1. TypeOK'
  <2>1. [Idle EXCEPT !.pc = "issue", !.op = "start", !.fam = f, !.user = u]
            \in Request
    BY DEF Request, Idle, Steps, Ops
  <2> QED
    BY <1>0, <2>1 DEF TypeOK
<1>2. LocalsAgree'
  BY <1>0 DEF LocalsAgree, TypeOK, Request, Idle, Lineage
<1>3. Lineage'
  BY <1>0 DEF Lineage
<1>4. IssuerAlone'
  BY <1>0 DEF IssuerAlone, LocalsAgree, Lineage, TypeOK, Request, Idle
<1>5. (OneSpendable /\ NoDoubleExchange /\ RetentionHolds)'
  BY <1>0 DEF OneSpendable, NoDoubleExchange, RetentionHolds
<1> QED
  BY <1>1, <1>2, <1>3, <1>4, <1>5

\* A request that only moves to another program point, without touching the
\* table, preserves everything provided it stays out of the issuing points.
LEMMA LocalChain ==
    ASSUME ChainInv, NEW r \in Requests, NEW q \in Request,
           req' = [req EXCEPT ![r] = q],
           UNCHANGED <<clock, table, ids, delivered, history>>,
           q.pc \notin {"issue", "insert", "reply"},
           q.pc \in {"check", "consume"} =>
                q.tok \in minted /\ q.fam = fam[q.tok]
    PROVE  ChainInv'
<1> USE TokenAssumption DEF ChainInv, At, table, ids, history
<1>1. TypeOK'
  BY DEF TypeOK
<1>2. LocalsAgree'
  BY DEF LocalsAgree, TypeOK, Request
<1>3. IssuerAlone'
  BY DEF IssuerAlone, TypeOK, Request
<1>4. (Lineage /\ OneSpendable /\ NoDoubleExchange /\ RetentionHolds)'
  BY DEF Lineage, OneSpendable, NoDoubleExchange, RetentionHolds
<1> QED
  BY <1>1, <1>2, <1>3, <1>4

\* Requests arriving, reading, refusing and failing are such moves.
LEMMA LocalStepsChain ==
    ASSUME ChainInv, NEW r \in Requests,
           \/ \E t \in Tokens \cup {NoToken}, o \in {"refresh", "logout"} :
                Present(r, t, o)
           \/ LookupMiss(r) \/ LookupHit(r) \/ CheckExpiry(r) \/ Fail(r)
    PROVE  ChainInv'
<1>0. Idle \in Request /\ req[r] \in Request
  BY DEF ChainInv, TypeOK, Request, Idle, Steps, Ops
<1>1. ASSUME NEW t \in Tokens \cup {NoToken}, NEW o \in {"refresh", "logout"},
             Present(r, t, o)
      PROVE  ChainInv'
  <2> DEFINE q == [Idle EXCEPT !.pc = "lookup", !.op = o, !.tok = t]
  <2>1. q \in Request /\ q.pc = "lookup"
    BY DEF Request, Idle, Steps, Ops
  <2>2. /\ req' = [req EXCEPT ![r] = q]
        /\ UNCHANGED <<clock, table, ids, delivered, history>>
    BY <1>1 DEF Present
  <2> HIDE DEF q
  <2> QED
    BY <2>1, <2>2, LocalChain
<1>2. ASSUME req' = [req EXCEPT ![r] = Idle],
             UNCHANGED <<clock, table, ids, delivered, history>>
      PROVE  ChainInv'
  <2>1. Idle.pc = "idle"
    BY DEF Idle
  <2> QED
    BY <1>0, <1>2, <2>1, LocalChain
<1>3. CASE LookupMiss(r) \/ Fail(r)
  BY <1>2, <1>3 DEF LookupMiss, Fail, Return
<1>4. CASE LookupHit(r)
  <2> DEFINE t == req[r].tok
             row(pc) == [req[r] EXCEPT !.pc = pc, !.fam = fam[t],
                                       !.user = owner[t]]
  <2>1. t \in stored /\ t \in minted /\ t \in Tokens
    BY <1>4 DEF LookupHit, ChainInv, TypeOK
  <2>2. ASSUME NEW pc \in {"revoke", "check"},
               req' = [req EXCEPT ![r] = row(pc)]
        PROVE  ChainInv'
    <3>1. fam[t] \in Families \cup {NoFamily} /\ owner[t] \in Users \cup {NoUser}
      BY <2>1 DEF ChainInv, TypeOK
    <3>2. /\ row(pc) \in Request
          /\ row(pc).pc = pc
          /\ row(pc).tok = t
          /\ row(pc).fam = fam[t]
      BY <1>0, <3>1 DEF Request, Steps
    <3>3. UNCHANGED <<clock, table, ids, delivered, history>>
      BY <1>4 DEF LookupHit
    <3> HIDE DEF row
    <3> QED
      BY <2>1, <2>2, <3>2, <3>3, LocalChain
  <2>3. \/ req' = [req EXCEPT ![r] = row("revoke")]
        \/ req' = [req EXCEPT ![r] = row("check")]
        \/ /\ req' = [req EXCEPT ![r] = Idle]
           /\ UNCHANGED <<clock, table, ids, delivered, history>>
    BY <1>4 DEF LookupHit, Return
  <2> QED
    BY <1>2, <2>2, <2>3
<1>5. CASE CheckExpiry(r)
  <2>1. UNCHANGED <<clock, table, ids, delivered, history>>
    BY <1>5 DEF CheckExpiry
  <2>2. CASE Goto(r, "consume")
    <3> DEFINE q == [req[r] EXCEPT !.pc = "consume"]
    <3>1. q \in Request /\ q.pc = "consume" /\ q.tok = req[r].tok
                        /\ q.fam = req[r].fam
      BY <1>0 DEF Request, Steps
    <3>2. req' = [req EXCEPT ![r] = q]
      BY <2>2 DEF Goto
    <3>3. req[r].tok \in minted /\ req[r].fam = fam[req[r].tok]
      BY <1>5 DEF CheckExpiry, At, ChainInv, LocalsAgree
    <3> HIDE DEF q
    <3> QED
      BY <2>1, <3>1, <3>2, <3>3, LocalChain
  <2> QED
    BY <1>2, <1>5, <2>1, <2>2 DEF CheckExpiry, Return
<1> QED
  BY <1>1, <1>3, <1>4, <1>5

\* MarkUsed: the guard lets one request through per token, and spending the
\* last unspent token is what gives that request its family to itself.
LEMMA MarkUsedChain ==
    ASSUME ChainInv, NEW r \in Requests, MarkUsed(r)
    PROVE  ChainInv'
<1> USE TokenAssumption DEF ChainInv, At, Goto, ids, history
<1>0. UNCHANGED <<clock, stored, fam, owner, expires, revoked, ids,
                  delivered, history>>
  BY DEF MarkUsed
<1>1. TypeOK'
  BY DEF MarkUsed, TypeOK, Consumable, Request, Steps
<1>2. LocalsAgree'
  BY DEF MarkUsed, LocalsAgree, TypeOK, Consumable, Request, Lineage
<1>3. (Lineage /\ OneSpendable)'
  BY DEF MarkUsed, Lineage, OneSpendable
<1>4. IssuerAlone'
  <2> DEFINE t == req[r].tok
  <2>1. CASE ~Consumable(t)
    BY <2>1, <1>0 DEF MarkUsed, IssuerAlone, TypeOK, Request
  <2>2. CASE Consumable(t)
    <3>1. /\ used' = used \cup {t}
          /\ req' = [req EXCEPT ![r].pc = "issue"]
      BY <2>2 DEF MarkUsed
    <3>2. /\ t \in minted /\ t \notin used /\ t # NoToken
          /\ req[r].fam = fam[t]
      BY <2>2 DEF MarkUsed, Consumable, LocalsAgree, TypeOK
    <3>3. \A s \in Requests : At(s, "issue") => req[s].fam # fam[t]
      BY <3>2 DEF IssuerAlone
    <3>4. \A s \in minted : fam[s] = fam[t] => s \in used'
      BY <3>1, <3>2 DEF OneSpendable
    <3>5. \A s \in minted : parent[s] # t
      BY <3>2 DEF Lineage
    <3>6. /\ req'[r].pc = "issue" /\ req'[r].tok = t /\ req'[r].fam = fam[t]
          /\ \A s \in Requests : s # r => req'[s] = req[s]
      BY <3>1, <3>2 DEF TypeOK, Request
    <3> QED
      BY <1>0, <3>1, <3>2, <3>3, <3>4, <3>5, <3>6 DEF IssuerAlone
  <2> QED
    BY <2>1, <2>2
<1>5. (NoDoubleExchange /\ RetentionHolds)'
  BY <1>0 DEF NoDoubleExchange, RetentionHolds
<1> QED
  BY <1>1, <1>2, <1>3, <1>4, <1>5

\* Revocation marks rows and nothing else.
LEMMA RevokeFamilyChain ==
    ASSUME ChainInv, NEW r \in Requests, RevokeFamily(r)
    PROVE  ChainInv'
<1> USE DEF ChainInv, RevokeFamily, At, Return, FamilyRows, ids
<1>1. TypeOK'
  BY DEF TypeOK, Request, Idle, Steps, Ops
<1>2. LocalsAgree'
  BY DEF LocalsAgree, TypeOK, Idle
<1>3. IssuerAlone'
  BY DEF IssuerAlone, TypeOK, Idle
<1>4. (Lineage /\ OneSpendable /\ NoDoubleExchange /\ RetentionHolds)'
  BY DEF Lineage, OneSpendable, NoDoubleExchange, RetentionHolds
<1> QED
  BY <1>1, <1>2, <1>3, <1>4

\* Mint: the new token is its family's only unspent one, because the issuer
\* was alone.
LEMMA MintChain ==
    ASSUME ChainInv, NEW r \in Requests, Mint(r)
    PROVE  ChainInv'
<1> USE TokenAssumption, TimeAssumption DEF ChainInv, At
<1> PICK t \in Tokens \ minted :
        /\ minted' = minted \cup {t}
        /\ fam' = [fam EXCEPT ![t] = req[r].fam]
        /\ owner' = [owner EXCEPT ![t] = req[r].user]
        /\ expires' = [expires EXCEPT ![t] = clock + RefreshTTL]
        /\ parent' = [parent EXCEPT ![t] = req[r].tok]
        /\ req' = [req EXCEPT ![r].pc = "insert", ![r].out = t]
  BY DEF Mint
<1>0. At(r, "issue") /\ UNCHANGED <<clock, stored, used, revoked, families,
                                    delivered, ended>>
  BY DEF Mint
<1>1. TypeOK'
  <2>1. req[r] \in Request
    BY DEF TypeOK
  <2>2. [req[r] EXCEPT !.pc = "insert", !.out = t] \in Request
    BY <2>1 DEF Request, Steps
  <2>3. req' = [req EXCEPT ![r] = [req[r] EXCEPT !.pc = "insert", !.out = t]]
    BY <2>1 DEF TypeOK
  <2>4. req' \in [Requests -> Request]
    BY <2>2, <2>3 DEF TypeOK
  <2>5. clock + RefreshTTL \in Nat
    BY DEF TypeOK
  <2>6. /\ req[r].fam \in Families \cup {NoFamily}
        /\ req[r].user \in Users \cup {NoUser}
        /\ req[r].tok \in Tokens \cup {NoToken}
    BY <2>1 DEF Request
  <2> QED
    BY <1>0, <2>4, <2>5, <2>6 DEF TypeOK
<1>2. LocalsAgree'
  BY <1>0 DEF LocalsAgree, TypeOK, Request
<1>3. Lineage'
  <2>1. req[r].fam \in families /\ (req[r].tok # NoToken => req[r].tok \in used)
    BY <1>0 DEF LocalsAgree, IssuerAlone
  <2>2. fam'[t] = req[r].fam /\ parent'[t] = req[r].tok
    BY DEF TypeOK
  <2>3. \A s \in minted : fam'[s] = fam[s] /\ parent'[s] = parent[s]
    BY DEF TypeOK
  <2> QED
    BY <1>0, <2>1, <2>2, <2>3 DEF Lineage
<1>4. IssuerAlone'
  BY <1>0 DEF IssuerAlone, LocalsAgree, TypeOK, Request
<1>5. OneSpendable'
  BY <1>0 DEF OneSpendable, IssuerAlone, TypeOK
<1>6. NoDoubleExchange'
  BY <1>0 DEF NoDoubleExchange, IssuerAlone, TypeOK
<1>7. RetentionHolds'
  BY <1>0 DEF RetentionHolds, TypeOK
<1> QED
  BY <1>1, <1>2, <1>3, <1>4, <1>5, <1>6, <1>7

\* Insert and Reply: the row exists before the client learns the token.
LEMMA InsertReplyChain ==
    ASSUME ChainInv, NEW r \in Requests, Insert(r) \/ Reply(r)
    PROVE  ChainInv'
<1> USE DEF ChainInv, Insert, Reply, Answer, At, Goto, Return, table, ids,
            history
<1>1. TypeOK'
  BY DEF TypeOK, LocalsAgree, Request, Idle, Steps, Ops
<1>2. LocalsAgree'
  <2>1. /\ req[r] \in Request
        /\ req'[r] = Idle \/ req'[r] = [req[r] EXCEPT !.pc = "reply"]
        /\ \A q \in Requests : q # r => req'[q] = req[q]
    BY DEF TypeOK
  <2>2. UNCHANGED <<clock, fam, expires, minted, families>>
        /\ stored \subseteq stored'
    OBVIOUS
  <2>3. CASE Insert(r)
    <3>1. /\ req'[r] = [req[r] EXCEPT !.pc = "reply"]
          /\ req'[r].pc = "reply" /\ req'[r].out = req[r].out
          /\ req[r].out \in minted /\ req[r].out \in stored'
      BY <2>1, <2>3 DEF TypeOK, LocalsAgree, Request
    <3> QED
      BY <2>1, <2>2, <3>1 DEF LocalsAgree
  <2>4. CASE Reply(r)
    <3>1. req'[r].pc = "idle"
      BY <2>4 DEF TypeOK, Idle
    <3> QED
      BY <2>1, <2>2, <3>1 DEF LocalsAgree
  <2> QED
    BY <2>3, <2>4
<1>3. IssuerAlone'
  BY DEF IssuerAlone, TypeOK, Request, Idle
<1>4. RetentionHolds'
  <2>1. CASE Insert(r)
    BY <2>1 DEF RetentionHolds
  <2>2. CASE Reply(r)
    <3>1. \/ req[r].out \in stored
          \/ clock > expires[req[r].out] + Retention
      BY <2>2 DEF LocalsAgree
    <3>2. req[r].out \in Tokens
      BY <2>2 DEF LocalsAgree, TypeOK
    <3> QED
      BY <2>2, <3>1, <3>2, TimeAssumption DEF RetentionHolds, TypeOK
  <2> QED
    BY <2>1, <2>2
<1>5. (Lineage /\ OneSpendable /\ NoDoubleExchange)'
  BY DEF Lineage, OneSpendable, NoDoubleExchange
<1> QED
  BY <1>1, <1>2, <1>3, <1>4, <1>5

\* The janitor, RevokeAllForUser and the clock leave the chains alone; only
\* the janitor's retention matters to RetentionHolds.
LEMMA BackgroundChain ==
    ASSUME ChainInv,
           DeleteExpired \/ Tick \/ \E u \in Users : RevokeAllForUser(u)
    PROVE  ChainInv'
<1> USE TimeAssumption
    DEF ChainInv, DeleteExpired, Purgeable, Tick, RevokeAllForUser, At,
        table, ids, history
<1>1. TypeOK'
  BY DEF TypeOK
<1>2. LocalsAgree'
  BY DEF LocalsAgree, TypeOK, Request
<1>3. RetentionHolds'
  BY DEF RetentionHolds, TypeOK
<1>4. (Lineage /\ IssuerAlone /\ OneSpendable /\ NoDoubleExchange)'
  BY DEF Lineage, IssuerAlone, OneSpendable, NoDoubleExchange
<1> QED
  BY <1>1, <1>2, <1>3, <1>4

\* Every step preserves the invariant.
LEMMA NextChain == ChainInv /\ [Next]_vars => ChainInv'
<1> SUFFICES ASSUME ChainInv, [Next]_vars PROVE ChainInv'
  OBVIOUS
<1>1. CASE \E r \in Requests, u \in Users : Start(r, u)
  BY <1>1, StartChain
<1>2. CASE \E r \in Requests, t \in delivered \cup {NoToken} :
              Present(r, t, "refresh") \/ Present(r, t, "logout")
  <2>1. delivered \subseteq Tokens
    BY DEF ChainInv, TypeOK
  <2> QED
    BY <1>2, <2>1, LocalStepsChain
<1>3. ASSUME NEW r \in Requests, Handle(r) \/ Fail(r) PROVE ChainInv'
  BY <1>3, LocalStepsChain, MarkUsedChain, RevokeFamilyChain, MintChain,
     InsertReplyChain DEF Handle
<1>4. CASE DeleteExpired \/ Tick \/ \E u \in Users : RevokeAllForUser(u)
  BY <1>4, BackgroundChain
<1>5. CASE UNCHANGED vars
  BY <1>5 DEF vars, table, ids, history, ChainInv, TypeOK, LocalsAgree,
     Lineage, IssuerAlone, OneSpendable, NoDoubleExchange, RetentionHolds, At
<1> QED
  BY <1>1, <1>2, <1>3, <1>4, <1>5 DEF Next

\* Whatever the interleaving, failures and timing: the table is well typed, a
\* login's family has at most one unspent token, no refresh token is exchanged
\* twice, and a delivered token stays a row through its retention.
THEOREM ChainSafety == Spec => []ChainInv
<1>1. Init => ChainInv
  BY InitChain
<1>2. ChainInv /\ [Next]_vars => ChainInv'
  BY NextChain
<1> QED
  BY <1>1, <1>2, PTL DEF Spec

\* The table, the requests and the clock stay well typed.
THEOREM TypeSafety == Spec => []TypeOK
BY ChainSafety, PTL DEF ChainInv

\* At most one token of a family was never consumed.
THEOREM SpendableSafety == Spec => []OneSpendable
BY ChainSafety, PTL DEF ChainInv

\* At most one request obtains a successor for a given refresh token.
THEOREM ExchangeSafety == Spec => []NoDoubleExchange
BY ChainSafety, PTL DEF ChainInv

\* A delivered token is a row until Retention past its expiry.
THEOREM RetentionSafety == Spec => []RetentionHolds
BY ChainSafety, PTL DEF ChainInv

-----------------------------------------------------------------------------

\* One step cannot revive a dead family: only a pending request adds a token,
\* and a request becomes pending only on an active token.
LEMMA DeadStep ==
    ASSUME ChainInv, [Next]_vars, NEW f \in Families, Dead(f)
    PROVE  Dead(f)'
<1> USE FamilyAssumption, TimeAssumption
    DEF Dead, Pending, Active, Expired, At, ChainInv
<1>1. ASSUME NEW r \in Requests, NEW u \in Users, Start(r, u) PROVE Dead(f)'
  BY <1>1 DEF Start, TypeOK, Request, Idle, table, history
<1>2. ASSUME NEW r \in Requests, NEW t \in delivered \cup {NoToken},
             Present(r, t, "refresh") \/ Present(r, t, "logout")
      PROVE  Dead(f)'
  <2>1. \E o \in Ops : req' = [req EXCEPT ![r] =
                [Idle EXCEPT !.pc = "lookup", !.op = o, !.tok = t]]
    BY <1>2 DEF Present, Ops
  <2>2. /\ req'[r].pc = "lookup"
        /\ \A s \in Requests : s # r => req'[s] = req[s]
    BY <2>1 DEF TypeOK, Idle
  <2> QED
    BY <1>2, <2>2 DEF Present, table, ids, history
<1>3. ASSUME NEW r \in Requests, LookupMiss(r) \/ Fail(r) PROVE Dead(f)'
  BY <1>3 DEF LookupMiss, Fail, Return, TypeOK, Request, Idle, table, ids,
     history
<1>4. ASSUME NEW r \in Requests, LookupHit(r) PROVE Dead(f)'
  <2> DEFINE t == req[r].tok
  <2>1. t \in stored /\ t \in minted
    BY <1>4 DEF LookupHit, TypeOK
  <2>2. \/ req'[r].pc \in {"revoke", "idle"}
        \/ /\ req'[r].pc = "check" /\ req'[r].tok = t
           /\ req'[r].fam = fam[t]
           /\ t \notin used /\ t \notin revoked
    <3> DEFINE row(pc) == [req[r] EXCEPT !.pc = pc, !.fam = fam[t],
                                         !.user = owner[t]]
    <3>1. \/ req' = [req EXCEPT ![r] = row("revoke")]
          \/ req' = [req EXCEPT ![r] = Idle]
          \/ /\ req' = [req EXCEPT ![r] = row("check")]
             /\ t \notin used /\ t \notin revoked
      BY <1>4 DEF LookupHit, SeenRevoked, Return
    <3>2. req[r] \in Request /\ Idle.pc = "idle"
      BY DEF TypeOK, Idle
    <3>3. \A pc \in Steps : /\ row(pc).pc = pc /\ row(pc).tok = t
                            /\ row(pc).fam = fam[t]
      BY <3>2 DEF Request
    <3>4. \A q : req' = [req EXCEPT ![r] = q] => req'[r] = q
      BY DEF TypeOK
    <3> HIDE DEF row
    <3> QED
      BY <3>1, <3>2, <3>3, <3>4 DEF Steps
  <2>3. \A s \in Requests : s # r => req'[s] = req[s]
    BY <1>4 DEF LookupHit, Return, TypeOK
  <2>4. UNCHANGED <<clock, stored, fam, expires, used, revoked, minted,
                    families>>
    BY <1>4 DEF LookupHit, table, ids
  <2> QED
    BY <2>1, <2>2, <2>3, <2>4
<1>5. ASSUME NEW r \in Requests, CheckExpiry(r) PROVE Dead(f)'
  BY <1>5 DEF CheckExpiry, Return, Goto, TypeOK, Request, Idle, table, ids,
     history
<1>6. ASSUME NEW r \in Requests, MarkUsed(r) PROVE Dead(f)'
  BY <1>6 DEF MarkUsed, Goto, TypeOK, Request, ids, history
<1>7. ASSUME NEW r \in Requests, RevokeFamily(r) PROVE Dead(f)'
  BY <1>7 DEF RevokeFamily, Return, TypeOK, Request, Idle, ids
<1>8. ASSUME NEW r \in Requests, Mint(r) PROVE Dead(f)'
  <2>1. PICK t \in Tokens \ minted :
            /\ minted' = minted \cup {t}
            /\ fam' = [fam EXCEPT ![t] = req[r].fam]
            /\ expires' = [expires EXCEPT ![t] = clock + RefreshTTL]
            /\ req' = [req EXCEPT ![r].pc = "insert", ![r].out = t]
    BY <1>8 DEF Mint
  <2>2. req[r].fam # f /\ UNCHANGED <<clock, stored, used, revoked, families>>
    BY <1>8 DEF Mint
  <2>3. req'[r].fam # f /\ \A s \in Requests : s # r => req'[s] = req[s]
    BY <2>1, <2>2 DEF TypeOK, Request
  <2>4. \A s \in Requests : req'[s].pc = "check" => req[s].tok \in minted
    BY <2>1 DEF LocalsAgree, TypeOK, Request
  <2>5. /\ fam'[t] = req[r].fam
        /\ \A s \in minted : fam'[s] = fam[s] /\ expires'[s] = expires[s]
    BY <2>1 DEF TypeOK
  <2>6. \A s \in minted' : fam'[s] = f => ~Active(s)'
    BY <2>1, <2>2, <2>5
  <2>7. \A s \in Requests : ~Pending(s, f)'
    BY <2>2, <2>3, <2>4, <2>5
  <2> QED
    BY <2>2, <2>6, <2>7
<1>9. ASSUME NEW r \in Requests, Insert(r) PROVE Dead(f)'
  BY <1>9 DEF Insert, Goto, LocalsAgree, TypeOK, Request, ids, history
<1>10. ASSUME NEW r \in Requests, Reply(r) PROVE Dead(f)'
  BY <1>10 DEF Reply, Return, TypeOK, Request, Idle, table, ids, history
<1>11. CASE DeleteExpired \/ Tick \/ \E u \in Users : RevokeAllForUser(u)
  <2>1. UNCHANGED <<fam, expires, used, minted, families, req>>
    BY <1>11 DEF DeleteExpired, Tick, RevokeAllForUser, table, ids
  <2>2. stored' \subseteq stored /\ revoked \subseteq revoked'
    BY <1>11 DEF DeleteExpired, Tick, RevokeAllForUser, table
  <2>3. \A t \in Tokens : Expired(t) => Expired(t)'
    BY <1>11 DEF DeleteExpired, Tick, RevokeAllForUser, table, TypeOK
  <2>4. \A t \in minted : t \in Tokens
    BY DEF TypeOK
  <2>5. \A r \in Requests : At(r, "check") => req[r].tok \in minted
    BY DEF LocalsAgree
  <2> HIDE DEF Expired
  <2> QED
    BY <2>1, <2>2, <2>3, <2>4, <2>5
<1>12. CASE UNCHANGED vars
  BY <1>12 DEF vars, table, ids, history
<1> QED
  BY <1>1, <1>2, <1>3, <1>4, <1>5, <1>6, <1>7, <1>8, <1>9, <1>10, <1>11,
     <1>12 DEF Next, Handle

\* A session that is over stays over: no interleaving of refreshes, replays,
\* logouts, failures and sweeps puts an exchangeable token back into it.
THEOREM NoRevival == Spec => DeadStaysDead
<1>1. ChainInv /\ [Next]_vars => [\A f \in Families : Dead(f) => Dead(f)']_vars
  BY DeadStep
<1> QED
  BY <1>1, ChainSafety, PTL DEF Spec, DeadStaysDead

\* RevokeFamily and RevokeAllForUser mark every row of the family, and no
\* request is left that could add one.
LEMMA RevokeStep ==
    ASSUME ChainInv, NEW f \in Families, QuietlyRevoked(f)
    PROVE  Dead(f)'
<1>1. /\ f \in families
      /\ UNCHANGED <<clock, stored, fam, expires, used, minted, families>>
  BY DEF QuietlyRevoked, RevokeFamily, RevokeAllForUser, ids
<1>2. ASSUME NEW t \in minted, fam[t] = f, t \in stored PROVE t \in revoked'
  BY <1>2 DEF QuietlyRevoked, RevokeFamily, RevokeAllForUser, FamilyRows
<1>3. ASSUME NEW r \in Requests PROVE ~Pending(r, f)'
  <2>1. req'[r] = req[r] \/ req'[r].pc = "idle"
    BY DEF QuietlyRevoked, RevokeFamily, RevokeAllForUser, Return, Idle,
       ChainInv, TypeOK
  <2>2. ~Pending(r, f)
    BY DEF QuietlyRevoked
  <2> QED
    BY <1>1, <2>1, <2>2 DEF Pending, Expired, At
<1> QED
  BY <1>1, <1>2, <1>3 DEF Dead, Active

\* A revocation that meets no exchange in flight ends the session, and by
\* NoRevival for good: the race is the only way around it.
THEOREM RevocationEffective == Spec => RevocationEndsSession
<1>1. ChainInv /\ [Next]_vars =>
        [\A f \in Families : QuietlyRevoked(f) => Dead(f)']_vars
  BY RevokeStep
<1> QED
  BY <1>1, ChainSafety, PTL DEF Spec, RevocationEndsSession
=============================================================================
