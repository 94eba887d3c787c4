--------------------------- MODULE OAuthGrantsProofs ---------------------------
(***************************************************************************)
(* Proofs about OAuthGrants, for any sets of codes, grants and policies,   *)
(* any lifetimes and any staleness of the clock.                           *)
(***************************************************************************)
EXTENDS OAuthGrants, TLAPS, SequenceTheorems

(* What the assumption says of the numbers.                                *)
LEMMA Lifetimes ==
    /\ CodeLife \in Nat /\ AccessLife \in Nat /\ GrantLife \in Nat
    /\ MaxDelay \in Nat /\ MaxTime \in Nat /\ MaxPairs \in Nat
  BY GrantAssumption

TokenRecord == [grant : Grants, at : 0..MaxTime]

(* Types of the tables and of the history.                                 *)
RowsInv ==
    /\ clock \in 0..MaxTime /\ policy \in Policies
    /\ codes \subseteq CodeRows /\ grants \subseteq GrantRows /\ used \subseteq UsedRows
    /\ issued \in Seq(TokenRecord) /\ Len(issued) <= MaxPairs
    /\ origin \in [Grants -> Codes \cup {NoCode}] /\ reused \subseteq Grants /\ purges \in Nat

(* What was issued, was for a grant and at a time.                         *)
LEMMA Tokens ==
    ASSUME RowsInv, NEW t \in Pairs
    PROVE  t \in Int /\ issued[t].grant \in Grants /\ issued[t].at \in Int
<1>1. issued \in Seq(TokenRecord) /\ Len(issued) \in Nat /\ t \in 1..Len(issued)
  BY LenProperties DEF RowsInv, Pairs
<1>2. issued[t] \in TokenRecord
  BY <1>1, ElementOfSeq
<1> QED
  BY <1>1, <1>2, Lifetimes DEF TokenRecord, RowsInv

(* Issuing adds one pair at the end and leaves the others as they are.     *)
LEMMA Issuing ==
    ASSUME RowsInv, NEW g \in Grants, Issue(g)
    PROVE  /\ issued' \in Seq(TokenRecord) /\ Len(issued') = Len(issued) + 1
           /\ Len(issued) \in Nat /\ Len(issued') <= MaxPairs
           /\ Len(issued) + 1 \in 1..MaxPairs /\ Len(issued) + 1 \in Int
           /\ Pairs' = Pairs \cup {Len(issued) + 1} /\ Len(issued) + 1 \notin Pairs
           /\ \A t \in Pairs : issued'[t] = issued[t] /\ t < Len(issued) + 1 /\ t \in Int
           /\ issued'[Len(issued) + 1].grant = g /\ issued'[Len(issued) + 1].at = clock
<1> DEFINE new == [grant |-> g, at |-> clock]
<1>0. new.grant = g /\ new.at = clock
  OBVIOUS
<1>1. new \in TokenRecord /\ issued \in Seq(TokenRecord) /\ Len(issued) \in Nat /\ Len(issued) < MaxPairs
  BY LenProperties DEF RowsInv, TokenRecord, Issue
<1>2. issued' = Append(issued, new)
  BY DEF Issue
<1>3. /\ Append(issued, new) \in Seq(TokenRecord)
      /\ Len(Append(issued, new)) = Len(issued) + 1
      /\ \A i \in 1..Len(issued) : Append(issued, new)[i] = issued[i]
      /\ Append(issued, new)[Len(issued) + 1] = new
  BY <1>1, AppendProperties
<1> HIDE DEF new
<1> QED
  BY <1>0, <1>1, <1>2, <1>3, Lifetimes DEF Pairs

(* The times a transaction writes are in range.                            *)
LEMMA Deadlines ==
    ASSUME RowsInv, NEW stale \in 0..MaxDelay
    PROVE  /\ clock - stale + CodeLife \in Times /\ clock - stale + AccessLife \in Times
           /\ clock - stale + GrantLife \in Times
  BY Lifetimes DEF RowsInv, Times

(* Every row keeps its type.                                               *)
LEMMA RowsStep == RowsInv /\ [Next]_vars => RowsInv'
<1> SUFFICES ASSUME RowsInv, [Next]_vars PROVE RowsInv'
  OBVIOUS
<1> USE Lifetimes DEF tables, history, KeepGrants
<1>1. ASSUME NEW c \in Codes, NEW stale \in 0..MaxDelay, Consent(c, stale) PROVE RowsInv'
  BY <1>1 DEF Consent, RowsInv, CodeRows, Times
<1>2. ASSUME NEW c \in Codes, NEW g \in Grants, NEW stale \in 0..MaxDelay, Exchange(c, g, stale)
      PROVE RowsInv'
  <2>1. Issue(g)
    BY <1>2 DEF Exchange
  <2>2. issued' \in Seq(TokenRecord) /\ Len(issued') <= MaxPairs
    BY <2>1, Issuing
  <2> DEFINE now == clock - stale
             new == [id |-> g, pair |-> Len(issued) + 1, policy |-> policy,
                     access |-> now + AccessLife, expires |-> now + GrantLife]
  <2>3. new \in GrantRows
    BY <2>1, Issuing, Deadlines DEF RowsInv, GrantRows
  <2>4. grants' = grants \cup {new} /\ codes' \subseteq codes
    BY <1>2 DEF Exchange, WithoutCode
  <2> HIDE DEF new
  <2>5. grants' \subseteq GrantRows
    BY <2>3, <2>4 DEF RowsInv
  <2>6. /\ UNCHANGED <<clock, policy, used, reused, purges>>
        /\ origin' = [origin EXCEPT ![g] = c]
    BY <1>2 DEF Exchange
  <2> QED
    BY <2>2, <2>4, <2>5, <2>6 DEF RowsInv
<1>3. ASSUME NEW t \in Pairs, NEW stale \in 0..MaxDelay, Rotate(t, stale) PROVE RowsInv'
  <2> DEFINE now == clock - stale
  <2>1. PICK g \in grants : /\ g.pair = t /\ Issue(g.id)
                            /\ used' = used \cup {[pair |-> t, grant |-> g.id]}
                            /\ grants' = (grants \ {g}) \cup {Renewed(g, now)}
    BY <1>3 DEF Rotate
  <2> g \in GrantRows
    BY DEF RowsInv
  <2>2. g.id \in Grants /\ g.pair \in 1..MaxPairs
    BY DEF GrantRows
  <2>3. /\ issued' \in Seq(TokenRecord) /\ Len(issued') <= MaxPairs
        /\ Len(issued) + 1 \in 1..MaxPairs
    BY <2>1, <2>2, Issuing
  <2>4. Renewed(g, now) \in GrantRows
    BY <2>3, Deadlines DEF Renewed, GrantRows
  <2>5. used' \subseteq UsedRows
    BY <2>1, <2>2 DEF UsedRows, RowsInv
  <2> QED
    BY <1>3, <2>1, <2>3, <2>4, <2>5 DEF Rotate, RowsInv
<1>4. ASSUME NEW t \in Pairs, Reuse(t) PROVE RowsInv'
  <2>1. issued[t].grant \in Grants
    BY Tokens
  <2> QED
    BY <1>4, <2>1 DEF Reuse, RowsInv
<1>5. ASSUME NEW t \in Pairs, NEW refresh \in BOOLEAN, RevokeToken(t, refresh) PROVE RowsInv'
  BY <1>5 DEF RevokeToken, RowsInv
<1>6. ASSUME RevokeAll PROVE RowsInv'
  BY <1>6 DEF RevokeAll, RowsInv, CodesAfterPurge
<1>7. ASSUME NEW p \in Policies, NewPolicy(p) PROVE RowsInv'
  BY <1>7 DEF NewPolicy, RowsInv
<1>8. ASSUME Tick PROVE RowsInv'
  BY <1>8 DEF Tick, RowsInv
<1>9. ASSUME UNCHANGED vars PROVE RowsInv'
  BY <1>9 DEF vars, RowsInv
<1> QED
  BY <1>1, <1>2, <1>3, <1>4, <1>5, <1>6, <1>7, <1>8, <1>9 DEF Next

(* At the start the tables are empty.                                      *)
LEMMA RowsInit == Init => RowsInv
  BY Lifetimes, EmptySeq DEF Init, RowsInv

-----------------------------------------------------------------------------
(* A grant in the table has the last pair issued for it; all the others    *)
(* are retired and known to be; an id is used for one grant, even after    *)
(* that grant is gone.                                                     *)
PairsInv ==
    /\ \A g \in grants : g.pair \in Pairs /\ issued[g.pair].grant = g.id /\ g.id \notin reused
    /\ \A g \in grants, t \in Pairs : issued[t].grant = g.id =>
            t <= g.pair /\ (t # g.pair => [pair |-> t, grant |-> g.id] \in used)
    /\ \A u \in used : \E g \in grants : g.id = u.grant /\ u.pair < g.pair
    /\ \A u \in used : u.pair \in Pairs /\ issued[u.pair].grant = u.grant
    /\ \A g, h \in grants : g.id = h.id => g = h
    /\ \A t \in Pairs : origin[issued[t].grant] # NoCode
    /\ \A g \in reused : origin[g] # NoCode

(* A deletion of grants takes the retired tokens of these, and no others.  *)
LEMMA Deletion ==
    ASSUME RowsInv, PairsInv, NEW rows, rows \subseteq grants, KeepGrants(rows),
           UNCHANGED <<issued, origin>>,
           \/ reused' = reused
           \/ \E t \in Pairs : reused' = reused \cup {issued[t].grant}
                              /\ \A g \in rows : g.id # issued[t].grant
    PROVE  PairsInv'
<1>1. grants' = rows /\ used' \subseteq used /\ Pairs' = Pairs
  BY DEF KeepGrants, Pairs
<1>2. \A u \in used' : \E g \in grants' : g.id = u.grant /\ u.pair < g.pair
  BY DEF KeepGrants, PairsInv
<1>3. \A g \in grants', t \in Pairs : issued[t].grant = g.id =>
            t <= g.pair /\ (t # g.pair => [pair |-> t, grant |-> g.id] \in used')
  BY DEF KeepGrants, PairsInv
<1>4. \A g \in grants' : g.pair \in Pairs /\ issued[g.pair].grant = g.id /\ g.id \notin reused'
  BY <1>1 DEF PairsInv
<1>5. \A g \in reused' : origin[g] # NoCode
  BY DEF PairsInv
<1>6. \A g, h \in grants' : g.id = h.id => g = h
  BY <1>1 DEF PairsInv
<1> QED
  BY <1>1, <1>2, <1>3, <1>4, <1>5, <1>6 DEF PairsInv

(* Tokens of a grant are retired in the order they were issued.            *)
LEMMA PairsStep == RowsInv /\ PairsInv /\ [Next]_vars => PairsInv'
<1> SUFFICES ASSUME RowsInv, PairsInv, [Next]_vars PROVE PairsInv'
  OBVIOUS
<1> USE DEF tables, history
<1>1. ASSUME NEW c \in Codes, NEW stale \in 0..MaxDelay, Consent(c, stale) PROVE PairsInv'
  <2>1. KeepGrants({g \in grants : g.expires > clock - stale}) /\ UNCHANGED <<issued, origin, reused>>
    BY <1>1 DEF Consent
  <2> QED
    BY <2>1, Deletion
<1>2. ASSUME NEW c \in Codes, NEW g \in Grants, NEW stale \in 0..MaxDelay, Exchange(c, g, stale)
      PROVE PairsInv'
  <2> DEFINE last == Len(issued) + 1
  <2>1. /\ Issue(g) /\ origin[g] = NoCode /\ UNCHANGED <<used, reused>>
        /\ origin' = [origin EXCEPT ![g] = c]
    BY <1>2 DEF Exchange
  <2>2. PICK new : new.id = g /\ new.pair = last /\ grants' = grants \cup {new}
    BY <1>2 DEF Exchange
  <2>3. /\ last \in Int /\ last \notin Pairs /\ Pairs' = Pairs \cup {last}
        /\ \A t \in Pairs : issued'[t] = issued[t]
        /\ issued'[last].grant = g
    BY <2>1, Issuing
  <2>4. \A t \in Pairs : issued[t].grant # g
    BY <2>1 DEF PairsInv
  <2>5. \A h \in grants : h.id # g
    BY <2>4 DEF PairsInv
  <2>6. \A h \in Grants : origin'[h] = IF h = g THEN c ELSE origin[h]
    BY <2>1 DEF RowsInv
  <2>7. \A t \in Pairs' : origin'[issued'[t].grant] # NoCode
    BY <2>3, <2>4, <2>6, Tokens, GrantAssumption DEF PairsInv
  <2>8. \A h \in reused' : origin'[h] # NoCode
    BY <2>1, <2>6, GrantAssumption DEF PairsInv, RowsInv
  <2>9. g \notin reused
    BY <2>1 DEF PairsInv
  <2>10. \A h \in grants', t \in Pairs' : issued'[t].grant = h.id =>
            t <= h.pair /\ (t # h.pair => [pair |-> t, grant |-> h.id] \in used')
    BY <2>1, <2>2, <2>3, <2>4, <2>5 DEF PairsInv
  <2>11. \A h \in grants' : h.pair \in Pairs' /\ issued'[h.pair].grant = h.id /\ h.id \notin reused'
    BY <2>1, <2>2, <2>3, <2>9 DEF PairsInv
  <2>12. \A u \in used' : \E h \in grants' : h.id = u.grant /\ u.pair < h.pair
    BY <2>1, <2>2 DEF PairsInv
  <2>13. \A u \in used' : u.pair \in Pairs' /\ issued'[u.pair].grant = u.grant
    BY <2>1, <2>3 DEF PairsInv
  <2>14. \A h, k \in grants' : h.id = k.id => h = k
    BY <2>2, <2>5 DEF PairsInv
  <2> QED
    BY <2>7, <2>8, <2>10, <2>11, <2>12, <2>13, <2>14 DEF PairsInv
<1>3. ASSUME NEW t \in Pairs, NEW stale \in 0..MaxDelay, Rotate(t, stale) PROVE PairsInv'
  <2> DEFINE last == Len(issued) + 1
  <2>1. PICK g \in grants : /\ g.pair = t /\ Issue(g.id)
                            /\ used' = used \cup {[pair |-> t, grant |-> g.id]}
                            /\ grants' = (grants \ {g}) \cup {Renewed(g, clock - stale)}
    BY <1>3 DEF Rotate
  <2> g \in GrantRows
    BY DEF RowsInv
  <2>2. PICK new : new.id = g.id /\ new.pair = last /\ grants' = (grants \ {g}) \cup {new}
    BY <2>1 DEF Renewed, GrantRows
  <2>3. g.id \in Grants /\ UNCHANGED <<origin, reused>>
    BY <1>3 DEF Rotate, GrantRows
  <2>4. /\ last \in Int /\ last \notin Pairs /\ Pairs' = Pairs \cup {last}
        /\ \A s \in Pairs : issued'[s] = issued[s] /\ s < last /\ s \in Int
        /\ issued'[last].grant = g.id
    BY <2>1, <2>3, Issuing
  <2>5. \A h \in grants : h.id = g.id => h = g
    BY DEF PairsInv
  <2>6. \A s \in Pairs' : origin'[issued'[s].grant] # NoCode
    BY <2>1, <2>3, <2>4 DEF PairsInv
  <2>7. \A h \in grants', s \in Pairs' : issued'[s].grant = h.id =>
            s <= h.pair /\ (s # h.pair => [pair |-> s, grant |-> h.id] \in used')
    <3> SUFFICES ASSUME NEW h \in grants', NEW s \in Pairs', issued'[s].grant = h.id
                 PROVE  s <= h.pair /\ (s # h.pair => [pair |-> s, grant |-> h.id] \in used')
      OBVIOUS
    <3>1. CASE h = new /\ s # last
      <4>1. s \in Pairs /\ issued[s].grant = g.id /\ s < last /\ s \in Int /\ last \in Int
        BY <2>2, <2>4, <3>1
      <4>2. s = t \/ [pair |-> s, grant |-> g.id] \in used
        BY <2>1, <4>1 DEF PairsInv
      <4> QED
        BY <2>1, <2>2, <2>4, <3>1, <4>1, <4>2
    <3>2. CASE h \in grants /\ h.id # g.id
      BY <2>1, <2>4, <3>2 DEF PairsInv
    <3>3. CASE h = new /\ s = last
      BY <2>2, <2>4, <3>3
    <3> QED
      BY <2>2, <2>5, <3>1, <3>2, <3>3
  <2>8. \A h \in grants' : h.pair \in Pairs' /\ issued'[h.pair].grant = h.id /\ h.id \notin reused'
    BY <2>2, <2>3, <2>4 DEF PairsInv
  <2>9. \A u \in used' : u.pair \in Pairs' /\ issued'[u.pair].grant = u.grant
    BY <2>1, <2>4 DEF PairsInv
  <2>10. \A u \in used' : \E h \in grants' : h.id = u.grant /\ u.pair < h.pair
    <3> SUFFICES ASSUME NEW u \in used' PROVE \E h \in grants' : h.id = u.grant /\ u.pair < h.pair
      OBVIOUS
    <3>1. CASE u.grant = g.id
      BY <2>2, <2>4, <2>9, <3>1, <2>1 DEF PairsInv
    <3>2. CASE u.grant # g.id
      BY <2>1, <2>2, <3>2 DEF PairsInv
    <3> QED
      BY <3>1, <3>2
  <2>11. \A h, k \in grants' : h.id = k.id => h = k
    BY <2>2, <2>5 DEF PairsInv
  <2>12. \A h \in reused' : origin'[h] # NoCode
    BY <2>3 DEF PairsInv
  <2> QED
    BY <2>6, <2>7, <2>8, <2>9, <2>10, <2>11, <2>12 DEF PairsInv
<1>4. ASSUME NEW t \in Pairs, Reuse(t) PROVE PairsInv'
  <2>1. /\ KeepGrants(grants \ Betrayed(t)) /\ UNCHANGED <<issued, origin>>
        /\ reused' = reused \cup {issued[t].grant}
    BY <1>4 DEF Reuse
  <2>2. \A g \in grants \ Betrayed(t) : g.id # issued[t].grant
    BY <1>4 DEF Reuse, Betrayed, PairsInv
  <2> HIDE DEF Betrayed
  <2> QED
    BY <2>1, <2>2, Deletion
<1>5. ASSUME NEW t \in Pairs, NEW refresh \in BOOLEAN, RevokeToken(t, refresh) PROVE PairsInv'
  <2> DEFINE theirs == {g \in grants : g.pair = t \/ (refresh /\ [pair |-> t, grant |-> g.id] \in used)}
  <2>1. KeepGrants(grants \ theirs) /\ UNCHANGED <<issued, origin, reused>>
    BY <1>5 DEF RevokeToken
  <2> QED
    BY <2>1, Deletion
<1>6. ASSUME RevokeAll PROVE PairsInv'
  <2>1. KeepGrants({}) /\ UNCHANGED <<issued, origin, reused>>
    BY <1>6 DEF RevokeAll
  <2> QED
    BY <2>1, Deletion
<1>7. ASSUME UNCHANGED <<tables, issued, origin, reused>> PROVE PairsInv'
  BY <1>7 DEF PairsInv, Pairs
<1> QED
  BY <1>1, <1>2, <1>3, <1>4, <1>5, <1>6, <1>7 DEF Next, NewPolicy, Tick, vars

(* At the start there is nothing to lose track of.                         *)
LEMMA PairsInit == Init => PairsInv
  BY DEF Init, PairsInv, Pairs

(* The types and the order of the pairs hold for good.                     *)
THEOREM TokensTracked == Spec => [](RowsInv /\ PairsInv)
  BY RowsInit, RowsStep, PairsInit, PairsStep, PTL DEF Spec

(* Types, and the keys of the tables.                                      *)
THEOREM GrantTypeCorrect == Spec => []TypeOK
<1>1. RowsInv /\ PairsInv => TypeOK
  BY DEF RowsInv, PairsInv, TypeOK, TokenRecord
<1> QED
  BY <1>1, TokensTracked, PTL

(* Presenting a retired refresh token ends its grant, and every token that *)
(* a living grant retired is known to be.                                  *)
THEOREM ReuseCorrect == Spec => []ReuseEndsGrant
<1>1. RowsInv /\ PairsInv => ReuseEndsGrant
  <2> SUFFICES ASSUME RowsInv, PairsInv,
                      NEW t \in Pairs, NEW g \in grants, issued[t].grant = g.id, Retired(t)
               PROVE  [pair |-> t, grant |-> g.id] \in used
    BY DEF ReuseEndsGrant, PairsInv
  <2>1. PICK s \in Pairs : s > t /\ issued[s].grant = g.id
    BY DEF Retired
  <2>2. s <= g.pair /\ g.pair \in Pairs
    BY <2>1 DEF PairsInv
  <2>3. t \in Int /\ s \in Int
    BY <2>1, Tokens
  <2>4. t # g.pair
    BY <2>1, <2>2, <2>3
  <2> QED
    BY <2>4 DEF PairsInv
<1> QED
  BY <1>1, TokensTracked, PTL

-----------------------------------------------------------------------------
(* A code that can be exchanged has no grant yet, and it and every grant   *)
(* carry what the administrator agreed to since the last revocation.       *)
CodesInv ==
    /\ \A r \in codes : /\ r.code \in DOMAIN consent /\ \A g \in Grants : origin[g] # r.code
                        /\ consent[r.code] = [policy |-> r.policy, purges |-> purges]
    /\ \A g \in Grants : origin[g] # NoCode => origin[g] \in DOMAIN consent
    /\ \A g, h \in Grants : origin[g] = origin[h] /\ origin[g] # NoCode => g = h
    /\ \A g \in grants : /\ g.id \in Grants /\ origin[g.id] # NoCode
                         /\ consent[origin[g.id]] = [policy |-> g.policy, purges |-> purges]

(* A code is gone once exchanged, and with a revocation everything is.     *)
LEMMA CodesStep == RowsInv /\ CodesInv /\ [Next]_vars => CodesInv'
<1> SUFFICES ASSUME RowsInv, CodesInv, [Next]_vars PROVE CodesInv'
  OBVIOUS
<1> USE DEF tables, history
<1>1. ASSUME NEW c \in Codes, NEW stale \in 0..MaxDelay, Consent(c, stale) PROVE CodesInv'
  <2> DEFINE given == [policy |-> policy, purges |-> purges]
  <2>1. /\ c \notin DOMAIN consent /\ grants' \subseteq grants /\ UNCHANGED <<policy, origin, purges>>
        /\ DOMAIN consent' = DOMAIN consent \cup {c} /\ consent'[c] = given
        /\ \A d \in DOMAIN consent : consent'[d] = consent[d]
    BY <1>1 DEF Consent, KeepGrants
  <2>2. PICK new : new.code = c /\ new.policy = policy /\ codes' \subseteq codes \cup {new}
    BY <1>1 DEF Consent
  <2>3. \A g \in Grants : origin[g] # c
    BY <2>1, GrantAssumption DEF CodesInv
  <2> HIDE DEF given
  <2>4. \A r \in codes' : r.code \in DOMAIN consent' /\ \A g \in Grants : origin'[g] # r.code
    BY <2>1, <2>2, <2>3 DEF CodesInv
  <2>5. \A r \in codes' : consent'[r.code] = [policy |-> r.policy, purges |-> purges']
    BY <2>1, <2>2 DEF CodesInv, given
  <2>6. \A g \in grants' : /\ g.id \in Grants /\ origin'[g.id] # NoCode
                           /\ consent'[origin'[g.id]] = [policy |-> g.policy, purges |-> purges']
    BY <2>1 DEF CodesInv
  <2> QED
    BY <2>1, <2>4, <2>5, <2>6 DEF CodesInv
<1>2. ASSUME NEW c \in Codes, NEW g \in Grants, NEW stale \in 0..MaxDelay, Exchange(c, g, stale)
      PROVE CodesInv'
  <2>1. PICK row \in codes : row.code = c /\ row.policy = policy
    BY <1>2 DEF Exchange, OfPolicy
  <2>2. PICK new : new.id = g /\ new.policy = policy /\ grants' = grants \cup {new}
    BY <1>2 DEF Exchange
  <2>3. /\ UNCHANGED <<policy, consent, purges>> /\ origin[g] = NoCode
        /\ codes' \subseteq codes /\ \A r \in codes' : r.code # c
    BY <1>2 DEF Exchange, WithoutCode
  <2>4. \A h \in Grants : origin'[h] = IF h = g THEN c ELSE origin[h]
    BY <1>2 DEF Exchange, RowsInv
  <2>5. /\ c \in DOMAIN consent /\ consent[c] = [policy |-> policy, purges |-> purges]
        /\ \A h \in Grants : origin[h] # c
    BY <2>1 DEF CodesInv
  <2>6. \A r \in codes' : /\ r.code \in DOMAIN consent' /\ \A h \in Grants : origin'[h] # r.code
                         /\ consent'[r.code] = [policy |-> r.policy, purges |-> purges']
    BY <2>3, <2>4 DEF CodesInv
  <2>7. \A h \in Grants : origin'[h] # NoCode => origin'[h] \in DOMAIN consent'
    BY <2>3, <2>4, <2>5 DEF CodesInv
  <2>8. \A h, k \in Grants : origin'[h] = origin'[k] /\ origin'[h] # NoCode => h = k
    BY <2>4, <2>5 DEF CodesInv
  <2>9. \A h \in grants' : /\ h.id \in Grants /\ origin'[h.id] # NoCode
                           /\ consent'[origin'[h.id]] = [policy |-> h.policy, purges |-> purges']
    BY <2>2, <2>3, <2>4, <2>5, GrantAssumption DEF CodesInv
  <2> QED
    BY <2>6, <2>7, <2>8, <2>9 DEF CodesInv
<1>3. ASSUME NEW t \in Pairs, NEW stale \in 0..MaxDelay, Rotate(t, stale) PROVE CodesInv'
  <2>1. PICK g \in grants : grants' = (grants \ {g}) \cup {Renewed(g, clock - stale)}
    BY <1>3 DEF Rotate
  <2> g \in GrantRows
    BY DEF RowsInv
  <2>2. PICK new : new.id = g.id /\ new.policy = g.policy /\ grants' = (grants \ {g}) \cup {new}
    BY <2>1 DEF Renewed, GrantRows
  <2>3. UNCHANGED <<codes, consent, origin, purges>>
    BY <1>3 DEF Rotate
  <2> QED
    BY <2>2, <2>3 DEF CodesInv
<1>4. ASSUME codes' = {}, grants' = {}, UNCHANGED <<origin, consent>> PROVE CodesInv'
  BY <1>4 DEF CodesInv
<1>5. ASSUME grants' \subseteq grants, UNCHANGED <<codes, origin, consent, purges>> PROVE CodesInv'
  BY <1>5 DEF CodesInv
<1>6. ASSUME RevokeAll PROVE CodesInv'
  BY <1>4, <1>6 DEF RevokeAll, CodesAfterPurge, KeepGrants
<1>7. ASSUME NEW t \in Pairs, Reuse(t) \/ \E refresh \in BOOLEAN : RevokeToken(t, refresh) PROVE CodesInv'
  BY <1>5, <1>7 DEF Reuse, RevokeToken, KeepGrants
<1> QED
  BY <1>1, <1>2, <1>3, <1>5, <1>6, <1>7 DEF Next, NewPolicy, Tick, vars

(* Nothing was agreed to at the start.                                     *)
LEMMA CodesInit == Init => CodesInv
  BY DEF Init, CodesInv

(* So does what codes and grants owe to consent.                           *)
THEOREM CodesTracked == Spec => []CodesInv
  BY TokensTracked, CodesInit, CodesStep, PTL DEF Spec

(* A code becomes one grant, however often it is presented.                *)
THEOREM CodeCorrect == Spec => []CodeUsedOnce
<1>1. CodesInv => CodeUsedOnce
  BY DEF CodesInv, CodeUsedOnce
<1> QED
  BY <1>1, CodesTracked, PTL

(* A grant is what the administrator agreed to, and nothing agreed to      *)
(* before a revocation of everything survives it.                          *)
THEOREM ConsentCorrect == Spec => []GrantFollowsConsent
<1>1. CodesInv => GrantFollowsConsent
  BY DEF CodesInv, GrantFollowsConsent
<1> QED
  BY <1>1, CodesTracked, PTL

-----------------------------------------------------------------------------
(* The deadlines of a grant count from the issue of its current pair and   *)
(* from the issue of its first.                                            *)
DeadlinesInv ==
    /\ \A t \in Pairs : issued[t].at <= clock
    /\ \A g \in grants : g.access <= issued[g.pair].at + AccessLife
    /\ \A g \in grants, t \in Pairs : issued[t].grant = g.id => g.expires <= issued[t].at + GrantLife

(* A request that takes its time writes deadlines that are early, never    *)
(* late, and a refresh leaves the end of the grant where it is.            *)
LEMMA DeadlinesStep == RowsInv /\ PairsInv /\ DeadlinesInv /\ [Next]_vars => DeadlinesInv'
<1> SUFFICES ASSUME RowsInv, PairsInv, DeadlinesInv, [Next]_vars PROVE DeadlinesInv'
  OBVIOUS
<1> USE Lifetimes DEF tables, history
<1>1. clock \in Int /\ \A t \in Pairs : issued[t].at \in Int
  BY Tokens DEF RowsInv
<1>2. \A g \in grants : /\ g.access \in Int /\ g.expires \in Int /\ g.id \in Grants
                        /\ g.pair \in Pairs /\ issued[g.pair].grant = g.id
  BY DEF RowsInv, PairsInv, GrantRows, Times
<1>3. ASSUME NEW c \in Codes, NEW g \in Grants, NEW stale \in 0..MaxDelay, Exchange(c, g, stale)
      PROVE DeadlinesInv'
  <2> DEFINE last == Len(issued) + 1
             now  == clock - stale
             new  == [id |-> g, pair |-> last, policy |-> policy,
                      access |-> now + AccessLife, expires |-> now + GrantLife]
  <2>1. Issue(g) /\ origin[g] = NoCode /\ clock' = clock /\ grants' = grants \cup {new}
    BY <1>3 DEF Exchange
  <2>2. /\ new.id = g /\ new.pair = last
        /\ new.access = now + AccessLife /\ new.expires = now + GrantLife
    OBVIOUS
  <2> HIDE DEF new
  <2>3. /\ last \notin Pairs /\ Pairs' = Pairs \cup {last} /\ \A s \in Pairs : issued'[s] = issued[s]
        /\ issued'[last].grant = g /\ issued'[last].at = clock
    BY <2>1, Issuing
  <2>4. \A s \in Pairs : issued[s].grant # g
    BY <2>1 DEF PairsInv
  <2>5. new.access <= clock + AccessLife /\ new.expires <= clock + GrantLife
    BY <1>1, <2>2
  <2> HIDE DEF last, now
  <2>6. \A s \in Pairs' : issued'[s].at <= clock'
    BY <1>1, <2>1, <2>3 DEF DeadlinesInv
  <2>7. \A h \in grants' : h.access <= issued'[h.pair].at + AccessLife
    BY <1>2, <2>1, <2>2, <2>3, <2>5 DEF DeadlinesInv
  <2>8. \A h \in grants', s \in Pairs' : issued'[s].grant = h.id => h.expires <= issued'[s].at + GrantLife
    BY <1>2, <2>1, <2>2, <2>3, <2>4, <2>5 DEF DeadlinesInv
  <2> QED
    BY <2>6, <2>7, <2>8 DEF DeadlinesInv
<1>4. ASSUME NEW t \in Pairs, NEW stale \in 0..MaxDelay, Rotate(t, stale) PROVE DeadlinesInv'
  <2> DEFINE last == Len(issued) + 1
             now  == clock - stale
  <2>1. PICK g \in grants : Issue(g.id) /\ grants' = (grants \ {g}) \cup {Renewed(g, now)}
    BY <1>4 DEF Rotate
  <2> g \in GrantRows
    BY DEF RowsInv
  <2> DEFINE new == Renewed(g, now)
  <2>2. /\ new.id = g.id /\ new.pair = last /\ grants' = (grants \ {g}) \cup {new}
        /\ new.access = now + AccessLife /\ new.expires = g.expires
    BY <2>1 DEF Renewed, GrantRows
  <2> HIDE DEF new
  <2>3. /\ last \notin Pairs /\ Pairs' = Pairs \cup {last} /\ \A s \in Pairs : issued'[s] = issued[s]
        /\ issued'[last].grant = g.id /\ issued'[last].at = clock
    BY <1>2, <2>1, Issuing
  <2>4. clock' = clock
    BY <1>4 DEF Rotate
  <2>5. new.access <= clock + AccessLife
    BY <1>1, <2>2
  <2>6. g.expires <= clock + GrantLife
    <3>1. g.expires <= issued[g.pair].at + GrantLife /\ issued[g.pair].at <= clock
      BY <1>2 DEF DeadlinesInv
    <3> QED
      BY <1>1, <1>2, <3>1
  <2> HIDE DEF last, now
  <2>7. \A s \in Pairs' : issued'[s].at <= clock'
    BY <1>1, <2>3, <2>4 DEF DeadlinesInv
  <2>8. \A h \in grants' : h.access <= issued'[h.pair].at + AccessLife
    BY <1>2, <2>2, <2>3, <2>5 DEF DeadlinesInv
  <2>9. \A h \in grants', s \in Pairs' : issued'[s].grant = h.id => h.expires <= issued'[s].at + GrantLife
    <3> SUFFICES ASSUME NEW h \in grants', NEW s \in Pairs', issued'[s].grant = h.id
                 PROVE  h.expires <= issued'[s].at + GrantLife
      OBVIOUS
    <3>1. CASE s = last
      BY <2>2, <2>3, <2>6, <3>1, <1>2 DEF PairsInv
    <3>2. CASE s \in Pairs
      BY <2>2, <2>3, <3>2 DEF DeadlinesInv
    <3> QED
      BY <2>3, <3>1, <3>2
  <2> QED
    BY <2>7, <2>8, <2>9 DEF DeadlinesInv
<1>5. ASSUME grants' \subseteq grants, UNCHANGED issued, clock' \in Int, clock <= clock' PROVE DeadlinesInv'
  <2>1. Pairs' = Pairs
    BY <1>5 DEF Pairs
  <2> QED
    BY <1>1, <1>5, <2>1 DEF DeadlinesInv
<1>6. ASSUME NEW c \in Codes, NEW stale \in 0..MaxDelay, Consent(c, stale) PROVE DeadlinesInv'
  BY <1>1, <1>5, <1>6 DEF Consent, KeepGrants
<1>7. ASSUME NEW t \in Pairs, Reuse(t) \/ \E refresh \in BOOLEAN : RevokeToken(t, refresh) PROVE DeadlinesInv'
  <2>1. grants' \subseteq grants /\ UNCHANGED <<issued, clock>>
    BY <1>7 DEF Reuse, RevokeToken, KeepGrants
  <2> QED
    BY <1>1, <1>5, <2>1
<1>8. ASSUME RevokeAll \/ (\E p \in Policies : NewPolicy(p)) \/ Tick \/ UNCHANGED vars PROVE DeadlinesInv'
  BY <1>1, <1>5, <1>8 DEF RevokeAll, NewPolicy, Tick, KeepGrants, vars
<1> QED
  BY <1>3, <1>4, <1>6, <1>7, <1>8 DEF Next

(* An access token stops working after an hour and a grant after thirty    *)
(* days from its first token, however often it is refreshed.               *)
THEOREM DeadlinesCorrect == Spec => []AccessEnds
<1>1. Init => DeadlinesInv
  BY DEF Init, DeadlinesInv, Pairs
<1>2. RowsInv /\ PairsInv /\ DeadlinesInv => AccessEnds
  <2> SUFFICES ASSUME RowsInv, PairsInv, DeadlinesInv, NEW g \in grants, Works(g)
               PROVE  /\ clock < issued[g.pair].at + AccessLife
                      /\ \A t \in Pairs : issued[t].grant = g.id => clock < issued[t].at + GrantLife
    BY DEF AccessEnds
  <2>1. /\ clock \in Int /\ g.access \in Int /\ g.expires \in Int
        /\ g.pair \in Pairs /\ \A t \in Pairs : issued[t].at \in Int
    BY Lifetimes, Tokens DEF RowsInv, PairsInv, GrantRows, Times
  <2> QED
    BY <2>1, Lifetimes DEF Works, DeadlinesInv
<1> QED
  BY <1>1, <1>2, TokensTracked, DeadlinesStep, PTL DEF Spec
=============================================================================
