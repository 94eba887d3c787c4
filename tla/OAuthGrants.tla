----------------------------- MODULE OAuthGrants -----------------------------
(***************************************************************************)
(* The authorizations an administrator gives to an MCP client: one-time    *)
(* codes, the grants they are exchanged for, the access and refresh tokens *)
(* of a grant, drawn in pairs, and the retired refresh tokens.             *)
(*                                                                         *)
(* The tables are sets of rows and every request is one transaction, at a  *)
(* `now` that is stale ticks old by then.  A request that is refused       *)
(* changes nothing and is no step.  Any token ever issued may be presented *)
(* at any time: answers get lost, and clients present what they have.      *)
(***************************************************************************)
EXTENDS Integers, Sequences

CONSTANTS
    Codes,      \* authorization codes
    Grants,     \* grant ids
    Policies,   \* digests of public address and routes
    NoCode,     \* the grant was not issued
    CodeLife,   \* 5 minutes, in ticks
    AccessLife, \* an hour
    GrantLife,  \* 30 days
    MaxDelay,   \* bound: how old a `now` is when its transaction runs
    MaxTime,    \* bound: the last tick of the clock
    MaxPairs    \* bound: pairs of tokens issued

ASSUME GrantAssumption ==
    /\ NoCode \notin Codes
    /\ CodeLife \in Nat \ {0} /\ AccessLife \in Nat \ {0} /\ GrantLife \in Nat \ {0}
    /\ MaxDelay \in Nat /\ MaxTime \in Nat /\ MaxPairs \in Nat

VARIABLES
    clock,
    policy,   \* the policy of the running process
    codes,    \* mcp_oauth_codes
    grants,   \* mcp_oauth_grants, with the number of its current token pair
    used,     \* mcp_oauth_used_refresh
    issued,   \* history: grant and time of every token pair, in order
    consent,  \* history: policy and revocations at the time of each consent
    origin,   \* history: the code each grant was issued for
    reused,   \* history: grants of which a retired refresh token came again
    purges    \* history: revocations of everything, up to now

tables  == <<codes, grants, used>>
history == <<issued, consent, origin, reused, purges>>
vars    == <<clock, policy, tables, history>>

Times     == -MaxDelay..(MaxTime + CodeLife + AccessLife + GrantLife)
CodeRows  == [code : Codes, policy : Policies, expires : Times]
GrantRows == [id : Grants, pair : 1..MaxPairs, policy : Policies, access : Times, expires : Times]
UsedRows  == [pair : 1..MaxPairs, grant : Grants]
Pairs     == 1..Len(issued)

Init ==
    /\ clock = 0 /\ policy \in Policies
    /\ codes = {} /\ grants = {} /\ used = {}
    /\ issued = <<>> /\ consent = [c \in {} |-> 0]
    /\ origin = [g \in Grants |-> NoCode] /\ reused = {} /\ purges = 0

\* Mutant: the foreign keys are off and retired tokens outlive their grant.
NoCascade(rows) == grants' = rows /\ UNCHANGED used

(* Deletes the other grants, and their retired tokens with them.           *)
KeepGrants(rows) ==
    /\ grants' = rows
    /\ used' = {u \in used : \E g \in rows : g.id = u.grant}

Issue(g) == /\ Len(issued) < MaxPairs
            /\ issued' = Append(issued, [grant |-> g, at |-> clock])

-----------------------------------------------------------------------------
(* The administrator allows access: a code, and room made for it.          *)
Consent(c, stale) ==
    LET now == clock - stale
    IN  /\ c \notin DOMAIN consent
        /\ codes' = {r \in codes : r.expires > now}
                        \cup {[code |-> c, policy |-> policy, expires |-> now + CodeLife]}
        /\ KeepGrants({g \in grants : g.expires > now})
        /\ consent' = [d \in DOMAIN consent \cup {c} |->
                          IF d = c THEN [policy |-> policy, purges |-> purges] ELSE consent[d]]
        /\ UNCHANGED <<clock, policy, issued, origin, reused, purges>>

\* Mutant: the code stays in the table.
KeepsCode(c) == codes

WithoutCode(c) == {r \in codes : r.code # c}

\* Mutant: the policy is not compared.
AnyPolicy(r) == TRUE

(* policy=? in the WHERE clauses.                                          *)
OfPolicy(r) == r.policy = policy

(* The code is consumed and the grant created in one transaction.          *)
Exchange(c, g, stale) ==
    LET now == clock - stale
    IN  /\ \E r \in codes : r.code = c /\ OfPolicy(r) /\ r.expires > now
        /\ origin[g] = NoCode
        /\ codes' = WithoutCode(c)
        /\ Issue(g)
        /\ grants' = grants \cup {[id |-> g, pair |-> Len(issued) + 1, policy |-> policy,
                                   access |-> now + AccessLife, expires |-> now + GrantLife]}
        /\ origin' = [origin EXCEPT ![g] = c]
        /\ UNCHANGED <<clock, policy, used, consent, reused, purges>>

Retired(t) == \E s \in Pairs : s > t /\ issued[s].grant = issued[t].grant

\* Mutant: the retired token is refused, and that is all.
OnlyRefused(t) == {}

(* The grants a presented refresh token gives away as reused.              *)
Betrayed(t) == {g \in grants : \E u \in used : u.pair = t /\ u.grant = g.id}

(* A retired refresh token takes its grant with it.                        *)
Reuse(t) ==
    /\ \E u \in used : u.pair = t
    /\ KeepGrants(grants \ Betrayed(t))
    /\ reused' = reused \cup {issued[t].grant}
    /\ UNCHANGED <<clock, policy, codes, issued, consent, origin, purges>>

\* Mutant: a refresh begins another thirty days.
Extended(g, now) ==
    [g EXCEPT !.pair = Len(issued) + 1, !.access = now + AccessLife, !.expires = now + GrantLife]

Renewed(g, now) == [g EXCEPT !.pair = Len(issued) + 1, !.access = now + AccessLife]

(* The current one is retired and a new pair issued.                       *)
Rotate(t, stale) ==
    LET now == clock - stale
    IN  /\ \A u \in used : u.pair # t
        /\ \E g \in grants :
              /\ g.pair = t /\ OfPolicy(g) /\ g.expires > now
              /\ Issue(g.id)
              /\ used' = used \cup {[pair |-> t, grant |-> g.id]}
              /\ grants' = (grants \ {g}) \cup {Renewed(g, now)}
        /\ UNCHANGED <<clock, policy, codes, consent, origin, reused, purges>>

(* /oauth/revoke takes the current access token, the current refresh token *)
(* or a retired one.                                                       *)
RevokeToken(t, refresh) ==
    LET theirs == {g \in grants : g.pair = t \/ (refresh /\ [pair |-> t, grant |-> g.id] \in used)}
    IN  /\ theirs # {}
        /\ KeepGrants(grants \ theirs)
        /\ UNCHANGED <<clock, policy, codes, history>>

\* Mutant: codes that are under way are forgotten.
SparesCodes == codes

CodesAfterPurge == {}

(* The administrator revokes everything.                                   *)
RevokeAll ==
    /\ codes \cup grants # {}
    /\ codes' = CodesAfterPurge
    /\ KeepGrants({})
    /\ purges' = purges + 1
    /\ UNCHANGED <<clock, policy, issued, consent, origin, reused>>

(* The process starts again with another address or other routes.          *)
NewPolicy(p) ==
    /\ p # policy
    /\ policy' = p
    /\ UNCHANGED <<clock, tables, history>>

Tick == clock < MaxTime /\ clock' = clock + 1 /\ UNCHANGED <<policy, tables, history>>

Next ==
    \/ \E c \in Codes, stale \in 0..MaxDelay :
          Consent(c, stale) \/ \E g \in Grants : Exchange(c, g, stale)
    \/ \E t \in Pairs, stale \in 0..MaxDelay : Rotate(t, stale)
    \/ \E t \in Pairs : Reuse(t) \/ \E refresh \in BOOLEAN : RevokeToken(t, refresh)
    \/ RevokeAll
    \/ \E p \in Policies : NewPolicy(p)
    \/ Tick

Spec == Init /\ [][Next]_vars

-----------------------------------------------------------------------------
(* OAuthAccess, with a clock that is read at once.                         *)
Works(g) == OfPolicy(g) /\ g.access > clock /\ g.expires > clock

(* Types; ids, codes and token pairs are keys of their tables, and the     *)
(* retired tokens belong to grants that are there.                         *)
TypeOK ==
    /\ clock \in 0..MaxTime /\ policy \in Policies
    /\ codes \subseteq CodeRows /\ grants \subseteq GrantRows /\ used \subseteq UsedRows
    /\ \A g, h \in grants : g.id = h.id \/ g.pair = h.pair => g = h
    /\ \A u \in used : \E g \in grants : g.id = u.grant /\ u.pair < g.pair
    /\ issued \in Seq([grant : Grants, at : 0..MaxTime]) /\ Len(issued) <= MaxPairs
    /\ origin \in [Grants -> Codes \cup {NoCode}] /\ reused \subseteq Grants /\ purges \in Nat

(* A code is exchanged for one grant, however often it is presented.       *)
CodeUsedOnce == \A g, h \in Grants : origin[g] = origin[h] /\ origin[g] # NoCode => g = h

(* Once a retired refresh token was presented its grant is gone for good,  *)
(* with every token of it (docs/mcp.md:31); and while a grant lives, every *)
(* refresh token it retired is known to be.                                *)
ReuseEndsGrant ==
    /\ \A g \in grants : g.id \notin reused
    /\ \A t \in Pairs, g \in grants :
          issued[t].grant = g.id /\ Retired(t) => [pair |-> t, grant |-> g.id] \in used

(* An access token works for an hour and a grant for thirty days, however  *)
(* often the token is refreshed, also when it is just before the end.      *)
AccessEnds ==
    \A g \in grants : Works(g) =>
        /\ clock < issued[g.pair].at + AccessLife
        /\ \A t \in Pairs : issued[t].grant = g.id => clock < issued[t].at + GrantLife

(* A grant gives the access the administrator consented to, and nothing    *)
(* consented to before everything was revoked works afterwards: neither a  *)
(* token nor a code that was under way.                                    *)
GrantFollowsConsent ==
    \A g \in grants : consent[origin[g.id]] = [policy |-> g.policy, purges |-> purges]
=============================================================================
