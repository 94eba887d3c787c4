------------------------------ MODULE Admission ------------------------------
(***************************************************************************)
(* How a request gets past the door: the timestamp window of the HMAC      *)
(* headers, the nonce table and the per-minute counters.  A handler reads  *)
(* the clock up to twice, first for the window and then for the nonce and  *)
(* the counter, and gets to the database some time after that; another     *)
(* handler may have been there with a later reading.                       *)
(*                                                                         *)
(* The module follows one HMAC client and one lightweight token.  A signed *)
(* request is known by its nonce; it may arrive late and any number of     *)
(* times.                                                                  *)
(***************************************************************************)
EXTENDS Integers

CONSTANTS
    Handlers,   \* request handlers that may run at the same time
    Nonces,     \* nonces the client draws, one for each request it signs
    NoNonce,    \* the handler serves no signed request
    Tolerance,  \* TimestampTolerance, in ticks
    Retention,  \* NonceRetention, in ticks
    Minute,     \* length of a rate window, in ticks
    Limit,      \* requests per window
    MaxSkew,    \* how far the client's clock may be from the server's
    MaxDelay,   \* how long a handler may be on its way to the database
    MaxTime     \* bound: the last tick of the clock

(* Tolerance and Retention are 5 and 10 minutes: a request is remembered   *)
(* for long enough if the client's clock is ahead by less than the 5       *)
(* minutes between them, less what a handler takes.  A handler that takes  *)
(* more than two minutes could find its window's counter deleted.          *)
ASSUME AdmissionAssumption ==
    /\ NoNonce \notin Nonces
    /\ Tolerance \in Nat /\ Retention \in Nat /\ Minute \in Nat \ {0} /\ Limit \in Nat
    /\ MaxSkew \in Nat /\ MaxDelay \in Nat /\ MaxTime \in Nat
    /\ Tolerance + MaxSkew + MaxDelay <= Retention
    /\ MaxDelay <= 2 * Minute

VARIABLES
    clock,    \* the server's clock
    signed,   \* nonces of the requests the client has signed
    stamp,    \* the timestamp signed with each
    stored,   \* nonces in the nonces table
    expires,  \* their expires_at
    count,    \* request_count of each rate_windows row, 0 where there is none
    pc,       \* where each handler is
    nonce,    \* the nonce of its request
    since,    \* when it started, by its first clock reading
    now,      \* the `now` it goes to the database with
    verdicts, \* history: how often a request was let through or told to slow down
    passed    \* history: requests let through, by window

handlers == <<pc, nonce, since, now>>
history  == <<verdicts, passed>>
vars     == <<clock, signed, stamp, stored, expires, count, handlers, history>>

Keys      == {"hmac", "bearer"}
Bucket(t) == t \div Minute
Buckets   == 0..Bucket(MaxTime)

Init ==
    /\ clock = 0 /\ signed = {} /\ stamp = [n \in Nonces |-> 0]
    /\ stored = {} /\ expires = [n \in Nonces |-> 0]
    /\ count = [k \in Keys |-> [b \in Buckets |-> 0]]
    /\ pc = [h \in Handlers |-> "idle"] /\ nonce = [h \in Handlers |-> NoNonce]
    /\ since = [h \in Handlers |-> 0] /\ now = [h \in Handlers |-> 0]
    /\ verdicts = [n \in Nonces |-> 0]
    /\ passed = [k \in Keys |-> [b \in Buckets |-> 0]]

-----------------------------------------------------------------------------
Sign(n, skew) ==
    /\ n \notin signed
    /\ signed' = signed \cup {n}
    /\ stamp' = [stamp EXCEPT ![n] = clock + skew]
    /\ UNCHANGED <<clock, stored, expires, count, handlers, history>>

Start(h, at) ==
    /\ pc[h] = "idle"
    /\ pc' = [pc EXCEPT ![h] = at]
    /\ since' = [since EXCEPT ![h] = clock]

(* Verifier.Verify: a first reading of the clock, for the window.          *)
Verify(h, n) ==
    /\ n \in signed
    /\ clock - stamp[n] \in -Tolerance..Tolerance
    /\ Start(h, "verified")
    /\ nonce' = [nonce EXCEPT ![h] = n]
    /\ UNCHANGED <<clock, signed, stamp, stored, expires, count, now, history>>

(* acceptEvent reads the clock again; validation and routing follow.       *)
ReadClock(h) ==
    /\ pc[h] = "verified"
    /\ pc' = [pc EXCEPT ![h] = "record"]
    /\ now' = [now EXCEPT ![h] = clock]
    /\ UNCHANGED <<clock, signed, stamp, stored, expires, count, nonce, since, history>>

(* A lightweight request: its token is valid, and the clock is read once.  *)
Present(h) ==
    /\ Start(h, "count")
    /\ now' = [now EXCEPT ![h] = clock]
    /\ UNCHANGED <<clock, signed, stamp, stored, expires, count, nonce, history>>

Return(h) ==
    /\ pc' = [pc EXCEPT ![h] = "idle"]
    /\ nonce' = [nonce EXCEPT ![h] = NoNonce]
    /\ since' = [since EXCEPT ![h] = 0]
    /\ now' = [now EXCEPT ![h] = 0]

-----------------------------------------------------------------------------
\* Mutant: only the window of this very minute is kept.
ThisMinuteOnly(b, t) == b >= Bucket(t)

(* Windows that survive a count at time t, whatever key they are for.      *)
Recent(b, t) == b >= Bucket(t) - 2

Exceeded(k, t) == count[k][Bucket(t)] >= Limit

\* Mutant: refused requests are counted too.
CountsRefused(k, t) ==
    /\ count' = [count EXCEPT ![k][Bucket(t)] = @ + 1]
    /\ passed' = [passed EXCEPT ![k][Bucket(t)] = IF Exceeded(k, t) THEN @ ELSE @ + 1]

(* recordRateWindow.                                                       *)
CountRequest(k, t) ==
    LET here(j, b) == j = k /\ b = Bucket(t) /\ ~Exceeded(k, t)
    IN  /\ count' = [j \in Keys |-> [b \in Buckets |->
                        IF ~Recent(b, t) THEN 0 ELSE IF here(j, b) THEN count[j][b] + 1 ELSE count[j][b]]]
        /\ passed' = [j \in Keys |-> [b \in Buckets |->
                        IF here(j, b) THEN passed[j][b] + 1 ELSE passed[j][b]]]

\* Mutant: a nonce is kept for as long as timestamps are tolerated.
ForTolerance(t) == t + Tolerance

RememberedUntil(t) == t + Retention

(* RecordRequest: old nonces leave, this one is inserted and the request   *)
(* counted in one transaction.  A repeated nonce rolls it all back; a      *)
(* client over its limit keeps the nonce.                                  *)
Record(h) ==
    LET n == nonce[h]
        live == {m \in stored : expires[m] >= now[h]}
    IN  /\ pc[h] = "record"
        /\ IF n \in live
           THEN UNCHANGED <<stored, expires, count, history>>
           ELSE /\ stored' = live \cup {n}
                /\ expires' = [m \in Nonces |-> IF m = n THEN RememberedUntil(now[h])
                                                ELSE IF m \in live THEN expires[m] ELSE 0]
                /\ CountRequest("hmac", now[h])
                /\ verdicts' = [verdicts EXCEPT ![n] = @ + 1]
        /\ Return(h)
        /\ UNCHANGED <<clock, signed, stamp>>

(* RecordRateLimit, for the lightweight token.                             *)
Count(h) ==
    /\ pc[h] = "count"
    /\ CountRequest("bearer", now[h])
    /\ Return(h)
    /\ UNCHANGED <<clock, signed, stamp, stored, expires, verdicts>>

(* A check fails, the client goes away, or the transaction fails.          *)
Refuse(h) ==
    /\ pc[h] # "idle"
    /\ Return(h)
    /\ UNCHANGED <<clock, signed, stamp, stored, expires, count, history>>

Tick ==
    /\ clock < MaxTime
    /\ \A h \in Handlers : pc[h] # "idle" => clock - since[h] < MaxDelay
    /\ clock' = clock + 1
    /\ UNCHANGED <<signed, stamp, stored, expires, count, handlers, history>>

Next ==
    \/ \E n \in Nonces, skew \in -MaxSkew..MaxSkew : Sign(n, skew)
    \/ \E h \in Handlers, n \in Nonces : Verify(h, n)
    \/ \E h \in Handlers : ReadClock(h) \/ Present(h) \/ Record(h) \/ Count(h) \/ Refuse(h)
    \/ Tick

Spec == Init /\ [][Next]_vars

-----------------------------------------------------------------------------
(* Types, and that a counter never counts more than was let through.       *)
TypeOK ==
    /\ clock \in 0..MaxTime
    /\ signed \subseteq Nonces /\ stamp \in [Nonces -> Int]
    /\ stored \subseteq signed /\ expires \in [Nonces -> Nat]
    /\ count \in [Keys -> [Buckets -> Nat]] /\ passed \in [Keys -> [Buckets -> Nat]]
    /\ \A k \in Keys, b \in Buckets : count[k][b] <= passed[k][b]
    /\ pc \in [Handlers -> {"idle", "verified", "record", "count"}]
    /\ nonce \in [Handlers -> Nonces \cup {NoNonce}]
    /\ since \in [Handlers -> 0..MaxTime] /\ now \in [Handlers -> 0..MaxTime]
    /\ verdicts \in [Nonces -> Nat]

(* A signed request is decided on once, let through or told to slow down,  *)
(* however often and late it arrives: its nonce leaves the table only when *)
(* no handler can hold or get a valid copy of it any more.                 *)
OneVerdict == \A n \in Nonces : verdicts[n] <= 1

(* No more than the limit in a window, also by handlers that come to the   *)
(* database after the minute, or after a later handler's cleanup.          *)
WithinLimit == \A k \in Keys, b \in Buckets : passed[k][b] <= Limit
=============================================================================
