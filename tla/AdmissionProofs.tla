---------------------------- MODULE AdmissionProofs ----------------------------
(***************************************************************************)
(* Proofs about Admission, for any tolerances, windows, limits and numbers *)
(* of handlers and requests that the assumption allows.                    *)
(***************************************************************************)
EXTENDS Admission, TLAPS

(* What the assumption says of the numbers.                                *)
LEMMA Numbers ==
    /\ Tolerance \in Nat /\ Retention \in Nat /\ MaxSkew \in Nat /\ MaxDelay \in Nat
    /\ MaxTime \in Nat /\ Limit \in Nat /\ Minute \in Nat /\ Minute > 0
    /\ Tolerance + MaxSkew + MaxDelay <= Retention /\ MaxDelay <= 2 * Minute
  BY AdmissionAssumption

(* What a handler has in hand: readings no later than the clock, and the   *)
(* nonce of a request that was inside the timestamp window when it started.*)
HandlersInv ==
    /\ \A n \in signed : stamp[n] <= clock + MaxSkew
    /\ \A h \in Handlers : now[h] <= clock
    /\ \A h \in Handlers : pc[h] # "idle" => since[h] <= clock /\ clock - since[h] <= MaxDelay
    /\ \A h \in Handlers : pc[h] \in {"record", "count"} => since[h] <= now[h]
    /\ \A h \in Handlers : pc[h] \in {"verified", "record"} =>
            /\ nonce[h] \in signed
            /\ stamp[nonce[h]] - MaxSkew <= since[h]
            /\ since[h] <= stamp[nonce[h]] + Tolerance

AdmissionInv == TypeOK /\ HandlersInv

(* At the start nobody holds anything.                                     *)
LEMMA AdmissionInit == Init => AdmissionInv
  BY Numbers DEF Init, AdmissionInv, TypeOK, HandlersInv

(* Whatever CountRequest counts, it counts in both tables.                 *)
LEMMA CountTyped ==
    ASSUME TypeOK, NEW k \in Keys, NEW t, CountRequest(k, t)
    PROVE  /\ count' \in [Keys -> [Buckets -> Nat]] /\ passed' \in [Keys -> [Buckets -> Nat]]
           /\ \A j \in Keys, b \in Buckets : count'[j][b] <= passed'[j][b]
<1>1. \A j \in Keys, b \in Buckets : count[j][b] \in Nat /\ passed[j][b] \in Nat /\ count[j][b] <= passed[j][b]
  BY DEF TypeOK
<1> QED
  BY <1>1 DEF CountRequest

(* Every step keeps the types and what handlers have in hand.              *)
LEMMA AdmissionStep == AdmissionInv /\ [Next]_vars => AdmissionInv'
<1> SUFFICES ASSUME AdmissionInv, [Next]_vars PROVE AdmissionInv'
  OBVIOUS
<1> USE Numbers DEF AdmissionInv, TypeOK, HandlersInv, handlers, history
<1>1. ASSUME NEW n \in Nonces, NEW skew \in -MaxSkew..MaxSkew, Sign(n, skew) PROVE AdmissionInv'
  BY <1>1 DEF Sign
<1>2. ASSUME NEW h \in Handlers, NEW n \in Nonces, Verify(h, n) PROVE AdmissionInv'
  BY <1>2 DEF Verify, Start
<1>3. ASSUME NEW h \in Handlers, ReadClock(h) PROVE AdmissionInv'
  BY <1>3 DEF ReadClock
<1>4. ASSUME NEW h \in Handlers, Present(h) PROVE AdmissionInv'
  BY <1>4 DEF Present, Start
<1>5. ASSUME NEW h \in Handlers, Record(h) PROVE AdmissionInv'
  <2>1. HandlersInv' /\ clock' = clock /\ signed' = signed /\ stamp' = stamp
    BY <1>5 DEF Record, Return
  <2>2. CASE UNCHANGED <<stored, expires, count, history>>
    BY <1>5, <2>1, <2>2 DEF Record, Return
  <2>3. CASE CountRequest("hmac", now[h])
                /\ stored' = {m \in stored : expires[m] >= now[h]} \cup {nonce[h]}
                /\ expires' = [m \in Nonces |->
                      IF m = nonce[h] THEN RememberedUntil(now[h])
                      ELSE IF m \in {p \in stored : expires[p] >= now[h]} THEN expires[m] ELSE 0]
                /\ verdicts' = [verdicts EXCEPT ![nonce[h]] = @ + 1]
    <3>1. count' \in [Keys -> [Buckets -> Nat]] /\ passed' \in [Keys -> [Buckets -> Nat]]
             /\ \A j \in Keys, b \in Buckets : count'[j][b] <= passed'[j][b]
      BY <2>3, CountTyped DEF Keys
    <3>2. stored' \subseteq signed' /\ expires' \in [Nonces -> Nat] /\ verdicts' \in [Nonces -> Nat]
      BY <1>5, <2>1, <2>3 DEF Record, RememberedUntil
    <3> QED
      BY <1>5, <2>1, <3>1, <3>2 DEF Record, Return
  <2> QED
    BY <1>5, <2>2, <2>3 DEF Record
<1>6. ASSUME NEW h \in Handlers, Count(h) PROVE AdmissionInv'
  <2>1. count' \in [Keys -> [Buckets -> Nat]] /\ passed' \in [Keys -> [Buckets -> Nat]]
           /\ \A j \in Keys, b \in Buckets : count'[j][b] <= passed'[j][b]
    BY <1>6, CountTyped DEF Count, Keys
  <2> QED
    BY <1>6, <2>1 DEF Count, Return
<1>7. ASSUME NEW h \in Handlers, Refuse(h) PROVE AdmissionInv'
  BY <1>7 DEF Refuse, Return
<1>8. ASSUME Tick PROVE AdmissionInv'
  BY <1>8 DEF Tick
<1>9. ASSUME UNCHANGED vars PROVE AdmissionInv'
  BY <1>9 DEF vars
<1> QED
  BY <1>1, <1>2, <1>3, <1>4, <1>5, <1>6, <1>7, <1>8, <1>9 DEF Next

(* The types of Admission hold in every state.                             *)
THEOREM AdmissionTypeCorrect == Spec => []TypeOK
<1>1. AdmissionInv => TypeOK
  BY DEF AdmissionInv
<1> QED
  BY <1>1, AdmissionInit, AdmissionStep, PTL DEF Spec

-----------------------------------------------------------------------------
(* A stored nonce is kept until its request is out of the window for every *)
(* handler; one that is not stored any more belongs to such a request.     *)
NonceInv ==
    /\ \A n \in stored : expires[n] >= stamp[n] + Tolerance + MaxDelay
    /\ \A n \in Nonces : verdicts[n] \in {0, 1}
    /\ \A n \in Nonces : verdicts[n] = 1 /\ n \notin stored =>
            n \in signed /\ clock > stamp[n] + Tolerance + MaxDelay

(* Nothing was decided at the start.                                       *)
LEMMA NonceInit == Init => NonceInv
  BY DEF Init, NonceInv

(* No step decides on a request a second time.                             *)
LEMMA NonceStep == AdmissionInv /\ NonceInv /\ [Next]_vars => NonceInv'
<1> SUFFICES ASSUME AdmissionInv, NonceInv, [Next]_vars PROVE NonceInv'
  OBVIOUS
<1> USE Numbers DEF AdmissionInv, TypeOK, HandlersInv, NonceInv, handlers, history
<1>1. ASSUME NEW n \in Nonces, NEW skew \in -MaxSkew..MaxSkew, Sign(n, skew) PROVE NonceInv'
  BY <1>1 DEF Sign
<1>2. ASSUME NEW h \in Handlers, Record(h) PROVE NonceInv'
  <2> DEFINE n == nonce[h]
             live == {m \in stored : expires[m] >= now[h]}
  <2>1. n \in signed /\ n \in Nonces /\ clock <= stamp[n] + Tolerance + MaxDelay
           /\ stamp[n] - MaxSkew <= now[h] /\ now[h] <= clock
           /\ now[h] \in Nat /\ stamp[n] \in Int /\ clock \in Nat
    BY <1>2 DEF Record
  <2>2. clock' = clock /\ signed' = signed /\ stamp' = stamp
    BY <1>2 DEF Record
  <2>3. CASE n \in live
    BY <1>2, <2>2, <2>3 DEF Record
  <2>4. CASE n \notin live
    <3>1. stored' = live \cup {n} /\ verdicts' = [verdicts EXCEPT ![n] = @ + 1]
             /\ expires' = [m \in Nonces |-> IF m = n THEN now[h] + Retention
                                             ELSE IF m \in live THEN expires[m] ELSE 0]
      BY <1>2, <2>4 DEF Record, RememberedUntil
    <3>2. verdicts[n] = 0
      <4>1. expires[n] \in Nat /\ (verdicts[n] = 0 \/ verdicts[n] = 1)
        BY <2>1
      <4>2. ASSUME n \in stored PROVE FALSE
        <5>1. expires[n] >= stamp[n] + Tolerance + MaxDelay
          BY <4>2
        <5>2. expires[n] < now[h]
          BY <2>1, <2>4, <4>1, <4>2
        <5> QED
          BY <2>1, <4>1, <5>1, <5>2
      <4>3. ASSUME verdicts[n] = 1 PROVE FALSE
        <5>1. clock > stamp[n] + Tolerance + MaxDelay
          BY <2>1, <4>2, <4>3
        <5> QED
          BY <2>1, <5>1
      <4> QED
        BY <4>1, <4>3
    <3>3. \A m \in stored' : expires'[m] >= stamp'[m] + Tolerance + MaxDelay
      BY <2>1, <2>2, <3>1
    <3>4. \A m \in Nonces : verdicts'[m] \in {0, 1}
      BY <2>1, <3>1, <3>2
    <3>5. \A m \in Nonces : verdicts'[m] = 1 /\ m \notin stored' =>
             m \in signed' /\ clock' > stamp'[m] + Tolerance + MaxDelay
      BY <2>1, <2>2, <3>1
    <3> QED
      BY <3>3, <3>4, <3>5
  <2> QED
    BY <2>3, <2>4
<1>3. ASSUME Tick PROVE NonceInv'
  BY <1>3 DEF Tick
<1>4. CASE UNCHANGED <<clock, signed, stamp, stored, expires, verdicts>>
  BY <1>4
<1> QED
  BY <1>1, <1>2, <1>3, <1>4 DEF Next, vars, Verify, ReadClock, Present, Count, Refuse

(* A signed request is let through, or told to slow down, at most once.    *)
THEOREM VerdictCorrect == Spec => []OneVerdict
<1>1. NonceInv => OneVerdict
  BY DEF NonceInv, OneVerdict
<1> QED
  BY <1>1, AdmissionInit, AdmissionStep, NonceInit, NonceStep, PTL DEF Spec

-----------------------------------------------------------------------------
(* A later time is in no earlier window, and within two minutes the window *)
(* is at most two further.                                                 *)
LEMMA Windows ==
    ASSUME NEW x \in Nat, NEW y \in Nat, x <= y
    PROVE  /\ Bucket(x) \in Nat /\ Bucket(y) \in Nat /\ Bucket(x) <= Bucket(y)
           /\ y - x <= 2 * Minute => Bucket(y) <= Bucket(x) + 2
<1> DEFINE p == Bucket(x)
           q == Bucket(y)
<1>1. p \in Nat /\ q \in Nat
  BY Numbers DEF Bucket
<1>2. Minute * p <= x /\ x < Minute * p + Minute /\ Minute * q <= y /\ y < Minute * q + Minute
  BY Numbers DEF Bucket
<1> QED
  BY Numbers, <1>1, <1>2

(* A window counts all it let through until no handler can have a reading  *)
(* inside it any more.                                                     *)
RateInv == \A k \in Keys, b \in Buckets :
    /\ passed[k][b] <= Limit
    /\ count[k][b] = passed[k][b] \/ Bucket(clock) > b + 2

(* Nothing was let through at the start.                                   *)
LEMMA RateInit == Init => RateInv
  BY Numbers DEF Init, RateInv

(* A handler on its way counts in a window that is still complete.         *)
LEMMA CountStep ==
    ASSUME AdmissionInv, RateInv, NEW k \in Keys, NEW h \in Handlers,
           pc[h] \in {"record", "count"}, CountRequest(k, now[h]), clock' = clock
    PROVE  RateInv'
<1> DEFINE t == now[h]
<1>1. t \in Nat /\ clock \in Nat /\ t <= clock /\ clock - t <= 2 * Minute
  BY Numbers DEF AdmissionInv, TypeOK, HandlersInv
<1>2. Bucket(t) \in Nat /\ Bucket(clock) \in Nat /\ Bucket(t) <= Bucket(clock) /\ Bucket(clock) <= Bucket(t) + 2
  BY <1>1, Windows
<1> SUFFICES ASSUME NEW j \in Keys, NEW b \in Buckets
             PROVE  /\ passed'[j][b] <= Limit
                    /\ count'[j][b] = passed'[j][b] \/ Bucket(clock) > b + 2
  BY DEF RateInv
<1>3. b \in Int /\ count[j][b] \in Nat /\ passed[j][b] \in Nat /\ passed[j][b] <= Limit
         /\ (count[j][b] = passed[j][b] \/ Bucket(clock) > b + 2)
  <2>1. b \in Int
    BY DEF Buckets
  <2>2. count[j][b] \in Nat /\ passed[j][b] \in Nat
    BY DEF AdmissionInv, TypeOK
  <2> QED
    BY <2>1, <2>2 DEF RateInv
<1>4. CASE j = k /\ b = Bucket(t) /\ ~Exceeded(k, t)
  <2>1. count[j][b] = passed[j][b] /\ count[j][b] < Limit
    BY Numbers, <1>2, <1>3, <1>4 DEF Exceeded
  <2>2. count'[j][b] = count[j][b] + 1 /\ passed'[j][b] = passed[j][b] + 1
    BY <1>2, <1>4 DEF CountRequest, Recent
  <2> QED
    BY Numbers, <1>3, <2>1, <2>2
<1>5. CASE ~(j = k /\ b = Bucket(t) /\ ~Exceeded(k, t))
  <2>1. passed'[j][b] = passed[j][b]
    BY <1>5 DEF CountRequest
  <2>2. count'[j][b] = IF Recent(b, t) THEN count[j][b] ELSE 0
    BY <1>5 DEF CountRequest
  <2> QED
    BY <1>2, <1>3, <2>1, <2>2 DEF Recent
<1> QED
  BY <1>4, <1>5

(* No step lets more than the limit through in a window.                   *)
LEMMA RateStep == AdmissionInv /\ RateInv /\ [Next]_vars => RateInv'
<1> SUFFICES ASSUME AdmissionInv, RateInv, [Next]_vars PROVE RateInv'
  OBVIOUS
<1>1. ASSUME NEW h \in Handlers, Record(h) PROVE RateInv'
  <2>1. CASE UNCHANGED <<clock, count, passed>>
    BY <2>1 DEF RateInv
  <2>2. CASE CountRequest("hmac", now[h])
    BY <1>1, <2>2, CountStep DEF Record, Keys
  <2> QED
    BY <1>1, <2>1, <2>2 DEF Record, history
<1>2. ASSUME NEW h \in Handlers, Count(h) PROVE RateInv'
  BY <1>2, CountStep DEF Count, Keys
<1>3. ASSUME Tick PROVE RateInv'
  <2>1. clock \in Nat /\ clock' = clock + 1 /\ count' = count /\ passed' = passed
    BY <1>3 DEF Tick, AdmissionInv, TypeOK, history
  <2>2. Bucket(clock) \in Nat /\ Bucket(clock') \in Nat /\ Bucket(clock) <= Bucket(clock')
    BY <2>1, Windows
  <2>3. \A b \in Buckets : b \in Int
    BY DEF Buckets
  <2> QED
    BY <2>1, <2>2, <2>3 DEF RateInv
<1>4. CASE UNCHANGED <<clock, count, passed>>
  BY <1>4 DEF RateInv
<1> QED
  BY <1>1, <1>2, <1>3, <1>4
     DEF Next, vars, history, Sign, Verify, ReadClock, Present, Refuse

(* At most the limit is let through in a window, however late a handler    *)
(* gets to count its request.                                              *)
THEOREM LimitCorrect == Spec => []WithinLimit
<1>1. RateInv => WithinLimit
  BY DEF RateInv, WithinLimit
<1> QED
  BY <1>1, AdmissionInit, AdmissionStep, RateInit, RateStep, PTL DEF Spec
=============================================================================
