---------------------------- MODULE RateLimiterProofs ----------------------------
(***************************************************************************)
(* Theorems about RateLimiter, for any capacity, refill, time to live,     *)
(* delay and number of requests in flight, in whatever order their scripts *)
(* run.                                                                    *)
(***************************************************************************)
EXTENDS RateLimiter, TLAPS

-----------------------------------------------------------------------------
(* The inductive invariant                                                 *)

\* Keys that expire would have been refilled, delays included: 60 tokens at one
\* a second need 60 of the 120 seconds.
TtlOutlastsRefill == MaxDelay <= Ttl /\ Capacity <= Refill * (Ttl - MaxDelay)

\* Requests in flight have read the clock within the bound.
StampsInv ==
  \A r \in Request :
    InFlight(r) => request[r] <= clock /\ clock <= request[r] + MaxDelay

\* The second in which the last script ran, once one has.
LastRun == bucket.expires - Ttl

\* Before the first script nothing was allowed; the last one stored a time it
\* had read at most MaxDelay before.
Unused == bucket.expires = 0 /\ \A t \in Seconds : admitted[t] = 0 /\ setBack[t] = 0

KeysInv ==
  \/ Unused
  \/ LastRun \in 0 .. clock /\ bucket.ts <= LastRun /\ LastRun <= bucket.ts + MaxDelay

\* Nothing is counted after the last script, and the counts never fall.
CountsInv ==
  /\ \A t \in Seconds :
       t >= LastRun => admitted[t] = admitted[MaxTime] /\ setBack[t] = setBack[MaxTime]
  /\ \A s, t \in Seconds : s <= t => setBack[s] <= setBack[t]

\* The seconds whose refill a period from s to now may use, given setBack at its
\* beginning and at its end.
Span(s, now, from, to) == (now - s) + MaxDelay + (to - from)

\* Whatever the period since s has left of its tokens is in the bucket.
AccountInv ==
  ~Unused =>
    \A s \in 0 .. LastRun :
      admitted[MaxTime] - Before(admitted, s) + bucket.tokens
        <= Capacity + Refill * Span(s, bucket.ts, Before(setBack, s), setBack[MaxTime])

WindowInv ==
  \A s, t \in Seconds :
    s <= t => admitted[t] - Before(admitted, s) <= Capacity + Refill * Span(s, t, Before(setBack, s), setBack[t])

BucketInv == TypeOK /\ StampsInv /\ KeysInv /\ CountsInv /\ AccountInv /\ WindowInv

-----------------------------------------------------------------------------

\* The smaller of two integers.
LEMMA MinOfTwo ==
  ASSUME NEW a \in Int, NEW b \in Int
  PROVE  /\ Min({a, b}) \in {a, b} /\ Min({a, b}) <= a /\ Min({a, b}) <= b
  <1>1. \E x \in {a, b} : \A y \in {a, b} : x <= y
    OBVIOUS
  <1>2. QED
    BY <1>1 DEF Min

\* The refill of a period is that of its parts.
LEMMA RefillOfParts ==
  ASSUME NEW a \in Nat, NEW b \in Nat
  PROVE  /\ Refill * (a + b) = Refill * a + Refill * b
         /\ Refill * a \in Nat /\ Refill * b \in Nat /\ Refill * (a + b) \in Nat
  BY RateLimiterAssumption

\* A longer period is refilled with no less.
LEMMA RefillGrows ==
  ASSUME NEW a \in Nat, NEW b \in Nat, a <= b
  PROVE  Refill * a <= Refill * b /\ Refill * a \in Nat /\ Refill * b \in Nat
  BY RateLimiterAssumption

\* What the script finds in the bucket: no more than a full bucket, and, if the
\* keys are there, no more than what was stored last and the refill since, the
\* seconds it sets the bucket back not taken off.
LEMMA TokensFound ==
  ASSUME TypeOK, NEW now \in Seconds
  PROVE  /\ Tokens(now) \in 0 .. Capacity /\ Back(now) \in Nat
         /\ clock < bucket.expires =>
              /\ now - bucket.ts + Back(now) \in Nat
              /\ Tokens(now) <= bucket.tokens + Refill * (now - bucket.ts + Back(now))
         /\ ~(clock < bucket.expires) => Tokens(now) = Capacity /\ Back(now) = 0
  <1>1. /\ bucket.tokens \in 0 .. Capacity /\ bucket.ts \in Nat /\ now \in Nat
        /\ Capacity \in Nat /\ Refill \in Nat
    BY RateLimiterAssumption DEF TypeOK, Seconds
  <1>2. CASE clock < bucket.expires
    <2>1. /\ Elapsed(now) = now - bucket.ts + Back(now)
          /\ Elapsed(now) \in Nat /\ Back(now) \in Nat
      BY <1>1, <1>2 DEF Elapsed, Back
    <2>2. PICK e \in Nat : e = Elapsed(now)
      BY <2>1
    <2>3. PICK full \in Nat : full = bucket.tokens + e * Refill
      BY <1>1
    <2>4. Tokens(now) = Min({Capacity, full})
      BY <1>2, <2>2, <2>3 DEF Tokens
    <2>5. /\ Min({Capacity, full}) \in {Capacity, full}
          /\ Min({Capacity, full}) <= Capacity /\ Min({Capacity, full}) <= full
      <3>1. Capacity \in Int /\ full \in Int
        BY <1>1
      <3>2. QED
        BY <3>1, MinOfTwo
    <2>6. full = bucket.tokens + Refill * e
      BY <1>1, <2>3
    <2>7. Tokens(now) \in 0 .. Capacity
      BY <1>1, <2>4, <2>5
    <2>8. QED
      BY <1>2, <2>1, <2>2, <2>4, <2>5, <2>6, <2>7
  <1>3. CASE ~(clock < bucket.expires)
    BY <1>1, <1>3 DEF Tokens, Back
  <1>4. QED
    BY <1>2, <1>3

\* What a count was before second s: nothing before the first second.
LEMMA BeforeSecond ==
  ASSUME NEW s \in Seconds, NEW count
  PROVE  /\ s = 0 => Before(count, s) = 0
         /\ s > 0 => s - 1 \in Seconds /\ Before(count, s) = count[s - 1]
         /\ s = 0 \/ s > 0
  BY RateLimiterAssumption DEF Seconds, Before

\* The counts before s are numbers, and setBack is never larger earlier.
LEMMA CountsBefore ==
  ASSUME TypeOK, CountsInv, NEW s \in Seconds
  PROVE  /\ Before(admitted, s) \in Nat /\ Before(setBack, s) \in Nat
         /\ \A t \in Seconds : s <= t => Before(setBack, s) <= setBack[t]
  <1>1. Seconds \subseteq Nat /\ \A t \in Seconds : admitted[t] \in Nat /\ setBack[t] \in Nat
    BY RateLimiterAssumption DEF TypeOK, Seconds
  <1>2. CASE s = 0
    BY <1>1, <1>2, BeforeSecond
  <1>3. CASE s > 0
    <2>1. /\ s - 1 \in Seconds /\ Before(setBack, s) = setBack[s - 1]
          /\ Before(admitted, s) = admitted[s - 1]
      BY <1>3, BeforeSecond
    <2>2. \A t \in Seconds : s <= t => s - 1 <= t
      BY <1>1
    <2>3. QED
      BY <1>1, <2>1, <2>2 DEF CountsInv
  <1>4. QED
    BY <1>2, <1>3, BeforeSecond

\* The bucket before its first use.
LEMMA BucketInit == Init => BucketInv
  <1> SUFFICES ASSUME Init PROVE BucketInv
    OBVIOUS
  <1>1. /\ 0 \in Seconds /\ MaxTime \in Seconds /\ Capacity \in Nat /\ Refill \in Nat
        /\ MaxDelay \in Nat /\ MaxTime + Ttl \in Nat /\ Seconds \subseteq Nat
    BY RateLimiterAssumption DEF Seconds
  <1>2. /\ bucket.expires = 0
        /\ \A t \in Seconds : admitted[t] = 0 /\ setBack[t] = 0
        /\ \A r \in Request : request[r] = -1
    BY DEF Init
  <1>3. TypeOK
    BY <1>1 DEF Init, TypeOK
  <1>4. StampsInv /\ Unused /\ CountsInv
    BY <1>1, <1>2 DEF StampsInv, Unused, InFlight, CountsInv
  <1>5. \A s \in Seconds : Before(admitted, s) = 0 /\ Before(setBack, s) = 0
    <2> SUFFICES ASSUME NEW s \in Seconds
                 PROVE  Before(admitted, s) = 0 /\ Before(setBack, s) = 0
      OBVIOUS
    <2>1. CASE s = 0
      BY <2>1, BeforeSecond
    <2>2. CASE s > 0
      BY <1>2, <2>2, BeforeSecond
    <2>3. QED
      BY <2>1, <2>2, BeforeSecond
  <1>6. WindowInv
    <2> SUFFICES ASSUME NEW s \in Seconds, NEW t \in Seconds, s <= t
                 PROVE  admitted[t] - Before(admitted, s)
                          <= Capacity + Refill * Span(s, t, Before(setBack, s), setBack[t])
      BY DEF WindowInv
    <2>1. Span(s, t, Before(setBack, s), setBack[t]) \in Nat
      BY <1>1, <1>2, <1>5 DEF Span
    <2>2. Refill * Span(s, t, Before(setBack, s), setBack[t]) \in Nat
      BY <2>1, RefillGrows
    <2>3. QED
      BY <1>1, <1>2, <1>5, <2>2
  <1>7. QED
    BY <1>3, <1>4, <1>6 DEF BucketInv, KeysInv, AccountInv

\* Steps that do not run the script.
LEMMA BucketQuiet ==
  ASSUME BucketInv, UNCHANGED <<bucket, admitted, setBack>>, StampsInv',
         clock' \in Seconds, clock <= clock', request' \in [Request -> Seconds \cup {-1}]
  PROVE  BucketInv'
  <1>1. TypeOK'
    BY DEF BucketInv, TypeOK
  <1>2. Unused' = Unused /\ LastRun' = LastRun
    BY DEF Unused, LastRun
  <1>3. KeysInv'
    <2>1. LastRun \in 0 .. clock => LastRun \in 0 .. clock'
      BY RateLimiterAssumption DEF BucketInv, TypeOK, Seconds
    <2>2. QED
      BY <1>2, <2>1 DEF BucketInv, KeysInv
  <1>4. CountsInv' /\ WindowInv'
    BY <1>2 DEF BucketInv, CountsInv, WindowInv, Span, Before
  <1>5. AccountInv'
    BY <1>2 DEF BucketInv, AccountInv, Span, Before
  <1>6. QED
    BY <1>1, <1>3, <1>4, <1>5 DEF BucketInv

(***************************************************************************)
(* The script keeps the account: what it allows it takes out of the        *)
(* bucket, and what it finds there the periods have left.                  *)
(***************************************************************************)
LEMMA ScriptStep ==
  ASSUME TtlOutlastsRefill, BucketInv, NEW r \in Request, RunScript(r)
  PROVE  BucketInv'
  <1>1. /\ TypeOK /\ StampsInv /\ KeysInv /\ CountsInv /\ AccountInv /\ WindowInv /\ InFlight(r)
        /\ Capacity \in Nat /\ Refill \in Nat /\ Ttl \in Nat /\ MaxDelay \in Nat /\ MaxTime \in Nat
        /\ Seconds = 0 .. MaxTime /\ MaxTime \in Seconds
    BY RateLimiterAssumption DEF BucketInv, RunScript, Seconds
  <1>2. PICK now \in Seconds : now = request[r]
    BY <1>1 DEF TypeOK, InFlight
  <1>3. /\ now \in Nat /\ now <= clock /\ clock <= now + MaxDelay
        /\ clock \in Seconds /\ clock \in Nat /\ clock <= MaxTime /\ bucket.ts \in Nat
        /\ bucket.tokens \in 0 .. Capacity /\ bucket.expires \in Nat
    BY <1>1, <1>2 DEF TypeOK, StampsInv
  <1>4. PICK T \in 0 .. Capacity : T = Tokens(now)
    BY <1>1, TokensFound
  <1>5. PICK back \in Nat : back = Back(now)
    BY <1>1, TokensFound
  <1>6. PICK spent \in {0, 1} : spent = IF T >= 1 THEN 1 ELSE 0
    OBVIOUS
  <1>7. /\ T \in Nat /\ T <= Capacity /\ spent \in Nat /\ spent <= T
        /\ T - spent \in 0 .. Capacity /\ T - spent \in Nat
    BY <1>1, <1>4, <1>6
  <1>8. /\ bucket' = [tokens |-> T - spent, ts |-> now, expires |-> clock + Ttl]
        /\ \A t \in Seconds :
             /\ admitted[t] \in Nat /\ admitted'[t] \in Nat
             /\ setBack[t] \in Nat /\ setBack'[t] \in Nat
             /\ t >= clock => /\ admitted'[t] = admitted[t] + spent
                              /\ setBack'[t] = setBack[t] + back
             /\ ~(t >= clock) => admitted'[t] = admitted[t] /\ setBack'[t] = setBack[t]
        /\ clock' = clock /\ TypeOK'
    <2>1. bucket' = [tokens |-> T - spent, ts |-> now, expires |-> clock + Ttl]
      BY <1>2, <1>4, <1>6 DEF RunScript, SpendAndStore, Allowed
    <2>2. \A t \in Seconds : admitted[t] \in Nat /\ setBack[t] \in Nat
      BY <1>1 DEF TypeOK
    <2>3. \A t \in Seconds :
            admitted'[t] = IF t >= clock THEN admitted[t] + spent ELSE admitted[t]
      BY <1>2, <1>4, <1>6, <2>2 DEF RunScript, Allowed
    <2>4. \A t \in Seconds :
            setBack'[t] = IF t >= clock THEN setBack[t] + back ELSE setBack[t]
      BY <1>2, <1>5 DEF RunScript
    <2>5. \A t \in Seconds : admitted'[t] \in Nat /\ setBack'[t] \in Nat
      BY <1>5, <1>6, <2>2, <2>3, <2>4
    <2>6. admitted' \in [Seconds -> Nat]
      <3>1. admitted' = [t \in Seconds |-> admitted'[t]]
        BY DEF RunScript
      <3>2. QED
        BY <2>5, <3>1
    <2>7. setBack' \in [Seconds -> Nat]
      <3>1. setBack' = [t \in Seconds |-> setBack'[t]]
        BY DEF RunScript
      <3>2. QED
        BY <2>5, <3>1
    <2>8. clock' = clock /\ request' \in [Request -> Seconds \cup {-1}]
      BY <1>1 DEF RunScript, TypeOK
    <2>9. clock + Ttl \in 0 .. MaxTime + Ttl
      BY <1>1, <1>3
    <2>10. TypeOK'
      BY <1>1, <1>7, <2>1, <2>6, <2>7, <2>8, <2>9 DEF TypeOK
    <2>11. QED
      BY <2>1, <2>2, <2>3, <2>4, <2>5, <2>8, <2>10
  <1>9. bucket'.tokens = T - spent /\ bucket'.ts = now /\ LastRun' = clock
    BY <1>1, <1>3, <1>8 DEF LastRun
  <1>10. StampsInv'
    <2>1. \A p \in Request : InFlight(p)' => InFlight(p) /\ request'[p] = request[p]
      BY <1>1 DEF RunScript, InFlight, TypeOK
    <2>2. QED
      BY <1>1, <1>8, <2>1 DEF StampsInv
  <1>11. KeysInv'
    BY <1>3, <1>8, <1>9 DEF KeysInv
  \* Nothing was counted between the last script and this one.
  <1>12. \A t \in Seconds :
           t >= clock => admitted[t] = admitted[MaxTime] /\ setBack[t] = setBack[MaxTime]
    <2>1. CASE Unused
      BY <1>1, <2>1 DEF Unused
    <2>2. CASE LastRun \in 0 .. clock
      BY <1>1, <1>3, <2>2 DEF CountsInv
    <2>3. QED
      BY <1>1, <2>1, <2>2 DEF KeysInv
  <1>13. CountsInv'
    <2>1. \A t \in Seconds : t >= clock => /\ admitted'[t] = admitted'[MaxTime]
                                           /\ setBack'[t] = setBack'[MaxTime]
      BY <1>1, <1>3, <1>8, <1>12
    <2>2. ASSUME NEW s \in Seconds, NEW t \in Seconds, s <= t PROVE setBack'[s] <= setBack'[t]
      <3>1. setBack[s] <= setBack[t]
        BY <1>1, <2>2 DEF CountsInv
      <3>2. /\ setBack[s] \in Nat /\ setBack[t] \in Nat
            /\ s >= clock => setBack'[s] = setBack[s] + back
            /\ ~(s >= clock) => setBack'[s] = setBack[s]
            /\ t >= clock => setBack'[t] = setBack[t] + back
            /\ ~(t >= clock) => setBack'[t] = setBack[t]
        BY <1>8
      <3>3. s >= clock => t >= clock
        BY <1>1, <1>3, <2>2
      <3>4. CASE s >= clock
        BY <1>5, <3>1, <3>2, <3>3, <3>4
      <3>5. CASE ~(s >= clock) /\ t >= clock
        BY <1>5, <3>1, <3>2, <3>5
      <3>6. CASE ~(s >= clock) /\ ~(t >= clock)
        BY <3>1, <3>2, <3>6
      <3>7. QED
        BY <3>4, <3>5, <3>6
    <2>3. QED
      BY <1>9, <2>1, <2>2 DEF CountsInv
  <1>14. ASSUME NEW s \in Seconds, s <= clock
         PROVE  /\ Before(admitted', s) = Before(admitted, s)
                /\ Before(setBack', s) = Before(setBack, s)
    <2>1. CASE s = 0
      BY <2>1, BeforeSecond
    <2>2. CASE s > 0
      <3>1. /\ s - 1 \in Seconds
            /\ Before(admitted, s) = admitted[s - 1] /\ Before(admitted', s) = admitted'[s - 1]
            /\ Before(setBack, s) = setBack[s - 1] /\ Before(setBack', s) = setBack'[s - 1]
        BY <2>2, BeforeSecond
      <3>2. ~(s - 1 >= clock)
        BY <1>1, <1>3, <1>14
      <3>3. QED
        BY <1>8, <3>1, <3>2
    <2>3. QED
      BY <2>1, <2>2, BeforeSecond
  <1>15. ASSUME NEW s \in Seconds, s <= clock
         PROVE  /\ Span(s, now, Before(setBack', s), setBack'[MaxTime]) \in Nat
                /\ admitted'[MaxTime] - Before(admitted', s) + (T - spent)
                     <= Capacity + Refill * Span(s, now, Before(setBack', s), setBack'[MaxTime])
    <2>1. PICK A \in Nat, B \in Nat, a \in Nat, b \in Nat :
            /\ A = admitted[MaxTime] /\ B = setBack[MaxTime]
            /\ a = Before(admitted, s) /\ b = Before(setBack, s) /\ b <= B
      <3>1. /\ admitted[MaxTime] \in Nat /\ setBack[MaxTime] \in Nat
            /\ Before(admitted, s) \in Nat /\ Before(setBack, s) \in Nat
        BY <1>1, <1>8, CountsBefore
      <3>2. Before(setBack, s) <= setBack[MaxTime]
        <4>1. s <= MaxTime
          BY <1>1
        <4>2. QED
          BY <1>1, <4>1, CountsBefore
      <3>3. QED
        BY <3>1, <3>2
    <2>2. /\ admitted'[MaxTime] = A + spent /\ setBack'[MaxTime] = B + back
          /\ Before(admitted', s) = a /\ Before(setBack', s) = b
      BY <1>1, <1>3, <1>8, <1>14, <1>15, <2>1
    <2>3. PICK f \in Nat : f = (now - s) + MaxDelay + (B + back - b)
      BY <1>1, <1>3, <1>5, <1>15, <2>1
    <2>4. Span(s, now, Before(setBack', s), setBack'[MaxTime]) = f
      BY <2>2, <2>3 DEF Span
    <2>5. PICK x \in Nat : x = Refill * f
      BY <2>3, RefillGrows
    <2>6. SUFFICES A - a + T <= Capacity + x
      <3>1. A + spent - a + (T - spent) = A - a + T
        BY <1>7
      <3>2. QED
        BY <2>2, <2>3, <2>4, <2>5, <3>1
    <2>7. CASE Unused
      <3>1. A = 0
        BY <1>1, <2>1, <2>7 DEF Unused
      <3>2. QED
        BY <1>1, <1>7, <3>1
    <2>8. CASE ~Unused /\ s > LastRun
      <3>1. s - 1 \in Seconds /\ a = admitted[s - 1] /\ s - 1 >= LastRun
        BY <1>1, <1>3, <2>1, <2>8, BeforeSecond DEF KeysInv
      <3>2. a = A
        BY <1>1, <2>1, <3>1 DEF CountsInv
      <3>3. QED
        BY <1>1, <1>7, <3>2
    <2>9. CASE ~Unused /\ s <= LastRun
      <3>1. LastRun \in Nat /\ bucket.ts <= LastRun /\ LastRun <= bucket.ts + MaxDelay
        BY <1>1, <1>3, <2>9 DEF KeysInv
      <3>2. PICK g \in Nat : /\ g = (bucket.ts - s) + MaxDelay + (B - b)
                             /\ A - a + bucket.tokens <= Capacity + Refill * g
        <4>1. (bucket.ts - s) + MaxDelay + (B - b) \in Nat
          BY <1>1, <1>3, <2>1, <2>9, <3>1
        <4>2. s \in 0 .. LastRun
          BY <1>1, <2>9, <3>1
        <4>3. A - a + bucket.tokens <= Capacity + Refill * Span(s, bucket.ts, Before(setBack, s), setBack[MaxTime])
          BY <1>1, <2>1, <2>9, <4>2 DEF AccountInv
        <4>4. QED
          BY <2>1, <4>1, <4>3 DEF Span
      <3>3. PICK h \in Nat : h = now - bucket.ts + back /\ T <= bucket.tokens + Refill * h
        <4>1. CASE clock < bucket.expires
          BY <1>1, <1>4, <1>5, <4>1, TokensFound
        <4>2. CASE ~(clock < bucket.expires)
          <5>1. back = 0 /\ T = Capacity
            BY <1>1, <1>4, <1>5, <4>2, TokensFound
          <5>2. /\ Ttl - MaxDelay \in Nat /\ now - bucket.ts \in Nat
                /\ Ttl - MaxDelay <= now - bucket.ts
            BY <1>1, <1>3, <3>1, <4>2 DEF TtlOutlastsRefill, LastRun
          <5>3. Refill * (Ttl - MaxDelay) <= Refill * (now - bucket.ts)
            BY <5>2, RefillGrows
          <5>4. PICK u \in Nat, v \in Nat :
                  u = Refill * (Ttl - MaxDelay) /\ v = Refill * (now - bucket.ts)
            BY <5>2, RefillGrows
          <5>5. Capacity <= u /\ u <= v
            BY <5>3, <5>4 DEF TtlOutlastsRefill
          <5>6. T <= bucket.tokens + Refill * (now - bucket.ts)
            BY <1>1, <1>3, <5>1, <5>4, <5>5
          <5>7. now - bucket.ts + back = now - bucket.ts
            BY <1>3, <5>1
          <5>8. QED
            BY <5>2, <5>6, <5>7
        <4>3. QED
          BY <4>1, <4>2
      <3>4. f = g + h
        <4>1. s \in Int /\ now \in Int /\ bucket.ts \in Int /\ MaxDelay \in Int
          BY <1>1, <1>3
        <4>2. g = (bucket.ts - s) + MaxDelay + (B - b) /\ h = now - bucket.ts + back
          BY <3>2, <3>3
        <4>3. QED
          BY <2>3, <4>1, <4>2
      <3>5. PICK y \in Nat, z \in Nat : y = Refill * g /\ z = Refill * h
        BY RefillGrows
      <3>6. x = y + z
        BY <2>5, <3>4, <3>5, RefillOfParts
      <3>7. bucket.tokens \in Nat
        BY <1>1, <1>3
      <3>8. A - a + bucket.tokens <= Capacity + y /\ T <= bucket.tokens + z
        BY <3>2, <3>3, <3>5
      <3>9. QED
        BY <1>1, <1>7, <3>6, <3>7, <3>8
    <2>10. LastRun \in Int
      BY <1>1, <1>3 DEF LastRun
    <2>11. QED
      BY <1>1, <2>4, <2>7, <2>8, <2>9, <2>10
  <1>16. AccountInv'
    <2> SUFFICES ASSUME NEW s \in 0 .. clock
                 PROVE  admitted'[MaxTime] - Before(admitted', s) + (T - spent)
                          <= Capacity + Refill * Span(s, now, Before(setBack', s), setBack'[MaxTime])
      BY <1>9 DEF AccountInv
    <2>1. s \in Seconds /\ s <= clock
      BY <1>1, <1>3
    <2>2. QED
      BY <1>15, <2>1
  <1>17. WindowInv'
    <2> SUFFICES ASSUME NEW s \in Seconds, NEW t \in Seconds, s <= t
                 PROVE  admitted'[t] - Before(admitted', s)
                          <= Capacity + Refill * Span(s, t, Before(setBack', s), setBack'[t])
      BY DEF WindowInv
    <2>0. Seconds \subseteq Nat
      BY <1>1
    <2>1. CASE ~(t >= clock)
      <3>1. s <= clock
        BY <1>3, <2>0, <2>1
      <3>2. /\ admitted'[t] = admitted[t] /\ setBack'[t] = setBack[t]
            /\ Before(admitted', s) = Before(admitted, s)
            /\ Before(setBack', s) = Before(setBack, s)
        BY <1>8, <1>14, <2>1, <3>1
      <3>3. admitted[t] - Before(admitted, s) <= Capacity + Refill * Span(s, t, Before(setBack, s), setBack[t])
        BY <1>1 DEF WindowInv
      <3>4. QED
        BY <3>2, <3>3 DEF Span
    <2>2. CASE t >= clock /\ s <= clock
      <3>1. /\ admitted'[t] = admitted'[MaxTime] /\ setBack'[t] = setBack'[MaxTime]
            /\ admitted'[MaxTime] \in Nat /\ setBack'[MaxTime] \in Nat
        BY <1>1, <1>8, <1>9, <1>13, <2>2 DEF CountsInv
      <3>2. Before(admitted', s) \in Nat /\ Before(setBack', s) \in Nat
        BY <1>1, <1>14, <2>2, CountsBefore
      <3>3. PICK n \in Nat, A \in Nat, a \in Nat :
              /\ n = Span(s, now, Before(setBack', s), setBack'[MaxTime])
              /\ A = admitted'[MaxTime] /\ a = Before(admitted', s)
              /\ A - a + (T - spent) <= Capacity + Refill * n
        BY <1>15, <2>2, <3>1, <3>2
      <3>4. PICK m \in Nat : m = n + (t - now)
        BY <1>3, <2>0, <2>2
      <3>5. Span(s, t, Before(setBack', s), setBack'[t]) = m
        <4>1. PICK b \in Nat, B \in Nat : b = Before(setBack', s) /\ B = setBack'[t]
          BY <3>1, <3>2
        <4>2. n = (now - s) + MaxDelay + (B - b)
          BY <3>1, <3>3, <4>1 DEF Span
        <4>3. s \in Int /\ t \in Int /\ now \in Int /\ MaxDelay \in Int
          BY <1>1, <1>3, <2>0
        <4>4. m = (t - s) + MaxDelay + (B - b)
          BY <3>4, <4>2, <4>3
        <4>5. QED
          BY <4>1, <4>4 DEF Span
      <3>6. Refill * n <= Refill * m /\ Refill * n \in Nat /\ Refill * m \in Nat
        <4>1. n <= m
          BY <1>3, <2>0, <2>2, <3>4
        <4>2. QED
          BY <4>1, RefillGrows
      <3>7. PICK x \in Nat, y \in Nat : x = Refill * n /\ y = Refill * m /\ x <= y
        BY <3>6
      <3>8. A - a <= Capacity + y
        <4>1. A - a + (T - spent) <= Capacity + x
          BY <3>3, <3>7
        <4>2. QED
          BY <1>1, <1>7, <3>7, <4>1
      <3>9. QED
        BY <3>1, <3>3, <3>5, <3>7, <3>8
    <2>3. CASE t >= clock /\ s > clock
      <3>1. /\ s - 1 \in Seconds /\ s - 1 >= clock
            /\ Before(admitted', s) = admitted'[s - 1] /\ Before(setBack', s) = setBack'[s - 1]
        BY <1>3, <2>0, <2>3, BeforeSecond
      <3>2. /\ admitted'[s - 1] = admitted'[t] /\ setBack'[s - 1] = setBack'[t]
            /\ admitted'[t] \in Nat /\ setBack'[t] \in Nat
        BY <1>8, <1>9, <1>13, <2>3, <3>1 DEF CountsInv
      <3>3. PICK n \in Nat : n = (t - s) + MaxDelay
        BY <1>1, <2>0
      <3>4. Span(s, t, Before(setBack', s), setBack'[t]) = n
        BY <1>1, <2>0, <3>1, <3>2, <3>3 DEF Span
      <3>5. Refill * n \in Nat
        BY <3>3, RefillGrows
      <3>6. PICK x \in Nat : x = Refill * n
        BY <3>5
      <3>7. admitted'[t] - Before(admitted', s) <= Capacity + x
        BY <1>1, <3>1, <3>2
      <3>8. QED
        BY <3>4, <3>6, <3>7
    <2>4. QED
      BY <1>3, <2>0, <2>1, <2>2, <2>3
  <1>18. QED
    BY <1>8, <1>10, <1>11, <1>13, <1>16, <1>17 DEF BucketInv

\* Every step keeps the invariant.
LEMMA BucketStep ==
  ASSUME TtlOutlastsRefill, BucketInv, [Next]_vars PROVE BucketInv'
  <1>0. /\ TypeOK /\ StampsInv /\ MaxDelay \in Nat /\ MaxTime \in Nat
        /\ clock \in Nat /\ clock <= MaxTime
    BY RateLimiterAssumption DEF BucketInv, TypeOK, Seconds
  <1>1. ASSUME NEW r \in Request, Arrive(r) PROVE BucketInv'
    <2>1. /\ UNCHANGED <<bucket, admitted, setBack, clock>>
          /\ request' = [request EXCEPT ![r] = clock]
      BY <1>1 DEF Arrive
    <2>2. request' \in [Request -> Seconds \cup {-1}] /\ clock' \in Seconds /\ clock <= clock'
      BY <1>0, <2>1 DEF TypeOK
    <2>3. StampsInv'
      BY <1>0, <2>1 DEF StampsInv, InFlight, TypeOK
    <2>4. QED
      BY <2>1, <2>2, <2>3, BucketQuiet
  <1>2. ASSUME NEW r \in Request, FailOpen(r) PROVE BucketInv'
    <2>1. /\ UNCHANGED <<bucket, admitted, setBack, clock>>
          /\ request' = [request EXCEPT ![r] = -1]
      BY <1>2 DEF FailOpen
    <2>2. request' \in [Request -> Seconds \cup {-1}] /\ clock' \in Seconds /\ clock <= clock'
      BY <1>0, <2>1 DEF TypeOK
    <2>3. StampsInv'
      BY <1>0, <2>1 DEF StampsInv, InFlight, TypeOK
    <2>4. QED
      BY <2>1, <2>2, <2>3, BucketQuiet
  <1>3. CASE Tick
    <2>1. /\ UNCHANGED <<bucket, admitted, setBack, request>>
          /\ clock' = clock + 1 /\ clock' \in Seconds /\ clock <= clock'
      BY <1>0, <1>3 DEF Tick, Seconds
    <2>2. request' \in [Request -> Seconds \cup {-1}]
      BY <1>0, <2>1 DEF TypeOK
    <2>3. \A r \in Request : InFlight(r) => request[r] \in Nat /\ clock < request[r] + MaxDelay
      BY <1>0, <1>3 DEF Tick, InFlight, TypeOK, Seconds
    <2>4. StampsInv'
      BY <1>0, <2>1, <2>3 DEF StampsInv, InFlight
    <2>5. QED
      BY <2>1, <2>2, <2>4, BucketQuiet
  <1>4. CASE UNCHANGED vars
    <2>1. UNCHANGED <<clock, bucket, request, admitted, setBack>>
      BY <1>4 DEF vars
    <2>2. /\ StampsInv' /\ clock' \in Seconds /\ clock <= clock'
          /\ request' \in [Request -> Seconds \cup {-1}]
      BY <1>0, <2>1 DEF StampsInv, InFlight, TypeOK
    <2>3. QED
      BY <2>1, <2>2, BucketQuiet
  <1>5. QED
    BY <1>1, <1>2, <1>3, <1>4, ScriptStep DEF Next

(***************************************************************************)
(* The bucket bounds every period whatever order the scripts run in, if    *)
(* the keys outlive a refill: for 60 tokens, one a second and 120 seconds, *)
(* if no request waits for more than a minute.                             *)
(***************************************************************************)
THEOREM WindowBoundHolds ==
  ASSUME TtlOutlastsRefill PROVE Spec => []WindowBound
  <1>1. BucketInv => WindowBound
    <2> SUFFICES ASSUME BucketInv PROVE WindowBound
      OBVIOUS
    <2>1. 0 .. clock \subseteq Seconds
      BY RateLimiterAssumption DEF BucketInv, TypeOK, Seconds
    <2>2. QED
      BY <2>1 DEF BucketInv, WindowInv, Span, WindowBound
  <1>2. BucketInv /\ [Next]_vars => BucketInv'
    BY BucketStep
  <1>3. QED
    BY <1>1, <1>2, BucketInit, PTL DEF Spec
=============================================================================
