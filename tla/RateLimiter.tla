------------------------------ MODULE RateLimiter ------------------------------
(***************************************************************************)
(* The token bucket of one client key.  rate_limit_middleware reads the    *)
(* wall clock in the API process, then runs a Lua script in Redis, which   *)
(* is atomic; between the two other requests of the client, possibly of    *)
(* other processes, may run theirs.                                        *)
(***************************************************************************)
EXTENDS Integers, FiniteSetsExt

CONSTANTS
  Request,   \* requests of the client that may be in flight together
  Capacity,  \* BUCKET_CAPACITY (60 in the code)
  Refill,    \* REFILL_PER_SECOND (1)
  Ttl,       \* BUCKET_TTL_SECONDS (120)
  MaxDelay,  \* bound: seconds between reading the clock and the script
  MaxTime    \* bound: seconds

ASSUME RateLimiterAssumption ==
  /\ Capacity \in Nat /\ Refill \in Nat /\ Ttl \in Nat
  /\ MaxDelay \in Nat /\ MaxTime \in Nat

Seconds == 0 .. MaxTime

VARIABLES
  clock,     \* wall clock, in seconds
  bucket,    \* the two Redis keys of the client, and when they expire
  request,   \* the time each request in flight has read, -1 when none
  admitted,  \* how many requests the script allowed up to each second
  setBack    \* by how many seconds in all, up to then, scripts set ts back

vars == <<clock, bucket, request, admitted, setBack>>

TypeOK ==
  /\ clock \in Seconds
  /\ bucket \in [tokens : 0 .. Capacity, ts : Seconds, expires : 0 .. MaxTime + Ttl]
  /\ request \in [Request -> Seconds \cup {-1}]
  /\ admitted \in [Seconds -> Nat]
  /\ setBack \in [Seconds -> Nat]

Init ==
  /\ clock = 0
  /\ bucket = [tokens |-> 0, ts |-> 0, expires |-> 0]
  /\ request = [r \in Request |-> -1]
  /\ admitted = [t \in Seconds |-> 0]
  /\ setBack = [t \in Seconds |-> 0]

Arrive(r) ==
  /\ request[r] = -1
  /\ request' = [request EXCEPT ![r] = clock]
  /\ UNCHANGED <<clock, bucket, admitted, setBack>>

InFlight(r) == request[r] # -1

Elapsed(now) == IF now > bucket.ts THEN now - bucket.ts ELSE 0

\* GET of both keys: expired or never set, they read as a full bucket.
Tokens(now) ==
  IF clock < bucket.expires
    THEN Min({Capacity, bucket.tokens + Elapsed(now) * Refill})
    ELSE Capacity

Allowed(now) == Tokens(now) >= 1

\* Mutant of SpendAndStore: the time of the refill is not stored again.
SpendAndStoreKeepsTime(now) ==
  bucket' = [bucket EXCEPT !.tokens = IF Allowed(now) THEN Tokens(now) - 1 ELSE Tokens(now),
                           !.expires = clock + Ttl]

\* SETEX of both keys, whether or not the request is allowed.
SpendAndStore(now) ==
  bucket' = [tokens  |-> IF Allowed(now) THEN Tokens(now) - 1 ELSE Tokens(now),
             ts      |-> now,
             expires |-> clock + Ttl]

\* How far a script that read the clock at now sets a live bucket back, when one
\* that read it later ran first: max(0, now - ts) refills it with nothing, but
\* now is stored.
Back(now) == IF clock < bucket.expires /\ now < bucket.ts THEN bucket.ts - now ELSE 0

RunScript(r) ==
  /\ InFlight(r)
  /\ SpendAndStore(request[r])
  /\ admitted' = [t \in Seconds |-> IF t >= clock /\ Allowed(request[r])
                                     THEN admitted[t] + 1 ELSE admitted[t]]
  /\ setBack' = [t \in Seconds |-> IF t >= clock THEN setBack[t] + Back(request[r])
                                                  ELSE setBack[t]]
  /\ request' = [request EXCEPT ![r] = -1]
  /\ UNCHANGED clock

\* Redis cannot be reached: the request goes on without the bucket.
FailOpen(r) ==
  /\ InFlight(r)
  /\ request' = [request EXCEPT ![r] = -1]
  /\ UNCHANGED <<clock, bucket, admitted, setBack>>

Tick ==
  /\ clock < MaxTime
  /\ \A r \in Request : InFlight(r) => clock < request[r] + MaxDelay
  /\ clock' = clock + 1
  /\ UNCHANGED <<bucket, request, admitted, setBack>>

Next ==
  \/ \E r \in Request : Arrive(r) \/ RunScript(r) \/ FailOpen(r)
  \/ Tick

Spec == Init /\ [][Next]_vars

\* What a count that runs from second to second was before second s.
Before(count, s) == IF s = 0 THEN 0 ELSE count[s - 1]

(***************************************************************************)
(* What makes it a token bucket, with scripts that run in any order: the   *)
(* requests let through in any period are at most a full bucket and the    *)
(* refill of that period, lengthened by one delay and by what late scripts *)
(* of the period set the bucket back, since those seconds are refilled     *)
(* again.  Expired keys read as a full bucket, so it depends on the TTL.   *)
(***************************************************************************)
WindowBound ==
  \A s, t \in 0 .. clock :
    s <= t =>
      admitted[t] - Before(admitted, s)
        <= Capacity + Refill * ((t - s) + MaxDelay + (setBack[t] - Before(setBack, s)))
=============================================================================
