-------------------------- MODULE RetrySchedulingProofs --------------------------
(***************************************************************************)
(* Theorems about RetryScheduling, for any number of jobs, any pool, any   *)
(* policies and any width of the integers.                                 *)
(***************************************************************************)
EXTENDS RetryScheduling, FiniteSetTheorems, WellFoundedInduction, NaturalsInduction, TLAPS

\* PoolConserved, with what makes the types inductive: who is not dead may fail
\* once more.
PoolInv ==
  /\ TypeOK
  /\ \A j \in Job : pc[j] # "dead" => attempts[j] < MaxAttempts
  /\ PoolConserved

Places == {"running", "begin", "lookup", "reading", "write", "waiting", "dead", "stuck", "lost"}

\* How many connections a task holds at each place.
LEMMA HoldsAt ==
  /\ \A p \in {"lookup", "write"} : Holds(p) = 1
  /\ Holds("reading") = 2
  /\ \A p \in {"running", "begin", "waiting", "dead", "stuck", "lost"} : Holds(p) = 0
  BY DEF Holds

\* Sets of connections are the same if they have the same first and second ones.
LEMMA SameConnections ==
  ASSUME NEW A \in SUBSET (Job \X {1, 2}), NEW B \in SUBSET (Job \X {1, 2}),
         \A k \in Job : (<<k, 1>> \in A <=> <<k, 1>> \in B) /\ (<<k, 2>> \in A <=> <<k, 2>> \in B)
  PROVE  A = B
  <1>1. ASSUME NEW c \in Job \X {1, 2} PROVE c \in A <=> c \in B
    <2>1. PICK k \in Job, n \in {1, 2} : c = <<k, n>>
      OBVIOUS
    <2>2. QED
      BY <2>1
  <1>2. QED
    BY <1>1

\* A task that goes from one place to another changes what it holds, and nobody
\* else's.
LEMMA HeldMoves ==
  ASSUME TypeOK, NEW j \in Job, NEW from \in Places, NEW to \in Places, Goto(j, from, to)
  PROVE  /\ pc' \in [Job -> Places] /\ pc'[j] = to
         /\ \A k \in Job : k # j => pc'[k] = pc[k]
         /\ Holds(to) = Holds(from) => Held' = Held
         /\ Holds(from) = 0 /\ Holds(to) = 1 => <<j, 1>> \notin Held /\ Held' = Held \cup {<<j, 1>>}
         /\ Holds(from) = 1 /\ Holds(to) = 2 => <<j, 2>> \notin Held /\ Held' = Held \cup {<<j, 2>>}
         /\ Holds(from) = 2 /\ Holds(to) = 1 => <<j, 2>> \in Held /\ Held' = Held \ {<<j, 2>>}
         /\ Holds(from) = 1 /\ Holds(to) = 0 => <<j, 1>> \in Held /\ Held' = Held \ {<<j, 1>>}
  <1>1. /\ pc[j] = from /\ pc' \in [Job -> Places] /\ pc'[j] = to
        /\ \A k \in Job : k # j => pc'[k] = pc[k]
    BY DEF Goto, TypeOK, Places
  <1>2. Holds(from) \in {0, 1, 2} /\ Holds(to) \in {0, 1, 2}
    BY HoldsAt DEF Places
  <1>3. /\ \A c : c \in Held <=> c \in Job \X {1, 2} /\ c[2] <= Holds(pc[c[1]])
        /\ \A c : c \in Held' <=> c \in Job \X {1, 2} /\ c[2] <= Holds(pc'[c[1]])
    BY DEF Held
  <1>4. \A k \in Job, n \in {1, 2} :
          /\ <<k, n>> \in Held <=> n <= Holds(pc[k])
          /\ <<k, n>> \in Held' <=> n <= Holds(pc'[k])
    BY <1>3
  <1>5. \A k \in Job, n \in {1, 2} : k # j => (<<k, n>> \in Held' <=> <<k, n>> \in Held)
    BY <1>1, <1>4
  <1>6. \A n \in {1, 2} : /\ <<j, n>> \in Held <=> n <= Holds(from)
                          /\ <<j, n>> \in Held' <=> n <= Holds(to)
    BY <1>1, <1>4
  <1>7. Held \subseteq Job \X {1, 2} /\ Held' \subseteq Job \X {1, 2}
    BY DEF Held
  <1>8. ASSUME Holds(to) = Holds(from) PROVE Held' = Held
    <2>1. \A n \in {1, 2} : <<j, n>> \in Held' <=> <<j, n>> \in Held
      BY <1>6, <1>8
    <2>2. QED
      BY <1>5, <1>7, <2>1, SameConnections
  <1>9. ASSUME Holds(from) = 0, Holds(to) = 1
        PROVE  <<j, 1>> \notin Held /\ Held' = Held \cup {<<j, 1>>}
    <2>1. /\ <<j, 1>> \notin Held /\ <<j, 2>> \notin Held
          /\ <<j, 1>> \in Held' /\ <<j, 2>> \notin Held'
      BY <1>6, <1>9
    <2> DEFINE B == Held \cup {<<j, 1>>}
    <2>2. B \in SUBSET (Job \X {1, 2})
      BY <1>7
    <2>3. \A k \in Job : /\ <<k, 1>> \in Held' <=> <<k, 1>> \in B
                         /\ <<k, 2>> \in Held' <=> <<k, 2>> \in B
      BY <1>5, <2>1
    <2>4. Held' = B
      BY <1>7, <2>2, <2>3, SameConnections
    <2>5. QED
      BY <2>1, <2>4
  <1>10. ASSUME Holds(from) = 1, Holds(to) = 2
         PROVE  <<j, 2>> \notin Held /\ Held' = Held \cup {<<j, 2>>}
    <2>1. /\ <<j, 1>> \in Held /\ <<j, 2>> \notin Held
          /\ <<j, 1>> \in Held' /\ <<j, 2>> \in Held'
      BY <1>6, <1>10
    <2> DEFINE B == Held \cup {<<j, 2>>}
    <2>2. B \in SUBSET (Job \X {1, 2})
      BY <1>7
    <2>3. \A k \in Job : /\ <<k, 1>> \in Held' <=> <<k, 1>> \in B
                         /\ <<k, 2>> \in Held' <=> <<k, 2>> \in B
      BY <1>5, <2>1
    <2>4. Held' = B
      BY <1>7, <2>2, <2>3, SameConnections
    <2>5. QED
      BY <2>1, <2>4
  <1>11. ASSUME Holds(from) = 2, Holds(to) = 1
         PROVE  <<j, 2>> \in Held /\ Held' = Held \ {<<j, 2>>}
    <2>1. /\ <<j, 1>> \in Held /\ <<j, 2>> \in Held
          /\ <<j, 1>> \in Held' /\ <<j, 2>> \notin Held'
      BY <1>6, <1>11
    <2> DEFINE B == Held \ {<<j, 2>>}
    <2>2. B \in SUBSET (Job \X {1, 2})
      BY <1>7
    <2>3. \A k \in Job : /\ <<k, 1>> \in Held' <=> <<k, 1>> \in B
                         /\ <<k, 2>> \in Held' <=> <<k, 2>> \in B
      BY <1>5, <2>1
    <2>4. Held' = B
      BY <1>7, <2>2, <2>3, SameConnections
    <2>5. QED
      BY <2>1, <2>4
  <1>12. ASSUME Holds(from) = 1, Holds(to) = 0
         PROVE  <<j, 1>> \in Held /\ Held' = Held \ {<<j, 1>>}
    <2>1. /\ <<j, 1>> \in Held /\ <<j, 2>> \notin Held
          /\ <<j, 1>> \notin Held' /\ <<j, 2>> \notin Held'
      BY <1>6, <1>12
    <2> DEFINE B == Held \ {<<j, 1>>}
    <2>2. B \in SUBSET (Job \X {1, 2})
      BY <1>7
    <2>3. \A k \in Job : /\ <<k, 1>> \in Held' <=> <<k, 1>> \in B
                         /\ <<k, 2>> \in Held' <=> <<k, 2>> \in B
      BY <1>5, <2>1
    <2>4. Held' = B
      BY <1>7, <2>2, <2>3, SameConnections
    <2>5. QED
      BY <2>1, <2>4
  <1>13. QED
    BY <1>1, <1>8, <1>9, <1>10, <1>11, <1>12

\* Connections can be counted.
LEMMA HeldCount ==
  /\ IsFiniteSet(Held) /\ Cardinality(Held) \in Nat
  /\ IsFiniteSet(Held') /\ Cardinality(Held') \in Nat
  <1>1. IsFiniteSet({1, 2})
    <2>1. IsFiniteSet({}) /\ IsFiniteSet({1})
      BY FS_EmptySet, FS_Singleton
    <2>2. IsFiniteSet({1} \cup {2}) /\ {1} \cup {2} = {1, 2}
      BY <2>1, FS_AddElement
    <2>3. QED
      BY <2>2
  <1>2. IsFiniteSet(Job \X {1, 2})
    BY <1>1, RetrySchedulingAssumption, FS_Product
  <1>3. Held \subseteq Job \X {1, 2} /\ Held' \subseteq Job \X {1, 2}
    BY DEF Held
  <1>4. IsFiniteSet(Held) /\ IsFiniteSet(Held')
    BY <1>2, <1>3, FS_Subset
  <1>5. QED
    BY <1>4, FS_CardinalityType

\* Taking a connection out of the pool and giving it back, seen from the count.
LEMMA CountMoves ==
  ASSUME NEW c
  PROVE  /\ c \notin Held /\ Held' = Held \cup {c} => Cardinality(Held') = Cardinality(Held) + 1
         /\ c \in Held /\ Held' = Held \ {c} => Cardinality(Held') = Cardinality(Held) - 1
  BY HeldCount, FS_AddElement, FS_RemoveElement

\* The columns a step of a task keeps in type.
ColumnsOK ==
  /\ build \in {"debug", "release"}
  /\ policy \in [Job -> Policies \cup {NoPolicy}]
  /\ attempts \in [Job -> 0 .. MaxAttempts]
  /\ delay \in [Job -> - MaxSeconds .. MaxSeconds]
  /\ found \in [Job -> BOOLEAN]

\* A task that takes a connection.
Takes(j, from, to) ==
  Goto(j, from, to) /\ free > 0 /\ free' = free - 1 /\ Holds(to) = Holds(from) + 1

\* A task that gives one back.
GivesBack(j, from, to) ==
  Goto(j, from, to) /\ free' = free + 1 /\ Holds(to) + 1 = Holds(from)

\* A task that goes on with what it has.
Keeps(j, from, to) ==
  Goto(j, from, to) /\ UNCHANGED free /\ Holds(to) = Holds(from)

(***************************************************************************)
(* A step of a task that moves connections between the pool and the task   *)
(* keeps the pool whole.                                                   *)
(***************************************************************************)
LEMMA TaskMoves ==
  ASSUME PoolInv, NEW j \in Job, NEW from \in Places, NEW to \in Places,
         Takes(j, from, to) \/ GivesBack(j, from, to) \/ Keeps(j, from, to),
         UNCHANGED others, ColumnsOK',
         \A k \in Job : pc'[k] # "dead" => attempts'[k] < MaxAttempts
  PROVE  PoolInv'
  <1>1. /\ TypeOK /\ Goto(j, from, to) /\ free \in Nat /\ others \in Nat /\ Pool \in Nat
        /\ others' = others /\ free + others + Cardinality(Held) = Pool
    BY RetrySchedulingAssumption DEF PoolInv, PoolConserved, TypeOK, Takes, GivesBack, Keeps
  <1>2. Holds(from) \in {0, 1, 2} /\ Holds(to) \in {0, 1, 2}
    BY HoldsAt DEF Places
  <1>3. Cardinality(Held) \in Nat /\ Cardinality(Held') \in Nat
    BY HeldCount
  <1>4. /\ free' \in Nat
        /\ free' + Cardinality(Held') = free + Cardinality(Held)
    <2>1. CASE Takes(j, from, to)
      <3>1. Holds(to) = Holds(from) + 1 /\ free' = free - 1 /\ free > 0
        BY <2>1 DEF Takes
      <3>2. \/ Holds(from) = 0 /\ Holds(to) = 1
            \/ Holds(from) = 1 /\ Holds(to) = 2
        BY <1>2, <3>1
      <3>3. \/ <<j, 1>> \notin Held /\ Held' = Held \cup {<<j, 1>>}
            \/ <<j, 2>> \notin Held /\ Held' = Held \cup {<<j, 2>>}
        <4>1. CASE Holds(from) = 0 /\ Holds(to) = 1
          BY <1>1, <4>1, HeldMoves
        <4>2. CASE Holds(from) = 1 /\ Holds(to) = 2
          BY <1>1, <4>2, HeldMoves
        <4>3. QED
          BY <3>2, <4>1, <4>2
      <3>4. Cardinality(Held') = Cardinality(Held) + 1
        BY <3>3, CountMoves
      <3>5. QED
        BY <1>1, <1>3, <3>1, <3>4
    <2>2. CASE GivesBack(j, from, to)
      <3>1. Holds(to) + 1 = Holds(from) /\ free' = free + 1
        BY <2>2 DEF GivesBack
      <3>2. \/ Holds(from) = 2 /\ Holds(to) = 1
            \/ Holds(from) = 1 /\ Holds(to) = 0
        BY <1>2, <3>1
      <3>3. Cardinality(Held') = Cardinality(Held) - 1
        BY <1>1, <3>2, HeldMoves, CountMoves
      <3>4. QED
        BY <1>1, <1>3, <3>1, <3>3
    <2>3. CASE Keeps(j, from, to)
      <3>1. Holds(to) = Holds(from) /\ free' = free
        BY <2>3 DEF Keeps
      <3>2. Held' = Held
        BY <1>1, <3>1, HeldMoves
      <3>3. QED
        BY <1>1, <1>3, <3>1, <3>2
    <2>4. QED
      BY <2>1, <2>2, <2>3
  <1>5. /\ free' + others' + Cardinality(Held') = Pool /\ free' \in 0 .. Pool
        /\ others' \in 0 .. Pool
    BY <1>1, <1>3, <1>4
  <1>6. pc' \in [Job -> Places]
    BY <1>1, HeldMoves
  <1>7. TypeOK'
    BY <1>5, <1>6 DEF TypeOK, ColumnsOK, Places
  <1>8. QED
    BY <1>5, <1>7 DEF PoolInv, PoolConserved

\* At the start nothing is held.
LEMMA PoolInit == Init => PoolInv
  <1> SUFFICES ASSUME Init PROVE PoolInv
    OBVIOUS
  <1>1. /\ Pool \in Nat /\ MaxAttempts \in Nat \ {0} /\ MaxSeconds \in Nat
    BY RetrySchedulingAssumption
  <1>2. \A j \in Job : pc[j] = "running" /\ attempts[j] = 0
    BY DEF Init
  <1>3. TypeOK
    <2>1. 0 \in - MaxSeconds .. MaxSeconds /\ 0 \in 0 .. MaxAttempts /\ 0 \in 0 .. Pool
          /\ Pool \in 0 .. Pool
      BY <1>1
    <2>2. QED
      BY <2>1 DEF Init, TypeOK
  <1>4. Held = {}
    <2>1. \A c \in Job \X {1, 2} : ~(c[2] <= Holds(pc[c[1]]))
      BY <1>2, HoldsAt
    <2>2. QED
      BY <2>1 DEF Held
  <1>5. free + others + Cardinality(Held) = Pool
    BY <1>1, <1>4, FS_EmptySet DEF Init
  <1>6. QED
    BY <1>1, <1>2, <1>3, <1>5 DEF PoolInv, PoolConserved

(***************************************************************************)
(* Every step of the failure branch, of the other statements, and a        *)
(* restart keep the pool whole.                                            *)
(***************************************************************************)
LEMMA PoolStep == ASSUME PoolInv, [Next]_vars PROVE PoolInv'
  <1>0. /\ TypeOK /\ ColumnsOK /\ free \in Nat /\ others \in Nat /\ Pool \in Nat
        /\ MaxAttempts \in Nat /\ \A j \in Job : attempts[j] \in Nat
        /\ \A j \in Job : pc[j] # "dead" => attempts[j] < MaxAttempts
        /\ free + others + Cardinality(Held) = Pool
    BY RetrySchedulingAssumption DEF PoolInv, PoolConserved, TypeOK, ColumnsOK
  \* Steps of a task that leave attempt_count alone.
  <1>1. ASSUME NEW j \in Job, NEW from \in Places, NEW to \in Places,
               from # "dead", to # "dead",
               Takes(j, from, to) \/ GivesBack(j, from, to) \/ Keeps(j, from, to),
               UNCHANGED <<build, policy, attempts, delay, others>>,
               found' \in [Job -> BOOLEAN]
        PROVE  PoolInv'
    <2>1. ColumnsOK'
      BY <1>0, <1>1 DEF ColumnsOK
    <2>2. \A k \in Job : pc'[k] = "dead" <=> pc[k] = "dead"
      <3>1. Goto(j, from, to)
        BY <1>1 DEF Takes, GivesBack, Keeps
      <3>2. QED
        BY <1>0, <1>1, <3>1 DEF Goto, TypeOK
    <2>3. \A k \in Job : pc'[k] # "dead" => attempts'[k] < MaxAttempts
      BY <1>0, <1>1, <2>2
    <2>4. QED
      BY <1>1, <2>1, <2>3, TaskMoves
  <1>2. ASSUME NEW j \in Job, TaskStep(j) PROVE PoolInv'
    <2>1. CASE HandlerFails(j)
      <3>1. Keeps(j, "running", "begin")
        BY <2>1, HoldsAt DEF HandlerFails, Keeps
      <3>2. found' \in [Job -> BOOLEAN]
        BY <1>0, <2>1 DEF HandlerFails, TypeOK
      <3>3. QED
        BY <1>1, <2>1, <3>1, <3>2 DEF HandlerFails, Places
    <2>2. CASE Begin(j)
      <3>1. PICK to \in {"write", "lookup"} : Takes(j, "begin", to)
        BY <2>2, HoldsAt DEF Begin, Takes
      <3>2. found' \in [Job -> BOOLEAN]
        BY <1>0, <2>2 DEF Begin, TypeOK
      <3>3. QED
        BY <1>1, <2>2, <3>1, <3>2 DEF Begin, Places
    <2>3. CASE BeginTimeout(j)
      <3>1. Keeps(j, "begin", "stuck")
        BY <2>3, HoldsAt DEF BeginTimeout, Keeps
      <3>2. found' \in [Job -> BOOLEAN]
        BY <1>0, <2>3 DEF BeginTimeout, TypeOK
      <3>3. QED
        BY <1>1, <2>3, <3>1, <3>2 DEF BeginTimeout, Places
    <2>4. CASE LookupAcquire(j)
      <3>1. Takes(j, "lookup", "reading")
        BY <2>4, HoldsAt DEF LookupAcquire, Takes
      <3>2. found' \in [Job -> BOOLEAN]
        BY <1>0, <2>4 DEF LookupAcquire, TypeOK
      <3>3. QED
        BY <1>1, <2>4, <3>1, <3>2 DEF LookupAcquire, Places
    <2>5. CASE LookupTimeout(j)
      <3>1. Keeps(j, "lookup", "write")
        BY <2>5, HoldsAt DEF LookupTimeout, Keeps
      <3>2. found' \in [Job -> BOOLEAN]
        BY <1>0, <2>5 DEF LookupTimeout, TypeOK
      <3>3. QED
        BY <1>1, <2>5, <3>1, <3>2 DEF LookupTimeout, Places
    <2>6. CASE LookupReply(j)
      <3>1. GivesBack(j, "reading", "write")
        BY <2>6, HoldsAt DEF LookupReply, GivesBack
      <3>2. found' \in [Job -> BOOLEAN]
        BY <1>0, <2>6 DEF LookupReply, TypeOK
      <3>3. QED
        BY <1>1, <2>6, <3>1, <3>2 DEF LookupReply, Places
    <2>7. CASE RecordFails(j) \/ Panic(j)
      <3>1. PICK to \in {"stuck", "lost"} : GivesBack(j, "write", to)
        BY <2>7, HoldsAt DEF RecordFails, Panic, GivesBack
      <3>2. found' \in [Job -> BOOLEAN]
        BY <1>0, <2>7 DEF RecordFails, Panic, TypeOK
      <3>3. QED
        BY <1>1, <2>7, <3>1, <3>2 DEF RecordFails, Panic, Places
    <2>8. CASE RunAgain(j)
      <3>1. Keeps(j, "waiting", "running")
        BY <2>8, HoldsAt DEF RunAgain, Keeps
      <3>2. found' \in [Job -> BOOLEAN]
        BY <1>0, <2>8 DEF RunAgain, TypeOK
      <3>3. QED
        BY <1>1, <2>8, <3>1, <3>2 DEF RunAgain, Places
    \* The failure is recorded: attempt_count goes up by one.
    <2>9. CASE ScheduleRetry(j)
      <3>1. /\ GivesBack(j, "write", "waiting") /\ UNCHANGED <<build, policy, found, others>>
            /\ pc[j] = "write" /\ attempts' = [attempts EXCEPT ![j] = attempts[j] + 1]
            /\ ~(attempts[j] + 1 >= MaxAttempts)
        BY <2>9, HoldsAt DEF ScheduleRetry, GivesBack, Goto, Attempt, ShouldDlq
      <3>2. attempts' \in [Job -> 0 .. MaxAttempts]
        BY <1>0, <3>1 DEF TypeOK
      <3>3. delay' \in [Job -> - MaxSeconds .. MaxSeconds]
        <4>1. CalculateRetryDelay(j) \in - MaxSeconds .. MaxSeconds
          BY <2>9 DEF ScheduleRetry, Panics
        <4>2. QED
          BY <1>0, <2>9, <4>1 DEF ScheduleRetry, TypeOK
      <3>4. ColumnsOK'
        BY <1>0, <3>1, <3>2, <3>3 DEF ColumnsOK
      <3>5. \A k \in Job : pc'[k] # "dead" => attempts'[k] < MaxAttempts
        <4>1. \A k \in Job : k # j => pc'[k] = pc[k] /\ attempts'[k] = attempts[k]
          BY <1>0, <3>1 DEF GivesBack, Goto, TypeOK
        <4>2. attempts'[j] < MaxAttempts
          BY <1>0, <3>1 DEF TypeOK
        <4>3. QED
          BY <1>0, <4>1, <4>2
      <3>6. QED
        BY <3>1, <3>4, <3>5, TaskMoves DEF Places
    <2>10. CASE MoveToDlq(j)
      <3>1. /\ GivesBack(j, "write", "dead") /\ UNCHANGED <<build, policy, delay, found, others>>
            /\ pc[j] = "write" /\ attempts' = [attempts EXCEPT ![j] = attempts[j] + 1]
        BY <2>10, HoldsAt DEF MoveToDlq, GivesBack, Goto, Attempt
      <3>2. attempts' \in [Job -> 0 .. MaxAttempts]
        <4>1. attempts[j] + 1 \in 0 .. MaxAttempts
          BY <1>0, <3>1
        <4>2. QED
          BY <1>0, <3>1, <4>1 DEF TypeOK
      <3>3. ColumnsOK'
        BY <1>0, <3>1, <3>2 DEF ColumnsOK
      <3>4. \A k \in Job : pc'[k] # "dead" => attempts'[k] < MaxAttempts
        <4>1. /\ \A k \in Job : k # j => pc'[k] = pc[k] /\ attempts'[k] = attempts[k]
              /\ pc'[j] = "dead"
          BY <1>0, <3>1 DEF GivesBack, Goto, TypeOK
        <4>2. QED
          BY <1>0, <4>1
      <3>5. QED
        BY <3>1, <3>3, <3>4, TaskMoves DEF Places
    <2>11. QED
      BY <1>2, <2>1, <2>2, <2>3, <2>4, <2>5, <2>6, <2>7, <2>8, <2>9, <2>10 DEF TaskStep
  <1>3. CASE Borrow \/ Return \/ UNCHANGED vars
    <2>1. UNCHANGED <<build, policy, pc, attempts, delay, found>>
      BY <1>3 DEF Borrow, Return, vars
    <2>2. Held' = Held
      BY <2>1 DEF Held
    <2>3. /\ free' \in Nat /\ others' \in Nat /\ free' + others' = free + others
      <3>1. CASE Borrow
        BY <1>0, <3>1 DEF Borrow
      <3>2. CASE Return
        BY <1>0, <3>2 DEF Return
      <3>3. CASE UNCHANGED vars
        BY <1>0, <3>3 DEF vars
      <3>4. QED
        BY <1>3, <3>1, <3>2, <3>3
    <2>4. Cardinality(Held) \in Nat /\ Cardinality(Held') = Cardinality(Held)
      BY <2>2, HeldCount
    <2>5. /\ free' + others' + Cardinality(Held') = Pool
          /\ free' \in 0 .. Pool /\ others' \in 0 .. Pool
      <3>1. free' + others' + Cardinality(Held') = Pool
        BY <1>0, <2>3, <2>4
      <3>2. QED
        BY <1>0, <2>3, <2>4, <3>1
    <2>6. TypeOK'
      BY <1>0, <2>1, <2>5 DEF TypeOK
    <2>7. QED
      BY <1>0, <2>1, <2>5, <2>6 DEF PoolInv, PoolConserved
  <1>4. CASE Restart
    <2>1. /\ free' = Pool /\ others' = 0 /\ UNCHANGED <<build, policy, attempts, delay, found>>
          /\ pc' \in [Job -> Places]
          /\ \A k \in Job : /\ pc'[k] \in {"running", "waiting", "dead"}
                            /\ pc'[k] # "dead" => pc[k] # "dead"
      BY <1>0, <1>4 DEF Restart, TypeOK, Places
    <2>2. Held' = {}
      <3>1. \A c \in Job \X {1, 2} : ~(c[2] <= Holds(pc'[c[1]]))
        BY <2>1, HoldsAt
      <3>2. QED
        BY <3>1 DEF Held
    <2>3. free' + others' + Cardinality(Held') = Pool
      BY <1>0, <2>1, <2>2, FS_EmptySet
    <2>4. TypeOK'
      <3>1. free' \in 0 .. Pool /\ others' \in 0 .. Pool
        BY <1>0, <2>1
      <3>2. QED
        BY <1>0, <2>1, <3>1 DEF TypeOK, Places
    <2>5. QED
      BY <1>0, <2>1, <2>3, <2>4 DEF PoolInv, PoolConserved
  <1>5. QED
    BY <1>2, <1>3, <1>4 DEF Next

\* The failure branch is type correct: delays fit a date, attempts the budget.
THEOREM TypeCorrect == Spec => []TypeOK
  <1>1. PoolInv => TypeOK
    BY DEF PoolInv
  <1>2. QED
    BY <1>1, PoolInit, PoolStep, PTL DEF Spec

(***************************************************************************)
(* No path of the failure branch leaks a connection, for any pool and any  *)
(* number of tasks: timeouts, failed look-ups and panics included.         *)
(***************************************************************************)
THEOREM PoolConservedHolds == Spec => []PoolConserved
  <1>1. PoolInv => PoolConserved
    BY DEF PoolInv
  <1>2. QED
    BY <1>1, PoolInit, PoolStep, PTL DEF Spec

-----------------------------------------------------------------------------
(* Induction over the naturals, in a form without an operator parameter    *)

\* A set of naturals that has 0 and the successor of each member is all of them.
LEMMA Induction ==
  ASSUME NEW S \in SUBSET Nat, 0 \in S, \A n \in S : n + 1 \in S
  PROVE  \A n \in Nat : n \in S
  <1> DEFINE R == {ss \in Nat \X Nat : ss[1] < ss[2]}
             T == Nat \ S
  <1>1. IsWellFoundedOn(R, Nat)
    BY NatLessThanWellFounded DEF OpToRel
  <1>2. SUFFICES ASSUME T # {} PROVE FALSE
    OBVIOUS
  <1>3. PICK x \in T : \A y \in T : ~(<<y, x>> \in R)
    <2>1. T \subseteq Nat
      OBVIOUS
    <2> HIDE DEF R, T
    <2>2. QED
      BY <1>1, <1>2, <2>1, WFMin
  <1>4. x \in Nat /\ x # 0 /\ x - 1 \in Nat /\ x - 1 < x
    BY <1>3
  <1>5. x - 1 \notin T
    BY <1>3, <1>4
  <1>6. (x - 1) + 1 \in S
    BY <1>4, <1>5
  <1>7. QED
    BY <1>4, <1>6

\* g is what n applications of step to base give, one by one.
Iterates(base, step, g, n) ==
  g \in [0 .. n -> Nat] /\ g[0] = base /\ \A k \in 1 .. n : g[k] = step[g[k - 1]]

\* They exist, for any number of applications.
LEMMA IteratesExist ==
  ASSUME NEW base \in Nat, NEW step \in [Nat -> Nat]
  PROVE  \A n \in Nat : \E g : Iterates(base, step, g, n)
  <1> DEFINE S == {n \in Nat : \E g : Iterates(base, step, g, n)}
  <1>1. 0 \in S
    <2>1. Iterates(base, step, [k \in 0 .. 0 |-> base], 0)
      BY DEF Iterates
    <2>2. QED
      BY <2>1
  <1>2. ASSUME NEW n \in S PROVE n + 1 \in S
    <2>1. PICK g : Iterates(base, step, g, n)
      BY <1>2
    <2> DEFINE h == [k \in 0 .. n + 1 |-> IF k = n + 1 THEN step[g[n]] ELSE g[k]]
    <2>2. n \in Nat /\ \A k \in 0 .. n : g[k] \in Nat
      BY <1>2, <2>1 DEF Iterates
    <2>3. \A k \in 0 .. n + 1 : h[k] \in Nat
      BY <2>2
    <2>4. h[0] = base
      BY <2>1, <2>2 DEF Iterates
    <2>5. ASSUME NEW k \in 1 .. n + 1 PROVE h[k] = step[h[k - 1]]
      <3>1. k \in 0 .. n + 1 /\ k - 1 \in 0 .. n + 1 /\ k - 1 # n + 1
        BY <2>2
      <3>2. h[k - 1] = g[k - 1] /\ h[k] = IF k = n + 1 THEN step[g[n]] ELSE g[k]
        BY <3>1
      <3>3. CASE k = n + 1
        BY <2>2, <3>2, <3>3
      <3>4. CASE k # n + 1
        <4>1. k \in 1 .. n
          BY <2>2, <3>4
        <4>2. g[k] = step[g[k - 1]]
          BY <2>1, <4>1 DEF Iterates
        <4>3. QED
          BY <3>2, <3>4, <4>2
      <3>5. QED
        BY <3>3, <3>4
    <2>6. Iterates(base, step, h, n + 1)
      BY <2>2, <2>3, <2>4, <2>5 DEF Iterates
    <2>7. QED
      BY <2>2, <2>6
  <1>3. S \in SUBSET Nat
    OBVIOUS
  <1>4. \A n \in Nat : n \in S
    <2> HIDE DEF S
    <2> QED
      BY <1>1, <1>2, <1>3, Induction
  <1>5. QED
    BY <1>4

\* And are the same as far as both go.
LEMMA IteratesAgree ==
  ASSUME NEW base \in Nat, NEW step \in [Nat -> Nat], NEW n \in Nat, NEW m \in Nat, n <= m,
         NEW g, NEW h, Iterates(base, step, g, n), Iterates(base, step, h, m)
  PROVE  \A k \in 0 .. n : g[k] = h[k]
  <1> DEFINE S == {k \in Nat : k <= n => g[k] = h[k]}
  <1>1. 0 \in S
    BY DEF Iterates
  <1>2. ASSUME NEW k \in S PROVE k + 1 \in S
    <2>1. SUFFICES ASSUME k + 1 <= n PROVE g[k + 1] = h[k + 1]
      BY <1>2
    <2>2. k \in Nat /\ g[k] = h[k]
      BY <1>2, <2>1
    <2>3. k + 1 \in 1 .. n /\ k + 1 \in 1 .. m /\ (k + 1) - 1 = k
      BY <2>1, <2>2
    <2>4. g[k + 1] = step[g[k]] /\ h[k + 1] = step[h[k]]
      BY <2>3 DEF Iterates
    <2>5. QED
      BY <2>2, <2>4
  <1>3. S \in SUBSET Nat
    OBVIOUS
  <1>4. \A k \in Nat : k \in S
    <2> HIDE DEF S
    <2> QED
      BY <1>1, <1>2, <1>3, Induction
  <1>5. QED
    BY <1>4

\* Definition by recursion: there is a function that starts with base and goes
\* on with step.
LEMMA Recursion ==
  ASSUME NEW base \in Nat, NEW step \in [Nat -> Nat]
  PROVE  \E f \in [Nat -> Nat] : f[0] = base /\ \A n \in Nat : f[n + 1] = step[f[n]]
  <1> DEFINE P == [n \in Nat |-> (CHOOSE g : Iterates(base, step, g, n))[n]]
  <1>1. ASSUME NEW n \in Nat PROVE P[n] \in Nat /\ P[n + 1] = step[P[n]] /\ (n = 0 => P[n] = base)
    <2>1. PICK g : g = CHOOSE f : Iterates(base, step, f, n)
      OBVIOUS
    <2>2. PICK h : h = CHOOSE f : Iterates(base, step, f, n + 1)
      OBVIOUS
    <2>3. Iterates(base, step, g, n) /\ P[n] = g[n]
      BY <2>1, IteratesExist
    <2>4. Iterates(base, step, h, n + 1) /\ P[n + 1] = h[n + 1]
      <3>1. n + 1 \in Nat
        OBVIOUS
      <3>2. QED
        BY <2>2, <3>1, IteratesExist
    <2>5. n \in 0 .. n /\ n <= n + 1 /\ n + 1 \in 1 .. n + 1 /\ (n + 1) - 1 = n /\ n + 1 \in Nat
      OBVIOUS
    <2>6. g[n] = h[n]
      BY <2>3, <2>4, <2>5, IteratesAgree
    <2>7. h[n + 1] = step[h[n]]
      BY <2>4, <2>5 DEF Iterates
    <2>8. g[n] \in Nat /\ (n = 0 => g[n] = base)
      BY <2>3, <2>5 DEF Iterates
    <2>9. QED
      BY <2>3, <2>4, <2>6, <2>7, <2>8
  <1>2. P = [n \in Nat |-> P[n]]
    OBVIOUS
  <1> HIDE DEF P
  <1>3. P \in [Nat -> Nat]
    BY <1>1, <1>2
  <1>4. QED
    BY <1>1, <1>3

-----------------------------------------------------------------------------
(* The integers of the code                                                *)

\* Pow is repeated multiplication.
LEMMA PowDef ==
  ASSUME NEW b \in Nat
  PROVE  /\ Pow(b, 0) = 1
         /\ \A n \in Nat : Pow(b, n) \in Nat /\ Pow(b, n + 1) = b * Pow(b, n)
  <1> DEFINE F == CHOOSE f : f = [k \in Nat |-> IF k = 0 THEN 1 ELSE b * f[k - 1]]
             step == [x \in Nat |-> b * x]
  <1>1. step \in [Nat -> Nat]
    OBVIOUS
  <1>2. \E g \in [Nat -> Nat] : g[0] = 1 /\ \A n \in Nat : g[n + 1] = step[g[n]]
    <2> HIDE DEF step
    <2>1. 1 \in Nat
      OBVIOUS
    <2> QED
      BY <1>1, <2>1, Recursion, Zenon
  <1>3. PICK g \in [Nat -> Nat] : g[0] = 1 /\ \A n \in Nat : g[n + 1] = step[g[n]]
    BY <1>2
  <1>4. \A n \in Nat : g[n + 1] = b * g[n]
    BY <1>3
  <1>5. g = [k \in Nat |-> IF k = 0 THEN 1 ELSE b * g[k - 1]]
    <2>1. ASSUME NEW k \in Nat, k # 0 PROVE g[k] = b * g[k - 1]
      <3>1. k - 1 \in Nat /\ (k - 1) + 1 = k
        BY <2>1
      <3>2. QED
        BY <1>4, <3>1
    <2>2. \A k \in Nat : g[k] = IF k = 0 THEN 1 ELSE b * g[k - 1]
      BY <1>3, <2>1
    <2>3. g = [k \in Nat |-> g[k]]
      BY <1>3
    <2>4. QED
      BY <2>2, <2>3
  <1>6. F = [k \in Nat |-> IF k = 0 THEN 1 ELSE b * F[k - 1]]
    BY <1>5
  <1>7. \A n : Pow(b, n) = F[n]
    BY DEF Pow
  <1> HIDE DEF F
  <1>8. F[0] = 1 /\ \A n \in Nat : F[n + 1] = b * F[n]
    BY <1>6
  <1> DEFINE S == {n \in Nat : F[n] \in Nat}
  <1>9. 0 \in S /\ S \in SUBSET Nat
    BY <1>8
  <1>10. ASSUME NEW n \in S PROVE n + 1 \in S
    BY <1>8, <1>10
  <1>11. \A n \in Nat : n \in S
    <2> HIDE DEF S
    <2> QED
      BY <1>9, <1>10, Induction
  <1>12. QED
    BY <1>7, <1>8, <1>11

\* Powers of two are positive and grow.
LEMMA PowersGrow ==
  ASSUME NEW m \in Nat
  PROVE  \A n \in Nat : Pow(2, m + n) \in Nat /\ 0 < Pow(2, m) /\ Pow(2, m) <= Pow(2, m + n)
  <1>0. \A n \in Nat : Pow(2, n) \in Nat /\ Pow(2, n + 1) = 2 * Pow(2, n)
    BY PowDef
  <1>1. 0 < Pow(2, m)
    <2> DEFINE S == {n \in Nat : 0 < Pow(2, n)}
    <2>1. 0 \in S /\ S \in SUBSET Nat
      BY PowDef
    <2>2. ASSUME NEW n \in S PROVE n + 1 \in S
      BY <1>0, <2>2
    <2>3. m \in S
      <3> HIDE DEF S
      <3> QED
        BY <2>1, <2>2, Induction
    <2>4. QED
      BY <2>3
  <1> DEFINE T == {n \in Nat : Pow(2, m) <= Pow(2, m + n)}
  <1>2. 0 \in T /\ T \in SUBSET Nat
    <2>1. m + 0 = m /\ Pow(2, m) \in Nat
      BY <1>0
    <2>2. QED
      BY <2>1
  <1>3. ASSUME NEW n \in T PROVE n + 1 \in T
    <2>1. n \in Nat /\ m + n \in Nat /\ (m + n) + 1 = m + (n + 1)
      BY <1>3
    <2>2. Pow(2, m + (n + 1)) = 2 * Pow(2, m + n) /\ Pow(2, m + n) \in Nat /\ Pow(2, m) \in Nat
      BY <1>0, <2>1
    <2>3. Pow(2, m) <= Pow(2, m + n)
      BY <1>3
    <2>4. Pow(2, m) <= Pow(2, m + (n + 1))
      BY <2>2, <2>3
    <2>5. QED
      BY <2>1, <2>4
  <1>4. \A n \in Nat : n \in T
    <2> HIDE DEF T
    <2> QED
      BY <1>2, <1>3, Induction
  <1>5. ASSUME NEW n \in Nat PROVE Pow(2, m + n) \in Nat /\ Pow(2, m) <= Pow(2, m + n)
    <2>1. m + n \in Nat /\ n \in T
      BY <1>4
    <2>2. QED
      BY <1>0, <2>1
  <1>6. QED
    BY <1>1, <1>5

\* The smaller of two integers.
LEMMA MinOfTwo ==
  ASSUME NEW a \in Int, NEW b \in Int
  PROVE  Min({a, b}) = IF a <= b THEN a ELSE b
  <1>1. PICK m : m = IF a <= b THEN a ELSE b
    OBVIOUS
  <1>2. m \in {a, b} /\ \A y \in {a, b} : m <= y
    BY <1>1
  <1>3. \A x \in {a, b} : (\A y \in {a, b} : x <= y) => x = m
    BY <1>1
  <1>4. Min({a, b}) = m
    BY <1>2, <1>3 DEF Min
  <1>5. QED
    BY <1>1, <1>4

\* What fits the type is not wrapped.
LEMMA WrapFits ==
  ASSUME NEW x \in Nat, x <= MaxInt
  PROVE  Wrap(x) = x
  <1>1. Width - 1 \in Nat
    BY RetrySchedulingAssumption
  <1>2. PICK h : h = HalfRange
    OBVIOUS
  <1>3. h \in Nat
    BY <1>1, <1>2, PowDef DEF HalfRange
  <1>4. x < h
    BY <1>2, <1>3 DEF MaxInt
  <1>5. (x + h) % (2 * h) = x + h
    BY <1>3, <1>4
  <1>6. QED
    BY <1>2, <1>3, <1>5 DEF Wrap

-----------------------------------------------------------------------------
(* What the delays are meant to be, in closed form                         *)

\* A cap before the product makes no difference under a cap after it.
LEMMA CapOnce ==
  ASSUME NEW c \in Nat, NEW x \in Nat, NEW m \in Nat, m # 0
  PROVE  Min({c, Min({c, x}) * m}) = Min({c, x * m})
  <1>1. c * m \in Nat /\ x * m \in Nat /\ c <= c * m
    OBVIOUS
  <1>2. CASE c <= x
    <2>1. Min({c, x}) = c
      BY <1>2, MinOfTwo
    <2>2. c * m <= x * m
      BY <1>2
    <2>3. c <= x * m
      BY <1>1, <2>2
    <2>4. Min({c, c * m}) = c /\ Min({c, x * m}) = c
      BY <1>1, <2>3, MinOfTwo
    <2>5. QED
      BY <2>1, <2>4
  <1>3. CASE x < c
    <2>1. Min({c, x}) = x
      BY <1>3, MinOfTwo
    <2>2. QED
      BY <2>1
  <1>4. QED
    BY <1>2, <1>3

\* The default strategy: 10 s, doubled for each further attempt, at most 300 s.
LEMMA DoublingIs ==
  ASSUME NEW n \in Nat \ {0}
  PROVE  Doubling[n] = Min({300, 10 * Pow(2, n - 1)})
  <1> DEFINE C(k) == Min({300, 10 * Pow(2, k)})
             W == [k \in Nat |-> IF k <= 1 THEN 10 ELSE C(k - 1)]
             S == {k \in Nat : Doubling[k + 1] = C(k)}
  <1>1. C(0) = 10
    <2>1. Pow(2, 0) = 1
      BY PowDef
    <2>2. PICK x \in Nat : x = 10 * Pow(2, 0)
      BY <2>1
    <2>3. Min({300, x}) = x /\ x = 10
      BY <2>1, <2>2, MinOfTwo
    <2>4. QED
      BY <2>2, <2>3
  <1>2. ASSUME NEW k \in Nat PROVE C(k + 1) = Min({300, 2 * C(k)}) /\ C(k) \in Nat
    <2>1. PICK x \in Nat : x = 10 * Pow(2, k)
      BY PowDef
    <2>2. 10 * Pow(2, k + 1) = x * 2
      <3>1. Pow(2, k + 1) = 2 * Pow(2, k) /\ Pow(2, k) \in Nat
        BY PowDef
      <3>2. QED
        BY <2>1, <3>1
    <2>3. Min({300, Min({300, x}) * 2}) = Min({300, x * 2}) /\ Min({300, x}) \in Nat
      BY CapOnce, MinOfTwo
    <2>4. Min({300, x}) * 2 = 2 * Min({300, x})
      BY <2>3
    <2>5. QED
      BY <2>1, <2>2, <2>3, <2>4
  <1> HIDE DEF C
  <1>3. W = [k \in Nat |-> IF k <= 1 THEN 10 ELSE Min({300, 2 * W[k - 1]})]
    <2>1. ASSUME NEW k \in Nat, ~(k <= 1) PROVE W[k] = Min({300, 2 * W[k - 1]})
      <3>1. k - 1 \in Nat /\ k - 2 \in Nat /\ (k - 2) + 1 = k - 1 /\ (k - 1) - 1 = k - 2
        BY <2>1
      <3>2. W[k] = C(k - 1)
        BY <2>1
      <3>3. C(k - 1) = Min({300, 2 * C(k - 2)})
        BY <1>2, <3>1
      <3>4. W[k - 1] = C(k - 2)
        <4>1. CASE k - 1 <= 1
          <5>1. k - 2 = 0
            BY <2>1, <3>1, <4>1
          <5>2. W[k - 1] = 10
            BY <3>1, <4>1
          <5>3. QED
            BY <1>1, <5>1, <5>2
        <4>2. CASE ~(k - 1 <= 1)
          BY <3>1, <4>2
        <4>3. QED
          BY <4>1, <4>2
      <3>5. QED
        BY <3>2, <3>3, <3>4
    <2>2. \A k \in Nat : k <= 1 => W[k] = 10
      OBVIOUS
    <2>3. W = [k \in Nat |-> W[k]]
      OBVIOUS
    <2> HIDE DEF W
    <2>4. \A k \in Nat : W[k] = IF k <= 1 THEN 10 ELSE Min({300, 2 * W[k - 1]})
      BY <2>1, <2>2
    <2>5. QED
      BY <2>3, <2>4
  <1> HIDE DEF W
  <1>4. Doubling = [k \in Nat |-> IF k <= 1 THEN 10 ELSE Min({300, 2 * Doubling[k - 1]})]
    BY <1>3 DEF Doubling
  <1>5. Doubling[1] = 10
    BY <1>4
  <1>6. 0 \in S /\ S \in SUBSET Nat
    BY <1>1, <1>5
  <1>7. ASSUME NEW k \in S PROVE k + 1 \in S
    <2>1. k \in Nat /\ Doubling[k + 1] = C(k)
      BY <1>7
    <2>2. k + 2 \in Nat /\ ~(k + 2 <= 1) /\ (k + 2) - 1 = k + 1 /\ (k + 1) + 1 = k + 2
      BY <2>1
    <2>3. Doubling[k + 2] = Min({300, 2 * Doubling[k + 1]})
      BY <1>4, <2>2
    <2>4. Doubling[(k + 1) + 1] = C(k + 1)
      BY <1>2, <2>1, <2>2, <2>3
    <2>5. QED
      BY <2>1, <2>4
  <1>8. n - 1 \in Nat /\ (n - 1) + 1 = n
    OBVIOUS
  <1>9. \A k \in Nat : k \in S
    <2> HIDE DEF S
    <2> QED
      BY <1>6, <1>7, Induction
  <1>10. Doubling[n] = C(n - 1)
    BY <1>8, <1>9
  <1>11. QED
    BY <1>10 DEF C

\* What a policy's delays are meant to be, in closed form: growth under a cap.
Growth(p, k) ==
  CASE p.strategy = "fixed" -> p.base
    [] p.strategy = "linear" -> p.base * (k + 1)
    [] p.strategy = "exponential" -> p.base * Pow(Multiplier(p), k)

ClosedForm(p, k) == WithCap(p, Growth(p, k))

\* A policy and its fields.
LEMMA PolicyFields ==
  ASSUME NEW p \in Policies
  PROVE  /\ p.strategy \in {"fixed", "linear", "exponential"}
         /\ p.base \in Nat /\ p.max \in Nat /\ Multiplier(p) \in Nat \ {0}
  BY RetrySchedulingAssumption DEF Multiplier

\* From one attempt to the next.
LEMMA GrowthStep ==
  ASSUME NEW p \in Policies, NEW k \in Nat
  PROVE  /\ Growth(p, k) \in Nat /\ Growth(p, 0) = p.base
         /\ p.strategy = "fixed" => Growth(p, k + 1) = p.base
         /\ p.strategy = "linear" => Growth(p, k + 1) = Growth(p, k) + p.base
         /\ p.strategy = "exponential" => Growth(p, k + 1) = Growth(p, k) * Multiplier(p)
  <1>1. CASE p.strategy = "fixed"
    BY <1>1, PolicyFields DEF Growth
  <1>2. CASE p.strategy = "linear"
    <2>1. Growth(p, k) = p.base * (k + 1) /\ Growth(p, 0) = p.base * (0 + 1)
          /\ Growth(p, k + 1) = p.base * ((k + 1) + 1)
      BY <1>2 DEF Growth
    <2>2. p.base \in Nat
      BY PolicyFields
    <2>3. p.base * ((k + 1) + 1) = p.base * (k + 1) + p.base /\ p.base * (k + 1) \in Nat
      BY <2>2
    <2>4. QED
      BY <1>2, <2>1, <2>2, <2>3
  <1>3. CASE p.strategy = "exponential"
    <2>1. PICK m \in Nat \ {0} : m = Multiplier(p)
      BY PolicyFields
    <2>2. Growth(p, k) = p.base * Pow(m, k) /\ Growth(p, 0) = p.base * Pow(m, 0)
          /\ Growth(p, k + 1) = p.base * Pow(m, k + 1)
      BY <1>3, <2>1 DEF Growth
    <2>3. p.base \in Nat /\ Pow(m, 0) = 1 /\ Pow(m, k) \in Nat /\ Pow(m, k + 1) = m * Pow(m, k)
      BY PowDef, PolicyFields
    <2>4. PICK x \in Nat : x = Pow(m, k)
      BY <2>3
    <2>5. p.base * (m * x) = (p.base * x) * m /\ p.base * x \in Nat
      BY <2>3
    <2>6. QED
      BY <1>3, <2>1, <2>2, <2>3, <2>4, <2>5
  <1>4. QED
    BY <1>1, <1>2, <1>3, PolicyFields

\* The closed form satisfies the recurrence.
LEMMA ClosedFormStep ==
  ASSUME NEW p \in Policies, NEW k \in Nat
  PROVE  WithCap(p, Grown(p, ClosedForm(p, k))) = ClosedForm(p, k + 1)
  <1>1. CASE p.strategy = "fixed"
    <2>1. Growth(p, k + 1) = p.base
      BY <1>1, GrowthStep
    <2>2. \A d : Grown(p, d) = p.base
      BY <1>1 DEF Grown
    <2>3. QED
      BY <2>1, <2>2 DEF ClosedForm
  <1>2. CASE p.strategy = "linear"
    <2>1. PICK x \in Nat : x = Growth(p, k)
      BY GrowthStep
    <2>2. Growth(p, k + 1) = x + p.base
      BY <1>2, <2>1, GrowthStep
    <2>3. ClosedForm(p, k) = x /\ ClosedForm(p, k + 1) = x + p.base
      BY <1>2, <2>1, <2>2 DEF ClosedForm, WithCap
    <2>4. WithCap(p, Grown(p, x)) = x + p.base
      BY <1>2 DEF Grown, WithCap
    <2>5. QED
      BY <2>3, <2>4
  <1>3. CASE p.strategy = "exponential"
    <2>1. PICK m \in Nat \ {0} : m = Multiplier(p)
      BY PolicyFields
    <2>2. PICK x \in Nat : x = Growth(p, k)
      BY GrowthStep
    <2>3. Growth(p, k + 1) = x * m
      BY <1>3, <2>1, <2>2, GrowthStep
    <2>4. \A d \in Nat : Grown(p, d) = d * m
      BY <1>3, <2>1 DEF Grown
    <2>5. p.max \in Nat
      BY PolicyFields
    <2>6. CASE p.max = 0
      <3>1. ClosedForm(p, k) = x /\ ClosedForm(p, k + 1) = x * m /\ WithCap(p, x * m) = x * m
        BY <2>2, <2>3, <2>6 DEF ClosedForm, WithCap
      <3>2. QED
        BY <2>4, <3>1
    <2>7. CASE p.max # 0
      <3>1. \A d : WithCap(p, d) = Min({p.max, d})
        BY <1>3, <2>7 DEF WithCap
      <3>2. ClosedForm(p, k) = Min({p.max, x}) /\ ClosedForm(p, k + 1) = Min({p.max, x * m})
        BY <2>2, <2>3, <3>1 DEF ClosedForm
      <3>3. Min({p.max, x}) \in Nat
        BY <2>5, MinOfTwo
      <3>4. Min({p.max, Min({p.max, x}) * m}) = Min({p.max, x * m})
        BY <2>5, CapOnce
      <3>5. WithCap(p, Grown(p, Min({p.max, x}))) = Min({p.max, Min({p.max, x}) * m})
        BY <2>4, <3>1, <3>3
      <3>6. QED
        BY <3>2, <3>4, <3>5
    <2>8. QED
      BY <2>6, <2>7
  <1>4. QED
    BY <1>1, <1>2, <1>3, PolicyFields

\* A policy's delays, term by term as it is meant, are the closed form.
LEMMA PolicyDelaysAre ==
  ASSUME NEW p \in Policies, NEW n \in Nat \ {0}
  PROVE  PolicyDelays(p)[n] = ClosedForm(p, n - 1)
  <1> DEFINE W == [k \in Nat |-> IF k <= 1 THEN ClosedForm(p, 0) ELSE ClosedForm(p, k - 1)]
             F == CHOOSE f : f = [k \in Nat |-> WithCap(p, IF k <= 1 THEN p.base ELSE Grown(p, f[k - 1]))]
             S == {k \in Nat : F[k + 1] = ClosedForm(p, k)}
  <1>0. WithCap(p, p.base) = ClosedForm(p, 0)
    BY GrowthStep DEF ClosedForm
  <1>1. W = [k \in Nat |-> WithCap(p, IF k <= 1 THEN p.base ELSE Grown(p, W[k - 1]))]
    <2>1. ASSUME NEW k \in Nat, ~(k <= 1) PROVE W[k] = WithCap(p, Grown(p, W[k - 1]))
      <3>1. PICK i \in Nat : k = i + 2
        <4>1. k - 2 \in Nat /\ k = (k - 2) + 2
          BY <2>1
        <4>2. QED
          BY <4>1
      <3>2. k - 1 = i + 1 /\ i + 1 \in Nat
        BY <3>1
      <3>3. W[k] = ClosedForm(p, i + 1)
        BY <2>1, <3>2
      <3>4. W[i + 1] = ClosedForm(p, i)
        <4>1. CASE i = 0
          BY <3>2, <4>1
        <4>2. CASE i # 0
          <5>1. ~(i + 1 <= 1) /\ (i + 1) - 1 = i
            BY <4>2
          <5>2. QED
            BY <3>2, <5>1
        <4>3. QED
          BY <4>1, <4>2
      <3> HIDE DEF W
      <3>5. WithCap(p, Grown(p, ClosedForm(p, i))) = ClosedForm(p, i + 1)
        BY ClosedFormStep
      <3>6. QED
        BY <3>2, <3>3, <3>4, <3>5
    <2>2. \A k \in Nat : k <= 1 => W[k] = WithCap(p, p.base)
      BY <1>0
    <2>3. W = [k \in Nat |-> W[k]]
      OBVIOUS
    <2> HIDE DEF W
    <2>4. \A k \in Nat : W[k] = WithCap(p, IF k <= 1 THEN p.base ELSE Grown(p, W[k - 1]))
      BY <2>1, <2>2
    <2>5. QED
      BY <2>3, <2>4
  <1> HIDE DEF W
  <1>2. F = [k \in Nat |-> WithCap(p, IF k <= 1 THEN p.base ELSE Grown(p, F[k - 1]))]
    BY <1>1
  <1>3. PolicyDelays(p) = F
    BY DEF PolicyDelays
  <1> HIDE DEF F
  <1>4. 0 \in S /\ S \in SUBSET Nat
    <2>1. F[1] = ClosedForm(p, 0)
      BY <1>0, <1>2
    <2>2. QED
      BY <2>1
  <1>5. ASSUME NEW k \in S PROVE k + 1 \in S
    <2>1. k \in Nat /\ F[k + 1] = ClosedForm(p, k)
      BY <1>5
    <2>2. k + 2 \in Nat /\ ~(k + 2 <= 1) /\ (k + 2) - 1 = k + 1 /\ (k + 1) + 1 = k + 2
      BY <2>1
    <2>3. F[k + 2] = WithCap(p, Grown(p, F[k + 1]))
      BY <1>2, <2>2
    <2>4. WithCap(p, Grown(p, ClosedForm(p, k))) = ClosedForm(p, k + 1)
      BY <2>1, ClosedFormStep
    <2>5. F[(k + 1) + 1] = ClosedForm(p, k + 1)
      BY <2>1, <2>2, <2>3, <2>4
    <2>6. QED
      BY <2>1, <2>5
  <1>6. \A k \in Nat : k \in S
    <2> HIDE DEF S
    <2> QED
      BY <1>4, <1>5, Induction
  <1>7. n - 1 \in Nat /\ (n - 1) + 1 = n
    OBVIOUS
  <1>8. F[n] = ClosedForm(p, n - 1)
    BY <1>6, <1>7
  <1>9. QED
    BY <1>3, <1>8

-----------------------------------------------------------------------------
(* What the code computes is what is meant, as long as it fits             *)

\* The bounds of the integers and of dates.
LEMMA Limits ==
  /\ MaxSeconds \in Nat /\ MaxInt \in Nat /\ 300 <= MaxSeconds /\ MaxSeconds < MaxInt
  /\ Width \in Nat /\ 10 <= Width
  <1>1. Width \in Nat /\ 10 <= Width /\ Width - 1 \in Nat
    BY RetrySchedulingAssumption
  <1>2. MaxInt \in Int
    BY <1>1, PowDef DEF MaxInt, HalfRange
  <1>3. MaxSeconds \in 300 .. MaxInt - 1
    BY RetrySchedulingAssumption
  <1>4. QED
    BY <1>1, <1>2, <1>3

\* The default delay, until 10 * 2^(attempt - 1) reaches the end of the type.
LEMMA DefaultDelayIs ==
  ASSUME NEW a \in Nat \ {0}, a <= Width - 4
  PROVE  /\ DefaultDelay(a) = Doubling[a] /\ DefaultDelay(a) \in 0 .. 300
         /\ Wrap(DefaultRaw(a)) = DefaultRaw(a)
  <1>1. PICK k \in Nat : k = a - 1
    OBVIOUS
  <1>2. PICK x \in Nat : x = Pow(2, k)
    BY PowDef
  <1>3. DefaultRaw(a) = 10 * x
    BY <1>1, <1>2 DEF DefaultRaw
  <1>4. 10 * x <= MaxInt
    <2>1. PICK n \in Nat : (k + 4) + n = Width - 1
      <3>1. (Width - 1) - (k + 4) \in Nat
        BY <1>1, Limits
      <3>2. (k + 4) + ((Width - 1) - (k + 4)) = Width - 1
        BY Limits
      <3>3. QED
        BY <3>1, <3>2
    <2>2. Pow(2, k + 4) = 16 * x
      <3>1. Pow(2, k + 1) = 2 * x
        BY <1>2, PowDef
      <3>2. k + 1 \in Nat /\ (k + 1) + 1 = k + 2 /\ k + 2 \in Nat /\ (k + 2) + 1 = k + 3
            /\ k + 3 \in Nat /\ (k + 3) + 1 = k + 4
        OBVIOUS
      <3>3. Pow(2, k + 2) = 2 * (2 * x)
        BY <3>1, <3>2, PowDef
      <3>4. Pow(2, k + 3) = 2 * (2 * (2 * x))
        BY <3>2, <3>3, PowDef
      <3>5. Pow(2, k + 4) = 2 * (2 * (2 * (2 * x)))
        BY <3>2, <3>4, PowDef
      <3>6. QED
        BY <3>5
    <2>3. 0 < x
      <3>1. 0 < Pow(2, k)
        BY PowersGrow
      <3>2. QED
        BY <1>2, <3>1
    <2>4. Pow(2, k + 4) <= HalfRange /\ HalfRange \in Nat
      <3>1. k + 4 \in Nat
        OBVIOUS
      <3>2. Pow(2, k + 4) <= Pow(2, (k + 4) + n) /\ Pow(2, (k + 4) + n) \in Nat
        BY <3>1, PowersGrow
      <3>3. QED
        BY <2>1, <3>2 DEF HalfRange
    <2>5. QED
      BY <2>2, <2>3, <2>4 DEF MaxInt
  <1>5. Wrap(DefaultRaw(a)) = 10 * x
    BY <1>3, <1>4, WrapFits
  <1>6. DefaultDelay(a) = Min({10 * x, 300})
    BY <1>5 DEF DefaultDelay
  <1>7. Doubling[a] = Min({300, 10 * x})
    BY <1>1, <1>2, DoublingIs
  <1>8. PICK y \in Nat : y = 10 * x
    OBVIOUS
  <1>9. Min({y, 300}) = Min({300, y}) /\ Min({300, y}) \in 0 .. 300
    <2>1. {y, 300} = {300, y}
      OBVIOUS
    <2>2. Min({300, y}) = IF 300 <= y THEN 300 ELSE y
      BY MinOfTwo
    <2>3. (IF 300 <= y THEN 300 ELSE y) \in 0 .. 300
      OBVIOUS
    <2>4. QED
      BY <2>1, <2>2, <2>3
  <1>10. QED
    BY <1>3, <1>5, <1>6, <1>7, <1>8, <1>9

\* The three strategies of a policy, with the integers of the code.
LEMMA StrategyDelays ==
  ASSUME NEW p \in Policies, NEW a \in Nat \ {0}
  PROVE  /\ p.strategy = "fixed" =>
              NextDelaySeconds(p, a) = p.base /\ PolicyDelays(p)[a] = p.base
         /\ p.strategy = "linear" =>
              /\ NextDelaySeconds(p, a) = Wrap(LinearRaw(p, a))
              /\ PolicyDelays(p)[a] = LinearRaw(p, a) /\ LinearRaw(p, a) \in Nat
         /\ p.strategy = "exponential" =>
              \E x \in Nat : /\ NextDelaySeconds(p, a) = Capped(p, Min({MaxInt, x}))
                             /\ PolicyDelays(p)[a] = IF p.max = 0 THEN x ELSE Min({p.max, x})
  <1>1. PICK k \in Nat : k = a - 1 /\ k + 1 = a
    <2>1. a - 1 \in Nat /\ (a - 1) + 1 = a
      OBVIOUS
    <2>2. QED
      BY <2>1
  <1>2. PolicyDelays(p)[a] = WithCap(p, Growth(p, k))
    BY <1>1, PolicyDelaysAre DEF ClosedForm
  <1>3. CASE p.strategy = "fixed"
    BY <1>2, <1>3 DEF NextDelaySeconds, WithCap, Growth
  <1>4. CASE p.strategy = "linear"
    <2>1. Growth(p, k) = LinearRaw(p, a)
      BY <1>1, <1>4 DEF Growth, LinearRaw
    <2>2. LinearRaw(p, a) \in Nat
      BY PolicyFields DEF LinearRaw
    <2>3. NextDelaySeconds(p, a) = Wrap(LinearRaw(p, a))
      BY <1>4 DEF NextDelaySeconds
    <2>4. QED
      BY <1>2, <1>4, <2>1, <2>2, <2>3 DEF WithCap
  <1>5. CASE p.strategy = "exponential"
    <2>1. PICK x \in Nat : x = Growth(p, k)
      BY GrowthStep
    <2>2. x = p.base * Pow(Multiplier(p), a - 1)
      BY <1>1, <1>5, <2>1 DEF Growth
    <2>3. NextDelaySeconds(p, a) = Capped(p, Min({MaxInt, x}))
      BY <1>5, <2>2 DEF NextDelaySeconds, ExponentialRaw
    <2>4. PolicyDelays(p)[a] = IF p.max = 0 THEN x ELSE Min({p.max, x})
      BY <1>2, <1>5, <2>1 DEF WithCap
    <2>5. QED
      BY <1>5, <2>3, <2>4
  <1>6. QED
    BY <1>3, <1>4, <1>5, PolicyFields

\* A policy's delay, if it fits.
LEMMA PolicyDelayIs ==
  ASSUME NEW p \in Policies, NEW a \in Nat \ {0}, NextDelaySeconds(p, a) \in - MaxSeconds .. MaxSeconds,
         p.strategy = "linear" => LinearRaw(p, a) <= MaxInt
  PROVE  NextDelaySeconds(p, a) = PolicyDelays(p)[a]
  <1>1. CASE p.strategy = "fixed"
    BY <1>1, StrategyDelays
  <1>2. CASE p.strategy = "linear"
    BY <1>2, StrategyDelays, WrapFits
  <1>3. CASE p.strategy = "exponential"
    <2>1. PICK x \in Nat : /\ NextDelaySeconds(p, a) = Capped(p, Min({MaxInt, x}))
                           /\ PolicyDelays(p)[a] = IF p.max = 0 THEN x ELSE Min({p.max, x})
      BY <1>3, StrategyDelays
    <2>2. PICK raw \in Nat : raw = Min({MaxInt, x}) /\ raw = IF MaxInt <= x THEN MaxInt ELSE x
      BY Limits, MinOfTwo
    <2>3. p.max \in Nat
      BY PolicyFields
    <2>4. CASE p.max = 0
      <3>1. NextDelaySeconds(p, a) = raw
        BY <2>1, <2>2, <2>4 DEF Capped
      <3>2. QED
        BY <2>1, <2>2, <2>4, <3>1, Limits
    <2>5. CASE p.max # 0
      <3>1. NextDelaySeconds(p, a) = Min({raw, p.max})
        BY <2>1, <2>2, <2>5 DEF Capped
      <3>2. Min({raw, p.max}) = IF raw <= p.max THEN raw ELSE p.max
        BY <2>3, MinOfTwo
      <3>3. PolicyDelays(p)[a] = IF p.max <= x THEN p.max ELSE x
        BY <2>1, <2>3, <2>5, MinOfTwo
      <3>4. QED
        BY <2>2, <2>3, <3>1, <3>2, <3>3, Limits
    <2>6. QED
      BY <2>4, <2>5
  <1>4. QED
    BY <1>1, <1>2, <1>3, PolicyFields

\* Only what is meant to be longer than a date can hold makes a task panic.
LEMMA PolicyPanics ==
  ASSUME NEW p \in Policies, NEW a \in Nat \ {0},
         \/ NextDelaySeconds(p, a) \notin - MaxSeconds .. MaxSeconds
         \/ p.strategy = "linear" /\ LinearRaw(p, a) # Wrap(LinearRaw(p, a))
  PROVE  PolicyDelays(p)[a] > MaxSeconds
  <1>1. CASE p.strategy = "fixed"
    <2>1. p.base \in Nat /\ p.base \notin - MaxSeconds .. MaxSeconds
      BY <1>1, StrategyDelays, PolicyFields
    <2>2. p.base > MaxSeconds
      BY <2>1, Limits
    <2>3. QED
      BY <1>1, <2>2, StrategyDelays
  <1>2. CASE p.strategy = "linear"
    <2>1. PICK x \in Nat : x = LinearRaw(p, a) /\ PolicyDelays(p)[a] = x
                         /\ NextDelaySeconds(p, a) = Wrap(x)
      BY <1>2, StrategyDelays
    <2>2. CASE x <= MaxInt
      <3>1. Wrap(x) = x
        BY <2>2, WrapFits
      <3>2. x \notin - MaxSeconds .. MaxSeconds
        BY <2>1, <3>1
      <3>3. QED
        BY <2>1, <3>2, Limits
    <2>3. CASE ~(x <= MaxInt)
      BY <2>1, <2>3, Limits
    <2>4. QED
      BY <2>2, <2>3
  <1>3. CASE p.strategy = "exponential"
    <2>1. PICK x \in Nat : /\ NextDelaySeconds(p, a) = Capped(p, Min({MaxInt, x}))
                           /\ PolicyDelays(p)[a] = IF p.max = 0 THEN x ELSE Min({p.max, x})
      BY <1>3, StrategyDelays
    <2>2. PICK raw \in Nat : raw = Min({MaxInt, x}) /\ raw = IF MaxInt <= x THEN MaxInt ELSE x
      BY Limits, MinOfTwo
    <2>3. p.max \in Nat
      BY PolicyFields
    <2>4. NextDelaySeconds(p, a) \notin - MaxSeconds .. MaxSeconds
      BY <1>3
    <2>5. CASE p.max = 0
      <3>1. raw \notin - MaxSeconds .. MaxSeconds
        BY <2>1, <2>2, <2>4, <2>5 DEF Capped
      <3>2. raw > MaxSeconds
        BY <3>1, Limits
      <3>3. QED
        BY <2>1, <2>2, <2>5, <3>2, Limits
    <2>6. CASE p.max # 0
      <3>1. Min({raw, p.max}) \notin - MaxSeconds .. MaxSeconds
        BY <2>1, <2>2, <2>4, <2>6 DEF Capped
      <3>2. Min({raw, p.max}) = IF raw <= p.max THEN raw ELSE p.max
        BY <2>3, MinOfTwo
      <3>3. raw > MaxSeconds /\ p.max > MaxSeconds
        BY <2>3, <3>1, <3>2, Limits
      <3>4. PolicyDelays(p)[a] = IF p.max <= x THEN p.max ELSE x
        BY <2>1, <2>3, <2>6, MinOfTwo
      <3>5. x > MaxSeconds
        BY <2>2, <3>3, Limits
      <3>6. QED
        BY <3>3, <3>4, <3>5
    <2>7. QED
      BY <2>5, <2>6
  <1>4. QED
    BY <1>1, <1>2, <1>3, PolicyFields

-----------------------------------------------------------------------------
(* The delays of the jobs that wait                                        *)

\* Only a job that has a policy reads one.
PolicyRead ==
  \A j \in Job : found[j] \/ pc[j] \in {"lookup", "reading"} => policy[j] \in Policies

\* BackoffAsIntended, of one job.
BackoffOf(j) ==
  pc[j] = "waiting" /\ Fits(j, attempts[j]) => delay[j] = Intended(j, attempts[j])

BackoffInv == PoolInv /\ PolicyRead /\ BackoffAsIntended

\* At the start nobody waits.
LEMMA BackoffInit == Init => BackoffInv
  <1> SUFFICES ASSUME Init PROVE BackoffInv
    OBVIOUS
  <1>1. \A j \in Job : pc[j] = "running" /\ ~found[j]
    BY DEF Init
  <1>2. PolicyRead /\ BackoffAsIntended
    BY <1>1 DEF PolicyRead, BackoffAsIntended
  <1>3. QED
    BY <1>2, PoolInit DEF BackoffInv

\* A job keeps its delay if a step does not record an attempt of it.
LEMMA SameBackoff ==
  ASSUME NEW j \in Job, BackoffOf(j), pc'[j] = "waiting" => pc[j] = "waiting" /\ found'[j] = found[j],
         attempts'[j] = attempts[j], delay'[j] = delay[j], policy' = policy
  PROVE  BackoffOf(j)'
  <1>1. SUFFICES ASSUME pc'[j] = "waiting", Fits(j, attempts[j])' PROVE delay'[j] = Intended(j, attempts[j])'
    BY DEF BackoffOf
  <1>2. pc[j] = "waiting" /\ found'[j] = found[j]
    BY <1>1
  <1>3. Fits(j, attempts[j])
    BY <1>1, <1>2 DEF Fits
  <1>4. Intended(j, attempts[j])' = Intended(j, attempts[j])
    BY <1>2 DEF Intended
  <1>5. QED
    BY <1>2, <1>3, <1>4 DEF BackoffOf

\* A retry that is scheduled gets the delay that is meant.
LEMMA ScheduledBackoff ==
  ASSUME BackoffInv, NEW j \in Job, ScheduleRetry(j)
  PROVE  BackoffOf(j)'
  <1>1. /\ attempts[j] \in Nat /\ j \in DOMAIN attempts /\ j \in DOMAIN delay
        /\ found[j] => policy[j] \in Policies
    BY RetrySchedulingAssumption DEF BackoffInv, PoolInv, TypeOK, PolicyRead
  <1>2. PICK a \in Nat \ {0} : a = attempts[j] + 1
    BY <1>1
  <1>3. /\ attempts'[j] = a /\ delay'[j] = CalculateRetryDelay(j)
        /\ UNCHANGED <<build, policy, found>>
        /\ CalculateRetryDelay(j) \in - MaxSeconds .. MaxSeconds
    BY <1>1, <1>2 DEF ScheduleRetry, Attempt, Panics
  <1>4. SUFFICES ASSUME Fits(j, attempts[j])' PROVE delay'[j] = Intended(j, attempts[j])'
    BY DEF BackoffOf
  <1>5. Fits(j, a)
    BY <1>3, <1>4 DEF Fits
  <1>6. Intended(j, attempts[j])' = Intended(j, a)
    BY <1>3 DEF Intended
  <1>7. CASE found[j]
    <2>1. /\ CalculateRetryDelay(j) = NextDelaySeconds(policy[j], a)
          /\ Intended(j, a) = PolicyDelays(policy[j])[a]
          /\ policy[j].strategy = "linear" => LinearRaw(policy[j], a) <= MaxInt
      BY <1>2, <1>5, <1>7 DEF CalculateRetryDelay, Attempt, Intended, Fits
    <2>2. NextDelaySeconds(policy[j], a) = PolicyDelays(policy[j])[a]
      BY <1>1, <1>3, <1>7, <2>1, PolicyDelayIs
    <2>3. QED
      BY <1>3, <1>6, <2>1, <2>2
  <1>8. CASE ~found[j]
    <2>1. /\ CalculateRetryDelay(j) = DefaultDelay(a) /\ Intended(j, a) = Doubling[a]
          /\ a <= Width - 4
      BY <1>2, <1>5, <1>8 DEF CalculateRetryDelay, Attempt, Intended, Fits
    <2>2. DefaultDelay(a) = Doubling[a]
      BY <2>1, DefaultDelayIs
    <2>3. QED
      BY <1>3, <1>6, <2>1, <2>2
  <1>9. QED
    BY <1>7, <1>8

\* No step gives a waiting job another delay than the one that is meant.
LEMMA BackoffStep == ASSUME BackoffInv, [Next]_vars PROVE PolicyRead' /\ BackoffAsIntended'
  <1>0. TypeOK /\ PolicyRead /\ \A j \in Job : BackoffOf(j)
    BY DEF BackoffInv, PoolInv, BackoffAsIntended, BackoffOf
  <1>1. SUFFICES PolicyRead' /\ \A j \in Job : BackoffOf(j)'
    BY DEF BackoffAsIntended, BackoffOf
  <1>2. ASSUME NEW j \in Job, TaskStep(j) PROVE PolicyRead' /\ \A k \in Job : BackoffOf(k)'
    \* The other jobs, and what the step may do to this one.
    <2>1. /\ policy' = policy
          /\ \A k \in Job : k # j => /\ pc'[k] = pc[k] /\ found'[k] = found[k]
                                     /\ attempts'[k] = attempts[k] /\ delay'[k] = delay[k]
      <3>1. policy' = policy /\ \A k \in Job : k # j => pc'[k] = pc[k]
        BY <1>0, <1>2 DEF TaskStep, HandlerFails, Begin, BeginTimeout, LookupAcquire, LookupTimeout,
             LookupReply, ScheduleRetry, MoveToDlq, RecordFails, Panic, RunAgain, Goto, TypeOK
      <3>2. \A k \in Job : k # j => found'[k] = found[k]
        BY <1>0, <1>2 DEF TaskStep, HandlerFails, Begin, BeginTimeout, LookupAcquire, LookupTimeout,
             LookupReply, ScheduleRetry, MoveToDlq, RecordFails, Panic, RunAgain, TypeOK
      <3>3. \A k \in Job : k # j => attempts'[k] = attempts[k] /\ delay'[k] = delay[k]
        BY <1>0, <1>2 DEF TaskStep, HandlerFails, Begin, BeginTimeout, LookupAcquire, LookupTimeout,
             LookupReply, ScheduleRetry, MoveToDlq, RecordFails, Panic, RunAgain, TypeOK
      <3>4. QED
        BY <3>1, <3>2, <3>3
    <2>2. \A k \in Job : k # j => BackoffOf(k)'
      BY <1>0, <2>1, SameBackoff
    <2>3. BackoffOf(j)'
      <3>1. CASE ScheduleRetry(j)
        BY <3>1, ScheduledBackoff
      <3>2. CASE ~ScheduleRetry(j)
        <4>1. pc'[j] # "waiting"
          BY <1>0, <1>2, <3>2 DEF TaskStep, HandlerFails, Begin, BeginTimeout, LookupAcquire,
               LookupTimeout, LookupReply, MoveToDlq, RecordFails, Panic, RunAgain, Goto, TypeOK
        <4>2. QED
          BY <4>1 DEF BackoffOf
      <3>3. QED
        BY <3>1, <3>2
    <2>4. found'[j] \/ pc'[j] \in {"lookup", "reading"} => policy[j] \in Policies
      <3>1. CASE HandlerFails(j)
        BY <1>0, <3>1 DEF HandlerFails, Goto, TypeOK
      <3>2. CASE Begin(j)
        <4>1. policy[j] \in Policies \/ pc'[j] = "write"
          BY <1>0, <3>2 DEF Begin, Goto, TypeOK
        <4>2. found' = found
          BY <3>2 DEF Begin
        <4>3. QED
          BY <1>0, <4>1, <4>2 DEF PolicyRead
      <3>3. CASE BeginTimeout(j) \/ LookupAcquire(j) \/ LookupTimeout(j)
        <4>1. /\ found' = found /\ pc'[j] # "lookup"
              /\ pc'[j] = "reading" => pc[j] = "lookup"
          BY <1>0, <3>3 DEF BeginTimeout, LookupAcquire, LookupTimeout, Goto, TypeOK
        <4>2. QED
          BY <1>0, <4>1 DEF PolicyRead
      <3>4. CASE LookupReply(j)
        <4>1. pc[j] = "reading"
          BY <3>4 DEF LookupReply, Goto
        <4>2. QED
          BY <1>0, <4>1 DEF PolicyRead
      <3>5. CASE ScheduleRetry(j) \/ MoveToDlq(j) \/ RecordFails(j) \/ Panic(j) \/ RunAgain(j)
        <4>1. found' = found /\ pc'[j] \notin {"lookup", "reading"}
          BY <1>0, <3>5 DEF ScheduleRetry, MoveToDlq, RecordFails, Panic, RunAgain, Goto, TypeOK
        <4>2. QED
          BY <1>0, <4>1 DEF PolicyRead
      <3>6. QED
        BY <1>2, <3>1, <3>2, <3>3, <3>4, <3>5 DEF TaskStep
    <2>5. PolicyRead'
      BY <1>0, <2>1, <2>4 DEF PolicyRead
    <2>6. QED
      BY <2>2, <2>3, <2>5
  <1>3. CASE Borrow \/ Return \/ UNCHANGED vars
    <2>1. UNCHANGED <<policy, pc, attempts, delay, found>>
      BY <1>3 DEF Borrow, Return, vars
    <2>2. QED
      BY <1>0, <2>1, SameBackoff DEF PolicyRead
  <1>4. CASE Restart
    <2>1. /\ UNCHANGED <<policy, attempts, delay, found>>
          /\ \A k \in Job : /\ pc'[k] \in {"running", "waiting", "dead"}
                            /\ pc'[k] = "waiting" => pc[k] = "waiting"
      BY <1>0, <1>4 DEF Restart, TypeOK
    <2>2. PolicyRead'
      BY <1>0, <2>1 DEF PolicyRead
    <2>3. QED
      BY <1>0, <2>1, <2>2, SameBackoff
  <1>5. QED
    BY <1>2, <1>3, <1>4 DEF Next

(***************************************************************************)
(* A retry waits as long as its strategy says: the code's products and     *)
(* powers, its wrapping and its saturating cast against the delays term by *)
(* term, for every policy, every width of the integers and every attempt   *)
(* until a product no longer fits.                                         *)
(***************************************************************************)
THEOREM BackoffIsAsIntended == Spec => []BackoffAsIntended
  <1>1. BackoffInv /\ [Next]_vars => BackoffInv'
    BY BackoffStep, PoolStep DEF BackoffInv
  <1>2. BackoffInv => BackoffAsIntended
    BY DEF BackoffInv
  <1>3. QED
    BY <1>1, <1>2, BackoffInit, PTL DEF Spec

\* What BegunIsRecorded says of one step.
Recorded ==
  \A j \in Job :
    Begun(pc[j]) /\ ~Begun(pc'[j]) =>
      \/ pc'[j] \in {"waiting", "dead"} /\ attempts'[j] = attempts[j] + 1
      \/ pc'[j] = "lost"
      \/ Restart
      \/ /\ pc'[j] = "stuck"
         /\ IF found[j] THEN Intended(j, Attempt(j)) > MaxSeconds ELSE ~Fits(j, Attempt(j))

\* The ways out of a transaction.
LEMMA TransactionExits ==
  ASSUME TypeOK, [Next]_vars, NEW j \in Job, Begun(pc[j]), ~Begun(pc'[j])
  PROVE  ScheduleRetry(j) \/ MoveToDlq(j) \/ RecordFails(j) \/ Panic(j) \/ Restart
  <1>1. CASE \E k \in Job : TaskStep(k)
    <2>1. PICK k \in Job : TaskStep(k)
      BY <1>1
    <2>2. k = j
      <3>1. k # j => pc'[j] = pc[j]
        BY <2>1 DEF TaskStep, HandlerFails, Begin, BeginTimeout, LookupAcquire, LookupTimeout,
             LookupReply, ScheduleRetry, MoveToDlq, RecordFails, Panic, RunAgain, Goto, TypeOK
      <3>2. QED
        BY <3>1
    <2>3. ~(HandlerFails(j) \/ Begin(j) \/ BeginTimeout(j) \/ RunAgain(j))
      BY DEF HandlerFails, Begin, BeginTimeout, RunAgain, Goto, Begun
    <2>4. ~(LookupAcquire(j) \/ LookupTimeout(j) \/ LookupReply(j))
      BY DEF LookupAcquire, LookupTimeout, LookupReply, Goto, Begun, TypeOK
    <2>5. QED
      BY <2>1, <2>2, <2>3, <2>4 DEF TaskStep
  <1>2. CASE Borrow \/ Return \/ UNCHANGED vars
    BY <1>2 DEF Borrow, Return, vars
  <1>3. QED
    BY <1>1, <1>2 DEF Next

\* Only a panic ends a transaction without a record, and only where it may.
LEMMA RecordedStep == ASSUME BackoffInv, [Next]_vars PROVE [Recorded]_vars
  <1>0. TypeOK /\ PolicyRead
    BY DEF BackoffInv, PoolInv
  <1>1. SUFFICES ASSUME NEW j \in Job, Panic(j)
                 PROVE  IF found[j] THEN Intended(j, Attempt(j)) > MaxSeconds ELSE ~Fits(j, Attempt(j))
    <2>1. SUFFICES ASSUME NEW k \in Job, Begun(pc[k]), ~Begun(pc'[k]), ~Restart
                   PROVE  \/ pc'[k] \in {"waiting", "dead"} /\ attempts'[k] = attempts[k] + 1
                          \/ pc'[k] = "lost"
                          \/ pc'[k] = "stuck" /\ Panic(k)
      BY <1>1, <2>1 DEF Recorded
    <2>2. CASE ScheduleRetry(k) \/ MoveToDlq(k)
      BY <1>0, <2>2 DEF ScheduleRetry, MoveToDlq, Attempt, Goto, TypeOK
    <2>3. CASE RecordFails(k)
      BY <1>0, <2>3 DEF RecordFails, Goto, TypeOK
    <2>4. CASE Panic(k)
      BY <1>0, <2>4 DEF Panic, Goto, TypeOK
    <2>5. QED
      BY <1>0, <2>1, <2>2, <2>3, <2>4, TransactionExits
  <1>3. PICK a \in Nat \ {0} : a = Attempt(j)
    BY <1>0, RetrySchedulingAssumption DEF TypeOK, Attempt
  <1>4. Panics(j)
    BY <1>1 DEF Panic
  <1>5. CASE found[j]
    <2>1. policy[j] \in Policies
      BY <1>0, <1>5 DEF PolicyRead
    <2>2. CalculateRetryDelay(j) = NextDelaySeconds(policy[j], a) /\ Intended(j, a) = PolicyDelays(policy[j])[a]
      BY <1>3, <1>5 DEF CalculateRetryDelay, Intended
    <2>3. \/ NextDelaySeconds(policy[j], a) \notin - MaxSeconds .. MaxSeconds
          \/ Overflows(j)
      BY <1>4, <2>2 DEF Panics
    <2>4. ASSUME Overflows(j)
          PROVE  policy[j].strategy = "linear" /\ LinearRaw(policy[j], a) # Wrap(LinearRaw(policy[j], a))
      <3>1. CASE policy[j].strategy = "linear"
        BY <1>3, <1>5, <2>4, <3>1 DEF Overflows
      <3>2. CASE policy[j].strategy # "linear"
        <4>1. 0 # Wrap(0)
          BY <1>5, <2>4, <3>2 DEF Overflows
        <4>2. QED
          BY <4>1, WrapFits, Limits
      <3>3. QED
        BY <3>1, <3>2
    <2>5. PolicyDelays(policy[j])[a] > MaxSeconds
      BY <2>1, <2>3, <2>4, PolicyPanics
    <2>6. QED
      BY <1>3, <1>5, <2>2, <2>5
  <1>6. CASE ~found[j]
    <2>1. SUFFICES ASSUME a <= Width - 4 PROVE FALSE
      BY <1>3, <1>6 DEF Fits
    <2>2. DefaultDelay(a) \in 0 .. 300 /\ Wrap(DefaultRaw(a)) = DefaultRaw(a)
      BY <2>1, DefaultDelayIs
    <2>3. CalculateRetryDelay(j) = DefaultDelay(a)
      BY <1>3, <1>6 DEF CalculateRetryDelay
    <2>4. DefaultDelay(a) \in - MaxSeconds .. MaxSeconds
      BY <2>2, Limits
    <2>5. ~Overflows(j)
      BY <1>3, <1>6, <2>2 DEF Overflows
    <2>6. QED
      BY <1>4, <2>3, <2>4, <2>5 DEF Panics
  <1>7. QED
    BY <1>5, <1>6

(***************************************************************************)
(* A failed attempt whose transaction began is recorded unless the         *)
(* database refuses the transaction or the process ends: the task itself   *)
(* drops it only by a panic, where the product of the default strategy     *)
(* overflows or a policy asks for more than a date can hold, in debug and  *)
(* release builds.                                                         *)
(***************************************************************************)
THEOREM BegunAttemptsAreRecorded == Spec => BegunIsRecorded
  <1>1. BackoffInv /\ [Next]_vars => BackoffInv'
    BY BackoffStep, PoolStep DEF BackoffInv
  <1>2. BackoffInv /\ [Next]_vars => [Recorded]_vars
    BY RecordedStep
  <1>3. QED
    BY <1>1, <1>2, BackoffInit, PTL DEF Spec, BegunIsRecorded, Recorded

-----------------------------------------------------------------------------
(* What the overflow does                                                  *)

(***************************************************************************)
(* However often it fails, a job without a policy does not get beyond      *)
(* attempt Width - 4 (60 with 64 bits), and is never moved to the DLQ.     *)
(***************************************************************************)
NeverGivenUp ==
  \A j \in Job : policy[j] = NoPolicy => attempts[j] <= Width - 4 /\ pc[j] # "dead"

\* At attempt Width - 3 the default delay wraps to less than any date can hold.
LEMMA DefaultWraps ==
  ASSUME 2 * MaxSeconds <= HalfRange
  PROVE  DefaultDelay(Width - 3) \notin - MaxSeconds .. MaxSeconds
  <1>1. PICK k \in Nat : k = Width - 4 /\ Width - 1 = k + 3 /\ (Width - 3) - 1 = k
    <2>1. Width - 4 \in Nat /\ Width - 1 = (Width - 4) + 3 /\ (Width - 3) - 1 = Width - 4
      BY Limits
    <2>2. QED
      BY <2>1
  <1>2. PICK x \in Nat : x = Pow(2, k) /\ 0 < x
    BY PowDef, PowersGrow
  <1>3. HalfRange = 8 * x
    <2>1. Pow(2, k + 1) = 2 * x
      BY <1>2, PowDef
    <2>2. k + 1 \in Nat /\ (k + 1) + 1 = k + 2 /\ k + 2 \in Nat /\ (k + 2) + 1 = k + 3
      OBVIOUS
    <2>3. Pow(2, k + 2) = 2 * (2 * x)
      BY <2>1, <2>2, PowDef
    <2>4. Pow(2, k + 3) = 2 * (2 * (2 * x))
      BY <2>2, <2>3, PowDef
    <2>5. QED
      BY <1>1, <2>4 DEF HalfRange
  <1>4. DefaultRaw(Width - 3) = 10 * x
    BY <1>1, <1>2 DEF DefaultRaw
  <1>5. (10 * x + 8 * x) % (2 * (8 * x)) = 2 * x
    <2>1. PICK d \in Nat : d = 2 * (8 * x)
      OBVIOUS
    <2>2. 10 * x + 8 * x = d + 2 * x /\ 0 < d /\ 2 * x < d /\ 2 * x \in Nat
      BY <1>2, <2>1
    <2>3. (d + 2 * x) % d = 2 * x
      BY <2>2
    <2>4. QED
      BY <2>1, <2>2, <2>3
  <1>6. PICK y \in Int : y = Wrap(DefaultRaw(Width - 3)) /\ y = - (6 * x)
    <2>1. Wrap(10 * x) = 2 * x - 8 * x
      BY <1>3, <1>5 DEF Wrap
    <2>2. 2 * x - 8 * x = - (6 * x) /\ - (6 * x) \in Int
      BY <1>2
    <2>3. QED
      BY <1>4, <2>1, <2>2
  <1>7. DefaultDelay(Width - 3) = y
    <2>1. Min({y, 300}) = y
      BY <1>2, <1>6, MinOfTwo
    <2>2. QED
      BY <1>6, <2>1 DEF DefaultDelay
  <1>8. y < - MaxSeconds
    BY <1>2, <1>3, <1>6, Limits
  <1>9. QED
    BY <1>7, <1>8, Limits

\* So the attempt is never recorded.
LEMMA NeverGivenUpStep ==
  ASSUME Width - 3 < MaxAttempts, 2 * MaxSeconds <= HalfRange,
         BackoffInv, NeverGivenUp, [Next]_vars
  PROVE  NeverGivenUp'
  <1>0. /\ TypeOK /\ PolicyRead /\ MaxAttempts \in Nat /\ NoPolicy \notin Policies
        /\ \A j \in Job : attempts[j] \in Nat
    BY RetrySchedulingAssumption DEF BackoffInv, PoolInv, TypeOK
  <1>1. SUFFICES ASSUME NEW j \in Job, policy[j] = NoPolicy, attempts[j] <= Width - 4, pc[j] # "dead"
                 PROVE  policy'[j] = policy[j] /\ attempts'[j] <= Width - 4 /\ pc'[j] # "dead"
    <2>1. policy' = policy
      BY DEF Next, TaskStep, HandlerFails, Begin, BeginTimeout, LookupAcquire, LookupTimeout,
             LookupReply, ScheduleRetry, MoveToDlq, RecordFails, Panic, RunAgain, Borrow, Return, Restart, vars
    <2>2. QED
      BY <1>1, <2>1 DEF NeverGivenUp
  <1>2. ~found[j]
    BY <1>0, <1>1 DEF PolicyRead
  <1>3. ~MoveToDlq(j)
    BY <1>0, <1>1, Limits DEF MoveToDlq, ShouldDlq, Attempt
  <1>4. ASSUME ScheduleRetry(j) PROVE attempts[j] + 1 <= Width - 4
    <2>1. SUFFICES ASSUME attempts[j] = Width - 4 PROVE FALSE
      BY <1>0, <1>1, Limits
    <2>2. Attempt(j) = Width - 3
      BY <2>1, Limits DEF Attempt
    <2>3. CalculateRetryDelay(j) = DefaultDelay(Width - 3)
      BY <1>2, <2>2 DEF CalculateRetryDelay
    <2>4. CalculateRetryDelay(j) \in - MaxSeconds .. MaxSeconds
      BY <1>4 DEF ScheduleRetry, Panics
    <2>5. QED
      BY <2>3, <2>4, DefaultWraps
  <1>5. CASE ScheduleRetry(j)
    <2>1. attempts'[j] = attempts[j] + 1 /\ pc'[j] = "waiting" /\ policy' = policy
      BY <1>0, <1>5 DEF ScheduleRetry, Goto, Attempt, TypeOK
    <2>2. QED
      BY <1>4, <1>5, <2>1
  <1>6. CASE ~ScheduleRetry(j)
    <2>1. policy' = policy /\ attempts'[j] = attempts[j]
      BY <1>0, <1>3, <1>6 DEF Next, TaskStep, HandlerFails, Begin, BeginTimeout, LookupAcquire,
         LookupTimeout, LookupReply, ScheduleRetry, MoveToDlq, RecordFails, Panic, RunAgain, Borrow, Return,
         Restart, TypeOK, vars
    <2>2. pc'[j] # "dead"
      BY <1>0, <1>1, <1>3, <1>6 DEF Next, TaskStep, HandlerFails, Begin, BeginTimeout, LookupAcquire,
         LookupTimeout, LookupReply, ScheduleRetry, MoveToDlq, RecordFails, Panic, RunAgain, Borrow, Return,
         Restart, Goto, TypeOK, vars
    <2>3. QED
      BY <1>1, <2>1, <2>2
  <1>7. QED
    BY <1>5, <1>6

(***************************************************************************)
(* A job that may fail more often than its counter can double, and has no  *)
(* policy, never gets to the DLQ: the failure at which the product of the  *)
(* default delay overflows is not recorded, in any build, however often    *)
(* the job is recovered and fails again.  That dates end well below what   *)
(* the integers hold is what chrono says of its Duration.                  *)
(***************************************************************************)
THEOREM OverflowIsNeverGivenUp ==
  ASSUME Width - 3 < MaxAttempts, 2 * MaxSeconds <= HalfRange
  PROVE  Spec => []NeverGivenUp
  <1>1. Init => NeverGivenUp
    <2>1. SUFFICES ASSUME Init PROVE \A j \in Job : attempts[j] <= Width - 4 /\ pc[j] # "dead"
      BY DEF NeverGivenUp
    <2>2. QED
      BY <2>1, Limits DEF Init
  <1>2. BackoffInv /\ [Next]_vars => BackoffInv'
    BY BackoffStep, PoolStep DEF BackoffInv
  <1>3. BackoffInv /\ NeverGivenUp /\ [Next]_vars => NeverGivenUp'
    BY NeverGivenUpStep
  <1>4. QED
    BY <1>1, <1>2, <1>3, BackoffInit, PTL DEF Spec
=============================================================================
