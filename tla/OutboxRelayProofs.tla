---------------------------- MODULE OutboxRelayProofs ----------------------------
(***************************************************************************)
(* Theorems about OutboxRelay, for any number of events, relays, sockets,  *)
(* faults and any batch size.                                              *)
(***************************************************************************)
EXTENDS OutboxRelay, FiniteSetTheorems, TLAPS

-----------------------------------------------------------------------------
(* The inductive invariants                                                *)

\* The first row of p's batch has been handed to Redis and not been marked.
Handed(p, e) == relay[p].published /\ IsCurrent(p, e)

\* Events are created in order, relays hold committed events only, and what
\* they handed to Redis counts as sent.
RelayInv ==
  /\ TypeOK
  /\ \A e \in Event : e > created => outbox[e] = "none"
  /\ \A p \in Process : \A e \in relay[p].batch : outbox[e] \in {"unpublished", "published"}
  /\ \A p \in Process, e \in Event : Handed(p, e) => sends[e] > 0
  /\ SentIffCommitted

\* The relays that may still send e without another fault: e can be fetched, or
\* is in the batch, and the relay is not about to mark it.
MaySend(e) ==
  {p \in Process : /\ outbox[e] # "published" \/ e \in relay[p].batch
                   /\ ~Handed(p, e)}

\* Every send uses up the right of a relay or a fault.
SendsCharged ==
  \A e \in Event : sends[e] + Cardinality(MaySend(e)) <= Cardinality(Process) + faults

-----------------------------------------------------------------------------

\* A relay that drops a row of its batch is a relay.
LEMMA DropType ==
  ASSUME TypeOK, NEW p \in Process, NEW e \in Event, Drop(p, e)
  PROVE  /\ relay' \in [Process -> RelayState]
         /\ relay'[p].batch = relay[p].batch \ {e} /\ relay'[p].published = FALSE
         /\ \A q \in Process : q # p => relay'[q] = relay[q]
  BY DEF TypeOK, Drop, RelayState

\* A fault is counted, within the bound.
LEMMA FaultType ==
  ASSUME TypeOK, Fault PROVE faults \in Nat /\ faults' = faults + 1 /\ faults' \in 0 .. MaxFaults
  BY RelayAssumption DEF TypeOK, Fault

\* Sending counts once and shows the event to subscribers.
LEMMA SendType ==
  ASSUME TypeOK, NEW e \in Event, Send(e)
  PROVE  /\ sends' \in [Event -> Nat] /\ seen' \in [Socket -> SUBSET Event]
         /\ \A d \in Event : sends'[d] = IF d = e THEN sends[e] + 1 ELSE sends[d]
  BY DEF TypeOK, Send

\* Publishing leaves the batch of the relay as it is.
LEMMA PublishRelay ==
  ASSUME TypeOK, NEW p \in Process, NEW e \in Event, Publish(p, e)
  PROVE  /\ relay' \in [Process -> RelayState]
         /\ relay'[p].batch = relay[p].batch /\ relay'[p].published = TRUE
         /\ \A q \in Process : q # p => relay'[q] = relay[q]
  <1>1. e \in relay[p].batch /\ relay[p] \in RelayState
    BY DEF Publish, IsCurrent, TypeOK
  <1>2. relay' = [relay EXCEPT ![p] = [relay[p] EXCEPT !.published = TRUE]]
    BY DEF Publish, TypeOK
  <1>3. [relay[p] EXCEPT !.published = TRUE] \in RelayState
    BY <1>1 DEF RelayState
  <1>4. QED
    BY <1>1, <1>2, <1>3 DEF TypeOK, RelayState

\* Every step of the executor, the relays and the dashboard is type correct.
LEMMA TypeStep == ASSUME TypeOK, [Next]_vars PROVE TypeOK'
  <1>1. CASE CreateEvent
    BY <1>1, RelayAssumption DEF TypeOK, CreateEvent, Event
  <1>2. ASSUME NEW e \in Event, CommitEvent(e) PROVE TypeOK'
    BY <1>2 DEF TypeOK, CommitEvent
  <1>3. ASSUME NEW e \in Event, RollbackEvent(e) PROVE TypeOK'
    BY <1>3, RelayAssumption DEF TypeOK, RollbackEvent, Fault
  <1>4. ASSUME NEW p \in Process, RelayStep(p) PROVE TypeOK'
    <2>1. CASE Fetch(p)
      <3>1. [batch |-> Oldest(Unpublished), published |-> FALSE] \in RelayState
        BY DEF RelayState, Oldest, Unpublished
      <3>2. QED
        BY <2>1, <3>1 DEF TypeOK, Fetch
    <2>2. CASE Restart(p)
      <3>1. IdleRelay \in RelayState
        BY DEF RelayState, IdleRelay
      <3>2. QED
        BY <2>2, <3>1, RelayAssumption DEF TypeOK, Restart, Fault
    <2>3. ASSUME NEW e \in Event, Publish(p, e) PROVE TypeOK'
      <3>1. Send(e)
        BY <2>3 DEF Publish
      <3>2. QED
        BY <2>3, <3>1, PublishRelay, SendType DEF TypeOK, Publish
    <2>4. ASSUME NEW e \in Event, PublishError(p, e) PROVE TypeOK'
      <3>1. Drop(p, e) /\ Fault /\ UNCHANGED <<outbox, kind, created, sends, socket, seen>>
        BY <2>4 DEF PublishError
      <3>2. relay' \in [Process -> RelayState] /\ faults' \in 0 .. MaxFaults
        BY <3>1, DropType, FaultType
      <3>3. QED
        BY <3>1, <3>2 DEF TypeOK
    <2>5. ASSUME NEW e \in Event, PublishReplyLost(p, e) PROVE TypeOK'
      <3>1. Drop(p, e) /\ Fault /\ Send(e) /\ UNCHANGED <<outbox, kind, created, socket>>
        BY <2>5 DEF PublishReplyLost
      <3>2. relay' \in [Process -> RelayState] /\ faults' \in 0 .. MaxFaults
        BY <3>1, DropType, FaultType
      <3>3. sends' \in [Event -> Nat] /\ seen' \in [Socket -> SUBSET Event]
        BY <3>1, SendType
      <3>4. QED
        BY <3>1, <3>2, <3>3 DEF TypeOK
    <2>6. ASSUME NEW e \in Event, MarkPublished(p, e) PROVE TypeOK'
      BY <2>6, DropType DEF TypeOK, MarkPublished
    <2>7. ASSUME NEW e \in Event, MarkError(p, e) PROVE TypeOK'
      <3>1. Drop(p, e) /\ Fault /\ UNCHANGED <<outbox, kind, created, sends, socket, seen>>
        BY <2>7 DEF MarkError
      <3>2. relay' \in [Process -> RelayState] /\ faults' \in 0 .. MaxFaults
        BY <3>1, DropType, FaultType
      <3>3. QED
        BY <3>1, <3>2 DEF TypeOK
    <2>8. QED
      BY <1>4, <2>1, <2>2, <2>3, <2>4, <2>5, <2>6, <2>7 DEF RelayStep
  <1>5. ASSUME NEW s \in Socket, Connect(s) PROVE TypeOK'
    BY <1>5 DEF TypeOK, Connect
  <1>6. ASSUME NEW s \in Socket, Disconnect(s) PROVE TypeOK'
    BY <1>6, RelayAssumption DEF TypeOK, Disconnect, Fault
  <1>7. CASE UNCHANGED vars
    BY <1>7 DEF TypeOK, vars
  <1>8. QED
    BY <1>1, <1>2, <1>3, <1>4, <1>5, <1>6, <1>7 DEF Next

\* The initial state satisfies RelayInv.
LEMMA RelayInit == Init => RelayInv
  BY RelayAssumption
  DEF Init, RelayInv, TypeOK, RelayState, IdleRelay, EventType, SentIffCommitted, Handed, Event

\* What a relay fetches is committed and not marked.
LEMMA Fetched == Oldest(Unpublished) \subseteq {e \in Event : outbox[e] = "unpublished"}
  BY DEF Oldest, Unpublished

(***************************************************************************)
(* Every step keeps RelayInv.                                              *)
(***************************************************************************)
LEMMA RelayInvStep == ASSUME RelayInv, [Next]_vars PROVE RelayInv'
  <1>0. TypeOK /\ TypeOK'
    BY TypeStep DEF RelayInv
  <1>1. CASE CreateEvent
    <2>1. PICK n \in Event : n = created + 1
      BY <1>0, <1>1, RelayAssumption DEF CreateEvent, TypeOK, Event
    <2>2. /\ created \in Nat /\ created' = n /\ outbox[n] = "none"
          /\ \A e \in Event : outbox'[e] = IF e = n THEN "open" ELSE outbox[e]
          /\ UNCHANGED <<relay, sends>>
      BY <1>0, <1>1, <2>1, RelayAssumption DEF CreateEvent, RelayInv, TypeOK, Event
    <2>3. sends[n] \in Nat /\ ~(sends[n] > 0)
      BY <1>0, <2>2 DEF RelayInv, SentIffCommitted, TypeOK
    <2>4. \A e \in Event : e > created' => outbox'[e] = "none"
      BY <2>1, <2>2 DEF RelayInv, Event
    <2>5. \A p \in Process : \A e \in relay[p].batch : e \in Event /\ e # n
      BY <1>0, <2>2 DEF RelayInv, TypeOK, RelayState
    <2>6. QED
      BY <1>0, <2>2, <2>3, <2>4, <2>5 DEF RelayInv, SentIffCommitted, Handed, IsCurrent
  <1>2. ASSUME NEW e \in Event, CommitEvent(e) PROVE RelayInv'
    <2>1. /\ outbox[e] = "open" /\ UNCHANGED <<relay, sends, created>>
          /\ \A d \in Event : outbox'[d] = IF d = e THEN "unpublished" ELSE outbox[d]
      BY <1>0, <1>2 DEF CommitEvent, TypeOK
    <2>2. ~(e > created)
      BY <2>1 DEF RelayInv
    <2>3. \A p \in Process : relay[p].batch \subseteq Event
      BY <1>0 DEF TypeOK, RelayState
    <2>4. QED
      BY <1>0, <2>1, <2>2, <2>3 DEF RelayInv, SentIffCommitted, Handed, IsCurrent
  <1>3. ASSUME NEW e \in Event, RollbackEvent(e) PROVE RelayInv'
    <2>1. /\ outbox[e] = "open" /\ UNCHANGED <<relay, sends, created>>
          /\ \A d \in Event : outbox'[d] = IF d = e THEN "none" ELSE outbox[d]
      BY <1>0, <1>3 DEF RollbackEvent, TypeOK
    <2>2. ~(sends[e] > 0)
      BY <2>1 DEF RelayInv, SentIffCommitted
    <2>3. \A p \in Process : relay[p].batch \subseteq Event /\ e \notin relay[p].batch
      BY <1>0, <2>1 DEF RelayInv, TypeOK, RelayState
    <2>4. QED
      BY <1>0, <2>1, <2>2, <2>3 DEF RelayInv, SentIffCommitted, Handed, IsCurrent
  \* A relay that lets go of rows, while the tables stay as they are.
  <1>4. ASSUME NEW p \in Process, UNCHANGED <<outbox, created>>,
               relay'[p].published = FALSE,
               \A d \in relay'[p].batch : outbox[d] \in {"unpublished", "published"},
               \A q \in Process : q # p => relay'[q] = relay[q],
               \A d \in Event : \/ sends'[d] = sends[d]
                                \/ /\ sends'[d] = sends[d] + 1
                                   /\ outbox[d] \in {"unpublished", "published"}
        PROVE  RelayInv'
    <2>1. \A d \in Event : sends[d] \in Nat /\ (sends[d] > 0 => sends'[d] > 0)
      BY <1>0, <1>4 DEF TypeOK
    <2>2. SentIffCommitted'
      BY <1>4, <2>1 DEF RelayInv, SentIffCommitted
    <2>3. \A q \in Process, d \in Event : Handed(q, d)' => Handed(q, d)
      BY <1>4 DEF Handed, IsCurrent
    <2>4. QED
      BY <1>0, <1>4, <2>1, <2>2, <2>3 DEF RelayInv
  <1>5. ASSUME NEW p \in Process, RelayStep(p) PROVE RelayInv'
    <2>1. CASE Fetch(p)
      <3>1. /\ relay'[p].published = FALSE /\ relay'[p].batch = Oldest(Unpublished)
            /\ \A q \in Process : q # p => relay'[q] = relay[q]
            /\ UNCHANGED <<outbox, created, sends>>
        BY <1>0, <2>1 DEF Fetch, TypeOK
      <3>2. QED
        BY <1>4, <3>1, Fetched
    <2>2. CASE Restart(p)
      <3>1. /\ relay'[p].published = FALSE /\ relay'[p].batch = {}
            /\ \A q \in Process : q # p => relay'[q] = relay[q]
            /\ UNCHANGED <<outbox, created, sends>>
        BY <1>0, <2>2 DEF Restart, IdleRelay, TypeOK
      <3>2. QED
        BY <1>4, <3>1
    <2>3. ASSUME NEW e \in Event, Publish(p, e) PROVE RelayInv'
      <3>1. /\ relay'[p].batch = relay[p].batch /\ relay'[p].published = TRUE
            /\ \A q \in Process : q # p => relay'[q] = relay[q]
        BY <1>0, <2>3, PublishRelay
      <3>2. /\ \A d \in Event : sends'[d] = IF d = e THEN sends[e] + 1 ELSE sends[d]
            /\ UNCHANGED <<outbox, created>>
        BY <1>0, <2>3, SendType DEF Publish
      <3>3. IsCurrent(p, e) /\ outbox[e] \in {"unpublished", "published"}
        BY <2>3 DEF Publish, IsCurrent, RelayInv
      <3>4. \A d \in Event : /\ sends[d] \in Nat /\ (sends[d] > 0 => sends'[d] > 0)
                             /\ sends'[e] > 0
        BY <1>0, <3>2 DEF TypeOK
      <3>5. SentIffCommitted'
        BY <3>2, <3>3, <3>4 DEF RelayInv, SentIffCommitted
      <3>6. \A q \in Process, d \in Event : Handed(q, d)' => sends'[d] > 0
        <4> SUFFICES ASSUME NEW q \in Process, NEW d \in Event, Handed(q, d)'
                     PROVE  sends'[d] > 0
          OBVIOUS
        <4>1. CASE q = p
          <5>1. d \in relay[p].batch /\ e \in relay[p].batch /\ d <= e /\ e <= d
            BY <3>1, <3>3, <4>1 DEF Handed, IsCurrent
          <5>2. d = e
            BY <5>1 DEF Event
          <5>3. QED
            BY <3>4, <5>2
        <4>2. CASE q # p
          BY <3>1, <3>4, <4>2 DEF Handed, IsCurrent, RelayInv
        <4>3. QED
          BY <4>1, <4>2
      <3>7. QED
        BY <1>0, <3>1, <3>2, <3>5, <3>6 DEF RelayInv
    <2>4. ASSUME NEW e \in Event, PublishError(p, e) \/ MarkError(p, e) PROVE RelayInv'
      <3>1. Drop(p, e) /\ UNCHANGED <<outbox, created, sends>>
        BY <2>4 DEF PublishError, MarkError
      <3>2. /\ relay'[p].published = FALSE /\ relay'[p].batch \subseteq relay[p].batch
            /\ \A q \in Process : q # p => relay'[q] = relay[q]
        BY <1>0, <3>1, DropType
      <3>3. \A d \in relay'[p].batch : outbox[d] \in {"unpublished", "published"}
        BY <3>2 DEF RelayInv
      <3>4. QED
        BY <1>4, <3>1, <3>2, <3>3
    <2>5. ASSUME NEW e \in Event, PublishReplyLost(p, e) PROVE RelayInv'
      <3>1. /\ Drop(p, e) /\ Send(e) /\ UNCHANGED <<outbox, created>>
            /\ outbox[e] \in {"unpublished", "published"}
        BY <2>5 DEF PublishReplyLost, IsCurrent, RelayInv
      <3>2. /\ relay'[p].published = FALSE /\ relay'[p].batch \subseteq relay[p].batch
            /\ \A q \in Process : q # p => relay'[q] = relay[q]
        BY <1>0, <3>1, DropType
      <3>3. \A d \in relay'[p].batch : outbox[d] \in {"unpublished", "published"}
        BY <3>2 DEF RelayInv
      <3>4. \A d \in Event : sends'[d] = IF d = e THEN sends[e] + 1 ELSE sends[d]
        BY <1>0, <3>1, SendType
      <3>5. QED
        BY <1>4, <3>1, <3>2, <3>3, <3>4
    <2>6. ASSUME NEW e \in Event, MarkPublished(p, e) PROVE RelayInv'
      <3>1. /\ Drop(p, e) /\ UNCHANGED <<created, sends>>
            /\ Handed(p, e)
            /\ \A d \in Event : outbox'[d] = IF d = e THEN "published" ELSE outbox[d]
        BY <1>0, <2>6 DEF MarkPublished, Handed, TypeOK
      <3>2. sends[e] > 0 /\ outbox[e] \in {"unpublished", "published"}
        BY <3>1 DEF RelayInv, Handed, IsCurrent
      <3>3. ~(e > created)
        BY <3>2 DEF RelayInv
      <3>4. /\ relay'[p].published = FALSE /\ relay'[p].batch \subseteq relay[p].batch
            /\ \A q \in Process : q # p => relay'[q] = relay[q]
        BY <1>0, <3>1, DropType
      <3>5. \A q \in Process : relay[q].batch \subseteq Event
        BY <1>0 DEF TypeOK, RelayState
      <3>6. \A q \in Process : \A d \in relay'[q].batch : outbox'[d] \in {"unpublished", "published"}
        BY <3>1, <3>4, <3>5 DEF RelayInv
      <3>7. \A q \in Process, d \in Event : Handed(q, d)' => Handed(q, d)
        BY <3>4 DEF Handed, IsCurrent
      <3>8. QED
        BY <1>0, <3>1, <3>2, <3>3, <3>6, <3>7 DEF RelayInv, SentIffCommitted
    <2>7. QED
      BY <1>5, <2>1, <2>2, <2>3, <2>4, <2>5, <2>6 DEF RelayStep
  <1>6. CASE (\E s \in Socket : Connect(s) \/ Disconnect(s)) \/ UNCHANGED vars
    <2>1. UNCHANGED <<outbox, created, relay, sends>>
      BY <1>6 DEF Connect, Disconnect, vars
    <2>2. QED
      BY <1>0, <2>1 DEF RelayInv, SentIffCommitted, Handed, IsCurrent
  <1>7. QED
    BY <1>1, <1>2, <1>3, <1>5, <1>6 DEF Next

\* The relay is type correct.
THEOREM TypeCorrect == Spec => []TypeOK
  <1>1. RelayInv => TypeOK
    BY DEF RelayInv
  <1>2. QED
    BY <1>1, RelayInit, RelayInvStep, PTL DEF Spec

(***************************************************************************)
(* At least once, and never anything uncommitted: the relay publishes      *)
(* before it marks, and fetches only what a transaction committed.         *)
(***************************************************************************)
THEOREM SentIffCommittedHolds == Spec => []SentIffCommitted
  <1>1. RelayInv => SentIffCommitted
    BY DEF RelayInv
  <1>2. QED
    BY <1>1, RelayInit, RelayInvStep, PTL DEF Spec

-----------------------------------------------------------------------------
(* Duplicates                                                              *)

\* A set of relays is counted; one more relay counts at most once more, and
\* one relay less counts once less.
LEMMA RelayCount ==
  ASSUME NEW S \in SUBSET Process, NEW T \in SUBSET Process, NEW p \in Process
  PROVE  /\ Cardinality(S) \in Nat
         /\ T \subseteq S => Cardinality(T) <= Cardinality(S)
         /\ T \subseteq S \cup {p} => Cardinality(T) <= Cardinality(S) + 1
         /\ T \subseteq S /\ p \in S /\ p \notin T => Cardinality(T) + 1 <= Cardinality(S)
  <1>1. IsFiniteSet(S) /\ IsFiniteSet(T)
    BY RelayAssumption, FS_Subset
  <1>2. Cardinality(S) \in Nat /\ Cardinality(T) \in Nat
    BY <1>1, FS_CardinalityType
  <1>3. T \subseteq S => Cardinality(T) <= Cardinality(S)
    BY <1>1, FS_Subset
  <1>4. /\ IsFiniteSet(S \cup {p})
        /\ Cardinality(S \cup {p}) = IF p \in S THEN Cardinality(S) ELSE Cardinality(S) + 1
    BY <1>1, FS_AddElement
  <1>5. T \subseteq S \cup {p} => Cardinality(T) <= Cardinality(S \cup {p})
    BY <1>4, FS_Subset
  <1>6. /\ IsFiniteSet(T \cup {p})
        /\ Cardinality(T \cup {p}) = IF p \in T THEN Cardinality(T) ELSE Cardinality(T) + 1
    BY <1>1, FS_AddElement
  <1>7. T \cup {p} \subseteq S => Cardinality(T \cup {p}) <= Cardinality(S)
    BY <1>1, FS_Subset
  <1>8. QED
    BY <1>2, <1>3, <1>4, <1>5, <1>6, <1>7

\* The rows a relay holds are events, and the one it is at is the first.
LEMMA OneCurrent ==
  ASSUME TypeOK, NEW p \in Process, NEW d \in Event, NEW e \in Event,
         IsCurrent(p, d), IsCurrent(p, e)
  PROVE  d = e
  <1>1. d <= e /\ e <= d
    BY DEF IsCurrent
  <1>2. QED
    BY <1>1 DEF Event

\* At the start every relay may send every event, and none has.
LEMMA ChargedInit == Init => SendsCharged
  <1> SUFFICES ASSUME Init, NEW e \in Event
               PROVE  sends[e] + Cardinality(MaySend(e)) <= Cardinality(Process) + faults
    BY DEF SendsCharged
  <1>1. MaySend(e) \subseteq Process
    BY DEF MaySend
  <1>2. Cardinality(MaySend(e)) <= Cardinality(Process) /\ Cardinality(Process) \in Nat
        /\ Cardinality(MaySend(e)) \in Nat
    BY <1>1, RelayAssumption, FS_Subset, FS_CardinalityType
  <1>3. sends[e] = 0 /\ faults = 0
    BY DEF Init
  <1>4. QED
    BY <1>2, <1>3

(***************************************************************************)
(* Every step keeps the charge: a send uses up the right of its relay, and *)
(* a relay gets a right back only from a fault.                            *)
(***************************************************************************)
LEMMA ChargedStep == ASSUME RelayInv, SendsCharged, [Next]_vars PROVE SendsCharged'
  <1> SUFFICES ASSUME NEW e \in Event
               PROVE  sends'[e] + Cardinality(MaySend(e)') <= Cardinality(Process) + faults'
    BY DEF SendsCharged
  <1>0. /\ TypeOK /\ TypeOK' /\ RelayInv'
        /\ MaySend(e) \in SUBSET Process /\ MaySend(e)' \in SUBSET Process
        /\ sends[e] \in Nat /\ sends'[e] \in Nat /\ faults \in Nat /\ faults' \in Nat
        /\ Cardinality(Process) \in Nat
        /\ Cardinality(MaySend(e)) \in Nat /\ Cardinality(MaySend(e)') \in Nat
        /\ sends[e] + Cardinality(MaySend(e)) <= Cardinality(Process) + faults
    <2>1. TypeOK /\ TypeOK' /\ RelayInv'
      BY RelayInvStep DEF RelayInv
    <2>2. MaySend(e) \in SUBSET Process /\ MaySend(e)' \in SUBSET Process
      BY DEF MaySend
    <2>3. /\ IsFiniteSet(Process) /\ IsFiniteSet(MaySend(e)) /\ IsFiniteSet(MaySend(e)')
      BY <2>2, RelayAssumption, FS_Subset
    <2>4. /\ Cardinality(Process) \in Nat
          /\ Cardinality(MaySend(e)) \in Nat /\ Cardinality(MaySend(e)') \in Nat
      BY <2>3, FS_CardinalityType
    <2>5. sends[e] \in Nat /\ sends'[e] \in Nat /\ faults \in Nat /\ faults' \in Nat
      BY <2>1, RelayAssumption DEF TypeOK
    <2>6. QED
      BY <2>1, <2>2, <2>4, <2>5 DEF SendsCharged
  \* Nothing is sent and no right is gained.
  <1>1. ASSUME sends'[e] = sends[e], MaySend(e)' \subseteq MaySend(e), faults <= faults'
        PROVE  sends'[e] + Cardinality(MaySend(e)') <= Cardinality(Process) + faults'
    <2>1. Cardinality(MaySend(e)') <= Cardinality(MaySend(e))
      BY <1>0, <1>1, FS_Subset, RelayAssumption
    <2>2. QED
      BY <1>0, <1>1, <2>1
  \* Nothing is sent, and one right is paid for with a fault.
  <1>2. ASSUME NEW p \in Process, sends'[e] = sends[e],
               MaySend(e)' \subseteq MaySend(e) \cup {p}, faults' = faults + 1
        PROVE  sends'[e] + Cardinality(MaySend(e)') <= Cardinality(Process) + faults'
    <2>1. Cardinality(MaySend(e)') <= Cardinality(MaySend(e)) + 1
      BY <1>0, <1>2, RelayCount
    <2>2. QED
      BY <1>0, <1>2, <2>1
  \* Rows that a relay lets go of, or new rows, give others no right.
  <1>3. ASSUME NEW p \in Process, NEW q \in Process, q # p,
               \A r \in Process : r # p => relay'[r] = relay[r],
               outbox'[e] # "published" => outbox[e] # "published",
               q \in MaySend(e)'
        PROVE  q \in MaySend(e)
    BY <1>3 DEF MaySend, Handed, IsCurrent
  <1>4. CASE CreateEvent
    <2>1. PICK n \in Event : n = created + 1
      BY <1>0, <1>4, RelayAssumption DEF CreateEvent, TypeOK, Event
    <2>2. /\ outbox[n] = "none" /\ UNCHANGED <<relay, sends, faults>>
          /\ \A d \in Event : outbox'[d] = IF d = n THEN "open" ELSE outbox[d]
      BY <1>0, <1>4, <2>1, RelayAssumption DEF CreateEvent, RelayInv, TypeOK, Event
    <2>3. MaySend(e)' \subseteq MaySend(e)
      BY <2>2 DEF MaySend, Handed, IsCurrent
    <2>4. QED
      BY <1>0, <1>1, <2>2, <2>3
  <1>5. ASSUME NEW d \in Event, CommitEvent(d) \/ RollbackEvent(d)
        PROVE  sends'[e] + Cardinality(MaySend(e)') <= Cardinality(Process) + faults'
    <2>1. /\ outbox[d] = "open" /\ UNCHANGED <<relay, sends>>
          /\ \A x \in Event : x # d => outbox'[x] = outbox[x]
      BY <1>0, <1>5 DEF CommitEvent, RollbackEvent, TypeOK
    <2>2. faults <= faults'
      BY <1>0, <1>5, FaultType DEF CommitEvent, RollbackEvent
    <2>3. MaySend(e)' \subseteq MaySend(e)
      BY <2>1 DEF MaySend, Handed, IsCurrent
    <2>4. QED
      BY <1>0, <1>1, <2>1, <2>2, <2>3
  <1>6. ASSUME NEW p \in Process, RelayStep(p)
        PROVE  sends'[e] + Cardinality(MaySend(e)') <= Cardinality(Process) + faults'
    <2>1. CASE Fetch(p)
      <3>1. /\ relay[p].batch = {} /\ relay'[p].published = FALSE
            /\ relay'[p].batch = Oldest(Unpublished)
            /\ \A q \in Process : q # p => relay'[q] = relay[q]
            /\ UNCHANGED <<outbox, sends, faults>>
        BY <1>0, <2>1 DEF Fetch, TypeOK
      <3>2. p \in MaySend(e)' => p \in MaySend(e)
        BY <3>1, Fetched DEF MaySend, Handed, IsCurrent
      <3>3. MaySend(e)' \subseteq MaySend(e)
        BY <1>0, <1>3, <3>1, <3>2
      <3>4. QED
        BY <1>0, <1>1, <3>1, <3>3
    <2>2. CASE Restart(p)
      <3>1. /\ \A q \in Process : q # p => relay'[q] = relay[q]
            /\ UNCHANGED <<outbox, sends>> /\ Fault
        BY <1>0, <2>2 DEF Restart, TypeOK
      <3>2. MaySend(e)' \subseteq MaySend(e) \cup {p}
        BY <1>0, <1>3, <3>1
      <3>3. QED
        BY <1>0, <1>2, <3>1, <3>2, FaultType
    <2>3. ASSUME NEW d \in Event, Publish(p, d)
          PROVE  sends'[e] + Cardinality(MaySend(e)') <= Cardinality(Process) + faults'
      <3>1. /\ relay'[p].batch = relay[p].batch /\ relay'[p].published = TRUE
            /\ \A q \in Process : q # p => relay'[q] = relay[q]
        BY <1>0, <2>3, PublishRelay
      <3>2. /\ \A x \in Event : sends'[x] = IF x = d THEN sends[d] + 1 ELSE sends[x]
            /\ UNCHANGED <<outbox, faults>>
        BY <1>0, <2>3, SendType DEF Publish
      <3>3. IsCurrent(p, d) /\ relay[p].published = FALSE
        <4>1. relay[p].published \in BOOLEAN
          BY <1>0 DEF TypeOK, RelayState
        <4>2. QED
          BY <2>3, <4>1 DEF Publish
      <3>4. p \in MaySend(e)' => p \in MaySend(e)
        BY <3>1, <3>2, <3>3 DEF MaySend, Handed, IsCurrent
      <3>5. MaySend(e)' \subseteq MaySend(e)
        BY <1>0, <1>3, <3>1, <3>2, <3>4
      <3>6. CASE d = e
        <4>1. p \in MaySend(e)
          BY <3>3, <3>6 DEF MaySend, Handed, IsCurrent
        <4>2. p \notin MaySend(e)'
          BY <3>1, <3>3, <3>6 DEF MaySend, Handed, IsCurrent
        <4>3. Cardinality(MaySend(e)') + 1 <= Cardinality(MaySend(e))
          BY <1>0, <3>5, <4>1, <4>2, RelayCount
        <4>4. sends'[e] = sends[e] + 1 /\ faults' = faults
          BY <3>2, <3>6
        <4>5. QED
          BY <1>0, <4>3, <4>4
      <3>7. CASE d # e
        BY <1>0, <1>1, <3>2, <3>5, <3>7
      <3>8. QED
        BY <3>6, <3>7
    <2>4. ASSUME NEW d \in Event, PublishError(p, d) \/ MarkError(p, d)
          PROVE  sends'[e] + Cardinality(MaySend(e)') <= Cardinality(Process) + faults'
      <3>1. Drop(p, d) /\ Fault /\ UNCHANGED <<outbox, sends>>
        BY <2>4 DEF PublishError, MarkError
      <3>2. \A q \in Process : q # p => relay'[q] = relay[q]
        BY <1>0, <3>1, DropType
      <3>3. MaySend(e)' \subseteq MaySend(e) \cup {p}
        BY <1>0, <1>3, <3>1, <3>2
      <3>4. QED
        BY <1>0, <1>2, <3>1, <3>3, FaultType
    <2>5. ASSUME NEW d \in Event, PublishReplyLost(p, d)
          PROVE  sends'[e] + Cardinality(MaySend(e)') <= Cardinality(Process) + faults'
      <3>1. /\ Drop(p, d) /\ Send(d) /\ Fault /\ UNCHANGED outbox
            /\ IsCurrent(p, d) /\ relay[p].published = FALSE
        <4>1. relay[p].published \in BOOLEAN
          BY <1>0 DEF TypeOK, RelayState
        <4>2. QED
          BY <2>5, <4>1 DEF PublishReplyLost
      <3>2. /\ relay'[p].batch = relay[p].batch \ {d} /\ relay'[p].published = FALSE
            /\ \A q \in Process : q # p => relay'[q] = relay[q]
        BY <1>0, <3>1, DropType
      <3>3. \A x \in Event : sends'[x] = IF x = d THEN sends[d] + 1 ELSE sends[x]
        BY <1>0, <3>1, SendType
      <3>4. p \in MaySend(e)' => p \in MaySend(e)
        BY <3>1, <3>2 DEF MaySend, Handed, IsCurrent
      <3>5. MaySend(e)' \subseteq MaySend(e)
        BY <1>0, <1>3, <3>1, <3>2, <3>4
      <3>6. Cardinality(MaySend(e)') <= Cardinality(MaySend(e)) /\ faults' = faults + 1
        BY <1>0, <3>1, <3>2, <3>5, RelayCount, FaultType
      <3>7. sends'[e] <= sends[e] + 1
        BY <1>0, <3>3
      <3>8. QED
        BY <1>0, <3>6, <3>7
    <2>6. ASSUME NEW d \in Event, MarkPublished(p, d)
          PROVE  sends'[e] + Cardinality(MaySend(e)') <= Cardinality(Process) + faults'
      <3>1. /\ Drop(p, d) /\ UNCHANGED <<sends, faults>> /\ Handed(p, d) /\ IsCurrent(p, d)
            /\ \A x \in Event : outbox'[x] = IF x = d THEN "published" ELSE outbox[x]
        BY <1>0, <2>6 DEF MarkPublished, Handed, TypeOK
      <3>2. /\ relay'[p].batch = relay[p].batch \ {d} /\ relay'[p].published = FALSE
            /\ \A q \in Process : q # p => relay'[q] = relay[q]
        BY <1>0, <3>1, DropType
      <3>3. ASSUME p \in MaySend(e)' PROVE p \in MaySend(e)
        <4>1. e # d /\ (outbox[e] # "published" \/ e \in relay[p].batch)
          BY <3>1, <3>2, <3>3 DEF MaySend
        <4>2. ~Handed(p, e)
          BY <1>0, <3>1, <4>1, OneCurrent DEF Handed
        <4>3. QED
          BY <4>1, <4>2 DEF MaySend
      <3>4. MaySend(e)' \subseteq MaySend(e)
        BY <1>0, <1>3, <3>1, <3>2, <3>3
      <3>5. QED
        BY <1>0, <1>1, <3>1, <3>4
    <2>7. QED
      BY <1>6, <2>1, <2>2, <2>3, <2>4, <2>5, <2>6 DEF RelayStep
  <1>7. CASE (\E s \in Socket : Connect(s) \/ Disconnect(s)) \/ UNCHANGED vars
    <2>1. UNCHANGED <<outbox, relay, sends>> /\ faults <= faults'
      <3>1. UNCHANGED <<outbox, relay, sends>> /\ (UNCHANGED faults \/ Fault)
        BY <1>7 DEF Connect, Disconnect, vars
      <3>2. QED
        BY <1>0, <3>1, FaultType
    <2>2. MaySend(e)' \subseteq MaySend(e)
      BY <2>1 DEF MaySend, Handed, IsCurrent
    <2>3. QED
      BY <1>0, <1>1, <2>1, <2>2
  <1>8. QED
    BY <1>4, <1>5, <1>6, <1>7 DEF Next

(***************************************************************************)
(* Duplicates are bounded for any number of relays and faults: a relay     *)
(* that has handed an event to Redis marks it, or pays with a fault.       *)
(***************************************************************************)
THEOREM DuplicatesBoundedHolds == Spec => []DuplicatesBounded
  <1>1. RelayInv /\ SendsCharged => DuplicatesBounded
    <2> SUFFICES ASSUME RelayInv, SendsCharged, NEW e \in Event
                 PROVE  sends[e] <= Cardinality(Process) + faults
      BY DEF DuplicatesBounded
    <2>1. IsFiniteSet(Process) /\ MaySend(e) \subseteq Process
      BY RelayAssumption DEF MaySend
    <2>2. Cardinality(Process) \in Nat /\ Cardinality(MaySend(e)) \in Nat
      BY <2>1, FS_Subset, FS_CardinalityType
    <2>3. sends[e] \in Nat /\ faults \in Nat
      BY RelayAssumption DEF RelayInv, TypeOK
    <2>4. QED
      BY <2>2, <2>3 DEF SendsCharged
  <1>2. QED
    BY <1>1, RelayInit, RelayInvStep, ChargedInit, ChargedStep, PTL DEF Spec
=============================================================================
