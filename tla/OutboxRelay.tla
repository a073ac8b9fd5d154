------------------------------ MODULE OutboxRelay ------------------------------
(***************************************************************************)
(* The transactional outbox and its way to the dashboard: the executor     *)
(* inserts an event in the transaction of the status change, the relay of  *)
(* every process polls the table and publishes to Redis, and WebSocket     *)
(* handlers forward what they receive on the channel they subscribed to.   *)
(*                                                                         *)
(* Events are numbered in the order of created_at, which OutboxEvent::new  *)
(* takes from the clock before the transaction commits.                    *)
(***************************************************************************)
EXTENDS Naturals, FiniteSets

CONSTANTS
  MaxEvents,  \* bound: events in a behaviour
  Process,    \* processes, each with one relay
  Socket,     \* dashboard WebSocket connections
  Kinds,      \* the event types jobs may produce
  Batch,      \* LIMIT of the relay's query (50 in the code)
  MaxFaults   \* bound: crashes, Redis errors and database errors

Event == 1 .. MaxEvents

EventType == {"job_completed", "job_retry_scheduled", "job_moved_to_dlq"}

Channel == {"jobs", "dlq"}

ASSUME RelayAssumption ==
  /\ MaxEvents \in Nat
  /\ IsFiniteSet(Process)
  /\ Kinds \subseteq EventType
  /\ Batch \in Nat \ {0}
  /\ MaxFaults \in Nat

VARIABLES
  outbox,   \* the outbox_events table, and events of open transactions
  kind,     \* event_type
  created,  \* how many events were created
  relay,    \* what each relay fetched and where it is
  sends,    \* how often each event was published to Redis
  socket,   \* whether each dashboard connection is subscribed
  seen,     \* the events each connection has forwarded
  faults    \* crashes and errors so far

vars == <<outbox, kind, created, relay, sends, socket, seen, faults>>

\* The rows a relay fetched and has not dealt with, in created_at order, and
\* whether the first of them has been published.
RelayState ==
  {r \in [batch : SUBSET Event, published : BOOLEAN] : r.published => r.batch # {}}

TypeOK ==
  /\ outbox \in [Event -> {"none", "open", "unpublished", "published"}]
  /\ kind \in [Event -> EventType]
  /\ created \in 0 .. MaxEvents
  /\ relay \in [Process -> RelayState]
  /\ sends \in [Event -> Nat]
  /\ socket \in [Socket -> {"closed", "subscribed"}]
  /\ seen \in [Socket -> SUBSET Event]
  /\ faults \in 0 .. MaxFaults

IdleRelay == [batch |-> {}, published |-> FALSE]

Init ==
  /\ outbox = [e \in Event |-> "none"]
  /\ kind = [e \in Event |-> "job_completed"]
  /\ created = 0
  /\ relay = [p \in Process |-> IdleRelay]
  /\ sends = [e \in Event |-> 0]
  /\ socket = [s \in Socket |-> "closed"]
  /\ seen = [s \in Socket |-> {}]
  /\ faults = 0

-----------------------------------------------------------------------------
(* Executor side: OutboxEvent::new, insert_in_tx, commit                   *)

CreateEvent ==
  /\ created < MaxEvents
  /\ created' = created + 1
  /\ \E k \in Kinds : kind' = [kind EXCEPT ![created + 1] = k]
  /\ outbox' = [outbox EXCEPT ![created + 1] = "open"]
  /\ UNCHANGED <<relay, sends, socket, seen, faults>>

\* Transactions of different jobs commit in any order.
CommitEvent(e) ==
  /\ outbox[e] = "open"
  /\ outbox' = [outbox EXCEPT ![e] = "unpublished"]
  /\ UNCHANGED <<kind, created, relay, sends, socket, seen, faults>>

Fault ==
  /\ faults < MaxFaults
  /\ faults' = faults + 1

\* The transaction fails: neither the status change nor the event is stored.
RollbackEvent(e) ==
  /\ outbox[e] = "open"
  /\ Fault
  /\ outbox' = [outbox EXCEPT ![e] = "none"]
  /\ UNCHANGED <<kind, created, relay, sends, socket, seen>>

-----------------------------------------------------------------------------
(* Relay: run_relay                                                        *)

\* Mutant of Unpublished: no WHERE clause.
UnpublishedAll == {e \in Event : outbox[e] \in {"unpublished", "published"}}

Unpublished == {e \in Event : outbox[e] = "unpublished"}

\* Mutant of Oldest: LIMIT off by one.
OldestShort(S) == {e \in S : Cardinality({d \in S : d < e}) < Batch - 1}

\* ORDER BY created_at ASC LIMIT Batch, without any lock on the rows.
Oldest(S) == {e \in S : Cardinality({d \in S : d < e}) < Batch}

Fetch(p) ==
  /\ relay[p].batch = {}
  /\ relay' = [relay EXCEPT ![p] = [batch |-> Oldest(Unpublished), published |-> FALSE]]
  /\ UNCHANGED <<outbox, kind, created, sends, socket, seen, faults>>

\* The event the loop over the fetched rows is at.
IsCurrent(p, e) == e \in relay[p].batch /\ \A d \in relay[p].batch : e <= d

\* The loop goes on to the next row.
Drop(p, e) ==
  relay' = [relay EXCEPT ![p] = [batch |-> @.batch \ {e}, published |-> FALSE]]

\* Mutant of EventChannel: the channels are swapped.
EventChannelSwapped(k) == IF k = "job_moved_to_dlq" THEN "jobs" ELSE "dlq"

EventChannel(k) == IF k = "job_moved_to_dlq" THEN "dlq" ELSE "jobs"

\* handle_socket subscribes to JOBS_CHANNEL only.
Subscribed(s) == IF socket[s] = "subscribed" THEN {"jobs"} ELSE {}

\* Redis Pub/Sub hands a message to whoever is subscribed at that moment.
Send(e) ==
  /\ sends' = [sends EXCEPT ![e] = @ + 1]
  /\ seen' = [s \in Socket |-> IF EventChannel(kind[e]) \in Subscribed(s)
                                 THEN seen[s] \cup {e} ELSE seen[s]]

Publish(p, e) ==
  /\ IsCurrent(p, e)
  /\ ~relay[p].published
  /\ relay' = [relay EXCEPT ![p].published = TRUE]
  /\ Send(e)
  /\ UNCHANGED <<outbox, kind, created, socket, faults>>

\* Mutant of PublishError: no `continue', the row is marked all the same.
PublishErrorGoesOn(p, e) ==
  /\ IsCurrent(p, e)
  /\ ~relay[p].published
  /\ Fault
  /\ relay' = [relay EXCEPT ![p].published = TRUE]
  /\ UNCHANGED <<outbox, kind, created, sends, socket, seen>>

\* publish fails: the row is skipped and stays unpublished.
PublishError(p, e) ==
  /\ IsCurrent(p, e)
  /\ ~relay[p].published
  /\ Fault
  /\ Drop(p, e)
  /\ UNCHANGED <<outbox, kind, created, sends, socket, seen>>

\* Redis has the message and its reply is lost: skipped like any failure.
PublishReplyLost(p, e) ==
  /\ IsCurrent(p, e)
  /\ ~relay[p].published
  /\ Fault
  /\ Drop(p, e)
  /\ Send(e)
  /\ UNCHANGED <<outbox, kind, created, socket>>

MarkPublished(p, e) ==
  /\ IsCurrent(p, e)
  /\ relay[p].published
  /\ outbox' = [outbox EXCEPT ![e] = "published"]
  /\ Drop(p, e)
  /\ UNCHANGED <<kind, created, sends, socket, seen, faults>>

MarkError(p, e) ==
  /\ IsCurrent(p, e)
  /\ relay[p].published
  /\ Fault
  /\ Drop(p, e)
  /\ UNCHANGED <<outbox, kind, created, sends, socket, seen>>

\* The process dies and is started again, with an empty relay.
Restart(p) ==
  /\ Fault
  /\ relay' = [relay EXCEPT ![p] = IdleRelay]
  /\ UNCHANGED <<outbox, kind, created, sends, socket, seen>>

-----------------------------------------------------------------------------
(* Dashboard: handle_socket                                                *)

Connect(s) ==
  /\ socket[s] = "closed"
  /\ socket' = [socket EXCEPT ![s] = "subscribed"]
  /\ UNCHANGED <<outbox, kind, created, relay, sends, seen, faults>>

Disconnect(s) ==
  /\ socket[s] = "subscribed"
  /\ Fault
  /\ socket' = [socket EXCEPT ![s] = "closed"]
  /\ UNCHANGED <<outbox, kind, created, relay, sends, seen>>

RelayStep(p) ==
  \/ Fetch(p) \/ Restart(p)
  \/ \E e \in Event : \/ Publish(p, e) \/ PublishError(p, e) \/ PublishReplyLost(p, e)
                      \/ MarkPublished(p, e) \/ MarkError(p, e)

Next ==
  \/ CreateEvent
  \/ \E e \in Event : CommitEvent(e) \/ RollbackEvent(e)
  \/ \E p \in Process : RelayStep(p)
  \/ \E s \in Socket : Connect(s) \/ Disconnect(s)

Spec == Init /\ [][Next]_vars

\* Transactions end, the relay of every process keeps ticking, and the
\* dashboard reconnects.
Fairness ==
  /\ \A e \in Event : WF_vars(CommitEvent(e))
  /\ \A p \in Process :
       /\ WF_vars(Fetch(p))
       /\ \A e \in Event : WF_vars(Publish(p, e)) /\ WF_vars(MarkPublished(p, e))
  /\ \A s \in Socket : WF_vars(Connect(s))

FairSpec == Spec /\ Fairness

-----------------------------------------------------------------------------
(* Properties                                                              *)

(***************************************************************************)
(* At least once: an event is never marked published before some relay has *)
(* handed it to Redis, and nothing of an uncommitted or rolled back        *)
(* transaction is ever sent.                                               *)
(***************************************************************************)
SentIffCommitted ==
  \A e \in Event :
    /\ outbox[e] = "published" => sends[e] > 0
    /\ sends[e] > 0 => outbox[e] \in {"unpublished", "published"}

(***************************************************************************)
(* Duplicates are bounded: without a lock each relay may send an event     *)
(* once, and only a crash or a failed mark makes a relay send it again.    *)
(***************************************************************************)
DuplicatesBounded ==
  \A e \in Event : sends[e] <= Cardinality(Process) + faults

\* A committed job event that was not sent yet, and a dashboard waiting for it.
Awaited(e, s) ==
  /\ outbox[e] = "unpublished"
  /\ sends[e] = 0
  /\ kind[e] # "job_moved_to_dlq"
  /\ socket[s] = "subscribed"

(***************************************************************************)
(* A dashboard that is connected when a job event is committed, and stays  *)
(* connected, gets to see it, whatever relays and Redis go through.  (DLQ  *)
(* events are on a channel that no dashboard subscribes to.)               *)
(***************************************************************************)
ConnectedSees ==
  \A e \in Event, s \in Socket :
    Awaited(e, s) ~> (e \in seen[s] \/ socket[s] = "closed")

(***************************************************************************)
(* Every committed event is eventually published, errors and restarts of   *)
(* the relay included.                                                     *)
(***************************************************************************)
EventuallyPublished ==
  \A e \in Event : outbox[e] = "unpublished" ~> outbox[e] = "published"
=============================================================================
