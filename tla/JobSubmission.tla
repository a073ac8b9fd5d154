----------------------------- MODULE JobSubmission -----------------------------
(***************************************************************************)
(* create_job with idempotency keys, on one queue.  A request looks up its *)
(* key, reads the queue and inserts, each in a statement of its own; the   *)
(* unique constraint on (queue_id, idempotency_key) decides between        *)
(* requests that passed the look-up together.  Clients repeat a request    *)
(* until it is answered with a job.                                        *)
(***************************************************************************)
EXTENDS Naturals, FiniteSets

CONSTANTS
  Client,    \* clients; each makes one submission, as often as it needs
  Key,       \* idempotency keys
  NoKey,     \* a submission without one
  MaxRows,   \* bound: rows inserted
  MaxPauses, \* bound: how often the queue is paused
  MaxLost    \* bound: replies lost on the way to the client

ASSUME JobSubmissionAssumption ==
  /\ NoKey \notin Key
  /\ MaxRows \in Nat /\ MaxPauses \in Nat /\ MaxLost \in Nat

Id == 1 .. MaxRows

VARIABLES
  rows,    \* ids of the jobs rows with each key
  created, \* how many rows were inserted
  paused,  \* is_paused of the queue
  request, \* the latest request of each client, and its answer
  pauses,  \* pauses so far
  lost     \* lost replies so far

vars == <<rows, created, paused, request, pauses, lost>>

\* existed: whether a row with the key was there when the request was sent.
\* An answer carries a job.
RequestState ==
  {r \in [pc      : {"new", "lookup", "check", "insert", "answered", "refused", "failed"},
          key     : Key \cup {NoKey},
          existed : BOOLEAN,
          job     : Id \cup {0}] :
     r.pc = "answered" <=> r.job # 0}

TypeOK ==
  /\ rows \in [Key \cup {NoKey} -> SUBSET Id]
  /\ created \in 0 .. MaxRows
  /\ paused \in BOOLEAN
  /\ request \in [Client -> RequestState]
  /\ pauses \in 0 .. MaxPauses
  /\ lost \in 0 .. MaxLost

Init ==
  /\ rows = [k \in Key \cup {NoKey} |-> {}]
  /\ created = 0
  /\ paused = FALSE
  /\ request \in [Client -> [pc : {"new"}, key : Key \cup {NoKey},
                             existed : {FALSE}, job : {0}]]
  /\ pauses = 0
  /\ lost = 0

At(c, pc) == request[c].pc = pc
Found(c) == IF request[c].key = NoKey THEN {} ELSE rows[request[c].key]

\* The client sends its request, again if the last one was not answered.
Send(c) ==
  /\ request[c].pc \in {"new", "refused", "failed"}
  /\ request' = [request EXCEPT ![c].pc = "lookup", ![c].existed = Found(c) # {}]
  /\ UNCHANGED <<rows, created, paused, pauses, lost>>

Answer(c, id) == [request EXCEPT ![c].pc = "answered", ![c].job = id]

\* Mutant of Lookup: the key is not looked up.
LookupSkipped(c) ==
  /\ At(c, "lookup")
  /\ request' = [request EXCEPT ![c].pc = "check"]
  /\ UNCHANGED <<rows, created, paused, pauses, lost>>

\* find_by_idempotency_key, for requests with a key.
Lookup(c) ==
  /\ At(c, "lookup")
  /\ \/ Found(c) = {} /\ request' = [request EXCEPT ![c].pc = "check"]
     \/ \E id \in Found(c) : request' = Answer(c, id)
  /\ UNCHANGED <<rows, created, paused, pauses, lost>>

\* The queue and the role are read; a paused queue refuses the request.
Check(c) ==
  /\ At(c, "check")
  /\ request' = [request EXCEPT ![c].pc = IF paused THEN "refused" ELSE "insert"]
  /\ UNCHANGED <<rows, created, paused, pauses, lost>>

\* Mutant of Conflict: there is no unique constraint.
ConflictNever(c) == FALSE

\* UNIQUE(queue_id, idempotency_key), under which NULLs never conflict.
Conflict(c) == Found(c) # {}

NewRow(c) ==
  /\ ~Conflict(c)
  /\ created < MaxRows
  /\ created' = created + 1
  /\ rows' = [rows EXCEPT ![request[c].key] = @ \cup {created + 1}]

Insert(c) ==
  /\ At(c, "insert")
  /\ NewRow(c)
  /\ request' = Answer(c, created + 1)
  /\ UNCHANGED <<paused, pauses, lost>>

\* The loser of the race is answered with a database error, not with the job.
InsertConflict(c) ==
  /\ At(c, "insert")
  /\ Conflict(c)
  /\ request' = [request EXCEPT ![c].pc = "failed"]
  /\ UNCHANGED <<rows, created, paused, pauses, lost>>

\* The row is inserted, and the client never hears of it.
InsertReplyLost(c) ==
  /\ At(c, "insert")
  /\ lost < MaxLost
  /\ lost' = lost + 1
  /\ NewRow(c)
  /\ request' = [request EXCEPT ![c].pc = "failed"]
  /\ UNCHANGED <<paused, pauses>>

Pause ==
  /\ ~paused
  /\ pauses < MaxPauses
  /\ pauses' = pauses + 1
  /\ paused' = TRUE
  /\ UNCHANGED <<rows, created, request, lost>>

Resume ==
  /\ paused
  /\ paused' = FALSE
  /\ UNCHANGED <<rows, created, request, pauses, lost>>

Next ==
  \/ \E c \in Client :
       \/ Send(c) \/ Lookup(c) \/ Check(c)
       \/ Insert(c) \/ InsertConflict(c) \/ InsertReplyLost(c)
  \/ Pause \/ Resume

Spec == Init /\ [][Next]_vars

\* Requests run to their end, clients repeat them, and a paused queue is
\* resumed some time.
Fairness ==
  /\ \A c \in Client :
       /\ WF_vars(Send(c)) /\ WF_vars(Lookup(c)) /\ WF_vars(Check(c))
       /\ WF_vars(Insert(c)) /\ WF_vars(InsertConflict(c))
  /\ WF_vars(Resume)

FairSpec == Spec /\ Fairness

(***************************************************************************)
(* However requests with one key race, are lost or are repeated, the key   *)
(* names one job and every client that is answered is answered with it.    *)
(***************************************************************************)
OneJobPerKey ==
  /\ \A k \in Key : Cardinality(rows[k]) <= 1
  /\ \A c \in Client : At(c, "answered") => request[c].job \in rows[request[c].key]

(***************************************************************************)
(* Repeating an accepted submission always works: a request sent when the  *)
(* job of its key was there already is neither refused, even if the queue  *)
(* has been paused since, nor failed by the unique constraint.             *)
(***************************************************************************)
AcceptedIsRepeatable ==
  \A c \in Client : request[c].pc \in {"refused", "failed"} => ~request[c].existed

(***************************************************************************)
(* A client that repeats its submission is answered with a job.            *)
(***************************************************************************)
EventuallyAnswered == \A c \in Client : <>At(c, "answered")
=============================================================================
