--------------------------- MODULE JobSubmissionProofs ---------------------------
(***************************************************************************)
(* Theorems about JobSubmission, for any number of clients, keys, rows,    *)
(* pauses and lost replies.                                                *)
(***************************************************************************)
EXTENDS JobSubmission, FiniteSetTheorems, TLAPS

-----------------------------------------------------------------------------
(* The inductive invariants                                                *)

\* Rows are only added, under the unique constraint, so a request that was sent
\* when its job existed finds it and never gets past the look-up.
SubmissionInv ==
  /\ TypeOK
  /\ \A k \in Key : \A x, y \in rows[k] : x = y
  /\ \A c \in Client : At(c, "answered") => request[c].job \in rows[request[c].key]
  /\ \A c \in Client : request[c].existed =>
       Found(c) # {} /\ request[c].pc \in {"lookup", "answered"}

-----------------------------------------------------------------------------

\* What a step may do to the rows: nothing, or one new row under a key that has
\* none, or under no key.
Grows ==
  \/ UNCHANGED rows
  \/ \E k \in Key \cup {NoKey}, id \in Id :
       /\ k \in Key => rows[k] = {}
       /\ rows' = [rows EXCEPT ![k] = @ \cup {id}]

\* Rows are never taken away, and a key never gets a second one.
LEMMA RowsGrow ==
  ASSUME TypeOK, Grows
  PROVE  /\ rows' \in [Key \cup {NoKey} -> SUBSET Id]
         /\ \A k \in Key \cup {NoKey} : rows[k] \subseteq rows'[k]
         /\ (\A k \in Key : \A x, y \in rows[k] : x = y) =>
              (\A k \in Key : \A x, y \in rows'[k] : x = y)
  BY DEF TypeOK, Grows

\* A new row is one row more, with the id that is answered.
LEMMA NewRowGrows ==
  ASSUME TypeOK, NEW c \in Client, NewRow(c)
  PROVE  /\ Grows /\ created' \in 0 .. MaxRows
         /\ created + 1 \in Id /\ created + 1 # 0
         /\ created + 1 \in rows'[request[c].key]
  <1>1. request[c].key \in Key \cup {NoKey}
    BY DEF TypeOK, RequestState
  <1>2. created + 1 \in Id /\ created' \in 0 .. MaxRows /\ created + 1 # 0
    BY JobSubmissionAssumption DEF TypeOK, NewRow, Id
  <1>3. rows' = [rows EXCEPT ![request[c].key] = @ \cup {created + 1}]
    BY DEF NewRow
  <1>4. request[c].key \in Key => rows[request[c].key] = {}
    BY JobSubmissionAssumption DEF NewRow, Conflict, Found
  <1>5. Grows
    BY <1>1, <1>2, <1>3, <1>4 DEF Grows
  <1>6. QED
    BY <1>1, <1>2, <1>3, <1>5 DEF TypeOK

\* What a step may do to the request of client c, by its new place.
Moves(c) ==
  /\ \A d \in Client : d # c => request'[d] = request[d]
  /\ request'[c] \in RequestState
  /\ request'[c].key = request[c].key
  /\ request'[c].pc = "answered" => request'[c].job \in rows'[request[c].key]
  /\ request'[c].existed =>
       Found(c) # {} /\ request'[c].pc \in {"lookup", "answered"}

(***************************************************************************)
(* A step that moves one request and lets the rows grow keeps the          *)
(* invariant.                                                              *)
(***************************************************************************)
LEMMA MoveKeeps ==
  ASSUME SubmissionInv, NEW c \in Client, Moves(c), Grows,
         request' \in [Client -> RequestState], created' \in 0 .. MaxRows,
         UNCHANGED <<paused, pauses>>, lost' \in 0 .. MaxLost
  PROVE  SubmissionInv'
  <1>0. TypeOK
    BY DEF SubmissionInv
  <1>1. /\ rows' \in [Key \cup {NoKey} -> SUBSET Id]
        /\ \A k \in Key \cup {NoKey} : rows[k] \subseteq rows'[k]
        /\ \A k \in Key : \A x, y \in rows'[k] : x = y
    BY <1>0, RowsGrow DEF SubmissionInv
  <1>2. TypeOK'
    BY <1>0, <1>1 DEF TypeOK
  <1>3. \A d \in Client : request[d].key \in Key \cup {NoKey} /\ request'[d].key = request[d].key
    BY <1>0 DEF TypeOK, RequestState, Moves
  <1>4. \A d \in Client : Found(d) # {} => Found(d)' # {}
    BY <1>1, <1>3 DEF Found
  <1>5. \A d \in Client : At(d, "answered")' => request'[d].job \in rows'[request'[d].key]
    BY <1>1, <1>3 DEF SubmissionInv, Moves, At
  <1>6. \A d \in Client : request'[d].existed =>
          Found(d)' # {} /\ request'[d].pc \in {"lookup", "answered"}
    BY <1>4 DEF SubmissionInv, Moves
  <1>7. QED
    BY <1>1, <1>2, <1>5, <1>6 DEF SubmissionInv

\* A step that gives one request another place, and what it changes besides.
LEMMA Placed ==
  ASSUME TypeOK, NEW c \in Client,
         NEW pc \in {"new", "lookup", "check", "insert", "refused", "failed"},
         request[c].pc # "answered",
         request' = [request EXCEPT ![c].pc = pc]
  PROVE  /\ request' \in [Client -> RequestState]
         /\ request'[c].pc = pc /\ request'[c].key = request[c].key
         /\ request'[c].existed = request[c].existed
         /\ \A d \in Client : d # c => request'[d] = request[d]
  <1>1. request[c] \in RequestState /\ request[c].job = 0
    BY DEF TypeOK, RequestState
  <1>2. request' = [request EXCEPT ![c] = [request[c] EXCEPT !.pc = pc]]
    BY DEF TypeOK
  <1>3. [request[c] EXCEPT !.pc = pc] \in RequestState
    BY <1>1 DEF RequestState
  <1>4. QED
    BY <1>1, <1>2, <1>3 DEF TypeOK, RequestState

\* A step that answers a request with a job.
LEMMA Answered ==
  ASSUME TypeOK, NEW c \in Client, NEW id \in Id, id # 0, request' = Answer(c, id)
  PROVE  /\ request' \in [Client -> RequestState]
         /\ request'[c].pc = "answered" /\ request'[c].key = request[c].key
         /\ request'[c].existed = request[c].existed /\ request'[c].job = id
         /\ \A d \in Client : d # c => request'[d] = request[d]
  <1>1. request[c] \in RequestState
    BY DEF TypeOK
  <1>2. request' = [request EXCEPT ![c] = [request[c] EXCEPT !.pc = "answered", !.job = id]]
    BY DEF TypeOK, Answer
  <1>3. [request[c] EXCEPT !.pc = "answered", !.job = id] \in RequestState
    BY <1>1 DEF RequestState
  <1>4. QED
    BY <1>1, <1>2, <1>3 DEF TypeOK, RequestState

\* Before the first request nothing is stored and nothing is answered.
LEMMA SubmissionInit == Init => SubmissionInv
  <1> SUFFICES ASSUME Init PROVE SubmissionInv
    OBVIOUS
  <1>1. \A c \in Client : /\ request[c] \in RequestState /\ request[c].pc = "new"
                          /\ request[c].existed = FALSE
    BY DEF Init, RequestState
  <1>2. request \in [Client -> RequestState]
    BY <1>1 DEF Init
  <1>3. TypeOK
    <2>1. /\ rows \in [Key \cup {NoKey} -> SUBSET Id]
          /\ paused \in BOOLEAN
      BY DEF Init
    <2>2. created \in 0 .. MaxRows /\ pauses \in 0 .. MaxPauses /\ lost \in 0 .. MaxLost
      BY JobSubmissionAssumption DEF Init
    <2>3. QED
      BY <1>2, <2>1, <2>2 DEF TypeOK
  <1>4. \A c \in Client : ~At(c, "answered") /\ ~request[c].existed
    BY <1>1 DEF At
  <1>5. \A k \in Key : rows[k] = {}
    BY DEF Init
  <1>6. QED
    BY <1>3, <1>4, <1>5 DEF SubmissionInv

(***************************************************************************)
(* Every step of clients, handlers and the queue keeps the invariant.      *)
(***************************************************************************)
LEMMA SubmissionStep == ASSUME SubmissionInv, [Next]_vars PROVE SubmissionInv'
  <1>0. TypeOK
    BY DEF SubmissionInv
  <1>1. ASSUME NEW c \in Client, Send(c) PROVE SubmissionInv'
    <2>1. /\ request[c] \in RequestState /\ request[c].job = 0
          /\ (Found(c) # {}) \in BOOLEAN
      BY <1>0, <1>1 DEF Send, TypeOK, RequestState
    <2>2. request' = [request EXCEPT ![c] =
                        [request[c] EXCEPT !.pc = "lookup", !.existed = (Found(c) # {})]]
      BY <1>0, <1>1 DEF Send, TypeOK
    <2>3. [request[c] EXCEPT !.pc = "lookup", !.existed = (Found(c) # {})] \in RequestState
      BY <2>1 DEF RequestState
    <2>4. request' \in [Client -> RequestState] /\ Moves(c)
      BY <1>0, <2>1, <2>2, <2>3 DEF TypeOK, RequestState, Moves
    <2>5. Grows /\ UNCHANGED <<created, paused, pauses, lost>>
      BY <1>1 DEF Send, Grows
    <2>6. QED
      BY <1>0, <2>4, <2>5, MoveKeeps DEF TypeOK
  \* Places that a request is sent on to before it is answered.
  <1>2. ASSUME NEW c \in Client, NEW pc \in {"check", "insert", "refused", "failed"},
               request' = [request EXCEPT ![c].pc = pc],
               request[c].pc # "answered", ~request[c].existed,
               Grows, created' \in 0 .. MaxRows, UNCHANGED <<paused, pauses>>,
               lost' \in 0 .. MaxLost
        PROVE  SubmissionInv'
    <2>1. /\ request' \in [Client -> RequestState]
          /\ request'[c].pc = pc /\ request'[c].key = request[c].key
          /\ request'[c].existed = request[c].existed
          /\ \A d \in Client : d # c => request'[d] = request[d]
      BY <1>0, <1>2, Placed
    <2>2. Moves(c)
      BY <1>2, <2>1 DEF Moves
    <2>3. QED
      BY <1>2, <2>1, <2>2, MoveKeeps
  <1>3. ASSUME NEW c \in Client, Lookup(c) PROVE SubmissionInv'
    <2>0. /\ request[c].pc = "lookup" /\ Grows /\ UNCHANGED <<created, paused, pauses, lost>>
          /\ created' \in 0 .. MaxRows /\ lost' \in 0 .. MaxLost
      BY <1>0, <1>3 DEF Lookup, At, Grows, TypeOK
    <2>1. CASE Found(c) = {} /\ request' = [request EXCEPT ![c].pc = "check"]
      <3>1. ~request[c].existed
        BY <2>1 DEF SubmissionInv
      <3>2. QED
        BY <1>2, <2>0, <2>1, <3>1
    <2>2. ASSUME NEW id \in Found(c), request' = Answer(c, id) PROVE SubmissionInv'
      <3>1. request[c].key \in Key \cup {NoKey}
        BY <1>0 DEF TypeOK, RequestState
      <3>2. id \in Id /\ id # 0 /\ id \in rows[request[c].key]
        BY <1>0, <2>2, <3>1, JobSubmissionAssumption DEF Found, TypeOK, Id
      <3>3. /\ request' \in [Client -> RequestState]
            /\ request'[c].pc = "answered" /\ request'[c].key = request[c].key
            /\ request'[c].existed = request[c].existed /\ request'[c].job = id
            /\ \A d \in Client : d # c => request'[d] = request[d]
        BY <1>0, <2>2, <3>2, Answered
      <3>4. UNCHANGED rows
        BY <1>3 DEF Lookup
      <3>5. Moves(c)
        BY <2>2, <3>2, <3>3, <3>4 DEF Moves
      <3>6. QED
        BY <2>0, <3>3, <3>5, MoveKeeps
    <2>3. QED
      BY <1>3, <2>1, <2>2 DEF Lookup
  <1>4. ASSUME NEW c \in Client, Check(c) PROVE SubmissionInv'
    <2>1. /\ request[c].pc = "check" /\ Grows /\ UNCHANGED <<created, paused, pauses, lost>>
          /\ created' \in 0 .. MaxRows /\ lost' \in 0 .. MaxLost
      BY <1>0, <1>4 DEF Check, At, Grows, TypeOK
    <2>2. ~request[c].existed
      BY <2>1 DEF SubmissionInv
    <2>3. PICK pc \in {"refused", "insert"} : request' = [request EXCEPT ![c].pc = pc]
      BY <1>4 DEF Check
    <2>4. QED
      BY <1>2, <2>1, <2>2, <2>3
  <1>5. ASSUME NEW c \in Client, Insert(c) PROVE SubmissionInv'
    <2>1. /\ request[c].pc = "insert" /\ NewRow(c) /\ request' = Answer(c, created + 1)
          /\ UNCHANGED <<paused, pauses, lost>> /\ lost' \in 0 .. MaxLost
      BY <1>0, <1>5 DEF Insert, At, TypeOK
    <2>2. ~request[c].existed
      BY <2>1 DEF SubmissionInv
    <2>3. /\ Grows /\ created' \in 0 .. MaxRows
          /\ created + 1 \in Id /\ created + 1 # 0
          /\ created + 1 \in rows'[request[c].key]
      BY <1>0, <2>1, NewRowGrows
    <2>4. /\ request' \in [Client -> RequestState]
          /\ request'[c].pc = "answered" /\ request'[c].key = request[c].key
          /\ request'[c].existed = request[c].existed /\ request'[c].job = created + 1
          /\ \A d \in Client : d # c => request'[d] = request[d]
      BY <1>0, <2>1, <2>3, Answered
    <2>5. Moves(c)
      BY <2>2, <2>3, <2>4 DEF Moves
    <2>6. QED
      BY <2>1, <2>3, <2>4, <2>5, MoveKeeps
  <1>6. ASSUME NEW c \in Client, InsertConflict(c) PROVE SubmissionInv'
    <2>1. /\ request[c].pc = "insert" /\ Grows /\ UNCHANGED <<created, paused, pauses, lost>>
          /\ created' \in 0 .. MaxRows /\ lost' \in 0 .. MaxLost
          /\ request' = [request EXCEPT ![c].pc = "failed"]
      BY <1>0, <1>6 DEF InsertConflict, At, Grows, TypeOK
    <2>2. ~request[c].existed
      BY <2>1 DEF SubmissionInv
    <2>3. QED
      BY <1>2, <2>1, <2>2
  <1>7. ASSUME NEW c \in Client, InsertReplyLost(c) PROVE SubmissionInv'
    <2>1. /\ request[c].pc = "insert" /\ NewRow(c) /\ UNCHANGED <<paused, pauses>>
          /\ request' = [request EXCEPT ![c].pc = "failed"]
      BY <1>7 DEF InsertReplyLost, At
    <2>2. lost' \in 0 .. MaxLost
      BY <1>0, <1>7, JobSubmissionAssumption DEF InsertReplyLost, TypeOK
    <2>3. ~request[c].existed
      BY <2>1 DEF SubmissionInv
    <2>4. Grows /\ created' \in 0 .. MaxRows
      BY <1>0, <2>1, NewRowGrows
    <2>5. QED
      BY <1>2, <2>1, <2>2, <2>3, <2>4
  <1>8. CASE Pause \/ Resume \/ UNCHANGED vars
    <2>1. UNCHANGED <<rows, created, request, lost>>
      BY <1>8 DEF Pause, Resume, vars
    <2>2. paused' \in BOOLEAN /\ pauses' \in 0 .. MaxPauses
      <3>1. CASE Pause
        BY <1>0, <3>1, JobSubmissionAssumption DEF Pause, TypeOK
      <3>2. CASE Resume
        BY <1>0, <3>2 DEF Resume, TypeOK
      <3>3. CASE UNCHANGED vars
        BY <1>0, <3>3 DEF vars, TypeOK
      <3>4. QED
        BY <1>8, <3>1, <3>2, <3>3
    <2>3. TypeOK'
      BY <1>0, <2>1, <2>2 DEF TypeOK
    <2>4. \A c \in Client : Found(c)' = Found(c)
      BY <2>1 DEF Found
    <2>5. \A c \in Client : At(c, "answered")' => At(c, "answered")
      BY <2>1 DEF At
    <2>6. \A c \in Client : At(c, "answered")' => request'[c].job \in rows'[request'[c].key]
      BY <2>1, <2>5 DEF SubmissionInv
    <2>7. \A c \in Client : request'[c].existed =>
            Found(c)' # {} /\ request'[c].pc \in {"lookup", "answered"}
      BY <2>1, <2>4 DEF SubmissionInv
    <2>8. \A k \in Key : \A x, y \in rows'[k] : x = y
      BY <2>1 DEF SubmissionInv
    <2>9. QED
      BY <2>3, <2>6, <2>7, <2>8 DEF SubmissionInv
  <1>9. QED
    BY <1>1, <1>3, <1>4, <1>5, <1>6, <1>7, <1>8 DEF Next

\* Job submission is type correct.
THEOREM TypeCorrect == Spec => []TypeOK
  <1>1. SubmissionInv => TypeOK
    BY DEF SubmissionInv
  <1>2. QED
    BY <1>1, SubmissionInit, SubmissionStep, PTL DEF Spec

(***************************************************************************)
(* A key names one job, and whoever is answered is answered with it: the   *)
(* look-up alone does not give this, the unique constraint does.           *)
(***************************************************************************)
THEOREM OneJobPerKeyHolds == Spec => []OneJobPerKey
  <1>1. SubmissionInv => OneJobPerKey
    <2> SUFFICES ASSUME SubmissionInv PROVE OneJobPerKey
      OBVIOUS
    <2>1. ASSUME NEW k \in Key PROVE Cardinality(rows[k]) <= 1
      <3>1. CASE rows[k] = {}
        BY <3>1, FS_EmptySet
      <3>2. ASSUME NEW x \in rows[k] PROVE Cardinality(rows[k]) <= 1
        <4>1. rows[k] = {x}
          BY <3>2 DEF SubmissionInv
        <4>2. Cardinality({x}) = 1
          BY FS_Singleton
        <4>3. QED
          BY <4>1, <4>2
      <3>3. QED
        BY <3>1, <3>2
    <2>2. QED
      BY <2>1 DEF SubmissionInv, OneJobPerKey
  <1>2. QED
    BY <1>1, SubmissionInit, SubmissionStep, PTL DEF Spec

(***************************************************************************)
(* Repeating an accepted submission always works, whatever pauses and      *)
(* races come between: the request never leaves the look-up unanswered.    *)
(***************************************************************************)
THEOREM AcceptedIsRepeatableHolds == Spec => []AcceptedIsRepeatable
  <1>1. SubmissionInv => AcceptedIsRepeatable
    BY DEF SubmissionInv, AcceptedIsRepeatable
  <1>2. QED
    BY <1>1, SubmissionInit, SubmissionStep, PTL DEF Spec
=============================================================================
