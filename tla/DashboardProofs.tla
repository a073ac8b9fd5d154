---------------------------- MODULE DashboardProofs ----------------------------
(***************************************************************************)
(* The dashboard's invariants, for any number of projects, queues and      *)
(* clicks, and so for any number of async functions in progress.           *)
(***************************************************************************)
EXTENDS Dashboard, FiniteSetTheorems, SequenceTheorems, WellFoundedInduction, TLAPS

-----------------------------------------------------------------------------
(* The inductive invariants                                                *)

\* The displays that depend on the selection, what is selected, what a script
\* asked for and what is shown.
Selective == {"queues", "dlq", "stats"}

Wanted(v, k) == IF k = "stats" THEN v.queue ELSE v.project

Captured(s, k) == IF k = "stats" THEN s.queue ELSE s.project

Shown(v, k) == IF k = "stats" THEN v.statsOf ELSE IF k = "dlq" THEN v.dlqOf ELSE v.queuesOf

\* A script has something to do and nothing twice; it knows of projects that
\* exist, and a list it has got is one of what it asked for.
ScriptOK(s) ==
  /\ s \in Script
  /\ s.steps # <<>>
  /\ \A m, n \in 1 .. Len(s.steps) : s.steps[m] = s.steps[n] => m = n
  /\ s.project \in exists \cup {0}
  /\ s.answered /\ Head(s.steps) = "projects" => s.data \subseteq exists
  /\ s.answered /\ Head(s.steps) = "queues" => s.data \subseteq Queue

ScriptsInv ==
  /\ TypeOK
  /\ \A i \in 1 .. Len(scripts) : ScriptOK(scripts[i])
  /\ view.project \in exists \cup {0}
  /\ view.projects \subseteq exists
  /\ QueueIsListed

\* The form that is being worked on.
FormInv ==
  /\ \A i, j \in 1 .. Len(scripts) : scripts[i].form /\ scripts[j].form => i = j
  /\ busy <=> \E i \in 1 .. Len(scripts) : scripts[i].form

\* Script s has still to write display k, and none younger than it was done.
Current(s, k) == Writes(s, k) /\ k \notin s.behind

\* Who is older than a script that is behind is behind.
Ordered(q) ==
  \A k \in Display : \A i, j \in 1 .. Len(q) :
    i < j /\ Writes(q[i], k) /\ Writes(q[j], k) /\ k \in q[j].behind => k \in q[i].behind

\* The youngest script that is to write k, if none younger was done, asked for
\* what is selected; if there is no such script, k shows it, or is tainted.
Matches(q, v, t, k) ==
  /\ \A i \in 1 .. Len(q) :
       Current(q[i], k) /\ (\A j \in 1 .. Len(q) : j > i => ~Writes(q[j], k)) =>
         Captured(q[i], k) = Wanted(v, k)
  /\ (\A i \in 1 .. Len(q) : ~Current(q[i], k)) /\ k \notin t => Shown(v, k) = Wanted(v, k)

ViewInv ==
  /\ Ordered(scripts)
  /\ signedIn => \A k \in Selective : Wanted(view, k) # 0 => Matches(scripts, view, tainted, k)


-----------------------------------------------------------------------------
(* Lists of scripts                                                        *)

\* What is left when element i of a list is taken out.
LEMMA Removed ==
  ASSUME NEW S, NEW q \in Seq(S), NEW i \in 1 .. Len(q)
  PROVE  /\ RemoveAt(q, i) \in Seq(S)
         /\ Len(RemoveAt(q, i)) = Len(q) - 1
         /\ \A j \in 1 .. Len(q) - 1 :
              RemoveAt(q, i)[j] = IF j < i THEN q[j] ELSE q[j + 1]
<1> DEFINE a == SubSeq(q, 1, i - 1)
           b == SubSeq(q, i + 1, Len(q))
<1>1. /\ a \in Seq(S) /\ Len(a) = i - 1
      /\ \A j \in 1 .. i - 1 : a[j] = q[j]
  BY SubSeqProperties
<1>2. /\ b \in Seq(S) /\ Len(b) = Len(q) - i
      /\ \A j \in 1 .. Len(q) - i : b[j] = q[i + j]
  BY SubSeqProperties
<1>3. RemoveAt(q, i) = a \o b
  BY DEF RemoveAt
<1> HIDE DEF a, b
<1>4. /\ a \o b \in Seq(S) /\ Len(a \o b) = Len(a) + Len(b)
      /\ \A j \in 1 .. Len(a) + Len(b) :
           (a \o b)[j] = IF j <= Len(a) THEN a[j] ELSE b[j - Len(a)]
  BY <1>1, <1>2, ConcatProperties
<1>5. ASSUME NEW j \in 1 .. Len(q) - 1
      PROVE  (a \o b)[j] = IF j < i THEN q[j] ELSE q[j + 1]
  <2>1. CASE j < i
    BY <1>1, <1>2, <1>4, <2>1
  <2>2. CASE ~(j < i)
    <3>1. (a \o b)[j] = b[j - (i - 1)]
      BY <1>1, <1>2, <1>4, <2>2
    <3>2. j - (i - 1) \in 1 .. Len(q) - i /\ i + (j - (i - 1)) = j + 1
      BY <2>2
    <3> QED
      BY <1>2, <2>2, <3>1, <3>2
  <2> QED
    BY <2>1, <2>2
<1> QED
  BY <1>1, <1>2, <1>3, <1>4, <1>5

\* A list and the scripts started after it.
LEMMA Joined ==
  ASSUME NEW S, NEW q \in Seq(S), NEW r \in Seq(S)
  PROVE  /\ q \o r \in Seq(S)
         /\ Len(q \o r) = Len(q) + Len(r)
         /\ \A j \in 1 .. Len(q) : (q \o r)[j] = q[j]
         /\ \A j \in 1 .. Len(r) : (q \o r)[Len(q) + j] = r[j]
         /\ \A j \in 1 .. Len(q \o r) :
              \/ j \in 1 .. Len(q) /\ (q \o r)[j] = q[j]
              \/ j - Len(q) \in 1 .. Len(r) /\ (q \o r)[j] = r[j - Len(q)]
  BY ConcatProperties

\* List r is what list q is after script i has gone on: it is done with the
\* displays ks, or with everything, and the older scripts are behind with ks;
\* f says which script of q each script of r was.
Advanced(q, r, i, ks, f) ==
  /\ f \in [1 .. Len(r) -> 1 .. Len(q)]
  /\ \A a, b \in 1 .. Len(r) : a < b => f[a] < f[b]
  /\ \A m \in 1 .. Len(q) : m = i \/ \E a \in 1 .. Len(r) : f[a] = m
  /\ \A a \in 1 .. Len(r) :
       /\ r[a].project = q[f[a]].project
       /\ r[a].queue = q[f[a]].queue
       /\ r[a].form = q[f[a]].form
  /\ \A a \in 1 .. Len(r) : \A k \in Display :
       /\ Writes(r[a], k) <=> Writes(q[f[a]], k) /\ ~(f[a] = i /\ k \in ks)
       /\ k \in r[a].behind <=> k \in q[f[a]].behind \/ (f[a] < i /\ k \in ks)
  /\ \/ \E a \in 1 .. Len(r) : f[a] = i
     \/ \A k \in Display : Writes(q[i], k) => k \in ks

LEMMA AdvancedOrdered ==
  ASSUME NEW q \in Seq(Script), NEW r \in Seq(Script), NEW i \in 1 .. Len(q),
         NEW ks, NEW f, Advanced(q, r, i, ks, f), Ordered(q)
  PROVE  Ordered(r)
<1> SUFFICES ASSUME NEW k \in Display, NEW a \in 1 .. Len(r), NEW b \in 1 .. Len(r),
                    a < b, Writes(r[a], k), Writes(r[b], k), k \in r[b].behind
             PROVE  k \in r[a].behind
  BY DEF Ordered
<1>1. /\ f[a] \in 1 .. Len(q) /\ f[b] \in 1 .. Len(q) /\ f[a] < f[b]
      /\ Writes(q[f[a]], k) /\ Writes(q[f[b]], k)
      /\ ~(f[a] = i /\ k \in ks)
      /\ k \in q[f[b]].behind \/ (f[b] < i /\ k \in ks)
      /\ k \in q[f[a]].behind \/ (f[a] < i /\ k \in ks) => k \in r[a].behind
  BY DEF Advanced
<1>2. k \in q[f[b]].behind => k \in q[f[a]].behind
  BY <1>1 DEF Ordered
<1> QED
  BY <1>1, <1>2

\* A display that script i is not done with keeps its scripts.
LEMMA AdvancedElsewhere ==
  ASSUME NEW q \in Seq(Script), NEW r \in Seq(Script), NEW i \in 1 .. Len(q),
         NEW ks, NEW f, Advanced(q, r, i, ks, f),
         NEW k \in Selective \ ks, NEW v, NEW w, NEW t, NEW u,
         Wanted(w, k) = Wanted(v, k), Shown(w, k) = Shown(v, k), k \in u <=> k \in t,
         Matches(q, v, t, k)
  PROVE  Matches(r, w, u, k)
<1>0. k \in Display
  BY DEF Selective, Display
<1>1. ASSUME NEW a \in 1 .. Len(r), Writes(r[a], k),
             \A b \in 1 .. Len(r) : b > a => ~Writes(r[b], k)
      PROVE  \A m \in 1 .. Len(q) : m > f[a] => ~Writes(q[m], k)
  <2> SUFFICES ASSUME NEW m \in 1 .. Len(q), m > f[a], Writes(q[m], k)
               PROVE  FALSE
    OBVIOUS
  <2>1. PICK b \in 1 .. Len(r) : f[b] = m
    BY <1>0 DEF Advanced
  <2>2. b > a
    <3>1. f[b] > f[a] /\ f[a] \in 1 .. Len(q)
      BY <2>1 DEF Advanced
    <3>2. ~(b < a) /\ b # a
      BY <3>1, <2>1 DEF Advanced
    <3> QED
      BY <3>2
  <2>3. Writes(r[b], k)
    BY <1>0, <2>1 DEF Advanced
  <2> QED
    BY <1>1, <2>2, <2>3
<1>2. ASSUME NEW a \in 1 .. Len(r), Current(r[a], k),
             \A b \in 1 .. Len(r) : b > a => ~Writes(r[b], k)
      PROVE  Captured(r[a], k) = Wanted(w, k)
  <2>1. f[a] \in 1 .. Len(q) /\ Current(q[f[a]], k)
    BY <1>0, <1>2 DEF Advanced, Current
  <2>2. \A m \in 1 .. Len(q) : m > f[a] => ~Writes(q[m], k)
    BY <1>1, <1>2 DEF Current
  <2>3. Captured(q[f[a]], k) = Wanted(v, k)
    BY <2>1, <2>2 DEF Matches
  <2> QED
    BY <2>3 DEF Advanced, Captured
<1>3. ASSUME \A a \in 1 .. Len(r) : ~Current(r[a], k), k \notin u
      PROVE  Shown(w, k) = Wanted(w, k)
  <2>1. ASSUME NEW m \in 1 .. Len(q), Current(q[m], k)
        PROVE  FALSE
    <3>1. PICK b \in 1 .. Len(r) : f[b] = m
      BY <1>0, <2>1 DEF Advanced, Current
    <3>2. Current(r[b], k)
      BY <1>0, <2>1, <3>1 DEF Advanced, Current
    <3> QED
      BY <1>3, <3>2
  <2> QED
    BY <1>3, <2>1 DEF Matches
<1> QED
  BY <1>2, <1>3 DEF Matches

\* For a display script i is done with, the youngest script that is not behind
\* is one that was younger than i.
LEMMA AdvancedDone ==
  ASSUME NEW q \in Seq(Script), NEW r \in Seq(Script), NEW i \in 1 .. Len(q),
         NEW ks, NEW f, Advanced(q, r, i, ks, f),
         NEW k \in Selective \cap ks, NEW v, NEW t, Matches(q, v, t, k),
         NEW a \in 1 .. Len(r), Current(r[a], k),
         \A b \in 1 .. Len(r) : b > a => ~Writes(r[b], k)
  PROVE  Captured(r[a], k) = Wanted(v, k)
<1>0. k \in Display
  BY DEF Selective, Display
<1>1. f[a] \in 1 .. Len(q) /\ f[a] > i /\ Current(q[f[a]], k)
  BY <1>0 DEF Advanced, Current
<1>2. ASSUME NEW m \in 1 .. Len(q), m > f[a], Writes(q[m], k)
      PROVE  FALSE
  <2>1. m # i
    BY <1>1, <1>2
  <2>2. PICK b \in 1 .. Len(r) : f[b] = m
    BY <2>1 DEF Advanced
  <2>3. ~(b < a) /\ b # a
    BY <1>1, <1>2, <2>2 DEF Advanced
  <2>4. Writes(r[b], k)
    BY <1>0, <1>2, <2>1, <2>2 DEF Advanced
  <2> QED
    BY <2>3, <2>4
<1>3. Captured(q[f[a]], k) = Wanted(v, k)
  BY <1>1, <1>2 DEF Matches
<1> QED
  BY <1>3 DEF Advanced, Captured

\* Script i shows what it asked for, or leaves a taint if it was behind.
LEMMA AdvancedDelivered ==
  ASSUME NEW q \in Seq(Script), NEW r \in Seq(Script), NEW i \in 1 .. Len(q),
         NEW ks, NEW f, Advanced(q, r, i, ks, f),
         NEW k \in Selective \cap ks, NEW v, NEW w, NEW t, NEW u,
         Ordered(q), Matches(q, v, t, k), Writes(q[i], k),
         Wanted(w, k) = Wanted(v, k), Shown(w, k) = Captured(q[i], k),
         k \in q[i].behind => k \in u
  PROVE  Matches(r, w, u, k)
<1>0. k \in Display
  BY DEF Selective, Display
<1>1. ASSUME NEW a \in 1 .. Len(r), Current(r[a], k),
             \A b \in 1 .. Len(r) : b > a => ~Writes(r[b], k)
      PROVE  Captured(r[a], k) = Wanted(w, k)
  BY <1>1, AdvancedDone
<1>2. ASSUME \A a \in 1 .. Len(r) : ~Current(r[a], k), k \notin u
      PROVE  Shown(w, k) = Wanted(w, k)
  <2>1. Current(q[i], k)
    BY <1>2 DEF Current
  <2>2. ASSUME NEW m \in 1 .. Len(q), m > i, Writes(q[m], k)
        PROVE  FALSE
    <3>1. k \notin q[m].behind
      BY <1>0, <1>2, <2>2 DEF Ordered
    <3>2. m # i
      BY <2>2
    <3>3. PICK b \in 1 .. Len(r) : f[b] = m
      BY <3>2 DEF Advanced
    <3>4. Current(r[b], k)
      <4>1. Writes(r[b], k)
        BY <1>0, <2>2, <3>2, <3>3 DEF Advanced
      <4>2. k \notin r[b].behind
        BY <1>0, <2>2, <3>1, <3>3 DEF Advanced
      <4> QED
        BY <4>1, <4>2 DEF Current
    <3> QED
      BY <1>2, <3>4
  <2>3. Captured(q[i], k) = Wanted(v, k)
    BY <2>1, <2>2 DEF Matches
  <2> QED
    BY <2>3
<1> QED
  BY <1>1, <1>2 DEF Matches

\* Script i gives a display up: it leaves a taint unless it was behind.
LEMMA AdvancedFailed ==
  ASSUME NEW q \in Seq(Script), NEW r \in Seq(Script), NEW i \in 1 .. Len(q),
         NEW ks, NEW f, Advanced(q, r, i, ks, f),
         NEW k \in Selective \cap ks, NEW v, NEW t, NEW u,
         Ordered(q), Matches(q, v, t, k), Writes(q[i], k),
         k \notin u => k \notin t /\ k \in q[i].behind
  PROVE  Matches(r, v, u, k)
<1>0. k \in Display
  BY DEF Selective, Display
<1>1. ASSUME NEW a \in 1 .. Len(r), Current(r[a], k),
             \A b \in 1 .. Len(r) : b > a => ~Writes(r[b], k)
      PROVE  Captured(r[a], k) = Wanted(v, k)
  BY <1>1, AdvancedDone
<1>2. ASSUME \A a \in 1 .. Len(r) : ~Current(r[a], k), k \notin u
      PROVE  Shown(v, k) = Wanted(v, k)
  <2>1. ASSUME NEW m \in 1 .. Len(q), Current(q[m], k)
        PROVE  FALSE
    <3>1. m # i
      BY <1>2, <2>1 DEF Current
    <3>2. ~(m < i)
      BY <1>0, <1>2, <2>1 DEF Current, Ordered
    <3>3. PICK b \in 1 .. Len(r) : f[b] = m
      BY <3>1 DEF Advanced
    <3>4. Writes(r[b], k) /\ k \notin r[b].behind
      BY <1>0, <2>1, <3>1, <3>2, <3>3 DEF Advanced, Current
    <3> QED
      BY <1>2, <3>4 DEF Current
  <2> QED
    BY <1>2, <2>1 DEF Matches
<1> QED
  BY <1>1, <1>2 DEF Matches

-----------------------------------------------------------------------------
(* New scripts                                                             *)

\* A script that was just started, when v was the state: it captured the
\* selection, and none younger has been done with anything.
Started(s, v) ==
  /\ ScriptOK(s)
  /\ s.behind = {}
  /\ \A k \in Selective : Writes(s, k) => Captured(s, k) = Wanted(v, k)

LEMMA JoinedOrdered ==
  ASSUME NEW q \in Seq(Script), NEW e \in Seq(Script), NEW v,
         \A j \in 1 .. Len(e) : Started(e[j], v), Ordered(q)
  PROVE  Ordered(q \o e)
<1> DEFINE r == q \o e
<1>1. /\ r \in Seq(Script) /\ Len(r) = Len(q) + Len(e)
      /\ \A j \in 1 .. Len(q) : r[j] = q[j]
      /\ \A j \in 1 .. Len(r) :
           \/ j \in 1 .. Len(q) /\ r[j] = q[j]
           \/ j - Len(q) \in 1 .. Len(e) /\ r[j] = e[j - Len(q)]
  BY Joined
<1> HIDE DEF r
<1> SUFFICES ASSUME NEW k \in Display, NEW a \in 1 .. Len(r), NEW b \in 1 .. Len(r),
                    a < b, Writes(r[a], k), Writes(r[b], k), k \in r[b].behind
             PROVE  k \in r[a].behind
  BY DEF Ordered, r
<1>2. b \in 1 .. Len(q) /\ r[b] = q[b]
  BY <1>1 DEF Started
<1>3. a \in 1 .. Len(q) /\ r[a] = q[a]
  BY <1>1, <1>2
<1> QED
  BY <1>2, <1>3 DEF Ordered

\* New scripts ask for what is selected.
LEMMA JoinedMatches ==
  ASSUME NEW q \in Seq(Script), NEW e \in Seq(Script), NEW v, NEW t, NEW k \in Selective,
         \A j \in 1 .. Len(e) : Started(e[j], v),
         \/ Matches(q, v, t, k)
         \/ \E j \in 1 .. Len(e) : Writes(e[j], k)
  PROVE  Matches(q \o e, v, t, k)
<1> DEFINE r == q \o e
<1>1. /\ r \in Seq(Script) /\ Len(r) = Len(q) + Len(e)
      /\ \A j \in 1 .. Len(q) : r[j] = q[j]
      /\ \A j \in 1 .. Len(e) : r[Len(q) + j] = e[j]
      /\ \A j \in 1 .. Len(r) :
           \/ j \in 1 .. Len(q) /\ r[j] = q[j]
           \/ j - Len(q) \in 1 .. Len(e) /\ r[j] = e[j - Len(q)]
  BY Joined
<1> HIDE DEF r
<1>2. ASSUME NEW j \in 1 .. Len(e)
      PROVE  Len(q) + j \in 1 .. Len(r)
  BY <1>1
<1>3. ASSUME NEW a \in 1 .. Len(r), Current(r[a], k),
             \A b \in 1 .. Len(r) : b > a => ~Writes(r[b], k)
      PROVE  Captured(r[a], k) = Wanted(v, k)
  <2>1. CASE a \in 1 .. Len(q) /\ r[a] = q[a]
    <3>1. ASSUME NEW j \in 1 .. Len(e), Writes(e[j], k)
          PROVE  FALSE
      <4>1. Len(q) + j > a
        BY <2>1
      <4> QED
        BY <1>1, <1>2, <1>3, <3>1, <4>1
    <3>2. Matches(q, v, t, k)
      BY <3>1
    <3>3. \A b \in 1 .. Len(q) : b > a => ~Writes(q[b], k)
      BY <1>1, <1>3
    <3> QED
      BY <1>3, <2>1, <3>2, <3>3 DEF Matches
  <2>2. CASE a - Len(q) \in 1 .. Len(e) /\ r[a] = e[a - Len(q)]
    BY <1>3, <2>2 DEF Started, Current
  <2> QED
    BY <1>1, <2>1, <2>2
<1>4. ASSUME \A a \in 1 .. Len(r) : ~Current(r[a], k), k \notin t
      PROVE  Shown(v, k) = Wanted(v, k)
  <2>1. ASSUME NEW j \in 1 .. Len(e), Writes(e[j], k)
        PROVE  FALSE
    <3>1. Current(e[j], k)
      BY <2>1 DEF Current, Started
    <3>2. Current(r[Len(q) + j], k)
      BY <1>1, <3>1
    <3> QED
      BY <1>2, <1>4, <3>2
  <2>2. Matches(q, v, t, k)
    BY <2>1
  <2>3. \A a \in 1 .. Len(q) : ~Current(q[a], k)
    BY <1>1, <1>4
  <2> QED
    BY <1>4, <2>2, <2>3 DEF Matches
<1> QED
  BY <1>3, <1>4 DEF Matches, r

\* The requests of a function: some, and none twice.
GoodSteps(x) ==
  /\ x \in Seq(Request)
  /\ x # <<>>
  /\ \A m, n \in 1 .. Len(x) : x[m] = x[n] => m = n

LEMMA NewScript ==
  ASSUME NEW x, GoodSteps(x), NEW p \in Project \cup {0}, p \in exists \cup {0},
         NEW q \in Queue \cup {0}, NEW form \in BOOLEAN
  PROVE  /\ ScriptOK(New(x, p, q, form))
         /\ New(x, p, q, form).behind = {}
         /\ New(x, p, q, form).form = form
         /\ New(x, p, q, form).steps = x
         /\ New(x, p, q, form).project = p
         /\ New(x, p, q, form).queue = q
<1>1. New(x, p, q, form) \in Script
  BY DEF New, Script, GoodSteps
<1> QED
  BY <1>1 DEF ScriptOK, New, GoodSteps

\* An effect's script: it needs no queue and holds no form.
Loader(x, p) == New(x, p, 0, FALSE)

LEMMA NewLoader ==
  ASSUME NEW x, GoodSteps(x), NEW p \in Project \cup {0}, p \in exists \cup {0}
  PROVE  /\ ScriptOK(Loader(x, p))
         /\ Loader(x, p).behind = {}
         /\ ~Loader(x, p).form
         /\ Loader(x, p).steps = x
         /\ Loader(x, p).project = p
<1>1. Loader(x, p) \in Script
  BY DEF Loader, New, Script, GoodSteps
<1> QED
  BY <1>1 DEF Loader, ScriptOK, New, GoodSteps

\* One request or two.
LEMMA OneStep ==
  ASSUME NEW a \in Request
  PROVE  GoodSteps(<<a>>) /\ Len(<<a>>) = 1 /\ <<a>>[1] = a
  BY DEF GoodSteps

LEMMA TwoSteps ==
  ASSUME NEW a \in Request, NEW b \in Request, a # b
  PROVE  GoodSteps(<<a, b>>) /\ Len(<<a, b>>) = 2 /\ <<a, b>>[1] = a /\ <<a, b>>[2] = b
  BY DEF GoodSteps

\* Lists put together from short ones.
LEMMA PairOfSteps ==
  ASSUME NEW a \in Request, NEW b \in Request
  PROVE  <<a>> \o <<b>> = <<a, b>>
<1>1. <<a>> \in Seq(Request) /\ <<b>> \in Seq(Request) /\ <<a, b>> \in Seq(Request)
  OBVIOUS
<1>2. /\ <<a>> \o <<b>> \in Seq(Request) /\ Len(<<a>> \o <<b>>) = 2
      /\ \A j \in 1 .. 2 : (<<a>> \o <<b>>)[j] = IF j <= 1 THEN <<a>>[j] ELSE <<b>>[j - 1]
  BY <1>1, ConcatProperties
<1>3. (<<a>> \o <<b>>)[1] = a /\ (<<a>> \o <<b>>)[2] = b
  BY <1>2
<1> DEFINE r == <<a>> \o <<b>>
<1> HIDE DEF r
<1>4. r \in Seq(Request) /\ Len(r) = 2 /\ r[1] = a /\ r[2] = b
  BY <1>2, <1>3 DEF r
<1>5. Len(<<a, b>>) = 2 /\ <<a, b>>[1] = a /\ <<a, b>>[2] = b
  OBVIOUS
<1>6. \A j \in 1 .. Len(r) : r[j] = <<a, b>>[j]
  BY <1>4, <1>5
<1>7. r = <<a, b>>
  BY <1>1, <1>4, <1>5, <1>6, SeqEqual
<1> QED
  BY <1>7 DEF r

LEMMA TripleOfSteps ==
  ASSUME NEW a \in Request, NEW b \in Request, NEW c \in Request
  PROVE  <<a>> \o <<b, c>> = <<a, b, c>>
<1>1. <<a>> \in Seq(Request) /\ <<b, c>> \in Seq(Request) /\ <<a, b, c>> \in Seq(Request)
  OBVIOUS
<1>2. /\ <<a>> \o <<b, c>> \in Seq(Request) /\ Len(<<a>> \o <<b, c>>) = 3
      /\ \A j \in 1 .. 3 : (<<a>> \o <<b, c>>)[j] = IF j <= 1 THEN <<a>>[j] ELSE <<b, c>>[j - 1]
  BY <1>1, ConcatProperties
<1>3. /\ (<<a>> \o <<b, c>>)[1] = a /\ (<<a>> \o <<b, c>>)[2] = b
      /\ (<<a>> \o <<b, c>>)[3] = c
  BY <1>2
<1> DEFINE r == <<a>> \o <<b, c>>
<1> HIDE DEF r
<1>4. r \in Seq(Request) /\ Len(r) = 3 /\ r[1] = a /\ r[2] = b /\ r[3] = c
  BY <1>2, <1>3 DEF r
<1>5. /\ Len(<<a, b, c>>) = 3 /\ <<a, b, c>>[1] = a /\ <<a, b, c>>[2] = b
      /\ <<a, b, c>>[3] = c
  OBVIOUS
<1>6. \A j \in 1 .. Len(r) : r[j] = <<a, b, c>>[j]
  BY <1>4, <1>5
<1>7. r = <<a, b, c>>
  BY <1>1, <1>4, <1>5, <1>6, SeqEqual
<1> QED
  BY <1>7 DEF r

LEMMA OperationalSteps ==
  ASSUME NEW p, NEW q
  PROVE  /\ p # 0 \/ q # 0 => GoodSteps(Operational(p, q))
         /\ GoodSteps(<<"post">> \o Operational(p, q))
         /\ p # 0 => \E n \in 1 .. Len(Operational(p, q)) : Operational(p, q)[n] = "dlq"
         /\ q # 0 => \E n \in 1 .. Len(Operational(p, q)) : Operational(p, q)[n] = "stats"
<1>1. CASE p = 0 /\ q = 0
  <2>1. Operational(p, q) = <<>>
    BY <1>1 DEF Operational
  <2>2. <<"post">> \o Operational(p, q) = <<"post">>
    BY <2>1
  <2> QED
    BY <1>1, <2>2, OneStep DEF Request
<1>2. CASE p # 0 /\ q = 0
  <2>1. Operational(p, q) = <<"dlq">>
    BY <1>2, ConcatEmptySeq DEF Operational, Request, Display
  <2>2. <<"post">> \o Operational(p, q) = <<"post", "dlq">>
    BY <2>1, PairOfSteps DEF Request, Display
  <2>3. GoodSteps(<<"dlq">>) /\ GoodSteps(<<"post", "dlq">>)
    BY OneStep, TwoSteps DEF Request, Display
  <2>4. <<"dlq">>[1] = "dlq" /\ Len(<<"dlq">>) = 1 /\ 1 \in 1 .. 1
    OBVIOUS
  <2>5. \E n \in 1 .. Len(Operational(p, q)) : Operational(p, q)[n] = "dlq"
    BY <2>1, <2>4
  <2> QED
    BY <1>2, <2>1, <2>2, <2>3, <2>5
<1>3. CASE p = 0 /\ q # 0
  <2>1. Operational(p, q) = <<"stats">>
    BY <1>3, ConcatEmptySeq DEF Operational, Request, Display
  <2>2. <<"post">> \o Operational(p, q) = <<"post", "stats">>
    BY <2>1, PairOfSteps DEF Request, Display
  <2>3. GoodSteps(<<"stats">>) /\ GoodSteps(<<"post", "stats">>)
    BY OneStep, TwoSteps DEF Request, Display
  <2>4. <<"stats">>[1] = "stats" /\ Len(<<"stats">>) = 1 /\ 1 \in 1 .. 1
    OBVIOUS
  <2>5. \E n \in 1 .. Len(Operational(p, q)) : Operational(p, q)[n] = "stats"
    BY <2>1, <2>4
  <2> QED
    BY <1>3, <2>1, <2>2, <2>3, <2>5
<1>4. CASE p # 0 /\ q # 0
  <2>1. Operational(p, q) = <<"dlq", "stats">>
    BY <1>4, PairOfSteps DEF Operational, Request, Display
  <2>2. <<"post">> \o Operational(p, q) = <<"post", "dlq", "stats">>
    BY <2>1, TripleOfSteps DEF Request, Display
  <2>3. GoodSteps(<<"dlq", "stats">>)
    BY TwoSteps DEF Request, Display
  <2>4. GoodSteps(<<"post", "dlq", "stats">>)
    BY DEF GoodSteps, Request, Display
  <2>5. /\ Len(<<"dlq", "stats">>) = 2 /\ 1 \in 1 .. 2 /\ 2 \in 1 .. 2
        /\ <<"dlq", "stats">>[1] = "dlq" /\ <<"dlq", "stats">>[2] = "stats"
    OBVIOUS
  <2> QED
    BY <1>4, <2>1, <2>2, <2>3, <2>4, <2>5
<1> QED
  BY <1>1, <1>2, <1>3, <1>4

\* A function that captures the whole selection.
LEMMA CapturesSelection ==
  ASSUME NEW x, GoodSteps(x), NEW v \in View, v.project \in exists \cup {0},
         NEW form \in BOOLEAN
  PROVE  /\ Started(New(x, v.project, v.queue, form), v)
         /\ New(x, v.project, v.queue, form).form = form
         /\ \A k \in Display :
              Writes(New(x, v.project, v.queue, form), k) <=> \E n \in 1 .. Len(x) : x[n] = k
<1>1. v.project \in Project \cup {0} /\ v.queue \in Queue \cup {0}
  BY DEF View
<1>2. /\ ScriptOK(New(x, v.project, v.queue, form))
      /\ New(x, v.project, v.queue, form).behind = {}
      /\ New(x, v.project, v.queue, form).form = form
      /\ New(x, v.project, v.queue, form).steps = x
      /\ New(x, v.project, v.queue, form).project = v.project
      /\ New(x, v.project, v.queue, form).queue = v.queue
  <2> DEFINE p == v.project
             q == v.queue
  <2>1. p \in Project \cup {0} /\ p \in exists \cup {0} /\ q \in Queue \cup {0}
    BY <1>1
  <2> HIDE DEF p, q
  <2>2. /\ ScriptOK(New(x, p, q, form))
        /\ New(x, p, q, form).behind = {}
        /\ New(x, p, q, form).form = form
        /\ New(x, p, q, form).steps = x
        /\ New(x, p, q, form).project = p
        /\ New(x, p, q, form).queue = q
    BY <2>1, NewScript
  <2> QED
    BY <2>2 DEF p, q
<1> QED
  BY <1>2 DEF Started, Captured, Wanted, Writes

\* The scripts an effect starts: they hold no form.
Background(v) == {s \in Script : Started(s, v) /\ ~s.form}

LEMMA LoadStarts ==
  ASSUME NEW v \in View, v.project \in exists \cup {0}
  PROVE  /\ Load(v.project, v.queue) \in Seq(Background(v))
         /\ \A k \in {"dlq", "stats"} : Wanted(v, k) # 0 =>
              \E j \in 1 .. Len(Load(v.project, v.queue)) : Writes(Load(v.project, v.queue)[j], k)
<1> DEFINE p == v.project
           q == v.queue
           s == New(Operational(p, q), p, q, FALSE)
<1>1. CASE p = 0 /\ q = 0
  BY <1>1 DEF Load, Wanted
<1>2. CASE ~(p = 0 /\ q = 0)
  <2>1. Load(p, q) = <<s>>
    BY <1>2 DEF Load
  <2>2. GoodSteps(Operational(p, q))
    BY <1>2, OperationalSteps
  <2>3. /\ Started(s, v) /\ s.form = FALSE
        /\ \A k \in Display :
             Writes(s, k) <=> \E n \in 1 .. Len(Operational(p, q)) : Operational(p, q)[n] = k
    BY <2>2, CapturesSelection, FALSE \in BOOLEAN
  <2>4. s \in Background(v)
    BY <2>3, Zenon DEF Background, Started, ScriptOK
  <2>5. \A k \in {"dlq", "stats"} : Wanted(v, k) # 0 => Writes(s, k)
    <3> HIDE DEF s
    <3>a. p # 0 => \E n \in 1 .. Len(Operational(p, q)) : Operational(p, q)[n] = "dlq"
      BY OperationalSteps
    <3>b. q # 0 => \E n \in 1 .. Len(Operational(p, q)) : Operational(p, q)[n] = "stats"
      BY OperationalSteps
    <3>c. "dlq" \in Display /\ "stats" \in Display
      BY DEF Display
    <3>1. p # 0 => Writes(s, "dlq")
      BY <2>3, <3>a, <3>c
    <3>2. q # 0 => Writes(s, "stats")
      BY <2>3, <3>b, <3>c
    <3> QED
      BY <3>1, <3>2 DEF Wanted
  <2> HIDE DEF s
  <2>6. <<s>> \in Seq(Background(v)) /\ Len(<<s>>) = 1 /\ <<s>>[1] = s
    BY <2>4
  <2> QED
    BY <2>1, <2>5, <2>6
<1> QED
  BY <1>1, <1>2

\* The effects start scripts that ask for what is selected, and one for every
\* display whose selection has changed, or all if the token has.
LEMMA EffectsStart ==
  ASSUME NEW on \in BOOLEAN, NEW fresh \in BOOLEAN, NEW v \in View, NEW w \in View,
         w.project \in exists \cup {0}
  PROVE  /\ Effects(on, v, fresh, w) \in Seq(Background(w))
         /\ \A k \in Selective :
              on /\ Wanted(w, k) # 0 /\ (fresh \/ Wanted(v, k) # Wanted(w, k)) =>
                \E j \in 1 .. Len(Effects(on, v, fresh, w)) : Writes(Effects(on, v, fresh, w)[j], k)
<1>1. CASE ~on
  <2>1. Effects(on, v, fresh, w) = <<>>
    BY <1>1 DEF Effects
  <2> QED
    BY <1>1, <2>1
<1>2. CASE on
  <2> DEFINE newProject == fresh \/ v.project # w.project
             newQueue == v.queue # w.queue
             a == IF fresh THEN <<New(<<"projects">>, 0, 0, FALSE)>> ELSE <<>>
             b == IF newProject /\ w.project # 0
                    THEN <<New(<<"queues">>, w.project, 0, FALSE)>> ELSE <<>>
             c == IF newProject \/ newQueue THEN Load(w.project, w.queue) ELSE <<>>
             S == Background(w)
  <2>1. Effects(on, v, fresh, w) = (a \o b) \o c
    BY <1>2 DEF Effects
  <2>2. a \in Seq(S)
    <3>1. PICK x : x = <<"projects">> /\ GoodSteps(x)
      BY OneStep DEF Request, Display
    <3> DEFINE s == Loader(x, 0)
    <3>2. /\ ScriptOK(s) /\ s.behind = {} /\ ~s.form /\ s.steps = x
      BY <3>1, NewLoader, 0 \in Project \cup {0}, 0 \in exists \cup {0}
    <3> HIDE DEF s
    <3>3. \A k \in Selective : ~Writes(s, k)
      BY <3>1, <3>2, OneStep DEF Writes, Selective
    <3>4. s \in S
      BY <3>2, <3>3, Zenon DEF Background, Started, ScriptOK
    <3>5. <<s>> \in Seq(S) /\ <<>> \in Seq(S)
      BY <3>4
    <3> QED
      BY <3>1, <3>5 DEF s, Loader
  <2>3. /\ b \in Seq(S)
        /\ newProject /\ w.project # 0 => \E j \in 1 .. Len(b) : Writes(b[j], "queues")
    <3> DEFINE p == w.project
    <3>0. p \in Project \cup {0} /\ p \in exists \cup {0} /\ 0 \in Queue \cup {0}
      BY DEF View
    <3>1. PICK x : x = <<"queues">> /\ GoodSteps(x)
      BY OneStep DEF Request, Display
    <3> DEFINE s == Loader(x, p)
    <3> HIDE DEF p
    <3>2. /\ ScriptOK(s) /\ s.behind = {} /\ ~s.form /\ s.steps = x
          /\ s.project = p
      BY <3>0, <3>1, NewLoader
    <3> HIDE DEF s
    <3>3. \A k \in Selective : Writes(s, k) <=> k = "queues"
      BY <3>1, <3>2, OneStep DEF Writes, Selective
    <3>4. Captured(s, "queues") = Wanted(w, "queues")
      BY <3>2 DEF Captured, Wanted, p
    <3>5. s \in S
      BY <3>2, <3>3, <3>4, Zenon DEF Background, Started, ScriptOK
    <3>6. <<s>> \in Seq(S) /\ <<>> \in Seq(S) /\ Len(<<s>>) = 1 /\ <<s>>[1] = s
      BY <3>5
    <3>7. Writes(s, "queues")
      BY <3>3 DEF Selective
    <3>8. b = IF newProject /\ w.project # 0 THEN <<s>> ELSE <<>>
      BY <3>1 DEF s, p, Loader
    <3> HIDE DEF b, newProject
    <3> QED
      BY <3>6, <3>7, <3>8
  <2>4. /\ c \in Seq(S)
        /\ newProject \/ newQueue => \A k \in {"dlq", "stats"} : Wanted(w, k) # 0 =>
             \E j \in 1 .. Len(c) : Writes(c[j], k)
    <3>1. <<>> \in Seq(S)
      OBVIOUS
    <3> QED
      BY <3>1, LoadStarts
  <2>5. ASSUME NEW k \in Selective, Wanted(w, k) # 0, fresh \/ Wanted(v, k) # Wanted(w, k)
        PROVE  (\E j \in 1 .. Len(b) : Writes(b[j], k)) \/ (\E j \in 1 .. Len(c) : Writes(c[j], k))
    <3> HIDE DEF b, c
    <3>1. CASE k = "queues"
      BY <2>3, <2>5, <3>1 DEF Wanted
    <3>2. CASE k = "dlq"
      BY <2>4, <2>5, <3>2 DEF Wanted
    <3>3. CASE k = "stats"
      BY <2>4, <2>5, <3>3 DEF Wanted
    <3> QED
      BY <3>1, <3>2, <3>3 DEF Selective
  <2> HIDE DEF a, b, c, S
  <2>6. /\ a \o b \in Seq(S)
        /\ \A j \in 1 .. Len(b) : Len(a) + j \in 1 .. Len(a \o b) /\ (a \o b)[Len(a) + j] = b[j]
    BY <2>2, <2>3, Joined
  <2> DEFINE ab == a \o b
             e == ab \o c
  <2>7. /\ e \in Seq(S)
        /\ \A j \in 1 .. Len(ab) : j \in 1 .. Len(e) /\ e[j] = ab[j]
        /\ \A j \in 1 .. Len(c) : Len(ab) + j \in 1 .. Len(e) /\ e[Len(ab) + j] = c[j]
    <3> HIDE DEF ab
    <3>1. ab \in Seq(S)
      BY <2>6 DEF ab
    <3> QED
      BY <2>4, <3>1, Joined
  <2>8. Effects(on, v, fresh, w) = e
    BY <2>1
  <2> HIDE DEF ab, e
  <2>9. ASSUME NEW k \in Selective, Wanted(w, k) # 0, fresh \/ Wanted(v, k) # Wanted(w, k)
        PROVE  \E j \in 1 .. Len(e) : Writes(e[j], k)
    <3>1. CASE \E j \in 1 .. Len(b) : Writes(b[j], k)
      <4>1. PICK j \in 1 .. Len(b) : Writes(b[j], k)
        BY <3>1
      <4>2. Len(a) + j \in 1 .. Len(ab) /\ ab[Len(a) + j] = b[j]
        BY <2>6 DEF ab
      <4>3. Len(a) + j \in 1 .. Len(e) /\ e[Len(a) + j] = b[j]
        BY <2>7, <4>2
      <4> QED
        BY <4>1, <4>3
    <3>2. CASE \E j \in 1 .. Len(c) : Writes(c[j], k)
      BY <2>7, <3>2
    <3> QED
      BY <2>5, <2>9, <3>1, <3>2
  <2> QED
    BY <2>7, <2>8, <2>9 DEF S
<1> QED
  BY <1>1, <1>2

\* The first of a list of projects or queues is one of them.
LEMMA FirstIsOne ==
  ASSUME NEW S \in SUBSET Nat
  PROVE  First(S) \in S \cup {0}
<1>1. CASE S = {}
  BY <1>1 DEF First
<1>2. CASE S # {}
  <2> DEFINE R == {ss \in Nat \X Nat : ss[1] < ss[2]}
  <2>0. IsWellFoundedOn(R, Nat)
    BY NatLessThanWellFounded DEF OpToRel
  <2>1. PICK x \in S : \A y \in S : ~(<<y, x>> \in R)
    <3> HIDE DEF R
    <3> QED
      BY <1>2, <2>0, WFMin
  <2>2. ASSUME NEW y \in S
        PROVE  x <= y
    <3>1. <<y, x>> \in Nat \X Nat /\ <<y, x>>[1] = y /\ <<y, x>>[2] = x
      OBVIOUS
    <3>2. ~(y < x)
      BY <2>1, <3>1
    <3> QED
      BY <3>2
  <2>3. Min(S) \in S
    BY <2>2 DEF Min
  <2> QED
    BY <1>2, <2>3 DEF First
<1> QED
  BY <1>1, <1>2

-----------------------------------------------------------------------------
(* Forms                                                                   *)

\* FormInv of a list of scripts.
OneForm(q, b) ==
  /\ \A i, j \in 1 .. Len(q) : q[i].form /\ q[j].form => i = j
  /\ b <=> \E i \in 1 .. Len(q) : q[i].form

\* Script i has ended.
Ended(r, i, f) == \A a \in 1 .. Len(r) : f[a] # i

LEMMA AdvancedForm ==
  ASSUME NEW q \in Seq(Script), NEW r \in Seq(Script), NEW i \in 1 .. Len(q),
         NEW ks, NEW f, Advanced(q, r, i, ks, f), NEW b, NEW c, OneForm(q, b),
         c <=> b /\ ~(q[i].form /\ Ended(r, i, f))
  PROVE  OneForm(r, c)
<1>1. ASSUME NEW x \in 1 .. Len(r), NEW y \in 1 .. Len(r), r[x].form, r[y].form
      PROVE  x = y
  <2>1. /\ f[x] \in 1 .. Len(q) /\ f[y] \in 1 .. Len(q)
        /\ q[f[x]].form /\ q[f[y]].form
    BY <1>1 DEF Advanced
  <2>2. f[x] = f[y]
    BY <2>1 DEF OneForm
  <2>3. ~(x < y) /\ ~(y < x)
    BY <2>1, <2>2 DEF Advanced
  <2> QED
    BY <2>3
<1>2. ASSUME c
      PROVE  \E a \in 1 .. Len(r) : r[a].form
  <2>1. PICK m \in 1 .. Len(q) : q[m].form
    BY <1>2 DEF OneForm
  <2>2. PICK a \in 1 .. Len(r) : f[a] = m
    BY <1>2, <2>1 DEF Advanced, Ended
  <2> QED
    BY <2>1, <2>2 DEF Advanced
<1>3. ASSUME NEW a \in 1 .. Len(r), r[a].form
      PROVE  c
  <2>1. f[a] \in 1 .. Len(q) /\ q[f[a]].form
    BY <1>3 DEF Advanced
  <2>2. b
    BY <2>1 DEF OneForm
  <2>3. q[i].form => f[a] = i
    BY <2>1 DEF OneForm
  <2> QED
    BY <2>2, <2>3 DEF Ended
<1> QED
  BY <1>1, <1>2, <1>3 DEF OneForm

LEMMA JoinedForm ==
  ASSUME NEW q \in Seq(Script), NEW e \in Seq(Script), NEW b, OneForm(q, b),
         \A j \in 1 .. Len(e) : ~e[j].form
  PROVE  OneForm(q \o e, b)
<1> DEFINE r == q \o e
<1>1. /\ r \in Seq(Script) /\ Len(r) = Len(q) + Len(e)
      /\ \A j \in 1 .. Len(q) : r[j] = q[j]
      /\ \A j \in 1 .. Len(r) :
           \/ j \in 1 .. Len(q) /\ r[j] = q[j]
           \/ j - Len(q) \in 1 .. Len(e) /\ r[j] = e[j - Len(q)]
  BY Joined
<1> HIDE DEF r
<1>2. \A j \in 1 .. Len(r) : r[j].form => j \in 1 .. Len(q) /\ q[j].form
  BY <1>1
<1>3. \A j \in 1 .. Len(q) : j \in 1 .. Len(r)
  BY <1>1
<1>4. OneForm(r, b)
  BY <1>1, <1>2, <1>3 DEF OneForm
<1> QED
  BY <1>4 DEF r

LEMMA JoinedOneForm ==
  ASSUME NEW q \in Seq(Script), NEW s \in Script, s.form, OneForm(q, FALSE)
  PROVE  OneForm(q \o <<s>>, TRUE)
<1> DEFINE r == q \o <<s>>
<1>0. <<s>> \in Seq(Script) /\ Len(<<s>>) = 1 /\ <<s>>[1] = s
  OBVIOUS
<1>1. /\ r \in Seq(Script) /\ Len(r) = Len(q) + 1
      /\ r[Len(q) + 1] = s
      /\ \A j \in 1 .. Len(r) :
           \/ j \in 1 .. Len(q) /\ r[j] = q[j]
           \/ j - Len(q) \in 1 .. 1
  BY <1>0, Joined
<1> HIDE DEF r
<1>2. \A j \in 1 .. Len(q) : ~q[j].form
  BY DEF OneForm
<1>3. Len(q) \in Nat
  OBVIOUS
<1>4. \A j \in 1 .. Len(r) : r[j].form => j = Len(q) + 1
  BY <1>1, <1>2, <1>3
<1>5. Len(q) + 1 \in 1 .. Len(r) /\ r[Len(q) + 1].form
  BY <1>1, <1>3
<1>6. OneForm(r, TRUE)
  BY <1>4, <1>5 DEF OneForm
<1> QED
  BY <1>6 DEF r

-----------------------------------------------------------------------------
(* How a script goes on                                                    *)

\* Without the later properties: what the steps need of the state.
LEMMA ScriptAt ==
  ASSUME ScriptsInv, NEW i \in 1 .. Len(scripts)
  PROVE  /\ scripts \in Seq(Script)
         /\ ScriptOK(scripts[i]) /\ scripts[i] \in Script
         /\ scripts[i].steps \in Seq(Request) /\ scripts[i].steps # <<>>
         /\ Len(scripts[i].steps) \in Nat \ {0}
         /\ Head(scripts[i].steps) = scripts[i].steps[1]
         /\ Head(scripts[i].steps) \in Request
         /\ Writes(scripts[i], Head(scripts[i].steps))
<1>1. /\ scripts \in Seq(Script)
      /\ ScriptOK(scripts[i]) /\ scripts[i] \in Script
  BY DEF ScriptsInv, TypeOK, ScriptOK
<1> DEFINE x == scripts[i].steps
<1>2. x \in Seq(Request) /\ x # <<>>
  BY <1>1 DEF ScriptOK, Script
<1> HIDE DEF x
<1>3. Len(x) \in Nat \ {0} /\ 1 \in 1 .. Len(x)
  BY <1>2, EmptySeq
<1>4. Head(x) = x[1] /\ Head(x) \in Request
  BY <1>2, HeadTailProperties
<1> QED
  BY <1>1, <1>2, <1>3, <1>4 DEF Writes, x

LEMMA Overtaken ==
  ASSUME ScriptsInv, NEW i \in 1 .. Len(scripts), NEW ks
  PROVE  /\ Overtake(i, ks) \in Seq(Script)
         /\ Len(Overtake(i, ks)) = Len(scripts)
         /\ \A j \in 1 .. Len(scripts) :
              /\ ScriptOK(Overtake(i, ks)[j])
              /\ Overtake(i, ks)[j].steps = scripts[j].steps
              /\ Overtake(i, ks)[j].project = scripts[j].project
              /\ Overtake(i, ks)[j].queue = scripts[j].queue
              /\ Overtake(i, ks)[j].form = scripts[j].form
              /\ \A k \in Display : k \in Overtake(i, ks)[j].behind <=>
                   k \in scripts[j].behind \/ (j < i /\ k \in ks)
         /\ Overtake(i, ks)[i] = scripts[i]
<1> DEFINE p == Overtake(i, ks)
<1>1. \A j \in 1 .. Len(scripts) :
        p[j] = IF j < i THEN [scripts[j] EXCEPT !.behind = @ \cup (ks \cap Display)] ELSE scripts[j]
  BY DEF Overtake
<1>2. ASSUME NEW j \in 1 .. Len(scripts)
      PROVE  /\ p[j] \in Script
             /\ ScriptOK(p[j])
             /\ p[j].steps = scripts[j].steps
             /\ p[j].project = scripts[j].project
             /\ p[j].queue = scripts[j].queue
             /\ p[j].form = scripts[j].form
             /\ \A k \in Display : k \in p[j].behind <=>
                  k \in scripts[j].behind \/ (j < i /\ k \in ks)
  <2>1. ScriptOK(scripts[j]) /\ scripts[j] \in Script
    BY ScriptAt
  <2> HIDE DEF p
  <2>2. CASE j < i
    <3>1. p[j] = [scripts[j] EXCEPT !.behind = scripts[j].behind \cup (ks \cap Display)]
      BY <1>1, <2>2
    <3>2. /\ p[j] \in Script
          /\ p[j].steps = scripts[j].steps
          /\ p[j].project = scripts[j].project
          /\ p[j].queue = scripts[j].queue
          /\ p[j].form = scripts[j].form
          /\ p[j].answered = scripts[j].answered
          /\ p[j].data = scripts[j].data
          /\ p[j].behind = scripts[j].behind \cup (ks \cap Display)
      BY <2>1, <3>1 DEF Script
    <3>3. ScriptOK(p[j])
      BY <2>1, <3>2 DEF ScriptOK
    <3> QED
      BY <2>2, <3>2, <3>3
  <2>3. CASE ~(j < i)
    BY <1>1, <2>1, <2>3
  <2> QED
    BY <2>2, <2>3
<1>3. Len(scripts) \in Nat
  BY ScriptAt
<1>4. p = [j \in 1 .. Len(scripts) |-> p[j]]
  BY DEF Overtake
<1>5. p \in Seq(Script) /\ Len(p) = Len(scripts)
  <2>1. p \in [1 .. Len(scripts) -> Script]
    BY <1>2, <1>4
  <2> HIDE DEF p
  <2> QED
    BY <1>3, <2>1
<1> HIDE DEF p
<1>6. p[i] = scripts[i]
  BY <1>1, ~(i < i)
<1> QED
  BY <1>2, <1>5, <1>6 DEF p

\* A script with more than one request to make goes on with the next.
LEMMA Rest ==
  ASSUME NEW s, ScriptOK(s), Len(s.steps) # 1, NEW x,
         x = [s EXCEPT !.steps = Tail(@), !.answered = FALSE, !.data = {}]
  PROVE  /\ ScriptOK(x)
         /\ x.project = s.project /\ x.queue = s.queue /\ x.form = s.form
         /\ x.behind = s.behind
         /\ \A k \in Request : Writes(x, k) <=> Writes(s, k) /\ k # Head(s.steps)
<1> DEFINE y == s.steps
           z == Tail(y)
<1>1. s \in Script /\ y \in Seq(Request) /\ y # <<>>
  BY DEF ScriptOK, Script
<1>2. /\ x = [s EXCEPT !.steps = z, !.answered = FALSE, !.data = {}]
  OBVIOUS
<1> HIDE DEF y
<1>3. /\ Len(y) \in Nat \ {0} /\ z \in Seq(Request) /\ Len(z) = Len(y) - 1
      /\ \A n \in 1 .. Len(z) : z[n] = y[n + 1]
  BY <1>1, EmptySeq, HeadTailProperties
<1>4. Head(y) = y[1]
  BY <1>1
<1>5. Len(y) # 1 /\ \A m, n \in 1 .. Len(y) : y[m] = y[n] => m = n
  BY DEF ScriptOK, y
<1> HIDE DEF z
<1>6. z # <<>>
  BY <1>3, <1>5, EmptySeq
<1>7. \A m, n \in 1 .. Len(z) : z[m] = z[n] => m = n
  <2> SUFFICES ASSUME NEW m \in 1 .. Len(z), NEW n \in 1 .. Len(z), z[m] = z[n]
               PROVE  m = n
    OBVIOUS
  <2>1. m + 1 \in 1 .. Len(y) /\ n + 1 \in 1 .. Len(y)
    BY <1>3
  <2>2. y[m + 1] = y[n + 1]
    BY <1>3
  <2>3. m + 1 = n + 1
    BY <1>5, <2>1, <2>2
  <2> QED
    BY <2>3
<1>8. /\ x \in Script /\ x.steps = z /\ ~x.answered
      /\ x.project = s.project /\ x.queue = s.queue /\ x.form = s.form
      /\ x.behind = s.behind
  BY <1>1, <1>2, <1>3 DEF Script
<1>9. ScriptOK(x)
  BY <1>6, <1>7, <1>8 DEF ScriptOK
<1>10. ASSUME NEW k \in Request
       PROVE  (\E n \in 1 .. Len(z) : z[n] = k) <=> (\E n \in 1 .. Len(y) : y[n] = k) /\ k # y[1]
  <2>1. ASSUME NEW n \in 1 .. Len(z), z[n] = k
        PROVE  (\E m \in 1 .. Len(y) : y[m] = k) /\ k # y[1]
    <3>1. n + 1 \in 1 .. Len(y) /\ 1 \in 1 .. Len(y) /\ n + 1 # 1
      BY <1>3
    <3>2. y[n + 1] = k
      BY <1>3, <2>1
    <3> QED
      BY <1>5, <3>1, <3>2
  <2>2. ASSUME NEW n \in 1 .. Len(y), y[n] = k, k # y[1]
        PROVE  \E m \in 1 .. Len(z) : z[m] = k
    <3>1. n - 1 \in 1 .. Len(z) /\ (n - 1) + 1 = n
      BY <1>3, <2>2
    <3> QED
      BY <1>3, <2>2, <3>1
  <2> QED
    BY <2>1, <2>2
<1> QED
  BY <1>4, <1>8, <1>9, <1>10 DEF Writes, y

\* A script that has only one request to make writes one display.
LEMMA LastStep ==
  ASSUME ScriptsInv, NEW i \in 1 .. Len(scripts), Len(scripts[i].steps) = 1, NEW k,
         Writes(scripts[i], k)
  PROVE  k = Head(scripts[i].steps)
  BY ScriptAt DEF Writes

\* Script i is gone.
LEMMA AdvancedAway ==
  ASSUME ScriptsInv, NEW i \in 1 .. Len(scripts), NEW ks,
         \A k \in Display : Writes(scripts[i], k) => k \in ks
  PROVE  LET r == RemoveAt(Overtake(i, ks), i) IN
         /\ r \in Seq(Script)
         /\ \A j \in 1 .. Len(r) : ScriptOK(r[j])
         /\ \E f : Advanced(scripts, r, i, ks, f) /\ Ended(r, i, f)
<1> DEFINE p == Overtake(i, ks)
           r == RemoveAt(p, i)
           f == [j \in 1 .. Len(r) |-> IF j < i THEN j ELSE j + 1]
<1>1. scripts \in Seq(Script) /\ Len(scripts) \in Nat \ {0}
  BY ScriptAt
<1>2. /\ p \in Seq(Script) /\ Len(p) = Len(scripts)
      /\ \A j \in 1 .. Len(scripts) :
           /\ ScriptOK(p[j])
           /\ p[j].steps = scripts[j].steps
           /\ p[j].project = scripts[j].project
           /\ p[j].queue = scripts[j].queue
           /\ p[j].form = scripts[j].form
           /\ \A k \in Display : k \in p[j].behind <=>
                k \in scripts[j].behind \/ (j < i /\ k \in ks)
  BY Overtaken
<1> HIDE DEF p
<1>3. /\ r \in Seq(Script) /\ Len(r) = Len(scripts) - 1
      /\ \A j \in 1 .. Len(r) : r[j] = IF j < i THEN p[j] ELSE p[j + 1]
  BY <1>2, Removed
<1> HIDE DEF r
<1>4. ASSUME NEW a \in 1 .. Len(r)
      PROVE  /\ f[a] \in 1 .. Len(scripts) /\ f[a] # i /\ r[a] = p[f[a]]
             /\ f[a] = IF a < i THEN a ELSE a + 1
  BY <1>1, <1>3
<1>5. f \in [1 .. Len(r) -> 1 .. Len(scripts)]
  BY <1>4
<1> HIDE DEF f
<1>6. \A a, b \in 1 .. Len(r) : a < b => f[a] < f[b]
  BY <1>4
<1>7. ASSUME NEW m \in 1 .. Len(scripts), m # i
      PROVE  \E a \in 1 .. Len(r) : f[a] = m
  <2>1. CASE m < i
    <3>1. m \in 1 .. Len(r)
      BY <1>1, <1>3, <2>1
    <3> QED
      BY <1>4, <2>1, <3>1
  <2>2. CASE m > i
    <3>1. m - 1 \in 1 .. Len(r) /\ ~(m - 1 < i) /\ (m - 1) + 1 = m
      BY <1>1, <1>3, <2>2
    <3> QED
      BY <1>4, <3>1
  <2> QED
    BY <1>7, <2>1, <2>2
<1>8. \A a \in 1 .. Len(r) : ScriptOK(r[a])
  BY <1>2, <1>4
<1>9. ASSUME NEW a \in 1 .. Len(r)
      PROVE  /\ r[a].project = scripts[f[a]].project
             /\ r[a].queue = scripts[f[a]].queue
             /\ r[a].form = scripts[f[a]].form
             /\ \A k \in Display :
                  /\ Writes(r[a], k) <=> Writes(scripts[f[a]], k)
                  /\ k \in r[a].behind <=> k \in scripts[f[a]].behind \/ (f[a] < i /\ k \in ks)
  BY <1>2, <1>4 DEF Writes
<1>10. Advanced(scripts, r, i, ks, f)
  BY <1>4, <1>5, <1>6, <1>7, <1>9 DEF Advanced
<1>11. Ended(r, i, f)
  BY <1>4 DEF Ended
<1> QED
  BY <1>3, <1>8, <1>10, <1>11 DEF r, p

\* Script i goes on with its next request.
LEMMA AdvancedOn ==
  ASSUME ScriptsInv, NEW i \in 1 .. Len(scripts), Len(scripts[i].steps) # 1, NEW ks, NEW x,
         ks = {Head(scripts[i].steps)},
         x = [scripts[i] EXCEPT !.steps = Tail(@), !.answered = FALSE, !.data = {}]
  PROVE  LET r == ReplaceAt(Overtake(i, ks), i, x) IN
         /\ r \in Seq(Script)
         /\ \A j \in 1 .. Len(r) : ScriptOK(r[j])
         /\ \E f : Advanced(scripts, r, i, ks, f) /\ ~Ended(r, i, f)
<1> DEFINE p == Overtake(i, ks)
           r == ReplaceAt(p, i, x)
           f == [j \in 1 .. Len(r) |-> j]
<1>1. scripts \in Seq(Script) /\ ScriptOK(scripts[i])
  BY ScriptAt
<1>2. /\ p \in Seq(Script) /\ Len(p) = Len(scripts)
      /\ \A j \in 1 .. Len(scripts) :
           /\ ScriptOK(p[j])
           /\ p[j].steps = scripts[j].steps
           /\ p[j].project = scripts[j].project
           /\ p[j].queue = scripts[j].queue
           /\ p[j].form = scripts[j].form
           /\ \A k \in Display : k \in p[j].behind <=>
                k \in scripts[j].behind \/ (j < i /\ k \in ks)
  BY Overtaken
<1> HIDE DEF p
<1>3. /\ ScriptOK(x)
      /\ x.project = scripts[i].project /\ x.queue = scripts[i].queue
      /\ x.form = scripts[i].form /\ x.behind = scripts[i].behind
      /\ \A k \in Request : Writes(x, k) <=> Writes(scripts[i], k) /\ k # Head(scripts[i].steps)
  <2>1. PICK s : s = scripts[i]
    OBVIOUS
  <2>2. /\ ScriptOK(s) /\ Len(s.steps) # 1
        /\ x = [s EXCEPT !.steps = Tail(@), !.answered = FALSE, !.data = {}]
    BY <1>1, <2>1
  <2>3. /\ ScriptOK(x)
        /\ x.project = s.project /\ x.queue = s.queue /\ x.form = s.form
        /\ x.behind = s.behind
        /\ \A k \in Request : Writes(x, k) <=> Writes(s, k) /\ k # Head(s.steps)
    BY <2>2, Rest
  <2> QED
    BY <2>1, <2>3
<1>4. x \in Script
  BY <1>3 DEF ScriptOK
<1>5. /\ r \in Seq(Script) /\ Len(r) = Len(scripts)
      /\ \A j \in 1 .. Len(r) : r[j] = IF j = i THEN x ELSE p[j]
  BY <1>2, <1>4, ExceptSeq DEF ReplaceAt
<1> HIDE DEF r
<1>6. ASSUME NEW a \in 1 .. Len(r)
      PROVE  a \in 1 .. Len(scripts) /\ f[a] = a
  BY <1>5
<1>7. f \in [1 .. Len(r) -> 1 .. Len(scripts)]
  BY <1>6
<1> HIDE DEF f
<1>8. \A a \in 1 .. Len(r) : ScriptOK(r[a])
  BY <1>2, <1>3, <1>5
<1>9. Display \subseteq Request
  BY DEF Request
<1>10. ASSUME NEW a \in 1 .. Len(r)
       PROVE  /\ r[a].project = scripts[a].project
              /\ r[a].queue = scripts[a].queue
              /\ r[a].form = scripts[a].form
              /\ \A k \in Display :
                   /\ Writes(r[a], k) <=> Writes(scripts[a], k) /\ ~(a = i /\ k \in ks)
                   /\ k \in r[a].behind <=> k \in scripts[a].behind \/ (a < i /\ k \in ks)
  <2>1. CASE a = i
    <3>1. r[a] = x /\ ~(a < i)
      BY <1>5, <2>1
    <3>2. \A k \in Display : k \in Request /\ (k \in ks <=> k = Head(scripts[i].steps))
      BY <1>9
    <3> QED
      BY <1>3, <2>1, <3>1, <3>2
  <2>2. CASE a # i
    BY <1>2, <1>5, <1>6, <2>2 DEF Writes
  <2> QED
    BY <2>1, <2>2
<1>11. Advanced(scripts, r, i, ks, f)
  BY <1>5, <1>6, <1>7, <1>10 DEF Advanced
<1>12. ~Ended(r, i, f)
  BY <1>5, <1>6 DEF Ended
<1> QED
  BY <1>5, <1>8, <1>11, <1>12 DEF r, p

\* A reply leaves the scripts as they are, but for the reply.
LEMMA AdvancedReply ==
  ASSUME ScriptsInv, NEW i \in 1 .. Len(scripts), NEW d, d \subseteq Project \cup Queue,
         Head(scripts[i].steps) = "projects" => d \subseteq exists,
         Head(scripts[i].steps) = "queues" => d \subseteq Queue
  PROVE  LET r == [scripts EXCEPT ![i].answered = TRUE, ![i].data = d] IN
         /\ r \in Seq(Script)
         /\ \A j \in 1 .. Len(r) : ScriptOK(r[j])
         /\ \E f : Advanced(scripts, r, i, {}, f) /\ ~Ended(r, i, f)
<1> DEFINE x == [scripts[i] EXCEPT !.answered = TRUE, !.data = d]
           r == [scripts EXCEPT ![i] = x]
           f == [j \in 1 .. Len(r) |-> j]
<1>1. scripts \in Seq(Script) /\ ScriptOK(scripts[i]) /\ scripts[i] \in Script
  BY ScriptAt
<1>2. [scripts EXCEPT ![i].answered = TRUE, ![i].data = d] = r
  BY <1>1
<1>3. /\ x \in Script /\ x.steps = scripts[i].steps
      /\ x.project = scripts[i].project /\ x.queue = scripts[i].queue
      /\ x.form = scripts[i].form /\ x.behind = scripts[i].behind
      /\ x.data = d
  BY <1>1 DEF Script
<1> HIDE DEF x
<1>4. ScriptOK(x)
  BY <1>1, <1>3 DEF ScriptOK
<1>5. /\ r \in Seq(Script) /\ Len(r) = Len(scripts)
      /\ \A j \in 1 .. Len(r) : r[j] = IF j = i THEN x ELSE scripts[j]
  BY <1>1, <1>3, ExceptSeq
<1> HIDE DEF r
<1>6. ASSUME NEW a \in 1 .. Len(r)
      PROVE  a \in 1 .. Len(scripts) /\ f[a] = a
  BY <1>5
<1>7. f \in [1 .. Len(r) -> 1 .. Len(scripts)]
  BY <1>6
<1> HIDE DEF f
<1>8. \A a \in 1 .. Len(r) : ScriptOK(r[a])
  BY <1>4, <1>5, <1>6, ScriptAt
<1>9. ASSUME NEW a \in 1 .. Len(r)
      PROVE  /\ r[a].project = scripts[a].project
             /\ r[a].queue = scripts[a].queue
             /\ r[a].form = scripts[a].form
             /\ r[a].steps = scripts[a].steps
             /\ r[a].behind = scripts[a].behind
  BY <1>3, <1>5
<1>10. Advanced(scripts, r, i, {}, f)
  BY <1>5, <1>6, <1>7, <1>9 DEF Advanced, Writes
<1>11. ~Ended(r, i, f)
  BY <1>5, <1>6 DEF Ended
<1> QED
  BY <1>2, <1>5, <1>8, <1>10, <1>11

-----------------------------------------------------------------------------
(* Steps                                                                   *)

\* What a reply makes of the state: it shows what the script asked for, and a
\* queue that is selected is listed.
LEMMA Applied ==
  ASSUME ScriptsInv, NEW i \in 1 .. Len(scripts), NEW k, NEW w,
         k = Head(scripts[i].steps), k \in Served => scripts[i].answered,
         w = Apply(scripts[i], k)
  PROVE  /\ w \in View
         /\ w.project \in exists \cup {0} /\ w.projects \subseteq exists
         /\ w.queue \in w.queues \cup {0}
         /\ \A c \in Selective : Shown(w, c) =
              IF c = k THEN Captured(scripts[i], c) ELSE Shown(view, c)
<1> DEFINE s == scripts[i]
<1>1. s \in Script /\ ScriptOK(s)
  BY ScriptAt
<1>2. /\ view \in View /\ view.project \in exists \cup {0} /\ view.projects \subseteq exists
      /\ view.queue \in view.queues \cup {0} /\ exists \subseteq Project
  BY DEF ScriptsInv, TypeOK, QueueIsListed
<1>3. Project \subseteq Nat /\ Queue \subseteq Nat
  BY DashboardAssumption DEF Project, Queue
<1>4. s.project \in Project \cup {0} /\ s.queue \in Queue \cup {0}
  BY <1>1 DEF Script
<1>5. CASE k = "projects"
  <2>1. s.data \subseteq exists
    BY <1>1, <1>5 DEF ScriptOK, Served
  <2>2. First(s.data) \in s.data \cup {0}
    BY <1>2, <1>3, <2>1, FirstIsOne
  <2> HIDE DEF s
  <2>3. PICK p : p = IF view.project # 0 THEN view.project ELSE First(s.data)
    OBVIOUS
  <2>4. p \in exists \cup {0}
    BY <1>2, <2>1, <2>2, <2>3
  <2>5. w = [view EXCEPT !.projects = s.data, !.project = p]
    BY <1>2, <1>5, <2>3 DEF Apply, View, s
  <2> QED
    BY <1>2, <1>5, <2>1, <2>4, <2>5 DEF View, Shown, Selective
<1>6. CASE k = "queues"
  <2>1. s.data \subseteq Queue
    BY <1>1, <1>6 DEF ScriptOK, Served
  <2>2. First(s.data) \in s.data \cup {0}
    BY <1>3, <2>1, FirstIsOne
  <2>3. PICK q : q = KeepOrFirst(view.queue, s.data)
    OBVIOUS
  <2>4. q \in s.data \cup {0}
    BY <2>2, <2>3 DEF KeepOrFirst
  <2>5. w = [view EXCEPT !.queues = s.data, !.queuesOf = s.project, !.queue = q]
    BY <1>2, <1>6, <2>3 DEF Apply, View
  <2> HIDE DEF s
  <2>6. \A c \in Selective : Shown(w, c) = IF c = k THEN Captured(s, c) ELSE Shown(view, c)
    BY <1>2, <1>6, <2>5 DEF View, Shown, Captured, Selective
  <2> QED
    BY <1>2, <1>4, <2>1, <2>4, <2>5, <2>6 DEF View, s
<1>7. CASE k = "dlq"
  <2>1. w = [view EXCEPT !.dlqOf = s.project]
    BY <1>7 DEF Apply
  <2> QED
    BY <1>2, <1>4, <1>7, <2>1 DEF View, Shown, Captured, Selective
<1>8. CASE k = "stats"
  <2>1. w = [view EXCEPT !.statsOf = s.queue]
    BY <1>8 DEF Apply
  <2> QED
    BY <1>2, <1>4, <1>8, <2>1 DEF View, Shown, Captured, Selective
<1>9. CASE k \notin Display
  <2>1. w = view
    BY <1>9 DEF Apply, Display
  <2> QED
    BY <1>2, <1>9, <2>1 DEF Selective, Display
<1> QED
  BY <1>5, <1>6, <1>7, <1>8, <1>9 DEF Display

\* Scripts are added to a list: ScriptsInv's part about scripts.
LEMMA JoinedScripts ==
  ASSUME NEW q \in Seq(Script), NEW e \in Seq(Script),
         \A j \in 1 .. Len(q) : ScriptOK(q[j]), \A j \in 1 .. Len(e) : ScriptOK(e[j])
  PROVE  q \o e \in Seq(Script) /\ \A j \in 1 .. Len(q \o e) : ScriptOK((q \o e)[j])
<1>1. /\ q \o e \in Seq(Script)
      /\ \A j \in 1 .. Len(q \o e) :
           \/ j \in 1 .. Len(q) /\ (q \o e)[j] = q[j]
           \/ j - Len(q) \in 1 .. Len(e) /\ (q \o e)[j] = e[j - Len(q)]
  BY Joined
<1> QED
  BY <1>1

LEMMA BackgroundStarted ==
  ASSUME NEW v, NEW e \in Seq(Background(v))
  PROVE  /\ e \in Seq(Script)
         /\ \A j \in 1 .. Len(e) : Started(e[j], v) /\ ScriptOK(e[j]) /\ ~e[j].form
<1>1. \A j \in 1 .. Len(e) : e[j] \in Background(v)
  OBVIOUS
<1>2. Background(v) \subseteq Script
  BY DEF Background
<1>3. e \in Seq(Script)
  BY <1>2
<1> QED
  BY <1>1, <1>3 DEF Background, Started

\* The invariants of the whole.
Inv == ScriptsInv /\ FormInv /\ ViewInv

\* A step's new state: the lists and displays of v become those of w, and e is started.
LEMMA ViewStep ==
  ASSUME NEW q \in Seq(Script), NEW e \in Seq(Script), NEW v, NEW w, NEW t, NEW on, NEW was,
         \A j \in 1 .. Len(e) : Started(e[j], w),
         \A k \in Selective : was /\ Wanted(w, k) # 0 /\ Wanted(w, k) = Wanted(v, k) =>
           Matches(q, w, t, k),
         \A k \in Selective : on /\ Wanted(w, k) # 0 /\ ~(was /\ Wanted(w, k) = Wanted(v, k)) =>
           \E j \in 1 .. Len(e) : Writes(e[j], k)
  PROVE  on => \A k \in Selective : Wanted(w, k) # 0 => Matches(q \o e, w, t, k)
  BY JoinedMatches

LEMMA FormInvIs ==
  (FormInv <=> OneForm(scripts, busy)) /\ (FormInv' <=> OneForm(scripts', busy'))
  BY DEF FormInv, OneForm

LEMMA DeliverStep ==
  ASSUME Inv, NEW i \in 1 .. Len(scripts), Deliver(i)
  PROVE  Inv'
<1> USE DEF Inv
<1>1. PICK k : k = Head(scripts[i].steps)
  OBVIOUS
<1>2. PICK w : w = Apply(scripts[i], k)
  OBVIOUS
<1>3. PICK on \in BOOLEAN : on = (signedIn \/ k = "auth")
  <2>1. (signedIn \/ k = "auth") \in BOOLEAN
    OBVIOUS
  <2> QED
    BY <2>1, Zenon
<1>4. PICK fresh \in BOOLEAN : fresh = (on # signedIn)
  <2>1. (on # signedIn) \in BOOLEAN
    OBVIOUS
  <2> QED
    BY <2>1, Zenon
<1>5. PICK v : v = view
  OBVIOUS
<1>6. PICK e : e = Effects(on, v, fresh, w)
  OBVIOUS
<1>7. PICK left : left =
        IF Len(scripts[i].steps) = 1 THEN RemoveAt(Overtake(i, {k}), i)
        ELSE ReplaceAt(Overtake(i, {k}), i,
               [scripts[i] EXCEPT !.steps = Tail(@), !.answered = FALSE, !.data = {}])
  OBVIOUS
<1>8. /\ k \in Served => scripts[i].answered
      /\ view' = w /\ signedIn' = on
      /\ scripts' = left \o e
      /\ busy' = (busy /\ ~(scripts[i].form /\ Len(scripts[i].steps) = 1))
      /\ tainted' = IF k \in scripts[i].behind THEN tainted \cup {k} ELSE tainted \ {k}
      /\ exists' = exists /\ owner' = owner /\ actions' = actions
  <2>1. /\ k \in Served => scripts[i].answered
        /\ view' = w
        /\ tainted' = IF k \in scripts[i].behind THEN tainted \cup {k} ELSE tainted \ {k}
        /\ exists' = exists /\ owner' = owner /\ actions' = actions
    BY <1>1, <1>2, Zenon DEF Deliver
  <2>2. signedIn' = on
    BY <1>1, <1>3, Zenon DEF Deliver
  <2>3. scripts' = left \o e
    BY <1>1, <1>2, <1>3, <1>4, <1>5, <1>6, <1>7, Zenon DEF Deliver
  <2>4. busy' = (busy /\ ~(scripts[i].form /\ Len(scripts[i].steps) = 1))
    BY Zenon DEF Deliver
  <2> QED
    BY <2>1, <2>2, <2>3, <2>4
<1>9. /\ w \in View
      /\ w.project \in exists \cup {0} /\ w.projects \subseteq exists
      /\ w.queue \in w.queues \cup {0}
      /\ \A c \in Selective : Shown(w, c) =
           IF c = k THEN Captured(scripts[i], c) ELSE Shown(view, c)
  BY <1>1, <1>2, <1>8, Applied
<1>10. v \in View
  BY <1>5 DEF ScriptsInv, TypeOK
<1>11. /\ e \in Seq(Background(w))
       /\ \A c \in Selective :
            on /\ Wanted(w, c) # 0 /\ (fresh \/ Wanted(v, c) # Wanted(w, c)) =>
              \E j \in 1 .. Len(e) : Writes(e[j], c)
  BY <1>6, <1>9, <1>10, EffectsStart
<1>12. /\ e \in Seq(Script)
       /\ \A j \in 1 .. Len(e) : Started(e[j], w) /\ ScriptOK(e[j]) /\ ~e[j].form
  BY <1>11, BackgroundStarted
<1>13. /\ scripts \in Seq(Script) /\ Writes(scripts[i], k) /\ k \in Request
  BY <1>1, ScriptAt
<1>14. /\ left \in Seq(Script) /\ \A j \in 1 .. Len(left) : ScriptOK(left[j])
       /\ \E f : /\ Advanced(scripts, left, i, {k}, f)
                 /\ Ended(left, i, f) <=> Len(scripts[i].steps) = 1
  <2>1. CASE Len(scripts[i].steps) = 1
    <3>1. \A c \in Display : Writes(scripts[i], c) => c \in {k}
      BY <1>1, <2>1, LastStep
    <3>2. left = RemoveAt(Overtake(i, {k}), i)
      BY <1>7, <2>1
    <3> QED
      BY <2>1, <3>1, <3>2, AdvancedAway
  <2>2. CASE Len(scripts[i].steps) # 1
    <3>1. PICK x : x = [scripts[i] EXCEPT !.steps = Tail(@), !.answered = FALSE, !.data = {}]
      OBVIOUS
    <3>2. left = ReplaceAt(Overtake(i, {k}), i, x)
      BY <1>7, <2>2, <3>1
    <3>3. PICK ks : ks = {k} /\ ks = {Head(scripts[i].steps)}
      BY <1>1
    <3>4. left = ReplaceAt(Overtake(i, ks), i, x)
      BY <3>2, <3>3
    <3>5. /\ left \in Seq(Script) /\ \A j \in 1 .. Len(left) : ScriptOK(left[j])
          /\ \E f : Advanced(scripts, left, i, ks, f) /\ ~Ended(left, i, f)
      BY <2>2, <3>1, <3>3, <3>4, AdvancedOn
    <3> QED
      BY <2>2, <3>3, <3>5
  <2> QED
    BY <2>1, <2>2
<1>15. PICK f : /\ Advanced(scripts, left, i, {k}, f)
                /\ Ended(left, i, f) <=> Len(scripts[i].steps) = 1
  BY <1>14
<1>16. ScriptsInv'
  <2>1. left \o e \in Seq(Script) /\ \A j \in 1 .. Len(left \o e) : ScriptOK((left \o e)[j])
    BY <1>12, <1>14, JoinedScripts
  <2>2. \A j \in 1 .. Len(scripts') : ScriptOK(scripts[j])'
    BY <1>8, <2>1 DEF ScriptOK
  <2>3. tainted' \subseteq Display
    <3>1. scripts[i].behind \subseteq Display
      BY ScriptAt DEF Script
    <3>2. tainted \subseteq Display
      BY DEF ScriptsInv, TypeOK
    <3> QED
      BY <1>8, <3>1, <3>2
  <2> QED
    BY <1>8, <1>9, <2>1, <2>2, <2>3 DEF ScriptsInv, TypeOK, QueueIsListed
<1>17. FormInv'
  <2>1. OneForm(scripts, busy)
    BY FormInvIs
  <2>2. OneForm(left, busy')
    BY <1>8, <1>13, <1>14, <1>15, <2>1, AdvancedForm
  <2>3. OneForm(left \o e, busy')
    BY <1>12, <1>14, <2>2, JoinedForm
  <2> QED
    BY <1>8, <2>3, FormInvIs
<1>18. ViewInv'
  <2>1. Ordered(left)
    BY <1>13, <1>14, <1>15, AdvancedOrdered DEF ViewInv
  <2>2. Ordered(left \o e)
    BY <1>12, <1>14, <2>1, JoinedOrdered
  <2>3. ASSUME NEW c \in Selective, signedIn, Wanted(w, c) # 0, Wanted(w, c) = Wanted(v, c)
        PROVE  Matches(left, w, tainted', c)
    <3>1. Matches(scripts, v, tainted, c)
      BY <1>5, <2>3 DEF ViewInv
    <3>2. CASE c = k
      BY <1>8, <1>9, <1>13, <1>14, <1>15, <2>3, <3>1, <3>2, AdvancedDelivered DEF ViewInv
    <3>3. CASE c # k
      BY <1>5, <1>8, <1>9, <1>13, <1>14, <1>15, <2>3, <3>1, <3>3, AdvancedElsewhere
    <3> QED
      BY <3>2, <3>3
  <2>4. ASSUME NEW c \in Selective, on, Wanted(w, c) # 0,
               ~(signedIn /\ Wanted(w, c) = Wanted(v, c))
        PROVE  \E j \in 1 .. Len(e) : Writes(e[j], c)
    <3>1. fresh \/ Wanted(v, c) # Wanted(w, c)
      BY <1>4, <2>4
    <3> QED
      BY <1>11, <2>4, <3>1
  <2>5. on => \A c \in Selective : Wanted(w, c) # 0 => Matches(left \o e, w, tainted', c)
    <3>1. PICK t : t = tainted'
      OBVIOUS
    <3>2. PICK was \in BOOLEAN : was <=> signedIn
      BY Zenon DEF ScriptsInv, TypeOK
    <3>3. on => \A c \in Selective : Wanted(w, c) # 0 => Matches(left \o e, w, t, c)
      BY <1>12, <1>14, <2>3, <2>4, <3>1, <3>2, ViewStep
    <3> QED
      BY <3>1, <3>3
  <2> QED
    BY <1>8, <2>2, <2>5 DEF ViewInv
<1> QED
  BY <1>16, <1>17, <1>18

LEMMA FailStep ==
  ASSUME Inv, NEW i \in 1 .. Len(scripts), Fail(i)
  PROVE  Inv'
<1> USE DEF Inv
<1>1. PICK ks : ks = {scripts[i].steps[n] : n \in 1 .. Len(scripts[i].steps)}
  OBVIOUS
<1>2. PICK r : r = RemoveAt(Overtake(i, ks), i)
  OBVIOUS
<1>3. /\ scripts' = r
      /\ busy' = (busy /\ ~scripts[i].form)
      /\ tainted' = tainted \cup ((ks \cap Display) \ scripts[i].behind)
      /\ exists' = exists /\ owner' = owner /\ signedIn' = signedIn
      /\ view' = view /\ actions' = actions
  BY <1>1, <1>2, Zenon DEF Fail
<1>4. \A c : c \in ks <=> Writes(scripts[i], c)
  BY <1>1 DEF Writes
<1>5. /\ r \in Seq(Script) /\ \A j \in 1 .. Len(r) : ScriptOK(r[j])
      /\ \E f : Advanced(scripts, r, i, ks, f) /\ Ended(r, i, f)
  BY <1>2, <1>4, AdvancedAway
<1>6. PICK f : Advanced(scripts, r, i, ks, f) /\ Ended(r, i, f)
  BY <1>5
<1>7. scripts \in Seq(Script)
  BY ScriptAt
<1>8. ScriptsInv'
  <2>1. \A j \in 1 .. Len(scripts') : ScriptOK(scripts[j])'
    BY <1>3, <1>5 DEF ScriptOK
  <2> QED
    BY <1>3, <1>5, <2>1 DEF ScriptsInv, TypeOK, QueueIsListed
<1>9. FormInv'
  <2>1. OneForm(scripts, busy)
    BY FormInvIs
  <2>2. OneForm(r, busy')
    BY <1>3, <1>5, <1>6, <1>7, <2>1, AdvancedForm
  <2> QED
    BY <1>3, <2>2, FormInvIs
<1>10. ViewInv'
  <2>1. Ordered(r)
    BY <1>5, <1>6, <1>7, AdvancedOrdered DEF ViewInv
  <2>2. ASSUME NEW c \in Selective, signedIn, Wanted(view, c) # 0
        PROVE  Matches(r, view, tainted', c)
    <3>0. c \in Display
      BY DEF Selective, Display
    <3>1. Matches(scripts, view, tainted, c)
      BY <2>2 DEF ViewInv
    <3>2. PICK v, t, u : v = view /\ t = tainted /\ u = tainted'
      OBVIOUS
    <3>3. CASE c \in ks
      <4>1. Writes(scripts[i], c)
        BY <1>4, <3>3
      <4>2. c \notin u => c \notin t /\ c \in scripts[i].behind
        BY <1>3, <3>0, <3>2, <3>3
      <4>3. Matches(r, v, u, c)
        BY <1>5, <1>6, <1>7, <3>1, <3>2, <3>3, <4>1, <4>2, AdvancedFailed DEF ViewInv
      <4> QED
        BY <3>2, <4>3
    <3>4. CASE c \notin ks
      <4>1. c \in u <=> c \in t
        BY <1>3, <3>2, <3>4
      <4>2. Matches(r, v, u, c)
        BY <1>5, <1>6, <1>7, <3>1, <3>2, <3>4, <4>1, AdvancedElsewhere
      <4> QED
        BY <3>2, <4>2
    <3> QED
      BY <3>3, <3>4
  <2> QED
    BY <1>3, <2>1, <2>2 DEF ViewInv
<1> QED
  BY <1>8, <1>9, <1>10

\* The server's part: what it has grows, and a script gets its reply.
LEMMA AnswerStep ==
  ASSUME Inv, NEW i \in 1 .. Len(scripts), Answer(i)
  PROVE  Inv'
<1> USE DEF Inv
<1>1. PICK k, d : /\ Reply(i, k, d)
                  /\ d \subseteq Project \cup Queue
                  /\ k = "projects" => d \subseteq exists
                  /\ k = "queues" => d \subseteq Queue
                  /\ exists \subseteq exists' /\ exists' \subseteq Project
                  /\ owner' \in [Queue -> exists' \cup {0}]
  <2>0. exists \subseteq Project /\ owner \in [Queue -> exists \cup {0}]
    BY DEF ScriptsInv, TypeOK
  <2>1. CASE ListProjects(i)
    BY <2>0, <2>1 DEF ListProjects
  <2>2. CASE ListQueues(i)
    <3>1. QueuesOf(scripts[i].project) \subseteq Queue
      BY DEF QueuesOf
    <3>2. PICK d : d = QueuesOf(scripts[i].project)
      OBVIOUS
    <3>3. Reply(i, "queues", d) /\ exists' = exists /\ owner' = owner
      BY <2>2, <3>2 DEF ListQueues
    <3> QED
      BY <2>0, <3>1, <3>2, <3>3
  <2>3. CASE StoreProject(i)
    <3>1. PICK p \in Project \ exists : exists' = exists \cup {p}
      BY <2>3 DEF StoreProject
    <3>2. Reply(i, "postProject", {}) /\ owner' = owner
      BY <2>3 DEF StoreProject
    <3>3. owner' \in [Queue -> exists' \cup {0}]
      BY <2>0, <3>1, <3>2
    <3> QED
      BY <2>0, <3>1, <3>2, <3>3
  <2>4. CASE StoreQueue(i)
    <3>1. PICK q \in QueuesOf(0) : owner' = [owner EXCEPT ![q] = scripts[i].project]
      BY <2>4 DEF StoreQueue
    <3>2. Reply(i, "postQueue", {}) /\ exists' = exists
      BY <2>4 DEF StoreQueue
    <3>3. scripts[i].project \in exists \cup {0}
      BY ScriptAt DEF ScriptOK
    <3>4. owner' \in [Queue -> exists \cup {0}]
      BY <2>0, <3>1, <3>3 DEF QueuesOf
    <3> QED
      BY <2>0, <3>2, <3>4
  <2> QED
    BY <2>1, <2>2, <2>3, <2>4 DEF Answer
<1>2. PICK r : r = [scripts EXCEPT ![i].answered = TRUE, ![i].data = d]
  OBVIOUS
<1>3. /\ Head(scripts[i].steps) = k /\ scripts' = r
      /\ signedIn' = signedIn /\ view' = view /\ busy' = busy
      /\ tainted' = tainted /\ actions' = actions
  BY <1>1, <1>2 DEF Reply
<1>4. /\ r \in Seq(Script) /\ \A j \in 1 .. Len(r) : ScriptOK(r[j])
      /\ \E f : Advanced(scripts, r, i, {}, f) /\ ~Ended(r, i, f)
  BY <1>1, <1>2, <1>3, AdvancedReply
<1>5. PICK f : Advanced(scripts, r, i, {}, f) /\ ~Ended(r, i, f)
  BY <1>4
<1>6. scripts \in Seq(Script)
  BY ScriptAt
<1>7. ScriptsInv'
  <2>1. \A j \in 1 .. Len(scripts') : ScriptOK(scripts[j])'
    BY <1>1, <1>3, <1>4 DEF ScriptOK
  <2> QED
    BY <1>1, <1>3, <1>4, <2>1 DEF ScriptsInv, TypeOK, QueueIsListed
<1>8. FormInv'
  <2>1. OneForm(scripts, busy)
    BY FormInvIs
  <2>2. OneForm(r, busy')
    BY <1>3, <1>4, <1>5, <1>6, <2>1, AdvancedForm
  <2> QED
    BY <1>3, <2>2, FormInvIs
<1>9. ViewInv'
  <2>1. Ordered(r)
    BY <1>4, <1>5, <1>6, AdvancedOrdered DEF ViewInv
  <2>2. ASSUME NEW c \in Selective, signedIn, Wanted(view, c) # 0
        PROVE  Matches(r, view, tainted, c)
    <3>1. Matches(scripts, view, tainted, c)
      BY <2>2 DEF ViewInv
    <3>2. PICK v, t : v = view /\ t = tainted
      OBVIOUS
    <3>3. Matches(r, v, t, c)
      BY <1>4, <1>5, <1>6, <3>1, <3>2, AdvancedElsewhere
    <3> QED
      BY <3>2, <3>3
  <2> QED
    BY <1>3, <2>1, <2>2 DEF ViewInv
<1> QED
  BY <1>7, <1>8, <1>9

LEMMA ClickKeeps ==
  ASSUME ScriptsInv, Click
  PROVE  /\ exists' = exists /\ owner' = owner /\ tainted' = tainted
         /\ actions' \in 0 .. MaxActions
  BY DashboardAssumption DEF Click, ScriptsInv, TypeOK

\* Scripts e are started, and the state becomes w.
LEMMA StartedStep ==
  ASSUME Inv, Click, NEW w \in View, NEW e \in Seq(Script),
         view' = w, scripts' = scripts \o e, signedIn' = signedIn, busy' \in BOOLEAN,
         OneForm(scripts \o e, busy'),
         w.project \in exists \cup {0}, w.projects \subseteq exists,
         w.queue \in w.queues \cup {0},
         \A j \in 1 .. Len(e) : Started(e[j], w),
         \A k \in Selective : Shown(w, k) = Shown(view, k),
         \A k \in Selective : signedIn /\ Wanted(w, k) # 0 /\ Wanted(w, k) # Wanted(view, k) =>
           \E j \in 1 .. Len(e) : Writes(e[j], k)
  PROVE  Inv'
<1> USE DEF Inv
<1>1. /\ exists' = exists /\ owner' = owner /\ tainted' = tainted
      /\ actions' \in 0 .. MaxActions
  BY ClickKeeps
<1>2. scripts \in Seq(Script) /\ \A j \in 1 .. Len(scripts) : ScriptOK(scripts[j])
  BY DEF ScriptsInv, TypeOK
<1>3. ScriptsInv'
  <2>1. /\ scripts \o e \in Seq(Script)
        /\ \A j \in 1 .. Len(scripts \o e) : ScriptOK((scripts \o e)[j])
    BY <1>2, JoinedScripts DEF Started
  <2>2. \A j \in 1 .. Len(scripts') : ScriptOK(scripts[j])'
    BY <1>1, <2>1 DEF ScriptOK
  <2>3. TypeOK'
    BY <1>1, <2>1 DEF ScriptsInv, TypeOK
  <2> QED
    BY <1>1, <2>2, <2>3 DEF ScriptsInv, QueueIsListed
<1>4. FormInv'
  BY FormInvIs
<1>5. ViewInv'
  <2>1. Ordered(scripts \o e)
    BY <1>2, JoinedOrdered DEF ViewInv
  <2>2. ASSUME NEW k \in Selective, signedIn, Wanted(w, k) # 0
        PROVE  Matches(scripts \o e, w, tainted, k)
    <3>1. PICK q, t : q = scripts /\ t = tainted
      OBVIOUS
    <3>2. CASE Wanted(w, k) = Wanted(view, k)
      <4>1. Matches(q, w, t, k)
        BY <2>2, <3>1, <3>2 DEF ViewInv, Matches
      <4>2. Matches(q \o e, w, t, k)
        BY <1>2, <3>1, <4>1, JoinedMatches
      <4> QED
        BY <3>1, <4>2
    <3>3. CASE Wanted(w, k) # Wanted(view, k)
      <4>1. \E j \in 1 .. Len(e) : Writes(e[j], k)
        BY <2>2, <3>3
      <4>2. Matches(q \o e, w, t, k)
        BY <1>2, <3>1, <4>1, JoinedMatches
      <4> QED
        BY <3>1, <4>2
    <3> QED
      BY <3>2, <3>3
  <2> QED
    BY <1>1, <2>1, <2>2 DEF ViewInv
<1> QED
  BY <1>3, <1>4, <1>5

LEMMA SelectStep ==
  ASSUME Inv, NEW w \in View, Select(w),
         w.project \in exists \cup {0}, w.projects \subseteq exists,
         w.queue \in w.queues \cup {0},
         \A k \in Selective : Shown(w, k) = Shown(view, k)
  PROVE  Inv'
<1>1. PICK v : v = view
  OBVIOUS
<1>2. PICK e : e = Effects(TRUE, v, FALSE, w)
  OBVIOUS
<1>3. v \in View
  BY <1>1 DEF Inv, ScriptsInv, TypeOK
<1>4. /\ e \in Seq(Background(w))
      /\ \A k \in Selective : Wanted(w, k) # 0 /\ Wanted(v, k) # Wanted(w, k) =>
           \E j \in 1 .. Len(e) : Writes(e[j], k)
  <2>1. PICK on \in BOOLEAN, fresh \in BOOLEAN : on = TRUE /\ fresh = FALSE
    BY Zenon
  <2>2. e = Effects(on, v, fresh, w)
    BY <1>2, <2>1, Zenon
  <2>3. /\ e \in Seq(Background(w))
        /\ \A k \in Selective :
             on /\ Wanted(w, k) # 0 /\ (fresh \/ Wanted(v, k) # Wanted(w, k)) =>
               \E j \in 1 .. Len(e) : Writes(e[j], k)
    BY <1>3, <2>2, EffectsStart
  <2> QED
    BY <2>1, <2>3
<1>5. /\ e \in Seq(Script)
      /\ \A j \in 1 .. Len(e) : Started(e[j], w) /\ ~e[j].form
  BY <1>4, BackgroundStarted
<1>6. /\ Click /\ view' = w /\ scripts' = scripts \o e
      /\ signedIn' = signedIn /\ busy' = busy
  BY <1>1, <1>2, Zenon DEF Select
<1>7. scripts \in Seq(Script) /\ busy \in BOOLEAN
  BY DEF Inv, ScriptsInv, TypeOK
<1>8. OneForm(scripts \o e, busy)
  <2>1. OneForm(scripts, busy)
    BY FormInvIs DEF Inv
  <2> QED
    BY <1>5, <1>7, <2>1, JoinedForm
<1>9. \A k \in Selective : signedIn /\ Wanted(w, k) # 0 /\ Wanted(w, k) # Wanted(view, k) =>
        \E j \in 1 .. Len(e) : Writes(e[j], k)
  BY <1>1, <1>4
<1> QED
  BY <1>5, <1>6, <1>7, <1>8, <1>9, StartedStep

LEMMA SelectProjectStep ==
  ASSUME Inv, SelectProject
  PROVE  Inv'
<1>1. PICK p \in view.projects \cup {0} : Select([view EXCEPT !.project = p])
  BY DEF SelectProject
<1>2. PICK w : w = [view EXCEPT !.project = p]
  OBVIOUS
<1>3. /\ view \in View /\ view.projects \subseteq exists /\ exists \subseteq Project
      /\ view.queue \in view.queues \cup {0}
  BY DEF Inv, ScriptsInv, TypeOK, QueueIsListed
<1>4. /\ w \in View /\ w.project \in exists \cup {0} /\ w.projects \subseteq exists
      /\ w.queue \in w.queues \cup {0}
      /\ \A k \in Selective : Shown(w, k) = Shown(view, k)
  BY <1>2, <1>3 DEF View, Shown
<1>5. Select(w)
  BY <1>1, <1>2
<1> QED
  BY <1>4, <1>5, SelectStep

LEMMA SelectQueueStep ==
  ASSUME Inv, SelectQueue
  PROVE  Inv'
<1>1. PICK q \in view.queues \cup {0} : Select([view EXCEPT !.queue = q])
  BY DEF SelectQueue
<1>2. PICK w : w = [view EXCEPT !.queue = q]
  OBVIOUS
<1>3. /\ view \in View /\ view.projects \subseteq exists /\ view.project \in exists \cup {0}
  BY DEF Inv, ScriptsInv, TypeOK
<1>4. /\ w \in View /\ w.project \in exists \cup {0} /\ w.projects \subseteq exists
      /\ w.queue \in w.queues \cup {0}
      /\ \A k \in Selective : Shown(w, k) = Shown(view, k)
  BY <1>2, <1>3 DEF View, Shown
<1>5. Select(w)
  BY <1>1, <1>2
<1> QED
  BY <1>4, <1>5, SelectStep

LEMMA SignOutStep ==
  ASSUME Inv, SignOut
  PROVE  Inv'
<1>1. /\ exists' = exists /\ owner' = owner /\ tainted' = tainted
      /\ actions' \in 0 .. MaxActions
  BY ClickKeeps DEF Inv, SignOut
<1>2. ~signedIn' /\ signedIn' \in BOOLEAN /\ view' = view /\ busy' = busy /\ scripts' = scripts
  BY DEF SignOut
<1>3. ScriptsInv'
  <2>1. TypeOK'
    BY <1>1, <1>2 DEF Inv, ScriptsInv, TypeOK
  <2>2. \A j \in 1 .. Len(scripts') : ScriptOK(scripts[j])'
    BY <1>1, <1>2 DEF Inv, ScriptsInv, ScriptOK
  <2> QED
    BY <1>1, <1>2, <2>1, <2>2 DEF Inv, ScriptsInv, QueueIsListed
<1>4. FormInv'
  BY <1>2 DEF Inv, FormInv
<1>5. ViewInv'
  BY <1>2 DEF Inv, ViewInv
<1> QED
  BY <1>3, <1>4, <1>5 DEF Inv

\* A button starts a script of its own, or the load of the selection.
LEMMA BackgroundStep ==
  ASSUME Inv, NEW e \in Seq(Background(view)), Start(e), busy' = busy
  PROVE  Inv'
<1>1. PICK w : w = view
  OBVIOUS
<1>2. /\ w \in View /\ w.project \in exists \cup {0} /\ w.projects \subseteq exists
      /\ w.queue \in w.queues \cup {0} /\ scripts \in Seq(Script) /\ busy \in BOOLEAN
  BY <1>1 DEF Inv, ScriptsInv, TypeOK, QueueIsListed
<1>3. Click /\ view' = w /\ scripts' = scripts \o e /\ signedIn' = signedIn
  BY <1>1 DEF Start
<1>4. /\ e \in Seq(Script)
      /\ \A j \in 1 .. Len(e) : Started(e[j], w) /\ ~e[j].form
  BY <1>1, BackgroundStarted
<1>5. OneForm(scripts \o e, busy)
  <2>1. OneForm(scripts, busy)
    BY FormInvIs DEF Inv
  <2> QED
    BY <1>2, <1>4, <2>1, JoinedForm
<1> QED
  BY <1>1, <1>2, <1>3, <1>4, <1>5, StartedStep

LEMMA SubmitStep ==
  ASSUME Inv, NEW x, GoodSteps(x), Submit(x)
  PROVE  Inv'
<1>1. PICK w : w = view
  OBVIOUS
<1>2. /\ w \in View /\ w.project \in exists \cup {0} /\ w.projects \subseteq exists
      /\ w.queue \in w.queues \cup {0} /\ scripts \in Seq(Script) /\ busy \in BOOLEAN
  BY <1>1 DEF Inv, ScriptsInv, TypeOK, QueueIsListed
<1>3. PICK s : s = New(x, w.project, w.queue, TRUE)
  OBVIOUS
<1>4. Started(s, w) /\ s.form
  <2>1. PICK form \in BOOLEAN : form = TRUE
    BY Zenon
  <2>2. s = New(x, w.project, w.queue, form)
    BY <1>3, <2>1, Zenon
  <2>3. Started(s, w) /\ s.form = form
    BY <1>2, <2>2, CapturesSelection
  <2> QED
    BY <2>1, <2>3, Zenon
<1>5. s \in Script
  BY <1>4 DEF Started, ScriptOK
<1>6. PICK e : e = <<s>>
  OBVIOUS
<1>7. e \in Seq(Script) /\ \A j \in 1 .. Len(e) : Started(e[j], w)
  BY <1>4, <1>5, <1>6
<1>8. /\ Click /\ view' = w /\ scripts' = scripts \o e /\ signedIn' = signedIn
      /\ ~busy /\ busy' = TRUE
  BY <1>1, <1>3, <1>6, Zenon DEF Submit, Start
<1>9. OneForm(scripts \o e, busy')
  <2>1. OneForm(scripts, busy)
    BY FormInvIs DEF Inv
  <2>2. OneForm(scripts, FALSE)
    BY <1>8, <2>1 DEF OneForm
  <2>3. OneForm(scripts \o <<s>>, TRUE)
    BY <1>2, <1>4, <1>5, <2>2, JoinedOneForm
  <2> QED
    BY <1>6, <1>8, <2>3
<1> QED
  BY <1>1, <1>2, <1>7, <1>8, <1>9, StartedStep

\* A script of its own that captures the selection.
LEMMA OwnScript ==
  ASSUME Inv, NEW x, GoodSteps(x)
  PROVE  <<New(x, view.project, view.queue, FALSE)>> \in Seq(Background(view))
<1>1. PICK v : v = view
  OBVIOUS
<1>2. v \in View /\ v.project \in exists \cup {0}
  BY <1>1 DEF Inv, ScriptsInv, TypeOK
<1>3. PICK s : s = New(x, v.project, v.queue, FALSE)
  OBVIOUS
<1>4. Started(s, v) /\ ~s.form
  <2>1. PICK form \in BOOLEAN : form = FALSE
    BY Zenon
  <2>2. s = New(x, v.project, v.queue, form)
    BY <1>3, <2>1, Zenon
  <2>3. Started(s, v) /\ s.form = form
    BY <1>2, <2>2, CapturesSelection
  <2> QED
    BY <2>1, <2>3, Zenon
<1>5. s \in Background(v)
  BY <1>4, Zenon DEF Background, Started, ScriptOK
<1>6. <<s>> \in Seq(Background(v))
  BY <1>5
<1> QED
  BY <1>1, <1>3, <1>6, Zenon

LEMMA NextStep ==
  ASSUME Inv, [Next]_vars
  PROVE  Inv'
<1>1. CASE \E i \in 1 .. Len(scripts) : Answer(i) \/ Deliver(i) \/ Fail(i)
  BY <1>1, AnswerStep, DeliverStep, FailStep
<1>2. CASE SelectProject \/ SelectQueue \/ SignOut
  BY <1>2, SelectProjectStep, SelectQueueStep, SignOutStep
<1>3. CASE SubmitAuth
  <2>1. GoodSteps(<<"auth">>)
    BY OneStep DEF Request
  <2> QED
    BY <1>3, <2>1, SubmitStep DEF SubmitAuth
<1>4. CASE Refresh
  <2>1. PICK v : v = view
    OBVIOUS
  <2>2. v \in View /\ v.project \in exists \cup {0}
    BY <2>1 DEF Inv, ScriptsInv, TypeOK
  <2>3. Load(v.project, v.queue) \in Seq(Background(v))
    BY <2>2, LoadStarts
  <2>4. PICK e : e = Load(v.project, v.queue)
    OBVIOUS
  <2>5. e \in Seq(Background(view))
    BY <2>1, <2>3, <2>4
  <2>6. Start(e) /\ busy' = busy
    BY <1>4, <2>1, <2>4 DEF Refresh
  <2> QED
    BY <2>5, <2>6, BackgroundStep
<1>5. CASE CreateProject
  <2>1. GoodSteps(<<"postProject", "projects">>)
    BY TwoSteps DEF Request, Display
  <2> QED
    BY <1>5, <2>1, SubmitStep DEF CreateProject
<1>6. CASE CreateQueue
  <2>1. GoodSteps(<<"postQueue", "queues">>)
    BY TwoSteps DEF Request, Display
  <2> QED
    BY <1>6, <2>1, SubmitStep DEF CreateQueue
<1>7. CASE CreateJob
  <2>1. PICK x : x = <<"post">> \o Operational(view.project, view.queue)
    OBVIOUS
  <2>2. GoodSteps(x)
    BY <2>1, OperationalSteps
  <2>3. Submit(x)
    BY <1>7, <2>1 DEF CreateJob
  <2> QED
    BY <2>2, <2>3, SubmitStep
<1>8. CASE ToggleQueue
  <2>1. PICK x : x = <<"post">> \o (IF view.project = 0 THEN <<>> ELSE <<"queues">>)
    OBVIOUS
  <2>2. GoodSteps(x)
    <3>1. "post" \in Request /\ "queues" \in Request
      BY DEF Request, Display
    <3>2. <<"post">> \in Seq(Request)
      BY <3>1
    <3>3. <<"post">> \o <<>> = <<"post">>
      BY <3>2, ConcatEmptySeq
    <3>4. <<"post">> \o <<"queues">> = <<"post", "queues">>
      BY <3>1, PairOfSteps
    <3>5. GoodSteps(<<"post">>) /\ GoodSteps(<<"post", "queues">>)
      BY <3>1, OneStep, TwoSteps
    <3> QED
      BY <2>1, <3>3, <3>4, <3>5
  <2>3. PICK e : e = <<New(x, view.project, view.queue, FALSE)>>
    OBVIOUS
  <2>4. Start(e) /\ busy' = busy
    BY <1>8, <2>1, <2>3, Zenon DEF ToggleQueue
  <2>5. e \in Seq(Background(view))
    BY <2>2, <2>3, OwnScript
  <2> QED
    BY <2>4, <2>5, BackgroundStep
<1>9. CASE RetryDlq
  <2>1. PICK x : x = <<"post">> \o Operational(view.project, view.queue)
    OBVIOUS
  <2>2. GoodSteps(x)
    BY <2>1, OperationalSteps
  <2>3. PICK e : e = <<New(x, view.project, view.queue, FALSE)>>
    OBVIOUS
  <2>4. Start(e) /\ busy' = busy
    BY <1>9, <2>1, <2>3, Zenon DEF RetryDlq
  <2>5. e \in Seq(Background(view))
    BY <2>2, <2>3, OwnScript
  <2> QED
    BY <2>4, <2>5, BackgroundStep
<1>10. CASE UNCHANGED vars
  <2>1. ScriptsInv'
    BY <1>10 DEF vars, Inv, ScriptsInv, TypeOK, ScriptOK, QueueIsListed
  <2>2. FormInv'
    BY <1>10 DEF vars, Inv, FormInv
  <2>3. ViewInv'
    BY <1>10 DEF vars, Inv, ViewInv
  <2> QED
    BY <2>1, <2>2, <2>3 DEF Inv
<1> QED
  BY <1>1, <1>2, <1>3, <1>4, <1>5, <1>6, <1>7, <1>8, <1>9, <1>10 DEF Next

LEMMA InitInv == Init => Inv
<1> SUFFICES ASSUME Init PROVE Inv
  OBVIOUS
<1>1. EmptyView \in View /\ EmptyView.project = 0 /\ EmptyView.projects = {} /\ EmptyView.queue = 0
  BY DEF EmptyView, View
<1>2. PICK on \in BOOLEAN : on = signedIn
  BY Zenon DEF Init
<1>3. PICK v, e : v = EmptyView /\ e = Effects(on, v, TRUE, v)
  OBVIOUS
<1>4. e \in Seq(Background(v))
  <2>1. PICK fresh \in BOOLEAN : fresh = TRUE
    BY Zenon
  <2>2. e = Effects(on, v, fresh, v)
    BY <1>3, <2>1, Zenon
  <2>3. v \in View /\ v.project \in exists \cup {0}
    BY <1>1, <1>3
  <2> QED
    BY <2>2, <2>3, EffectsStart
<1>5. /\ e \in Seq(Script)
      /\ \A j \in 1 .. Len(e) : Started(e[j], v) /\ ScriptOK(e[j]) /\ ~e[j].form
  BY <1>4, BackgroundStarted
<1>6. /\ exists \subseteq Project /\ owner \in [Queue -> exists \cup {0}]
      /\ signedIn \in BOOLEAN /\ view = v /\ busy = FALSE /\ tainted = {} /\ actions = 0
  BY <1>3 DEF Init
<1>7. scripts = e
  BY <1>2, <1>3, Zenon DEF Init
<1>8. ScriptsInv
  <2>1. TypeOK
    <3>1. actions \in 0 .. MaxActions
      BY <1>6, DashboardAssumption
    <3>2. busy \in BOOLEAN /\ tainted \subseteq Display
      BY <1>6
    <3>3. view \in View /\ scripts \in Seq(Script)
      BY <1>1, <1>3, <1>5, <1>6, <1>7
    <3> QED
      BY <1>6, <3>1, <3>2, <3>3 DEF TypeOK
  <2> QED
    BY <1>1, <1>3, <1>5, <1>6, <1>7, <2>1 DEF ScriptsInv, QueueIsListed
<1>9. FormInv
  BY <1>5, <1>6, <1>7 DEF FormInv
<1>10. ViewInv
  <2>1. Ordered(e)
    BY <1>5 DEF Ordered, Started
  <2>2. \A k \in Selective : Wanted(v, k) = 0
    BY <1>1, <1>3 DEF Wanted
  <2> QED
    BY <1>6, <1>7, <2>1, <2>2 DEF ViewInv
<1> QED
  BY <1>8, <1>9, <1>10 DEF Inv

-----------------------------------------------------------------------------
(* Theorems                                                                *)

(***************************************************************************)
(* The inductive invariant: scripts are well formed, one form at most is   *)
(* worked on, and for every display the youngest script that is not behind *)
(* asked for what is selected, or what is selected is shown, or the        *)
(* display is tainted.                                                     *)
(***************************************************************************)
THEOREM DashboardInvariant == Spec => []Inv
<1>1. Inv /\ [Next]_vars => Inv'
  BY NextStep
<1> QED
  BY InitInv, <1>1, PTL DEF Spec

(***************************************************************************)
(* The state of the component and of the functions in progress has its     *)
(* type, whatever order replies come in.                                   *)
(***************************************************************************)
THEOREM TypeCorrect == Spec => []TypeOK
<1>1. Inv => TypeOK
  BY DEF Inv, ScriptsInv
<1> QED
  BY <1>1, DashboardInvariant, PTL

(***************************************************************************)
(* The selected queue is in the list that is shown, whichever list arrives *)
(* last: the updater of setSelectedQueueId looks at the list it is with.   *)
(***************************************************************************)
THEOREM QueueIsListedHolds == Spec => []QueueIsListed
<1>1. Inv => QueueIsListed
  BY DEF Inv, ScriptsInv
<1> QED
  BY <1>1, DashboardInvariant, PTL

(***************************************************************************)
(* The forms are disabled while exactly one submission is under way, for   *)
(* any number of functions in progress: setBusy(true) is done by a form    *)
(* that was enabled, and `finally' undoes it once.                         *)
(***************************************************************************)
THEOREM BusyWithOneFormHolds == Spec => []BusyWithOneForm
<1>1. ASSUME Inv
      PROVE  BusyWithOneForm
  <2> DEFINE S == {i \in 1 .. Len(scripts) : scripts[i].form}
  <2>1. BusyWithOneForm <=> Cardinality(S) = IF busy THEN 1 ELSE 0
    BY DEF BusyWithOneForm, Quantify
  <2>2. CASE busy
    <3>1. PICK i \in 1 .. Len(scripts) : scripts[i].form
      BY <1>1, <2>2 DEF Inv, FormInv
    <3>2. S = {i}
      BY <1>1, <3>1 DEF Inv, FormInv
    <3>3. Cardinality({i}) = 1
      BY FS_Singleton
    <3> QED
      BY <2>1, <2>2, <3>2, <3>3
  <2>3. CASE ~busy
    <3>1. S = {}
      BY <1>1, <2>3 DEF Inv, FormInv
    <3>2. Cardinality({}) = 0
      BY FS_EmptySet
    <3> QED
      BY <2>1, <2>3, <3>1, <3>2
  <2> QED
    BY <2>2, <2>3
<1> QED
  BY <1>1, DashboardInvariant, PTL

(***************************************************************************)
(* The dependencies of the effects miss no change of a selection: with any *)
(* number of functions in progress, a display that the function started    *)
(* last wrote last shows what is selected.  An older function that writes  *)
(* last, a form's reload with the selection it captured among them, may    *)
(* leave it showing something else.                                        *)
(***************************************************************************)
THEOREM ViewMatchesHolds == Spec => []ViewMatches
<1>1. ASSUME Inv, signedIn, NEW k \in Selective, UpToDate(k), Wanted(view, k) # 0
      PROVE  Shown(view, k) = Wanted(view, k)
  <2>1. Matches(scripts, view, tainted, k)
    BY <1>1 DEF Inv, ViewInv
  <2>2. k \notin tainted /\ \A i \in 1 .. Len(scripts) : ~Current(scripts[i], k)
    BY <1>1 DEF UpToDate, Current
  <2> QED
    BY <2>1, <2>2 DEF Matches
<1>2. ASSUME Inv
      PROVE  ViewMatches
  <2>1. {"queues", "dlq", "stats"} \subseteq Selective
    BY DEF Selective
  <2>2. signedIn /\ UpToDate("queues") /\ view.project # 0 => view.queuesOf = view.project
    BY <1>1, <1>2, <2>1 DEF Shown, Wanted
  <2>3. signedIn /\ UpToDate("dlq") /\ view.project # 0 => view.dlqOf = view.project
    BY <1>1, <1>2, <2>1 DEF Shown, Wanted
  <2>4. signedIn /\ UpToDate("stats") /\ view.queue # 0 => view.statsOf = view.queue
    BY <1>1, <1>2, <2>1 DEF Shown, Wanted
  <2> QED
    BY <2>2, <2>3, <2>4 DEF ViewMatches
<1> QED
  BY <1>2, DashboardInvariant, PTL

=============================================================================
