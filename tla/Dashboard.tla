------------------------------- MODULE Dashboard -------------------------------
(***************************************************************************)
(* The dashboard in one browser (frontend/src/App.tsx) and the endpoints   *)
(* it reads from.  Every load and every form is an async function that     *)
(* awaits one request after the other and writes what it got into the      *)
(* state of the component; nothing cancels it when the selection changes   *)
(* or the user signs out, and replies come in any order.                   *)
(*                                                                         *)
(* Such a function in progress is a script: the requests it still has to   *)
(* make, with the selection its closure captured.                          *)
(***************************************************************************)
EXTENDS Naturals, Sequences, FiniteSetsExt, SequencesExt

CONSTANTS
  NumProjects,  \* bound: projects, numbered in the order of their names
  NumQueues,    \* bound: queues, likewise
  MaxActions    \* bound: clicks of the user

ASSUME DashboardAssumption ==
  NumProjects \in Nat /\ NumQueues \in Nat /\ MaxActions \in Nat

Project == 1 .. NumProjects
Queue == 1 .. NumQueues

VARIABLES
  exists,    \* server: projects of the user
  owner,     \* server: the project of each queue, 0 if there is no such queue
  signedIn,  \* is there a token?
  view,      \* the component's state: what is selected and what is shown
  busy,      \* are the forms disabled?
  scripts,   \* async functions in progress, oldest first
  tainted,   \* displays whose last word was not the youngest script's
  actions    \* clicks so far

vars == <<exists, owner, signedIn, view, busy, scripts, tainted, actions>>

\* What a script can bring up to date.
Display == {"projects", "queues", "dlq", "stats"}

Request == Display \cup {"auth", "post", "postProject", "postQueue"}

\* Requests whose effect on the server, or whose list, this module has.
Served == {"projects", "queues", "postProject", "postQueue"}

\* dlqOf, statsOf and queuesOf say whose entries, statistics and queues are shown.
View == [project : Project \cup {0}, projects : SUBSET Project,
         queue : Queue \cup {0}, queues : SUBSET Queue, queuesOf : Project \cup {0},
         dlqOf : Project \cup {0}, statsOf : Queue \cup {0}]

Script == [steps : Seq(Request), project : Project \cup {0}, queue : Queue \cup {0},
           form : BOOLEAN,                 \* did it disable the forms?
           answered : BOOLEAN,             \* is there a reply to the first step?
           data : SUBSET (Project \cup Queue),  \* the list in that reply
           behind : SUBSET Display]        \* displays a younger script was done with first

TypeOK ==
  /\ exists \subseteq Project
  /\ owner \in [Queue -> exists \cup {0}]
  /\ signedIn \in BOOLEAN
  /\ view \in View
  /\ busy \in BOOLEAN
  /\ scripts \in Seq(Script)
  /\ tainted \subseteq Display
  /\ actions \in 0 .. MaxActions

-----------------------------------------------------------------------------
(* Scripts and effects                                                     *)

New(steps, p, q, form) ==
  [steps |-> steps, project |-> p, queue |-> q, form |-> form,
   answered |-> FALSE, data |-> {}, behind |-> {}]

\* loadOperationalData: the metrics, which depend on no selection and are left
\* out, then the DLQ and the statistics if there is something to ask for.
Operational(p, q) ==
  (IF p = 0 THEN <<>> ELSE <<"dlq">>) \o (IF q = 0 THEN <<>> ELSE <<"stats">>)

Load(p, q) ==
  IF p = 0 /\ q = 0 THEN <<>> ELSE <<New(Operational(p, q), p, q, FALSE)>>

\* Mutant of Effects: the dependencies of the third effect lack the queue.
EffectsWithoutQueue(on, v, fresh, w) ==
  LET newProject == fresh \/ v.project # w.project
  IN  IF ~on THEN <<>>
      ELSE (IF fresh THEN <<New(<<"projects">>, 0, 0, FALSE)>> ELSE <<>>)
        \o (IF newProject /\ w.project # 0
              THEN <<New(<<"queues">>, w.project, 0, FALSE)>> ELSE <<>>)
        \o (IF newProject THEN Load(w.project, w.queue) ELSE <<>>)

\* The three effects, after the state went from v to w; on is the token's
\* presence afterwards and fresh says whether it has changed.
Effects(on, v, fresh, w) ==
  LET newProject == fresh \/ v.project # w.project
      newQueue == v.queue # w.queue
  IN  IF ~on THEN <<>>
      ELSE (IF fresh THEN <<New(<<"projects">>, 0, 0, FALSE)>> ELSE <<>>)
        \o (IF newProject /\ w.project # 0
              THEN <<New(<<"queues">>, w.project, 0, FALSE)>> ELSE <<>>)
        \o (IF newProject \/ newQueue THEN Load(w.project, w.queue) ELSE <<>>)

EmptyView == [project |-> 0, projects |-> {}, queue |-> 0, queues |-> {},
              queuesOf |-> 0, dlqOf |-> 0, statsOf |-> 0]

\* The page is opened, with a token in localStorage or without; the server has
\* whatever was created before.
Init ==
  /\ exists \in SUBSET Project
  /\ owner \in [Queue -> exists \cup {0}]
  /\ signedIn \in BOOLEAN
  /\ view = EmptyView
  /\ busy = FALSE
  /\ scripts = Effects(signedIn, EmptyView, TRUE, EmptyView)
  /\ tainted = {}
  /\ actions = 0

-----------------------------------------------------------------------------
(* Replies                                                                 *)

First(S) == IF S = {} THEN 0 ELSE Min(S)

\* Mutant of KeepOrFirst: as for projects, any current selection is kept.
KeepOrFirstAny(current, S) == IF current # 0 THEN current ELSE First(S)

\* The updater of setSelectedQueueId.
KeepOrFirst(current, S) == IF current \in S THEN current ELSE First(S)

\* What the reply to step k of script s does to the state.
Apply(s, k) ==
  CASE k = "projects" ->
         [view EXCEPT !.projects = s.data,
                      !.project = IF @ # 0 THEN @ ELSE First(s.data)]
    [] k = "queues" ->
         [view EXCEPT !.queues = s.data, !.queuesOf = s.project,
                      !.queue = KeepOrFirst(@, s.data)]
    [] k = "dlq" -> [view EXCEPT !.dlqOf = s.project]
    [] k = "stats" -> [view EXCEPT !.statsOf = s.queue]
    [] OTHER -> view

\* The server executes the request script i waits for, and its reply is data.
Reply(i, k, data) ==
  /\ Head(scripts[i].steps) = k
  /\ ~scripts[i].answered
  /\ scripts' = [scripts EXCEPT ![i].answered = TRUE, ![i].data = data]
  /\ UNCHANGED <<signedIn, view, busy, tainted, actions>>

QueuesOf(p) == {q \in Queue : owner[q] = p}

ListProjects(i) == Reply(i, "projects", exists) /\ UNCHANGED <<exists, owner>>

ListQueues(i) == Reply(i, "queues", QueuesOf(scripts[i].project)) /\ UNCHANGED <<exists, owner>>

StoreProject(i) ==
  /\ Reply(i, "postProject", {})
  /\ \E p \in Project \ exists : exists' = exists \cup {p}
  /\ UNCHANGED owner

StoreQueue(i) ==
  /\ Reply(i, "postQueue", {})
  /\ \E q \in QueuesOf(0) : owner' = [owner EXCEPT ![q] = scripts[i].project]
  /\ UNCHANGED exists

Answer(i) == ListProjects(i) \/ ListQueues(i) \/ StoreProject(i) \/ StoreQueue(i)

\* Older scripts that still have one of the displays ks to write are behind.
Overtake(i, ks) ==
  [j \in 1 .. Len(scripts) |->
     IF j < i THEN [scripts[j] EXCEPT !.behind = @ \cup (ks \cap Display)] ELSE scripts[j]]

\* A reply is awaited no more: the state is written, the effects run, and the
\* script goes on with its next request or ends, and enables the forms again.
Deliver(i) ==
  LET s == scripts[i]
      k == Head(s.steps)
      w == Apply(s, k)
      on == signedIn \/ k = "auth"
      rest == [s EXCEPT !.steps = Tail(@), !.answered = FALSE, !.data = {}]
      past == Overtake(i, {k})
      left == IF Len(s.steps) = 1 THEN RemoveAt(past, i) ELSE ReplaceAt(past, i, rest)
  IN
  /\ k \in Served => s.answered
  /\ view' = w
  /\ signedIn' = on
  /\ scripts' = left \o Effects(on, view, on # signedIn, w)
  /\ busy' = (busy /\ ~(s.form /\ Len(s.steps) = 1))
  /\ tainted' = IF k \in s.behind THEN tainted \cup {k} ELSE tainted \ {k}
  /\ UNCHANGED <<exists, owner, actions>>

\* Mutant of Fail: `finally' is missing.
FailStaysBusy(i) ==
  LET s == scripts[i]
      ks == {s.steps[n] : n \in 1 .. Len(s.steps)}
  IN
  /\ scripts' = RemoveAt(Overtake(i, ks), i)
  /\ tainted' = tainted \cup ((ks \cap Display) \ s.behind)
  /\ UNCHANGED <<exists, owner, signedIn, view, busy, actions>>

\* A request fails (the network, an expired token, the rate limit, no role):
\* the function throws, what it had still to load is not loaded.
Fail(i) ==
  LET s == scripts[i]
      ks == {s.steps[n] : n \in 1 .. Len(s.steps)}
  IN
  /\ scripts' = RemoveAt(Overtake(i, ks), i)
  /\ busy' = (busy /\ ~s.form)
  /\ tainted' = tainted \cup ((ks \cap Display) \ s.behind)
  /\ UNCHANGED <<exists, owner, signedIn, view, actions>>

-----------------------------------------------------------------------------
(* Clicks                                                                  *)

Click ==
  /\ actions < MaxActions
  /\ actions' = actions + 1
  /\ UNCHANGED <<exists, owner, tainted>>

Select(w) ==
  /\ signedIn
  /\ Click
  /\ w # view
  /\ view' = w
  /\ scripts' = scripts \o Effects(TRUE, view, FALSE, w)
  /\ UNCHANGED <<signedIn, busy>>

SelectProject == \E p \in view.projects \cup {0} : Select([view EXCEPT !.project = p])

SelectQueue == \E q \in view.queues \cup {0} : Select([view EXCEPT !.queue = q])

SignOut ==
  /\ signedIn
  /\ Click
  /\ signedIn' = FALSE
  /\ UNCHANGED <<view, busy, scripts>>

\* A button starts script s.
Start(s) ==
  /\ Click
  /\ scripts' = scripts \o s
  /\ UNCHANGED <<signedIn, view>>

\* A form is submitted: setBusy(true).
Submit(steps) ==
  /\ ~busy
  /\ busy' = TRUE
  /\ Start(<<New(steps, view.project, view.queue, TRUE)>>)

SubmitAuth == ~signedIn /\ Submit(<<"auth">>)

Refresh == signedIn /\ view.project + view.queue # 0 /\ Start(Load(view.project, view.queue)) /\ UNCHANGED busy

CreateProject == signedIn /\ Submit(<<"postProject", "projects">>)

CreateQueue == signedIn /\ view.project # 0 /\ Submit(<<"postQueue", "queues">>)

CreateJob ==
  signedIn /\ view.queue # 0 /\ Submit(<<"post">> \o Operational(view.project, view.queue))

\* The button is there when the selected queue is in the list.
ToggleQueue ==
  /\ signedIn
  /\ view.queue \in view.queues
  /\ Start(<<New(<<"post">> \o (IF view.project = 0 THEN <<>> ELSE <<"queues">>),
                 view.project, view.queue, FALSE)>>)
  /\ UNCHANGED busy

RetryDlq ==
  /\ signedIn
  /\ view.dlqOf # 0
  /\ Start(<<New(<<"post">> \o Operational(view.project, view.queue),
                 view.project, view.queue, FALSE)>>)
  /\ UNCHANGED busy

Next ==
  \/ \E i \in 1 .. Len(scripts) : Answer(i) \/ Deliver(i) \/ Fail(i)
  \/ SelectProject \/ SelectQueue \/ SignOut \/ SubmitAuth \/ Refresh
  \/ CreateProject \/ CreateQueue \/ CreateJob \/ ToggleQueue \/ RetryDlq

\* Every request is answered or fails, and the browser gets to every reply; the
\* number of requests is bounded by the clicks, so none waits for ever.
Fairness == WF_vars(\E i \in 1 .. Len(scripts) : Answer(i) \/ Deliver(i) \/ Fail(i))

Spec == Init /\ [][Next]_vars

FairSpec == Spec /\ Fairness

-----------------------------------------------------------------------------
(* Properties                                                              *)

(***************************************************************************)
(* The selected queue is one of the queues in the list, whichever list     *)
(* arrives last: jobs are not submitted to a queue the user cannot see.    *)
(***************************************************************************)
QueueIsListed == view.queue \in view.queues \cup {0}

(***************************************************************************)
(* The forms are disabled while exactly one of them is being worked on,    *)
(* signing out in between included.                                        *)
(***************************************************************************)
BusyWithOneForm ==
  Quantify(1 .. Len(scripts), LAMBDA i : scripts[i].form) = IF busy THEN 1 ELSE 0

\* Script s has still to write display k.
Writes(s, k) == \E n \in 1 .. Len(s.steps) : s.steps[n] = k

\* No script will write display k any more, and the youngest wrote it last.
UpToDate(k) ==
  /\ k \notin tainted
  /\ \A i \in 1 .. Len(scripts) : ~Writes(scripts[i], k)

(***************************************************************************)
(* The effects miss no change of the selection: a display that no function *)
(* in progress will write, and that the function started last wrote last,  *)
(* shows what is selected.  Nothing is said of a display whose last writer *)
(* is an older function, and there the code does show the wrong data:      *)
(* after replies that overtake each other, and, with every reply in order, *)
(* when a form or a button reloads with the selection its closure captured *)
(* at the click although the user has selected something else since.  Nor  *)
(* is anything said after a failed request.                                *)
(***************************************************************************)
ViewMatches ==
  signedIn =>
    /\ UpToDate("queues") /\ view.project # 0 => view.queuesOf = view.project
    /\ UpToDate("dlq") /\ view.project # 0 => view.dlqOf = view.project
    /\ UpToDate("stats") /\ view.queue # 0 => view.statsOf = view.queue

(***************************************************************************)
(* Whatever fails, the forms can be used again.                            *)
(***************************************************************************)
FormsUnlock == busy ~> ~busy
=============================================================================
