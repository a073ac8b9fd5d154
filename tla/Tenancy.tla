-------------------------------- MODULE Tenancy --------------------------------
(***************************************************************************)
(* Projects on top of Accounts: a request that carries a good access token *)
(* creates a project, with its organization and its first member, in one   *)
(* transaction.  The upsert of the organization locks its row until the    *)
(* transaction ends, so transactions on one organization wait for each     *)
(* other.                                                                  *)
(***************************************************************************)
EXTENDS Accounts

CONSTANTS
  Project,  \* projects, by organization and slug
  Org(_)    \* the organization of each

VARIABLES
  projects,  \* projects: the client that created each
  members,   \* project_members, all of them admins
  tx,        \* the transaction of create_project each client waits for
  created    \* projects answered with 201

tenancy == <<projects, members, tx, created>>
allVars == <<vars, tenancy>>

NoTx == [pc |-> "idle", project |-> NULL]

TenancyTypeOK ==
  /\ TypeOK
  /\ projects \in [Project -> Client \cup {NULL}]
  /\ members \subseteq Project \X Client
  /\ tx \in [Client -> [pc : {"idle", "org", "project", "member", "commit"},
                        project : Project \cup {NULL}]]
  /\ created \subseteq Client \X Project

TenancyInit ==
  /\ Init
  /\ projects = [p \in Project |-> NULL]
  /\ members = {}
  /\ tx = [c \in Client |-> NoTx]
  /\ created = {}

\* auth_middleware: the signature and the expiry, and nothing in the database.
\* The project is the user's the token was minted for.
Authorized(c) ==
  \E a \in Access : access[a] # 0 /\ sessions[access[a]].holder = c

CreateProject(c) ==
  /\ request[c].op = "idle"
  /\ tx[c] = NoTx
  /\ Authorized(c)
  /\ \E p \in Project : tx' = [tx EXCEPT ![c] = [pc |-> "org", project |-> p]]
  /\ UNCHANGED <<vars, projects, members, created>>

Locked(o) ==
  \E d \in Client : tx[d].pc \in {"project", "member", "commit"} /\ Org(tx[d].project) = o

UpsertOrg(c) ==
  /\ tx[c].pc = "org"
  /\ ~Locked(Org(tx[c].project))
  /\ tx' = [tx EXCEPT ![c].pc = "project"]
  /\ UNCHANGED <<vars, projects, members, created>>

\* Mutant of Taken: an upsert, as for the organization.
TakenNever(p) == FALSE

\* UNIQUE (organization_id, slug).
Taken(p) == projects[p] # NULL

\* Mutant of InsertProject: the statement runs on the pool, outside the transaction.
InsertProjectOnPool(c) ==
  /\ tx[c].pc = "project"
  /\ ~Taken(tx[c].project)
  /\ projects' = [projects EXCEPT ![tx[c].project] = c]
  /\ tx' = [tx EXCEPT ![c].pc = "member"]
  /\ UNCHANGED <<vars, members, created>>

InsertProject(c) ==
  /\ tx[c].pc = "project"
  /\ ~Taken(tx[c].project)
  /\ tx' = [tx EXCEPT ![c].pc = "member"]
  /\ UNCHANGED <<vars, projects, members, created>>

\* Mutant of InsertConflict: the transaction is left open.
InsertConflictKeepsTx(c) ==
  /\ tx[c].pc = "project"
  /\ Taken(tx[c].project)
  /\ UNCHANGED allVars

\* The error drops the transaction, which rolls it back.
InsertConflict(c) ==
  /\ tx[c].pc = "project"
  /\ Taken(tx[c].project)
  /\ tx' = [tx EXCEPT ![c] = NoTx]
  /\ UNCHANGED <<vars, projects, members, created>>

InsertMember(c) ==
  /\ tx[c].pc = "member"
  /\ tx' = [tx EXCEPT ![c].pc = "commit"]
  /\ UNCHANGED <<vars, projects, members, created>>

\* What the transaction wrote becomes visible.
Commit(c) ==
  LET p == tx[c].project IN
  /\ tx[c].pc = "commit"
  /\ projects' = [projects EXCEPT ![p] = c]
  /\ members' = members \cup {<<p, c>>}
  /\ created' = created \cup {<<c, p>>}
  /\ tx' = [tx EXCEPT ![c] = NoTx]
  /\ UNCHANGED vars

\* A database error or a crash of the process before the commit.
Rollback(c) ==
  /\ tx[c] # NoTx
  /\ tx' = [tx EXCEPT ![c] = NoTx]
  /\ UNCHANGED <<vars, projects, members, created>>

ProjectStep(c) ==
  UpsertOrg(c) \/ InsertProject(c) \/ InsertConflict(c) \/ InsertMember(c) \/ Commit(c)

Next ==
  \/ (Step \/ \E c \in Client : tx[c] = NoTx /\ Send(c)) /\ UNCHANGED tenancy
  \/ \E c \in Client : CreateProject(c) \/ ProjectStep(c) \/ Rollback(c)

Spec == TenancyInit /\ [][Next]_allVars

\* PostgreSQL grants a row lock to waiters in turn, hence the strong fairness.
FairSpec ==
  /\ Spec
  /\ Progress
  /\ \A c \in Client : SF_allVars(ProjectStep(c))

-----------------------------------------------------------------------------
(* Properties                                                              *)

(***************************************************************************)
(* Every project has an admin, its creator: nobody else could give it one, *)
(* since no endpoint adds members.                                         *)
(***************************************************************************)
ProjectHasAdmin ==
  \A p \in Project : projects[p] # NULL => <<p, projects[p]>> \in members

(***************************************************************************)
(* Of the clients that create one project at the same time only one is     *)
(* told that it did, and it is that client's.                              *)
(***************************************************************************)
CreatedIsMine == \A c \in Client, p \in Project : <<c, p>> \in created => projects[p] = c

(***************************************************************************)
(* Transactions that wait for an organization's lock get it: every         *)
(* create_project request ends.                                            *)
(***************************************************************************)
ProjectsAnswered == \A c \in Client : tx[c] # NoTx ~> tx[c] = NoTx
=============================================================================
