------------------------------ MODULE TenancyProofs ------------------------------
(***************************************************************************)
(* Theorems about Accounts and Tenancy, for any number of clients,         *)
(* addresses, sessions, access tokens, projects and organizations, and any *)
(* window of the session look-up.                                          *)
(***************************************************************************)
EXTENDS Tenancy, FiniteSetTheorems, TLAPS

-----------------------------------------------------------------------------
(* The inductive invariants                                                *)

\* A request names what it is about: an address, or a session that exists.  One
\* that was sent late is about a logged out session and is still to look it up.
GoodRequest(r) ==
  /\ r.op \in {"register", "login"} => r.arg \in Email
  /\ r.op \in {"refresh", "logout"} => r.arg \in Session /\ sessions[r.arg].row # "absent"
  /\ r.late => r.arg \in loggedOut
  /\ ~(r.op = "refresh" /\ r.pc = "write" /\ r.late)

\* A session becomes active once, when it is created; only then it has a holder.
AccountsInv ==
  /\ TypeOK
  /\ \A c \in Client : GoodRequest(request[c])
  /\ \A s \in Session : sessions[s].row = "absent" => sessions[s].holder = NULL
  /\ \A s \in loggedOut : sessions[s].row \in {"revoked", "expired"}
  /\ RegistrationIsKept

\* The transaction of c holds the lock of its organization.
Holds(c) == tx[c].pc \in {"project", "member", "commit"}

\* An organization has one transaction at a time, so the slug that a transaction
\* has found free stays free until it commits.
TenancyInv ==
  /\ AccountsInv
  /\ TenancyTypeOK
  /\ \A c \in Client : tx[c].pc # "idle" => tx[c].project \in Project
  /\ \A c, d \in Client :
       Holds(c) /\ Holds(d) /\ Org(tx[c].project) = Org(tx[d].project) => c = d
  /\ \A c \in Client : tx[c].pc \in {"member", "commit"} => projects[tx[c].project] = NULL
  /\ ProjectHasAdmin
  /\ CreatedIsMine


-----------------------------------------------------------------------------
(* Requests                                                                *)

\* Sessions that exist go on existing, and a logout is not taken back.
SessionsKept ==
  /\ loggedOut \subseteq loggedOut'
  /\ \A s \in Session : sessions[s].row # "absent" => sessions'[s].row # "absent"

\* Requests that a step does not touch stay good.
LEMMA OthersGood ==
  ASSUME AccountsInv, SessionsKept, NEW c \in Client,
         \A d \in Client : d # c => request'[d] = request[d],
         GoodRequest(request[c])'
  PROVE  \A d \in Client : GoodRequest(request[d])'
  <1> SUFFICES ASSUME NEW d \in Client, d # c PROVE GoodRequest(request[d])'
    OBVIOUS
  <1>1. GoodRequest(request[d]) /\ request'[d] = request[d]
    BY DEF AccountsInv
  <1>2. QED
    BY <1>1 DEF GoodRequest, SessionsKept

\* All requests stay good if none is touched.
LEMMA AllGood ==
  ASSUME AccountsInv, SessionsKept, UNCHANGED request
  PROVE  \A d \in Client : GoodRequest(request[d])'
  BY DEF AccountsInv, GoodRequest, SessionsKept

\* A request that is answered leaves nothing behind.
LEMMA Replied ==
  ASSUME AccountsInv, SessionsKept, NEW c \in Client, Reply(c)
  PROVE  /\ request' \in [Client -> Request]
         /\ \A d \in Client : GoodRequest(request[d])'
  <1>1. /\ request' \in [Client -> Request] /\ request'[c] = Idle
        /\ \A d \in Client : d # c => request'[d] = request[d]
    <2>1. Idle \in Request
      BY DEF Idle, Request
    <2>2. QED
      BY <2>1 DEF Reply, AccountsInv, TypeOK
  <1>2. GoodRequest(request[c])'
    BY <1>1 DEF GoodRequest, Idle
  <1>3. QED
    BY <1>1, <1>2, OthersGood

\* A request that is sent is good.
LEMMA Asked ==
  ASSUME AccountsInv, NEW c \in Client, Send(c) PROVE AccountsInv'
  <1>1. PICK op \in {"register", "login", "refresh", "logout"}, arg \in Email \cup Session :
          /\ op \in {"register", "login"} => arg \in Email
          /\ op \in {"refresh", "logout"} => arg \in Session /\ sessions[arg].holder # NULL
          /\ Asks(c, op, arg)
    <2>1. \A s \in Session : Knows(c, s) => sessions[s].holder # NULL
      BY AccountsAssumption DEF Knows
    <2>2. QED
      BY <2>1 DEF Send
  <1>2. PICK late \in BOOLEAN : late = (arg \in loggedOut)
    <2>1. (arg \in loggedOut) \in BOOLEAN
      OBVIOUS
    <2>2. QED
      BY <2>1, Zenon
  <1> DEFINE r == [op |-> op, pc |-> "find", arg |-> arg, late |-> late]
  <1>3. /\ r \in Request /\ r.op = op /\ r.pc = "find" /\ r.arg = arg
        /\ r.late => arg \in loggedOut
    <2>1. r \in Request /\ r.op = op /\ r.pc = "find" /\ r.arg = arg /\ r.late = late
      BY <1>1 DEF Request
    <2>2. late => arg \in loggedOut
      BY <1>2
    <2>3. QED
      BY <2>1, <2>2
  <1>4. /\ request' \in [Client -> Request] /\ request'[c] = r
        /\ \A d \in Client : d # c => request'[d] = request[d]
        /\ UNCHANGED <<users, sessions, access, told, loggedOut>>
    <2>1. request' = [request EXCEPT ![c] = r]
      BY <1>1, <1>2 DEF Asks
    <2>2. UNCHANGED <<users, sessions, access, told, loggedOut>>
      BY <1>1 DEF Asks
    <2>3. request \in [Client -> Request]
      BY DEF AccountsInv, TypeOK
    <2>4. QED
      BY <1>3, <2>1, <2>2, <2>3
  <1>5. op \in {"refresh", "logout"} => sessions[arg].row # "absent"
    BY <1>1, AccountsAssumption DEF AccountsInv
  <1>6. GoodRequest(request[c])'
    BY <1>1, <1>3, <1>4, <1>5 DEF GoodRequest
  <1>7. \A d \in Client : GoodRequest(request[d])'
    BY <1>4, <1>6, OthersGood DEF SessionsKept
  <1>8. TypeOK'
    BY <1>4 DEF AccountsInv, TypeOK
  <1>9. QED
    BY <1>4, <1>7, <1>8 DEF AccountsInv, RegistrationIsKept

\* A look-up moves one request on or answers it; a late refresh is answered.
LEMMA Looked ==
  ASSUME AccountsInv, NEW c \in Client, NEW op \in {"register", "login", "refresh", "logout"},
         NEW found \in BOOLEAN, Find(c, op, found),
         op = "refresh" /\ found => request[c].arg \in Listed
  PROVE  AccountsInv'
  <1>1. UNCHANGED <<users, sessions, access, told, loggedOut>> /\ SessionsKept
    BY DEF Find, SessionsKept
  <1>2. request' \in [Client -> Request] /\ \A d \in Client : GoodRequest(request[d])'
    <2>1. CASE found
      <3>1. request[c] \in Request /\ request[c].op = op /\ GoodRequest(request[c])
        BY DEF AccountsInv, TypeOK, Find, At
      <3>2. request' = [request EXCEPT ![c] = [request[c] EXCEPT !.pc = "write"]]
        BY <2>1 DEF Find, AccountsInv, TypeOK
      <3>3. [request[c] EXCEPT !.pc = "write"] \in Request
        BY <3>1 DEF Request
      <3>4. /\ request' \in [Client -> Request]
            /\ request'[c].op = op /\ request'[c].arg = request[c].arg
            /\ request'[c].late = request[c].late
            /\ \A d \in Client : d # c => request'[d] = request[d]
        BY <3>1, <3>2, <3>3 DEF AccountsInv, TypeOK, Request
      <3>5. op = "refresh" => ~request[c].late
        <4> SUFFICES ASSUME op = "refresh", request[c].late PROVE FALSE
          OBVIOUS
        <4>1. sessions[request[c].arg].row = "active"
          BY <2>1 DEF Listed, Active
        <4>2. request[c].arg \in loggedOut
          BY <3>1 DEF GoodRequest
        <4>3. QED
          BY <4>1, <4>2 DEF AccountsInv
      <3>6. GoodRequest(request[c])'
        BY <1>1, <3>1, <3>4, <3>5 DEF GoodRequest
      <3>7. QED
        BY <1>1, <3>4, <3>6, OthersGood
    <2>2. CASE ~found
      <3>1. Reply(c)
        BY <2>2 DEF Find
      <3>2. QED
        BY <1>1, <3>1, Replied
    <2>3. QED
      BY <2>1, <2>2
  <1>3. TypeOK'
    BY <1>1, <1>2 DEF AccountsInv, TypeOK
  <1>4. QED
    BY <1>1, <1>2, <1>3 DEF AccountsInv, RegistrationIsKept

-----------------------------------------------------------------------------
(* Writes                                                                  *)

\* The INSERT into users adds a row for an address that has none.
LEMMA Registered ==
  ASSUME AccountsInv, NEW c \in Client, RegisterWrite(c) PROVE AccountsInv'
  <1>1. request[c].arg \in Email
    BY DEF AccountsInv, GoodRequest, RegisterWrite, At
  <1>2. PICK e \in Email : e = request[c].arg
    BY <1>1
  <1>3. Reply(c) /\ UNCHANGED <<sessions, access, loggedOut>>
    BY DEF RegisterWrite
  <1>4. request' \in [Client -> Request] /\ \A d \in Client : GoodRequest(request[d])'
    BY <1>3, Replied DEF SessionsKept
  <1>5. \/ UNCHANGED <<users, told>>
        \/ users[e] = NULL /\ users' = [users EXCEPT ![e] = c] /\ told' = told \cup {<<c, e>>}
    BY <1>2 DEF RegisterWrite, Conflict
  <1>6. /\ users' \in [Email -> Client \cup {NULL}] /\ told' \subseteq Client \X Email
        /\ RegistrationIsKept'
    <2>1. CASE UNCHANGED <<users, told>>
      BY <2>1 DEF AccountsInv, TypeOK, RegistrationIsKept
    <2>2. CASE users[e] = NULL /\ users' = [users EXCEPT ![e] = c] /\ told' = told \cup {<<c, e>>}
      <3>1. \A d \in Client : <<d, e>> \notin told
        BY <2>2, AccountsAssumption DEF AccountsInv, RegistrationIsKept
      <3>2. /\ users' \in [Email -> Client \cup {NULL}] /\ users'[e] = c
            /\ \A x \in Email : x # e => users'[x] = users[x]
        BY <2>2 DEF AccountsInv, TypeOK
      <3>3. told' \subseteq Client \X Email
        BY <2>2 DEF AccountsInv, TypeOK
      <3>4. ASSUME NEW d \in Client, NEW x \in Email, <<d, x>> \in told' PROVE users'[x] = d
        <4>1. CASE <<d, x>> \in told
          BY <3>1, <3>2, <4>1 DEF AccountsInv, RegistrationIsKept
        <4>2. CASE d = c /\ x = e
          BY <3>2, <4>2
        <4>3. QED
          BY <2>2, <3>4, <4>1, <4>2
      <3>5. QED
        BY <3>2, <3>3, <3>4 DEF RegistrationIsKept
    <2>3. QED
      BY <1>5, <2>1, <2>2
  <1>7. TypeOK'
    BY <1>3, <1>4, <1>6 DEF AccountsInv, TypeOK
  <1>8. QED
    BY <1>3, <1>4, <1>6, <1>7 DEF AccountsInv

\* An access token is for a session.
LEMMA MintType ==
  ASSUME TypeOK, NEW s \in Session, Mint(s) PROVE access' \in [Access -> Session \cup {0}]
  BY DEF TypeOK, Mint

\* A login makes a session that was not there before.
LEMMA LoggedIn ==
  ASSUME AccountsInv, NEW c \in Client, LoginWrite(c) PROVE AccountsInv'
  <1>1. PICK s \in Session :
          /\ sessions[s].row = "absent"
          /\ \/ /\ sessions' = [sessions EXCEPT ![s] = [row |-> "active", holder |-> c]]
                /\ Mint(s)
             \/ /\ sessions' = [sessions EXCEPT ![s].row = "active"]
                /\ UNCHANGED access
    BY DEF LoginWrite
  <1>2. Reply(c) /\ UNCHANGED <<users, told, loggedOut>>
    BY DEF LoginWrite
  <1>3. access' \in [Access -> Session \cup {0}]
    BY <1>1, MintType DEF AccountsInv, TypeOK
  <1>4. /\ sessions' \in [Session -> [row : {"absent", "active", "revoked", "expired"},
                                      holder : Client \cup {NULL}]]
        /\ sessions'[s].row = "active"
        /\ \A r \in Session : r # s => sessions'[r] = sessions[r]
    BY <1>1 DEF AccountsInv, TypeOK
  <1>5. s \notin loggedOut
    BY <1>1 DEF AccountsInv
  <1>6. SessionsKept
    BY <1>2, <1>4 DEF SessionsKept
  <1>7. request' \in [Client -> Request] /\ \A d \in Client : GoodRequest(request[d])'
    BY <1>2, <1>6, Replied
  <1>8. TypeOK'
    BY <1>2, <1>3, <1>4, <1>7 DEF AccountsInv, TypeOK
  <1>9. /\ \A r \in Session : sessions'[r].row = "absent" => sessions'[r].holder = NULL
        /\ \A r \in loggedOut' : sessions'[r].row \in {"revoked", "expired"}
    BY <1>2, <1>4, <1>5 DEF AccountsInv, TypeOK
  <1>10. QED
    BY <1>2, <1>7, <1>8, <1>9 DEF AccountsInv, RegistrationIsKept

\* A refresh mints an access token and leaves the tables alone.
LEMMA Refreshed ==
  ASSUME AccountsInv, NEW c \in Client, RefreshWrite(c) PROVE AccountsInv'
  <1>1. request[c].arg \in Session
    BY DEF AccountsInv, GoodRequest, RefreshWrite, At
  <1>2. Reply(c) /\ UNCHANGED <<users, sessions, told, loggedOut>>
    BY DEF RefreshWrite
  <1>3. UNCHANGED access \/ Mint(request[c].arg)
    BY DEF RefreshWrite
  <1>4. access' \in [Access -> Session \cup {0}]
    BY <1>1, <1>3, MintType DEF AccountsInv, TypeOK
  <1>5. request' \in [Client -> Request] /\ \A d \in Client : GoodRequest(request[d])'
    BY <1>2, Replied DEF SessionsKept
  <1>6. TypeOK'
    BY <1>2, <1>4, <1>5 DEF AccountsInv, TypeOK
  <1>7. QED
    BY <1>2, <1>5, <1>6 DEF AccountsInv, RegistrationIsKept

\* Sessions only ever become revoked or expired.
LEMMA SessionEnds ==
  ASSUME AccountsInv, NEW s \in Session, NEW row \in {"revoked", "expired"},
         sessions[s].row # "absent",
         sessions' = [sessions EXCEPT ![s].row = row],
         loggedOut' \in {loggedOut, loggedOut \cup {s}}
  PROVE  /\ sessions' \in [Session -> [row : {"absent", "active", "revoked", "expired"},
                                       holder : Client \cup {NULL}]]
         /\ loggedOut' \subseteq Session
         /\ SessionsKept
         /\ \A r \in Session : sessions'[r].row = "absent" => sessions'[r].holder = NULL
         /\ \A r \in loggedOut' : sessions'[r].row \in {"revoked", "expired"}
  <1>1. /\ sessions' \in [Session -> [row : {"absent", "active", "revoked", "expired"},
                                      holder : Client \cup {NULL}]]
        /\ sessions'[s].row = row
        /\ \A r \in Session : r # s => sessions'[r] = sessions[r]
    BY DEF AccountsInv, TypeOK
  <1>2. loggedOut \subseteq loggedOut' /\ loggedOut' \subseteq loggedOut \cup {s}
        /\ loggedOut \subseteq Session
    BY DEF AccountsInv, TypeOK
  <1>3. SessionsKept
    BY <1>1, <1>2 DEF SessionsKept
  <1>4. QED
    BY <1>1, <1>2, <1>3 DEF AccountsInv

\* A logout ends its session, whatever has happened to it since it was found.
LEMMA LoggedOutKeeps ==
  ASSUME AccountsInv, NEW c \in Client, LogoutWrite(c) PROVE AccountsInv'
  <1>1. request[c].arg \in Session /\ sessions[request[c].arg].row # "absent"
    BY DEF AccountsInv, GoodRequest, LogoutWrite, At
  <1>2. PICK s \in Session : s = request[c].arg
    BY <1>1
  <1>3. PICK row \in {"revoked", "expired"} : sessions' = [sessions EXCEPT ![s].row = row]
    BY <1>2 DEF LogoutWrite, AccountsInv, TypeOK
  <1>4. Reply(c) /\ loggedOut' = loggedOut \cup {s} /\ UNCHANGED <<users, access, told>>
    BY <1>2 DEF LogoutWrite
  <1>5. /\ sessions' \in [Session -> [row : {"absent", "active", "revoked", "expired"},
                                      holder : Client \cup {NULL}]]
        /\ loggedOut' \subseteq Session
        /\ SessionsKept
        /\ \A r \in Session : sessions'[r].row = "absent" => sessions'[r].holder = NULL
        /\ \A r \in loggedOut' : sessions'[r].row \in {"revoked", "expired"}
    BY <1>1, <1>2, <1>3, <1>4, SessionEnds
  <1>6. request' \in [Client -> Request] /\ \A d \in Client : GoodRequest(request[d])'
    BY <1>4, <1>5, Replied
  <1>7. TypeOK'
    BY <1>4, <1>5, <1>6 DEF AccountsInv, TypeOK
  <1>8. QED
    BY <1>4, <1>5, <1>6, <1>7 DEF AccountsInv, RegistrationIsKept

\* The 30 days of a session pass.
LEMMA Expired ==
  ASSUME AccountsInv, NEW s \in Session, SessionExpires(s) PROVE AccountsInv'
  <1>1. /\ sessions[s].row # "absent" /\ sessions' = [sessions EXCEPT ![s].row = "expired"]
        /\ loggedOut' = loggedOut /\ UNCHANGED <<users, access, request, told>>
    BY DEF SessionExpires
  <1>2. /\ sessions' \in [Session -> [row : {"absent", "active", "revoked", "expired"},
                                      holder : Client \cup {NULL}]]
        /\ loggedOut' \subseteq Session
        /\ SessionsKept
        /\ \A r \in Session : sessions'[r].row = "absent" => sessions'[r].holder = NULL
        /\ \A r \in loggedOut' : sessions'[r].row \in {"revoked", "expired"}
    BY <1>1, SessionEnds
  <1>3. \A d \in Client : GoodRequest(request[d])'
    BY <1>1, <1>2, AllGood
  <1>4. TypeOK'
    BY <1>1, <1>2 DEF AccountsInv, TypeOK
  <1>5. QED
    BY <1>1, <1>2, <1>3, <1>4 DEF AccountsInv, RegistrationIsKept

\* Steps that leave the tables and the answers alone.
LEMMA AccountsQuiet ==
  ASSUME AccountsInv, UNCHANGED <<users, sessions, told, loggedOut>>,
         access' \in [Access -> Session \cup {0}],
         \/ UNCHANGED request
         \/ \E c \in Client : Reply(c)
  PROVE  AccountsInv'
  <1>1. SessionsKept
    BY DEF SessionsKept
  <1>2. request' \in [Client -> Request] /\ \A d \in Client : GoodRequest(request[d])'
    BY <1>1, AllGood, Replied DEF AccountsInv, TypeOK
  <1>3. TypeOK'
    BY <1>2 DEF AccountsInv, TypeOK
  <1>4. QED
    BY <1>2, <1>3 DEF AccountsInv, RegistrationIsKept

\* Before the first request there are no accounts.
LEMMA AccountsInit == Init => AccountsInv
  <1> SUFFICES ASSUME Init PROVE AccountsInv
    OBVIOUS
  <1>1. Idle \in Request /\ \A c \in Client : request[c] = Idle
    BY DEF Init, Idle, Request
  <1>2. TypeOK
    BY <1>1 DEF Init, TypeOK
  <1>3. \A c \in Client : GoodRequest(request[c])
    BY <1>1 DEF GoodRequest, Idle
  <1>4. QED
    BY <1>2, <1>3 DEF Init, AccountsInv, RegistrationIsKept

(***************************************************************************)
(* Every step of AuthService, and the passing of time, keeps the           *)
(* invariant.                                                              *)
(***************************************************************************)
LEMMA AccountsStep ==
  ASSUME AccountsInv, Step \/ (\E c \in Client : Send(c)) \/ UNCHANGED vars
  PROVE  AccountsInv'
  <1>1. ASSUME NEW c \in Client, Serve(c) PROVE AccountsInv'
    <2>1. CASE RegisterFind(c)
      <3>1. PICK found \in BOOLEAN : found <=> users[request[c].arg] = NULL
        OBVIOUS
      <3>2. Find(c, "register", found)
        BY <2>1, <3>1 DEF RegisterFind, Find
      <3>3. QED
        BY <3>2, Looked
    <2>2. CASE LoginFind(c)
      <3>1. PICK found \in BOOLEAN : found <=> users[request[c].arg] = c
        OBVIOUS
      <3>2. Find(c, "login", found)
        BY <2>2, <3>1 DEF LoginFind, Find
      <3>3. QED
        BY <3>2, Looked
    <2>3. CASE RefreshFind(c)
      <3>1. PICK found \in BOOLEAN : found <=> request[c].arg \in Listed
        OBVIOUS
      <3>2. Find(c, "refresh", found)
        BY <2>3, <3>1 DEF RefreshFind, Find
      <3>3. QED
        BY <3>1, <3>2, Looked
    <2>4. CASE LogoutFind(c)
      <3>1. PICK found \in BOOLEAN : found <=> request[c].arg \in Listed
        OBVIOUS
      <3>2. Find(c, "logout", found)
        BY <2>4, <3>1 DEF LogoutFind, Find
      <3>3. QED
        BY <3>1, <3>2, Looked
    <2>5. QED
      BY <1>1, <2>1, <2>2, <2>3, <2>4, Registered, LoggedIn, Refreshed, LoggedOutKeeps DEF Serve
  <1>2. ASSUME NEW c \in Client, RequestFails(c) PROVE AccountsInv'
    <2>1. Reply(c) /\ UNCHANGED <<users, sessions, access, told, loggedOut>>
      BY <1>2 DEF RequestFails
    <2>2. access' \in [Access -> Session \cup {0}]
      BY <2>1 DEF AccountsInv, TypeOK
    <2>3. QED
      BY <2>1, <2>2, AccountsQuiet
  <1>3. ASSUME NEW a \in Access, AccessExpires(a) PROVE AccountsInv'
    <2>1. UNCHANGED <<users, sessions, request, told, loggedOut>>
      BY <1>3 DEF AccessExpires
    <2>2. access' \in [Access -> Session \cup {0}]
      BY <1>3 DEF AccessExpires, AccountsInv, TypeOK
    <2>3. QED
      BY <2>1, <2>2, AccountsQuiet
  <1>4. CASE UNCHANGED vars
    <2>1. UNCHANGED <<users, sessions, access, request, told, loggedOut>>
      BY <1>4 DEF vars
    <2>2. access' \in [Access -> Session \cup {0}]
      BY <2>1 DEF AccountsInv, TypeOK
    <2>3. QED
      BY <2>1, <2>2, AccountsQuiet
  <1>5. QED
    BY <1>1, <1>2, <1>3, <1>4, Asked, Expired DEF Step

-----------------------------------------------------------------------------
(* Projects                                                                *)

\* The places of a transaction.
Places == [pc : {"idle", "org", "project", "member", "commit"}, project : Project \cup {NULL}]

\* Before the first request there are no projects.
LEMMA TenancyInvInit == TenancyInit => TenancyInv
  <1> SUFFICES ASSUME TenancyInit PROVE TenancyInv
    OBVIOUS
  <1>1. AccountsInv
    BY AccountsInit DEF TenancyInit
  <1>2. NoTx \in Places /\ \A c \in Client : tx[c] = NoTx /\ tx[c].pc = "idle"
    BY DEF TenancyInit, NoTx, Places
  <1>3. TenancyTypeOK
    BY <1>1, <1>2 DEF TenancyInit, TenancyTypeOK, AccountsInv, Places
  <1>4. QED
    BY <1>1, <1>2, <1>3
    DEF TenancyInit, TenancyInv, Holds, ProjectHasAdmin, CreatedIsMine

\* Steps of the accounts leave projects and transactions alone.
LEMMA TenancyQuiet ==
  ASSUME TenancyInv, AccountsInv', UNCHANGED tenancy PROVE TenancyInv'
  <1>1. UNCHANGED <<projects, members, tx, created>>
    BY DEF tenancy
  <1>2. TenancyTypeOK'
    BY <1>1 DEF TenancyInv, TenancyTypeOK, AccountsInv
  <1>3. QED
    BY <1>1, <1>2 DEF TenancyInv, Holds, ProjectHasAdmin, CreatedIsMine

\* A transaction that ends without a commit, or has no lock yet, or goes on with
\* the lock and the project it has.
LEMMA TxMoves ==
  ASSUME TenancyInv, UNCHANGED <<vars, projects, members, created>>,
         NEW c \in Client, NEW t \in Places, tx' = [tx EXCEPT ![c] = t],
         t.pc # "idle" => t.project \in Project,
         t.pc \in {"project", "member", "commit"} =>
           \A d \in Client : d # c /\ Holds(d) => Org(tx[d].project) # Org(t.project),
         t.pc \in {"member", "commit"} => projects[t.project] = NULL
  PROVE  TenancyInv'
  <1>1. AccountsInv'
    BY AccountsStep DEF TenancyInv
  <1>2. tx \in [Client -> Places]
    BY DEF TenancyInv, TenancyTypeOK, Places
  <1>3. /\ tx' \in [Client -> Places] /\ tx'[c] = t
        /\ \A d \in Client : d # c => tx'[d] = tx[d]
    BY <1>2
  <1>4. UNCHANGED <<projects, members, created>>
    OBVIOUS
  <1>5. TenancyTypeOK'
    BY <1>1, <1>3, <1>4 DEF TenancyInv, TenancyTypeOK, AccountsInv, Places
  <1>6. /\ Holds(c)' <=> t.pc \in {"project", "member", "commit"}
        /\ \A d \in Client : d # c => (Holds(d)' <=> Holds(d))
    BY <1>3 DEF Holds
  <1>7. ASSUME NEW d \in Client, NEW e \in Client, Holds(d)', Holds(e)',
               Org(tx'[d].project) = Org(tx'[e].project)
        PROVE  d = e
    <2>1. CASE d = c /\ e # c
      BY <1>3, <1>6, <1>7, <2>1
    <2>2. CASE e = c /\ d # c
      BY <1>3, <1>6, <1>7, <2>2
    <2>3. CASE d # c /\ e # c
      BY <1>3, <1>6, <1>7, <2>3 DEF TenancyInv
    <2>4. QED
      BY <2>1, <2>2, <2>3
  <1>8. \A d \in Client : tx'[d].pc # "idle" => tx'[d].project \in Project
    BY <1>3 DEF TenancyInv
  <1>9. \A d \in Client : tx'[d].pc \in {"member", "commit"} => projects'[tx'[d].project] = NULL
    BY <1>3, <1>4 DEF TenancyInv
  <1>10. ProjectHasAdmin' /\ CreatedIsMine'
    BY <1>4 DEF TenancyInv, ProjectHasAdmin, CreatedIsMine
  <1>11. QED
    BY <1>1, <1>5, <1>7, <1>8, <1>9, <1>10 DEF TenancyInv

\* A transaction commits while its project is free and nobody else is at it.
LEMMA Committed ==
  ASSUME TenancyInv, NEW c \in Client, Commit(c) PROVE TenancyInv'
  <1>1. tx[c].pc = "commit" /\ tx[c].project \in Project /\ projects[tx[c].project] = NULL
    BY DEF Commit, TenancyInv
  <1>2. PICK p \in Project : p = tx[c].project
    BY <1>1
  <1>3. /\ projects' = [projects EXCEPT ![p] = c]
        /\ members' = members \cup {<<p, c>>}
        /\ created' = created \cup {<<c, p>>}
        /\ tx' = [tx EXCEPT ![c] = NoTx]
        /\ UNCHANGED vars
    BY <1>2 DEF Commit
  <1>4. AccountsInv'
    BY <1>3, AccountsStep DEF TenancyInv
  <1>5. NoTx \in Places /\ NoTx.pc = "idle"
    BY DEF NoTx, Places
  <1>6. /\ tx' \in [Client -> Places] /\ tx'[c] = NoTx
        /\ \A d \in Client : d # c => tx'[d] = tx[d]
    BY <1>3, <1>5 DEF TenancyInv, TenancyTypeOK, Places
  <1>7. /\ projects' \in [Project -> Client \cup {NULL}] /\ projects'[p] = c
        /\ \A q \in Project : q # p => projects'[q] = projects[q]
    BY <1>3 DEF TenancyInv, TenancyTypeOK
  <1>8. members' \subseteq Project \X Client /\ created' \subseteq Client \X Project
    BY <1>3 DEF TenancyInv, TenancyTypeOK
  <1>9. TenancyTypeOK'
    BY <1>4, <1>6, <1>7, <1>8 DEF TenancyTypeOK, AccountsInv, Places
  <1>10. \A d \in Client : Holds(d)' => d # c /\ Holds(d)
    BY <1>5, <1>6 DEF Holds
  <1>11. \A d, e \in Client :
           Holds(d)' /\ Holds(e)' /\ Org(tx'[d].project) = Org(tx'[e].project) => d = e
    BY <1>6, <1>10 DEF TenancyInv
  <1>12. \A d \in Client : d # c /\ Holds(d) => tx[d].project # p
    BY <1>1, <1>2 DEF TenancyInv, Holds
  <1>13. \A d \in Client : tx'[d].pc # "idle" => tx'[d].project \in Project
    BY <1>5, <1>6 DEF TenancyInv
  <1>14. ASSUME NEW d \in Client, tx'[d].pc \in {"member", "commit"}
         PROVE  projects'[tx'[d].project] = NULL
    <2>1. d # c /\ tx'[d] = tx[d] /\ Holds(d)
      BY <1>5, <1>6, <1>14 DEF Holds
    <2>2. tx[d].project # p /\ tx[d].project \in Project /\ projects[tx[d].project] = NULL
      BY <1>12, <1>14, <2>1 DEF TenancyInv
    <2>3. QED
      BY <1>7, <2>1, <2>2
  <1>15. ProjectHasAdmin'
    BY <1>3, <1>7 DEF TenancyInv, ProjectHasAdmin
  <1>16. CreatedIsMine'
    <2>1. \A d \in Client : <<d, p>> \notin created
      BY <1>1, <1>2, AccountsAssumption DEF TenancyInv, CreatedIsMine
    <2>2. ASSUME NEW d \in Client, NEW q \in Project, <<d, q>> \in created'
          PROVE  projects'[q] = d
      <3>1. CASE <<d, q>> \in created
        BY <1>7, <2>1, <3>1 DEF TenancyInv, CreatedIsMine
      <3>2. CASE d = c /\ q = p
        BY <1>7, <3>2
      <3>3. QED
        BY <1>3, <2>2, <3>1, <3>2
    <2>3. QED
      BY <2>2 DEF CreatedIsMine
  <1>17. QED
    BY <1>4, <1>9, <1>11, <1>13, <1>14, <1>15, <1>16 DEF TenancyInv

(***************************************************************************)
(* Every step keeps the invariant.  The lock of the organization is what   *)
(* keeps a project free between the unique check of its INSERT and the     *)
(* commit.                                                                 *)
(***************************************************************************)
LEMMA TenancyStep == ASSUME TenancyInv, [Next]_allVars PROVE TenancyInv'
  <1>0. tx \in [Client -> Places] /\ NoTx \in Places /\ NoTx.pc = "idle"
    BY DEF TenancyInv, TenancyTypeOK, Places, NoTx
  <1>1. CASE (Step \/ \E c \in Client : tx[c] = NoTx /\ Send(c)) /\ UNCHANGED tenancy
    <2>1. AccountsInv'
      BY <1>1, AccountsStep DEF TenancyInv
    <2>2. QED
      BY <1>1, <2>1, TenancyQuiet
  <1>2. CASE UNCHANGED allVars
    <2>1. UNCHANGED vars /\ UNCHANGED tenancy
      BY <1>2 DEF allVars
    <2>2. AccountsInv'
      BY <2>1, AccountsStep DEF TenancyInv
    <2>3. QED
      BY <2>1, <2>2, TenancyQuiet
  <1>3. ASSUME NEW c \in Client, CreateProject(c) PROVE TenancyInv'
    <2>1. PICK p \in Project : tx' = [tx EXCEPT ![c] = [pc |-> "org", project |-> p]]
      BY <1>3 DEF CreateProject
    <2> DEFINE t == [pc |-> "org", project |-> p]
    <2>2. t \in Places /\ t.pc = "org" /\ t.project \in Project
      BY DEF Places
    <2>3. UNCHANGED <<vars, projects, members, created>>
      BY <1>3 DEF CreateProject
    <2>4. QED
      BY <2>1, <2>2, <2>3, TxMoves
  \* The next statement of a transaction.
  <1>4. ASSUME NEW c \in Client, NEW pc \in {"project", "member", "commit"},
               tx' = [tx EXCEPT ![c].pc = pc], tx[c].pc # "idle",
               UNCHANGED <<vars, projects, members, created>>,
               \A d \in Client : d # c /\ Holds(d) => Org(tx[d].project) # Org(tx[c].project),
               pc \in {"member", "commit"} => projects[tx[c].project] = NULL
        PROVE  TenancyInv'
    <2>1. PICK t \in Places : t = [tx[c] EXCEPT !.pc = pc]
      BY <1>0 DEF Places
    <2>2. t.pc = pc /\ t.project = tx[c].project /\ t.project \in Project
      BY <1>0, <1>4, <2>1 DEF TenancyInv, Places
    <2>3. tx' = [tx EXCEPT ![c] = t]
      BY <1>0, <1>4, <2>1
    <2>4. /\ UNCHANGED <<vars, projects, members, created>>
          /\ \A d \in Client : d # c /\ Holds(d) => Org(tx[d].project) # Org(t.project)
          /\ t.pc \in {"member", "commit"} => projects[t.project] = NULL
      BY <1>4, <2>2
    <2>5. QED
      BY <2>2, <2>3, <2>4, TxMoves
  <1>5. ASSUME NEW c \in Client, Holds(c)
        PROVE  \A d \in Client : d # c /\ Holds(d) => Org(tx[d].project) # Org(tx[c].project)
    BY <1>5 DEF TenancyInv
  <1>6. ASSUME NEW c \in Client, UpsertOrg(c) PROVE TenancyInv'
    <2>1. \A d \in Client : Holds(d) => Org(tx[d].project) # Org(tx[c].project)
      BY <1>6 DEF UpsertOrg, Locked, Holds
    <2>2. /\ tx' = [tx EXCEPT ![c].pc = "project"] /\ tx[c].pc # "idle"
          /\ UNCHANGED <<vars, projects, members, created>>
      BY <1>6 DEF UpsertOrg
    <2>3. QED
      BY <1>4, <2>1, <2>2
  <1>7. ASSUME NEW c \in Client, InsertProject(c) PROVE TenancyInv'
    <2>1. /\ tx' = [tx EXCEPT ![c].pc = "member"] /\ tx[c].pc # "idle" /\ Holds(c)
          /\ projects[tx[c].project] = NULL
          /\ UNCHANGED <<vars, projects, members, created>>
      BY <1>7 DEF InsertProject, Taken, Holds
    <2>2. QED
      BY <1>4, <1>5, <2>1
  <1>8. ASSUME NEW c \in Client, InsertMember(c) PROVE TenancyInv'
    <2>1. /\ tx' = [tx EXCEPT ![c].pc = "commit"] /\ tx[c].pc = "member" /\ Holds(c)
          /\ UNCHANGED <<vars, projects, members, created>>
      BY <1>8 DEF InsertMember, Holds
    <2>2. projects[tx[c].project] = NULL
      BY <2>1 DEF TenancyInv
    <2>3. QED
      BY <1>4, <1>5, <2>1, <2>2
  <1>9. ASSUME NEW c \in Client, InsertConflict(c) \/ Rollback(c) PROVE TenancyInv'
    <2>1. tx' = [tx EXCEPT ![c] = NoTx] /\ UNCHANGED <<vars, projects, members, created>>
      BY <1>9 DEF InsertConflict, Rollback
    <2>2. QED
      BY <1>0, <2>1, TxMoves
  <1>10. QED
    BY <1>1, <1>2, <1>3, <1>6, <1>7, <1>8, <1>9, Committed DEF Next, ProjectStep

-----------------------------------------------------------------------------
(* Theorems                                                                *)

\* The invariant holds in every reachable state.
THEOREM TenancyInvariant == Spec => []TenancyInv
  BY TenancyInvInit, TenancyStep, PTL DEF Spec

\* Accounts and projects are type correct.
THEOREM TypeCorrect == Spec => []TenancyTypeOK
  <1>1. TenancyInv => TenancyTypeOK
    BY DEF TenancyInv
  <1>2. QED
    BY <1>1, TenancyInvariant, PTL

(***************************************************************************)
(* An answered registration is kept: UNIQUE (email) decides races that the *)
(* look-up does not, and no statement changes the password of a row.       *)
(***************************************************************************)
THEOREM RegistrationIsKeptHolds == Spec => []RegistrationIsKept
  <1>1. TenancyInv => RegistrationIsKept
    BY DEF TenancyInv, AccountsInv
  <1>2. QED
    BY <1>1, TenancyInvariant, PTL

(***************************************************************************)
(* A refresh sent after the answer of the logout is refused, since a       *)
(* session is never active again.                                          *)
(***************************************************************************)
THEOREM RefreshStopsAtLogoutHolds == Spec => []RefreshStopsAtLogout
  <1>1. TenancyInv => RefreshStopsAtLogout
    BY DEF TenancyInv, AccountsInv, GoodRequest, RefreshStopsAtLogout, At
  <1>2. QED
    BY <1>1, TenancyInvariant, PTL

\* Projects are never without an admin, rolled back transactions included.
THEOREM ProjectHasAdminHolds == Spec => []ProjectHasAdmin
  <1>1. TenancyInv => ProjectHasAdmin
    BY DEF TenancyInv
  <1>2. QED
    BY <1>1, TenancyInvariant, PTL

\* A project belongs to the one client that was told it created it.
THEOREM CreatedIsMineHolds == Spec => []CreatedIsMine
  <1>1. TenancyInv => CreatedIsMine
    BY DEF TenancyInv
  <1>2. QED
    BY <1>1, TenancyInvariant, PTL

=============================================================================
