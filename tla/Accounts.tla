------------------------------- MODULE Accounts -------------------------------
(***************************************************************************)
(* Registration, login, refresh and logout: AuthService over the users and *)
(* refresh_tokens tables.  Every operation is a look-up and a later write, *)
(* two statements with bcrypt in between, so requests of several clients   *)
(* interleave.  Access tokens are signed and never stored: what a client   *)
(* holds is good until it expires.                                         *)
(*                                                                         *)
(* Every client uses a password of its own, so a users row is told by the  *)
(* client whose password it has.                                           *)
(***************************************************************************)
EXTENDS Naturals, FiniteSets

CONSTANTS
  Client,       \* what sends requests, each one at a time: devices, tabs, retries
  Email,        \* addresses of users
  Uses,         \* the addresses each client registers and logs in with
  Shares,       \* pairs of clients of which the second has the first's tokens too
  NULL,         \* no users row
  Window,       \* LIMIT of find_all_active_refresh_tokens, 1000 in the code
  MaxSessions,  \* bound: refresh tokens in a behaviour
  MaxAccess     \* bound: access tokens that are good at one time

ASSUME AccountsAssumption ==
  /\ NULL \notin Client
  /\ Uses \subseteq Client \X Email
  /\ Shares \subseteq Client \X Client
  /\ Window \in Nat \ {0}
  /\ MaxSessions \in Nat
  /\ MaxAccess \in Nat

Session == 1 .. MaxSessions  \* refresh tokens, by created_at
Access == 1 .. MaxAccess     \* places for access tokens that have not expired

VARIABLES
  users,     \* users.password_hash of each email
  sessions,  \* refresh_tokens
  access,    \* the session each good access token was minted for, 0 for a free place
  request,   \* what each client is waiting for
  told,      \* registrations answered with success
  loggedOut  \* sessions whose logout was answered with success

vars == <<users, sessions, access, request, told, loggedOut>>

\* arg is the email or the session; late says whether the session had been
\* logged out before the request was sent.
Request ==
  [op   : {"idle", "register", "login", "refresh", "logout"},
   pc   : {"find", "write"},
   arg  : Email \cup Session \cup {NULL},
   late : BOOLEAN]

Idle == [op |-> "idle", pc |-> "find", arg |-> NULL, late |-> FALSE]

TypeOK ==
  /\ users \in [Email -> Client \cup {NULL}]
  /\ sessions \in [Session -> [row : {"absent", "active", "revoked", "expired"},
                               holder : Client \cup {NULL}]]
  /\ access \in [Access -> Session \cup {0}]
  /\ request \in [Client -> Request]
  /\ told \subseteq Client \X Email
  /\ loggedOut \subseteq Session

Init ==
  /\ users = [e \in Email |-> NULL]
  /\ sessions = [s \in Session |-> [row |-> "absent", holder |-> NULL]]
  /\ access = [a \in Access |-> 0]
  /\ request = [c \in Client |-> Idle]
  /\ told = {}
  /\ loggedOut = {}

-----------------------------------------------------------------------------
Asks(c, op, arg) ==
  /\ request[c].op = "idle"
  /\ request' = [request EXCEPT ![c] =
       [op |-> op, pc |-> "find", arg |-> arg, late |-> arg \in loggedOut]]
  /\ UNCHANGED <<users, sessions, access, told, loggedOut>>

\* The raw refresh token is known to the client that logged in, and to those it
\* shares its storage with.
Knows(c, s) == sessions[s].holder = c \/ <<sessions[s].holder, c>> \in Shares

\* A client sends what it can.  Requests with one token may overlap: nothing in
\* the service orders them.
Send(c) ==
  \/ \E e \in Email :
       /\ <<c, e>> \in Uses
       /\ Asks(c, "register", e) \/ Asks(c, "login", e)
  \/ \E s \in Session :
       /\ Knows(c, s)
       /\ Asks(c, "refresh", s) \/ Asks(c, "logout", s)

At(c, op, pc) == request[c].op = op /\ request[c].pc = pc

Reply(c) == request' = [request EXCEPT ![c] = Idle]

\* The look-up every operation starts with: go on, or refuse.
Find(c, op, found) ==
  /\ At(c, op, "find")
  /\ IF found THEN request' = [request EXCEPT ![c].pc = "write"] ELSE Reply(c)
  /\ UNCHANGED <<users, sessions, access, told, loggedOut>>

RegisterFind(c) == Find(c, "register", users[request[c].arg] = NULL)

\* Mutant of Conflict: an upsert in place of the INSERT.
ConflictNever(e) == FALSE

\* UNIQUE (email).
Conflict(e) == users[e] # NULL

\* Mutant of RegisterWrite: the email is bound as the password_hash too.
RegisterWriteBindsEmail(c) ==
  LET e == request[c].arg IN
  /\ At(c, "register", "write")
  /\ ~Conflict(e)
  /\ users' = [users EXCEPT ![e] = e]
  /\ Reply(c)
  /\ UNCHANGED <<sessions, access, told, loggedOut>>

\* INSERT INTO users; the loser of a race gets the database's error.  (A
\* reply that is lost leaves told as it is, and with it less to keep.)
RegisterWrite(c) ==
  LET e == request[c].arg IN
  /\ At(c, "register", "write")
  /\ \/ /\ Conflict(e)
        /\ Reply(c)
        /\ UNCHANGED <<users, told>>
     \/ /\ ~Conflict(e)
        /\ users' = [users EXCEPT ![e] = c]
        /\ Reply(c)
        /\ told' = told \cup {<<c, e>>}
  /\ UNCHANGED <<sessions, access, loggedOut>>

\* find_by_email and the verification of the password.
LoginFind(c) == Find(c, "login", users[request[c].arg] = c)

\* mint_access_token, for session s.
Mint(s) ==
  \E a \in Access :
    /\ access[a] = 0
    /\ \A b \in Access : b < a => access[b] # 0
    /\ access' = [access EXCEPT ![a] = s]

\* The access token is minted and the refresh token stored; if the reply is
\* lost, nobody holds either.
LoginWrite(c) ==
  /\ At(c, "login", "write")
  /\ \E s \in Session :
       /\ sessions[s].row = "absent"
       /\ \A r \in Session : r < s => sessions[r].row # "absent"
       /\ \/ /\ sessions' = [sessions EXCEPT ![s] = [row |-> "active", holder |-> c]]
             /\ Mint(s)
          \/ /\ sessions' = [sessions EXCEPT ![s].row = "active"]
             /\ UNCHANGED access
  /\ Reply(c)
  /\ UNCHANGED <<users, told, loggedOut>>

\* Mutant of Active: revoked tokens are not left out.
ActiveOrRevoked == {s \in Session : sessions[s].row \in {"active", "revoked"}}

\* revoked = false AND expires_at > NOW().
Active == {s \in Session : sessions[s].row = "active"}

\* ORDER BY created_at DESC LIMIT: the newest of all users' tokens.
Listed == {s \in Active : Cardinality({r \in Active : r > s}) < Window}

RefreshFind(c) == Find(c, "refresh", request[c].arg \in Listed)

\* The expiry of the row that was read is tested again, its revocation is not,
\* and nothing once the user is looked up: the token is minted even if the row
\* was revoked or has expired since.  The refresh token stays as it is.
RefreshWrite(c) ==
  LET s == request[c].arg IN
  /\ At(c, "refresh", "write")
  /\ \/ /\ sessions[s].row = "expired"
        /\ UNCHANGED access
     \/ Mint(s)
  /\ Reply(c)
  /\ UNCHANGED <<users, sessions, told, loggedOut>>

LogoutFind(c) == Find(c, "logout", request[c].arg \in Listed)

\* Mutant of LogoutWrite: the UPDATE matches no row and the answer is the same.
LogoutWriteNothing(c) ==
  /\ At(c, "logout", "write")
  /\ Reply(c)
  /\ loggedOut' = loggedOut \cup {request[c].arg}
  /\ UNCHANGED <<users, sessions, access, told>>

\* revoke_refresh_token.  Access tokens of the session are not touched.
LogoutWrite(c) ==
  LET s == request[c].arg IN
  /\ At(c, "logout", "write")
  /\ sessions' = [sessions EXCEPT ![s].row = IF @ = "expired" THEN @ ELSE "revoked"]
  /\ Reply(c)
  /\ loggedOut' = loggedOut \cup {s}
  /\ UNCHANGED <<users, access, told>>

\* A database error, or a client that hangs up, before the write.
RequestFails(c) ==
  /\ request[c].op # "idle"
  /\ Reply(c)
  /\ UNCHANGED <<users, sessions, access, told, loggedOut>>

\* 30 days: the older token expires first.
SessionExpires(s) ==
  /\ sessions[s].row \in {"active", "revoked"}
  /\ \A r \in Session : r < s => sessions[r].row = "expired"
  /\ sessions' = [sessions EXCEPT ![s].row = "expired"]
  /\ UNCHANGED <<users, access, request, told, loggedOut>>

\* 15 minutes.
AccessExpires(a) ==
  /\ access[a] # 0
  /\ access' = [access EXCEPT ![a] = 0]
  /\ UNCHANGED <<users, sessions, request, told, loggedOut>>

Serve(c) ==
  \/ RegisterFind(c) \/ RegisterWrite(c) \/ LoginFind(c) \/ LoginWrite(c)
  \/ RefreshFind(c) \/ RefreshWrite(c) \/ LogoutFind(c) \/ LogoutWrite(c)

Step ==
  \/ \E c \in Client : Serve(c) \/ RequestFails(c)
  \/ \E s \in Session : SessionExpires(s)
  \/ \E a \in Access : AccessExpires(a)

\* Requests are served while the process lives, and access tokens expire.
Progress ==
  /\ \A c \in Client : WF_vars(Serve(c))
  /\ \A a \in Access : WF_vars(AccessExpires(a))

-----------------------------------------------------------------------------
(* Properties                                                              *)

(***************************************************************************)
(* An answered registration is kept: the account has the password of the   *)
(* client that was told so, however many others registered the address at  *)
(* the same time.                                                          *)
(***************************************************************************)
RegistrationIsKept == \A c \in Client, e \in Email : <<c, e>> \in told => users[e] = c

(***************************************************************************)
(* A refresh sent after the logout of its session was answered does not    *)
(* get an access token.  (One that overlaps the logout may, and after its  *)
(* answer: it read the row before, and does not read it again.)            *)
(***************************************************************************)
RefreshStopsAtLogout == \A c \in Client : ~(At(c, "refresh", "write") /\ request[c].late)

(***************************************************************************)
(* Logout takes effect: from some time after its answer on no access token *)
(* of the session is good, although refreshes of it that were under way    *)
(* may still mint one after the answer.                                    *)
(***************************************************************************)
LogoutTakesEffect ==
  \A s \in Session :
    s \in loggedOut ~> [](\A a \in Access : access[a] # s)
=============================================================================
