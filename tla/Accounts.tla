------------------------------ MODULE Accounts ------------------------------
(***************************************************************************)
(* The Worker's accounts and sessions: the BudgetApp sign-in callback from *)
(* the point where the identity is verified, logout, the identity events   *)
(* BudgetApp sends, and the administrator's suspend, unsuspend and delete. *)
(*                                                                         *)
(* Every request runs on its own and stops at each await, where others run *)
(* and where it may also die: an action is what happens between two awaits.*)
(* Two stores are shared.  Workers KV holds the sessions, and for each     *)
(* user an index of tokens that is read and written back without a lock.   *)
(* Postgres holds users, external_identities and audit_log, whose foreign  *)
(* keys and unique constraint refuse a statement that breaks them.         *)
(***************************************************************************)
EXTENDS Naturals, Sequences, FiniteSets

CONSTANTS
  Members,      \* BudgetApp's user ids, the `sub` of its tokens
  Threads,      \* requests that may be in flight at once
  MaxRequests,  \* bound: requests served
  MaxUsers,     \* bound: rows ever inserted into users
  MayFail       \* whether a request may die at an await

ASSUME AccountsAssumption ==
  /\ MaxRequests \in Nat /\ MaxUsers \in Nat
  /\ MayFail \in BOOLEAN

VARIABLES
  users,       \* users: a row [member, status, email] per id; "gone" once deleted
  identities,  \* external_identities: the user id linked to a member, 0 for none
  addresses,   \* audit_log rows with an ip_address, [user, n]
  sessions,    \* KV session:<token>, the tokens [user, n] that have an entry
  index,       \* KV user_sessions:<user id>, {} for no entry
  frames,      \* the requests in flight
  served,      \* requests started so far
  cookies,     \* tokens some browser holds
  promised,    \* members whose deletion was acknowledged, with no sign-in since
  linked,      \* ids that were linked to a member and not unlinked by an administrator
  overlapped   \* members two requests worked on at the same time (history)

stores == <<users, identities, addresses, sessions, index>>

accountsVars == <<stores, frames, served, cookies, promised, linked, overlapped>>

Ids == 1..MaxUsers

Token == [user : Ids, n : 1..MaxRequests]

\* A request that is not running.
Idle == [at |-> "idle", kind |-> "none", member |-> CHOOSE m \in Members : TRUE,
         user |-> 0, n |-> 0, seen |-> {}]

AccountsInit ==
  /\ users = << >>
  /\ identities = [m \in Members |-> 0]
  /\ addresses = {}
  /\ sessions = {}
  /\ index = [u \in Ids |-> {}]
  /\ frames = [t \in Threads |-> Idle]
  /\ served = 0
  /\ cookies = {} /\ promised = {} /\ linked = {} /\ overlapped = {}

-----------------------------------------------------------------------------
(* Requests and their awaits                                               *)

\* A request of the given kind about a member enters its handler.
Begin(t, kind, m, at, user, n) ==
  /\ frames[t].at = "idle" /\ served < MaxRequests
  /\ served' = served + 1
  /\ frames' = [frames EXCEPT ![t] =
       [at |-> at, kind |-> kind, member |-> m, user |-> user, n |-> n, seen |-> {}]]
  /\ overlapped' = IF \E s \in Threads : frames[s].at # "idle" /\ frames[s].member = m
                     THEN overlapped \cup {m} ELSE overlapped

\* Thread t stands at a point of its handler, and goes on to another.
At(t, point) == frames[t].at = point

GoTo(t, point) == frames' = [frames EXCEPT ![t].at = point]

GoToWith(t, point, seen) ==
  frames' = [frames EXCEPT ![t].at = point, ![t].seen = seen]

Finish(t) == frames' = [frames EXCEPT ![t] = Idle]

\* The request is over whether it answered or threw: an exception leaves what
\* earlier statements did as it is.
Fail(t) ==
  /\ MayFail /\ frames[t].at # "idle"
  /\ Finish(t)
  /\ UNCHANGED <<stores, served, cookies, promised, linked, overlapped>>

History == <<served, promised, overlapped>>

-----------------------------------------------------------------------------
(* GET /auth/budgetapp/callback                                            *)

BeginSignIn(t, m) ==
  /\ Begin(t, "sign_in", m, "look_up", 0, served + 1)
  /\ promised' = promised \ {m}
  /\ UNCHANGED <<stores, cookies, linked>>

LookUp(t) ==
  /\ At(t, "look_up")
  /\ LET user == identities[frames[t].member]
     IN  frames' = [frames EXCEPT ![t].user = user,
                      ![t].at = IF user # 0 THEN "read_account" ELSE "insert_user"]
  /\ UNCHANGED <<stores, cookies, linked, History>>

\* A missing row ends the request; the status is compared only after the row
\* has been refreshed.
ReadAccount(t) ==
  /\ At(t, "read_account")
  /\ LET status == users[frames[t].user].status
     IN  IF status = "gone" THEN Finish(t)
         ELSE GoTo(t, IF status = "active" THEN "refresh" ELSE "refresh_and_refuse")
  /\ UNCHANGED <<stores, cookies, linked, History>>

\* Faulty variant: an upsert, which finds a row where there is none.
RefreshedByUpsert(row) == [row EXCEPT !.email = "real"]

\* UPDATE users SET email: the address of the token, whatever the row has now.
Refreshed(row) ==
  IF row.status = "gone" THEN row ELSE [row EXCEPT !.email = "real"]

Refresh(t) ==
  /\ At(t, "refresh") \/ At(t, "refresh_and_refuse")
  /\ users' = [users EXCEPT ![frames[t].user] = Refreshed(@)]
  /\ IF At(t, "refresh") THEN GoTo(t, "audit_login") ELSE Finish(t)
  /\ UNCHANGED <<identities, addresses, sessions, index, cookies, linked, History>>

InsertUser(t) ==
  /\ At(t, "insert_user") /\ Len(users) < MaxUsers
  /\ users' = Append(users, [member |-> frames[t].member, status |-> "active",
                             email |-> "real"])
  /\ frames' = [frames EXCEPT ![t].at = "insert_identity", ![t].user = Len(users) + 1]
  /\ UNCHANGED <<identities, addresses, sessions, index, cookies, linked, History>>

\* The second statement of a first sign-in, in no transaction with the first:
\* refused when the member got linked or the row was deleted meanwhile.
InsertIdentity(t) ==
  /\ At(t, "insert_identity")
  /\ LET u == frames[t].user
         m == frames[t].member
     IN  IF identities[m] # 0 \/ users[u].status = "gone"
           THEN Finish(t) /\ UNCHANGED <<identities, linked>>
           ELSE /\ identities' = [identities EXCEPT ![m] = u]
                /\ linked' = linked \cup {u}
                /\ GoTo(t, "audit_login")
  /\ UNCHANGED <<users, addresses, sessions, index, cookies, History>>

\* user.login is recorded with the address; actor_id must name an existing row.
AuditLogin(t) ==
  /\ At(t, "audit_login")
  /\ LET u == frames[t].user
     IN  IF users[u].status = "gone"
           THEN Finish(t) /\ UNCHANGED addresses
           ELSE /\ addresses' = addresses \cup {[user |-> u, n |-> frames[t].n]}
                /\ GoTo(t, "put_session")
  /\ UNCHANGED <<users, identities, sessions, index, cookies, linked, History>>

NewToken(t) == [user |-> frames[t].user, n |-> frames[t].n]

PutSession(t) ==
  /\ At(t, "put_session")
  /\ sessions' = sessions \cup {NewToken(t)}
  /\ GoTo(t, "read_for_adding")
  /\ UNCHANGED <<users, identities, addresses, index, cookies, linked, History>>

ReadForAdding(t) ==
  /\ At(t, "read_for_adding")
  /\ GoToWith(t, "write_added", index[frames[t].user])
  /\ UNCHANGED <<stores, cookies, linked, History>>

\* Faulty variant: the entry is written over instead of added to.
IndexWithOnly(seen, token) == {token}

IndexWith(seen, token) == seen \cup {token}

\* The index is written and the answer sets the cookie.
WriteAdded(t) ==
  /\ At(t, "write_added")
  /\ index' = [index EXCEPT ![frames[t].user] = IndexWith(frames[t].seen, NewToken(t))]
  /\ cookies' = cookies \cup {NewToken(t)}
  /\ Finish(t)
  /\ UNCHANGED <<users, identities, addresses, sessions, linked, History>>

-----------------------------------------------------------------------------
(* POST /auth/logout: destroySession                                       *)

BeginLogout(t, token) ==
  /\ Begin(t, "logout", users[token.user].member, "find_session", token.user, token.n)
  /\ UNCHANGED <<stores, cookies, promised, linked>>

FindSession(t) ==
  /\ At(t, "find_session")
  /\ IF NewToken(t) \in sessions
       THEN GoTo(t, "delete_session") /\ UNCHANGED cookies
       ELSE Finish(t) /\ cookies' = cookies \ {NewToken(t)}
  /\ UNCHANGED <<stores, linked, History>>

DeleteSession(t) ==
  /\ At(t, "delete_session")
  /\ sessions' = sessions \ {NewToken(t)}
  /\ GoTo(t, "read_for_removing")
  /\ UNCHANGED <<users, identities, addresses, index, cookies, linked, History>>

ReadForRemoving(t) ==
  /\ At(t, "read_for_removing")
  /\ GoToWith(t, "write_removed", index[frames[t].user])
  /\ UNCHANGED <<stores, cookies, linked, History>>

WriteRemoved(t) ==
  /\ At(t, "write_removed")
  /\ index' = [index EXCEPT ![frames[t].user] = frames[t].seen \ {NewToken(t)}]
  /\ cookies' = cookies \ {NewToken(t)}
  /\ Finish(t)
  /\ UNCHANGED <<users, identities, addresses, sessions, linked, History>>

-----------------------------------------------------------------------------
(* POST /internal/identity-events, its token verified.  user.suspended and *)
(* user.sessions_revoked do the same thing.                                *)

BeginEvent(t, kind, m) ==
  /\ Begin(t, kind, m, "find_user", 0, 0)
  /\ UNCHANGED <<stores, cookies, promised, linked>>

\* BudgetApp takes an acknowledged deletion for a promise.
Promise(t) ==
  promised' = IF frames[t].kind = "user_deleted" THEN promised \cup {frames[t].member}
                                                 ELSE promised

\* A member nobody is linked to is acknowledged as unknown.
FindUser(t) ==
  /\ At(t, "find_user")
  /\ LET user == identities[frames[t].member]
     IN  IF user = 0
           THEN Finish(t) /\ Promise(t)
           ELSE /\ frames' = [frames EXCEPT ![t].at = "read_to_end", ![t].user = user]
                /\ UNCHANGED promised
  /\ UNCHANGED <<stores, cookies, linked, served, overlapped>>

\* destroyAllUserSessions: the index is read, the entries it names are deleted in
\* no particular order, and the index goes last.
ReadToEnd(t) ==
  /\ At(t, "read_to_end")
  /\ GoToWith(t, "end_sessions", index[frames[t].user])
  /\ UNCHANGED <<stores, cookies, linked, History>>

EndOneSession(t) ==
  /\ At(t, "end_sessions")
  /\ \E token \in frames[t].seen :
       /\ sessions' = sessions \ {token}
       /\ GoToWith(t, "end_sessions", frames[t].seen \ {token})
  /\ UNCHANGED <<users, identities, addresses, index, cookies, linked, History>>

\* Where a handler goes on when the sessions have ended.  An administrator's
\* request only has its audit row left to write, and a row about an account
\* that is gone is refused without consequence.
AfterSessions(kind) ==
  CASE kind = "user_deleted" -> "erase_addresses"
    [] kind = "sessions_ended" -> "acknowledge"
    [] OTHER -> "audit"

DropIndex(t) ==
  /\ At(t, "end_sessions") /\ frames[t].seen = {}
  /\ index' = [index EXCEPT ![frames[t].user] = {}]
  /\ GoTo(t, AfterSessions(frames[t].kind))
  /\ UNCHANGED <<users, identities, addresses, sessions, cookies, linked, History>>

\* Faulty variant: the rows are looked for once the user is deleted, when none
\* names the account any more.
AddressesToEraseTooLate(u) == {}

\* The first statement of eraseUser's transaction picks the rows that exist now;
\* their addresses are gone when the transaction commits.
AddressesToErase(u) == { row \in addresses : row.user = u }

EraseAddresses(t) ==
  /\ At(t, "erase_addresses")
  /\ GoToWith(t, "erase_user", AddressesToErase(frames[t].user))
  /\ UNCHANGED <<stores, cookies, linked, History>>

\* Faulty variant: the table has no foreign key to users that cascades.
LinksAfterDeletingOfNobody(u) == identities

\* external_identities without the rows of an account.
LinksAfterDeletingOf(u) == [m \in Members |-> IF identities[m] = u THEN 0 ELSE identities[m]]

\* DELETE FROM users takes the identities with it, and the transaction commits.
EraseUser(t) ==
  /\ At(t, "erase_user")
  /\ LET u == frames[t].user
     IN  /\ users' = [users EXCEPT ![u].status = "gone", ![u].email = "none"]
         /\ identities' = LinksAfterDeletingOf(u)
         /\ addresses' = addresses \ frames[t].seen
  /\ GoTo(t, "acknowledge")
  /\ UNCHANGED <<sessions, index, cookies, linked, History>>

\* The audit row, whose account if any is only named in `detail`, where no foreign
\* key watches, and the answer.
Acknowledge(t) ==
  /\ At(t, "acknowledge")
  /\ Promise(t)
  /\ Finish(t)
  /\ UNCHANGED <<stores, cookies, linked, served, overlapped>>

-----------------------------------------------------------------------------
(* The administrator's requests about an account                           *)

BeginAdmin(t, kind, u) ==
  /\ Begin(t, kind, users[u].member, "set_status", u, 0)
  /\ UNCHANGED <<stores, cookies, promised, linked>>

Suspended(row) == [row EXCEPT !.status = "suspended"]

Reinstated(row) == [row EXCEPT !.status = "active"]

SoftDeleted(row) == [row EXCEPT !.status = "deleted", !.email = "anonymised"]

\* The row as the handler's UPDATE leaves it, whatever its status was: also an
\* account deleted before is suspended or reinstated.
RowAfter(row, kind) ==
  IF row.status = "gone" THEN row
  ELSE CASE kind = "suspend"   -> Suspended(row)
         [] kind = "unsuspend" -> Reinstated(row)
         [] kind = "delete"    -> SoftDeleted(row)

\* What an administrator's handler does after its UPDATE.
AfterStatus(kind) ==
  CASE kind = "suspend"   -> "read_to_end"
    [] kind = "unsuspend" -> "audit"
    [] kind = "delete"    -> "unlink"

SetStatus(t) ==
  /\ At(t, "set_status")
  /\ users' = [users EXCEPT ![frames[t].user] = RowAfter(@, frames[t].kind)]
  /\ GoTo(t, AfterStatus(frames[t].kind))
  /\ UNCHANGED <<identities, addresses, sessions, index, cookies, linked, History>>

\* DELETE FROM external_identities WHERE user_id = the account's.
Unlink(t) ==
  /\ At(t, "unlink")
  /\ LET u == frames[t].user
     IN  /\ identities' = LinksAfterDeletingOf(u)
         /\ linked' = linked \ {u}
  /\ GoTo(t, "read_to_end")
  /\ UNCHANGED <<users, addresses, sessions, index, cookies, History>>

Audit(t) ==
  /\ At(t, "audit")
  /\ Finish(t)
  /\ UNCHANGED <<stores, cookies, linked, History>>

-----------------------------------------------------------------------------
Arrival(t) ==
  \/ \E m \in Members : BeginSignIn(t, m)
  \/ \E token \in cookies : BeginLogout(t, token)
  \/ \E kind \in {"user_deleted", "sessions_ended"}, m \in Members : BeginEvent(t, kind, m)
  \/ \E kind \in {"suspend", "unsuspend", "delete"}, u \in DOMAIN users :
       BeginAdmin(t, kind, u)

SignInStep(t) ==
  \/ LookUp(t) \/ ReadAccount(t) \/ Refresh(t) \/ InsertUser(t) \/ InsertIdentity(t)
  \/ AuditLogin(t) \/ PutSession(t) \/ ReadForAdding(t) \/ WriteAdded(t)

LogoutStep(t) ==
  FindSession(t) \/ DeleteSession(t) \/ ReadForRemoving(t) \/ WriteRemoved(t)

DestroyStep(t) == ReadToEnd(t) \/ EndOneSession(t) \/ DropIndex(t)

EventStep(t) == FindUser(t) \/ EraseAddresses(t) \/ EraseUser(t) \/ Acknowledge(t)

AdminStep(t) == SetStatus(t) \/ Unlink(t) \/ Audit(t)

AccountsNext ==
  \E t \in Threads :
    \/ Arrival(t) \/ SignInStep(t) \/ LogoutStep(t)
    \/ DestroyStep(t) \/ EventStep(t) \/ AdminStep(t) \/ Fail(t)

AccountsSpec == AccountsInit /\ [][AccountsNext]_accountsVars

-----------------------------------------------------------------------------
(* Properties                                                              *)

Points == {"idle", "look_up", "read_account", "refresh", "refresh_and_refuse",
           "insert_user", "insert_identity", "audit_login", "put_session",
           "read_for_adding", "write_added", "find_session", "delete_session",
           "read_for_removing", "write_removed", "find_user", "read_to_end",
           "end_sessions", "erase_addresses", "erase_user", "acknowledge",
           "set_status", "unlink", "audit"}

\* Every variable holds what its table or key may hold, and ids refer to rows.
AccountsTypeOK ==
  /\ \A u \in DOMAIN users : users[u] \in
       [member : Members, status : {"active", "suspended", "deleted", "gone"},
        email : {"real", "anonymised", "none"}]
  /\ \A u \in DOMAIN users : users[u].status = "gone" <=> users[u].email = "none"
  /\ identities \in [Members -> 0..Len(users)]
  /\ addresses \subseteq Token /\ sessions \subseteq Token /\ cookies \subseteq Token
  /\ index \in [Ids -> SUBSET Token]
  /\ \A t \in Threads : frames[t].at \in Points /\ frames[t].user \in 0..Len(users)
  /\ promised \subseteq Members /\ linked \subseteq DOMAIN users

\* external_identities never points at the wrong account: its row exists, and it
\* was created for that very member (budgetapp-auth.ts, "Map (iss, sub) to a
\* simtrader user"), whatever deletions and second sign-ins run beside a first one.
LinkIsOwn ==
  \A m \in Members :
    LET u == identities[m]
    IN  u # 0 => users[u].member = m /\ users[u].status # "gone"

\* Sessions some browser still holds, of one account.
LiveSessions(u) == { token \in sessions \cap cookies : token.user = u }

\* "Track tokens per user so we can bulk-invalidate" (session.ts, line 27): when
\* the sessions of a user have been ended, none that a browser holds is alive,
\* provided no two requests about that member ever ran at the same time; others'
\* requests, and requests that died half way, do not matter.
SessionsEndTogether ==
  [][\A t \in Threads :
       DropIndex(t) /\ frames[t].member \notin overlapped
         => LiveSessions(frames[t].user)' = {}]_accountsVars

\* Nothing personal is left of an account.
Erased(u) ==
  /\ users[u].status = "gone"
  /\ \A row \in addresses : row.user # u

\* A deletion that was acknowledged, perhaps after attempts that died half way,
\* holds for the accounts that had been linked to the member and that no
\* administrator had unlinked, again when no two of its requests overlapped.
PromiseKept ==
  \A m \in promised \ overlapped :
    /\ identities[m] = 0
    /\ \A u \in linked : users[u].member = m => Erased(u)

\* session.ts, line 27, without the proviso: between requests about a member, the
\* index names every live session a browser holds of the member's accounts.
IndexComplete ==
  \A u \in DOMAIN users :
    (\A t \in Threads : frames[t].at = "idle" \/ frames[t].member # users[u].member)
      => LiveSessions(u) \subseteq index[u]

\* lib/identity-events.ts, line 5: "So a 2xx from here is a promise: the data is
\* gone."  No account of the member keeps the email or an address.
DataIsGone ==
  \A m \in promised : \A u \in DOMAIN users :
    users[u].member = m =>
      users[u].email # "real" /\ \A row \in addresses : row.user # u

=============================================================================
