--------------------------- MODULE Administration ---------------------------
(***************************************************************************)
(* The Worker's gates and what administrators do behind them: the session  *)
(* middleware, requireAdmin, the requests of routes/admin/users.ts as the  *)
(* buttons of its pages send them, the audit trail, and the listing of     *)
(* users page by page.                                                     *)
(*                                                                         *)
(* A request stops at each await, where others run and where it may die.   *)
(* Accounts opens the sign-in, the events and the ending of sessions await *)
(* by await; here each of them is cut down to what an administrator's      *)
(* request can meet.                                                       *)
(***************************************************************************)
EXTENDS Naturals, Sequences, FiniteSets, SequencesExt

CONSTANTS
  People,       \* the accounts that may exist
  Founder,      \* an administrator from the beginning
  PageLimit,    \* rows on a page of a listing
  Threads,      \* requests that may be in flight at once
  MaxRequests,  \* bound: requests served
  MayFail       \* whether a request may die at an await

ASSUME AdministrationAssumption ==
  /\ Founder \in People /\ IsFiniteSet(People)
  /\ PageLimit \in Nat \ {0} /\ MaxRequests \in Nat
  /\ MayFail \in BOOLEAN

VARIABLES
  users,       \* users: [role, status] of each account
  roll,        \* the accounts created, in the order of created_at
  linked,      \* the accounts external_identities leads to
  sessions,    \* KV session:<token>, as [user, role, otp]
  tokens,      \* accounts with a saxo_tokens row not expired
  trail,       \* audit_log, oldest row first
  frames,      \* the requests in flight
  served,      \* requests started so far
  walk,        \* how far one client got through the pages of one listing
  firstRoles,  \* the role of each account to begin with (history)
  seen,        \* statuses of each account that open pages of an administrator may show (history)
  applied,     \* how often each account's role was set (history)
  overlapped,  \* accounts whose role two requests worked on at once (history)
  crossed,     \* accounts with a sign-in beside another or beside the ending of sessions (history)
  removed,     \* accounts an administrator's delete went through with (history)
  excused,     \* two administrators' changes met, or BudgetApp erased an administrator (history)
  shifted      \* a row left the users listing during the walk (history)

adminStores == <<users, roll, linked, sessions, tokens, trail>>

adminHistory == <<firstRoles, seen, overlapped, crossed, removed, excused, shifted>>

adminVars == <<adminStores, frames, served, walk, applied, adminHistory>>

Roles == {"user", "admin"}

Statuses == {"none", "active", "suspended", "deleted", "gone"}

\* What the cookie of somebody who has no session stands for.
Visitor(p) == [user |-> p, role |-> "user", otp |-> FALSE]

\* A request with a session's cookie, about its own user unless it says otherwise.
Request(point, kind, s) ==
  [at |-> point, kind |-> kind, by |-> s.user, copy |-> s.role, otp |-> s.otp,
   about |-> s.user, from |-> "user", to |-> "user", key |-> 0, signal |-> 0]

\* A request that is not running.
Idle == Request("idle", "none", Visitor(CHOOSE p \in People : TRUE))

NoWalk == [list |-> "none", last |-> 0, from |-> {}, shown |-> {}, over |-> FALSE]

-----------------------------------------------------------------------------
(* Pages an administrator has open                                         *)

\* The buttons the list and the detail page of an account offer.
Buttons(status) ==
  CASE status = "active"    -> {"suspend", "role", "delete", "expire"}
    [] status = "suspended" -> {"unsuspend", "role", "delete", "expire"}
    [] status = "deleted"   -> {"role", "delete", "expire"}
    [] OTHER                -> {}

ActsAsAdmin(s) ==
  /\ users[s.user].status = "active" /\ users[s.user].role = "admin"
  /\ s.otp

\* Whoever passes the gate may open the page of any account now, and keep it open.
MayShow(u) == IF \E s \in sessions : ActsAsAdmin(s) THEN {users[u].status} ELSE {}

-----------------------------------------------------------------------------
(* Initially some accounts are not created yet and some are suspended.     *)
(* The others have signed in, with a second factor if they administer.     *)

SignedIn(p, role) == [user |-> p, role |-> role, otp |-> role = "admin"]

AdminInit ==
  /\ firstRoles \in [People -> Roles]
  /\ \E first \in [People -> {"none", "active", "suspended"}] :
       /\ \A p \in People : first[p] = "none" => firstRoles[p] = "user"
       /\ firstRoles[Founder] = "admin" /\ first[Founder] = "active"
       /\ users = [p \in People |-> [role |-> firstRoles[p], status |-> first[p]]]
       /\ roll = SetToSeq({ p \in People : first[p] # "none" })
       /\ sessions = { SignedIn(p, firstRoles[p]) : p \in { q \in People : first[q] = "active" } }
  /\ linked = ToSet(roll)
  /\ tokens = ToSet(roll)
  /\ trail = << >>
  /\ frames = [t \in Threads |-> Idle]
  /\ served = 0
  /\ walk = NoWalk
  /\ seen = [u \in People |-> MayShow(u)]
  /\ applied = [p \in People |-> 0]
  /\ overlapped = {} /\ crossed = {} /\ removed = {}
  /\ excused = FALSE /\ shifted = FALSE

-----------------------------------------------------------------------------
(* Requests and their awaits                                               *)

At(t, point) == frames[t].at = point

\* Whether one more request may arrive at t.
Free(t) == At(t, "idle") /\ served < MaxRequests

Begin(t, frame) ==
  /\ Free(t)
  /\ served' = served + 1
  /\ frames' = [frames EXCEPT ![t] = frame]

GoTo(t, point) == frames' = [frames EXCEPT ![t].at = point]

Finish(t) == frames' = [frames EXCEPT ![t] = Idle]

\* Points where a request has written something already.
HalfWay == {"unlink", "end_sessions", "audit", "put_session"}

\* An exception ends the request and leaves what its statements did.  Where it did
\* nothing yet, it is as if the request had never come.
Fail(t) ==
  /\ MayFail /\ frames[t].at \in HalfWay
  /\ Finish(t)
  /\ UNCHANGED <<adminStores, served, walk, applied>>

\* Sign-in, cut down to the look-up with its check of the status (the first
\* sign-in of a newcomer creates the account) and the session put afterwards.
BeginSignIn(t, p, otp) ==
  /\ \/ p \in linked /\ users[p].status = "active"
     \/ users[p].status = "none"
  /\ Begin(t, Request("put_session", "sign_in",
                      [user |-> p, role |-> users[p].role, otp |-> otp]))
  /\ IF users[p].status = "none"
       THEN /\ users' = [users EXCEPT ![p].status = "active"]
            /\ roll' = Append(roll, p)
            /\ linked' = linked \cup {p}
       ELSE UNCHANGED <<users, roll, linked>>
  /\ UNCHANGED <<sessions, tokens, trail, walk, applied>>

PutSession(t) ==
  /\ At(t, "put_session")
  /\ sessions' = sessions \cup
       {[user |-> frames[t].by, role |-> frames[t].copy, otp |-> frames[t].otp]}
  /\ Finish(t)
  /\ UNCHANGED <<users, roll, linked, tokens, trail, served, walk, applied>>

-----------------------------------------------------------------------------
(* The gate                                                                *)

\* A button is pressed on a page that may be out of date.  With the request comes the
\* session's cookie; the first await reads its KV entry.
BeginAdmin(t, kind, s, u, role) ==
  /\ Begin(t, [Request("gate", kind, s) EXCEPT !.about = u, !.to = role])
  /\ kind = "role" \/ role = "user"
  /\ \E status \in seen[u] : kind \in Buttons(status)
  /\ UNCHANGED <<adminStores, walk, applied>>

\* Faulty variant: the role is the one the session was created with.
RoleGoingByCopy(frame) == frame.copy

\* sessionMiddleware: the role comes from the row, the methods from the session.
RoleGoingBy(frame) == users[frame.by].role

PassesAdminGate(frame) ==
  /\ users[frame.by].status = "active"
  /\ RoleGoingBy(frame) = "admin"
  /\ frame.otp

\* Faulty variant: administrators may do anything to themselves.
AimedAtOneselfNever(frame) == FALSE

\* Suspending, demoting or deleting oneself is answered with an error.
AimedAtOneself(frame) ==
  frame.kind \in {"suspend", "role", "delete"} /\ frame.about = frame.by

\* Where a handler goes once the gate let it through.
FirstPoint(kind) ==
  CASE kind = "role"       -> "read_role"
    [] kind = "create_key" -> "insert_key"
    [] kind = "revoke_key" -> "revoke"
    [] OTHER               -> "update"

\* Faulty variant: with the identity unlinked, the sessions are left to expire.
AfterLeavingSessions(kind, point) ==
  CASE point = "gate"      -> FirstPoint(kind)
    [] point = "read_role" -> "update"
    [] point = "update" /\ kind = "delete"  -> "unlink"
    [] point = "update" /\ kind = "suspend" -> "end_sessions"
    [] OTHER               -> "audit"

\* The order of a handler's awaits.
After(kind, point) ==
  CASE point = "gate"      -> FirstPoint(kind)
    [] point = "read_role" -> "update"
    [] point = "update" /\ kind = "delete"  -> "unlink"
    [] point = "update" /\ kind = "suspend" -> "end_sessions"
    [] point = "unlink"    -> "end_sessions"
    [] OTHER               -> "audit"

Proceed(t) == GoTo(t, After(frames[t].kind, frames[t].at))

Gate(t) ==
  /\ At(t, "gate")
  /\ IF PassesAdminGate(frames[t]) /\ ~AimedAtOneself(frames[t])
       THEN Proceed(t) ELSE Finish(t)
  /\ UNCHANGED <<adminStores, served, walk, applied>>

-----------------------------------------------------------------------------
(* The handlers of routes/admin/users.ts                                   *)

ReadRole(t) ==
  /\ At(t, "read_role")
  /\ frames' = [frames EXCEPT ![t].from = users[frames[t].about].role, ![t].at = "update"]
  /\ UNCHANGED <<adminStores, served, walk, applied>>

\* Faulty variant: the row is put back if it is gone.
RowAfterUpserting(row, frame) == [row EXCEPT !.status = "active"]

\* An account's row after a handler's UPDATE, whatever its status was; an erased
\* one has no row.
RowAfter(row, frame) ==
  IF row.status = "gone" \/ frame.kind = "expire" THEN row
  ELSE CASE frame.kind = "suspend"   -> [row EXCEPT !.status = "suspended"]
         [] frame.kind = "unsuspend" -> [row EXCEPT !.status = "active"]
         [] frame.kind = "delete"    -> [row EXCEPT !.status = "deleted"]
         [] frame.kind = "role"      -> [row EXCEPT !.role = frame.to]

Update(t) ==
  /\ At(t, "update")
  /\ LET f == frames[t]
     IN  /\ users' = [users EXCEPT ![f.about] = RowAfter(@, f)]
         /\ tokens' = IF f.kind = "expire" THEN tokens \ {f.about} ELSE tokens
         /\ applied' = IF f.kind = "role" THEN [applied EXCEPT ![f.about] = @ + 1]
                                          ELSE applied
  /\ Proceed(t)
  /\ UNCHANGED <<roll, linked, sessions, trail, served, walk>>

Unlink(t) ==
  /\ At(t, "unlink")
  /\ linked' = linked \ {frames[t].about}
  /\ Proceed(t)
  /\ UNCHANGED <<users, roll, sessions, tokens, trail, served, walk, applied>>

SessionsOf(u) == { s \in sessions : s.user = u }

\* destroyAllUserSessions, by what Accounts shows of it: all go, unless requests
\* that write the index of that user crossed.
EndSessions(t) ==
  /\ At(t, "end_sessions")
  /\ \E missed \in SUBSET SessionsOf(frames[t].about) :
       /\ missed # {} => frames[t].about \in crossed
       /\ sessions' = (sessions \ SessionsOf(frames[t].about)) \cup missed
  /\ Proceed(t)
  /\ UNCHANGED <<users, roll, linked, tokens, trail, served, walk, applied>>

\* Faulty variant: the role is looked up when the row is written.
FromInRowLate(frame) == users[frame.about].role

FromInRow(frame) == frame.from

AuditRow(frame) ==
  [action |-> frame.kind, about |-> frame.about, key |-> frame.key,
   from |-> FromInRow(frame), to |-> frame.to]

\* writeAudit: actor and target must be rows, else the INSERT is refused, the
\* request fails and what it did stays.
Recordable(frame) ==
  users[frame.by].status # "gone" /\ users[frame.about].status # "gone"

Audit(t) ==
  /\ At(t, "audit")
  /\ trail' = IF Recordable(frames[t]) THEN Append(trail, AuditRow(frames[t])) ELSE trail
  /\ Finish(t)
  /\ UNCHANGED <<users, roll, linked, sessions, tokens, served, walk, applied>>

-----------------------------------------------------------------------------
(* Beside the administrators                                               *)

\* BudgetApp's user.deleted, which Accounts takes apart.
EraseAccount(u) ==
  /\ served < MaxRequests /\ served' = served + 1
  /\ u \in linked
  /\ users' = [users EXCEPT ![u] = [role |-> "user", status |-> "gone"]]
  /\ linked' = linked \ {u}
  /\ sessions' = sessions \ SessionsOf(u)
  /\ tokens' = tokens \ {u}
  /\ \E i \in DOMAIN roll : roll[i] = u /\ roll' = RemoveAt(roll, i)
  /\ UNCHANGED <<trail, frames, walk, applied>>

\* The seed-admin command: role and audit row in one transaction.
SeedAdmin(u) ==
  /\ served < MaxRequests /\ served' = served + 1
  /\ u \in linked /\ users[u].role # "admin"
  /\ users' = [users EXCEPT ![u].role = "admin"]
  /\ trail' = Append(trail, [action |-> "role", about |-> u, key |-> 0,
                             from |-> "unsaid", to |-> "admin"])
  /\ applied' = [applied EXCEPT ![u] = @ + 1]
  /\ UNCHANGED <<roll, linked, sessions, tokens, frames, walk>>

-----------------------------------------------------------------------------
(* GET /admin/users, page after page                                       *)

Listed(u) == users[u].status \in {"active", "suspended"}

UsersListed == { u \in ToSet(roll) : Listed(u) }

\* ORDER BY created_at DESC: an account's place is how many are listed that were
\* created with or after it.
ListedSince(u) ==
  { v \in UsersListed : \E i, j \in DOMAIN roll : i <= j /\ roll[i] = u /\ roll[j] = v }

PlaceOf(u) == Cardinality(ListedSince(u))

OffsetOf(page) == (page - 1) * PageLimit

Page(page) ==
  { u \in UsersListed : PlaceOf(u) > OffsetOf(page) /\ PlaceOf(u) <= OffsetOf(page) + PageLimit }

\* paginate: the links at the foot of the page lead up to the last one.
LastPage(total) == (total + PageLimit - 1) \div PageLimit

\* Faulty variant: the first page's count is carried along in the links.
RowsCountedAtStart(page) ==
  Cardinality(IF page = 1 THEN UsersListed ELSE walk.from)

\* Each page counts the rows afresh.
RowsCounted(page) == Cardinality(UsersListed)

\* An administrator follows the links of an unfiltered listing to the end.  Page and
\* count are two statements; they are taken at one moment.
ListUsers ==
  /\ walk.list \in {"none", "users"} /\ ~walk.over
  /\ IF walk.list = "none" THEN served < MaxRequests /\ served' = served + 1
                          ELSE UNCHANGED served
  /\ \E s \in sessions : ActsAsAdmin(s)
  /\ LET page == walk.last + 1
     IN  walk' = [list |-> "users", last |-> page,
                  from |-> IF page = 1 THEN UsersListed ELSE walk.from,
                  shown |-> walk.shown \cup Page(page),
                  over |-> page >= LastPage(RowsCounted(page))]
  /\ UNCHANGED <<adminStores, frames, applied>>

-----------------------------------------------------------------------------
AdminArrival(t) ==
  /\ Free(t)
  /\ \/ \E p \in People, otp \in BOOLEAN : BeginSignIn(t, p, otp)
     \/ \E s \in sessions, u \in People,
           kind \in {"suspend", "unsuspend", "role", "delete", "expire"}, role \in Roles :
          BeginAdmin(t, kind, s, u, role)

\* Without Audit and EraseAccount, on which other tables and answers hang: the
\* module that has those completes them.
AdminStep ==
  \/ \E t \in Threads :
       \/ AdminArrival(t) \/ PutSession(t)
       \/ Gate(t) \/ ReadRole(t) \/ Update(t) \/ Unlink(t) \/ EndSessions(t) \/ Fail(t)
  \/ \E u \in People : SeedAdmin(u)
  \/ ListUsers

-----------------------------------------------------------------------------
(* What an observer remembers of a step                                    *)

TakingPower(f) ==
  f.kind \in {"suspend", "role", "delete"} /\ f.at \in {"read_role", "update"}

SettingRole(f) == f.kind = "role" /\ f.at \in {"update", "audit"}

Observe ==
  /\ UNCHANGED firstRoles
  /\ seen' = [u \in People |-> seen[u] \cup MayShow(u)']
  /\ overlapped' = overlapped \cup
       { u \in People : \E t \in Threads :
           /\ SettingRole(frames[t]) /\ frames[t].about = u /\ frames'[t] = frames[t]
           /\ \/ users'[u].role # users[u].role
              \/ \E s \in Threads \ {t} : SettingRole(frames'[s]) /\ frames'[s].about = u }
  /\ crossed' = crossed \cup
       { u \in People : \E t \in Threads, s \in Threads :
           /\ s # t /\ frames'[t].about = u /\ frames'[s].about = u
           /\ frames'[t].kind = "sign_in"
           /\ frames'[s].kind = "sign_in" \/ frames'[s].at = "end_sessions" }
  /\ removed' = removed \cup
       { frames'[t].about : t \in { s \in Threads :
           frames'[s].kind = "delete" /\ frames'[s].at = "audit" } }
  /\ excused' = \/ excused
                \/ \E t \in Threads, s \in Threads :
                     /\ TakingPower(frames'[t]) /\ TakingPower(frames'[s])
                     /\ frames'[t].by # frames'[s].by
                \/ \E u \in People : users[u].role = "admin" /\ users'[u].status = "gone"
  /\ shifted' = \/ shifted
                \/ walk.list = "users" /\ \E u \in UsersListed : ~Listed(u)'

-----------------------------------------------------------------------------
(* Properties                                                              *)

\* Every variable holds what its table or key may hold.
AdminTypeOK ==
  /\ users \in [People -> [role : Roles, status : Statuses]]
  /\ ToSet(roll) = { p \in People : users[p].status \notin {"none", "gone"} }
  /\ linked \subseteq ToSet(roll) /\ tokens \subseteq ToSet(roll)
  /\ sessions \subseteq [user : People, role : Roles, otp : BOOLEAN]
  /\ served \in 0..MaxRequests

\* Administrators never lock everyone out: with the row's role at the gate and
\* nobody acting on themselves, an active administrator is left after any number
\* of suspensions, demotions and deletions, unless two administrators' changes were
\* both past the gate at once or BudgetApp erased an administrator.
AnAdminRemains ==
  excused \/ \E u \in People : users[u].status = "active" /\ users[u].role = "admin"

\* An account whose deletion by an administrator went through admits nobody any
\* more, though a page still open may set it active again (users.ts, line 120),
\* unless a sign-in crossed another or the ending of its sessions.
NoWayBack == \A u \in removed \ crossed : SessionsOf(u) = {}

RoleRows(u) == { k \in DOMAIN trail : trail[k].action = "role" /\ trail[k].about = u }

\* The role account u has before row k, by the rows up to there.
RoleBefore(u, k) ==
  LET earlier == { j \in RoleRows(u) : j < k }
  IN  IF earlier = {} THEN firstRoles[u]
      ELSE trail[CHOOSE j \in earlier : \A i \in earlier : i <= j].to

\* The audit trail of an account accounts for its role: as long as no two role
\* changes overlapped, every row continues where the one before left off and the
\* last one names the role it has; rows a dying request left out are noticed.
TrailExplainsRole ==
  \A u \in People \ overlapped :
    (users[u].status # "gone" /\ Cardinality(RoleRows(u)) = applied[u]) =>
      /\ \A k \in RoleRows(u) : trail[k].from \in {RoleBefore(u, k), "unsaid"}
      /\ users[u].role = RoleBefore(u, Len(trail) + 1)

\* Whoever follows the pages of the users listing to the last link has been shown
\* every account listed at the start, though accounts are created meanwhile, unless
\* one left the listing.
UsersPagesComplete ==
  (walk.list = "users" /\ walk.over /\ ~shifted) => walk.from \subseteq walk.shown

=============================================================================
