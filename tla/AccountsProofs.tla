--------------------------- MODULE AccountsProofs ---------------------------
(***************************************************************************)
(* What the Worker's accounts and sessions guarantee for every set of      *)
(* members, every number of requests in flight and every interleaving of   *)
(* their awaits, checked by TLAPS.                                         *)
(***************************************************************************)
EXTENDS Accounts, SequenceTheorems, TLAPS

(***************************************************************************)
(* The strengthening, in four parts.  What the tables and the requests in  *)
(* flight hold; which account a request works on; what a request knows of  *)
(* the stores when nobody else works on its member; and what was promised. *)
(***************************************************************************)
Kinds == {"sign_in", "logout", "user_deleted", "sessions_ended",
          "suspend", "unsuspend", "delete"}

Row == [member : Members, status : {"active", "suspended", "deleted", "gone"},
        email : {"real", "anonymised", "none"}]

Request == [at : Points \ {"idle"}, kind : Kinds, member : Members,
            user : Nat, n : Nat, seen : SUBSET Token]

\* Part one: types.  Unlike AccountsTypeOK it says what a request carries.
StoresTyped ==
  /\ users \in Seq(Row) /\ Len(users) <= MaxUsers
  /\ identities \in [Members -> 0..Len(users)]
  /\ addresses \subseteq Token /\ sessions \subseteq Token /\ cookies \subseteq Token
  /\ index \in [Ids -> SUBSET Token]
  /\ frames \in [Threads -> Request \cup {Idle}]
  /\ served \in 0..MaxRequests
  /\ promised \subseteq Members /\ linked \subseteq DOMAIN users

GoneHasNoEmail ==
  \A u \in DOMAIN users : users[u].status = "gone" <=> users[u].email = "none"

\* A cookie names an account that was created, and a request that was served.
CookiesIssued ==
  \A c \in cookies : c.user \in DOMAIN users /\ c.n <= served

\* Part two: the kinds of request that reach a point of a handler.
KindsAt(point) ==
  CASE point \in {"look_up", "read_account", "refresh", "refresh_and_refuse", "insert_user",
                  "insert_identity", "audit_login", "put_session", "read_for_adding",
                  "write_added"} -> {"sign_in"}
    [] point \in {"find_session", "delete_session", "read_for_removing", "write_removed"}
         -> {"logout"}
    [] point \in {"read_to_end", "end_sessions"}
         -> {"user_deleted", "sessions_ended", "suspend", "delete"}
    [] point \in {"erase_addresses", "erase_user"} -> {"user_deleted"}
    [] point \in {"find_user", "acknowledge"} -> {"user_deleted", "sessions_ended"}
    [] point = "set_status" -> {"suspend", "unsuspend", "delete"}
    [] point = "unlink" -> {"delete"}
    [] point = "audit" -> {"suspend", "unsuspend", "delete"}

Unresolved == {"look_up", "insert_user", "find_user"}

\* Once a request knows its account, the account is one of its own member.
OnOwnAccount(t) ==
  frames[t].at # "idle" =>
    /\ frames[t].kind \in KindsAt(frames[t].at)
    /\ \/ frames[t].at \in Unresolved /\ frames[t].user = 0
       \/ /\ frames[t].user \in DOMAIN users
          /\ users[frames[t].user].member = frames[t].member
    /\ frames[t].kind \in {"sign_in", "logout"} => frames[t].n \in 1..served

RequestsOnOwnAccounts == \A t \in Threads : OnOwnAccount(t)

\* Part three: two requests about one member leave a trace in overlapped.
OverlapsRecorded ==
  \A s, t \in Threads :
    s # t /\ frames[s].at # "idle" /\ frames[t].at # "idle"
          /\ frames[s].member = frames[t].member
      => frames[s].member \in overlapped

\* A request that has its member to itself.
Alone(t) == frames[t].at # "idle" /\ frames[t].member \notin overlapped

\* The entry it read from the index is the entry as it is; the sessions it still
\* has to end are all there are; the addresses it picked are all there are; the
\* account it deletes is the one linked; and its token is a new one.
KnowsTheStores(t) ==
  Alone(t) =>
    LET f == frames[t]
    IN  /\ f.at \in {"write_added", "write_removed"} => f.seen = index[f.user]
        /\ f.at = "end_sessions" => LiveSessions(f.user) \subseteq f.seen
        /\ f.at = "erase_user" =>
             \A row \in addresses : row.user = f.user => row \in f.seen
        /\ f.kind = "user_deleted" =>
             /\ f.at \in {"read_to_end", "end_sessions", "erase_addresses", "erase_user"}
                  => identities[f.member] = f.user
             /\ f.at = "acknowledge" => identities[f.member] = 0
        /\ f.kind = "sign_in" =>
             /\ f.member \notin promised
             /\ \A c \in cookies : users[c.user].member = f.member => c.n # f.n

RequestsKnowTheStores == \A t \in Threads : KnowsTheStores(t)

\* Part four, for the members whose requests never overlapped: an account that
\* was linked and not unlinked is the one linked now or is erased; a member whose
\* deletion was acknowledged has none; and the index names every live session.
Settled(m) ==
  m \notin overlapped =>
    /\ \A u \in linked : users[u].member = m => identities[m] = u \/ Erased(u)
    /\ m \in promised => identities[m] = 0
    /\ \A u \in DOMAIN users : users[u].member = m => LiveSessions(u) \subseteq index[u]

MembersSettled == \A m \in Members : Settled(m)

AccountsInv ==
  /\ StoresTyped /\ GoneHasNoEmail /\ CookiesIssued
  /\ RequestsOnOwnAccounts /\ LinkIsOwn
  /\ OverlapsRecorded /\ RequestsKnowTheStores /\ MembersSettled

-----------------------------------------------------------------------------
(* Lemmas about requests                                                   *)

\* A request in flight is a request, with a member that exists.
LEMMA InFlight ==
  ASSUME StoresTyped, NEW t \in Threads, frames[t].at # "idle"
  PROVE  /\ frames[t] \in Request
         /\ frames[t].member \in Members /\ frames[t].kind \in Kinds
         /\ frames[t].user \in Nat /\ frames[t].n \in Nat /\ frames[t].seen \subseteq Token
BY DEF StoresTyped, Request, Idle

\* What a step of thread t does to the requests.
StepOf(t, f) == frames' = [frames EXCEPT ![t] = f]

LEMMA StepOfTyped ==
  ASSUME StoresTyped, NEW t \in Threads, NEW f \in Request \cup {Idle}, StepOf(t, f)
  PROVE  /\ frames' \in [Threads -> Request \cup {Idle}]
         /\ frames'[t] = f /\ \A s \in Threads \ {t} : frames'[s] = frames[s]
BY DEF StepOf, StoresTyped

\* The request of thread t at another point, with another account and set.
Moved(t, point, user, seen) ==
  [at |-> point, kind |-> frames[t].kind, member |-> frames[t].member,
   user |-> user, n |-> frames[t].n, seen |-> seen]

LEMMA MovedIsRequest ==
  ASSUME StoresTyped, NEW t \in Threads, frames[t].at # "idle",
         NEW point \in Points \ {"idle"}, NEW user \in Nat, NEW seen \in SUBSET Token
  PROVE  Moved(t, point, user, seen) \in Request
BY InFlight DEF Moved, Request

LEMMA GoToMoves ==
  ASSUME StoresTyped, NEW t \in Threads, frames[t].at # "idle", NEW point,
         GoTo(t, point)
  PROVE  StepOf(t, Moved(t, point, frames[t].user, frames[t].seen))
<1>1. frames[t] \in Request
  BY InFlight
<1>2. [frames[t] EXCEPT !.at = point] = Moved(t, point, frames[t].user, frames[t].seen)
  BY <1>1 DEF Request, Moved
<1>3. frames' = [frames EXCEPT ![t] = [frames[t] EXCEPT !.at = point]]
  BY DEF GoTo
<1>. QED
  BY <1>2, <1>3 DEF StepOf

LEMMA GoToWithMoves ==
  ASSUME StoresTyped, NEW t \in Threads, frames[t].at # "idle", NEW point, NEW seen,
         GoToWith(t, point, seen)
  PROVE  StepOf(t, Moved(t, point, frames[t].user, seen))
<1>1. frames[t] \in Request
  BY InFlight
<1>. DEFINE there == Moved(t, point, frames[t].user, frames[t].seen)
<1>2. [frames[t] EXCEPT !.at = point] = there
  BY <1>1 DEF Request, Moved
<1>3. [there EXCEPT !.seen = seen] = Moved(t, point, frames[t].user, seen)
  BY DEF Moved
<1>4. frames' = [frames EXCEPT ![t] = [there EXCEPT !.seen = seen]]
  BY <1>1, <1>2 DEF GoToWith, StoresTyped
<1>. QED
  BY <1>3, <1>4 DEF StepOf

LEMMA ResolvesMoves ==
  ASSUME StoresTyped, NEW t \in Threads, frames[t].at # "idle", NEW point, NEW user,
         frames' = [frames EXCEPT ![t].at = point, ![t].user = user]
  PROVE  StepOf(t, Moved(t, point, user, frames[t].seen))
<1>1. frames[t] \in Request
  BY InFlight
<1>. DEFINE there == Moved(t, point, frames[t].user, frames[t].seen)
<1>2. [frames[t] EXCEPT !.at = point] = there
  BY <1>1 DEF Request, Moved
<1>3. [there EXCEPT !.user = user] = Moved(t, point, user, frames[t].seen)
  BY DEF Moved
<1>4. frames' = [frames EXCEPT ![t] = [there EXCEPT !.user = user]]
  BY <1>1, <1>2 DEF GoToWith, StoresTyped
<1>. QED
  BY <1>3, <1>4 DEF StepOf

\* A row that exists has a number and the columns of the table.
LEMMA RowExists ==
  ASSUME StoresTyped, NEW u \in DOMAIN users
  PROVE  /\ u \in Nat \ {0} /\ u \in 1..Len(users) /\ u \in Ids
         /\ users[u] \in Row /\ users[u].member \in Members
<1>1. u \in 1..Len(users) /\ users[u] \in Row /\ Len(users) \in Nat
  BY DEF StoresTyped
<1>2. u \in Ids
  BY <1>1, AccountsAssumption DEF StoresTyped, Ids
<1>. QED
  BY <1>1, <1>2 DEF Row

\* A request that was served, for an account that exists, makes a token.
LEMMA TokenTyped ==
  ASSUME StoresTyped, NEW u \in DOMAIN users, NEW n \in 1..served
  PROVE  [user |-> u, n |-> n] \in Token
<1>1. served \in 0..MaxRequests
  BY DEF StoresTyped
<1>2. n \in 1..MaxRequests
  BY <1>1, AccountsAssumption
<1>. QED
  BY <1>2, RowExists DEF Token

-----------------------------------------------------------------------------
(* Types, and the account a request works on                               *)

\* Rows stay what they are for: none changes its member, none comes back.
RowsKept ==
  \A u \in DOMAIN users :
    /\ u \in DOMAIN users' /\ users'[u].member = users[u].member
    /\ users[u].status = "gone" => users'[u].status = "gone"

OthersKept(t) == \A s \in Threads \ {t} : frames'[s] = frames[s]

WellTyped ==
  StoresTyped /\ GoneHasNoEmail /\ CookiesIssued /\ RequestsOnOwnAccounts /\ LinkIsOwn

\* What is shown of a step of thread t.
TablesTyped ==
  StoresTyped' /\ GoneHasNoEmail' /\ CookiesIssued' /\ LinkIsOwn' /\ RowsKept

WellTypedStep(t) == TablesTyped /\ served <= served' /\ OthersKept(t) /\ OnOwnAccount(t)'

\* The types of the tables survive a step that only moves a request.
LEMMA TablesUntouched ==
  ASSUME WellTyped, UNCHANGED stores, frames' \in [Threads -> Request \cup {Idle}],
         served' \in 0..MaxRequests, served <= served', cookies' \subseteq cookies,
         promised' \subseteq Members, linked' \subseteq linked
  PROVE  TablesTyped
<1>. USE DEF WellTyped, stores
<1>1. StoresTyped'
  BY DEF StoresTyped
<1>2. GoneHasNoEmail' /\ LinkIsOwn' /\ RowsKept
  BY DEF GoneHasNoEmail, LinkIsOwn, RowsKept
<1>3. CookiesIssued'
  <2>1. \A c \in cookies : c.n \in Nat
    BY DEF StoresTyped, Token
  <2>. QED
    BY <2>1 DEF CookiesIssued, StoresTyped
<1>. QED
  BY <1>1, <1>2, <1>3 DEF TablesTyped

LEMMA ArrivalWellTyped ==
  ASSUME WellTyped, NEW t \in Threads, Arrival(t)
  PROVE  WellTypedStep(t)
<1>. StoresTyped
  BY DEF WellTyped
<1>1. ASSUME NEW at \in Points \ {"idle"}, NEW kind \in Kinds, NEW m \in Members,
             NEW user \in Nat, NEW n \in Nat, Begin(t, kind, m, at, user, n),
             promised' \subseteq promised, UNCHANGED <<stores, cookies, linked>>,
             kind \in KindsAt(at),
             \/ at \in Unresolved /\ user = 0
             \/ user \in DOMAIN users /\ users[user].member = m,
             kind \in {"sign_in", "logout"} => n \in 1..served + 1
      PROVE  WellTypedStep(t)
  <2>. DEFINE f == [at |-> at, kind |-> kind, member |-> m,
                    user |-> user, n |-> n, seen |-> {}]
  <2>1. f \in Request /\ StepOf(t, f)
    BY <1>1 DEF Begin, Request, StepOf
  <2>2. served' = served + 1 /\ served' \in 0..MaxRequests /\ served <= served'
    BY <1>1, AccountsAssumption DEF Begin, StoresTyped
  <2>3. TablesTyped
    BY <1>1, <2>1, <2>2, StepOfTyped, TablesUntouched DEF StoresTyped
  <2>4. frames'[t] = f
    BY <2>1, StepOfTyped
  <2>5. OnOwnAccount(t)'
    BY <1>1, <2>2, <2>4 DEF OnOwnAccount, stores
  <2>6. OthersKept(t)
    BY <2>1, StepOfTyped DEF OthersKept
  <2>. QED
    BY <2>2, <2>3, <2>5, <2>6 DEF WellTypedStep
<1>2. ASSUME NEW m \in Members, BeginSignIn(t, m)
      PROVE  WellTypedStep(t)
  <2>1. served + 1 \in Nat /\ served + 1 \in 1..served + 1
    BY DEF StoresTyped
  <2>. QED
    BY <1>1, <1>2, <2>1 DEF BeginSignIn, KindsAt, Unresolved, Points, Kinds
<1>3. ASSUME NEW token \in cookies, BeginLogout(t, token)
      PROVE  WellTypedStep(t)
  <2>1. /\ token.user \in DOMAIN users /\ token.user \in Nat
        /\ users[token.user].member \in Members
    BY RowExists DEF WellTyped, CookiesIssued
  <2>2. token.n \in Nat /\ token.n \in 1..served + 1
    BY DEF WellTyped, CookiesIssued, StoresTyped, Token
  <2>. QED
    BY <1>1, <1>3, <2>1, <2>2 DEF BeginLogout, KindsAt, Points, Kinds
<1>4. ASSUME NEW kind \in {"user_deleted", "sessions_ended"}, NEW m \in Members,
             BeginEvent(t, kind, m)
      PROVE  WellTypedStep(t)
  BY <1>1, <1>4 DEF BeginEvent, KindsAt, Unresolved, Points, Kinds
<1>5. ASSUME NEW kind \in {"suspend", "unsuspend", "delete"}, NEW u \in DOMAIN users,
             BeginAdmin(t, kind, u)
      PROVE  WellTypedStep(t)
  <2>1. users[u].member \in Members /\ u \in Nat
    BY RowExists
  <2>. QED
    BY <1>1, <1>5, <2>1 DEF BeginAdmin, KindsAt, Points, Kinds
<1>. QED
  BY <1>2, <1>3, <1>4, <1>5 DEF Arrival

\* A request in flight goes on, or ends.
LEMMA MovedWellTyped ==
  ASSUME WellTyped, NEW t \in Threads, frames[t].at # "idle",
         NEW point \in Points \ {"idle"}, NEW user \in Nat, NEW seen \in SUBSET Token,
         StepOf(t, Moved(t, point, user, seen)), TablesTyped, UNCHANGED served,
         frames[t].kind \in KindsAt(point),
         \/ point \in Unresolved /\ user = 0
         \/ user \in DOMAIN users' /\ users'[user].member = frames[t].member
  PROVE  WellTypedStep(t)
<1>. StoresTyped
  BY DEF WellTyped
<1>1. Moved(t, point, user, seen) \in Request
  BY MovedIsRequest
<1>2. frames'[t] = Moved(t, point, user, seen) /\ OthersKept(t)
  BY <1>1, StepOfTyped DEF OthersKept
<1>3. OnOwnAccount(t)'
  BY <1>2 DEF OnOwnAccount, Moved, WellTyped, RequestsOnOwnAccounts
<1>. QED
  BY <1>2, <1>3 DEF WellTypedStep, StoresTyped

LEMMA FinishedWellTyped ==
  ASSUME WellTyped, NEW t \in Threads, Finish(t), TablesTyped, UNCHANGED served
  PROVE  WellTypedStep(t)
<1>1. frames'[t] = Idle /\ OthersKept(t)
  BY StepOfTyped DEF WellTyped, Finish, StepOf, OthersKept
<1>2. Idle.at = "idle"
  BY DEF Idle
<1>. QED
  BY <1>1, <1>2 DEF OnOwnAccount, WellTypedStep, WellTyped, StoresTyped

\* Where only the request moves, its tables need no second look.
LEMMA MovesFrames ==
  ASSUME WellTyped, NEW t \in Threads, NEW f \in Request \cup {Idle}, StepOf(t, f),
         UNCHANGED <<stores, served>>, cookies' \subseteq cookies,
         promised' \subseteq Members, linked' \subseteq linked
  PROVE  TablesTyped
<1>. StoresTyped
  BY DEF WellTyped
<1>1. frames' \in [Threads -> Request \cup {Idle}]
  BY StepOfTyped
<1>. QED
  BY <1>1, TablesUntouched DEF StoresTyped

\* A row rewritten in place, where a row that is gone stays gone.
LEMMA RowRewritten ==
  ASSUME WellTyped, NEW u \in DOMAIN users, NEW row \in Row,
         row.member = users[u].member, row.status = "gone" <=> row.email = "none",
         users[u].status = "gone" => row.status = "gone",
         users' = [users EXCEPT ![u] = row]
  PROVE  /\ users' \in Seq(Row) /\ Len(users') = Len(users) /\ DOMAIN users' = DOMAIN users
         /\ users'[u] = row /\ \A v \in DOMAIN users \ {u} : users'[v] = users[v]
         /\ GoneHasNoEmail' /\ RowsKept
<1>1. users \in Seq(Row)
  BY DEF WellTyped, StoresTyped
<1>2. users' \in Seq(Row) /\ Len(users') = Len(users) /\ DOMAIN users' = DOMAIN users
  BY <1>1, ExceptSeq
<1>3. users'[u] = row /\ \A v \in DOMAIN users \ {u} : users'[v] = users[v]
  BY <1>1
<1>4. GoneHasNoEmail' /\ RowsKept
  BY <1>2, <1>3 DEF WellTyped, GoneHasNoEmail, RowsKept
<1>. QED
  BY <1>2, <1>3, <1>4

\* A row rewritten that is neither erased nor moved keeps all tables typed.
LEMMA RowEdited ==
  ASSUME WellTyped, NEW u \in DOMAIN users, NEW row \in Row,
         row.member = users[u].member, row.status = "gone" <=> row.email = "none",
         users[u].status = "gone" <=> row.status = "gone",
         users' = [users EXCEPT ![u] = row],
         UNCHANGED <<identities, addresses, sessions, index, cookies, linked, served, promised>>,
         frames' \in [Threads -> Request \cup {Idle}]
  PROVE  TablesTyped
<1>1. /\ users' \in Seq(Row) /\ Len(users') = Len(users) /\ DOMAIN users' = DOMAIN users
      /\ users'[u] = row /\ \A v \in DOMAIN users \ {u} : users'[v] = users[v]
      /\ GoneHasNoEmail' /\ RowsKept
  BY RowRewritten
<1>2. StoresTyped'
  BY <1>1 DEF WellTyped, StoresTyped
<1>3. CookiesIssued'
  BY <1>1 DEF WellTyped, CookiesIssued
<1>4. LinkIsOwn'
  <2>1. \A m \in Members : identities[m] # 0 => identities[m] \in DOMAIN users
    BY DEF WellTyped, StoresTyped
  <2>. QED
    BY <1>1, <2>1 DEF WellTyped, LinkIsOwn
<1>. QED
  BY <1>1, <1>2, <1>3, <1>4 DEF TablesTyped

\* A step after which nothing has changed but where the request stands.
LEMMA OnlyMoves ==
  ASSUME WellTyped, NEW t \in Threads, frames[t].at # "idle",
         NEW point \in Points \ {"idle"}, NEW user \in Nat, NEW seen \in SUBSET Token,
         StepOf(t, Moved(t, point, user, seen)), frames[t].kind \in KindsAt(point),
         UNCHANGED <<stores, cookies, linked, served, promised>>,
         \/ point \in Unresolved /\ user = 0
         \/ user \in DOMAIN users /\ users[user].member = frames[t].member
  PROVE  WellTypedStep(t)
<1>1. StoresTyped
  BY DEF WellTyped
<1>2. Moved(t, point, user, seen) \in Request
  BY <1>1, MovedIsRequest
<1>3. TablesTyped
  BY <1>1, <1>2, MovesFrames DEF StoresTyped
<1>. QED
  BY <1>3, MovedWellTyped DEF stores

LEMMA OnlyEnds ==
  ASSUME WellTyped, NEW t \in Threads, Finish(t),
         UNCHANGED <<stores, cookies, linked, served, promised>>
  PROVE  WellTypedStep(t)
<1>1. TablesTyped
  BY MovesFrames DEF WellTyped, StoresTyped, Finish, StepOf
<1>. QED
  BY <1>1, FinishedWellTyped

LEMMA SignInWellTyped ==
  ASSUME WellTyped, NEW t \in Threads, SignInStep(t)
  PROVE  WellTypedStep(t)
<1>. DEFINE u == frames[t].user
            m == frames[t].member
            seen == frames[t].seen
<1>. USE DEF At, History
<1>1. StoresTyped /\ OnOwnAccount(t)
  BY DEF WellTyped, RequestsOnOwnAccounts
<1>2. frames[t].at # "idle"
  BY DEF SignInStep, LookUp, ReadAccount, Refresh, InsertUser, InsertIdentity, 
    AuditLogin, PutSession, ReadForAdding, WriteAdded
<1>3. frames[t] \in Request /\ u \in Nat /\ seen \in SUBSET Token /\ m \in Members
  BY <1>1, <1>2, InFlight
<1>4. CASE LookUp(t)
  <2>. DEFINE user == identities[m]
              point == IF user # 0 THEN "read_account" ELSE "insert_user"
  <2>1. StepOf(t, Moved(t, point, user, seen))
    BY <1>1, <1>2, <1>4, ResolvesMoves DEF LookUp
  <2>2. user \in Nat /\ (user # 0 => user \in DOMAIN users /\ users[user].member = m)
    BY <1>1, <1>3 DEF WellTyped, LinkIsOwn, StoresTyped
  <2>3. frames[t].kind \in KindsAt(point)
    BY <1>1, <1>4 DEF LookUp, OnOwnAccount, KindsAt
  <2>. QED
    BY <1>1, <1>2, <1>3, <1>4, <2>1, <2>2, <2>3, OnlyMoves DEF LookUp, Points, Unresolved
<1>5. CASE ReadAccount(t)
  <2>. DEFINE point == IF users[u].status = "active" THEN "refresh" ELSE "refresh_and_refuse"
  <2>1. users[u].status # "gone" => StepOf(t, Moved(t, point, u, seen))
    BY <1>1, <1>2, <1>5, GoToMoves DEF ReadAccount
  <2>2. u \in DOMAIN users /\ users[u].member = m /\ frames[t].kind \in KindsAt(point)
    BY <1>1, <1>5 DEF ReadAccount, OnOwnAccount, KindsAt, Unresolved
  <2>. QED
    BY <1>2, <1>3, <1>5, <2>1, <2>2, OnlyMoves, OnlyEnds DEF ReadAccount, Points, Unresolved
<1>6. CASE Refresh(t)
  <2>1. u \in DOMAIN users /\ users[u].member = m /\ frames[t].kind \in KindsAt("audit_login")
    BY <1>1, <1>6 DEF Refresh, OnOwnAccount, KindsAt, Unresolved
  <2>2. users[u] \in Row /\ (users[u].status = "gone" <=> users[u].email = "none")
    BY <1>1, <2>1, RowExists DEF WellTyped, GoneHasNoEmail
  <2>. DEFINE row == Refreshed(users[u])
  <2>3. /\ row \in Row /\ row.member = users[u].member
        /\ row.status = users[u].status /\ (row.status = "gone" <=> row.email = "none")
    BY <2>2 DEF Refreshed, Row
  <2>4. users' = [users EXCEPT ![u] = row]
    BY <1>6 DEF Refresh
  <2>5. CASE At(t, "refresh")
    <3>1. StepOf(t, Moved(t, "audit_login", u, seen))
      BY <1>1, <1>2, <1>6, <2>5, GoToMoves DEF Refresh
    <3>2. Moved(t, "audit_login", u, seen) \in Request
      BY <1>1, <1>2, <1>3, MovedIsRequest DEF Points
    <3>3. frames' \in [Threads -> Request \cup {Idle}]
      BY <1>1, <3>1, <3>2, StepOfTyped
    <3>4. TablesTyped
      BY <1>6, <2>1, <2>3, <2>4, <3>3, RowEdited DEF Refresh
    <3>. QED
      BY <1>2, <1>3, <1>6, <2>1, <3>1, <3>4, MovedWellTyped DEF Refresh, TablesTyped, RowsKept,
        Points
  <2>6. CASE ~At(t, "refresh")
    <3>1. Finish(t)
      BY <1>6, <2>6 DEF Refresh
    <3>2. frames' \in [Threads -> Request \cup {Idle}]
      BY <1>1, <3>1 DEF Finish, StoresTyped
    <3>3. TablesTyped
      BY <1>6, <2>1, <2>3, <2>4, <3>2, RowEdited DEF Refresh
    <3>. QED
      BY <1>6, <3>1, <3>3, FinishedWellTyped DEF Refresh
  <2>. QED
    BY <2>5, <2>6
<1>7. CASE InsertUser(t)
  <2>. DEFINE new == Len(users) + 1
              row == [member |-> m, status |-> "active", email |-> "real"]
  <2>1. row \in Row /\ users \in Seq(Row) /\ users' = Append(users, row) /\ new \in Nat
    BY <1>1, <1>3, <1>7 DEF Row, StoresTyped, InsertUser
  <2>2. /\ users' \in Seq(Row) /\ Len(users') = new /\ DOMAIN users = 1..Len(users)
        /\ DOMAIN users' = 1..new /\ users'[new] = row
        /\ \A v \in DOMAIN users : users'[v] = users[v]
    BY <2>1, AppendProperties
  <2>3. StepOf(t, Moved(t, "insert_identity", new, seen))
    BY <1>1, <1>2, <1>7, ResolvesMoves DEF InsertUser
  <2>4. Moved(t, "insert_identity", new, seen) \in Request
    BY <1>1, <1>2, <1>3, <2>1, MovedIsRequest DEF Points
  <2>5. frames' \in [Threads -> Request \cup {Idle}]
    BY <1>1, <2>3, <2>4, StepOfTyped
  <2>6. Len(users) \in Nat /\ Len(users) < new /\ new <= MaxUsers
    BY <1>7, <2>1, AccountsAssumption DEF InsertUser
  <2>7. StoresTyped'
    <3>1. identities' \in [Members -> 0..new] /\ linked' \subseteq DOMAIN users'
      BY <1>1, <1>7, <2>2, <2>6 DEF StoresTyped, InsertUser
    <3>. QED
      BY <1>1, <1>7, <2>2, <2>5, <2>6, <3>1 DEF StoresTyped, InsertUser, History
  <2>8. GoneHasNoEmail' /\ RowsKept
    BY <2>2 DEF WellTyped, GoneHasNoEmail, RowsKept
  <2>9. CookiesIssued'
    BY <1>7, <2>2 DEF WellTyped, CookiesIssued, InsertUser
  <2>10. LinkIsOwn'
    <3>1. \A k \in Members : identities[k] # 0 => identities[k] \in DOMAIN users
      BY DEF WellTyped, StoresTyped
    <3>. QED
      BY <1>7, <2>2, <3>1 DEF WellTyped, LinkIsOwn, InsertUser
  <2>11. TablesTyped
    BY <2>7, <2>8, <2>9, <2>10 DEF TablesTyped
  <2>12. frames[t].kind \in KindsAt("insert_identity")
    BY <1>1, <1>7 DEF InsertUser, OnOwnAccount, KindsAt
  <2>. QED
    BY <1>2, <1>3, <1>7, <2>1, <2>2, <2>3, <2>6, <2>11, <2>12, MovedWellTyped
      DEF InsertUser, Points
<1>8. CASE InsertIdentity(t)
  <2>1. u \in DOMAIN users /\ users[u].member = m /\ frames[t].kind \in KindsAt("audit_login")
    BY <1>1, <1>8 DEF InsertIdentity, OnOwnAccount, KindsAt, Unresolved
  <2>2. CASE identities[m] # 0 \/ users[u].status = "gone"
    BY <1>8, <2>2, OnlyEnds DEF InsertIdentity, stores
  <2>3. CASE ~(identities[m] # 0 \/ users[u].status = "gone")
    <3>1. /\ identities' = [identities EXCEPT ![m] = u] /\ linked' = linked \cup {u}
          /\ StepOf(t, Moved(t, "audit_login", u, seen))
      BY <1>1, <1>2, <1>8, <2>3, GoToMoves DEF InsertIdentity
    <3>2. Moved(t, "audit_login", u, seen) \in Request
      BY <1>1, <1>2, <1>3, MovedIsRequest DEF Points
    <3>3. frames' \in [Threads -> Request \cup {Idle}]
      BY <1>1, <3>1, <3>2, StepOfTyped
    <3>4. u \in 0..Len(users)
      BY <1>1, <2>1, RowExists
    <3>5. StoresTyped'
      BY <1>1, <1>8, <2>1, <3>1, <3>3, <3>4 DEF StoresTyped, InsertIdentity
    <3>6. GoneHasNoEmail' /\ RowsKept /\ CookiesIssued'
      BY <1>8 DEF InsertIdentity, WellTyped, GoneHasNoEmail, RowsKept, CookiesIssued
    <3>7. LinkIsOwn'
      BY <1>1, <1>8, <2>1, <2>3, <3>1 DEF InsertIdentity, WellTyped, LinkIsOwn, StoresTyped
    <3>8. TablesTyped
      BY <3>5, <3>6, <3>7 DEF TablesTyped
    <3>. QED
      BY <1>2, <1>3, <1>8, <2>1, <3>1, <3>8, MovedWellTyped DEF InsertIdentity, Points
  <2>. QED
    BY <2>2, <2>3
<1>9. CASE AuditLogin(t)
  <2>1. /\ u \in DOMAIN users /\ users[u].member = m /\ frames[t].kind \in KindsAt("put_session")
        /\ frames[t].n \in 1..served
    BY <1>1, <1>9 DEF AuditLogin, OnOwnAccount, KindsAt, Unresolved
  <2>2. CASE users[u].status = "gone"
    BY <1>9, <2>2, OnlyEnds DEF AuditLogin, stores
  <2>3. CASE users[u].status # "gone"
    <3>1. /\ addresses' = addresses \cup {[user |-> u, n |-> frames[t].n]}
          /\ StepOf(t, Moved(t, "put_session", u, seen))
      BY <1>1, <1>2, <1>9, <2>3, GoToMoves DEF AuditLogin
    <3>2. Moved(t, "put_session", u, seen) \in Request
      BY <1>1, <1>2, <1>3, MovedIsRequest DEF Points
    <3>3. frames' \in [Threads -> Request \cup {Idle}]
      BY <1>1, <3>1, <3>2, StepOfTyped
    <3>4. [user |-> u, n |-> frames[t].n] \in Token
      BY <1>1, <2>1, TokenTyped
    <3>5. StoresTyped'
      BY <1>1, <1>9, <3>1, <3>3, <3>4 DEF StoresTyped, AuditLogin
    <3>6. GoneHasNoEmail' /\ RowsKept /\ CookiesIssued' /\ LinkIsOwn'
      BY <1>9 DEF AuditLogin, WellTyped, GoneHasNoEmail, RowsKept, CookiesIssued, LinkIsOwn
    <3>7. TablesTyped
      BY <3>5, <3>6 DEF TablesTyped
    <3>. QED
      BY <1>2, <1>3, <1>9, <2>1, <3>1, <3>7, MovedWellTyped DEF AuditLogin, Points
  <2>. QED
    BY <2>2, <2>3
<1>10. CASE PutSession(t)
  <2>1. /\ u \in DOMAIN users /\ users[u].member = m
        /\ frames[t].kind \in KindsAt("read_for_adding") /\ frames[t].n \in 1..served
    BY <1>1, <1>10 DEF PutSession, OnOwnAccount, KindsAt, Unresolved
  <2>2. StepOf(t, Moved(t, "read_for_adding", u, seen))
    BY <1>1, <1>2, <1>10, GoToMoves DEF PutSession
  <2>3. Moved(t, "read_for_adding", u, seen) \in Request
    BY <1>1, <1>2, <1>3, MovedIsRequest DEF Points
  <2>4. frames' \in [Threads -> Request \cup {Idle}]
    BY <1>1, <2>2, <2>3, StepOfTyped
  <2>5. NewToken(t) \in Token
    BY <1>1, <2>1, RowExists, TokenTyped DEF NewToken
  <2>6. StoresTyped'
    BY <1>1, <1>10, <2>4, <2>5 DEF StoresTyped, PutSession
  <2>7. GoneHasNoEmail' /\ RowsKept /\ CookiesIssued' /\ LinkIsOwn'
    BY <1>10 DEF PutSession, WellTyped, GoneHasNoEmail, RowsKept, CookiesIssued, LinkIsOwn
  <2>8. TablesTyped
    BY <2>6, <2>7 DEF TablesTyped
  <2>. QED
    BY <1>2, <1>3, <1>10, <2>1, <2>2, <2>8, MovedWellTyped DEF PutSession, Points
<1>11. CASE ReadForAdding(t)
  <2>1. u \in DOMAIN users /\ users[u].member = m /\ frames[t].kind \in KindsAt("write_added")
    BY <1>1, <1>11 DEF ReadForAdding, OnOwnAccount, KindsAt, Unresolved
  <2>2. index[u] \in SUBSET Token
    BY <1>1, <2>1, RowExists DEF StoresTyped
  <2>3. StepOf(t, Moved(t, "write_added", u, index[u]))
    BY <1>1, <1>2, <1>11, GoToWithMoves DEF ReadForAdding
  <2>. QED
    BY <1>2, <1>3, <1>11, <2>1, <2>2, <2>3, OnlyMoves DEF ReadForAdding, Points
<1>12. CASE WriteAdded(t)
  <2>1. u \in DOMAIN users /\ users[u].member = m /\ frames[t].n \in 1..served
    BY <1>1, <1>12 DEF WriteAdded, OnOwnAccount, KindsAt, Unresolved
  <2>2. NewToken(t) \in Token /\ u \in Ids
    BY <1>1, <2>1, RowExists, TokenTyped DEF NewToken
  <2>3. frames' \in [Threads -> Request \cup {Idle}]
    BY <1>1, <1>12 DEF WriteAdded, Finish, StoresTyped
  <2>4. StoresTyped'
    <3>1. IndexWith(seen, NewToken(t)) \in SUBSET Token
      BY <1>3, <2>2 DEF IndexWith
    <3>. QED
      BY <1>1, <1>12, <2>2, <2>3, <3>1 DEF StoresTyped, WriteAdded
  <2>5. CookiesIssued'
    BY <1>1, <1>12, <2>1 DEF WriteAdded, WellTyped, CookiesIssued, NewToken, StoresTyped
  <2>6. GoneHasNoEmail' /\ RowsKept /\ LinkIsOwn'
    BY <1>12 DEF WriteAdded, WellTyped, GoneHasNoEmail, RowsKept, LinkIsOwn
  <2>7. TablesTyped
    BY <2>4, <2>5, <2>6 DEF TablesTyped
  <2>. QED
    BY <1>12, <2>7, FinishedWellTyped DEF WriteAdded
<1>. QED
  BY <1>4, <1>5, <1>6, <1>7, <1>8, <1>9, <1>10, <1>11, <1>12 DEF SignInStep

LEMMA LogoutWellTyped ==
  ASSUME WellTyped, NEW t \in Threads, LogoutStep(t)
  PROVE  WellTypedStep(t)
<1>. DEFINE u == frames[t].user
            m == frames[t].member
            seen == frames[t].seen
<1>. USE DEF At, History
<1>1. StoresTyped /\ OnOwnAccount(t)
  BY DEF WellTyped, RequestsOnOwnAccounts
<1>2. frames[t].at # "idle"
  BY DEF LogoutStep, FindSession, DeleteSession, ReadForRemoving, WriteRemoved
<1>3. frames[t] \in Request /\ u \in Nat /\ seen \in SUBSET Token /\ m \in Members
  BY <1>1, <1>2, InFlight
<1>4. /\ u \in DOMAIN users /\ users[u].member = m
      /\ frames[t].kind = "logout" /\ u \in Ids /\ index[u] \in SUBSET Token
  <2>1. u \in DOMAIN users /\ users[u].member = m /\ frames[t].kind = "logout"
    BY <1>1 DEF LogoutStep, FindSession, DeleteSession, ReadForRemoving, WriteRemoved,
      OnOwnAccount, KindsAt, Unresolved
  <2>. QED
    BY <1>1, <2>1, RowExists DEF StoresTyped
<1>5. CASE FindSession(t)
  <2>1. CASE NewToken(t) \in sessions
    <3>1. StepOf(t, Moved(t, "delete_session", u, seen))
      BY <1>1, <1>2, <1>5, <2>1, GoToMoves DEF FindSession
    <3>. QED
      BY <1>2, <1>3, <1>4, <1>5, <2>1, <3>1, OnlyMoves DEF FindSession, Points, KindsAt
  <2>2. CASE NewToken(t) \notin sessions
    <3>1. Finish(t) /\ cookies' \subseteq cookies
      BY <1>5, <2>2 DEF FindSession
    <3>2. TablesTyped
      BY <1>1, <1>5, <3>1, MovesFrames DEF FindSession, StoresTyped, Finish, StepOf
    <3>. QED
      BY <1>5, <3>1, <3>2, FinishedWellTyped DEF FindSession
  <2>. QED
    BY <2>1, <2>2
<1>6. CASE DeleteSession(t)
  <2>1. StepOf(t, Moved(t, "read_for_removing", u, seen))
    BY <1>1, <1>2, <1>6, GoToMoves DEF DeleteSession
  <2>2. Moved(t, "read_for_removing", u, seen) \in Request
    BY <1>1, <1>2, <1>3, MovedIsRequest DEF Points
  <2>3. frames' \in [Threads -> Request \cup {Idle}]
    BY <1>1, <2>1, <2>2, StepOfTyped
  <2>4. StoresTyped'
    BY <1>1, <1>6, <2>3 DEF StoresTyped, DeleteSession
  <2>5. TablesTyped
    BY <1>6, <2>4 DEF DeleteSession, TablesTyped, WellTyped, GoneHasNoEmail, RowsKept,
      CookiesIssued, LinkIsOwn
  <2>. QED
    BY <1>2, <1>3, <1>4, <1>6, <2>1, <2>5, MovedWellTyped DEF DeleteSession, Points, KindsAt
<1>7. CASE ReadForRemoving(t)
  <2>1. StepOf(t, Moved(t, "write_removed", u, index[u]))
    BY <1>1, <1>2, <1>7, GoToWithMoves DEF ReadForRemoving
  <2>. QED
    BY <1>2, <1>3, <1>4, <1>7, <2>1, OnlyMoves DEF ReadForRemoving, Points, KindsAt
<1>8. CASE WriteRemoved(t)
  <2>1. frames' \in [Threads -> Request \cup {Idle}]
    BY <1>1, <1>8 DEF WriteRemoved, Finish, StoresTyped
  <2>2. StoresTyped'
    <3>1. seen \ {NewToken(t)} \in SUBSET Token
      BY <1>3
    <3>. QED
      BY <1>1, <1>8, <2>1, <3>1 DEF StoresTyped, WriteRemoved
  <2>3. TablesTyped
    BY <1>8, <2>2 DEF WriteRemoved, TablesTyped, WellTyped, GoneHasNoEmail, RowsKept,
      CookiesIssued, LinkIsOwn
  <2>. QED
    BY <1>8, <2>3, FinishedWellTyped DEF WriteRemoved
<1>. QED
  BY <1>5, <1>6, <1>7, <1>8 DEF LogoutStep

LEMMA DestroyWellTyped ==
  ASSUME WellTyped, NEW t \in Threads, DestroyStep(t)
  PROVE  WellTypedStep(t)
<1>. DEFINE u == frames[t].user
            m == frames[t].member
            seen == frames[t].seen
<1>. USE DEF At, History
<1>1. StoresTyped /\ OnOwnAccount(t)
  BY DEF WellTyped, RequestsOnOwnAccounts
<1>2. frames[t].at # "idle"
  BY DEF DestroyStep, ReadToEnd, EndOneSession, DropIndex
<1>3. frames[t] \in Request /\ u \in Nat /\ seen \in SUBSET Token /\ m \in Members
  BY <1>1, <1>2, InFlight
<1>4. /\ u \in DOMAIN users /\ users[u].member = m /\ u \in Ids /\ index[u] \in SUBSET Token
      /\ frames[t].kind \in {"user_deleted", "sessions_ended", "suspend", "delete"}
  <2>1. /\ u \in DOMAIN users /\ users[u].member = m
        /\ frames[t].kind \in {"user_deleted", "sessions_ended", "suspend", "delete"}
    BY <1>1 DEF DestroyStep, ReadToEnd, EndOneSession, DropIndex, OnOwnAccount, KindsAt, Unresolved
  <2>. QED
    BY <1>1, <2>1, RowExists DEF StoresTyped
<1>5. CASE ReadToEnd(t)
  <2>1. StepOf(t, Moved(t, "end_sessions", u, index[u]))
    BY <1>1, <1>2, <1>5, GoToWithMoves DEF ReadToEnd
  <2>. QED
    BY <1>2, <1>3, <1>4, <1>5, <2>1, OnlyMoves DEF ReadToEnd, Points, KindsAt
<1>6. CASE EndOneSession(t)
  <2>1. PICK token \in seen : /\ sessions' = sessions \ {token}
                              /\ GoToWith(t, "end_sessions", seen \ {token})
    BY <1>6 DEF EndOneSession
  <2>2. StepOf(t, Moved(t, "end_sessions", u, seen \ {token}))
    BY <1>1, <1>2, <2>1, GoToWithMoves
  <2>3. Moved(t, "end_sessions", u, seen \ {token}) \in Request
    BY <1>1, <1>2, <1>3, MovedIsRequest DEF Points
  <2>4. frames' \in [Threads -> Request \cup {Idle}]
    BY <1>1, <2>2, <2>3, StepOfTyped
  <2>5. StoresTyped'
    BY <1>1, <1>6, <2>1, <2>4 DEF StoresTyped, EndOneSession
  <2>6. TablesTyped
    BY <1>6, <2>5 DEF EndOneSession, TablesTyped, WellTyped, GoneHasNoEmail, RowsKept,
      CookiesIssued, LinkIsOwn
  <2>. QED
    BY <1>2, <1>3, <1>4, <1>6, <2>2, <2>6, MovedWellTyped DEF EndOneSession, Points, KindsAt
<1>7. CASE DropIndex(t)
  <2>. DEFINE point == AfterSessions(frames[t].kind)
  <2>1. point \in Points \ Unresolved /\ point # "idle" /\ frames[t].kind \in KindsAt(point)
    BY <1>4 DEF AfterSessions, Points, KindsAt, Unresolved
  <2>2. StepOf(t, Moved(t, point, u, seen))
    BY <1>1, <1>2, <1>7, GoToMoves DEF DropIndex
  <2>3. Moved(t, point, u, seen) \in Request
    BY <1>1, <1>2, <1>3, <2>1, MovedIsRequest
  <2>4. frames' \in [Threads -> Request \cup {Idle}]
    BY <1>1, <2>2, <2>3, StepOfTyped
  <2>5. StoresTyped'
    BY <1>1, <1>7, <2>4 DEF StoresTyped, DropIndex
  <2>6. TablesTyped
    BY <1>7, <2>5 DEF DropIndex, TablesTyped, WellTyped, GoneHasNoEmail, RowsKept,
      CookiesIssued, LinkIsOwn
  <2>. QED
    BY <1>2, <1>3, <1>4, <1>7, <2>1, <2>2, <2>6, MovedWellTyped DEF DropIndex
<1>. QED
  BY <1>5, <1>6, <1>7 DEF DestroyStep

LEMMA EventWellTyped ==
  ASSUME WellTyped, NEW t \in Threads, EventStep(t)
  PROVE  WellTypedStep(t)
<1>. DEFINE u == frames[t].user
            m == frames[t].member
            seen == frames[t].seen
<1>. USE DEF At, History
<1>1. StoresTyped /\ OnOwnAccount(t)
  BY DEF WellTyped, RequestsOnOwnAccounts
<1>2. frames[t].at # "idle"
  BY DEF EventStep, FindUser, EraseAddresses, EraseUser, Acknowledge
<1>3. frames[t] \in Request /\ u \in Nat /\ seen \in SUBSET Token /\ m \in Members
  BY <1>1, <1>2, InFlight
<1>4. promised \cup {m} \subseteq Members
  BY <1>1, <1>3 DEF StoresTyped
<1>5. ASSUME Finish(t), Promise(t), UNCHANGED <<stores, cookies, linked, served>>
      PROVE  WellTypedStep(t)
  <2>1. promised' \subseteq Members
    BY <1>4, <1>5 DEF Promise
  <2>2. TablesTyped
    BY <1>1, <1>5, <2>1, MovesFrames DEF Finish, StepOf
  <2>. QED
    BY <1>5, <2>2, FinishedWellTyped
<1>6. CASE FindUser(t)
  <2>. DEFINE user == identities[m]
  <2>1. CASE user = 0
    BY <1>5, <1>6, <2>1 DEF FindUser
  <2>2. CASE user # 0
    <3>1. user \in Nat /\ user \in DOMAIN users /\ users[user].member = m
      BY <1>1, <1>3, <2>2 DEF WellTyped, LinkIsOwn, StoresTyped
    <3>2. StepOf(t, Moved(t, "read_to_end", user, seen))
      BY <1>1, <1>2, <1>6, <2>2, ResolvesMoves DEF FindUser
    <3>3. frames[t].kind \in KindsAt("read_to_end")
      BY <1>1, <1>6 DEF FindUser, OnOwnAccount, KindsAt
    <3>. QED
      BY <1>2, <1>3, <1>6, <2>2, <3>1, <3>2, <3>3, OnlyMoves DEF FindUser, Points
  <2>. QED
    BY <2>1, <2>2
<1>7. CASE EraseAddresses(t)
  <2>1. /\ u \in DOMAIN users /\ users[u].member = m
        /\ frames[t].kind \in KindsAt("erase_user")
    BY <1>1, <1>7 DEF EraseAddresses, OnOwnAccount, KindsAt, Unresolved
  <2>2. AddressesToErase(u) \in SUBSET Token
    BY <1>1 DEF AddressesToErase, StoresTyped
  <2>3. StepOf(t, Moved(t, "erase_user", u, AddressesToErase(u)))
    BY <1>1, <1>2, <1>7, GoToWithMoves DEF EraseAddresses
  <2>. QED
    BY <1>2, <1>3, <1>7, <2>1, <2>2, <2>3, OnlyMoves DEF EraseAddresses, Points
<1>8. CASE EraseUser(t)
  <2>1. /\ u \in DOMAIN users /\ users[u].member = m
        /\ frames[t].kind \in KindsAt("acknowledge")
    BY <1>1, <1>8 DEF EraseUser, OnOwnAccount, KindsAt, Unresolved
  <2>2. users[u] \in Row /\ users \in Seq(Row)
    BY <1>1, <2>1, RowExists DEF StoresTyped
  <2>. DEFINE row == [member |-> m, status |-> "gone", email |-> "none"]
  <2>3. row \in Row /\ users' = [users EXCEPT ![u] = row]
    <3>1. [users[u] EXCEPT !.status = "gone"]
            = [member |-> m, status |-> "gone", email |-> users[u].email]
      BY <2>1, <2>2 DEF Row
    <3>2. [[member |-> m, status |-> "gone", email |-> users[u].email] EXCEPT !.email = "none"]
            = row
      OBVIOUS
    <3>3. users' = [users EXCEPT ![u] = [[users[u] EXCEPT !.status = "gone"]
                                           EXCEPT !.email = "none"]]
      BY <1>8, <2>1, <2>2 DEF EraseUser
    <3>. QED
      BY <1>3, <3>1, <3>2, <3>3 DEF Row
  <2>4. /\ users' \in Seq(Row) /\ Len(users') = Len(users) /\ DOMAIN users' = DOMAIN users
        /\ \A v \in DOMAIN users \ {u} : users'[v] = users[v]
        /\ GoneHasNoEmail' /\ RowsKept
    BY <2>1, <2>3, RowRewritten
  <2>5. StepOf(t, Moved(t, "acknowledge", u, seen))
    BY <1>1, <1>2, <1>8, GoToMoves DEF EraseUser
  <2>6. Moved(t, "acknowledge", u, seen) \in Request
    BY <1>1, <1>2, <1>3, MovedIsRequest DEF Points
  <2>7. frames' \in [Threads -> Request \cup {Idle}]
    BY <1>1, <2>5, <2>6, StepOfTyped
  <2>8. identities' \in [Members -> 0..Len(users)]
    BY <1>1, <1>8 DEF EraseUser, LinksAfterDeletingOf, StoresTyped
  <2>9. StoresTyped'
    BY <1>1, <1>8, <2>4, <2>7, <2>8 DEF StoresTyped, EraseUser
  <2>10. LinkIsOwn'
    <3>1. \A k \in Members : identities[k] # 0 => identities[k] \in DOMAIN users
      BY <1>1 DEF StoresTyped
    <3>2. \A k \in Members : identities'[k] # 0 => identities'[k] = identities[k] /\ identities[k] # u
      BY <1>8 DEF EraseUser, LinksAfterDeletingOf
    <3>. QED
      BY <2>4, <3>1, <3>2 DEF WellTyped, LinkIsOwn
  <2>11. CookiesIssued'
    BY <1>8, <2>4 DEF EraseUser, WellTyped, CookiesIssued
  <2>12. TablesTyped
    BY <2>4, <2>9, <2>10, <2>11 DEF TablesTyped
  <2>. QED
    BY <1>2, <1>3, <1>8, <2>1, <2>4, <2>5, <2>12, MovedWellTyped DEF EraseUser, Points, RowsKept
<1>9. CASE Acknowledge(t)
  BY <1>5, <1>9 DEF Acknowledge
<1>. QED
  BY <1>6, <1>7, <1>8, <1>9 DEF EventStep

LEMMA AdminWellTyped ==
  ASSUME WellTyped, NEW t \in Threads, AdminStep(t)
  PROVE  WellTypedStep(t)
<1>. DEFINE u == frames[t].user
            m == frames[t].member
            seen == frames[t].seen
            kind == frames[t].kind
<1>. USE DEF At, History
<1>1. StoresTyped /\ OnOwnAccount(t)
  BY DEF WellTyped, RequestsOnOwnAccounts
<1>2. frames[t].at # "idle"
  BY DEF AdminStep, SetStatus, Unlink, Audit
<1>3. frames[t] \in Request /\ u \in Nat /\ seen \in SUBSET Token /\ m \in Members
  BY <1>1, <1>2, InFlight
<1>4. /\ u \in DOMAIN users /\ users[u].member = m /\ kind \in {"suspend", "unsuspend", "delete"}
  BY <1>1 DEF AdminStep, SetStatus, Unlink, Audit, OnOwnAccount, KindsAt, Unresolved
<1>5. CASE SetStatus(t)
  <2>. DEFINE row == RowAfter(users[u], kind)
              point == AfterStatus(kind)
  <2>1. users[u] \in Row /\ (users[u].status = "gone" <=> users[u].email = "none")
    BY <1>1, <1>4, RowExists DEF WellTyped, GoneHasNoEmail
  <2>2. /\ row \in Row /\ row.member = users[u].member
        /\ users[u].status = "gone" <=> row.status = "gone"
        /\ row.status = "gone" <=> row.email = "none"
    <3>. DEFINE old == users[u]
    <3>1. /\ Suspended(old) = [member |-> old.member, status |-> "suspended", email |-> old.email]
          /\ Reinstated(old) = [member |-> old.member, status |-> "active", email |-> old.email]
      BY <2>1 DEF Row, Suspended, Reinstated
    <3>2. SoftDeleted(old) = [member |-> old.member, status |-> "deleted", email |-> "anonymised"]
      <4>1. [old EXCEPT !.status = "deleted"]
              = [member |-> old.member, status |-> "deleted", email |-> old.email]
        BY <2>1 DEF Row
      <4>2. [[member |-> old.member, status |-> "deleted", email |-> old.email]
              EXCEPT !.email = "anonymised"]
              = [member |-> old.member, status |-> "deleted", email |-> "anonymised"]
        OBVIOUS
      <4>3. SoftDeleted(old) = [[old EXCEPT !.status = "deleted"] EXCEPT !.email = "anonymised"]
        BY DEF SoftDeleted
      <4>. QED
        BY <4>1, <4>2, <4>3
    <3>3. /\ old.member \in Members /\ old.email \in {"real", "anonymised", "none"}
          /\ old.status = "gone" => row = old
          /\ old.status # "gone" => row \in {Suspended(old), Reinstated(old), SoftDeleted(old)}
      <4>1. old.status = "gone" => row = old
        BY DEF RowAfter
      <4>2. old.status # "gone" => row \in {Suspended(old), Reinstated(old), SoftDeleted(old)}
        <5>1. old.status # "gone" /\ kind = "suspend" => row = Suspended(old)
          BY DEF RowAfter
        <5>2. old.status # "gone" /\ kind = "unsuspend" => row = Reinstated(old)
          BY DEF RowAfter
        <5>3. old.status # "gone" /\ kind = "delete" => row = SoftDeleted(old)
          BY DEF RowAfter
        <5>. QED
          BY <1>4, <5>1, <5>2, <5>3
      <4>. QED
        BY <2>1, <4>1, <4>2 DEF Row
    <3>. QED
      BY <2>1, <3>1, <3>2, <3>3 DEF Row
  <2>3. users' = [users EXCEPT ![u] = row]
    BY <1>5 DEF SetStatus
  <2>4. point \in Points \ Unresolved /\ point # "idle" /\ kind \in KindsAt(point)
    BY <1>4 DEF AfterStatus, Points, KindsAt, Unresolved
  <2>5. StepOf(t, Moved(t, point, u, seen))
    BY <1>1, <1>2, <1>5, GoToMoves DEF SetStatus
  <2>6. Moved(t, point, u, seen) \in Request
    BY <1>1, <1>2, <1>3, <2>4, MovedIsRequest
  <2>7. frames' \in [Threads -> Request \cup {Idle}]
    BY <1>1, <2>5, <2>6, StepOfTyped
  <2>8. TablesTyped
    BY <1>4, <1>5, <2>2, <2>3, <2>7, RowEdited DEF SetStatus
  <2>. QED
    BY <1>2, <1>3, <1>4, <1>5, <2>4, <2>5, <2>8, MovedWellTyped DEF SetStatus, TablesTyped, RowsKept
<1>6. CASE Unlink(t)
  <2>1. StepOf(t, Moved(t, "read_to_end", u, seen))
    BY <1>1, <1>2, <1>6, GoToMoves DEF Unlink
  <2>2. Moved(t, "read_to_end", u, seen) \in Request
    BY <1>1, <1>2, <1>3, MovedIsRequest DEF Points
  <2>3. frames' \in [Threads -> Request \cup {Idle}]
    BY <1>1, <2>1, <2>2, StepOfTyped
  <2>4. identities' \in [Members -> 0..Len(users)]
    BY <1>1, <1>6 DEF Unlink, LinksAfterDeletingOf, StoresTyped
  <2>5. StoresTyped'
    BY <1>1, <1>6, <2>3, <2>4 DEF StoresTyped, Unlink
  <2>6. LinkIsOwn'
    BY <1>6 DEF Unlink, LinksAfterDeletingOf, WellTyped, LinkIsOwn
  <2>7. TablesTyped
    BY <1>6, <2>5, <2>6 DEF Unlink, TablesTyped, WellTyped, GoneHasNoEmail, RowsKept, CookiesIssued
  <2>8. kind \in KindsAt("read_to_end")
    BY <1>1, <1>6 DEF Unlink, OnOwnAccount, KindsAt
  <2>. QED
    BY <1>2, <1>3, <1>4, <1>6, <2>1, <2>7, <2>8, MovedWellTyped DEF Unlink, Points
<1>7. CASE Audit(t)
  BY <1>7, OnlyEnds DEF Audit
<1>. QED
  BY <1>5, <1>6, <1>7 DEF AdminStep

\* What one request's step may be.
StepOfRequest(t) ==
  \/ Arrival(t) \/ SignInStep(t) \/ LogoutStep(t)
  \/ DestroyStep(t) \/ EventStep(t) \/ AdminStep(t) \/ Fail(t)

\* Every step keeps the types, the rows and the other requests.
LEMMA StepWellTyped ==
  ASSUME WellTyped, NEW t \in Threads, StepOfRequest(t)
  PROVE  WellTyped' /\ WellTypedStep(t)
<1>1. ASSUME Fail(t)
      PROVE  WellTypedStep(t)
  BY <1>1, OnlyEnds DEF Fail
<1>2. WellTypedStep(t)
  BY <1>1, ArrivalWellTyped, SignInWellTyped, LogoutWellTyped, DestroyWellTyped,
    EventWellTyped, AdminWellTyped DEF StepOfRequest
<1>3. ASSUME NEW s \in Threads \ {t}
      PROVE  OnOwnAccount(s)'
  <2>1. frames'[s] = frames[s] /\ OnOwnAccount(s)
    BY <1>2 DEF WellTypedStep, OthersKept, WellTyped, RequestsOnOwnAccounts
  <2>2. RowsKept /\ served \in Nat /\ served' \in Nat /\ served <= served'
    BY <1>2, AccountsAssumption DEF WellTypedStep, TablesTyped, WellTyped, StoresTyped
  <2>. QED
    BY <2>1, <2>2 DEF OnOwnAccount, RowsKept
<1>. QED
  BY <1>2, <1>3 DEF WellTypedStep, TablesTyped, WellTyped, RequestsOnOwnAccounts

-----------------------------------------------------------------------------
(* What a request does to others' members: nothing they can tell           *)

\* A step about member m leaves the accounts of other members, their links and
\* promises as they are, and adds no session, cookie or address of theirs.
Confined(m) ==
  /\ \A v \in DOMAIN users : users[v].member # m =>
       /\ users'[v] = users[v] /\ index'[v] = index[v]
       /\ v \in linked' => v \in linked
       /\ \A c \in sessions' : c.user = v => c \in sessions
       /\ \A c \in cookies' : c.user = v => c \in cookies
       /\ \A row \in addresses' : row.user = v => row \in addresses
  /\ \A v \in DOMAIN users' \ DOMAIN users : users'[v].member = m /\ v \notin linked'
  /\ \A k \in Members \ {m} :
       identities'[k] = identities[k] /\ (k \in promised' <=> k \in promised)

LEMMA SignInConfined ==
  ASSUME WellTyped, NEW t \in Threads, SignInStep(t)
  PROVE  Confined(frames[t].member)
<1>. DEFINE u == frames[t].user
            m == frames[t].member
<1>. USE DEF At, History
<1>1. StoresTyped /\ OnOwnAccount(t) /\ LinkIsOwn
  BY DEF WellTyped, RequestsOnOwnAccounts
<1>2. \A v \in DOMAIN users : v \in Ids
  BY <1>1, RowExists
<1>3. CASE LookUp(t) \/ ReadAccount(t) \/ ReadForAdding(t)
  BY <1>3 DEF LookUp, ReadAccount, ReadForAdding, stores, Confined
<1>4. CASE InsertUser(t)
  <2>1. /\ users \in Seq(Row) /\ [member |-> m, status |-> "active", email |-> "real"] \in Row
        /\ linked \subseteq DOMAIN users
    <3>1. frames[t].at # "idle"
      BY <1>4 DEF InsertUser
    <3>. QED
      BY <1>1, <3>1, InFlight DEF StoresTyped, Row
  <2>2. /\ DOMAIN users = 1..Len(users) /\ DOMAIN users' = 1..Len(users) + 1 /\ Len(users) \in Nat
        /\ users'[Len(users) + 1].member = m /\ \A v \in DOMAIN users : users'[v] = users[v]
    BY <1>4, <2>1, AppendProperties DEF InsertUser
  <2>. QED
    BY <1>4, <2>1, <2>2 DEF InsertUser, Confined
<1>5. ASSUME ~LookUp(t), ~InsertUser(t)
      PROVE  u \in DOMAIN users /\ users[u].member = m /\ u \in Ids
  BY <1>1, <1>2, <1>5 DEF SignInStep, ReadAccount, Refresh, InsertIdentity,
    AuditLogin, PutSession, ReadForAdding, WriteAdded, OnOwnAccount, Unresolved
<1>6. CASE Refresh(t)
  BY <1>1, <1>5, <1>6 DEF Refresh, InsertUser, LookUp, StoresTyped, Confined
<1>7. CASE InsertIdentity(t)
  BY <1>1, <1>5, <1>7 DEF InsertIdentity, InsertUser, LookUp, StoresTyped, Confined
<1>8. CASE AuditLogin(t)
  BY <1>1, <1>5, <1>8 DEF AuditLogin, InsertUser, LookUp, StoresTyped, Confined
<1>9. CASE PutSession(t)
  BY <1>1, <1>5, <1>9 DEF PutSession, InsertUser, LookUp, StoresTyped, Confined, NewToken
<1>10. CASE WriteAdded(t)
  BY <1>1, <1>2, <1>5, <1>10 DEF WriteAdded, InsertUser, LookUp, StoresTyped, Confined, NewToken
<1>. QED
  BY <1>3, <1>4, <1>6, <1>7, <1>8, <1>9, <1>10 DEF SignInStep

LEMMA RestConfined ==
  ASSUME WellTyped, NEW t \in Threads,
         LogoutStep(t) \/ DestroyStep(t) \/ EventStep(t) \/ AdminStep(t) \/ Fail(t)
  PROVE  Confined(frames[t].member)
<1>. DEFINE u == frames[t].user
            m == frames[t].member
<1>. USE DEF At, History
<1>1. StoresTyped /\ OnOwnAccount(t) /\ LinkIsOwn
  BY DEF WellTyped, RequestsOnOwnAccounts
<1>2. \A v \in DOMAIN users : v \in Ids
  BY <1>1, RowExists
<1>3. CASE FindSession(t)
  BY <1>3 DEF FindSession, stores, Confined
<1>4. CASE ReadForRemoving(t) \/ ReadToEnd(t) \/ EraseAddresses(t) \/ Audit(t) \/ Fail(t)
  BY <1>4 DEF ReadForRemoving, ReadToEnd, EraseAddresses, Audit, Fail, stores, Confined
<1>5. CASE DeleteSession(t) \/ EndOneSession(t)
  BY <1>5 DEF DeleteSession, EndOneSession, Confined
<1>6. CASE FindUser(t) \/ Acknowledge(t)
  <2>1. UNCHANGED <<stores, cookies, linked>> /\ (Promise(t) \/ UNCHANGED promised)
    BY <1>6 DEF FindUser, Acknowledge
  <2>2. \A k \in Members \ {m} : k \in promised' <=> k \in promised
    BY <2>1 DEF Promise
  <2>. QED
    BY <2>1, <2>2 DEF stores, Confined
<1>7. ASSUME WriteRemoved(t) \/ DropIndex(t) \/ EraseUser(t) \/ SetStatus(t) \/ Unlink(t)
      PROVE  u \in DOMAIN users /\ users[u].member = m /\ u \in Ids
  BY <1>1, <1>2, <1>7 DEF WriteRemoved, DropIndex, EraseUser, SetStatus, Unlink, OnOwnAccount,
    Unresolved
<1>8. CASE WriteRemoved(t)
  BY <1>1, <1>2, <1>7, <1>8 DEF WriteRemoved, StoresTyped, Confined
<1>9. CASE DropIndex(t)
  BY <1>1, <1>2, <1>7, <1>9 DEF DropIndex, StoresTyped, Confined
<1>10. CASE EraseUser(t)
  <2>1. DOMAIN users' = DOMAIN users /\ \A v \in DOMAIN users \ {u} : users'[v] = users[v]
    BY <1>1, <1>10 DEF EraseUser, StoresTyped
  <2>2. \A k \in Members \ {m} : identities'[k] = identities[k]
    BY <1>1, <1>7, <1>10 DEF EraseUser, LinksAfterDeletingOf, LinkIsOwn, StoresTyped
  <2>. QED
    BY <1>7, <1>10, <2>1, <2>2 DEF EraseUser, Confined
<1>11. CASE SetStatus(t)
  BY <1>1, <1>7, <1>11 DEF SetStatus, StoresTyped, Confined
<1>12. CASE Unlink(t)
  <2>1. \A k \in Members \ {m} : identities'[k] = identities[k]
    BY <1>1, <1>7, <1>12 DEF Unlink, LinksAfterDeletingOf, LinkIsOwn, StoresTyped
  <2>. QED
    BY <1>7, <1>12, <2>1 DEF Unlink, Confined
<1>. QED
  BY <1>3, <1>4, <1>5, <1>6, <1>8, <1>9, <1>10, <1>11, <1>12
    DEF LogoutStep, DestroyStep, EventStep, AdminStep

\* An arrival is about one member, who exists, and leaves all the rest alone.
LEMMA ArrivalConfined ==
  ASSUME WellTyped, NEW t \in Threads, Arrival(t)
  PROVE  \E m \in Members :
           /\ frames'[t].member = m /\ frames[t].at = "idle" /\ frames'[t].at # "idle"
           /\ UNCHANGED <<stores, cookies, linked>> /\ Confined(m) /\ promised' \subseteq promised
           /\ frames'[t].kind = "sign_in" => frames'[t].n = served + 1 /\ m \notin promised'
           /\ frames'[t].at \in {"look_up", "find_session", "find_user", "set_status"}
           /\ overlapped' = IF \E s \in Threads : frames[s].at # "idle" /\ frames[s].member = m
                              THEN overlapped \cup {m} ELSE overlapped
<1>. StoresTyped
  BY DEF WellTyped
<1>1. ASSUME NEW at \in Points \ {"idle"}, NEW kind \in Kinds, NEW m \in Members,
             NEW user \in Nat, NEW n \in Nat, Begin(t, kind, m, at, user, n)
      PROVE  /\ frames'[t].member = m /\ frames'[t].kind = kind
             /\ frames'[t].n = n /\ frames'[t].at = at
             /\ frames[t].at = "idle"
             /\ overlapped' = IF \E s \in Threads : frames[s].at # "idle" /\ frames[s].member = m
                                THEN overlapped \cup {m} ELSE overlapped
  BY <1>1 DEF Begin, StoresTyped
<1>2. ASSUME NEW m \in Members, BeginSignIn(t, m)
      PROVE  /\ promised' = promised \ {m} /\ UNCHANGED <<stores, cookies, linked>>
             /\ Begin(t, "sign_in", m, "look_up", 0, served + 1) /\ served + 1 \in Nat
             /\ Confined(m)
  BY <1>2 DEF BeginSignIn, stores, Confined, StoresTyped
<1>3. ASSUME NEW token \in cookies, BeginLogout(t, token)
      PROVE  \E m \in Members, user, n \in Nat :
               /\ UNCHANGED <<stores, cookies, linked, promised>> /\ Confined(m)
               /\ Begin(t, "logout", m, "find_session", user, n)
  <2>1. token.user \in DOMAIN users /\ token \in Token
    BY DEF WellTyped, CookiesIssued, StoresTyped
  <2>2. users[token.user].member \in Members /\ token.user \in Nat /\ token.n \in Nat
    BY <2>1, RowExists DEF Token
  <2>. QED
    BY <1>3, <2>2 DEF BeginLogout, stores, Confined
<1>4. ASSUME NEW kind \in {"user_deleted", "sessions_ended"}, NEW m \in Members,
             BeginEvent(t, kind, m)
      PROVE  /\ UNCHANGED <<stores, cookies, linked, promised>> /\ Confined(m)
             /\ Begin(t, kind, m, "find_user", 0, 0)
  BY <1>4 DEF BeginEvent, stores, Confined
<1>5. ASSUME NEW kind \in {"suspend", "unsuspend", "delete"}, NEW u \in DOMAIN users,
             BeginAdmin(t, kind, u)
      PROVE  \E m \in Members, user \in Nat :
               /\ UNCHANGED <<stores, cookies, linked, promised>> /\ Confined(m)
               /\ Begin(t, kind, m, "set_status", user, 0)
  <2>1. users[u].member \in Members /\ u \in Nat
    BY RowExists
  <2>. QED
    BY <1>5, <2>1 DEF BeginAdmin, stores, Confined
<1>6. CASE \E m \in Members : BeginSignIn(t, m)
  BY <1>1, <1>2, <1>6 DEF Points, Kinds
<1>7. CASE \E token \in cookies : BeginLogout(t, token)
  BY <1>1, <1>3, <1>7 DEF Points, Kinds
<1>8. CASE \E kind \in {"user_deleted", "sessions_ended"}, m \in Members : BeginEvent(t, kind, m)
  BY <1>1, <1>4, <1>8 DEF Points, Kinds
<1>9. CASE \E kind \in {"suspend", "unsuspend", "delete"}, u \in DOMAIN users :
             BeginAdmin(t, kind, u)
  BY <1>1, <1>5, <1>9 DEF Points, Kinds
<1>. QED
  BY <1>6, <1>7, <1>8, <1>9 DEF Arrival

\* A request about another member knows after the step what it knew before.
LEMMA OthersStillKnow ==
  ASSUME WellTyped, WellTyped', RowsKept, NEW s \in Threads, NEW m \in Members, Confined(m),
         frames'[s] = frames[s], frames[s].member # m, overlapped \subseteq overlapped',
         KnowsTheStores(s)
  PROVE  KnowsTheStores(s)'
<1>. DEFINE f == frames[s]
<1>. SUFFICES ASSUME Alone(s)'
              PROVE  KnowsTheStores(s)'
  BY DEF KnowsTheStores
<1>1. Alone(s)
  BY DEF Alone
<1>2. f.member \in Members /\ StoresTyped /\ OnOwnAccount(s)
  BY <1>1, InFlight DEF Alone, WellTyped, RequestsOnOwnAccounts
<1>3. f.at \notin Unresolved =>
        /\ index'[f.user] = index[f.user]
        /\ LiveSessions(f.user)' \subseteq LiveSessions(f.user)
        /\ \A row \in addresses' : row.user = f.user => row \in addresses
  BY <1>1, <1>2 DEF Alone, OnOwnAccount, Confined, LiveSessions
<1>4. /\ identities'[f.member] = identities[f.member]
      /\ f.member \in promised' => f.member \in promised
  BY <1>2 DEF Confined
<1>5. ASSUME NEW c \in cookies', users'[c.user].member = f.member
      PROVE  c \in cookies /\ users[c.user].member = f.member
  <2>1. c.user \in DOMAIN users'
    BY DEF WellTyped, CookiesIssued
  <2>2. c.user \in DOMAIN users
    BY <1>5, <2>1 DEF Confined
  <2>. QED
    BY <1>5, <2>2 DEF Confined, RowsKept
<1>6. LiveSessions(frames[s].user)' = LiveSessions(f.user)'
  BY DEF LiveSessions
<1>7. /\ f.at \in {"write_added", "write_removed"} => f.seen = index'[f.user]
      /\ f.at = "end_sessions" => LiveSessions(frames[s].user)' \subseteq f.seen
      /\ f.at = "erase_user" => \A row \in addresses' : row.user = f.user => row \in f.seen
  BY <1>1, <1>3, <1>6 DEF KnowsTheStores, Unresolved
<1>8. /\ f.kind = "user_deleted" =>
           /\ f.at \in {"read_to_end", "end_sessions", "erase_addresses", "erase_user"}
                => identities'[f.member] = f.user
           /\ f.at = "acknowledge" => identities'[f.member] = 0
      /\ f.kind = "sign_in" =>
           /\ f.member \notin promised'
           /\ \A c \in cookies' : users'[c.user].member = f.member => c.n # f.n
  BY <1>1, <1>4, <1>5 DEF KnowsTheStores
<1>. QED
  BY <1>7, <1>8 DEF KnowsTheStores

\* A member no request of the step is about is settled if it was.
LEMMA OthersStillSettled ==
  ASSUME WellTyped, WellTyped', RowsKept, NEW m \in Members, Confined(m),
         NEW k \in Members \ {m}, overlapped \subseteq overlapped', Settled(k)
  PROVE  Settled(k)'
<1>. SUFFICES ASSUME k \notin overlapped'
              PROVE  Settled(k)'
  BY DEF Settled
<1>1. ASSUME NEW u \in DOMAIN users', users'[u].member = k
      PROVE  /\ u \in DOMAIN users /\ users[u].member = k /\ index'[u] = index[u]
             /\ LiveSessions(u)' \subseteq LiveSessions(u)
             /\ u \in linked' => u \in linked /\ (Erased(u) => Erased(u)')
  <2>1. u \in DOMAIN users /\ users[u].member = k
    BY <1>1 DEF Confined, RowsKept
  <2>. QED
    BY <2>1 DEF Confined, LiveSessions, Erased
<1>2. linked' \subseteq DOMAIN users'
  BY DEF WellTyped, StoresTyped
<1>3. identities'[k] = identities[k] /\ (k \in promised' => k \in promised)
  BY DEF Confined
<1>. QED
  BY <1>1, <1>2, <1>3 DEF Settled

-----------------------------------------------------------------------------
(* What a request does to its own member, when it has it to itself         *)

\* A request that ended knows nothing and need not.
LEMMA EndedKnows ==
  ASSUME NEW t \in Threads, frames'[t] = Idle
  PROVE  KnowsTheStores(t)'
BY DEF KnowsTheStores, Alone, Idle

LEMMA SignInKnows ==
  ASSUME WellTyped, WellTyped', RowsKept, NEW t \in Threads, Alone(t),
         frames[t].kind = "sign_in", KnowsTheStores(t),
         NEW point \in {"look_up", "read_account", "refresh", "refresh_and_refuse",
                        "insert_user", "insert_identity", "audit_login", "put_session",
                        "read_for_adding", "write_added"},
         NEW user \in Nat, NEW seen \in SUBSET Token,
         frames'[t] = Moved(t, point, user, seen), UNCHANGED <<cookies, promised, overlapped>>,
         point = "write_added" => seen = index'[user]
  PROVE  KnowsTheStores(t)'
<1>. DEFINE f == frames[t]
<1>1. f.member \notin promised' /\ \A c \in cookies' : users'[c.user].member = f.member => c.n # f.n
  <2>1. \A c \in cookies : c.user \in DOMAIN users
    BY DEF WellTyped, CookiesIssued
  <2>. QED
    BY <2>1 DEF KnowsTheStores, RowsKept
<1>2. /\ frames'[t].at = point /\ frames'[t].kind = "sign_in" /\ frames'[t].member = f.member
      /\ frames'[t].user = user /\ frames'[t].n = f.n /\ frames'[t].seen = seen
  BY DEF Moved
<1>. QED
  BY <1>1, <1>2 DEF KnowsTheStores

\* A step that leaves links, promises and index alone and ends sessions at most.
LEMMA SettledKept ==
  ASSUME WellTyped, RowsKept, NEW m, Settled(m), DOMAIN users' = DOMAIN users,
         UNCHANGED <<identities, index, linked, overlapped>>, promised' \subseteq promised,
         addresses' \subseteq addresses, sessions' \cap cookies' \subseteq sessions \cap cookies
  PROVE  Settled(m)'
<1>1. \A v \in DOMAIN users : Erased(v) => Erased(v)'
  BY DEF Erased, RowsKept
<1>2. \A v : LiveSessions(v)' \subseteq LiveSessions(v)
  BY DEF LiveSessions
<1>3. linked \subseteq DOMAIN users /\ \A v \in DOMAIN users : users'[v].member = users[v].member
  BY DEF WellTyped, StoresTyped, RowsKept
<1>. QED
  BY <1>1, <1>2, <1>3 DEF Settled

LEMMA SignInOwn ==
  ASSUME WellTyped, WellTyped', RowsKept, NEW t \in Threads, SignInStep(t),
         NEW m, m = frames[t].member, NEW u, u = frames[t].user,
         m \notin overlapped, KnowsTheStores(t), Settled(m)
  PROVE  KnowsTheStores(t)' /\ Settled(m)'
<1>. DEFINE seen == frames[t].seen
            token == NewToken(t)
<1>. USE DEF At, History
<1>1. StoresTyped /\ StoresTyped' /\ OnOwnAccount(t)
  BY DEF WellTyped, RequestsOnOwnAccounts
<1>2. frames[t].at # "idle" /\ Alone(t) /\ UNCHANGED <<promised, overlapped, served>>
  BY DEF SignInStep, LookUp, ReadAccount, Refresh, InsertUser, InsertIdentity,
    AuditLogin, PutSession, ReadForAdding, WriteAdded, Alone
<1>3. /\ frames[t] \in Request /\ u \in Nat /\ seen \in SUBSET Token /\ m \in Members
      /\ frames[t].kind = "sign_in"
  <2>1. frames[t].kind = "sign_in"
    BY <1>1 DEF SignInStep, LookUp, ReadAccount, Refresh, InsertUser, InsertIdentity,
      AuditLogin, PutSession, ReadForAdding, WriteAdded, OnOwnAccount, KindsAt
  <2>. QED
    BY <1>1, <1>2, <2>1, InFlight
<1>4. m \notin promised /\ \A c \in cookies : users[c.user].member = m => c.n # frames[t].n
  BY <1>2, <1>3 DEF KnowsTheStores
\* Where the request stands next, if it goes on.
<1>5. ASSUME NEW point \in Points \ {"idle"}, GoTo(t, point)
      PROVE  frames'[t] = Moved(t, point, u, seen)
  <2>1. Moved(t, point, u, seen) \in Request
    BY <1>1, <1>2, <1>3, MovedIsRequest
  <2>. QED
    BY <1>1, <1>2, <1>5, <2>1, GoToMoves, StepOfTyped
<1>6. ASSUME Finish(t)
      PROVE  frames'[t] = Idle
  BY <1>1, <1>6 DEF Finish, StoresTyped
<1>7. ASSUME UNCHANGED <<users, identities, addresses, sessions, index, cookies, linked>>
      PROVE  Settled(m)'
  BY <1>2, <1>7, SettledKept
<1>8. CASE LookUp(t)
  <2>. DEFINE user == identities[m]
              point == IF user # 0 THEN "read_account" ELSE "insert_user"
  <2>1. user \in Nat
    BY <1>1, <1>3 DEF StoresTyped
  <2>2. StepOf(t, Moved(t, point, user, seen)) /\ Moved(t, point, user, seen) \in Request
    BY <1>1, <1>2, <1>3, <1>8, <2>1, ResolvesMoves, MovedIsRequest DEF LookUp, Points
  <2>3. frames'[t] = Moved(t, point, user, seen)
    BY <1>1, <2>2, StepOfTyped
  <2>4. KnowsTheStores(t)'
    BY <1>2, <1>3, <1>8, <2>1, <2>3, SignInKnows DEF LookUp
  <2>. QED
    BY <1>7, <1>8, <2>4 DEF LookUp, stores
<1>9. CASE ReadAccount(t)
  <2>. DEFINE point == IF users[u].status = "active" THEN "refresh" ELSE "refresh_and_refuse"
  <2>1. Finish(t) \/ frames'[t] = Moved(t, point, u, seen)
    BY <1>5, <1>9 DEF ReadAccount, Points
  <2>2. KnowsTheStores(t)'
    BY <1>2, <1>3, <1>6, <1>9, <2>1, EndedKnows, SignInKnows DEF ReadAccount
  <2>. QED
    BY <1>7, <1>9, <2>2 DEF ReadAccount, stores
<1>10. CASE Refresh(t)
  <2>1. Finish(t) \/ frames'[t] = Moved(t, "audit_login", u, seen)
    BY <1>5, <1>10 DEF Refresh, Points
  <2>2. KnowsTheStores(t)'
    BY <1>2, <1>3, <1>6, <1>10, <2>1, EndedKnows, SignInKnows DEF Refresh
  <2>3. DOMAIN users' = DOMAIN users
    BY <1>1, <1>10 DEF Refresh, StoresTyped
  <2>4. Settled(m)'
    BY <1>2, <1>10, <2>3, SettledKept DEF Refresh
  <2>. QED
    BY <2>2, <2>4
<1>11. CASE InsertUser(t)
  <2>. DEFINE new == Len(users) + 1
              row == [member |-> m, status |-> "active", email |-> "real"]
  <2>1. users \in Seq(Row) /\ row \in Row /\ users' = Append(users, row) /\ new \in Nat
    BY <1>1, <1>3, <1>11 DEF InsertUser, StoresTyped, Row
  <2>2. /\ DOMAIN users = 1..Len(users) /\ DOMAIN users' = 1..new /\ Len(users) \in Nat
        /\ \A v \in DOMAIN users : users'[v] = users[v]
    BY <2>1, AppendProperties
  <2>3. /\ StepOf(t, Moved(t, "insert_identity", new, seen))
        /\ Moved(t, "insert_identity", new, seen) \in Request
    BY <1>1, <1>2, <1>3, <1>11, <2>1, ResolvesMoves, MovedIsRequest DEF InsertUser, Points
  <2>4. frames'[t] = Moved(t, "insert_identity", new, seen)
    BY <1>1, <2>3, StepOfTyped
  <2>5. KnowsTheStores(t)'
    BY <1>2, <1>3, <1>11, <2>1, <2>4, SignInKnows DEF InsertUser
  <2>6. \A v \in DOMAIN users' : v \in DOMAIN users \/ LiveSessions(v)' = {}
    <3>1. \A c \in cookies : c.user \in DOMAIN users
      BY DEF WellTyped, CookiesIssued
    <3>. QED
      BY <1>11, <3>1 DEF InsertUser, LiveSessions
  <2>7. \A v : LiveSessions(v)' = LiveSessions(v)
    BY <1>11 DEF InsertUser, LiveSessions
  <2>8. \A v \in linked : v \in DOMAIN users /\ (Erased(v) => Erased(v)')
    BY <1>1, <1>11, <2>2 DEF StoresTyped, InsertUser, Erased
  <2>9. Settled(m)'
    BY <1>2, <1>11, <2>2, <2>6, <2>7, <2>8 DEF InsertUser, Settled
  <2>. QED
    BY <2>5, <2>9
<1>12. CASE InsertIdentity(t)
  <2>1. Finish(t) \/ frames'[t] = Moved(t, "audit_login", u, seen)
    BY <1>5, <1>12 DEF InsertIdentity, Points
  <2>2. KnowsTheStores(t)'
    BY <1>2, <1>3, <1>6, <1>12, <2>1, EndedKnows, SignInKnows DEF InsertIdentity
  <2>3. CASE identities[m] # 0 \/ users[u].status = "gone"
    BY <1>7, <1>12, <2>2, <2>3 DEF InsertIdentity
  <2>4. CASE ~(identities[m] # 0 \/ users[u].status = "gone")
    <3>1. /\ identities' = [identities EXCEPT ![m] = u] /\ linked' = linked \cup {u}
          /\ UNCHANGED <<users, addresses, sessions, index, cookies>>
      BY <1>12, <2>4 DEF InsertIdentity
    <3>2. identities'[m] = u
      BY <1>1, <1>3, <3>1 DEF StoresTyped
    <3>3. \A v \in linked : users[v].member = m => Erased(v)
      <4>1. \A v \in linked : v # 0
        BY <1>1, RowExists DEF StoresTyped
      <4>. QED
        BY <1>2, <2>4, <4>1 DEF Settled
    <3>4. \A v : (Erased(v) => Erased(v)') /\ LiveSessions(v)' = LiveSessions(v)
      BY <3>1 DEF Erased, LiveSessions
    <3>5. Settled(m)'
      BY <1>2, <1>4, <3>1, <3>2, <3>3, <3>4 DEF Settled
    <3>. QED
      BY <2>2, <3>5
  <2>. QED
    BY <2>3, <2>4
<1>13. CASE AuditLogin(t)
  <2>1. Finish(t) \/ frames'[t] = Moved(t, "put_session", u, seen)
    BY <1>5, <1>13 DEF AuditLogin, Points
  <2>2. KnowsTheStores(t)'
    BY <1>2, <1>3, <1>6, <1>13, <2>1, EndedKnows, SignInKnows DEF AuditLogin
  <2>3. \A v : Erased(v) => Erased(v)'
    <3>1. users[u].status = "gone" => addresses' = addresses
      BY <1>13 DEF AuditLogin
    <3>2. users[u].status # "gone" =>
            addresses' = addresses \cup {[user |-> u, n |-> frames[t].n]}
      BY <1>13 DEF AuditLogin
    <3>. QED
      BY <1>13, <3>1, <3>2 DEF AuditLogin, Erased
  <2>4. \A v : LiveSessions(v)' = LiveSessions(v)
    BY <1>13 DEF AuditLogin, LiveSessions
  <2>5. Settled(m)'
    BY <1>2, <1>13, <2>3, <2>4 DEF AuditLogin, Settled
  <2>. QED
    BY <2>2, <2>5
<1>14. CASE PutSession(t)
  <2>1. frames'[t] = Moved(t, "read_for_adding", u, seen)
    BY <1>5, <1>14 DEF PutSession, Points
  <2>2. KnowsTheStores(t)'
    BY <1>2, <1>3, <1>14, <2>1, SignInKnows DEF PutSession
  <2>3. token \notin cookies
    <3>1. users[u].member = m
      BY <1>1, <1>14 DEF PutSession, OnOwnAccount, Unresolved
    <3>. QED
      BY <1>4, <3>1 DEF NewToken
  <2>4. Settled(m)'
    BY <1>2, <1>14, <2>3, SettledKept DEF PutSession
  <2>. QED
    BY <2>2, <2>4
<1>15. CASE ReadForAdding(t)
  <2>1. u \in Ids
    BY <1>1, <1>15, RowExists DEF ReadForAdding, OnOwnAccount, Unresolved
  <2>2. index[u] \in SUBSET Token
    BY <1>1, <2>1 DEF StoresTyped
  <2>3. /\ StepOf(t, Moved(t, "write_added", u, index[u]))
        /\ Moved(t, "write_added", u, index[u]) \in Request
    BY <1>1, <1>2, <1>3, <1>15, <2>2, GoToWithMoves, MovedIsRequest DEF ReadForAdding, Points
  <2>4. frames'[t] = Moved(t, "write_added", u, index[u]) /\ index' = index
    BY <1>1, <1>15, <2>3, StepOfTyped DEF ReadForAdding, stores
  <2>5. KnowsTheStores(t)'
    BY <1>2, <1>3, <1>15, <2>2, <2>4, SignInKnows DEF ReadForAdding
  <2>. QED
    BY <1>7, <1>15, <2>5 DEF ReadForAdding, stores
<1>16. CASE WriteAdded(t)
  <2>1. KnowsTheStores(t)'
    BY <1>6, <1>16, EndedKnows DEF WriteAdded
  <2>2. u \in DOMAIN users /\ u \in Ids /\ token.user = u
    BY <1>1, <1>16, RowExists DEF WriteAdded, OnOwnAccount, Unresolved, NewToken
  <2>3. seen = index[u]
    BY <1>2, <1>16 DEF KnowsTheStores, WriteAdded
  <2>4. /\ index'[u] = index[u] \cup {token} /\ LiveSessions(u)' \subseteq LiveSessions(u) \cup {token}
        /\ \A v \in Ids \ {u} : index'[v] = index[v] /\ LiveSessions(v)' = LiveSessions(v)
    BY <1>1, <1>16, <2>2, <2>3 DEF WriteAdded, StoresTyped, IndexWith, LiveSessions
  <2>5. \A v : Erased(v) => Erased(v)'
    BY <1>16 DEF WriteAdded, Erased
  <2>6. \A v \in DOMAIN users : v \in Ids
    BY <1>1, RowExists
  <2>7. Settled(m)'
    BY <1>2, <1>16, <2>2, <2>4, <2>5, <2>6 DEF WriteAdded, Settled
  <2>. QED
    BY <2>1, <2>7
<1>. QED
  BY <1>8, <1>9, <1>10, <1>11, <1>12, <1>13, <1>14, <1>15, <1>16 DEF SignInStep

LEMMA LogoutOwn ==
  ASSUME WellTyped, WellTyped', RowsKept, NEW t \in Threads, LogoutStep(t),
         NEW m, m = frames[t].member, NEW u, u = frames[t].user,
         m \notin overlapped, KnowsTheStores(t), Settled(m)
  PROVE  KnowsTheStores(t)' /\ Settled(m)'
<1>. DEFINE seen == frames[t].seen
            token == NewToken(t)
<1>. USE DEF At, History
<1>1. StoresTyped /\ OnOwnAccount(t)
  BY DEF WellTyped, RequestsOnOwnAccounts
<1>2. frames[t].at # "idle" /\ Alone(t) /\ UNCHANGED <<promised, overlapped, served>>
  BY DEF LogoutStep, FindSession, DeleteSession, ReadForRemoving, WriteRemoved, Alone
<1>3. /\ frames[t] \in Request /\ u \in DOMAIN users /\ seen \in SUBSET Token /\ m \in Members
      /\ frames[t].kind = "logout" /\ u \in Nat /\ u \in Ids
  <2>1. frames[t].kind = "logout" /\ u \in DOMAIN users
    BY <1>1 DEF LogoutStep, FindSession, DeleteSession, ReadForRemoving, WriteRemoved,
      OnOwnAccount, KindsAt, Unresolved
  <2>. QED
    BY <1>1, <1>2, <2>1, InFlight, RowExists
\* A request to log out knows the index once it has read it, and nothing else.
<1>4. ASSUME NEW point \in Points \ {"idle", "end_sessions", "erase_user"},
             NEW now \in SUBSET Token, StepOf(t, Moved(t, point, u, now)),
             point \in {"write_added", "write_removed"} => now = index'[u]
      PROVE  KnowsTheStores(t)'
  <2>1. frames'[t] = Moved(t, point, u, now)
    BY <1>1, <1>2, <1>3, <1>4, MovedIsRequest, StepOfTyped
  <2>. QED
    BY <1>3, <1>4, <2>1 DEF KnowsTheStores, Moved
<1>5. ASSUME Finish(t)
      PROVE  KnowsTheStores(t)'
  BY <1>1, <1>5, EndedKnows DEF Finish, StoresTyped
<1>6. CASE FindSession(t)
  <2>1. Finish(t) \/ StepOf(t, Moved(t, "delete_session", u, seen))
    BY <1>1, <1>2, <1>6, GoToMoves DEF FindSession
  <2>2. KnowsTheStores(t)'
    BY <1>3, <1>4, <1>5, <2>1 DEF Points
  <2>3. Settled(m)'
    BY <1>2, <1>6, SettledKept DEF FindSession, stores
  <2>. QED
    BY <2>2, <2>3
<1>7. CASE DeleteSession(t)
  <2>1. StepOf(t, Moved(t, "read_for_removing", u, seen))
    BY <1>1, <1>2, <1>7, GoToMoves DEF DeleteSession
  <2>2. KnowsTheStores(t)'
    BY <1>3, <1>4, <2>1 DEF Points
  <2>3. Settled(m)'
    BY <1>2, <1>7, SettledKept DEF DeleteSession
  <2>. QED
    BY <2>2, <2>3
<1>8. CASE ReadForRemoving(t)
  <2>1. StepOf(t, Moved(t, "write_removed", u, index[u])) /\ index' = index
    BY <1>1, <1>2, <1>8, GoToWithMoves DEF ReadForRemoving, stores
  <2>2. index[u] \in SUBSET Token
    BY <1>1, <1>3 DEF StoresTyped
  <2>3. KnowsTheStores(t)'
    BY <1>4, <2>1, <2>2 DEF Points
  <2>4. Settled(m)'
    BY <1>2, <1>8, SettledKept DEF ReadForRemoving, stores
  <2>. QED
    BY <2>3, <2>4
<1>9. CASE WriteRemoved(t)
  <2>1. KnowsTheStores(t)'
    BY <1>5, <1>9 DEF WriteRemoved
  <2>2. seen = index[u]
    BY <1>2, <1>9 DEF KnowsTheStores, WriteRemoved
  <2>3. /\ index'[u] = index[u] \ {token} /\ LiveSessions(u)' = LiveSessions(u) \ {token}
        /\ \A v \in Ids \ {u} : index'[v] = index[v] /\ LiveSessions(v)' \subseteq LiveSessions(v)
    BY <1>1, <1>3, <1>9, <2>2 DEF WriteRemoved, StoresTyped, LiveSessions
  <2>4. \A v : Erased(v) => Erased(v)'
    BY <1>9 DEF WriteRemoved, Erased
  <2>5. \A v \in DOMAIN users : v \in Ids
    BY <1>1, RowExists
  <2>6. Settled(m)'
    BY <1>2, <1>3, <1>9, <2>3, <2>4, <2>5 DEF WriteRemoved, Settled
  <2>. QED
    BY <2>1, <2>6
<1>. QED
  BY <1>6, <1>7, <1>8, <1>9 DEF LogoutStep

LEMMA DestroyOwn ==
  ASSUME WellTyped, WellTyped', RowsKept, NEW t \in Threads, DestroyStep(t),
         NEW m, m = frames[t].member, NEW u, u = frames[t].user,
         m \notin overlapped, KnowsTheStores(t), Settled(m)
  PROVE  KnowsTheStores(t)' /\ Settled(m)'
<1>. DEFINE seen == frames[t].seen
            kind == frames[t].kind
<1>. USE DEF At, History
<1>1. StoresTyped /\ OnOwnAccount(t)
  BY DEF WellTyped, RequestsOnOwnAccounts
<1>2. /\ frames[t].at # "idle" /\ Alone(t)
      /\ UNCHANGED <<users, identities, addresses, cookies, linked, promised, overlapped, served>>
  BY DEF DestroyStep, ReadToEnd, EndOneSession, DropIndex, Alone, stores
<1>3. /\ frames[t] \in Request /\ u \in DOMAIN users /\ users[u].member = m
      /\ seen \in SUBSET Token /\ m \in Members
      /\ kind \in {"user_deleted", "sessions_ended", "suspend", "delete"} /\ u \in Nat /\ u \in Ids
      /\ kind = "user_deleted" => identities[m] = u
  <2>1. /\ kind \in {"user_deleted", "sessions_ended", "suspend", "delete"}
        /\ u \in DOMAIN users /\ users[u].member = m
        /\ frames[t].at \in {"read_to_end", "end_sessions"}
    BY <1>1 DEF DestroyStep, ReadToEnd, EndOneSession, DropIndex, OnOwnAccount, KindsAt, Unresolved
  <2>2. kind = "user_deleted" => identities[m] = u
    BY <1>2, <2>1 DEF KnowsTheStores
  <2>. QED
    BY <1>1, <1>2, <2>1, <2>2, InFlight, RowExists
<1>4. ASSUME NEW point \in {"end_sessions", "erase_addresses", "acknowledge", "audit"},
             point = "acknowledge" => kind # "user_deleted",
             NEW now \in SUBSET Token, StepOf(t, Moved(t, point, u, now)),
             point = "end_sessions" => LiveSessions(u)' \subseteq now
      PROVE  KnowsTheStores(t)'
  <2>1. frames'[t] = Moved(t, point, u, now)
    BY <1>1, <1>2, <1>3, <1>4, MovedIsRequest, StepOfTyped DEF Points
  <2>2. LiveSessions(frames[t].user)' = LiveSessions(u)'
    BY <2>1 DEF LiveSessions, Moved
  <2>. QED
    BY <1>2, <1>3, <1>4, <2>1, <2>2 DEF KnowsTheStores, Moved
<1>5. \A v : Erased(v) => Erased(v)'
  BY <1>2 DEF Erased
<1>6. CASE ReadToEnd(t)
  <2>1. StepOf(t, Moved(t, "end_sessions", u, index[u]))
    BY <1>1, <1>2, <1>6, GoToWithMoves DEF ReadToEnd
  <2>2. LiveSessions(u)' \subseteq index[u] /\ index[u] \in SUBSET Token
    BY <1>1, <1>3, <1>6 DEF ReadToEnd, stores, LiveSessions, Settled, StoresTyped
  <2>3. Settled(m)'
    BY <1>2, <1>6, SettledKept DEF ReadToEnd, stores
  <2>. QED
    BY <1>4, <2>1, <2>2, <2>3
<1>7. CASE EndOneSession(t)
  <2>1. PICK token \in seen : /\ sessions' = sessions \ {token}
                              /\ GoToWith(t, "end_sessions", seen \ {token})
    BY <1>7 DEF EndOneSession
  <2>2. StepOf(t, Moved(t, "end_sessions", u, seen \ {token}))
    BY <1>1, <1>2, <2>1, GoToWithMoves
  <2>3. LiveSessions(u)' \subseteq seen \ {token}
    BY <1>2, <1>7, <2>1 DEF EndOneSession, KnowsTheStores, LiveSessions
  <2>4. Settled(m)'
    BY <1>2, <1>7, <2>1, SettledKept DEF EndOneSession
  <2>. QED
    BY <1>3, <1>4, <2>2, <2>3, <2>4
<1>8. CASE DropIndex(t)
  <2>. DEFINE point == AfterSessions(kind)
  <2>1. StepOf(t, Moved(t, point, u, seen))
    BY <1>1, <1>2, <1>8, GoToMoves DEF DropIndex
  <2>2. /\ point \in {"erase_addresses", "acknowledge", "audit"}
        /\ point = "acknowledge" => kind # "user_deleted"
    BY <1>3 DEF AfterSessions
  <2>3. LiveSessions(u) = {}
    BY <1>2, <1>8 DEF DropIndex, KnowsTheStores
  <2>4. /\ \A v : LiveSessions(v)' = LiveSessions(v)
        /\ \A v \in Ids \ {u} : index'[v] = index[v]
    BY <1>1, <1>8 DEF DropIndex, LiveSessions, StoresTyped
  <2>5. \A v \in DOMAIN users : v \in Ids
    BY <1>1, RowExists
  <2>6. Settled(m)'
    BY <1>2, <1>5, <2>3, <2>4, <2>5 DEF Settled
  <2>. QED
    BY <1>3, <1>4, <2>1, <2>2, <2>6
<1>. QED
  BY <1>6, <1>7, <1>8 DEF DestroyStep

LEMMA EventOwn ==
  ASSUME WellTyped, WellTyped', RowsKept, NEW t \in Threads, EventStep(t),
         NEW m, m = frames[t].member, NEW u, u = frames[t].user,
         m \notin overlapped, KnowsTheStores(t), Settled(m)
  PROVE  KnowsTheStores(t)' /\ Settled(m)'
<1>. DEFINE seen == frames[t].seen
            kind == frames[t].kind
<1>. USE DEF At, History
<1>1. StoresTyped /\ OnOwnAccount(t)
  BY DEF WellTyped, RequestsOnOwnAccounts
<1>2. frames[t].at # "idle" /\ Alone(t) /\ UNCHANGED overlapped
  BY DEF EventStep, FindUser, EraseAddresses, EraseUser, Acknowledge, Alone
<1>3. /\ frames[t] \in Request /\ seen \in SUBSET Token /\ m \in Members /\ u \in Nat
      /\ kind \in {"user_deleted", "sessions_ended"}
  <2>1. kind \in {"user_deleted", "sessions_ended"}
    BY <1>1 DEF EventStep, FindUser, EraseAddresses, EraseUser, Acknowledge, OnOwnAccount, KindsAt
  <2>. QED
    BY <1>1, <1>2, <2>1, InFlight
<1>4. ASSUME NEW point \in Points \ {"idle"}, NEW user \in Nat,
             NEW now \in SUBSET Token, StepOf(t, Moved(t, point, user, now))
      PROVE  frames'[t] = Moved(t, point, user, now)
  BY <1>1, <1>2, <1>3, <1>4, MovedIsRequest, StepOfTyped
\* The answer promises nothing, or what is so.
<1>5. ASSUME Finish(t), Promise(t), UNCHANGED <<stores, cookies, linked, overlapped>>,
             kind = "user_deleted" => identities[m] = 0
      PROVE  KnowsTheStores(t)' /\ Settled(m)'
  <2>1. KnowsTheStores(t)'
    BY <1>1, <1>5, EndedKnows DEF Finish, StoresTyped
  <2>2. \A v : (Erased(v) => Erased(v)') /\ LiveSessions(v)' = LiveSessions(v)
    BY <1>5 DEF Erased, LiveSessions, stores
  <2>3. Settled(m)'
    BY <1>5, <2>2 DEF Settled, Promise, stores
  <2>. QED
    BY <2>1, <2>3
<1>6. CASE FindUser(t)
  <2>. DEFINE user == identities[m]
  <2>1. CASE user = 0
    BY <1>5, <1>6, <2>1 DEF FindUser
  <2>2. CASE user # 0
    <3>1. StepOf(t, Moved(t, "read_to_end", user, seen)) /\ UNCHANGED <<stores, cookies, promised>>
      BY <1>1, <1>2, <1>6, <2>2, ResolvesMoves DEF FindUser
    <3>2. user \in Nat
      BY <1>1, <1>3 DEF StoresTyped
    <3>3. frames'[t] = Moved(t, "read_to_end", user, seen) /\ identities' = identities
      BY <1>3, <1>4, <3>1, <3>2 DEF Points, stores
    <3>4. KnowsTheStores(t)'
      BY <1>3, <3>3 DEF KnowsTheStores, Moved
    <3>5. Settled(m)'
      BY <1>2, <1>6, <3>1, SettledKept DEF FindUser, stores
    <3>. QED
      BY <3>4, <3>5
  <2>. QED
    BY <2>1, <2>2
<1>7. CASE EraseAddresses(t)
  <2>. DEFINE rows == AddressesToErase(u)
  <2>1. kind = "user_deleted" /\ identities[m] = u
    <3>1. kind = "user_deleted"
      BY <1>1, <1>7 DEF EraseAddresses, OnOwnAccount, KindsAt
    <3>. QED
      BY <1>2, <1>7, <3>1 DEF EraseAddresses, KnowsTheStores
  <2>2. StepOf(t, Moved(t, "erase_user", u, rows)) /\ rows \in SUBSET Token
    BY <1>1, <1>2, <1>7, GoToWithMoves DEF EraseAddresses, AddressesToErase, StoresTyped
  <2>3. frames'[t] = Moved(t, "erase_user", u, rows) /\ UNCHANGED <<identities, addresses>>
    BY <1>3, <1>4, <1>7, <2>2 DEF EraseAddresses, Points, stores
  <2>4. \A row \in addresses' : row.user = u => row \in rows
    BY <2>3 DEF AddressesToErase
  <2>5. KnowsTheStores(t)'
    BY <2>1, <2>3, <2>4 DEF KnowsTheStores, Moved
  <2>6. Settled(m)'
    BY <1>2, <1>7, SettledKept DEF EraseAddresses, stores
  <2>. QED
    BY <2>5, <2>6
<1>8. CASE EraseUser(t)
  <2>1. kind = "user_deleted" /\ identities[m] = u /\ u \in DOMAIN users
    <3>1. kind = "user_deleted" /\ u \in DOMAIN users
      BY <1>1, <1>8 DEF EraseUser, OnOwnAccount, KindsAt, Unresolved
    <3>. QED
      BY <1>2, <1>8, <3>1 DEF EraseUser, KnowsTheStores
  <2>2. identities'[m] = 0
    BY <1>3, <1>8, <2>1 DEF EraseUser, LinksAfterDeletingOf
  <2>3. /\ DOMAIN users' = DOMAIN users /\ users'[u].status = "gone"
        /\ \A v \in DOMAIN users \ {u} : users'[v] = users[v]
    <3>1. users[u] \in Row /\ users \in Seq(Row)
      BY <1>1, <2>1, RowExists DEF StoresTyped
    <3>. QED
      BY <1>8, <2>1, <3>1 DEF EraseUser, Row
  <2>4. Erased(u)' /\ \A v \in DOMAIN users : Erased(v) => Erased(v)'
    <3>1. addresses' = addresses \ seen /\ \A row \in addresses : row.user = u => row \in seen
      BY <1>2, <1>8 DEF EraseUser, KnowsTheStores
    <3>. QED
      BY <2>3, <3>1 DEF Erased
  <2>5. frames'[t] = Moved(t, "acknowledge", u, seen)
    BY <1>1, <1>2, <1>3, <1>4, <1>8, GoToMoves DEF EraseUser, Points
  <2>6. KnowsTheStores(t)'
    BY <2>1, <2>2, <2>5 DEF KnowsTheStores, Moved
  <2>7. \A v : LiveSessions(v)' = LiveSessions(v)
    BY <1>8 DEF EraseUser, LiveSessions
  <2>8. linked \subseteq DOMAIN users /\ \A v \in DOMAIN users : users'[v].member = users[v].member
    BY <1>1 DEF StoresTyped, RowsKept
  <2>9. Settled(m)'
    BY <1>2, <1>8, <2>1, <2>2, <2>3, <2>4, <2>7, <2>8 DEF EraseUser, Settled
  <2>. QED
    BY <2>6, <2>9
<1>9. CASE Acknowledge(t)
  BY <1>2, <1>5, <1>9 DEF Acknowledge, KnowsTheStores
<1>. QED
  BY <1>6, <1>7, <1>8, <1>9 DEF EventStep

LEMMA AdminOwn ==
  ASSUME WellTyped, WellTyped', RowsKept, NEW t \in Threads, AdminStep(t),
         NEW m, m = frames[t].member, NEW u, u = frames[t].user,
         m \notin overlapped, KnowsTheStores(t), Settled(m)
  PROVE  KnowsTheStores(t)' /\ Settled(m)'
<1>. DEFINE seen == frames[t].seen
            kind == frames[t].kind
<1>. USE DEF At, History
<1>1. StoresTyped /\ OnOwnAccount(t)
  BY DEF WellTyped, RequestsOnOwnAccounts
<1>2. frames[t].at # "idle" /\ Alone(t) /\ UNCHANGED <<promised, overlapped, served>>
  BY DEF AdminStep, SetStatus, Unlink, Audit, Alone
<1>3. /\ frames[t] \in Request /\ seen \in SUBSET Token /\ m \in Members /\ u \in Nat
      /\ kind \in {"suspend", "unsuspend", "delete"} /\ u \in DOMAIN users /\ users[u].member = m
  <2>1. /\ kind \in {"suspend", "unsuspend", "delete"} /\ u \in DOMAIN users
        /\ users[u].member = m
    BY <1>1 DEF AdminStep, SetStatus, Unlink, Audit, OnOwnAccount, KindsAt, Unresolved
  <2>. QED
    BY <1>1, <1>2, <2>1, InFlight
<1>4. ASSUME NEW point \in {"read_to_end", "audit", "unlink"}, GoTo(t, point)
      PROVE  KnowsTheStores(t)'
  <2>1. frames'[t] = Moved(t, point, u, seen)
    BY <1>1, <1>2, <1>3, <1>4, GoToMoves, MovedIsRequest, StepOfTyped DEF Points
  <2>. QED
    BY <1>3, <2>1 DEF KnowsTheStores, Moved
<1>5. CASE SetStatus(t)
  <2>1. AfterStatus(kind) \in {"read_to_end", "audit", "unlink"}
    BY <1>3 DEF AfterStatus
  <2>2. KnowsTheStores(t)'
    BY <1>4, <1>5, <2>1 DEF SetStatus
  <2>3. DOMAIN users' = DOMAIN users
    BY <1>1, <1>5 DEF SetStatus, StoresTyped
  <2>4. Settled(m)'
    BY <1>2, <1>5, <2>3, SettledKept DEF SetStatus
  <2>. QED
    BY <2>2, <2>4
<1>6. CASE Unlink(t)
  <2>1. KnowsTheStores(t)'
    BY <1>4, <1>6 DEF Unlink
  <2>2. /\ linked' = linked \ {u}
        /\ identities'[m] = IF identities[m] = u THEN 0 ELSE identities[m]
    BY <1>3, <1>6 DEF Unlink, LinksAfterDeletingOf
  <2>3. \A v : (Erased(v) => Erased(v)') /\ LiveSessions(v)' = LiveSessions(v)
    BY <1>6 DEF Unlink, Erased, LiveSessions
  <2>4. Settled(m)'
    BY <1>2, <1>6, <2>2, <2>3 DEF Unlink, Settled
  <2>. QED
    BY <2>1, <2>4
<1>7. CASE Audit(t)
  <2>1. KnowsTheStores(t)'
    BY <1>1, <1>7, EndedKnows DEF Audit, Finish, StoresTyped
  <2>2. Settled(m)'
    BY <1>2, <1>7, SettledKept DEF Audit, stores
  <2>. QED
    BY <2>1, <2>2
<1>. QED
  BY <1>5, <1>6, <1>7 DEF AdminStep

-----------------------------------------------------------------------------
(* The invariant                                                           *)

\* A request keeps its member from arrival to its end.
LEMMA RequestGoesOn ==
  ASSUME WellTyped, NEW t \in Threads,
         \/ SignInStep(t) \/ LogoutStep(t) \/ DestroyStep(t)
         \/ EventStep(t) \/ AdminStep(t) \/ Fail(t)
  PROVE  /\ frames[t].at # "idle" /\ UNCHANGED overlapped
         /\ frames'[t] = Idle \/ frames'[t].member = frames[t].member
<1>. USE DEF At, History
<1>1. StoresTyped /\ UNCHANGED overlapped /\ frames[t].at # "idle"
  BY DEF WellTyped, SignInStep, LookUp, ReadAccount, Refresh, InsertUser, InsertIdentity,
    AuditLogin, PutSession, ReadForAdding, WriteAdded, LogoutStep, FindSession, DeleteSession,
    ReadForRemoving, WriteRemoved, DestroyStep, ReadToEnd, EndOneSession, DropIndex, EventStep,
    FindUser, EraseAddresses, EraseUser, Acknowledge, AdminStep, SetStatus, Unlink, Audit, Fail
<1>2. ASSUME NEW point, NEW user, NEW seen, StepOf(t, Moved(t, point, user, seen))
      PROVE  frames'[t].member = frames[t].member
  BY <1>1, <1>2 DEF StepOf, StoresTyped, Moved
<1>3. ASSUME NEW point, GoTo(t, point)
      PROVE  frames'[t].member = frames[t].member
  BY <1>1, <1>2, <1>3, GoToMoves
<1>4. ASSUME NEW point, NEW seen, GoToWith(t, point, seen)
      PROVE  frames'[t].member = frames[t].member
  BY <1>1, <1>2, <1>4, GoToWithMoves
<1>5. ASSUME NEW point, NEW user, frames' = [frames EXCEPT ![t].at = point, ![t].user = user]
      PROVE  frames'[t].member = frames[t].member
  BY <1>1, <1>2, <1>5, ResolvesMoves
<1>6. ASSUME Finish(t)
      PROVE  frames'[t] = Idle
  BY <1>1, <1>6 DEF Finish, StoresTyped
<1>7. CASE LookUp(t)
  <2>. DEFINE user == identities[frames[t].member]
              point == IF user # 0 THEN "read_account" ELSE "insert_user"
  <2>1. frames' = [frames EXCEPT ![t].at = point, ![t].user = user]
    BY <1>7 DEF LookUp
  <2>. QED
    BY <1>1, <1>5, <2>1
<1>8. CASE InsertUser(t)
  BY <1>1, <1>5, <1>8 DEF InsertUser
<1>9. CASE FindUser(t)
  BY <1>1, <1>5, <1>6, <1>9 DEF FindUser
<1>10. CASE ReadAccount(t) \/ Refresh(t) \/ InsertIdentity(t) \/ AuditLogin(t) \/ PutSession(t)
              \/ ReadForAdding(t) \/ WriteAdded(t)
  BY <1>1, <1>3, <1>4, <1>6, <1>10 DEF ReadAccount, Refresh, InsertIdentity, AuditLogin,
    PutSession, ReadForAdding, WriteAdded
<1>11. CASE LogoutStep(t) \/ DestroyStep(t)
  BY <1>1, <1>3, <1>4, <1>6, <1>11 DEF LogoutStep, FindSession, DeleteSession, ReadForRemoving,
    WriteRemoved, DestroyStep, ReadToEnd, EndOneSession, DropIndex
<1>12. CASE EraseAddresses(t) \/ EraseUser(t) \/ Acknowledge(t) \/ AdminStep(t) \/ Fail(t)
  BY <1>1, <1>3, <1>4, <1>6, <1>12 DEF EraseAddresses, EraseUser, Acknowledge, AdminStep,
    SetStatus, Unlink, Audit, Fail
<1>. QED
  BY <1>1, <1>7, <1>8, <1>9, <1>10, <1>11, <1>12 DEF SignInStep, EventStep

LEMMA ArrivalKeepsInv ==
  ASSUME AccountsInv, NEW t \in Threads, Arrival(t)
  PROVE  AccountsInv'
<1>1. WellTyped /\ WellTyped' /\ WellTypedStep(t)
  BY StepWellTyped DEF AccountsInv, WellTyped, StepOfRequest
<1>2. RowsKept /\ OthersKept(t)
  BY <1>1 DEF WellTypedStep, TablesTyped
<1>3. PICK m \in Members :
        /\ frames'[t].member = m /\ frames[t].at = "idle" /\ frames'[t].at # "idle"
        /\ UNCHANGED <<stores, cookies, linked>> /\ Confined(m) /\ promised' \subseteq promised
        /\ frames'[t].kind = "sign_in" => frames'[t].n = served + 1 /\ m \notin promised'
        /\ frames'[t].at \in {"look_up", "find_session", "find_user", "set_status"}
        /\ overlapped' = IF \E s \in Threads : frames[s].at # "idle" /\ frames[s].member = m
                           THEN overlapped \cup {m} ELSE overlapped
  BY <1>1, ArrivalConfined
<1>4. overlapped \subseteq overlapped'
  BY <1>3
<1>5. OverlapsRecorded'
  BY <1>2, <1>3 DEF AccountsInv, OverlapsRecorded, OthersKept
<1>6. KnowsTheStores(t)'
  <2>1. \A c \in cookies' : c.n # served + 1
    BY <1>1, <1>3, AccountsAssumption DEF WellTyped, CookiesIssued, StoresTyped, Token
  <2>. QED
    BY <1>3, <2>1 DEF KnowsTheStores
<1>7. ASSUME NEW s \in Threads \ {t}
      PROVE  KnowsTheStores(s)'
  <2>1. frames'[s] = frames[s] /\ KnowsTheStores(s)
    BY <1>2 DEF OthersKept, AccountsInv, RequestsKnowTheStores
  <2>2. CASE frames[s].at = "idle"
    BY <2>1, <2>2 DEF KnowsTheStores, Alone
  <2>3. CASE frames[s].at # "idle" /\ frames[s].member = m
    BY <1>3, <2>1, <2>3 DEF KnowsTheStores, Alone
  <2>4. CASE frames[s].member # m
    BY <1>1, <1>2, <1>3, <1>4, <2>1, <2>4, OthersStillKnow
  <2>. QED
    BY <2>2, <2>3, <2>4
<1>8. ASSUME NEW k \in Members
      PROVE  Settled(k)'
  <2>1. Settled(k)
    BY DEF AccountsInv, MembersSettled
  <2>2. CASE k # m
    BY <1>1, <1>2, <1>3, <1>4, <2>1, <2>2, OthersStillSettled
  <2>3. CASE k \in overlapped'
    BY <2>3 DEF Settled
  <2>4. CASE k = m /\ k \notin overlapped'
    BY <1>1, <1>2, <1>3, <2>1, <2>4, SettledKept DEF stores
  <2>. QED
    BY <2>2, <2>3, <2>4
<1>. QED
  BY <1>1, <1>5, <1>6, <1>7, <1>8 DEF AccountsInv, WellTyped, RequestsKnowTheStores, MembersSettled

LEMMA RequestKeepsInv ==
  ASSUME AccountsInv, NEW t \in Threads,
         \/ SignInStep(t) \/ LogoutStep(t) \/ DestroyStep(t)
         \/ EventStep(t) \/ AdminStep(t) \/ Fail(t)
  PROVE  AccountsInv'
<1>1. WellTyped /\ WellTyped' /\ WellTypedStep(t)
  BY StepWellTyped DEF AccountsInv, WellTyped, StepOfRequest
<1>2. RowsKept /\ OthersKept(t)
  BY <1>1 DEF WellTypedStep, TablesTyped
<1>3. /\ frames[t].at # "idle" /\ overlapped' = overlapped
      /\ frames'[t] = Idle \/ frames'[t].member = frames[t].member
  BY <1>1, RequestGoesOn
<1>. DEFINE m == frames[t].member
<1>4. Confined(m) /\ m \in Members
  BY <1>1, <1>3, SignInConfined, RestConfined, InFlight DEF WellTyped
<1>5. OverlapsRecorded'
  <2>1. Idle.at = "idle"
    BY DEF Idle
  <2>. QED
    BY <1>2, <1>3, <2>1 DEF AccountsInv, OverlapsRecorded, OthersKept
<1>6. ASSUME NEW s \in Threads \ {t}
      PROVE  KnowsTheStores(s)'
  <2>1. frames'[s] = frames[s] /\ KnowsTheStores(s)
    BY <1>2 DEF OthersKept, AccountsInv, RequestsKnowTheStores
  <2>2. CASE ~Alone(s)
    BY <1>3, <2>1, <2>2 DEF KnowsTheStores, Alone
  <2>3. CASE Alone(s)
    <3>1. frames[s].member # m
      BY <1>3, <2>3 DEF AccountsInv, OverlapsRecorded, Alone
    <3>. QED
      BY <1>1, <1>2, <1>3, <1>4, <2>1, <3>1, OthersStillKnow
  <2>. QED
    BY <2>2, <2>3
<1>7. ASSUME NEW k \in Members, k # m
      PROVE  Settled(k)'
  <2>1. Settled(k)
    BY DEF AccountsInv, MembersSettled
  <2>. QED
    BY <1>1, <1>2, <1>3, <1>4, <1>7, <2>1, OthersStillSettled
<1>8. ASSUME NEW k, k = m
      PROVE  KnowsTheStores(t)' /\ Settled(k)'
  <2>1. KnowsTheStores(t) /\ Settled(k)
    BY <1>4, <1>8 DEF AccountsInv, RequestsKnowTheStores, MembersSettled
  <2>2. CASE k \in overlapped
    <3>1. Idle.at = "idle"
      BY DEF Idle
    <3>. QED
      BY <1>3, <1>8, <2>2, <3>1 DEF KnowsTheStores, Alone, Settled
  <2>3. CASE k \notin overlapped /\ Fail(t)
    <3>1. KnowsTheStores(t)'
      BY <1>1, <2>3, EndedKnows DEF Fail, Finish, WellTyped, StoresTyped
    <3>2. Settled(k)'
      BY <1>1, <1>2, <1>3, <2>1, <2>3, SettledKept DEF Fail, stores
    <3>. QED
      BY <3>1, <3>2
  <2>4. CASE k \notin overlapped /\ ~Fail(t)
    <3>1. PICK u : u = frames[t].user
      OBVIOUS
    <3>. QED
      BY <1>1, <1>2, <1>8, <2>1, <2>4, <3>1, SignInOwn, LogoutOwn, DestroyOwn, EventOwn, AdminOwn
  <2>. QED
    BY <2>2, <2>3, <2>4
<1>9. \A k \in Members : Settled(k)'
  <2>1. PICK k : k = m
    OBVIOUS
  <2>. QED
    BY <1>7, <1>8, <2>1
<1>. QED
  BY <1>1, <1>5, <1>6, <1>8, <1>9 DEF AccountsInv, WellTyped, RequestsKnowTheStores, MembersSettled

LEMMA AccountsInvInit == AccountsInit => AccountsInv
<1>. SUFFICES ASSUME AccountsInit
              PROVE  AccountsInv
  OBVIOUS
<1>. USE AccountsAssumption DEF AccountsInit
<1>1. users \in Seq(Row) /\ Len(users) = 0 /\ DOMAIN users = {}
  OBVIOUS
<1>2. \A t \in Threads : frames[t] = Idle /\ frames[t].at = "idle"
  BY DEF Idle
<1>3. StoresTyped
  BY <1>1, <1>2 DEF StoresTyped
<1>4. GoneHasNoEmail /\ CookiesIssued /\ RequestsOnOwnAccounts /\ LinkIsOwn
  BY <1>1, <1>2 DEF GoneHasNoEmail, CookiesIssued, RequestsOnOwnAccounts, OnOwnAccount, LinkIsOwn
<1>5. OverlapsRecorded /\ RequestsKnowTheStores /\ MembersSettled
  BY <1>1, <1>2 DEF OverlapsRecorded, RequestsKnowTheStores, KnowsTheStores, Alone,
    MembersSettled, Settled
<1>. QED
  BY <1>3, <1>4, <1>5 DEF AccountsInv

LEMMA AccountsInvNext == AccountsInv /\ [AccountsNext]_accountsVars => AccountsInv'
<1>. SUFFICES ASSUME AccountsInv, [AccountsNext]_accountsVars
              PROVE  AccountsInv'
  OBVIOUS
<1>1. CASE AccountsNext
  BY <1>1, ArrivalKeepsInv, RequestKeepsInv DEF AccountsNext
<1>2. CASE UNCHANGED accountsVars
  BY <1>2 DEF accountsVars, stores, AccountsInv, StoresTyped, GoneHasNoEmail, CookiesIssued,
    RequestsOnOwnAccounts, OnOwnAccount, LinkIsOwn, OverlapsRecorded, RequestsKnowTheStores,
    KnowsTheStores, Alone, MembersSettled, Settled, LiveSessions, Erased
<1>. QED
  BY <1>1, <1>2

\* The accounts keep their invariant, whatever requests run beside each other
\* and wherever they die.
THEOREM AccountsKeepInv == AccountsSpec => []AccountsInv
BY AccountsInvInit, AccountsInvNext, PTL DEF AccountsSpec

-----------------------------------------------------------------------------
(* What follows from it                                                    *)

\* Rows, links, sessions, index and requests hold what they may hold, and every
\* account id a request or a link carries is that of a row that was inserted.
THEOREM AccountsTypesCorrect == AccountsSpec => []AccountsTypeOK
<1>1. AccountsInv => AccountsTypeOK
  <2>. SUFFICES ASSUME AccountsInv
                PROVE  AccountsTypeOK
    OBVIOUS
  <2>1. StoresTyped /\ GoneHasNoEmail
    BY DEF AccountsInv
  <2>2. \A u \in DOMAIN users : users[u] \in
          [member : Members, status : {"active", "suspended", "deleted", "gone"},
           email : {"real", "anonymised", "none"}]
    BY <2>1, RowExists DEF Row
  <2>3. ASSUME NEW t \in Threads
        PROVE  frames[t].at \in Points /\ frames[t].user \in 0..Len(users)
    <3>1. CASE frames[t].at = "idle"
      <4>1. frames[t] = Idle
        BY <2>1, <3>1 DEF StoresTyped, Request
      <4>. QED
        BY <2>1, <4>1 DEF Idle, Points, StoresTyped
    <3>2. CASE frames[t].at # "idle"
      <4>1. frames[t].at \in Points
        BY <2>1, <3>2, InFlight DEF Request
      <4>2. frames[t].user \in DOMAIN users \/ frames[t].user = 0
        BY <3>2 DEF AccountsInv, RequestsOnOwnAccounts, OnOwnAccount
      <4>. QED
        BY <2>1, <4>1, <4>2, RowExists DEF StoresTyped
    <3>. QED
      BY <3>1, <3>2
  <2>. QED
    BY <2>1, <2>2, <2>3 DEF AccountsTypeOK, StoresTyped, GoneHasNoEmail
<1>. QED
  BY <1>1, AccountsKeepInv, PTL

\* A member is only ever linked to an account that was created for that member and
\* is not erased: the two statements of a first sign-in, the deletions and the
\* second sign-ins that run between them never cross two members.
THEOREM LinksAreOwn == AccountsSpec => []LinkIsOwn
<1>1. AccountsInv => LinkIsOwn
  BY DEF AccountsInv
<1>. QED
  BY <1>1, AccountsKeepInv, PTL

\* A deletion acknowledged to BudgetApp is kept by every account the member had
\* been linked to, as long as no two requests about the member overlapped.
THEOREM PromisesAreKept == AccountsSpec => []PromiseKept
<1>1. AccountsInv => PromiseKept
  <2>. SUFFICES ASSUME AccountsInv, NEW m \in promised \ overlapped
                PROVE  /\ identities[m] = 0
                       /\ \A u \in linked : users[u].member = m => Erased(u)
    BY DEF PromiseKept
  <2>1. StoresTyped /\ Settled(m)
    BY DEF AccountsInv, StoresTyped, MembersSettled
  <2>2. \A u \in linked : u # 0
    BY <2>1, RowExists DEF StoresTyped
  <2>. QED
    BY <2>1, <2>2 DEF Settled
<1>. QED
  BY <1>1, AccountsKeepInv, PTL

\* When destroyAllUserSessions has run for a member nobody else worked on, no
\* session a browser holds is left: its index had named them all.
THEOREM SessionsDoEndTogether == AccountsSpec => SessionsEndTogether
<1>1. ASSUME AccountsInv, NEW t \in Threads, DropIndex(t), frames[t].member \notin overlapped
      PROVE  LiveSessions(frames[t].user)' = {}
  <2>1. frames[t].at = "end_sessions" /\ frames[t].seen = {} /\ UNCHANGED <<sessions, cookies>>
    BY <1>1 DEF DropIndex, At
  <2>2. LiveSessions(frames[t].user) = {}
    BY <1>1, <2>1 DEF AccountsInv, RequestsKnowTheStores, KnowsTheStores, Alone
  <2>3. frames'[t].user = frames[t].user
    <3>1. StoresTyped
      BY <1>1 DEF AccountsInv
    <3>2. StepOf(t, Moved(t, AfterSessions(frames[t].kind), frames[t].user, frames[t].seen))
      BY <1>1, <2>1, <3>1, GoToMoves DEF DropIndex
    <3>. QED
      BY <3>1, <3>2 DEF StepOf, StoresTyped, Moved
  <2>. QED
    BY <2>1, <2>2, <2>3 DEF LiveSessions
<1>2. AccountsInv /\ [AccountsNext]_accountsVars =>
        [\A t \in Threads :
           DropIndex(t) /\ frames[t].member \notin overlapped
             => LiveSessions(frames[t].user)' = {}]_accountsVars
  BY <1>1
<1>. QED
  BY <1>2, AccountsKeepInv, PTL DEF AccountsSpec, SessionsEndTogether
====
