-------------------------- MODULE ResearchApiProofs --------------------------
(***************************************************************************)
(* What the Worker's gates, administration and research API guarantee for  *)
(* every number of accounts, requests, keys and signals, checked by TLAPS. *)
(***************************************************************************)
EXTENDS ResearchApi, FiniteSetTheorems, SequenceTheorems, WellFoundedInduction, TLAPS

(***************************************************************************)
(* The strengthening, in four parts: what the stores and requests hold;    *)
(* which requests lie behind their gate; that administrators at work are   *)
(* administrators; and that nobody comes back to a removed account.        *)
(***************************************************************************)
UserKinds == {"suspend", "unsuspend", "role", "delete", "expire"}

AdminKinds == UserKinds \cup {"create_key", "revoke_key"}

Kinds == AdminKinds \cup {"none", "sign_in", "push", "evaluate", "act"}

Points == {"idle", "put_session", "gate", "read_role", "update", "unlink", "end_sessions",
           "audit", "insert_key", "revoke", "key_gate", "token_gate", "session_gate",
           "insert_signal", "find_signal", "insert_evaluation", "insert_action"}

\* Where a request of a kind may stand.
MayBeAt(kind, point) ==
  \/ point = "idle" /\ kind = "none"
  \/ point = "put_session" /\ kind = "sign_in"
  \/ point \in {"gate", "audit"} /\ kind \in AdminKinds
  \/ point = "read_role" /\ kind = "role"
  \/ point = "update" /\ kind \in UserKinds
  \/ point = "unlink" /\ kind = "delete"
  \/ point = "end_sessions" /\ kind \in {"suspend", "delete"}
  \/ point = "insert_key" /\ kind = "create_key"
  \/ point = "revoke" /\ kind = "revoke_key"
  \/ point \in {"key_gate", "token_gate"} /\ kind \in {"push", "evaluate"}
  \/ point = "session_gate" /\ kind = "act"
  \/ point = "insert_signal" /\ kind = "push"
  \/ point = "find_signal" /\ kind \in {"evaluate", "act"}
  \/ point = "insert_evaluation" /\ kind = "evaluate"
  \/ point = "insert_action" /\ kind = "act"

Frame == [at : Points, kind : Kinds, by : People, copy : Roles, otp : BOOLEAN,
          about : People, from : Roles, to : Roles, key : Nat, signal : Nat]

Key == [revoked : BOOLEAN, expired : BOOLEAN]

TrailRow == [action : Kinds, about : People, key : Nat, from : Roles \cup {"unsaid"}, to : Roles]

\* Part one.
AccountsTyped ==
  /\ users \in [People -> [role : Roles, status : Statuses]]
  /\ sessions \subseteq [user : People, role : Roles, otp : BOOLEAN]
  /\ trail \in Seq(TrailRow)
  /\ frames \in [Threads -> Frame]
  /\ served \in 0..MaxRequests

\* Every account that was created and not erased is in the roll once, and identities
\* and tokens lead to such accounts only.
RollKept ==
  /\ roll \in Seq(People) /\ IsInjective(roll)
  /\ ToSet(roll) = { p \in People : users[p].status \notin {"none", "gone"} }
  /\ linked \subseteq ToSet(roll) /\ tokens \subseteq ToSet(roll)

ResearchTyped ==
  /\ keys \in Seq(Key) /\ held \subseteq DOMAIN keys
  /\ signals \in Seq(1..MaxSignals) /\ IsInjective(signals)
  /\ evaluations \subseteq {0} \cup DOMAIN signals
  /\ actions \subseteq [user : People, signal : DOMAIN signals]

\* A request carries what its point needs.
InOrder(f) ==
  /\ MayBeAt(f.kind, f.at)
  /\ f.kind = "sign_in" => f.about = f.by
  /\ f.kind \in UserKinds => users[f.about].status # "none"
  /\ f.at = "key_gate" \/ f.kind = "revoke_key" \/ (f.kind = "create_key" /\ f.at = "audit")
       => f.key \in DOMAIN keys
  /\ f.at = "token_gate" => f.key = 0
  /\ f.kind = "act" \/ f.at = "find_signal" => f.signal # 0
  /\ f.at = "insert_evaluation" => f.signal \in {0} \cup DOMAIN signals
  /\ f.at = "insert_action" => f.signal \in DOMAIN signals

FramesInOrder == \A t \in Threads : InOrder(frames[t])

\* No page shows an account that does not exist yet.
NothingSeenEarly ==
  /\ seen \in [People -> SUBSET Statuses]
  /\ \A u \in People : users[u].status = "none" => seen[u] \subseteq {"none"}

StoresTyped == AccountsTyped /\ RollKept /\ ResearchTyped /\ FramesInOrder

WorkerTyped == StoresTyped /\ NothingSeenEarly /\ fit \subseteq Threads

\* Part two is WithAuthority as it stands.  Part three.  Unless administrators'
\* changes met, whoever is at work to take power from somebody is an administrator
\* in force, and not at work on themselves.
AtWork(t) ==
  LET f == frames[t]
  IN  /\ users[f.by].status = "active" /\ users[f.by].role = "admin"
      /\ f.about # f.by

OneAtWork ==
  ~excused =>
    /\ \A t \in Threads : TakingPower(frames[t]) => AtWork(t)
    /\ \A t \in Threads, s \in Threads :
         TakingPower(frames[t]) /\ TakingPower(frames[s]) => frames[t].by = frames[s].by

\* Part four.  Nobody gets to an account any more: no identity leads to it, nor is it
\* to be created, and no sign-in is under way unless one crossed another request.
Shut(u) ==
  /\ u \notin linked /\ users[u].status # "none"
  /\ u \notin crossed => \A t \in Threads : frames[t].kind = "sign_in" => frames[t].about # u

Deleting(t, point) == frames[t].kind = "delete" /\ At(t, point)

RemovedAreShut ==
  /\ removed \subseteq People /\ \A u \in removed : Shut(u)
  /\ \A t \in Threads : Deleting(t, "end_sessions") => Shut(frames[t].about)
  /\ \A t \in Threads : Deleting(t, "audit") => frames[t].about \in removed

WorkerInv ==
  /\ WorkerTyped /\ WithAuthority
  /\ OneAtWork /\ AnAdminRemains
  /\ RemovedAreShut /\ NoWayBack
  /\ KeysOnRecord /\ ActionsOwned

-----------------------------------------------------------------------------
(* Sequences                                                               *)

LEMMA Appended ==
  ASSUME NEW S, NEW q \in Seq(S), NEW e \in S
  PROVE  /\ Append(q, e) \in Seq(S) /\ Len(Append(q, e)) = Len(q) + 1 /\ Len(q) \in Nat
         /\ DOMAIN q = 1..Len(q) /\ DOMAIN Append(q, e) = 1..(Len(q) + 1)
         /\ Append(q, e)[Len(q) + 1] = e
         /\ \A n \in 1..Len(q) : Append(q, e)[n] = q[n]
<1>1. /\ Append(q, e) \in Seq(S) /\ Len(Append(q, e)) = Len(q) + 1
      /\ \A n \in 1..Len(q) : Append(q, e)[n] = q[n]
      /\ Append(q, e)[Len(q) + 1] = e
  BY AppendProperties
<1>. QED
  BY <1>1, LenProperties

LEMMA Replaced ==
  ASSUME NEW S, NEW q \in Seq(S), NEW k \in DOMAIN q, NEW e \in S
  PROVE  /\ [q EXCEPT ![k] = e] \in Seq(S) /\ Len([q EXCEPT ![k] = e]) = Len(q)
         /\ Len(q) \in Nat
         /\ DOMAIN q = 1..Len(q) /\ DOMAIN [q EXCEPT ![k] = e] = 1..Len(q)
         /\ \A n \in 1..Len(q) : [q EXCEPT ![k] = e][n] = IF n = k THEN e ELSE q[n]
<1>1. DOMAIN q = 1..Len(q) /\ Len(q) \in Nat
  BY LenProperties
<1>2. [q EXCEPT ![k] = e] \in Seq(S) /\ Len([q EXCEPT ![k] = e]) = Len(q)
  BY <1>1, ExceptSeq
<1>. QED
  BY <1>1, <1>2

\* A sequence without repetitions to which something new is appended.
LEMMA AppendedFresh ==
  ASSUME NEW S, NEW q \in Seq(S), IsInjective(q), NEW e \in S, e \notin ToSet(q)
  PROVE  IsInjective(Append(q, e)) /\ ToSet(Append(q, e)) = ToSet(q) \cup {e}
<1>1. /\ Append(q, e) \in Seq(S) /\ Len(q) \in Nat
      /\ DOMAIN q = 1..Len(q) /\ DOMAIN Append(q, e) = 1..(Len(q) + 1)
      /\ Append(q, e)[Len(q) + 1] = e /\ \A n \in 1..Len(q) : Append(q, e)[n] = q[n]
  BY Appended
<1>2. ToSet(Append(q, e)) = ToSet(q) \cup {e}
  BY <1>1 DEF ToSet
<1>3. IsInjective(Append(q, e))
  BY <1>1 DEF IsInjective, ToSet
<1>. QED
  BY <1>2, <1>3

\* The entries of a sequence from which one is removed.
LEMMA Shortened ==
  ASSUME NEW S, NEW q \in Seq(S), NEW i \in DOMAIN q
  PROVE  /\ RemoveAt(q, i) \in Seq(S) /\ Len(RemoveAt(q, i)) = Len(q) - 1
         /\ \A n \in 1..(Len(q) - 1) : RemoveAt(q, i)[n] = IF n < i THEN q[n] ELSE q[n + 1]
<1>1. /\ Len(q) \in Nat /\ DOMAIN q = 1..Len(q) /\ i \in 1..Len(q)
      /\ \A n \in 1..Len(q) : q[n] \in S
  OBVIOUS
<1>. DEFINE front == SubSeq(q, 1, i - 1)
            back == SubSeq(q, i + 1, Len(q))
            rest == front \o back
<1>2. /\ front \in Seq(S) /\ Len(front) = i - 1
      /\ \A n \in 1..(i - 1) : front[n] = q[n]
  <2>1. 1 \in Int /\ i - 1 \in Int /\ \A n \in 1..(i - 1) : q[n] \in S
    BY <1>1
  <2>2. /\ front \in Seq(S) /\ Len(front) = (IF 1 <= i - 1 THEN (i - 1) - 1 + 1 ELSE 0)
        /\ \A n \in 1..((i - 1) - 1 + 1) : front[n] = q[1 + n - 1]
    BY <2>1, SubSeqProperties
  <2>. HIDE DEF front
  <2>. QED
    BY <1>1, <2>2
<1>3. /\ back \in Seq(S) /\ Len(back) = Len(q) - i
      /\ \A n \in 1..(Len(q) - i) : back[n] = q[n + i]
  <2>1. i + 1 \in Int /\ Len(q) \in Int /\ \A n \in (i + 1)..Len(q) : q[n] \in S
    BY <1>1
  <2>2. /\ back \in Seq(S) /\ Len(back) = (IF i + 1 <= Len(q) THEN Len(q) - (i + 1) + 1 ELSE 0)
        /\ \A n \in 1..(Len(q) - (i + 1) + 1) : back[n] = q[(i + 1) + n - 1]
    BY <2>1, SubSeqProperties
  <2>. HIDE DEF back
  <2>3. Len(back) = Len(q) - i
    BY <1>1, <2>2
  <2>4. ASSUME NEW n \in 1..(Len(q) - i) PROVE back[n] = q[n + i]
    <3>1. n \in 1..(Len(q) - (i + 1) + 1) /\ (i + 1) + n - 1 = n + i
      BY <1>1
    <3>. QED
      BY <2>2, <3>1
  <2>. QED
    BY <2>2, <2>3, <2>4
<1>. HIDE DEF front, back
<1>4. /\ rest \in Seq(S) /\ Len(rest) = Len(q) - 1
      /\ \A n \in 1..(Len(q) - 1) : rest[n] = IF n < i THEN q[n] ELSE q[n + 1]
  <2>1. /\ rest \in Seq(S) /\ Len(rest) = Len(front) + Len(back)
        /\ \A n \in 1..(Len(front) + Len(back)) :
             rest[n] = IF n <= Len(front) THEN front[n] ELSE back[n - Len(front)]
    BY <1>2, <1>3, ConcatProperties
  <2>. HIDE DEF rest
  <2>2. ASSUME NEW n \in 1..(Len(q) - 1)
        PROVE  rest[n] = IF n < i THEN q[n] ELSE q[n + 1]
    <3>1. CASE n < i
      BY <1>1, <1>2, <1>3, <2>1, <3>1
    <3>2. CASE ~(n < i)
      <4>1. n - (i - 1) \in 1..(Len(q) - i) /\ (n - (i - 1)) + i = n + 1
        BY <1>1, <3>2
      <4>2. n \in 1..(Len(front) + Len(back)) /\ ~(n <= Len(front)) /\ n - Len(front) = n - (i - 1)
        BY <1>1, <1>2, <1>3, <3>2
      <4>3. rest[n] = back[n - (i - 1)]
        BY <2>1, <4>2
      <4>. QED
        BY <1>3, <3>2, <4>1, <4>3
    <3>. QED
      BY <3>1, <3>2
  <2>. QED
    BY <1>1, <1>2, <1>3, <2>1, <2>2
<1>5. rest = RemoveAt(q, i)
  BY DEF rest, front, back, RemoveAt
<1>. HIDE DEF rest
<1>. QED
  BY <1>4, <1>5

\* A sequence without repetitions from which one entry is removed.
LEMMA Removed ==
  ASSUME NEW S, NEW q \in Seq(S), IsInjective(q), NEW i \in DOMAIN q
  PROVE  /\ RemoveAt(q, i) \in Seq(S) /\ IsInjective(RemoveAt(q, i))
         /\ ToSet(RemoveAt(q, i)) = ToSet(q) \ {q[i]}
<1>1. /\ Len(q) \in Nat /\ DOMAIN q = 1..Len(q) /\ i \in 1..Len(q)
      /\ \A n \in 1..Len(q) : q[n] \in S
  OBVIOUS
<1>. DEFINE rest == RemoveAt(q, i)
<1>4. /\ rest \in Seq(S) /\ Len(rest) = Len(q) - 1
      /\ \A n \in 1..(Len(q) - 1) : rest[n] = IF n < i THEN q[n] ELSE q[n + 1]
  BY Shortened
<1>. HIDE DEF rest
<1>6. Len(q) - 1 \in Nat /\ DOMAIN rest = 1..(Len(q) - 1)
  BY <1>1, <1>4
<1>7. \A m \in 1..Len(q), n \in 1..Len(q) : q[m] = q[n] => m = n
  BY <1>1 DEF IsInjective
<1>8. IsInjective(rest)
  <2>1. ASSUME NEW m \in 1..(Len(q) - 1), NEW n \in 1..(Len(q) - 1), rest[m] = rest[n]
        PROVE  m = n
    <3>. DEFINE past(k) == IF k < i THEN k ELSE k + 1
    <3>1. \A k \in 1..(Len(q) - 1) : past(k) \in 1..Len(q) /\ rest[k] = q[past(k)]
      BY <1>1, <1>4
    <3>2. past(m) = past(n)
      <4>. HIDE DEF past
      <4>. QED
        BY <1>7, <2>1, <3>1
    <3>. QED
      BY <1>1, <3>2
  <2>. QED
    BY <1>6, <2>1 DEF IsInjective
<1>9. ToSet(rest) = ToSet(q) \ {q[i]}
  <2>1. ASSUME NEW n \in 1..(Len(q) - 1) PROVE rest[n] \in ToSet(q) \ {q[i]}
    BY <1>1, <1>4, <1>7 DEF ToSet
  <2>2. ASSUME NEW e \in ToSet(q) \ {q[i]} PROVE e \in ToSet(rest)
    <3>1. PICK m \in 1..Len(q) : q[m] = e /\ m # i
      BY <1>1 DEF ToSet
    <3>2. CASE m < i
      BY <1>1, <1>4, <1>6, <3>1, <3>2 DEF ToSet
    <3>3. CASE m > i
      <4>1. m - 1 \in 1..(Len(q) - 1) /\ ~(m - 1 < i) /\ (m - 1) + 1 = m
        BY <1>1, <3>3
      <4>2. rest[m - 1] = e
        BY <1>4, <3>1, <4>1
      <4>. QED
        BY <1>6, <4>1, <4>2 DEF ToSet
    <3>. QED
      BY <1>1, <3>1, <3>2, <3>3
  <2>3. ASSUME NEW e \in ToSet(rest) PROVE e \in ToSet(q) \ {q[i]}
    BY <1>6, <2>1 DEF ToSet
  <2>. QED
    BY <2>2, <2>3
<1>. QED
  BY <1>4, <1>8, <1>9 DEF rest

\* A finite set, each of its elements once.
LEMMA Enumerated ==
  ASSUME NEW S, IsFiniteSet(S)
  PROVE  SetToSeq(S) \in Seq(S) /\ IsInjective(SetToSeq(S)) /\ ToSet(SetToSeq(S)) = S
<1>. DEFINE n == Cardinality(S)
            q == SetToSeq(S)
<1>1. n \in Nat /\ \E f \in [1..n -> S] : IsInjective(f)
  BY FS_CardinalityType DEF ExistsBijection, Bijection, Injection
<1>2. q \in [1..n -> S] /\ IsInjective(q)
  BY <1>1 DEF SetToSeq
<1>. HIDE DEF q
<1>3. q \in Injection(1..n, S)
  BY <1>2 DEF Injection
<1>4. (1..n = {} /\ n = 0) \/ Cardinality(1..n) = n
  BY <1>1, FS_Interval
<1>5. Cardinality(1..n) = n
  BY <1>1, <1>4, FS_Interval
<1>. HIDE DEF n
<1>6. q \in Surjection(1..n, S)
  BY <1>3, <1>5, FS_Injection DEF n
<1>7. ToSet(q) = S
  BY <1>2, <1>6 DEF ToSet, Surjection
<1>8. q \in Seq(S)
  BY <1>1, <1>2, SeqDef DEF n
<1>. QED
  BY <1>2, <1>7, <1>8 DEF q

\* As many elements as entries.
LEMMA Counted ==
  ASSUME NEW S, NEW q \in Seq(S), IsInjective(q)
  PROVE  Len(q) = Cardinality(ToSet(q))
<1>1. Len(q) \in Nat /\ DOMAIN q = 1..Len(q) /\ q \in [1..Len(q) -> ToSet(q)]
  BY DEF ToSet
<1>2. q \in Bijection(1..Len(q), ToSet(q))
  BY <1>1 DEF Bijection, Injection, Surjection, ToSet
<1>. QED
  BY <1>1, <1>2, FS_CountingElements DEF ExistsBijection

\* Positions, if there are any, have a last one.
LEMMA Latest ==
  ASSUME NEW n \in Nat, NEW T, T \subseteq 1..n, T # {}
  PROVE  \E k \in T : \A j \in T : j <= k
<1>. DEFINE back == { m \in 0..n : n - m \in T }
<1>1. \A j \in T : n - j \in back
  OBVIOUS
<1>2. IsWellFoundedOn(OpToRel(<, Nat), Nat)
  BY NatLessThanWellFounded
<1>3. back \subseteq Nat /\ back # {}
  <2>1. PICK j : j \in T
    OBVIOUS
  <2>2. n - j \in back
    BY <1>1, <2>1
  <2>. QED
    BY <2>2
<1>4. PICK m \in back : \A k \in back : ~ (<<k, m>> \in OpToRel(<, Nat))
  <2>. HIDE DEF back
  <2>. QED
    BY <1>2, <1>3, WFMin
<1>5. \A k \in back : ~ (k < m)
  BY <1>3, <1>4 DEF OpToRel
<1>6. m \in 0..n /\ n - m \in T
  OBVIOUS
<1>7. ASSUME NEW j \in T PROVE j <= n - m
  <2>1. n - j \in back /\ j \in 1..n
    BY <1>1
  <2>2. n - j \in Int /\ m \in Int /\ ~(n - j < m)
    BY <1>5, <1>6, <2>1
  <2>. QED
    BY <1>6, <2>1, <2>2
<1>. QED
  BY <1>6, <1>7

-----------------------------------------------------------------------------
(* How frames move                                                         *)

StepOf(t, f) == frames' = [frames EXCEPT ![t] = f]

Cookies == [user : People, role : Roles, otp : BOOLEAN]

LEMMA RequestIsFrame ==
  ASSUME NEW point \in Points, NEW kind \in Kinds, NEW s \in Cookies
  PROVE  Request(point, kind, s) \in Frame
BY DEF Request, Frame, Cookies, Roles

LEMMA VisitorIsCookie == ASSUME NEW p \in People PROVE Visitor(p) \in Cookies
BY DEF Visitor, Cookies, Roles

LEMMA IdleIsFrame == Idle \in Frame /\ Idle.at = "idle" /\ Idle.kind = "none"
<1>. DEFINE nobody == Visitor(CHOOSE p \in People : TRUE)
<1>1. (CHOOSE p \in People : TRUE) \in People
  BY AdministrationAssumption
<1>2. nobody \in Cookies
  BY <1>1, VisitorIsCookie
<1>3. Idle = Request("idle", "none", nobody)
  BY DEF Idle
<1>. HIDE DEF nobody
<1>4. "none" \in Kinds /\ "idle" \in Points
  BY DEF Kinds, Points
<1>5. Idle \in Frame
  BY <1>2, <1>3, <1>4, RequestIsFrame
<1>. QED
  BY <1>3, <1>5 DEF Request

\* One field of a frame is set, the others stay.
Others(f, g, fields) ==
  /\ "at" \notin fields => g.at = f.at
  /\ "about" \notin fields => g.about = f.about
  /\ "from" \notin fields => g.from = f.from
  /\ "to" \notin fields => g.to = f.to
  /\ "key" \notin fields => g.key = f.key
  /\ "signal" \notin fields => g.signal = f.signal
  /\ g.kind = f.kind /\ g.by = f.by /\ g.copy = f.copy /\ g.otp = f.otp

LEMMA Set ==
  ASSUME NEW f \in Frame
  PROVE  /\ \A x \in Points : LET g == [f EXCEPT !.at = x]
                            IN  g \in Frame /\ g.at = x /\ Others(f, g, {"at"})
         /\ \A x \in People : LET g == [f EXCEPT !.about = x]
                            IN  g \in Frame /\ g.about = x /\ Others(f, g, {"about"})
         /\ \A x \in Roles : LET g == [f EXCEPT !.from = x]
                           IN  g \in Frame /\ g.from = x /\ Others(f, g, {"from"})
         /\ \A x \in Roles : LET g == [f EXCEPT !.to = x]
                           IN  g \in Frame /\ g.to = x /\ Others(f, g, {"to"})
         /\ \A x \in Nat : LET g == [f EXCEPT !.key = x]
                         IN  g \in Frame /\ g.key = x /\ Others(f, g, {"key"})
         /\ \A x \in Nat : LET g == [f EXCEPT !.signal = x]
                         IN  g \in Frame /\ g.signal = x /\ Others(f, g, {"signal"})
BY DEF Frame, Others

\* The frame of a button pressed.
Button(kind, s, u, role) == [Request("gate", kind, s) EXCEPT !.about = u, !.to = role]

LEMMA Pressed ==
  ASSUME NEW kind \in Kinds, NEW s \in Cookies, NEW u \in People, NEW role \in Roles
  PROVE  LET f == Button(kind, s, u, role)
         IN  f \in Frame /\ f.at = "gate" /\ f.kind = kind /\ f.about = u
<1>. DEFINE r == Request("gate", kind, s)
            q == [r EXCEPT !.about = u]
            f == [q EXCEPT !.to = role]
<1>1. r \in Frame /\ r.at = "gate" /\ r.kind = kind
  <2>1. r \in Frame
    BY RequestIsFrame DEF Points
  <2>. QED
    BY <2>1 DEF Request
<1>. HIDE DEF r
<1>2. q \in Frame /\ q.about = u /\ Others(r, q, {"about"})
  BY <1>1, Set
<1>. HIDE DEF q
<1>3. f \in Frame /\ Others(q, f, {"to"})
  BY <1>2, Set
<1>. HIDE DEF f
<1>4. f \in Frame /\ f.at = "gate" /\ f.kind = kind /\ f.about = u
  BY <1>1, <1>2, <1>3 DEF Others
<1>5. f = Button(kind, s, u, role)
  BY DEF f, q, r, Button
<1>. QED
  BY <1>4, <1>5

LEMMA StepOfFrames ==
  ASSUME NEW t \in Threads, NEW f, AccountsTyped, StepOf(t, f)
  PROVE  /\ frames'[t] = f
         /\ \A s \in Threads \ {t} : frames'[s] = frames[s]
         /\ f \in Frame => frames' \in [Threads -> Frame]
BY DEF StepOf, AccountsTyped

\* The frame of a request that goes on at a point.
Going(t, point) == [frames[t] EXCEPT !.at = point]

LEMMA GoToMoves ==
  ASSUME NEW t \in Threads, AccountsTyped, NEW point \in Points
  PROVE  /\ Going(t, point) \in Frame /\ Going(t, point).at = point
         /\ Others(frames[t], Going(t, point), {"at"})
         /\ GoTo(t, point) => StepOf(t, Going(t, point))
<1>1. frames[t] \in Frame
  BY DEF AccountsTyped
<1>2. GoTo(t, point) => StepOf(t, Going(t, point))
  BY DEF GoTo, StepOf, Going
<1>. QED
  BY <1>1, <1>2, Set DEF Going

LEMMA FinishMoves == ASSUME NEW t, Finish(t) PROVE StepOf(t, Idle)
BY DEF Finish, StepOf

\* Two fields of the frame of a request are set, one after the other.
LEMMA SetsTwice ==
  ASSUME NEW t \in Threads, AccountsTyped, NEW g, NEW point, NEW there,
         there = [frames EXCEPT ![t] = g],
         frames' = [there EXCEPT ![t] = [there[t] EXCEPT !.at = point]]
  PROVE  StepOf(t, [g EXCEPT !.at = point])
<1>1. there[t] = g
  BY DEF AccountsTyped
<1>. QED
  BY <1>1 DEF AccountsTyped, StepOf

-----------------------------------------------------------------------------
(* Part one, step by step                                                  *)

\* Accounts that exist, keys and signals are never less than before.
Grows ==
  /\ \A p \in People : users'[p].status = "none" => users[p].status = "none"
  /\ DOMAIN keys \subseteq DOMAIN keys' /\ DOMAIN signals \subseteq DOMAIN signals'

LEMMA OrderKept ==
  ASSUME NEW f \in Frame, InOrder(f), Grows
  PROVE  InOrder(f)'
BY DEF InOrder, Grows, Frame

\* A request goes on with a frame that fits, or none moves.
LEMMA StepKeepsOrder ==
  ASSUME StoresTyped, NEW t \in Threads, NEW f \in Frame, StepOf(t, f), InOrder(f)', Grows
  PROVE  frames' \in [Threads -> Frame] /\ FramesInOrder'
<1>1. AccountsTyped /\ \A s \in Threads : frames[s] \in Frame /\ InOrder(frames[s])
  BY DEF StoresTyped, AccountsTyped, FramesInOrder
<1>2. /\ frames'[t] = f /\ \A s \in Threads \ {t} : frames'[s] = frames[s]
      /\ frames' \in [Threads -> Frame]
  BY <1>1, StepOfFrames
<1>3. ASSUME NEW s \in Threads PROVE InOrder(frames[s])'
  <2>1. CASE s = t
    BY <1>2, <2>1 DEF InOrder
  <2>2. CASE s # t
    <3>1. ASSUME NEW g \in Frame, InOrder(g), frames'[s] = g PROVE InOrder(frames[s])'
      BY <3>1, OrderKept DEF InOrder
    <3>. QED
      BY <1>1, <1>2, <2>2, <3>1
  <2>. QED
    BY <2>1, <2>2
<1>. QED
  BY <1>2, <1>3 DEF FramesInOrder

LEMMA StillFramesKeepOrder ==
  ASSUME StoresTyped, UNCHANGED frames, Grows
  PROVE  frames' \in [Threads -> Frame] /\ FramesInOrder'
<1>1. \A s \in Threads : frames[s] \in Frame /\ InOrder(frames[s])
  BY DEF StoresTyped, AccountsTyped, FramesInOrder
<1>2. ASSUME NEW s \in Threads PROVE InOrder(frames[s])'
  <2>1. ASSUME NEW g \in Frame, InOrder(g), frames'[s] = g PROVE InOrder(frames[s])'
    BY <2>1, OrderKept DEF InOrder
  <2>. QED
    BY <1>1, <2>1
<1>. QED
  BY <1>2 DEF FramesInOrder, StoresTyped, AccountsTyped

\* A request goes on and leaves the stores alone.
LEMMA RequestKeepsStores ==
  ASSUME StoresTyped, NEW t \in Threads, NEW f \in Frame, StepOf(t, f), InOrder(f),
         served' \in 0..MaxRequests, UNCHANGED <<adminStores, researchStores>>
  PROVE  StoresTyped' /\ Grows
<1>1. Grows
  BY DEF Grows, adminStores, researchStores
<1>2. InOrder(f)'
  BY <1>1, OrderKept
<1>3. frames' \in [Threads -> Frame] /\ FramesInOrder'
  BY <1>1, <1>2, StepKeepsOrder
<1>. QED
  BY <1>1, <1>3 DEF StoresTyped, AccountsTyped, RollKept, ResearchTyped, adminStores, researchStores

LEMMA IdleInOrder == InOrder(Idle)
BY IdleIsFrame DEF InOrder, MayBeAt, UserKinds

LEMMA FinishKeepsStores ==
  ASSUME StoresTyped, NEW t \in Threads, Finish(t), UNCHANGED served,
         UNCHANGED <<adminStores, researchStores>>
  PROVE  StoresTyped' /\ Grows
BY FinishMoves, IdleIsFrame, IdleInOrder, RequestKeepsStores DEF StoresTyped, AccountsTyped

\* A request goes to a point that its kind may be at and that asks for nothing new.
LEMMA GoingFits ==
  ASSUME StoresTyped, NEW t \in Threads, NEW point \in Points, MayBeAt(frames[t].kind, point),
         point \notin {"key_gate", "token_gate"},
         point = "audit" => frames[t].kind # "create_key",
         point = "find_signal" => frames[t].signal # 0,
         point = "insert_evaluation" => frames[t].signal \in {0} \cup DOMAIN signals,
         point = "insert_action" => frames[t].signal \in DOMAIN signals
  PROVE  Going(t, point) \in Frame /\ InOrder(Going(t, point))
<1>1. frames[t] \in Frame /\ InOrder(frames[t])
  BY DEF StoresTyped, AccountsTyped, FramesInOrder
<1>2. /\ Going(t, point) \in Frame /\ Going(t, point).at = point
      /\ Others(frames[t], Going(t, point), {"at"})
  BY GoToMoves DEF StoresTyped
<1>. QED
  BY <1>1, <1>2 DEF InOrder, Others

LEMMA BeganServes ==
  ASSUME StoresTyped, served < MaxRequests, served' = served + 1
  PROVE  served' \in 0..MaxRequests
BY AdministrationAssumption DEF StoresTyped, AccountsTyped

\* The roll as long as nobody is created or erased.
LEMMA RollStays ==
  ASSUME RollKept, UNCHANGED roll, linked' \subseteq linked, tokens' \subseteq tokens,
         \A p \in People : users'[p].status \in {"none", "gone"} <=> users[p].status \in {"none", "gone"}
  PROVE  RollKept'
<1>1. { p \in People : users'[p].status \notin {"none", "gone"} } =
        { p \in People : users[p].status \notin {"none", "gone"} }
  OBVIOUS
<1>. QED
  BY <1>1 DEF RollKept

\* The roll when an account is created.
LEMMA RollGrows ==
  ASSUME AccountsTyped, RollKept, NEW p \in People, users[p].status = "none",
         users' = [users EXCEPT ![p].status = "active"],
         roll' = Append(roll, p), linked' = linked \cup {p}, UNCHANGED tokens
  PROVE  RollKept'
<1>1. roll \in Seq(People) /\ p \notin ToSet(roll)
  BY DEF RollKept
<1>2. roll' \in Seq(People)
  BY <1>1, Appended
<1>3. IsInjective(roll') /\ ToSet(roll') = ToSet(roll) \cup {p}
  BY <1>1, AppendedFresh DEF RollKept
<1>4. \A q \in People : users'[q].status = IF q = p THEN "active" ELSE users[q].status
  BY DEF AccountsTyped
<1>5. ToSet(roll') = { q \in People : users'[q].status \notin {"none", "gone"} }
  BY <1>3, <1>4 DEF RollKept
<1>. QED
  BY <1>2, <1>3, <1>5 DEF RollKept

LEMMA BeginSignInTyped ==
  ASSUME StoresTyped, NEW t \in Threads, NEW p \in People, NEW otp \in BOOLEAN,
         BeginSignIn(t, p, otp), UNCHANGED researchStores
  PROVE  StoresTyped' /\ Grows
<1>0. AccountsTyped /\ RollKept
  BY DEF StoresTyped
<1>. PICK role \in Roles : role = users[p].role
  BY <1>0 DEF AccountsTyped
<1>. DEFINE s == [user |-> p, role |-> role, otp |-> otp]
            f == Request("put_session", "sign_in", s)
<1>1. s \in Cookies
  BY DEF Cookies
<1>2. f \in Frame
  BY <1>1, RequestIsFrame DEF Kinds, Points
<1>3. InOrder(f)'
  BY DEF InOrder, Request, MayBeAt, UserKinds
<1>4. StepOf(t, f) /\ served' \in 0..MaxRequests
  BY BeganServes DEF BeginSignIn, Begin, Free, StepOf
<1>. HIDE DEF f
<1>5. CASE users[p].status = "none"
  <2>1. /\ users' = [users EXCEPT ![p].status = "active"] /\ roll' = Append(roll, p)
        /\ linked' = linked \cup {p} /\ UNCHANGED <<sessions, tokens, trail>>
    BY <1>5 DEF BeginSignIn
  <2>2. RollKept'
    BY <1>0, <1>5, <2>1, RollGrows
  <2>3. Grows
    BY <1>0, <2>1 DEF Grows, AccountsTyped, researchStores
  <2>4. frames' \in [Threads -> Frame] /\ FramesInOrder'
    BY <1>2, <1>3, <1>4, <2>3, StepKeepsOrder
  <2>5. users' \in [People -> [role : Roles, status : Statuses]]
    BY <1>0, <2>1 DEF AccountsTyped, Statuses
  <2>. QED
    BY <1>4, <2>1, <2>2, <2>3, <2>4, <2>5 DEF StoresTyped, AccountsTyped, ResearchTyped, researchStores
<1>6. CASE users[p].status # "none"
  <2>1. UNCHANGED adminStores
    BY <1>6 DEF BeginSignIn, adminStores
  <2>2. Grows
    BY <2>1 DEF Grows, adminStores, researchStores
  <2>3. frames' \in [Threads -> Frame] /\ FramesInOrder'
    BY <1>2, <1>3, <1>4, <2>2, StepKeepsOrder
  <2>. QED
    BY <1>4, <2>1, <2>2, <2>3
       DEF StoresTyped, AccountsTyped, RollKept, ResearchTyped, adminStores, researchStores
<1>. QED
  BY <1>5, <1>6

LEMMA BeginAdminTyped ==
  ASSUME StoresTyped, NothingSeenEarly, NEW t \in Threads, NEW kind \in UserKinds,
         NEW s \in sessions, NEW u \in People, NEW role \in Roles,
         BeginAdmin(t, kind, s, u, role), UNCHANGED researchStores
  PROVE  StoresTyped' /\ Grows
<1>. DEFINE f == Button(kind, s, u, role)
<1>1. s \in Cookies /\ kind \in Kinds
  BY DEF StoresTyped, AccountsTyped, Cookies, Kinds, AdminKinds
<1>2. f \in Frame /\ f.at = "gate" /\ f.kind = kind /\ f.about = u
  BY <1>1, Pressed
<1>3. StepOf(t, f) /\ served' \in 0..MaxRequests /\ UNCHANGED adminStores
  BY BeganServes DEF BeginAdmin, Begin, Free, StepOf, Button
<1>. HIDE DEF f
<1>4. users[u].status # "none"
  <2>1. PICK status \in seen[u] : kind \in Buttons(status)
    BY DEF BeginAdmin
  <2>2. status # "none"
    BY <2>1 DEF Buttons
  <2>. QED
    BY <2>1, <2>2 DEF NothingSeenEarly
<1>5. InOrder(f)
  BY <1>2, <1>4 DEF InOrder, MayBeAt, UserKinds, AdminKinds
<1>. QED
  BY <1>2, <1>3, <1>5, RequestKeepsStores

LEMMA PutSessionTyped ==
  ASSUME StoresTyped, NEW t \in Threads, PutSession(t), UNCHANGED researchStores
  PROVE  StoresTyped' /\ Grows
<1>0. AccountsTyped /\ frames[t] \in Frame
  BY DEF StoresTyped, AccountsTyped
<1>1. Grows
  BY DEF PutSession, Grows, researchStores
<1>2. sessions' \subseteq [user : People, role : Roles, otp : BOOLEAN]
  BY <1>0 DEF PutSession, AccountsTyped, Frame
<1>3. StepOf(t, Idle)
  BY FinishMoves DEF PutSession
<1>4. frames' \in [Threads -> Frame] /\ FramesInOrder'
  BY <1>1, <1>3, IdleIsFrame, IdleInOrder, OrderKept, StepKeepsOrder
<1>. QED
  BY <1>1, <1>2, <1>4
     DEF StoresTyped, AccountsTyped, RollKept, ResearchTyped, PutSession, researchStores

\* Where a request of each kind goes next.
LEMMA ProceedGoes ==
  ASSUME NEW kind, NEW point,
         MayBeAt(kind, point),
         point \in {"gate", "update", "unlink", "end_sessions", "revoke"}
  PROVE  /\ After(kind, point) \in Points \ {"key_gate", "token_gate", "find_signal",
                                            "insert_evaluation", "insert_action"}
         /\ MayBeAt(kind, After(kind, point))
         /\ After(kind, point) = "audit" => kind # "create_key"
BY DEF MayBeAt, After, FirstPoint, Points, UserKinds, AdminKinds

LEMMA ProceedFits ==
  ASSUME StoresTyped, NEW t \in Threads, Proceed(t),
         frames[t].at \in {"gate", "update", "unlink", "end_sessions", "revoke"}
  PROVE  LET f == Going(t, After(frames[t].kind, frames[t].at))
         IN  f \in Frame /\ InOrder(f) /\ StepOf(t, f)
<1>1. MayBeAt(frames[t].kind, frames[t].at)
  BY DEF StoresTyped, FramesInOrder, InOrder
<1>. QED
  BY <1>1, ProceedGoes, GoingFits, GoToMoves DEF Proceed, StoresTyped

LEMMA GateTyped ==
  ASSUME StoresTyped, NEW t \in Threads, Gate(t), UNCHANGED researchStores
  PROVE  StoresTyped' /\ Grows
<1>1. UNCHANGED <<served, adminStores>> /\ frames[t].at = "gate" /\ served \in 0..MaxRequests
  BY DEF Gate, At, StoresTyped, AccountsTyped
<1>2. CASE Finish(t)
  BY <1>1, <1>2, FinishKeepsStores
<1>3. CASE Proceed(t)
  BY <1>1, <1>3, ProceedFits, RequestKeepsStores
<1>. QED
  BY <1>2, <1>3 DEF Gate

LEMMA ReadRoleTyped ==
  ASSUME StoresTyped, NEW t \in Threads, ReadRole(t), UNCHANGED researchStores
  PROVE  StoresTyped' /\ Grows
<1>. DEFINE role == users[frames[t].about].role
            g == [frames[t] EXCEPT !.from = role]
            there == [frames EXCEPT ![t] = g]
            f == [g EXCEPT !.at = "update"]
<1>0. AccountsTyped
  BY DEF StoresTyped
<1>1. frames[t] \in Frame /\ InOrder(frames[t]) /\ frames[t].at = "read_role"
  BY DEF ReadRole, At, StoresTyped, AccountsTyped, FramesInOrder
<1>2. role \in Roles
  BY <1>0, <1>1 DEF AccountsTyped, Frame
<1>3. frames' = [there EXCEPT ![t] = [there[t] EXCEPT !.at = "update"]] /\ UNCHANGED <<served, adminStores>>
  BY DEF ReadRole
<1>. HIDE DEF role
<1>4. g \in Frame /\ Others(frames[t], g, {"from"})
  BY <1>1, <1>2, Set
<1>. HIDE DEF g
<1>5. f \in Frame /\ f.at = "update" /\ Others(g, f, {"at"})
  BY <1>4, Set DEF Points
<1>6. StepOf(t, f)
  <2>1. there = [frames EXCEPT ![t] = g]
    OBVIOUS
  <2>. HIDE DEF there
  <2>. QED
    BY <1>0, <1>3, <2>1, SetsTwice
<1>. HIDE DEF f
<1>7. InOrder(f)
  BY <1>1, <1>4, <1>5 DEF Others, InOrder, MayBeAt, UserKinds
<1>. QED
  BY <1>0, <1>3, <1>5, <1>6, <1>7, RequestKeepsStores DEF AccountsTyped

\* A handler's UPDATE neither creates nor erases.
LEMMA RowStays ==
  ASSUME NEW row \in [role : Roles, status : Statuses], NEW f \in Frame, f.kind \in UserKinds
  PROVE  /\ RowAfter(row, f) \in [role : Roles, status : Statuses]
         /\ row.status # "none" =>
              (RowAfter(row, f).status \in {"none", "gone"} <=> row.status \in {"none", "gone"})
         /\ row.status # "none" => RowAfter(row, f).status # "none"
<1>1. f.to \in Roles
  BY DEF Frame
<1>2. CASE row.status = "gone" \/ f.kind = "expire"
  BY <1>2 DEF RowAfter
<1>3. CASE row.status # "gone" /\ f.kind = "suspend"
  BY <1>3 DEF RowAfter, Statuses
<1>4. CASE row.status # "gone" /\ f.kind = "unsuspend"
  BY <1>4 DEF RowAfter, Statuses
<1>5. CASE row.status # "gone" /\ f.kind = "delete"
  BY <1>5 DEF RowAfter, Statuses
<1>6. CASE row.status # "gone" /\ f.kind = "role"
  BY <1>1, <1>6 DEF RowAfter
<1>. QED
  BY <1>2, <1>3, <1>4, <1>5, <1>6 DEF UserKinds

LEMMA UpdateTyped ==
  ASSUME StoresTyped, NEW t \in Threads, Update(t), UNCHANGED researchStores
  PROVE  StoresTyped' /\ Grows
<1>. DEFINE u == frames[t].about
<1>0. AccountsTyped /\ RollKept
  BY DEF StoresTyped
<1>1. frames[t] \in Frame /\ InOrder(frames[t]) /\ frames[t].at = "update" /\ u \in People
  BY DEF Update, At, StoresTyped, AccountsTyped, FramesInOrder, Frame
<1>2. frames[t].kind \in UserKinds /\ users[u].status # "none"
  BY <1>1 DEF InOrder, MayBeAt
<1>3. users' = [users EXCEPT ![u] = RowAfter(users[u], frames[t])]
  BY <1>0 DEF Update, AccountsTyped
<1>4. users[u] \in [role : Roles, status : Statuses]
  BY <1>0, <1>1 DEF AccountsTyped
<1>5. /\ users' \in [People -> [role : Roles, status : Statuses]]
      /\ \A p \in People : users'[p] = IF p = u THEN RowAfter(users[u], frames[t]) ELSE users[p]
  BY <1>0, <1>1, <1>2, <1>3, <1>4, RowStays DEF AccountsTyped
<1>6. Grows
  BY <1>1, <1>2, <1>4, <1>5, RowStays DEF Grows, researchStores, Update
<1>7. RollKept'
  <2>1. \A p \in People : users'[p].status \in {"none", "gone"} <=> users[p].status \in {"none", "gone"}
    BY <1>1, <1>2, <1>4, <1>5, RowStays
  <2>. QED
    BY <1>0, <2>1, RollStays DEF Update
<1>8. frames' \in [Threads -> Frame] /\ FramesInOrder'
  BY <1>1, <1>6, ProceedFits, OrderKept, StepKeepsOrder DEF Update
<1>. QED
  BY <1>0, <1>5, <1>6, <1>7, <1>8
     DEF StoresTyped, AccountsTyped, ResearchTyped, researchStores, Update

LEMMA ProceedKeepsOrder ==
  ASSUME StoresTyped, NEW t \in Threads, Proceed(t), Grows,
         frames[t].at \in {"gate", "update", "unlink", "end_sessions", "revoke"}
  PROVE  frames' \in [Threads -> Frame] /\ FramesInOrder'
BY ProceedFits, OrderKept, StepKeepsOrder

LEMMA FinishKeepsOrder ==
  ASSUME StoresTyped, NEW t \in Threads, Finish(t), Grows
  PROVE  frames' \in [Threads -> Frame] /\ FramesInOrder'
BY FinishMoves, IdleIsFrame, IdleInOrder, OrderKept, StepKeepsOrder

LEMMA UnlinkTyped ==
  ASSUME StoresTyped, NEW t \in Threads, Unlink(t), UNCHANGED researchStores
  PROVE  StoresTyped' /\ Grows
<1>1. Grows
  BY DEF Unlink, Grows, researchStores
<1>2. RollKept'
  BY RollStays DEF Unlink, StoresTyped
<1>3. frames' \in [Threads -> Frame] /\ FramesInOrder'
  BY <1>1, ProceedKeepsOrder DEF Unlink, At
<1>. QED
  BY <1>1, <1>2, <1>3 DEF StoresTyped, AccountsTyped, ResearchTyped, Unlink, researchStores

LEMMA EndSessionsTyped ==
  ASSUME StoresTyped, NEW t \in Threads, EndSessions(t), UNCHANGED researchStores
  PROVE  StoresTyped' /\ Grows
<1>1. Grows
  BY DEF EndSessions, Grows, researchStores
<1>2. RollKept'
  BY RollStays DEF EndSessions, StoresTyped
<1>3. frames' \in [Threads -> Frame] /\ FramesInOrder'
  BY <1>1, ProceedKeepsOrder DEF EndSessions, At
<1>4. sessions' \subseteq sessions
  BY DEF EndSessions, SessionsOf
<1>. QED
  BY <1>1, <1>2, <1>3, <1>4 DEF StoresTyped, AccountsTyped, ResearchTyped, EndSessions, researchStores

\* The audit row of a request.
LEMMA AuditRowTyped ==
  ASSUME NEW t \in Threads, AccountsTyped
  PROVE  /\ AuditRow(frames[t]) \in TrailRow
         /\ AuditRow(frames[t]).action = frames[t].kind /\ AuditRow(frames[t]).key = frames[t].key
<1>1. frames[t] \in Frame
  BY DEF AccountsTyped
<1>2. ASSUME NEW f \in Frame
      PROVE  /\ AuditRow(f) \in TrailRow
             /\ AuditRow(f).action = f.kind /\ AuditRow(f).key = f.key
  BY DEF AuditRow, FromInRow, TrailRow, Frame
<1>. QED
  BY <1>1, <1>2

LEMMA AuditTyped ==
  ASSUME StoresTyped, NEW t \in Threads, AuditThenAnswer(t)
  PROVE  StoresTyped' /\ Grows
<1>0. AccountsTyped /\ ResearchTyped /\ frames[t] \in Frame /\ InOrder(frames[t]) /\ frames[t].at = "audit"
  BY DEF StoresTyped, AccountsTyped, FramesInOrder, AuditThenAnswer, Audit, At
<1>1. Grows
  BY DEF AuditThenAnswer, Audit, Grows
<1>2. RollKept'
  BY RollStays DEF AuditThenAnswer, Audit, StoresTyped
<1>3. frames' \in [Threads -> Frame] /\ FramesInOrder'
  BY <1>1, FinishKeepsOrder DEF AuditThenAnswer, Audit
<1>4. trail' \in Seq(TrailRow)
  <2>1. trail \in Seq(TrailRow) /\ AuditRow(frames[t]) \in TrailRow
    BY <1>0, AuditRowTyped DEF AccountsTyped
  <2>2. trail' = Append(trail, AuditRow(frames[t])) \/ trail' = trail
    BY DEF AuditThenAnswer, Audit
  <2>. QED
    BY <2>1, <2>2, Appended
<1>5. held' \subseteq DOMAIN keys
  BY <1>0 DEF AuditThenAnswer, InOrder, ResearchTyped
<1>. QED
  BY <1>1, <1>2, <1>3, <1>4, <1>5 DEF StoresTyped, AccountsTyped, ResearchTyped, AuditThenAnswer, Audit

LEMMA FailTyped ==
  ASSUME StoresTyped, NEW t \in Threads, Fail(t), UNCHANGED researchStores
  PROVE  StoresTyped' /\ Grows
BY FinishKeepsStores DEF Fail

LEMMA SeedAdminTyped ==
  ASSUME StoresTyped, NEW u \in People, SeedAdmin(u), UNCHANGED researchStores
  PROVE  StoresTyped' /\ Grows
<1>0. AccountsTyped /\ RollKept
  BY DEF StoresTyped
<1>1. /\ users' \in [People -> [role : Roles, status : Statuses]]
      /\ \A p \in People : users'[p].status = users[p].status
  BY <1>0 DEF SeedAdmin, AccountsTyped, Roles
<1>2. Grows
  BY <1>1 DEF Grows, researchStores
<1>3. RollKept'
  BY <1>0, <1>1, RollStays DEF SeedAdmin
<1>4. frames' \in [Threads -> Frame] /\ FramesInOrder'
  BY <1>2, StillFramesKeepOrder DEF SeedAdmin
<1>5. served' \in 0..MaxRequests
  BY BeganServes DEF SeedAdmin
<1>6. trail' \in Seq(TrailRow)
  <2>. DEFINE row == [action |-> "role", about |-> u, key |-> 0, from |-> "unsaid", to |-> "admin"]
  <2>1. row \in TrailRow
    BY DEF TrailRow, Kinds, AdminKinds, UserKinds, Roles
  <2>2. trail' = Append(trail, row)
    BY DEF SeedAdmin
  <2>. HIDE DEF row
  <2>. QED
    BY <1>0, <2>1, <2>2, Appended DEF AccountsTyped
<1>. QED
  BY <1>0, <1>1, <1>2, <1>3, <1>4, <1>5, <1>6 DEF StoresTyped, AccountsTyped, ResearchTyped, SeedAdmin, researchStores

LEMMA ListingTyped ==
  ASSUME StoresTyped, (ListUsers /\ UNCHANGED researchStores) \/ ListSignals
  PROVE  StoresTyped' /\ Grows
<1>1. UNCHANGED <<adminStores, frames, researchStores>> /\ served' \in 0..MaxRequests
  BY BeganServes DEF StoresTyped, AccountsTyped, ListUsers, ListSignals
<1>2. Grows
  BY <1>1 DEF Grows, adminStores, researchStores
<1>3. frames' \in [Threads -> Frame] /\ FramesInOrder'
  BY <1>1, <1>2, StillFramesKeepOrder
<1>. QED
  BY <1>1, <1>2, <1>3 DEF StoresTyped, AccountsTyped, RollKept, ResearchTyped, adminStores, researchStores

\* The roll without one of its entries.
LEMMA RollShrinks ==
  ASSUME AccountsTyped, RollKept, NEW u \in People, NEW i \in DOMAIN roll, roll[i] = u,
         users' = [users EXCEPT ![u] = [role |-> "user", status |-> "gone"]],
         roll' = RemoveAt(roll, i), linked' = linked \ {u}, tokens' = tokens \ {u}
  PROVE  RollKept'
<1>1. roll' \in Seq(People) /\ IsInjective(roll') /\ ToSet(roll') = ToSet(roll) \ {u}
  BY Removed DEF RollKept
<1>2. \A q \in People : users'[q].status = IF q = u THEN "gone" ELSE users[q].status
  BY DEF AccountsTyped
<1>3. ToSet(roll') = { q \in People : users'[q].status \notin {"none", "gone"} }
  BY <1>1, <1>2 DEF RollKept
<1>. QED
  BY <1>1, <1>3 DEF RollKept

LEMMA EraseTyped ==
  ASSUME StoresTyped, NEW u \in People, EraseWithActions(u)
  PROVE  StoresTyped' /\ Grows
<1>0. AccountsTyped /\ RollKept /\ ResearchTyped
  BY DEF StoresTyped
<1>1. /\ users' \in [People -> [role : Roles, status : Statuses]]
      /\ \A p \in People : users'[p].status = "none" => users[p].status = "none"
  BY <1>0 DEF EraseWithActions, EraseAccount, AccountsTyped, Roles, Statuses
<1>2. Grows
  BY <1>1 DEF Grows, EraseWithActions
<1>3. RollKept'
  BY <1>0, RollShrinks DEF EraseWithActions, EraseAccount
<1>4. frames' \in [Threads -> Frame] /\ FramesInOrder'
  BY <1>2, StillFramesKeepOrder DEF EraseWithActions, EraseAccount
<1>5. served' \in 0..MaxRequests
  BY BeganServes DEF EraseWithActions, EraseAccount
<1>6. sessions' \subseteq sessions /\ actions' \subseteq actions
  BY DEF EraseWithActions, EraseAccount
<1>. QED
  BY <1>0, <1>1, <1>2, <1>3, <1>4, <1>5, <1>6
     DEF StoresTyped, AccountsTyped, ResearchTyped, EraseWithActions, EraseAccount

-----------------------------------------------------------------------------
(* Part one: keys and the research API                                     *)

LEMMA KeysTyped ==
  ASSUME StoresTyped, NEW t \in Threads, NEW kind \in {"create_key", "revoke_key"},
         NEW s \in sessions, NEW k \in Nat, kind = "revoke_key" => k \in DOMAIN keys,
         BeginKey(t, kind, s, k)
  PROVE  StoresTyped' /\ Grows
<1>. DEFINE r == Request("gate", kind, s)
            f == [r EXCEPT !.key = k]
<1>1. s \in Cookies /\ kind \in Kinds
  BY DEF StoresTyped, AccountsTyped, Cookies, Kinds, AdminKinds
<1>2. r \in Frame /\ r.at = "gate" /\ r.kind = kind
  <2>1. r \in Frame
    BY <1>1, RequestIsFrame DEF Points
  <2>. QED
    BY <2>1 DEF Request
<1>3. StepOf(t, f) /\ served' \in 0..MaxRequests /\ UNCHANGED <<adminStores, researchStores>>
  BY BeganServes DEF BeginKey, Begin, Free, StepOf
<1>. HIDE DEF r
<1>4. f \in Frame /\ f.key = k /\ Others(r, f, {"key"})
  BY <1>2, Set
<1>. HIDE DEF f
<1>5. InOrder(f)
  BY <1>2, <1>4 DEF Others, InOrder, MayBeAt, UserKinds, AdminKinds
<1>. QED
  BY <1>3, <1>4, <1>5, RequestKeepsStores

LEMMA InsertKeyTyped ==
  ASSUME StoresTyped, NEW t \in Threads, InsertKey(t)
  PROVE  StoresTyped' /\ Grows
<1>0. AccountsTyped /\ ResearchTyped /\ frames[t] \in Frame /\ InOrder(frames[t]) /\ At(t, "insert_key")
  BY DEF StoresTyped, AccountsTyped, FramesInOrder, InsertKey
<1>1. /\ keys' \in Seq(Key) /\ Len(keys) \in Nat
      /\ DOMAIN keys = 1..Len(keys) /\ DOMAIN keys' = 1..(Len(keys) + 1)
  BY <1>0, Appended DEF InsertKey, Key, ResearchTyped
<1>. PICK k \in Nat : k = Len(keys) + 1
  BY <1>1
<1>2. k \in DOMAIN keys' /\ DOMAIN keys \subseteq DOMAIN keys'
  BY <1>1
<1>3. PICK f \in Frame : StepOf(t, f) /\ f.kind = "create_key" /\ f.at = "audit" /\ f.key = k
  <2>. DEFINE g == [frames[t] EXCEPT !.key = k]
              there == [frames EXCEPT ![t] = g]
              h == [g EXCEPT !.at = "audit"]
  <2>1. g \in Frame /\ g.key = k /\ Others(frames[t], g, {"key"})
    BY <1>0, Set
  <2>2. frames' = [there EXCEPT ![t] = [there[t] EXCEPT !.at = "audit"]]
    BY DEF InsertKey
  <2>. HIDE DEF g
  <2>3. h \in Frame /\ h.at = "audit" /\ Others(g, h, {"at"})
    BY <2>1, Set DEF Points
  <2>5. StepOf(t, h)
    <3>1. there = [frames EXCEPT ![t] = g]
      OBVIOUS
    <3>. HIDE DEF there
    <3>. QED
      BY <1>0, <2>2, <3>1, SetsTwice
  <2>4. frames[t].kind = "create_key"
    BY <1>0 DEF At, InOrder, MayBeAt
  <2>. HIDE DEF h
  <2>. QED
    BY <2>1, <2>3, <2>4, <2>5 DEF Others
<1>4. InOrder(f)'
  BY <1>2, <1>3 DEF InOrder, MayBeAt, UserKinds, AdminKinds
<1>5. Grows
  BY <1>2 DEF InsertKey, Grows, adminStores
<1>6. frames' \in [Threads -> Frame] /\ FramesInOrder'
  BY <1>3, <1>4, <1>5, StepKeepsOrder
<1>. QED
  BY <1>1, <1>2, <1>5, <1>6
     DEF StoresTyped, AccountsTyped, RollKept, ResearchTyped, InsertKey, adminStores

\* A key is marked in one way or another.
LEMMA KeyMarked ==
  ASSUME StoresTyped, NEW k \in DOMAIN keys,
         \/ keys' = [keys EXCEPT ![k].revoked = TRUE]
         \/ keys' = [keys EXCEPT ![k].expired = TRUE]
  PROVE  keys' \in Seq(Key) /\ DOMAIN keys' = DOMAIN keys
<1>1. keys \in Seq(Key) /\ keys[k] \in Key
  BY DEF StoresTyped, ResearchTyped
<1>2. PICK e \in Key : keys' = [keys EXCEPT ![k] = e]
  BY <1>1 DEF Key
<1>. QED
  BY <1>1, <1>2, Replaced

LEMMA RevokeTyped ==
  ASSUME StoresTyped, NEW t \in Threads, Revoke(t)
  PROVE  StoresTyped' /\ Grows
<1>0. AccountsTyped /\ ResearchTyped /\ frames[t].key \in DOMAIN keys /\ At(t, "revoke")
  BY DEF StoresTyped, FramesInOrder, Revoke, At, InOrder, MayBeAt
<1>1. CASE Finish(t) /\ UNCHANGED keys
  BY <1>1, FinishKeepsStores DEF Revoke, researchStores
<1>2. CASE keys' = [keys EXCEPT ![frames[t].key].revoked = TRUE] /\ Proceed(t)
  <2>1. keys' \in Seq(Key) /\ DOMAIN keys' = DOMAIN keys
    BY <1>0, <1>2, KeyMarked
  <2>2. Grows
    BY <2>1 DEF Grows, Revoke, adminStores
  <2>3. frames' \in [Threads -> Frame] /\ FramesInOrder'
    BY <1>0, <1>2, <2>2, ProceedKeepsOrder DEF At
  <2>. QED
    BY <2>1, <2>2, <2>3 DEF StoresTyped, AccountsTyped, RollKept, ResearchTyped, Revoke, adminStores
<1>. QED
  BY <1>1, <1>2 DEF Revoke

LEMMA ExpireKeyTyped ==
  ASSUME StoresTyped, NEW k \in DOMAIN keys, ExpireKey(k)
  PROVE  StoresTyped' /\ Grows
<1>1. keys' \in Seq(Key) /\ DOMAIN keys' = DOMAIN keys
  BY KeyMarked DEF ExpireKey
<1>2. Grows
  BY <1>1 DEF Grows, ExpireKey, adminStores
<1>3. frames' \in [Threads -> Frame] /\ FramesInOrder'
  BY <1>2, StillFramesKeepOrder DEF ExpireKey
<1>4. served' \in 0..MaxRequests
  BY BeganServes DEF ExpireKey
<1>. QED
  BY <1>1, <1>2, <1>3, <1>4
     DEF StoresTyped, AccountsTyped, RollKept, ResearchTyped, ExpireKey, adminStores

\* The frame of a call to the research API.
Call(at, kind, p, k, i) == [Request(at, kind, Visitor(p)) EXCEPT !.key = k, !.signal = i]

LEMMA CallIsFrame ==
  ASSUME NEW at \in Points, NEW kind \in Kinds, NEW p \in People, NEW k \in Nat, NEW i \in Nat
  PROVE  LET f == Call(at, kind, p, k, i)
         IN  f \in Frame /\ f.at = at /\ f.kind = kind /\ f.key = k /\ f.signal = i
<1>. DEFINE r == Request(at, kind, Visitor(p))
            q == [r EXCEPT !.key = k]
            f == [q EXCEPT !.signal = i]
<1>1. r \in Frame /\ r.at = at /\ r.kind = kind
  <2>1. r \in Frame
    BY RequestIsFrame, VisitorIsCookie
  <2>. QED
    BY <2>1 DEF Request
<1>. HIDE DEF r
<1>2. q \in Frame /\ q.key = k /\ Others(r, q, {"key"})
  BY <1>1, Set
<1>. HIDE DEF q
<1>3. f \in Frame /\ f.signal = i /\ Others(q, f, {"signal"})
  BY <1>2, Set
<1>. HIDE DEF f
<1>4. f \in Frame /\ f.at = at /\ f.kind = kind /\ f.key = k /\ f.signal = i
  BY <1>1, <1>2, <1>3 DEF Others
<1>5. f = Call(at, kind, p, k, i)
  BY DEF f, q, r, Call
<1>. QED
  BY <1>4, <1>5

LEMMA BeginPushTyped ==
  ASSUME StoresTyped, NEW t \in Threads, NEW kind \in {"push", "evaluate", "act"}, NEW at,
         NEW p \in People, NEW k \in Nat, NEW i \in Nat,
         \/ at = "key_gate" /\ kind # "act" /\ k \in DOMAIN keys
         \/ at = "token_gate" /\ kind # "act" /\ k = 0
         \/ at = "session_gate" /\ kind = "act" /\ i # 0,
         BeginPush(t, kind, at, p, k, i)
  PROVE  StoresTyped' /\ Grows
<1>. DEFINE f == Call(at, kind, p, k, i)
<1>1. at \in Points /\ kind \in Kinds
  BY DEF Points, Kinds
<1>2. f \in Frame /\ f.at = at /\ f.kind = kind /\ f.key = k /\ f.signal = i
  BY <1>1, CallIsFrame
<1>3. StepOf(t, f) /\ served' \in 0..MaxRequests /\ UNCHANGED <<adminStores, researchStores>>
  BY BeganServes DEF BeginPush, Begin, Free, StepOf, Call
<1>. HIDE DEF f
<1>4. InOrder(f)
  BY <1>2 DEF InOrder, MayBeAt, UserKinds
<1>. QED
  BY <1>2, <1>3, <1>4, RequestKeepsStores

LEMMA GoesOn ==
  ASSUME StoresTyped, NEW t \in Threads, NEW point \in Points, GoTo(t, point),
         InOrder(Going(t, point)), UNCHANGED served, UNCHANGED <<adminStores, researchStores>>
  PROVE  StoresTyped' /\ Grows
<1>1. AccountsTyped
  BY DEF StoresTyped
<1>2. Going(t, point) \in Frame /\ StepOf(t, Going(t, point))
  BY <1>1, GoToMoves
<1>. QED
  BY <1>1, <1>2, RequestKeepsStores DEF AccountsTyped

LEMMA AdmitTyped ==
  ASSUME StoresTyped, NEW t \in Threads, NEW good \in BOOLEAN, Admit(t, good),
         frames[t].at \in {"key_gate", "token_gate", "session_gate"}
  PROVE  StoresTyped' /\ Grows
<1>1. UNCHANGED served /\ UNCHANGED <<adminStores, researchStores>>
  BY DEF Admit
<1>2. CASE good
  <2>. DEFINE point == AcceptedAt(frames[t])
  <2>1. frames[t] \in Frame /\ InOrder(frames[t])
    BY DEF StoresTyped, AccountsTyped, FramesInOrder
  <2>2. /\ point \in Points /\ MayBeAt(frames[t].kind, point)
        /\ point \in {"insert_signal", "find_signal", "insert_evaluation"}
        /\ point = "find_signal" => frames[t].signal # 0
        /\ point = "insert_evaluation" => frames[t].signal \in {0} \cup DOMAIN signals
    BY <2>1 DEF InOrder, MayBeAt, AcceptedAt, Points
  <2>3. GoTo(t, point)
    BY <1>2 DEF Admit
  <2>. HIDE DEF point
  <2>4. InOrder(Going(t, point))
    BY <2>2, GoingFits
  <2>. QED
    BY <1>1, <2>2, <2>3, <2>4, GoesOn
<1>3. CASE ~good
  BY <1>1, <1>3, FinishKeepsStores DEF Admit
<1>. QED
  BY <1>2, <1>3

LEMMA GatesTyped ==
  ASSUME StoresTyped, NEW t \in Threads, KeyGate(t) \/ TokenGate(t) \/ SessionGate(t)
  PROVE  StoresTyped' /\ Grows
<1>1. CASE KeyGate(t)
  <2>1. /\ Admit(t, KeyAccepted(frames[t].key)) /\ KeyAccepted(frames[t].key) \in BOOLEAN
        /\ frames[t].at = "key_gate"
    BY <1>1 DEF KeyGate, At, KeyAccepted, InForce
  <2>. QED
    BY <2>1, AdmitTyped
<1>2. CASE TokenGate(t)
  <2>. DEFINE good == frames[t].by \in linked /\ users[frames[t].by].status = "active"
  <2>1. Admit(t, good) /\ good \in BOOLEAN /\ frames[t].at = "token_gate"
    BY <1>2 DEF TokenGate, At
  <2>. HIDE DEF good
  <2>. QED
    BY <2>1, AdmitTyped
<1>3. CASE SessionGate(t)
  <2>. DEFINE good == users[frames[t].by].status = "active"
  <2>1. Admit(t, good) /\ good \in BOOLEAN /\ frames[t].at = "session_gate"
    BY <1>3 DEF SessionGate, At
  <2>. HIDE DEF good
  <2>. QED
    BY <2>1, AdmitTyped
<1>. QED
  BY <1>1, <1>2, <1>3

LEMMA FindSignalTyped ==
  ASSUME StoresTyped, NEW t \in Threads, FindSignal(t)
  PROVE  StoresTyped' /\ Grows
<1>1. UNCHANGED served /\ UNCHANGED <<adminStores, researchStores>>
  BY DEF FindSignal
<1>2. CASE SignalKnown(frames[t].signal)
  <2>. DEFINE point == IF frames[t].kind = "act" THEN "insert_action" ELSE "insert_evaluation"
  <2>1. frames[t].kind \in {"evaluate", "act"} /\ frames[t].signal \in DOMAIN signals
    BY <1>2 DEF FindSignal, At, StoresTyped, FramesInOrder, InOrder, MayBeAt, SignalKnown
  <2>2. /\ point \in Points /\ MayBeAt(frames[t].kind, point)
        /\ point \in {"insert_action", "insert_evaluation"}
    BY <2>1 DEF MayBeAt, Points
  <2>3. GoTo(t, point)
    BY <1>2 DEF FindSignal
  <2>. HIDE DEF point
  <2>4. InOrder(Going(t, point))
    BY <2>1, <2>2, GoingFits
  <2>. QED
    BY <1>1, <2>2, <2>3, <2>4, GoesOn
<1>3. CASE ~SignalKnown(frames[t].signal)
  BY <1>1, <1>3, FinishKeepsStores DEF FindSignal
<1>. QED
  BY <1>2, <1>3

LEMMA InsertSignalTyped ==
  ASSUME StoresTyped, NEW t \in Threads, InsertSignal(t)
  PROVE  StoresTyped' /\ Grows
<1>1. PICK id \in (1..MaxSignals) \ ToSet(signals) : signals' = Append(signals, id)
  BY DEF InsertSignal
<1>2. ResearchTyped
  BY DEF StoresTyped
<1>3. /\ signals' \in Seq(1..MaxSignals) /\ Len(signals) \in Nat
      /\ DOMAIN signals = 1..Len(signals) /\ DOMAIN signals' = 1..(Len(signals) + 1)
  BY <1>1, <1>2, Appended DEF ResearchTyped
<1>4. DOMAIN signals \subseteq DOMAIN signals' /\ IsInjective(signals')
  <2>1. signals \in Seq(1..MaxSignals) /\ IsInjective(signals)
    BY <1>2 DEF ResearchTyped
  <2>2. IsInjective(signals')
    BY <1>1, <2>1, AppendedFresh
  <2>. QED
    BY <1>3, <2>2
<1>5. Grows
  BY <1>4 DEF Grows, InsertSignal, adminStores
<1>6. frames' \in [Threads -> Frame] /\ FramesInOrder'
  BY <1>5, FinishKeepsOrder DEF InsertSignal
<1>7. actions' \subseteq [user : People, signal : DOMAIN signals'] /\ evaluations' \subseteq {0} \cup DOMAIN signals'
  BY <1>2, <1>4 DEF ResearchTyped, InsertSignal
<1>. QED
  BY <1>3, <1>4, <1>5, <1>6, <1>7
     DEF StoresTyped, AccountsTyped, RollKept, ResearchTyped, InsertSignal, adminStores

LEMMA InsertEvaluationTyped ==
  ASSUME StoresTyped, NEW t \in Threads, InsertEvaluation(t)
  PROVE  StoresTyped' /\ Grows
<1>1. frames[t].signal \in {0} \cup DOMAIN signals
  BY DEF InsertEvaluation, At, StoresTyped, FramesInOrder, InOrder
<1>2. Grows
  BY DEF Grows, InsertEvaluation, adminStores
<1>3. frames' \in [Threads -> Frame] /\ FramesInOrder'
  BY <1>2, FinishKeepsOrder DEF InsertEvaluation
<1>. QED
  BY <1>1, <1>2, <1>3
     DEF StoresTyped, AccountsTyped, RollKept, ResearchTyped, InsertEvaluation, adminStores

LEMMA InsertActionTyped ==
  ASSUME StoresTyped, NEW t \in Threads, InsertAction(t)
  PROVE  StoresTyped' /\ Grows
<1>1. frames[t] \in Frame /\ frames[t].signal \in DOMAIN signals
  BY DEF InsertAction, At, StoresTyped, AccountsTyped, FramesInOrder, InOrder
<1>2. Grows
  BY DEF Grows, InsertAction, adminStores
<1>3. frames' \in [Threads -> Frame] /\ FramesInOrder'
  BY <1>2, FinishKeepsOrder DEF InsertAction
<1>4. actions' \subseteq [user : People, signal : DOMAIN signals]
  BY <1>1 DEF InsertAction, StoresTyped, ResearchTyped, Frame
<1>. QED
  BY <1>2, <1>3, <1>4
     DEF StoresTyped, AccountsTyped, RollKept, ResearchTyped, InsertAction, adminStores

LEMMA HeldKeys == ASSUME ResearchTyped, NEW k \in DOMAIN keys PROVE k \in Nat
BY DEF ResearchTyped

LEMMA ResearchArrivalTyped ==
  ASSUME StoresTyped, NEW t \in Threads, ResearchArrival(t)
  PROVE  StoresTyped' /\ Grows
<1>1. Idle.by \in People /\ \A i \in 0..MaxSignals : i \in Nat
  BY IdleIsFrame, ResearchAssumption DEF Frame
<1>2. held \subseteq DOMAIN keys /\ DOMAIN keys \subseteq Nat /\ \A s \in sessions : s.user \in People
  BY HeldKeys DEF StoresTyped, ResearchTyped, AccountsTyped
<1>3. ASSUME NEW kind \in {"push", "evaluate"}, NEW i \in 0..MaxSignals,
             NEW k \in held, BeginPush(t, kind, "key_gate", Idle.by, k, i)
      PROVE  StoresTyped' /\ Grows
  BY <1>1, <1>2, <1>3, BeginPushTyped
<1>4. ASSUME NEW kind \in {"push", "evaluate"}, NEW i \in 0..MaxSignals,
             NEW p \in People, BeginPush(t, kind, "token_gate", p, 0, i)
      PROVE  StoresTyped' /\ Grows
  BY <1>1, <1>4, BeginPushTyped
<1>5. ASSUME NEW s \in sessions, NEW i \in 1..MaxSignals,
             BeginPush(t, "act", "session_gate", s.user, 0, i)
      PROVE  StoresTyped' /\ Grows
  <2>1. i \in Nat /\ i # 0 /\ s.user \in People
    BY <1>1, <1>2, ResearchAssumption
  <2>. QED
    BY <1>5, <2>1, BeginPushTyped
<1>. QED
  BY <1>3, <1>4, <1>5 DEF ResearchArrival

LEMMA KeysArrivalTyped ==
  ASSUME StoresTyped, NEW t \in Threads, KeysArrival(t)
  PROVE  StoresTyped' /\ Grows
<1>1. CASE \E s \in sessions : BeginKey(t, "create_key", s, 0)
  BY <1>1, KeysTyped
<1>2. CASE \E s \in sessions, k \in DOMAIN keys : BeginKey(t, "revoke_key", s, k)
  BY <1>2, KeysTyped, HeldKeys DEF StoresTyped
<1>. QED
  BY <1>1, <1>2 DEF KeysArrival

LEMMA AdminStepTyped ==
  ASSUME StoresTyped, NothingSeenEarly, AdminStep, UNCHANGED researchStores
  PROVE  StoresTyped' /\ Grows
<1>1. ASSUME NEW t \in Threads, AdminArrival(t) PROVE StoresTyped' /\ Grows
  BY <1>1, BeginSignInTyped, BeginAdminTyped DEF AdminArrival, UserKinds
<1>. QED
  BY <1>1, PutSessionTyped, GateTyped, ReadRoleTyped, UpdateTyped, UnlinkTyped,
     EndSessionsTyped, FailTyped, SeedAdminTyped, ListingTyped DEF AdminStep

LEMMA ResearchStepTyped ==
  ASSUME StoresTyped, ResearchStep
  PROVE  StoresTyped' /\ Grows
BY KeysArrivalTyped, InsertKeyTyped, RevokeTyped, AuditTyped, GatesTyped, FindSignalTyped,
   InsertSignalTyped, InsertEvaluationTyped, InsertActionTyped, ExpireKeyTyped, EraseTyped
   DEF ResearchStep

LEMMA StepTyped ==
  ASSUME StoresTyped, NothingSeenEarly, WorkerNext
  PROVE  StoresTyped' /\ Grows
BY AdminStepTyped, ResearchStepTyped, ListingTyped, ResearchArrivalTyped DEF WorkerNext, CallStep

\* Observing shows nobody who does not exist.
LEMMA WorkerTypedKept ==
  ASSUME WorkerTyped, WorkerNext
  PROVE  WorkerTyped' /\ Grows
<1>1. StoresTyped' /\ Grows
  BY StepTyped DEF WorkerTyped
<1>2. seen' = [u \in People |-> seen[u] \cup MayShow(u)']
  BY DEF WorkerNext, Observe
<1>3. \A u \in People : MayShow(u)' \subseteq {users'[u].status} /\ users'[u].status \in Statuses
  BY <1>1 DEF MayShow, StoresTyped, AccountsTyped
<1>4. NothingSeenEarly'
  <2>1. seen \in [People -> SUBSET Statuses]
    BY DEF WorkerTyped, NothingSeenEarly
  <2>2. seen' \in [People -> SUBSET Statuses]
    <3>1. \A u \in People : seen[u] \cup MayShow(u)' \in SUBSET Statuses
      BY <1>3, <2>1
    <3>. QED
      BY <1>2, <3>1
  <2>3. ASSUME NEW u \in People, users'[u].status = "none" PROVE seen'[u] \subseteq {"none"}
    <3>1. seen[u] \subseteq {"none"}
      BY <1>1, <2>3 DEF WorkerTyped, NothingSeenEarly, Grows
    <3>. QED
      BY <1>2, <1>3, <2>3, <3>1
  <2>. QED
    BY <2>2, <2>3 DEF NothingSeenEarly
<1>5. (fit \subseteq Threads)'
  BY DEF WorkerNext
<1>. QED
  BY <1>1, <1>4, <1>5 DEF WorkerTyped

-----------------------------------------------------------------------------
(* What a step may do to a request                                         *)

Gates == {"gate", "key_gate", "token_gate", "session_gate"}

\* The request stays the one it was.
Kept(f, g) ==
  g.kind = f.kind /\ g.by = f.by /\ g.otp = f.otp /\ g.about = f.about /\ g.key = f.key

\* It begins; a sign-in finds its account or creates it.
Arrives(t) ==
  /\ frames[t].at = "idle" /\ frames'[t].at \in Gates \cup {"put_session"}
  /\ frames'[t].kind = "sign_in" =>
       frames'[t].about \in linked \/ users[frames'[t].about].status = "none"

\* Its gate lets it through.
Passes(t) ==
  /\ frames[t].at \in Gates /\ Kept(frames[t], frames'[t])
  /\ Fit(frames[t]) /\ UNCHANGED <<users, linked, keys>>
  /\ frames[t].at = "gate" =>
       ~AimedAtOneself(frames[t]) /\ frames'[t].at = FirstPoint(frames[t].kind)

\* It goes from one await behind its gate to the next.
Continues(t) ==
  /\ frames[t].at \notin Gates \cup {"idle", "put_session"}
  /\ frames[t].kind # "create_key" => Kept(frames[t], frames'[t])
  /\ frames'[t].kind = frames[t].kind
  /\ frames'[t].at \in {"read_role", "update"} => frames[t].at = "read_role"
  /\ frames[t].kind = "delete" /\ frames'[t].at = "end_sessions" => Unlink(t)
  /\ frames[t].kind = "delete" /\ frames'[t].at = "audit" => EndSessions(t)
  /\ frames[t].kind = "role" => ReadRole(t) \/ Update(t)

Moves(t) ==
  frames'[t] = frames[t] \/ frames'[t] = Idle \/ Arrives(t) \/ Passes(t) \/ Continues(t)

LEMMA OnlyOneMoves ==
  ASSUME AccountsTyped, NEW t \in Threads, NEW f, StepOf(t, f), Moves(t)
  PROVE  \A s \in Threads : Moves(s)
BY StepOfFrames DEF Moves

LEMMA FinishMovesOne ==
  ASSUME AccountsTyped, NEW t \in Threads, Finish(t)
  PROVE  \A s \in Threads : Moves(s)
<1>1. StepOf(t, Idle)
  BY FinishMoves
<1>2. frames'[t] = Idle
  BY <1>1, StepOfFrames
<1>. QED
  BY <1>1, <1>2, OnlyOneMoves DEF Moves

\* A request that goes to another point stays the one it was.
LEMMA GoingKeeps ==
  ASSUME AccountsTyped, NEW t \in Threads, NEW point \in Points, GoTo(t, point)
  PROVE  /\ StepOf(t, Going(t, point)) /\ frames'[t] = Going(t, point)
         /\ frames'[t].at = point /\ Kept(frames[t], frames'[t])
<1>1. /\ Going(t, point).at = point /\ StepOf(t, Going(t, point))
      /\ Others(frames[t], Going(t, point), {"at"})
  BY GoToMoves
<1>2. frames'[t] = Going(t, point)
  BY <1>1, StepOfFrames
<1>. QED
  BY <1>1, <1>2 DEF Others, Kept

LEMMA ProceedKeeps ==
  ASSUME StoresTyped, NEW t \in Threads, Proceed(t),
         frames[t].at \in {"gate", "update", "unlink", "end_sessions", "revoke"}
  PROVE  /\ \E f : StepOf(t, f)
         /\ frames'[t].at = After(frames[t].kind, frames[t].at) /\ Kept(frames[t], frames'[t])
<1>1. After(frames[t].kind, frames[t].at) \in Points
  BY ProceedGoes DEF StoresTyped, FramesInOrder, InOrder
<1>2. AccountsTyped /\ GoTo(t, After(frames[t].kind, frames[t].at))
  BY DEF StoresTyped, Proceed
<1>. QED
  BY <1>1, <1>2, GoingKeeps

LEMMA ArrivalMoves ==
  ASSUME StoresTyped, NEW t \in Threads, AdminArrival(t) \/ KeysArrival(t) \/ ResearchArrival(t)
  PROVE  \A s \in Threads : Moves(s)
<1>0. AccountsTyped
  BY DEF StoresTyped
<1>1. ASSUME NEW f, Begin(t, f), f.at \in Gates, f.kind # "sign_in"
      PROVE  \A s \in Threads : Moves(s)
  <2>1. StepOf(t, f) /\ frames[t].at = "idle"
    BY <1>1 DEF Begin, Free, At, StepOf
  <2>2. frames'[t] = f
    BY <1>0, <2>1, StepOfFrames
  <2>3. Arrives(t)
    BY <1>1, <2>1, <2>2 DEF Arrives
  <2>. QED
    BY <1>0, <2>1, <2>3, OnlyOneMoves DEF Moves
<1>2. ASSUME NEW p \in People, NEW otp \in BOOLEAN, BeginSignIn(t, p, otp)
      PROVE  \A s \in Threads : Moves(s)
  <2>. DEFINE f == Request("put_session", "sign_in", [user |-> p, role |-> users[p].role, otp |-> otp])
  <2>1. StepOf(t, f) /\ frames[t].at = "idle"
    BY <1>2 DEF BeginSignIn, Begin, Free, At, StepOf
  <2>2. f.at = "put_session" /\ f.kind = "sign_in" /\ f.about = p
    BY DEF Request
  <2>. HIDE DEF f
  <2>3. frames'[t] = f
    BY <1>0, <2>1, StepOfFrames
  <2>4. p \in linked \/ users[p].status = "none"
    BY <1>2 DEF BeginSignIn
  <2>5. Arrives(t)
    BY <2>1, <2>2, <2>3, <2>4 DEF Arrives
  <2>. QED
    BY <1>0, <2>1, <2>5, OnlyOneMoves DEF Moves
<1>3. ASSUME NEW s \in sessions, NEW u \in People, NEW kind \in UserKinds, NEW role \in Roles,
             BeginAdmin(t, kind, s, u, role)
      PROVE  \A r \in Threads : Moves(r)
  <2>1. s \in Cookies /\ kind \in Kinds /\ kind # "sign_in"
    BY <1>0 DEF AccountsTyped, Cookies, Kinds, AdminKinds, UserKinds
  <2>2. Begin(t, Button(kind, s, u, role))
    BY <1>3 DEF BeginAdmin, Button
  <2>3. Button(kind, s, u, role).at \in Gates /\ Button(kind, s, u, role).kind # "sign_in"
    BY <2>1, Pressed DEF Gates
  <2>. QED
    BY <1>1, <2>2, <2>3
<1>4. ASSUME NEW s \in sessions, NEW k, NEW kind \in {"create_key", "revoke_key"},
             BeginKey(t, kind, s, k)
      PROVE  \A r \in Threads : Moves(r)
  <2>. DEFINE f == [Request("gate", kind, s) EXCEPT !.key = k]
  <2>1. f.at \in Gates /\ f.kind # "sign_in"
    BY DEF Request, Gates
  <2>2. Begin(t, f)
    BY <1>4 DEF BeginKey
  <2>. HIDE DEF f
  <2>. QED
    BY <1>1, <2>1, <2>2
<1>5. ASSUME NEW kind \in {"push", "evaluate", "act"}, NEW at \in Gates, NEW p \in People,
             NEW k \in Nat, NEW i \in Nat, BeginPush(t, kind, at, p, k, i)
      PROVE  \A r \in Threads : Moves(r)
  <2>1. Call(at, kind, p, k, i).at = at /\ Call(at, kind, p, k, i).kind # "sign_in"
    <3>1. at \in Points /\ kind \in Kinds
      BY DEF Gates, Points, Kinds
    <3>. QED
      BY <3>1, CallIsFrame
  <2>2. Begin(t, Call(at, kind, p, k, i))
    BY <1>5 DEF BeginPush, Call
  <2>. QED
    BY <1>1, <2>1, <2>2
<1>6. CASE ResearchArrival(t)
  <2>1. Idle.by \in People /\ (\A i \in 0..MaxSignals : i \in Nat) /\ \A i \in 1..MaxSignals : i \in Nat
    BY IdleIsFrame, ResearchAssumption DEF Frame
  <2>2. held \subseteq Nat /\ \A s \in sessions : s.user \in People
    BY HeldKeys DEF StoresTyped, ResearchTyped, AccountsTyped
  <2>. QED
    BY <1>5, <1>6, <2>1, <2>2 DEF ResearchArrival, Gates
<1>. QED
  BY <1>2, <1>3, <1>4, <1>6 DEF AdminArrival, KeysArrival, UserKinds

LEMMA GateMoves ==
  ASSUME StoresTyped, NEW t \in Threads, Gate(t), UNCHANGED researchStores
  PROVE  \A s \in Threads : Moves(s)
<1>0. AccountsTyped /\ frames[t] \in Frame /\ InOrder(frames[t]) /\ frames[t].at = "gate"
  BY DEF StoresTyped, AccountsTyped, FramesInOrder, Gate, At
<1>1. CASE Finish(t)
  BY <1>0, <1>1, FinishMovesOne
<1>2. CASE PassesAdminGate(frames[t]) /\ ~AimedAtOneself(frames[t]) /\ Proceed(t)
  <2>1. frames[t].kind \in AdminKinds
    BY <1>0 DEF InOrder, MayBeAt
  <2>2. /\ (\E f : StepOf(t, f)) /\ Kept(frames[t], frames'[t])
        /\ frames'[t].at = FirstPoint(frames[t].kind)
    BY <1>0, <1>2, ProceedKeeps DEF After
  <2>3. Fit(frames[t])
    BY <1>2, <2>1 DEF Fit, PassesAdminGate, RoleGoingBy, AdminKinds, UserKinds
  <2>4. UNCHANGED <<users, linked, keys>>
    BY DEF Gate, adminStores, researchStores
  <2>. QED
    BY <1>0, <1>2, <2>2, <2>3, <2>4, OnlyOneMoves DEF Moves, Passes, Gates
<1>. QED
  BY <1>1, <1>2 DEF Gate

LEMMA ResearchGateMoves ==
  ASSUME StoresTyped, NEW t \in Threads, KeyGate(t) \/ TokenGate(t) \/ SessionGate(t)
  PROVE  \A s \in Threads : Moves(s)
<1>0. AccountsTyped /\ frames[t] \in Frame /\ InOrder(frames[t])
      /\ frames[t].at \in {"key_gate", "token_gate", "session_gate"}
  BY DEF StoresTyped, AccountsTyped, FramesInOrder, KeyGate, TokenGate, SessionGate, At
<1>1. CASE Finish(t)
  BY <1>0, <1>1, FinishMovesOne
<1>2. CASE Fit(frames[t]) /\ GoTo(t, AcceptedAt(frames[t])) /\ UNCHANGED <<users, linked, keys>>
  <2>1. AcceptedAt(frames[t]) \in Points
    BY DEF AcceptedAt, Points
  <2>2. StepOf(t, Going(t, AcceptedAt(frames[t]))) /\ Kept(frames[t], frames'[t])
    BY <1>0, <1>2, <2>1, GoingKeeps
  <2>. QED
    BY <1>0, <1>2, <2>2, OnlyOneMoves DEF Moves, Passes, Gates
<1>3. CASE KeyGate(t)
  <2>1. frames[t].key \in DOMAIN keys /\ frames[t].kind \in {"push", "evaluate"} /\ ResearchTyped
    BY <1>0, <1>3 DEF KeyGate, At, InOrder, MayBeAt, StoresTyped
  <2>2. frames[t].key # 0
    BY <2>1 DEF ResearchTyped
  <2>3. KeyAccepted(frames[t].key) => Fit(frames[t])
    BY <2>1, <2>2 DEF KeyAccepted, Fit
  <2>. QED
    BY <1>1, <1>2, <1>3, <2>3 DEF KeyGate, Admit, adminStores, researchStores
<1>4. CASE TokenGate(t)
  <2>1. frames[t].key = 0 /\ frames[t].kind \in {"push", "evaluate"}
    BY <1>0, <1>4 DEF TokenGate, At, InOrder, MayBeAt
  <2>2. frames[t].by \in linked /\ users[frames[t].by].status = "active" => Fit(frames[t])
    BY <2>1 DEF Fit
  <2>. QED
    BY <1>1, <1>2, <1>4, <2>2 DEF TokenGate, Admit, adminStores, researchStores
<1>5. CASE SessionGate(t)
  <2>1. frames[t].kind = "act"
    BY <1>0, <1>5 DEF SessionGate, At, InOrder, MayBeAt
  <2>2. users[frames[t].by].status = "active" => Fit(frames[t])
    BY <2>1 DEF Fit
  <2>. QED
    BY <1>1, <1>2, <1>5, <2>2 DEF SessionGate, Admit, adminStores, researchStores
<1>. QED
  BY <1>3, <1>4, <1>5

LEMMA ReadRoleMoves ==
  ASSUME StoresTyped, NEW t \in Threads, ReadRole(t)
  PROVE  \A s \in Threads : Moves(s)
<1>. DEFINE g == [frames[t] EXCEPT !.from = users[frames[t].about].role]
            there == [frames EXCEPT ![t] = g]
            f == [g EXCEPT !.at = "update"]
<1>0. AccountsTyped
  BY DEF StoresTyped
<1>1. frames[t] \in Frame /\ frames[t].at = "read_role" /\ frames[t].kind = "role"
  BY DEF ReadRole, At, StoresTyped, AccountsTyped, FramesInOrder, InOrder, MayBeAt
<1>2. users[frames[t].about].role \in Roles
  BY <1>0, <1>1 DEF AccountsTyped, Frame
<1>3. frames' = [there EXCEPT ![t] = [there[t] EXCEPT !.at = "update"]]
  BY DEF ReadRole
<1>4. g \in Frame /\ Others(frames[t], g, {"from"})
  BY <1>1, <1>2, Set
<1>. HIDE DEF g
<1>5. f.at = "update" /\ Others(g, f, {"at"})
  BY <1>4, Set DEF Points
<1>6. there = [frames EXCEPT ![t] = g]
  OBVIOUS
<1>. HIDE DEF there
<1>7. StepOf(t, f)
  BY <1>0, <1>3, <1>6, SetsTwice
<1>. HIDE DEF f
<1>8. frames'[t] = f
  BY <1>0, <1>7, StepOfFrames
<1>9. Continues(t)
  BY <1>1, <1>4, <1>5, <1>8 DEF Others, Continues, Kept, Gates
<1>. QED
  BY <1>0, <1>7, <1>9, OnlyOneMoves DEF Moves

LEMMA InsertKeyMoves ==
  ASSUME StoresTyped, NEW t \in Threads, InsertKey(t)
  PROVE  \A s \in Threads : Moves(s)
<1>. DEFINE g == [frames[t] EXCEPT !.key = Len(keys) + 1]
            there == [frames EXCEPT ![t] = g]
            f == [g EXCEPT !.at = "audit"]
<1>0. AccountsTyped
  BY DEF StoresTyped
<1>1. frames[t] \in Frame /\ frames[t].at = "insert_key" /\ frames[t].kind = "create_key"
  BY DEF InsertKey, At, StoresTyped, AccountsTyped, FramesInOrder, InOrder, MayBeAt
<1>2. Len(keys) + 1 \in Nat
  BY DEF StoresTyped, ResearchTyped
<1>3. frames' = [there EXCEPT ![t] = [there[t] EXCEPT !.at = "audit"]]
  BY DEF InsertKey
<1>4. g \in Frame /\ Others(frames[t], g, {"key"})
  BY <1>1, <1>2, Set
<1>. HIDE DEF g
<1>5. f.at = "audit" /\ Others(g, f, {"at"})
  BY <1>4, Set DEF Points
<1>6. there = [frames EXCEPT ![t] = g]
  OBVIOUS
<1>. HIDE DEF there
<1>7. StepOf(t, f)
  BY <1>0, <1>3, <1>6, SetsTwice
<1>. HIDE DEF f
<1>8. frames'[t] = f
  BY <1>0, <1>7, StepOfFrames
<1>9. Continues(t)
  BY <1>1, <1>4, <1>5, <1>8 DEF Others, Continues, Gates
<1>. QED
  BY <1>0, <1>7, <1>9, OnlyOneMoves DEF Moves

LEMMA ProceedMoves ==
  ASSUME StoresTyped, NEW t \in Threads,
         Update(t) \/ Unlink(t) \/ EndSessions(t) \/ Revoke(t)
  PROVE  \A s \in Threads : Moves(s)
<1>0. AccountsTyped /\ InOrder(frames[t]) /\ frames[t].at \in {"update", "unlink", "end_sessions", "revoke"}
  BY DEF StoresTyped, FramesInOrder, Update, Unlink, EndSessions, Revoke, At
<1>1. CASE Finish(t)
  BY <1>0, <1>1, FinishMovesOne
<1>2. CASE Proceed(t)
  <2>1. /\ (\E f : StepOf(t, f)) /\ Kept(frames[t], frames'[t])
        /\ frames'[t].at = After(frames[t].kind, frames[t].at)
    BY <1>0, <1>2, ProceedKeeps
  <2>2. /\ frames'[t].at \notin {"read_role", "update"}
        /\ frames[t].kind = "delete" /\ frames'[t].at = "end_sessions" => frames[t].at = "unlink"
        /\ frames[t].kind = "delete" /\ frames'[t].at = "audit" => frames[t].at \in {"end_sessions", "revoke"}
    BY <1>0, <2>1 DEF After
  <2>3. /\ frames[t].kind = "delete" => frames[t].at # "revoke"
        /\ frames[t].kind = "role" => frames[t].at = "update"
    BY <1>0 DEF InOrder, MayBeAt
  <2>4. /\ frames[t].at = "unlink" => Unlink(t)
        /\ frames[t].at = "end_sessions" => EndSessions(t)
        /\ frames[t].at = "update" => Update(t)
    BY DEF Update, Unlink, EndSessions, Revoke, At
  <2>5. Continues(t)
    BY <1>0, <2>1, <2>2, <2>3, <2>4 DEF Continues, Kept, Gates
  <2>. QED
    BY <1>0, <2>1, <2>5, OnlyOneMoves DEF Moves
<1>. QED
  BY <1>1, <1>2 DEF Update, Unlink, EndSessions, Revoke

LEMMA FindSignalMoves ==
  ASSUME StoresTyped, NEW t \in Threads, FindSignal(t)
  PROVE  \A s \in Threads : Moves(s)
<1>0. AccountsTyped /\ frames[t].at = "find_signal" /\ frames[t].kind \in {"evaluate", "act"}
  BY DEF StoresTyped, FramesInOrder, InOrder, MayBeAt, FindSignal, At
<1>1. CASE Finish(t)
  BY <1>0, <1>1, FinishMovesOne
<1>2. ASSUME NEW point \in {"insert_action", "insert_evaluation"}, GoTo(t, point)
      PROVE  \A s \in Threads : Moves(s)
  <2>1. /\ StepOf(t, Going(t, point)) /\ frames'[t].at = point /\ Kept(frames[t], frames'[t])
    BY <1>0, <1>2, GoingKeeps DEF Points
  <2>2. Continues(t)
    BY <1>0, <1>2, <2>1 DEF Continues, Kept, Gates
  <2>. QED
    BY <1>0, <2>1, <2>2, OnlyOneMoves DEF Moves
<1>. QED
  BY <1>1, <1>2 DEF FindSignal

LEMMA AllMove ==
  ASSUME StoresTyped, WorkerNext
  PROVE  \A s \in Threads : Moves(s)
<1>0. AccountsTyped
  BY DEF StoresTyped
<1>1. ASSUME NEW t \in Threads, \/ PutSession(t) \/ Fail(t) \/ AuditThenAnswer(t)
                                \/ InsertSignal(t) \/ InsertEvaluation(t) \/ InsertAction(t)
      PROVE  \A s \in Threads : Moves(s)
  BY <1>0, <1>1, FinishMovesOne
     DEF PutSession, Fail, AuditThenAnswer, Audit, InsertSignal, InsertEvaluation, InsertAction
<1>2. ASSUME \/ ListUsers \/ ListSignals \/ (\E u \in People : SeedAdmin(u) \/ EraseWithActions(u))
             \/ (\E k \in DOMAIN keys : ExpireKey(k))
      PROVE  \A s \in Threads : Moves(s)
  BY <1>2 DEF Moves, ListUsers, ListSignals, SeedAdmin, EraseWithActions, EraseAccount, ExpireKey
<1>3. CASE AdminStep /\ UNCHANGED <<researchStores, calls>>
  BY <1>1, <1>2, <1>3, ArrivalMoves, GateMoves, ReadRoleMoves, ProceedMoves DEF AdminStep
<1>4. CASE ResearchStep
  BY <1>1, <1>2, <1>4, ArrivalMoves, InsertKeyMoves, ProceedMoves, ResearchGateMoves, FindSignalMoves
     DEF ResearchStep
<1>5. CASE CallStep
  BY <1>2, <1>5, ArrivalMoves DEF CallStep
<1>. QED
  BY <1>3, <1>4, <1>5 DEF WorkerNext

LEMMA WithAuthorityKept ==
  ASSUME WorkerTyped, WithAuthority, WorkerNext
  PROVE  WithAuthority'
<1>1. ASSUME NEW t \in Threads
      PROVE  frames'[t].at \in Gates \cup {"idle", "put_session"} \/ t \in fit'
  <2>1. fit' = { s \in Threads : frames'[s].at # "idle" /\ (s \in fit \/ Fit(frames[s])') }
    BY DEF WorkerNext
  <2>2. frames[t].at \in Gates \cup {"idle", "put_session"} \/ t \in fit
    BY DEF WithAuthority, Gates
  <2>3. Moves(t)
    BY AllMove DEF WorkerTyped
  <2>4. CASE frames'[t] = frames[t] \/ frames'[t] = Idle \/ Arrives(t) \/ Continues(t)
    BY <2>1, <2>2, <2>4, IdleIsFrame DEF Arrives, Continues
  <2>5. CASE Passes(t)
    <3>1. Fit(frames[t])'
      BY <2>5 DEF Passes, Kept, Fit, InForce
    <3>. QED
      BY <2>1, <3>1
  <2>. QED
    BY <2>3, <2>4, <2>5 DEF Moves
<1>. QED
  BY <1>1 DEF WithAuthority, Gates

-----------------------------------------------------------------------------
(* What a step may do to the stores                                        *)

\* The row of an account stays, or is created, raised, updated or erased.
RowMoves(p) ==
  \/ users'[p] = users[p]
  \/ users[p].status = "none" /\ users'[p].status = "active"
  \/ users'[p].role = "admin" /\ users'[p].status = users[p].status
  \/ \E t \in Threads : /\ Update(t) /\ frames[t].about = p
                        /\ users'[p] = RowAfter(users[p], frames[t])
  \/ EraseWithActions(p) /\ users'[p].status = "gone"

LEMMA RowsMove ==
  ASSUME StoresTyped, WorkerNext, NEW p \in People
  PROVE  RowMoves(p)
<1>0. AccountsTyped
  BY DEF StoresTyped
<1>1. CASE UNCHANGED users
  BY <1>1 DEF RowMoves
<1>2. ASSUME NEW t \in Threads, NEW q \in People, NEW otp \in BOOLEAN, BeginSignIn(t, q, otp)
      PROVE  RowMoves(p)
  <2>1. CASE users[q].status = "none" /\ users' = [users EXCEPT ![q].status = "active"]
    BY <1>0, <2>1 DEF AccountsTyped, RowMoves
  <2>. QED
    BY <1>1, <1>2, <2>1 DEF BeginSignIn
<1>3. ASSUME NEW t \in Threads, Update(t)
      PROVE  RowMoves(p)
  <2>1. frames[t].about \in People
    BY <1>0 DEF AccountsTyped, Frame
  <2>2. users' = [users EXCEPT ![frames[t].about] = RowAfter(users[frames[t].about], frames[t])]
    BY <1>3 DEF Update
  <2>. QED
    BY <1>0, <1>3, <2>1, <2>2 DEF AccountsTyped, RowMoves
<1>4. ASSUME NEW u \in People, SeedAdmin(u)
      PROVE  RowMoves(p)
  <2>1. users' = [users EXCEPT ![u].role = "admin"]
    BY <1>4 DEF SeedAdmin
  <2>. QED
    BY <1>0, <2>1 DEF AccountsTyped, RowMoves
<1>5. ASSUME NEW u \in People, EraseWithActions(u)
      PROVE  RowMoves(p)
  <2>1. users' = [users EXCEPT ![u] = [role |-> "user", status |-> "gone"]]
    BY <1>5 DEF EraseWithActions, EraseAccount
  <2>. QED
    BY <1>0, <1>5, <2>1 DEF AccountsTyped, RowMoves
<1>6. ASSUME NEW t \in Threads, AdminArrival(t)
      PROVE  RowMoves(p)
  BY <1>1, <1>2, <1>6 DEF AdminArrival, BeginAdmin, adminStores
<1>7. CASE AdminStep
  BY <1>1, <1>3, <1>4, <1>6, <1>7
     DEF AdminStep, PutSession, Gate, ReadRole, Unlink, EndSessions, Fail, ListUsers, adminStores
<1>8. CASE ResearchStep
  BY <1>1, <1>5, <1>8
     DEF ResearchStep, KeysArrival, BeginKey, InsertKey, Revoke, AuditThenAnswer, Audit, KeyGate,
         TokenGate, SessionGate, Admit, FindSignal, InsertSignal, InsertEvaluation, InsertAction,
         ExpireKey, adminStores
<1>9. CASE CallStep
  BY <1>1, <1>9 DEF CallStep, ListSignals, ResearchArrival, BeginPush, adminStores
<1>. QED
  BY <1>7, <1>8, <1>9 DEF WorkerNext

\* A session is put by a sign-in, and an identity linked by the first one of an account.
EntriesMove ==
  /\ \A s \in sessions' \ sessions :
       \E t \in Threads : frames[t].kind = "sign_in" /\ frames[t].about = s.user
  /\ \A p \in linked' \ linked : users[p].status = "none"

LEMMA EntriesDoMove ==
  ASSUME StoresTyped, WorkerNext
  PROVE  EntriesMove
<1>1. ASSUME sessions' \subseteq sessions, linked' \subseteq linked
      PROVE  EntriesMove
  BY <1>1 DEF EntriesMove
<1>2. ASSUME NEW t \in Threads, PutSession(t)
      PROVE  EntriesMove
  <2>1. frames[t].kind = "sign_in" /\ frames[t].about = frames[t].by
    BY <1>2 DEF PutSession, At, StoresTyped, FramesInOrder, InOrder, MayBeAt
  <2>. QED
    BY <1>2, <2>1 DEF PutSession, EntriesMove
<1>3. ASSUME NEW t \in Threads, NEW q \in People, NEW otp \in BOOLEAN, BeginSignIn(t, q, otp)
      PROVE  EntriesMove
  BY <1>3 DEF BeginSignIn, EntriesMove
<1>4. ASSUME NEW t \in Threads, AdminArrival(t)
      PROVE  EntriesMove
  BY <1>1, <1>3, <1>4 DEF AdminArrival, BeginAdmin, adminStores
<1>5. ASSUME NEW t \in Threads, EndSessions(t)
      PROVE  EntriesMove
  <2>1. sessions' \subseteq sessions /\ linked' \subseteq linked
    BY <1>5 DEF EndSessions, SessionsOf
  <2>. QED
    BY <1>1, <2>1
<1>6. ASSUME NEW u \in People, EraseWithActions(u)
      PROVE  EntriesMove
  <2>1. sessions' \subseteq sessions /\ linked' \subseteq linked
    BY <1>6 DEF EraseWithActions, EraseAccount
  <2>. QED
    BY <1>1, <2>1
<1>7. CASE AdminStep
  BY <1>1, <1>2, <1>4, <1>5, <1>7
     DEF AdminStep, Gate, ReadRole, Update, Unlink, Fail, SeedAdmin, ListUsers, adminStores
<1>8. CASE ResearchStep
  BY <1>1, <1>6, <1>8
     DEF ResearchStep, KeysArrival, BeginKey, InsertKey, Revoke, AuditThenAnswer, Audit, KeyGate,
         TokenGate, SessionGate, Admit, FindSignal, InsertSignal, InsertEvaluation, InsertAction,
         ExpireKey, adminStores
<1>9. CASE CallStep
  BY <1>1, <1>9 DEF CallStep, ListSignals, ResearchArrival, BeginPush, adminStores
<1>. QED
  BY <1>7, <1>8, <1>9 DEF WorkerNext

\* Audit rows are appended, and a key is handed out only together with its row.
TrailMoves ==
  /\ \E row \in TrailRow : trail' = trail \/ trail' = Append(trail, row)
  /\ held' = held \/ \E t \in Threads :
                       /\ frames[t].kind = "create_key" /\ held' = held \cup {frames[t].key}
                       /\ trail' = Append(trail, AuditRow(frames[t]))

LEMMA TrailDoesMove ==
  ASSUME StoresTyped, WorkerNext
  PROVE  TrailMoves
<1>. DEFINE seeded(u) == [action |-> "role", about |-> u, key |-> 0, from |-> "unsaid", to |-> "admin"]
<1>0. AccountsTyped
  BY DEF StoresTyped
<1>1. \A u \in People : seeded(u) \in TrailRow
  BY DEF TrailRow, Kinds, AdminKinds, UserKinds, Roles
<1>2. ASSUME NEW u \in People, SeedAdmin(u), UNCHANGED researchStores
      PROVE  TrailMoves
  <2>1. trail' = Append(trail, seeded(u)) /\ held' = held
    BY <1>2 DEF SeedAdmin, researchStores
  <2>. HIDE DEF seeded
  <2>. QED
    BY <1>1, <2>1 DEF TrailMoves
<1>3. ASSUME UNCHANGED <<trail, held>>
      PROVE  TrailMoves
  <2>1. Founder \in People
    BY AdministrationAssumption
  <2>. HIDE DEF seeded
  <2>. QED
    BY <1>1, <1>3, <2>1 DEF TrailMoves
<1>. HIDE DEF seeded
<1>4. ASSUME NEW t \in Threads, AuditThenAnswer(t)
      PROVE  TrailMoves
  <2>1. AuditRow(frames[t]) \in TrailRow
    BY <1>0, AuditRowTyped
  <2>2. CASE Recordable(frames[t])
    BY <1>4, <2>1, <2>2 DEF TrailMoves, AuditThenAnswer, Audit, Answers
  <2>3. CASE ~Recordable(frames[t])
    BY <1>3, <1>4, <2>3 DEF AuditThenAnswer, Audit, Answers
  <2>. QED
    BY <2>2, <2>3
<1>5. CASE AdminStep /\ UNCHANGED <<researchStores, calls>>
  BY <1>2, <1>3, <1>5
     DEF AdminStep, AdminArrival, BeginSignIn, BeginAdmin, PutSession, Gate, ReadRole, Update, Unlink,
         EndSessions, Fail, ListUsers, adminStores, researchStores
<1>6. CASE ResearchStep
  BY <1>3, <1>4, <1>6
     DEF ResearchStep, KeysArrival, BeginKey, InsertKey, Revoke, KeyGate,
         TokenGate, SessionGate, Admit, FindSignal, InsertSignal, InsertEvaluation, InsertAction,
         ExpireKey, EraseWithActions, EraseAccount, adminStores, researchStores
<1>7. CASE CallStep
  BY <1>3, <1>7 DEF CallStep, ListSignals, ResearchArrival, BeginPush, adminStores, researchStores
<1>. QED
  BY <1>5, <1>6, <1>7 DEF WorkerNext

\* An action is recorded while its account is a row.
ActionsMove ==
  \A row \in actions' \ actions : UNCHANGED users /\ users[row.user].status # "gone"

LEMMA ActionsDoMove ==
  ASSUME StoresTyped, WorkerNext
  PROVE  ActionsMove
<1>1. ASSUME actions' \subseteq actions
      PROVE  ActionsMove
  BY <1>1 DEF ActionsMove
<1>2. ASSUME NEW t \in Threads, InsertAction(t)
      PROVE  ActionsMove
  <2>1. UNCHANGED users
    BY <1>2 DEF InsertAction, adminStores
  <2>. QED
    BY <1>2, <2>1 DEF ActionsMove, InsertAction, MayOwnRow
<1>3. ASSUME NEW u \in People, EraseWithActions(u)
      PROVE  ActionsMove
  <2>1. actions' \subseteq actions
    BY <1>3 DEF EraseWithActions
  <2>. QED
    BY <1>1, <2>1
<1>4. CASE UNCHANGED researchStores
  BY <1>1, <1>4 DEF researchStores
<1>5. CASE ResearchStep
  BY <1>1, <1>2, <1>3, <1>5
     DEF ResearchStep, KeysArrival, BeginKey, InsertKey, Revoke, AuditThenAnswer, KeyGate,
         TokenGate, SessionGate, Admit, FindSignal, InsertSignal, InsertEvaluation,
         ExpireKey, researchStores
<1>6. CASE CallStep
  BY <1>4, <1>6 DEF CallStep, ListSignals, ResearchArrival, BeginPush
<1>. QED
  BY <1>4, <1>5, <1>6 DEF WorkerNext

-----------------------------------------------------------------------------
(* Part three: administrators at work                                      *)

InCharge(p) == users[p].status = "active" /\ users[p].role = "admin"

\* An administrator in force stays one as long as nobody is about to take that away.
LEMMA StaysInCharge ==
  ASSUME StoresTyped, WorkerNext, NEW p \in People, InCharge(p),
         \A t \in Threads : TakingPower(frames[t]) => frames[t].about # p
  PROVE  excused' \/ InCharge(p)'
<1>1. RowMoves(p)
  BY RowsMove
<1>2. CASE users'[p].status = "gone"
  BY <1>2 DEF WorkerNext, Observe, InCharge
<1>3. ASSUME NEW t \in Threads, Update(t), frames[t].about = p, users'[p] = RowAfter(users[p], frames[t])
      PROVE  InCharge(p)'
  <2>1. frames[t].at = "update" /\ frames[t].kind \in UserKinds
    BY <1>3 DEF Update, At, StoresTyped, FramesInOrder, InOrder, MayBeAt
  <2>2. frames[t].kind \in {"unsuspend", "expire"}
    BY <1>3, <2>1 DEF TakingPower, UserKinds
  <2>3. users[p] \in [role : Roles, status : Statuses]
    BY DEF StoresTyped, AccountsTyped
  <2>4. RowAfter(users[p], frames[t]).status = "active" /\ RowAfter(users[p], frames[t]).role = "admin"
    <3>1. CASE frames[t].kind = "expire"
      BY <3>1 DEF RowAfter, InCharge
    <3>2. CASE frames[t].kind = "unsuspend"
      BY <2>3, <3>2 DEF RowAfter, InCharge
    <3>. QED
      BY <2>2, <3>1, <3>2
  <2>. QED
    BY <1>3, <2>4 DEF InCharge
<1>. QED
  BY <1>1, <1>2, <1>3 DEF RowMoves, InCharge

\* Nobody is about to take power from somebody who is at work to do so.
LEMMA AtWorkIsSafe ==
  ASSUME OneAtWork, ~excused, NEW t \in Threads, TakingPower(frames[t])
  PROVE  /\ InCharge(frames[t].by) /\ frames[t].about # frames[t].by
         /\ \A s \in Threads : TakingPower(frames[s]) => frames[s].about # frames[t].by
BY DEF OneAtWork, AtWork, InCharge

\* Whoever starts to take power has just passed the gate.
LEMMA PowerTaken ==
  ASSUME StoresTyped, WorkerNext, NEW t \in Threads, TakingPower(frames'[t])
  PROVE  \/ /\ TakingPower(frames[t])
            /\ frames'[t].by = frames[t].by /\ frames'[t].about = frames[t].about
         \/ InCharge(frames[t].by)' /\ frames'[t].about # frames'[t].by
<1>0. Moves(t) /\ InOrder(frames[t]) /\ frames[t] \in Frame
  BY AllMove DEF StoresTyped, AccountsTyped, FramesInOrder
<1>1. CASE frames'[t] = frames[t]
  BY <1>1
<1>2. CASE frames'[t] = Idle \/ Arrives(t)
  BY <1>2, IdleIsFrame DEF Arrives, Gates, TakingPower
<1>3. CASE Passes(t)
  <2>1. frames[t].kind \in {"suspend", "role", "delete"} /\ Kept(frames[t], frames'[t])
    BY <1>3 DEF Passes, Kept, TakingPower
  <2>2. frames[t].at = "gate"
    BY <1>0, <1>3, <2>1 DEF Passes, Gates, InOrder, MayBeAt
  <2>3. users[frames[t].by].status = "active" /\ users[frames[t].by].role = "admin"
    BY <1>3, <2>1 DEF Passes, Fit
  <2>4. frames[t].about # frames[t].by
    BY <1>3, <2>1, <2>2 DEF Passes, AimedAtOneself
  <2>. QED
    BY <1>3, <2>1, <2>3, <2>4 DEF Passes, Kept, InCharge
<1>4. CASE Continues(t)
  <2>1. frames'[t].kind = frames[t].kind /\ frames'[t].at \in {"read_role", "update"}
    BY <1>4 DEF Continues, TakingPower
  <2>2. frames[t].at = "read_role" /\ frames[t].kind # "create_key"
    BY <1>4, <2>1 DEF Continues, TakingPower
  <2>. QED
    BY <1>4, <2>1, <2>2 DEF Continues, Kept, TakingPower
<1>. QED
  BY <1>0, <1>1, <1>2, <1>3, <1>4 DEF Moves

LEMMA OneAtWorkKept ==
  ASSUME StoresTyped, OneAtWork, WorkerNext
  PROVE  OneAtWork'
<1>. SUFFICES ASSUME ~excused'
              PROVE  /\ \A t \in Threads : TakingPower(frames'[t]) =>
                          InCharge(frames[t].by)' /\ frames'[t].about # frames'[t].by
                     /\ \A t \in Threads, s \in Threads :
                          TakingPower(frames'[t]) /\ TakingPower(frames'[s])
                            => frames'[t].by = frames'[s].by
  BY DEF OneAtWork, AtWork, InCharge, TakingPower
<1>0. /\ ~excused
      /\ \A t \in Threads, s \in Threads :
           TakingPower(frames'[t]) /\ TakingPower(frames'[s]) => frames'[t].by = frames'[s].by
  BY DEF WorkerNext, Observe
<1>1. ASSUME NEW t \in Threads, TakingPower(frames'[t])
      PROVE  InCharge(frames[t].by)' /\ frames'[t].about # frames'[t].by
  <2>1. CASE /\ TakingPower(frames[t])
             /\ frames'[t].by = frames[t].by /\ frames'[t].about = frames[t].about
    <3>. PICK p \in People : p = frames[t].by
      BY DEF StoresTyped, AccountsTyped, Frame
    <3>1. InCharge(p) /\ frames[t].about # p /\ \A s \in Threads : TakingPower(frames[s]) => frames[s].about # p
      BY <1>0, <2>1, AtWorkIsSafe
    <3>2. InCharge(p)'
      BY <3>1, StaysInCharge
    <3>. QED
      BY <2>1, <3>1, <3>2 DEF InCharge
  <2>. QED
    BY <1>1, <2>1, PowerTaken
<1>. QED
  BY <1>0, <1>1

LEMMA AnAdminRemainsKept ==
  ASSUME StoresTyped, OneAtWork, AnAdminRemains, WorkerNext
  PROVE  AnAdminRemains'
<1>. SUFFICES ASSUME ~excused'
              PROVE  \E p \in People : InCharge(p)'
  BY DEF AnAdminRemains, InCharge
<1>0. ~excused
  BY DEF WorkerNext, Observe
<1>1. PICK p \in People : InCharge(p)
  BY <1>0 DEF AnAdminRemains, InCharge
<1>2. CASE \A t \in Threads : TakingPower(frames[t]) => frames[t].about # p
  BY <1>1, <1>2, StaysInCharge
<1>3. ASSUME NEW t \in Threads, TakingPower(frames[t])
      PROVE  \E q \in People : InCharge(q)'
  <2>. PICK q \in People : q = frames[t].by
    BY DEF StoresTyped, AccountsTyped, Frame
  <2>1. InCharge(q) /\ \A s \in Threads : TakingPower(frames[s]) => frames[s].about # q
    BY <1>0, <1>3, AtWorkIsSafe
  <2>. QED
    BY <2>1, StaysInCharge
<1>. QED
  BY <1>2, <1>3

-----------------------------------------------------------------------------
(* Part four: accounts that were removed                                   *)

LEMMA ShutKept ==
  ASSUME StoresTyped, WorkerNext, NEW u \in People, Shut(u)
  PROVE  Shut(u)'
<1>1. EntriesMove
  BY EntriesDoMove
<1>2. users'[u].status # "none"
  <2>1. RowMoves(u)
    BY RowsMove
  <2>2. ASSUME NEW t \in Threads, Update(t), frames[t].about = u, users'[u] = RowAfter(users[u], frames[t])
        PROVE  users'[u].status # "none"
    <3>1. frames[t] \in Frame /\ frames[t].kind \in UserKinds
      BY <2>2 DEF Update, At, StoresTyped, AccountsTyped, FramesInOrder, InOrder, MayBeAt
    <3>2. users[u] \in [role : Roles, status : Statuses] /\ users[u].status # "none"
      BY DEF StoresTyped, AccountsTyped, Shut
    <3>. QED
      BY <2>2, <3>1, <3>2, RowStays
  <2>. QED
    BY <2>1, <2>2 DEF RowMoves, Shut
<1>3. u \notin linked'
  BY <1>1 DEF EntriesMove, Shut
<1>4. ASSUME u \notin crossed', NEW t \in Threads, frames'[t].kind = "sign_in"
      PROVE  frames'[t].about # u
  <2>1. u \notin crossed
    BY <1>4 DEF WorkerNext, Observe
  <2>2. frames[t].kind = "sign_in" => frames[t].about # u
    BY <2>1 DEF Shut
  <2>3. Moves(t)
    BY AllMove
  <2>4. CASE Arrives(t)
    BY <1>4, <2>4 DEF Arrives, Shut
  <2>. QED
    BY <1>4, <2>2, <2>3, <2>4, IdleIsFrame DEF Moves, Passes, Continues, Kept
<1>. QED
  BY <1>2, <1>3, <1>4 DEF Shut

\* An account is shut once its identity is unlinked.
LEMMA UnlinkedIsShut ==
  ASSUME StoresTyped, WorkerNext, NEW t \in Threads, NEW u \in People, Unlink(t),
         frames[t].about = u, frames'[t].at = "end_sessions", frames'[t].about = u
  PROVE  Shut(u)'
<1>1. u \notin linked'
  BY DEF Unlink
<1>2. users'[u].status # "none"
  BY DEF Unlink, At, StoresTyped, FramesInOrder, InOrder, MayBeAt, UserKinds
<1>3. ASSUME NEW s \in Threads, frames'[s].kind = "sign_in", frames'[s].about = u
      PROVE  u \in crossed'
  <2>1. s # t
    <3>1. frames'[t].kind = "delete"
      <4>1. frames[t].kind = "delete" /\ frames[t].at = "unlink" /\ Moves(t)
        BY AllMove DEF Unlink, At, StoresTyped, FramesInOrder, InOrder, MayBeAt
      <4>. QED
        BY <4>1, IdleIsFrame DEF Moves, Arrives, Passes, Continues, Gates
    <3>. QED
      BY <1>3, <3>1
  <2>. QED
    BY <1>3, <2>1 DEF WorkerNext, Observe
<1>. QED
  BY <1>1, <1>2, <1>3 DEF Shut

\* How a deletion comes to the ending of the sessions, and to its audit row.
LEMMA DeletionMoves ==
  ASSUME StoresTyped, WorkerNext, NEW t \in Threads, frames'[t].kind = "delete"
  PROVE  /\ frames'[t].at = "end_sessions" => frames'[t] = frames[t] \/ Unlink(t)
         /\ frames'[t].at = "audit" =>
              \/ frames'[t] = frames[t]
              \/ EndSessions(t) /\ Deleting(t, "end_sessions")
         /\ frames'[t].at \in {"end_sessions", "audit"} => frames'[t].about = frames[t].about
<1>0. Moves(t) /\ InOrder(frames[t])
  BY AllMove DEF StoresTyped, FramesInOrder
<1>1. CASE frames'[t] = frames[t] \/ frames'[t] = Idle
  BY <1>1, IdleIsFrame
<1>2. CASE Arrives(t)
  BY <1>2 DEF Arrives, Gates
<1>3. CASE Passes(t)
  <2>1. frames[t].at = "gate" /\ frames[t].kind = "delete"
    BY <1>0, <1>3 DEF Passes, Kept, Gates, InOrder, MayBeAt
  <2>. QED
    BY <1>3, <2>1 DEF Passes, FirstPoint
<1>4. CASE Continues(t)
  <2>1. frames[t].kind = "delete" /\ Kept(frames[t], frames'[t])
    BY <1>4 DEF Continues
  <2>2. /\ frames'[t].at = "end_sessions" => Unlink(t)
        /\ frames'[t].at = "audit" => EndSessions(t)
    BY <1>4, <2>1 DEF Continues
  <2>. QED
    BY <2>1, <2>2 DEF Kept, Deleting, EndSessions
<1>. QED
  BY <1>0, <1>1, <1>2, <1>3, <1>4 DEF Moves

LEMMA RemovedAreShutKept ==
  ASSUME StoresTyped, StoresTyped', RemovedAreShut, WorkerNext
  PROVE  RemovedAreShut'
<1>0. \A t \in Threads : frames[t].about \in People /\ frames'[t].about \in People
  <2>1. AccountsTyped /\ frames' \in [Threads -> Frame]
    BY DEF StoresTyped, AccountsTyped
  <2>. QED
    BY <2>1 DEF AccountsTyped, Frame
<1>1. removed' = removed \cup { frames'[t].about : t \in { s \in Threads :
                                  frames'[s].kind = "delete" /\ frames'[s].at = "audit" } }
  BY DEF WorkerNext, Observe
<1>2. ASSUME NEW u \in removed PROVE Shut(u)'
  BY <1>2, ShutKept DEF RemovedAreShut
<1>3. ASSUME NEW t \in Threads, NEW u, u = frames'[t].about,
             frames'[t].kind = "delete", frames'[t].at = "end_sessions"
      PROVE  Shut(u)'
  <2>1. u \in People /\ u = frames[t].about
    BY <1>0, <1>3, DeletionMoves
  <2>2. CASE frames'[t] = frames[t]
    <3>1. Shut(u)
      BY <1>3, <2>1, <2>2 DEF RemovedAreShut, Deleting, At
    <3>. QED
      BY <2>1, <3>1, ShutKept
  <2>3. CASE Unlink(t)
    BY <1>3, <2>1, <2>3, UnlinkedIsShut
  <2>. QED
    BY <1>3, <2>2, <2>3, DeletionMoves
<1>4. ASSUME NEW t \in Threads, NEW u, u = frames'[t].about,
             frames'[t].kind = "delete", frames'[t].at = "audit"
      PROVE  Shut(u)'
  <2>1. u \in People /\ u = frames[t].about
    BY <1>0, <1>4, DeletionMoves
  <2>2. Shut(u)
    BY <1>4, <2>1, DeletionMoves DEF RemovedAreShut, Deleting, At
  <2>. QED
    BY <2>1, <2>2, ShutKept
<1>5. ASSUME NEW u \in removed' PROVE u \in People /\ Shut(u)'
  BY <1>0, <1>1, <1>2, <1>4 DEF RemovedAreShut
<1>6. ASSUME NEW t \in Threads, frames'[t].kind = "delete", frames'[t].at = "audit"
      PROVE  frames'[t].about \in removed'
  BY <1>1, <1>6
<1>7. ASSUME NEW t \in Threads, frames'[t].kind = "delete", frames'[t].at = "end_sessions"
      PROVE  Shut(frames[t].about)'
  <2>. PICK u \in People : u = frames'[t].about
    BY <1>0
  <2>1. Shut(u)'
    BY <1>3, <1>7
  <2>. QED
    BY <2>1 DEF Shut
<1>. QED
  BY <1>5, <1>6, <1>7 DEF RemovedAreShut, Deleting, At

LEMMA NoWayBackKept ==
  ASSUME StoresTyped, RemovedAreShut, NoWayBack, WorkerNext
  PROVE  NoWayBack'
<1>. SUFFICES ASSUME NEW u \in removed', u \notin crossed', NEW s \in sessions', s.user = u
              PROVE  FALSE
  BY DEF NoWayBack, SessionsOf
<1>1. u \notin crossed
  BY DEF WorkerNext, Observe
<1>2. CASE u \in removed
  <2>1. s \notin sessions
    BY <1>1, <1>2 DEF NoWayBack, SessionsOf
  <2>2. PICK t \in Threads : frames[t].kind = "sign_in" /\ frames[t].about = u
    BY <2>1, EntriesDoMove DEF EntriesMove
  <2>. QED
    BY <1>1, <1>2, <2>2 DEF RemovedAreShut, Shut
<1>3. CASE u \notin removed
  <2>1. PICK t \in Threads : frames'[t].kind = "delete" /\ frames'[t].at = "audit" /\ frames'[t].about = u
    BY <1>3 DEF WorkerNext, Observe
  <2>2. EndSessions(t) /\ frames[t].about = u
    <3>1. frames'[t] # frames[t]
      BY <1>3, <2>1 DEF RemovedAreShut, Deleting, At
    <3>. QED
      BY <2>1, <3>1, DeletionMoves
  <2>3. sessions' = (sessions \ SessionsOf(u)) \cup {}
    BY <1>1, <2>2 DEF EndSessions
  <2>. QED
    BY <2>3 DEF SessionsOf
<1>. QED
  BY <1>2, <1>3

-----------------------------------------------------------------------------
(* Records                                                                 *)

LEMMA KeysOnRecordKept ==
  ASSUME StoresTyped, KeysOnRecord, WorkerNext
  PROVE  KeysOnRecord'
<1>0. TrailMoves /\ trail \in Seq(TrailRow)
  BY TrailDoesMove DEF StoresTyped, AccountsTyped
<1>1. ASSUME NEW row \in TrailRow, trail' = Append(trail, row)
      PROVE  /\ DOMAIN trail \subseteq DOMAIN trail' /\ \A i \in DOMAIN trail : trail'[i] = trail[i]
             /\ \E i \in DOMAIN trail' : trail'[i] = row
  BY <1>0, <1>1, Appended
<1>2. DOMAIN trail \subseteq DOMAIN trail' /\ \A i \in DOMAIN trail : trail'[i] = trail[i]
  BY <1>0, <1>1 DEF TrailMoves
<1>3. ASSUME NEW k \in held', k # 1
      PROVE  \E i \in DOMAIN trail' : trail'[i].action = "create_key" /\ trail'[i].key = k
  <2>1. CASE k \in held
    BY <1>2, <1>3, <2>1 DEF KeysOnRecord
  <2>2. CASE k \notin held
    <3>1. PICK t \in Threads : /\ frames[t].kind = "create_key" /\ frames[t].key = k
                               /\ trail' = Append(trail, AuditRow(frames[t]))
      BY <1>0, <2>2 DEF TrailMoves
    <3>2. /\ AuditRow(frames[t]) \in TrailRow
          /\ AuditRow(frames[t]).action = "create_key" /\ AuditRow(frames[t]).key = k
      BY <3>1, AuditRowTyped DEF StoresTyped
    <3>. QED
      BY <1>1, <3>1, <3>2
  <2>. QED
    BY <2>1, <2>2
<1>. QED
  BY <1>3 DEF KeysOnRecord

LEMMA ActionsOwnedKept ==
  ASSUME StoresTyped, ActionsOwned, WorkerNext
  PROVE  ActionsOwned'
<1>1. ASSUME NEW row \in actions'
      PROVE  users'[row.user].status # "gone"
  <2>1. CASE row \notin actions
    BY <2>1, ActionsDoMove DEF ActionsMove
  <2>2. CASE row \in actions
    <3>. PICK u \in People : u = row.user
      BY <2>2 DEF StoresTyped, ResearchTyped
    <3>1. users[u].status # "gone" /\ RowMoves(u)
      BY <2>2, RowsMove DEF ActionsOwned
    <3>2. ~EraseWithActions(u)
      BY DEF EraseWithActions
    <3>3. ASSUME NEW t \in Threads, Update(t), frames[t].about = u, users'[u] = RowAfter(users[u], frames[t])
          PROVE  users'[u].status # "gone"
      <4>1. frames[t] \in Frame /\ frames[t].kind \in UserKinds /\ users[u].status # "none"
        BY <3>3 DEF Update, At, StoresTyped, AccountsTyped, FramesInOrder, InOrder, MayBeAt
      <4>2. users[u] \in [role : Roles, status : Statuses]
        BY DEF StoresTyped, AccountsTyped
      <4>. QED
        BY <3>1, <3>3, <4>1, <4>2, RowStays
    <3>. QED
      BY <3>1, <3>2, <3>3 DEF RowMoves
  <2>. QED
    BY <2>1, <2>2
<1>. QED
  BY <1>1 DEF ActionsOwned

-----------------------------------------------------------------------------
(* The audit trail and the roles                                           *)

Sets(t, u) == SettingRole(frames[t]) /\ frames[t].about = u

\* The rows of u continue one another, and the last of them leads to `role`.
Explained(u, role) ==
  /\ \A k \in RoleRows(u) : trail[k].from \in {RoleBefore(u, k), "unsaid"}
  /\ role = RoleBefore(u, Len(trail) + 1)

\* One request at most sets the role of u.  What it read is the role until its update, and
\* what it was told is the role until its row is written; with that row, there are no more
\* rows than roles set, and if as many, they explain the role, or what the request read.
Follows(u) ==
  /\ \A t \in Threads, s \in Threads : Sets(t, u) /\ Sets(s, u) => s = t
  /\ \A t \in Threads : Sets(t, u) =>
       /\ At(t, "update") => frames[t].from = users[u].role
       /\ At(t, "audit") => /\ frames[t].to = users[u].role
                            /\ Cardinality(RoleRows(u)) < applied[u]
                            /\ Cardinality(RoleRows(u)) + 1 = applied[u] => Explained(u, frames[t].from)
  /\ Cardinality(RoleRows(u)) <= applied[u]
  /\ \/ \E t \in Threads : Sets(t, u) /\ At(t, "audit")
     \/ Cardinality(RoleRows(u)) = applied[u] => Explained(u, users[u].role)

TrailInv ==
  /\ applied \in [People -> Nat]
  /\ \A u \in People \ overlapped : users[u].status # "gone" => Follows(u)

LEMMA RowPositions ==
  ASSUME trail \in Seq(TrailRow), NEW u
  PROVE  /\ Len(trail) \in Nat /\ RoleRows(u) \subseteq 1..Len(trail)
         /\ IsFiniteSet(RoleRows(u)) /\ Cardinality(RoleRows(u)) \in Nat
<1>1. Len(trail) \in Nat /\ RoleRows(u) \subseteq 1..Len(trail)
  BY DEF RoleRows
<1>2. IsFiniteSet(1..Len(trail))
  BY <1>1, FS_Interval
<1>3. IsFiniteSet(RoleRows(u))
  BY <1>1, <1>2, FS_Subset
<1>. QED
  BY <1>1, <1>3, FS_CardinalityType

\* A row that is appended leaves what the rows before say.
LEMMA RolesBeforeStay ==
  ASSUME trail \in Seq(TrailRow), NEW row \in TrailRow, trail' = Append(trail, row),
         UNCHANGED firstRoles, NEW u, NEW k \in 1..(Len(trail) + 1)
  PROVE  RoleBefore(u, k)' = RoleBefore(u, k)
<1>1. /\ Len(trail) \in Nat /\ DOMAIN trail = 1..Len(trail)
      /\ DOMAIN trail' = 1..(Len(trail) + 1)
      /\ \A n \in 1..Len(trail) : trail'[n] = trail[n]
  BY Appended
<1>. DEFINE earlier == { j \in RoleRows(u) : j < k }
<1>2. { j \in RoleRows(u)' : j < k } = earlier
  BY <1>1 DEF RoleRows
<1>3. CASE earlier = {}
  BY <1>2, <1>3 DEF RoleBefore
<1>4. CASE earlier # {}
  <2>1. earlier \subseteq 1..Len(trail)
    BY <1>1 DEF RoleRows
  <2>. DEFINE last == CHOOSE j \in earlier : \A i \in earlier : i <= j
  <2>2. last \in earlier
    <3>1. \E j \in earlier : \A i \in earlier : i <= j
      <4>. HIDE DEF earlier
      <4>. QED
        BY <1>1, <1>4, <2>1, Latest
    <3>. HIDE DEF earlier
    <3>. QED
      BY <3>1
  <2>3. trail'[last].to = trail[last].to
    <3>. HIDE DEF last, earlier
    <3>. QED
      BY <1>1, <2>1, <2>2
  <2>4. RoleBefore(u, k) = trail[last].to
    BY <1>4 DEF RoleBefore
  <2>5. RoleBefore(u, k)' = trail'[last].to
    BY <1>2, <1>4 DEF RoleBefore
  <2>. QED
    BY <2>3, <2>4, <2>5
<1>. QED
  BY <1>3, <1>4

\* No row about the role of u is written.
Unwritten(u) ==
  \/ trail' = trail
  \/ \E row \in TrailRow : /\ trail' = Append(trail, row)
                           /\ ~(row.action = "role" /\ row.about = u)

LEMMA SameRows ==
  ASSUME trail \in Seq(TrailRow), NEW u, UNCHANGED firstRoles, Unwritten(u)
  PROVE  /\ RoleRows(u)' = RoleRows(u)
         /\ \A role : Explained(u, role) => Explained(u, role)'
<1>1. CASE trail' = trail
  <2>1. RoleRows(u)' = RoleRows(u)
    BY <1>1 DEF RoleRows
  <2>2. \A k : RoleBefore(u, k)' = RoleBefore(u, k)
    BY <1>1, <2>1 DEF RoleBefore
  <2>. QED
    BY <1>1, <2>1, <2>2 DEF Explained
<1>2. ASSUME NEW row \in TrailRow, trail' = Append(trail, row),
             ~(row.action = "role" /\ row.about = u)
      PROVE  /\ RoleRows(u)' = RoleRows(u)
             /\ \A role : Explained(u, role) => Explained(u, role)'
  <2>1. /\ Len(trail) \in Nat /\ DOMAIN trail = 1..Len(trail) /\ Len(trail') = Len(trail) + 1
        /\ DOMAIN trail' = 1..(Len(trail) + 1) /\ trail'[Len(trail) + 1] = row
        /\ \A n \in 1..Len(trail) : trail'[n] = trail[n]
    BY <1>2, Appended
  <2>2. RoleRows(u)' = RoleRows(u)
    BY <1>2, <2>1 DEF RoleRows
  <2>3. PICK n \in Nat : n = Len(trail) + 1
    BY <2>1
  <2>4. /\ \A k \in 1..n : RoleBefore(u, k)' = RoleBefore(u, k)
        /\ RoleBefore(u, n + 1)' = RoleBefore(u, n)'
    <3>1. \A k \in 1..n : RoleBefore(u, k)' = RoleBefore(u, k)
      BY <1>2, <2>3, RolesBeforeStay
    <3>. DEFINE upTo(k) == { j \in RoleRows(u)' : j < k }
                LastTo(earlier) == IF earlier = {} THEN firstRoles'[u]
                                   ELSE trail'[CHOOSE j \in earlier : \A i \in earlier : i <= j].to
    <3>2. upTo(n + 1) = upTo(n)
      BY <2>1, <2>2, <2>3 DEF RoleRows
    <3>3. RoleBefore(u, n + 1)' = LastTo(upTo(n + 1)) /\ RoleBefore(u, n)' = LastTo(upTo(n))
      BY DEF RoleBefore
    <3>4. RoleBefore(u, n + 1)' = RoleBefore(u, n)'
      <4>. HIDE DEF LastTo, upTo
      <4>. QED
        BY <3>2, <3>3
    <3>. QED
      BY <3>1, <3>4
  <2>5. ASSUME NEW role, Explained(u, role) PROVE Explained(u, role)'
    <3>1. ASSUME NEW k \in RoleRows(u)' PROVE trail'[k].from \in {RoleBefore(u, k)', "unsaid"}
      <4>1. k \in RoleRows(u) /\ k \in 1..Len(trail) /\ k \in 1..n
        BY <2>1, <2>2, <2>3 DEF RoleRows
      <4>. QED
        BY <2>1, <2>4, <2>5, <4>1 DEF Explained
    <3>2. role = (RoleBefore(u, Len(trail) + 1))'
      <4>1. Len(trail') + 1 = n + 1 /\ n \in 1..n
        BY <2>1, <2>3
      <4>2. role = RoleBefore(u, n)
        BY <2>3, <2>5 DEF Explained
      <4>. QED
        BY <2>4, <4>1, <4>2
    <3>. QED
      BY <3>1, <3>2 DEF Explained
  <2>. QED
    BY <2>2, <2>5
<1>. QED
  BY <1>1, <1>2 DEF Unwritten

\* A row about the role of u that starts from what the rows before explain, or says
\* nothing about it, explains the role it leads to.
LEMMA NextRow ==
  ASSUME trail \in Seq(TrailRow), NEW u, UNCHANGED firstRoles,
         NEW row \in TrailRow, row.action = "role", row.about = u, trail' = Append(trail, row)
  PROVE  /\ Cardinality(RoleRows(u))' = Cardinality(RoleRows(u)) + 1
         /\ \A role : Explained(u, role) /\ row.from \in {role, "unsaid"} => Explained(u, row.to)'
<1>1. /\ Len(trail) \in Nat /\ DOMAIN trail = 1..Len(trail) /\ Len(trail') = Len(trail) + 1
      /\ DOMAIN trail' = 1..(Len(trail) + 1) /\ trail'[Len(trail) + 1] = row
      /\ \A n \in 1..Len(trail) : trail'[n] = trail[n]
  BY Appended
<1>2. PICK n \in Nat : n = Len(trail) + 1
  BY <1>1
<1>3. RoleRows(u)' = RoleRows(u) \cup {n} /\ n \notin RoleRows(u)
  BY <1>1, <1>2 DEF RoleRows
<1>4. Cardinality(RoleRows(u))' = Cardinality(RoleRows(u)) + 1
  <2>1. IsFiniteSet(RoleRows(u))
    BY RowPositions
  <2>2. Cardinality(RoleRows(u) \cup {n}) = Cardinality(RoleRows(u)) + 1
    BY <1>3, <2>1, FS_AddElement
  <2>. QED
    BY <1>3, <2>2
<1>5. \A k \in 1..n : RoleBefore(u, k)' = RoleBefore(u, k)
  BY <1>2, RolesBeforeStay
<1>6. RoleBefore(u, n + 1)' = row.to
  <2>. DEFINE earlier == { j \in RoleRows(u)' : j < n + 1 }
              last == CHOOSE j \in earlier : \A i \in earlier : i <= j
  <2>1. n \in earlier /\ \A i \in earlier : i \in Nat /\ i <= n
    BY <1>1, <1>2, <1>3 DEF RoleRows
  <2>2. last = n
    <3>1. \E j \in earlier : \A i \in earlier : i <= j
      BY <2>1
    <3>. HIDE DEF earlier
    <3>2. last \in earlier /\ \A i \in earlier : i <= last
      BY <3>1
    <3>. HIDE DEF last
    <3>. QED
      BY <2>1, <3>2
  <2>3. RoleBefore(u, n + 1)' = trail'[last].to
    BY <2>1 DEF RoleBefore
  <2>. QED
    BY <1>1, <1>2, <2>2, <2>3
<1>7. ASSUME NEW role, Explained(u, role), row.from \in {role, "unsaid"}
      PROVE  Explained(u, row.to)'
  <2>1. ASSUME NEW k \in RoleRows(u)' PROVE trail'[k].from \in {RoleBefore(u, k)', "unsaid"}
    <3>1. CASE k = n
      <4>1. RoleBefore(u, n)' = RoleBefore(u, n) /\ role = RoleBefore(u, n) /\ trail'[n] = row
        BY <1>1, <1>2, <1>5, <1>7 DEF Explained
      <4>. QED
        BY <1>7, <3>1, <4>1
    <3>2. CASE k # n
      <4>1. k \in RoleRows(u) /\ k \in 1..n /\ trail'[k] = trail[k]
        BY <1>1, <1>2, <1>3, <3>2 DEF RoleRows
      <4>. QED
        BY <1>5, <1>7, <4>1 DEF Explained
    <3>. QED
      BY <3>1, <3>2
  <2>2. Len(trail') + 1 = n + 1
    BY <1>1, <1>2
  <2>. QED
    BY <1>6, <2>1, <2>2 DEF Explained
<1>. QED
  BY <1>4, <1>7

\* A request that comes to set a role has read it, or has just set it.
LEMMA SetterMoves ==
  ASSUME StoresTyped, WorkerNext, NEW t \in Threads, SettingRole(frames'[t]),
         frames'[t] # frames[t]
  PROVE  /\ frames[t].kind = "role" /\ frames[t].about = frames'[t].about
         /\ ReadRole(t) \/ Update(t)
<1>0. frames'[t].kind = "role" /\ frames'[t].at \in {"update", "audit"} /\ InOrder(frames[t])
  BY DEF SettingRole, StoresTyped, FramesInOrder
<1>1. ~(frames'[t] = Idle)
  BY <1>0, IdleIsFrame
<1>2. ~Arrives(t)
  BY <1>0 DEF Arrives, Gates
<1>3. ~Passes(t)
  <2>1. ASSUME Passes(t) PROVE FALSE
    <3>1. frames[t].kind = "role" /\ frames[t].at \in Gates
      BY <1>0, <2>1 DEF Passes, Kept
    <3>2. frames[t].at = "gate"
      BY <1>0, <3>1 DEF InOrder, MayBeAt, Gates
    <3>. QED
      BY <1>0, <2>1, <3>1, <3>2 DEF Passes, FirstPoint
  <2>. QED
    BY <2>1
<1>4. Continues(t)
  BY <1>1, <1>2, <1>3, AllMove DEF Moves
<1>. QED
  BY <1>0, <1>4 DEF Continues, Kept

LEMMA RoleIsRead ==
  ASSUME StoresTyped, NEW t \in Threads, ReadRole(t)
  PROVE  /\ frames'[t].at = "update" /\ frames'[t].from = users[frames[t].about].role
         /\ \A s \in Threads \ {t} : frames'[s] = frames[s]
<1>. DEFINE g == [frames[t] EXCEPT !.from = users[frames[t].about].role]
            there == [frames EXCEPT ![t] = g]
            f == [g EXCEPT !.at = "update"]
<1>0. AccountsTyped
  BY DEF StoresTyped
<1>1. frames[t] \in Frame
  BY <1>0 DEF AccountsTyped
<1>2. users[frames[t].about].role \in Roles
  BY <1>0, <1>1 DEF AccountsTyped, Frame
<1>3. frames' = [there EXCEPT ![t] = [there[t] EXCEPT !.at = "update"]]
  BY DEF ReadRole
<1>4. g \in Frame /\ g.from = users[frames[t].about].role
  BY <1>1, <1>2, Set
<1>. HIDE DEF g
<1>5. f.at = "update" /\ Others(g, f, {"at"})
  BY <1>4, Set DEF Points
<1>6. there = [frames EXCEPT ![t] = g]
  OBVIOUS
<1>. HIDE DEF there
<1>7. StepOf(t, f)
  BY <1>0, <1>3, <1>6, SetsTwice
<1>. HIDE DEF f
<1>. QED
  BY <1>0, <1>4, <1>5, <1>7, StepOfFrames DEF Others

LEMMA RoleIsSet ==
  ASSUME StoresTyped, NEW t \in Threads, Update(t), frames[t].kind = "role"
  PROVE  /\ frames[t].at = "update" /\ frames'[t].at = "audit"
         /\ frames'[t].from = frames[t].from /\ frames'[t].to = frames[t].to
         /\ \A s \in Threads \ {t} : frames'[s] = frames[s]
<1>1. AccountsTyped /\ frames[t].at = "update"
  BY DEF StoresTyped, Update, At
<1>2. GoTo(t, "audit") /\ "audit" \in Points
  BY <1>1 DEF Update, Proceed, After, Points
<1>3. StepOf(t, Going(t, "audit")) /\ frames'[t] = Going(t, "audit")
  BY <1>1, <1>2, GoingKeeps
<1>4. Going(t, "audit").at = "audit" /\ Others(frames[t], Going(t, "audit"), {"at"})
  BY <1>1, <1>2, GoToMoves
<1>. QED
  BY <1>1, <1>3, <1>4, StepOfFrames DEF Others

\* A step lets the role of u, the count and its rows be; or it sets the role, by a request or
\* the command; or a request writes its row.
Aside(u) ==
  /\ users'[u].status = "gone" \/ users'[u].role = users[u].role
  /\ applied'[u] = applied[u]
  /\ Unwritten(u)

Records(t, u) ==
  /\ Sets(t, u) /\ At(t, "audit") /\ Finish(t)
  /\ UNCHANGED <<users, applied>> /\ trail' = Append(trail, AuditRow(frames[t]))

LEMMA RolesMove ==
  ASSUME StoresTyped, TrailInv, WorkerNext, NEW u \in People
  PROVE  \/ Aside(u)
         \/ \E t \in Threads : Sets(t, u) /\ Update(t)
         \/ \E t \in Threads : Records(t, u)
         \/ SeedAdmin(u)
<1>0. AccountsTyped /\ applied \in [People -> Nat]
  BY DEF StoresTyped, TrailInv
<1>1. CASE UNCHANGED <<users, trail, applied>>
  BY <1>1 DEF Aside, Unwritten
<1>2. ASSUME NEW t \in Threads, NEW q \in People, NEW otp \in BOOLEAN, BeginSignIn(t, q, otp)
      PROVE  Aside(u)
  <2>1. UNCHANGED <<trail, applied>>
    BY <1>2 DEF BeginSignIn
  <2>2. users' = users \/ users' = [users EXCEPT ![q].status = "active"]
    BY <1>2 DEF BeginSignIn
  <2>3. users'[u].role = users[u].role
    <3>1. users[u] \in [role : Roles, status : Statuses] /\ DOMAIN users = People
      BY <1>0 DEF AccountsTyped
    <3>2. ASSUME users' = [users EXCEPT ![q].status = "active"]
          PROVE  users'[u] = IF u = q THEN [users[u] EXCEPT !.status = "active"] ELSE users[u]
      BY <3>1, <3>2
    <3>. QED
      BY <2>2, <3>1, <3>2
  <2>. QED
    BY <2>1, <2>3 DEF Aside, Unwritten
<1>3. ASSUME NEW t \in Threads, Update(t)
      PROVE  Aside(u) \/ Sets(t, u)
  <2>1. frames[t] \in Frame /\ frames[t].at = "update" /\ frames[t].kind \in UserKinds
    BY <1>3 DEF StoresTyped, AccountsTyped, FramesInOrder, InOrder, MayBeAt, Update, At
  <2>2. /\ users' = [users EXCEPT ![frames[t].about] = RowAfter(users[frames[t].about], frames[t])]
        /\ trail' = trail
        /\ applied' = IF frames[t].kind = "role" THEN [applied EXCEPT ![frames[t].about] = @ + 1]
                                                 ELSE applied
    BY <1>3 DEF Update
  <2>3. CASE frames[t].kind = "role" /\ frames[t].about = u
    BY <2>1, <2>3 DEF Sets, SettingRole
  <2>4. CASE frames[t].kind # "role"
    <3>1. users[u] \in [role : Roles, status : Statuses]
      BY <1>0 DEF AccountsTyped
    <3>2. RowAfter(users[u], frames[t]).role = users[u].role
      BY <2>1, <2>4, <3>1 DEF RowAfter, UserKinds
    <3>3. users'[u].role = users[u].role
      BY <1>0, <2>2, <3>2 DEF AccountsTyped
    <3>. QED
      BY <2>2, <2>4, <3>3 DEF Aside, Unwritten
  <2>5. CASE frames[t].about # u
    BY <1>0, <2>2, <2>5 DEF AccountsTyped, Aside, Unwritten
  <2>. QED
    BY <2>3, <2>4, <2>5
<1>4. ASSUME NEW v \in People, SeedAdmin(v)
      PROVE  Aside(u) \/ SeedAdmin(u)
  <2>1. CASE v = u
    BY <1>4, <2>1
  <2>2. CASE v # u
    <3>. DEFINE row == [action |-> "role", about |-> v, key |-> 0, from |-> "unsaid", to |-> "admin"]
    <3>1. row \in TrailRow /\ row.about # u
      BY <2>2 DEF TrailRow, Kinds, AdminKinds, UserKinds, Roles
    <3>2. trail' = Append(trail, row)
      BY <1>4 DEF SeedAdmin
    <3>3. users'[u] = users[u] /\ applied'[u] = applied[u]
      BY <1>0, <1>4, <2>2 DEF SeedAdmin, AccountsTyped
    <3>. HIDE DEF row
    <3>. QED
      BY <3>1, <3>2, <3>3 DEF Aside, Unwritten
  <2>. QED
    BY <2>1, <2>2
<1>5. ASSUME NEW v \in People, EraseWithActions(v)
      PROVE  Aside(u)
  <2>1. /\ users' = [users EXCEPT ![v] = [role |-> "user", status |-> "gone"]]
        /\ UNCHANGED <<trail, applied>>
    BY <1>5 DEF EraseWithActions, EraseAccount
  <2>. QED
    BY <1>0, <2>1 DEF AccountsTyped, Aside, Unwritten
<1>6. ASSUME NEW t \in Threads, AuditThenAnswer(t)
      PROVE  Aside(u) \/ Records(t, u)
  <2>1. UNCHANGED <<users, applied>> /\ Finish(t) /\ frames[t].at = "audit"
    BY <1>6 DEF AuditThenAnswer, Audit, At
  <2>2. CASE trail' = trail
    BY <2>1, <2>2 DEF Aside, Unwritten
  <2>3. CASE trail' = Append(trail, AuditRow(frames[t]))
    <3>1. AuditRow(frames[t]) \in TrailRow
      BY <1>0, AuditRowTyped
    <3>2. AuditRow(frames[t]).action = frames[t].kind /\ AuditRow(frames[t]).about = frames[t].about
      BY DEF AuditRow
    <3>. QED
      BY <2>1, <2>3, <3>1, <3>2 DEF Aside, Unwritten, Records, Sets, SettingRole, At
  <2>. QED
    BY <1>6, <2>2, <2>3 DEF AuditThenAnswer, Audit
<1>7. ASSUME NEW t \in Threads, AdminArrival(t)
      PROVE  Aside(u)
  BY <1>1, <1>2, <1>7 DEF AdminArrival, BeginAdmin, adminStores, Aside, Unwritten
<1>8. CASE AdminStep
  BY <1>1, <1>3, <1>4, <1>7, <1>8
     DEF AdminStep, PutSession, Gate, ReadRole, Unlink, EndSessions, Fail, ListUsers, adminStores
<1>9. CASE ResearchStep
  BY <1>1, <1>5, <1>6, <1>9
     DEF ResearchStep, KeysArrival, BeginKey, InsertKey, Revoke, KeyGate,
         TokenGate, SessionGate, Admit, FindSignal, InsertSignal, InsertEvaluation, InsertAction,
         ExpireKey, adminStores
<1>10. CASE CallStep
  BY <1>1, <1>10 DEF CallStep, ListSignals, ResearchArrival, BeginPush, adminStores
<1>. QED
  BY <1>8, <1>9, <1>10 DEF WorkerNext

\* What a step that lets the role of u be leaves.
LEMMA AsideFollows ==
  ASSUME StoresTyped, TrailInv, WorkerNext, NEW u \in People, u \notin overlapped',
         users'[u].status # "gone", Follows(u), Aside(u)
  PROVE  Follows(u)'
<1>0. AccountsTyped /\ trail \in Seq(TrailRow) /\ applied \in [People -> Nat]
  BY DEF StoresTyped, AccountsTyped, TrailInv
<1>1. users'[u].role = users[u].role /\ applied'[u] = applied[u] /\ Unwritten(u)
  BY DEF Aside
<1>2. UNCHANGED firstRoles
  BY DEF WorkerNext, Observe
<1>3. /\ RoleRows(u)' = RoleRows(u)
      /\ \A role : Explained(u, role) => Explained(u, role)'
  BY <1>0, <1>1, <1>2, SameRows
<1>4. PICK rows : rows = Cardinality(RoleRows(u)) /\ rows = Cardinality(RoleRows(u))'
  BY <1>3
<1>5. PICK count \in Nat : count = applied[u] /\ count = applied'[u]
  BY <1>0, <1>1
<1>6. ASSUME NEW t \in Threads, Sets(t, u)', frames'[t] # frames[t]
      PROVE  ReadRole(t) /\ frames[t].about = u
  <2>1. frames[t].kind = "role" /\ frames[t].about = u /\ (ReadRole(t) \/ Update(t))
    BY <1>6, SetterMoves DEF Sets
  <2>2. ASSUME Update(t) PROVE FALSE
    <3>1. applied' = [applied EXCEPT ![u] = @ + 1]
      BY <2>1, <2>2 DEF Update
    <3>2. applied'[u] = applied[u] + 1 /\ applied[u] \in Nat
      BY <1>0, <3>1
    <3>. QED
      BY <1>1, <3>2
  <2>. QED
    BY <2>1, <2>2
<1>7. ASSUME NEW t \in Threads, ReadRole(t), frames[t].about = u
      PROVE  Follows(u)'
  <2>1. /\ frames'[t].at = "update" /\ frames'[t].from = users[u].role
        /\ \A s \in Threads \ {t} : frames'[s] = frames[s]
    BY <1>7, RoleIsRead
  <2>2. frames[t].kind = "role" /\ frames[t].at = "read_role"
    BY <1>7 DEF ReadRole, At, StoresTyped, FramesInOrder, InOrder, MayBeAt
  <2>3. Moves(t)
    BY AllMove
  <2>4. SettingRole(frames'[t]) /\ frames'[t].about = u
    BY <1>7, <2>1, <2>2, <2>3, IdleIsFrame DEF Moves, Arrives, Passes, Continues, Kept, Gates, SettingRole
  <2>5. \A s \in Threads \ {t} : ~Sets(s, u)
    <3>1. ASSUME NEW s \in Threads \ {t}, Sets(s, u) PROVE u \in overlapped'
      <4>1. frames'[s] = frames[s] /\ SettingRole(frames[s]) /\ frames[s].about = u
        BY <2>1, <3>1 DEF Sets
      <4>2. t \in Threads \ {s}
        OBVIOUS
      <4>. QED
        BY <2>4, <4>1, <4>2 DEF WorkerNext, Observe
    <3>. QED
      BY <3>1
  <2>6. ~Sets(t, u)
    BY <2>2 DEF Sets, SettingRole
  <2>7. \A s \in Threads : Sets(s, u)' => s = t
    BY <2>1, <2>5 DEF Sets
  <2>8. rows <= count /\ (rows = count => Explained(u, users[u].role))
    BY <1>4, <1>5, <2>5, <2>6 DEF Follows
  <2>9. frames'[t].at # "audit"
    BY <2>1
  <2>. QED
    BY <1>1, <1>3, <1>4, <1>5, <2>1, <2>7, <2>8, <2>9 DEF Follows, At
<1>8. ASSUME \A t \in Threads : Sets(t, u)' => frames'[t] = frames[t]
      PROVE  Follows(u)'
  <2>1. \A t \in Threads : Sets(t, u)' => Sets(t, u) /\ frames'[t] = frames[t]
    BY <1>8 DEF Sets
  <2>2. rows <= count
    BY <1>4, <1>5 DEF Follows
  <2>3. \/ \E t \in Threads : Sets(t, u)' /\ At(t, "audit")'
        \/ rows = count => Explained(u, users[u].role)
    <3>1. CASE \E t \in Threads : Sets(t, u) /\ At(t, "audit")
      <4>1. rows < count /\ rows \in Nat
        BY <1>0, <1>4, <1>5, <3>1, RowPositions DEF Follows
      <4>. QED
        BY <4>1
    <3>2. CASE ~\E t \in Threads : Sets(t, u) /\ At(t, "audit")
      BY <1>4, <1>5, <3>2 DEF Follows
    <3>. QED
      BY <3>1, <3>2
  <2>4. ASSUME NEW t \in Threads, Sets(t, u)'
        PROVE  /\ At(t, "update")' => frames'[t].from = users'[u].role
               /\ At(t, "audit")' => /\ frames'[t].to = users'[u].role
                                     /\ rows < count
                                     /\ rows + 1 = count => Explained(u, frames[t].from)'
    <3>1. Sets(t, u) /\ frames'[t] = frames[t]
      BY <2>1, <2>4
    <3>2. /\ At(t, "update") => frames[t].from = users[u].role
          /\ At(t, "audit") => /\ frames[t].to = users[u].role /\ rows < count
                               /\ rows + 1 = count => Explained(u, frames[t].from)
      BY <1>4, <1>5, <3>1 DEF Follows
    <3>3. Explained(u, frames[t].from) => Explained(u, frames[t].from)'
      BY <1>3, <3>1
    <3>. QED
      BY <1>1, <3>1, <3>2, <3>3 DEF At
  <2>5. \A t \in Threads, s \in Threads : Sets(t, u)' /\ Sets(s, u)' => s = t
    BY <2>1 DEF Follows
  <2>. QED
    BY <1>1, <1>3, <1>4, <1>5, <2>2, <2>3, <2>4, <2>5 DEF Follows
<1>. QED
  BY <1>6, <1>7, <1>8

\* A request sets the role of u: as long as it alone does, it set what it was told in place of
\* what it had read.
LEMMA UpdateFollows ==
  ASSUME StoresTyped, TrailInv, WorkerNext, NEW u \in People, users'[u].status # "gone",
         Follows(u), NEW t \in Threads, Sets(t, u), Update(t)
  PROVE  Follows(u)'
<1>0. AccountsTyped /\ trail \in Seq(TrailRow) /\ applied \in [People -> Nat]
  BY DEF StoresTyped, AccountsTyped, TrailInv
<1>1. frames[t].kind = "role" /\ frames[t].about = u
  BY DEF Sets, SettingRole
<1>2. /\ frames[t].at = "update" /\ frames'[t].at = "audit"
      /\ frames'[t].from = frames[t].from /\ frames'[t].to = frames[t].to
      /\ \A s \in Threads \ {t} : frames'[s] = frames[s]
  BY <1>1, RoleIsSet
<1>3. UNCHANGED <<trail, firstRoles>>
  BY DEF Update, WorkerNext, Observe
<1>4. /\ RoleRows(u)' = RoleRows(u)
      /\ \A role : Explained(u, role) => Explained(u, role)'
  BY <1>0, <1>3, SameRows DEF Unwritten
<1>5. PICK rows \in Nat : rows = Cardinality(RoleRows(u)) /\ rows = Cardinality(RoleRows(u))'
  BY <1>0, <1>4, RowPositions
<1>6. PICK count \in Nat : count = applied[u] /\ count + 1 = applied'[u]
  <2>1. applied' = [applied EXCEPT ![u] = @ + 1]
    BY <1>1 DEF Update
  <2>. QED
    BY <1>0, <2>1
<1>7. users'[u].role = frames[t].to
  <2>1. users' = [users EXCEPT ![u] = RowAfter(users[u], frames[t])]
    BY <1>1 DEF Update
  <2>2. users'[u] = RowAfter(users[u], frames[t]) /\ users[u] \in [role : Roles, status : Statuses]
    BY <1>0, <2>1 DEF AccountsTyped
  <2>3. users[u].status # "gone"
    BY <2>2 DEF RowAfter
  <2>4. RowAfter(users[u], frames[t]) = [users[u] EXCEPT !.role = frames[t].to]
    BY <1>1, <2>3 DEF RowAfter
  <2>. QED
    BY <2>2, <2>4
<1>8. \A s \in Threads : Sets(s, u) => s = t
  BY DEF Follows
<1>9. \A s \in Threads : Sets(s, u)' => s = t
  BY <1>2, <1>8 DEF Sets
<1>10. rows <= count /\ (rows = count => Explained(u, users[u].role))
       /\ frames[t].from = users[u].role
  <2>1. ~\E s \in Threads : Sets(s, u) /\ At(s, "audit")
    BY <1>2, <1>8 DEF At
  <2>. QED
    BY <1>2, <1>5, <1>6, <2>1 DEF Follows, At
<1>11. rows + 1 = count + 1 => Explained(u, frames[t].from)'
  <2>1. rows + 1 = count + 1 => Explained(u, frames[t].from)
    BY <1>10
  <2>. QED
    BY <1>2, <1>4, <2>1
<1>12. rows < count + 1 /\ rows <= count + 1
  BY <1>10
<1>13. Sets(t, u)'
  <2>1. frames'[t].kind = "role" /\ frames'[t].about = u
    <3>1. Moves(t)
      BY AllMove
    <3>. QED
      BY <1>1, <1>2, <3>1, IdleIsFrame DEF Moves, Arrives, Passes, Continues, Kept, Gates
  <2>. QED
    BY <1>2, <2>1 DEF Sets, SettingRole
<1>. QED
  BY <1>2, <1>5, <1>6, <1>7, <1>9, <1>11, <1>12, <1>13 DEF Follows, At

\* It writes its row: if no row is missing, the row goes on where the last one stopped.
LEMMA RecordFollows ==
  ASSUME StoresTyped, TrailInv, WorkerNext, NEW u \in People,
         Follows(u), NEW t \in Threads, Records(t, u)
  PROVE  Follows(u)'
<1>0. AccountsTyped /\ trail \in Seq(TrailRow) /\ applied \in [People -> Nat]
  BY DEF StoresTyped, AccountsTyped, TrailInv
<1>1. /\ frames[t].kind = "role" /\ frames[t].about = u /\ frames[t].at = "audit"
      /\ UNCHANGED <<users, applied, firstRoles>>
  BY DEF Records, Sets, SettingRole, At, WorkerNext, Observe
<1>2. PICK row \in TrailRow :
        /\ trail' = Append(trail, row) /\ row.action = "role" /\ row.about = u
        /\ row.from = frames[t].from /\ row.to = frames[t].to
  <2>1. AuditRow(frames[t]) \in TrailRow
    BY <1>0, AuditRowTyped
  <2>2. /\ AuditRow(frames[t]).action = "role" /\ AuditRow(frames[t]).about = u
        /\ AuditRow(frames[t]).from = frames[t].from /\ AuditRow(frames[t]).to = frames[t].to
    BY <1>1 DEF AuditRow, FromInRow
  <2>. QED
    BY <2>1, <2>2 DEF Records
<1>3. frames'[t] = Idle /\ \A s \in Threads \ {t} : frames'[s] = frames[s]
  <2>1. StepOf(t, Idle)
    BY FinishMoves DEF Records
  <2>. QED
    BY <1>0, <2>1, StepOfFrames
<1>4. \A s \in Threads : ~Sets(s, u)'
  <2>1. \A s \in Threads : Sets(s, u) => s = t
    BY DEF Follows, Records
  <2>. QED
    BY <1>3, <2>1, IdleIsFrame DEF Sets, SettingRole
<1>5. PICK rows \in Nat : rows = Cardinality(RoleRows(u))
  BY <1>0, RowPositions
<1>6. PICK count \in Nat : count = applied[u] /\ count = applied'[u]
  BY <1>0, <1>1
<1>7. /\ frames[t].to = users[u].role /\ rows < count
      /\ rows + 1 = count => Explained(u, frames[t].from)
  BY <1>5, <1>6 DEF Follows, Records
<1>8. /\ Cardinality(RoleRows(u))' = rows + 1
      /\ Explained(u, frames[t].from) => Explained(u, row.to)'
  BY <1>0, <1>1, <1>2, <1>5, NextRow
<1>9. rows + 1 = count => Explained(u, users[u].role)'
  <2>1. rows + 1 = count => Explained(u, row.to)'
    BY <1>7, <1>8
  <2>. QED
    BY <1>1, <1>2, <1>7, <2>1
<1>10. rows + 1 <= count
  BY <1>7
<1>. QED
  BY <1>4, <1>6, <1>8, <1>9, <1>10 DEF Follows

\* The command sets the role and writes the row at once, while no request sets it.
LEMMA SeedFollows ==
  ASSUME StoresTyped, TrailInv, WorkerNext, NEW u \in People, u \notin overlapped',
         Follows(u), SeedAdmin(u)
  PROVE  Follows(u)'
<1>0. AccountsTyped /\ trail \in Seq(TrailRow) /\ applied \in [People -> Nat]
  BY DEF StoresTyped, AccountsTyped, TrailInv
<1>1. UNCHANGED <<frames, firstRoles>> /\ users[u].role # "admin" /\ users'[u].role = "admin"
  BY <1>0 DEF SeedAdmin, AccountsTyped, WorkerNext, Observe
<1>. DEFINE seeded == [action |-> "role", about |-> u, key |-> 0, from |-> "unsaid", to |-> "admin"]
<1>2. PICK row \in TrailRow :
        /\ trail' = Append(trail, row) /\ row.action = "role" /\ row.about = u
        /\ row.from = "unsaid" /\ row.to = "admin"
  <2>1. seeded \in TrailRow
    BY DEF TrailRow, Kinds, AdminKinds, UserKinds, Roles
  <2>2. trail' = Append(trail, seeded)
    BY DEF SeedAdmin
  <2>. QED
    BY <2>1, <2>2
<1>3. \A s \in Threads : ~Sets(s, u)
  <2>1. ASSUME NEW s \in Threads, Sets(s, u) PROVE u \in overlapped'
    <3>1. SettingRole(frames[s]) /\ frames[s].about = u /\ frames'[s] = frames[s]
      BY <1>1, <2>1 DEF Sets
    <3>2. users'[u].role # users[u].role
      BY <1>1
    <3>. QED
      BY <3>1, <3>2 DEF WorkerNext, Observe
  <2>. QED
    BY <2>1
<1>4. \A s \in Threads : ~Sets(s, u)'
  BY <1>1, <1>3 DEF Sets
<1>5. PICK rows \in Nat : rows = Cardinality(RoleRows(u))
  BY <1>0, RowPositions
<1>6. PICK count \in Nat : count = applied[u] /\ count + 1 = applied'[u]
  <2>1. applied' = [applied EXCEPT ![u] = @ + 1]
    BY DEF SeedAdmin
  <2>. QED
    BY <1>0, <2>1
<1>7. rows <= count /\ (rows = count => Explained(u, users[u].role))
  BY <1>3, <1>5, <1>6 DEF Follows
<1>8. /\ Cardinality(RoleRows(u))' = rows + 1
      /\ \A role : Explained(u, role) => Explained(u, "admin")'
  BY <1>0, <1>1, <1>2, <1>5, NextRow
<1>9. rows + 1 = count + 1 => Explained(u, users[u].role)'
  <2>1. rows + 1 = count + 1 => Explained(u, "admin")'
    BY <1>7, <1>8
  <2>. QED
    BY <1>1, <2>1
<1>10. rows + 1 <= count + 1
  BY <1>7
<1>. QED
  BY <1>4, <1>6, <1>8, <1>9, <1>10 DEF Follows

\* An erased account stays erased.
LEMMA GoneStays ==
  ASSUME StoresTyped, WorkerNext, NEW u \in People, users[u].status = "gone"
  PROVE  users'[u].status = "gone"
<1>1. RowMoves(u) /\ users[u] \in [role : Roles, status : Statuses]
  BY RowsMove DEF StoresTyped, AccountsTyped
<1>2. ASSUME NEW t \in Threads, users'[u] = RowAfter(users[u], frames[t])
      PROVE  users'[u].status = "gone"
  BY <1>2 DEF RowAfter
<1>. QED
  BY <1>1, <1>2 DEF RowMoves

LEMMA TrailInvKept ==
  ASSUME StoresTyped, TrailInv, WorkerNext
  PROVE  TrailInv'
<1>1. applied \in [People -> Nat]
  BY DEF TrailInv
<1>2. applied' \in [People -> Nat]
  <2>1. ASSUME NEW v \in People, applied' = [applied EXCEPT ![v] = @ + 1]
        PROVE  applied' \in [People -> Nat]
    BY <1>1, <2>1
  <2>2. \A t \in Threads : frames[t].about \in People
    BY DEF StoresTyped, AccountsTyped, Frame
  <2>3. CASE applied' = applied
    BY <1>1, <2>3
  <2>4. CASE AdminStep
    BY <2>1, <2>2, <2>3, <2>4
       DEF AdminStep, AdminArrival, BeginSignIn, BeginAdmin, PutSession, Gate, ReadRole, Update,
           Unlink, EndSessions, Fail, SeedAdmin, ListUsers
  <2>5. CASE ResearchStep
    BY <2>3, <2>5
       DEF ResearchStep, KeysArrival, BeginKey, InsertKey, Revoke, AuditThenAnswer, Audit, KeyGate,
           TokenGate, SessionGate, Admit, FindSignal, InsertSignal, InsertEvaluation, InsertAction,
           ExpireKey, EraseWithActions, EraseAccount
  <2>6. CASE CallStep
    BY <2>3, <2>6 DEF CallStep, ListSignals, ResearchArrival, BeginPush
  <2>. QED
    BY <2>4, <2>5, <2>6 DEF WorkerNext
<1>3. ASSUME NEW u \in People, u \notin overlapped', users'[u].status # "gone"
      PROVE  Follows(u)'
  <2>1. u \notin overlapped
    BY <1>3 DEF WorkerNext, Observe
  <2>2. Follows(u)
    BY <1>3, <2>1, GoneStays DEF TrailInv
  <2>. QED
    BY <1>3, <2>2, RolesMove, AsideFollows, UpdateFollows, RecordFollows, SeedFollows
<1>. QED
  BY <1>2, <1>3 DEF TrailInv

LEMMA TrailInvInit == ASSUME ResearchInit PROVE TrailInv
<1>1. /\ trail = << >> /\ applied = [p \in People |-> 0] /\ frames = [t \in Threads |-> Idle]
      /\ \A p \in People : users[p].role = firstRoles[p]
  BY DEF ResearchInit, AdminInit
<1>2. ASSUME NEW u \in People PROVE Follows(u)
  <2>1. \A t \in Threads : ~Sets(t, u)
    BY <1>1, IdleIsFrame DEF Sets, SettingRole
  <2>2. RoleRows(u) = {} /\ Cardinality(RoleRows(u)) = 0
    BY <1>1, FS_EmptySet DEF RoleRows
  <2>3. Explained(u, users[u].role)
    BY <1>1, <2>2 DEF Explained, RoleBefore
  <2>. QED
    BY <1>1, <2>1, <2>2, <2>3 DEF Follows
<1>. QED
  BY <1>1, <1>2 DEF TrailInv

LEMMA TrailInvMeans == ASSUME StoresTyped, TrailInv PROVE TrailExplainsRole
<1>1. ASSUME NEW u \in People \ overlapped, users[u].status # "gone",
             Cardinality(RoleRows(u)) = applied[u]
      PROVE  Explained(u, users[u].role)
  <2>1. Follows(u)
    BY <1>1 DEF TrailInv
  <2>2. applied[u] \in Nat
    BY DEF TrailInv
  <2>. QED
    BY <1>1, <2>1, <2>2 DEF Follows
<1>. QED
  BY <1>1 DEF TrailExplainsRole, Explained

-----------------------------------------------------------------------------
(* The pages of the users listing                                          *)

\* As long as nobody left the listing, whoever was listed at the start still is, and was
\* shown or stands on a page to come; after the last page there is none to come.
PagesInv ==
  /\ walk.list = "users" => walk.last \in Nat
  /\ walk.list = "none" => walk = NoWalk
  /\ walk.list = "users" /\ ~shifted =>
       \A u \in walk.from :
         /\ u \in UsersListed
         /\ u \in walk.shown \/ PlaceOf(u) > walk.last * PageLimit
  /\ UsersPagesComplete

\* a was created no later than b.
Precedes(q, a, b) == \E i \in DOMAIN q, j \in DOMAIN q : i <= j /\ q[i] = a /\ q[j] = b

\* The order of creation outlasts what is created later and what is erased.
LEMMA OrderOutlasts ==
  ASSUME NEW q \in Seq(People), NEW a \in People, NEW b \in People, Precedes(q, a, b)
  PROVE  /\ \A e \in People : Precedes(Append(q, e), a, b)
         /\ \A k \in DOMAIN q : q[k] \notin {a, b} => Precedes(RemoveAt(q, k), a, b)
<1>0. DOMAIN q = 1..Len(q) /\ Len(q) \in Nat
  OBVIOUS
<1>1. PICK i \in 1..Len(q), j \in 1..Len(q) : i <= j /\ q[i] = a /\ q[j] = b
  BY <1>0 DEF Precedes
<1>2. ASSUME NEW e \in People PROVE Precedes(Append(q, e), a, b)
  <2>1. /\ DOMAIN Append(q, e) = 1..(Len(q) + 1)
        /\ \A n \in 1..Len(q) : Append(q, e)[n] = q[n]
    BY Appended
  <2>2. i \in 1..(Len(q) + 1) /\ j \in 1..(Len(q) + 1)
    BY <1>0
  <2>. QED
    BY <1>1, <2>1, <2>2 DEF Precedes
<1>3. ASSUME NEW k \in DOMAIN q, q[k] \notin {a, b} PROVE Precedes(RemoveAt(q, k), a, b)
  <2>. DEFINE rest == RemoveAt(q, k)
              now(n) == IF n < k THEN n ELSE n - 1
  <2>1. /\ rest \in Seq(People) /\ Len(rest) = Len(q) - 1
        /\ \A n \in 1..(Len(q) - 1) : rest[n] = IF n < k THEN q[n] ELSE q[n + 1]
    BY Shortened
  <2>. HIDE DEF rest
  <2>2. k \in 1..Len(q) /\ i # k /\ j # k /\ DOMAIN rest = 1..(Len(q) - 1)
    BY <1>0, <1>1, <1>3, <2>1
  <2>3. ASSUME NEW n \in 1..Len(q), n # k
        PROVE  now(n) \in 1..(Len(q) - 1) /\ rest[now(n)] = q[n]
    <3>1. CASE n < k
      BY <1>0, <2>1, <2>2, <3>1
    <3>2. CASE n > k
      <4>1. n - 1 \in 1..(Len(q) - 1) /\ ~(n - 1 < k) /\ (n - 1) + 1 = n /\ ~(n < k)
        BY <1>0, <2>2, <3>2
      <4>. QED
        BY <2>1, <4>1
    <3>. QED
      BY <1>0, <2>2, <2>3, <3>1, <3>2
  <2>4. now(i) <= now(j)
    BY <1>1, <2>2
  <2>5. /\ now(i) \in 1..(Len(q) - 1) /\ rest[now(i)] = a
        /\ now(j) \in 1..(Len(q) - 1) /\ rest[now(j)] = b
    <3>. HIDE DEF now
    <3>. QED
      BY <1>1, <2>2, <2>3
  <2>. HIDE DEF now
  <2>6. Precedes(rest, a, b)
    BY <2>2, <2>4, <2>5 DEF Precedes
  <2>. QED
    BY <2>6 DEF rest
<1>. QED
  BY <1>2, <1>3

LEMMA PlacesCount ==
  ASSUME StoresTyped, NEW u
  PROVE  /\ UsersListed \subseteq People /\ IsFiniteSet(UsersListed)
         /\ Cardinality(UsersListed) \in Nat
         /\ ListedSince(u) = { v \in UsersListed : Precedes(roll, u, v) }
         /\ IsFiniteSet(ListedSince(u)) /\ PlaceOf(u) \in Nat
         /\ PlaceOf(u) <= Cardinality(UsersListed)
         /\ u \in UsersListed => PlaceOf(u) > 0
<1>1. UsersListed \subseteq People
  BY DEF UsersListed, StoresTyped, RollKept
<1>2. IsFiniteSet(UsersListed)
  BY <1>1, AdministrationAssumption, FS_Subset
<1>3. ListedSince(u) = { v \in UsersListed : Precedes(roll, u, v) }
  BY DEF ListedSince, Precedes
<1>4. ListedSince(u) \subseteq UsersListed
  BY <1>3
<1>5. IsFiniteSet(ListedSince(u)) /\ Cardinality(ListedSince(u)) <= Cardinality(UsersListed)
  BY <1>2, <1>4, FS_Subset
<1>6. Cardinality(UsersListed) \in Nat /\ PlaceOf(u) \in Nat
  BY <1>2, <1>5, FS_CardinalityType DEF PlaceOf
<1>7. ASSUME u \in UsersListed PROVE PlaceOf(u) > 0
  <2>1. PICK i \in DOMAIN roll : roll[i] = u
    BY <1>7 DEF UsersListed, ToSet
  <2>2. i <= i
    BY DEF StoresTyped, RollKept
  <2>3. u \in ListedSince(u)
    BY <1>3, <1>7, <2>1, <2>2 DEF Precedes
  <2>4. Cardinality(ListedSince(u)) # 0
    BY <1>5, <2>3, FS_EmptySet
  <2>. QED
    BY <1>6, <2>4 DEF PlaceOf
<1>. QED
  BY <1>1, <1>2, <1>3, <1>5, <1>6, <1>7 DEF PlaceOf

\* The roll stays, or somebody is created, or somebody is erased.
RollMoves ==
  \/ UNCHANGED roll
  \/ \E p \in People : roll' = Append(roll, p)
  \/ \E k \in DOMAIN roll : roll' = RemoveAt(roll, k) /\ users'[roll[k]].status = "gone"

LEMMA RollDoesMove ==
  ASSUME StoresTyped, WorkerNext
  PROVE  RollMoves
<1>1. CASE UNCHANGED roll
  BY <1>1 DEF RollMoves
<1>2. ASSUME NEW t \in Threads, NEW q \in People, NEW otp \in BOOLEAN, BeginSignIn(t, q, otp)
      PROVE  RollMoves
  BY <1>2 DEF BeginSignIn, RollMoves
<1>3. ASSUME NEW u \in People, EraseWithActions(u)
      PROVE  RollMoves
  <2>1. users' = [users EXCEPT ![u] = [role |-> "user", status |-> "gone"]]
    BY <1>3 DEF EraseWithActions, EraseAccount
  <2>2. users'[u].status = "gone"
    BY <2>1 DEF StoresTyped, AccountsTyped
  <2>. QED
    BY <1>3, <2>2 DEF EraseWithActions, EraseAccount, RollMoves
<1>4. ASSUME NEW t \in Threads, AdminArrival(t)
      PROVE  RollMoves
  BY <1>1, <1>2, <1>4 DEF AdminArrival, BeginAdmin, adminStores
<1>5. CASE AdminStep
  BY <1>1, <1>4, <1>5
     DEF AdminStep, PutSession, Gate, ReadRole, Update, Unlink, EndSessions, Fail, SeedAdmin,
         ListUsers, adminStores
<1>6. CASE ResearchStep
  BY <1>1, <1>3, <1>6
     DEF ResearchStep, KeysArrival, BeginKey, InsertKey, Revoke, AuditThenAnswer, Audit, KeyGate,
         TokenGate, SessionGate, Admit, FindSignal, InsertSignal, InsertEvaluation, InsertAction,
         ExpireKey, adminStores
<1>7. CASE CallStep
  BY <1>1, <1>7 DEF CallStep, ListSignals, ResearchArrival, BeginPush, adminStores
<1>. QED
  BY <1>5, <1>6, <1>7 DEF WorkerNext

\* As long as nobody leaves the listing, nobody in it moves towards its head.
LEMMA PlacesRise ==
  ASSUME StoresTyped, WorkerNext, StoresTyped', \A v \in UsersListed : Listed(v)',
         NEW u \in UsersListed
  PROVE  u \in UsersListed' /\ PlaceOf(u) <= PlaceOf(u)' /\ PlaceOf(u)' \in Nat
<1>0. roll \in Seq(People) /\ UsersListed \subseteq ToSet(roll)
  BY DEF StoresTyped, RollKept, UsersListed
<1>1. UsersListed \subseteq UsersListed'
  <2>1. ASSUME NEW v \in UsersListed PROVE v \in ToSet(roll)'
    <3>1. users'[v].status \notin {"none", "gone"} /\ v \in People
      BY PlacesCount DEF Listed
    <3>. QED
      BY <3>1 DEF StoresTyped, RollKept
  <2>. QED
    BY <2>1 DEF UsersListed
<1>2. ASSUME NEW v \in UsersListed, Precedes(roll, u, v) PROVE Precedes(roll', u, v)
  <2>1. u \in People /\ v \in People
    BY PlacesCount
  <2>2. /\ \A e \in People : Precedes(Append(roll, e), u, v)
        /\ \A k \in DOMAIN roll : roll[k] \notin {u, v} => Precedes(RemoveAt(roll, k), u, v)
    BY <1>0, <1>2, <2>1, OrderOutlasts
  <2>3. users'[u].status # "gone" /\ users'[v].status # "gone"
    BY DEF Listed
  <2>. QED
    BY <1>2, <2>2, <2>3, RollDoesMove DEF RollMoves
<1>3. ListedSince(u) \subseteq ListedSince(u)'
  <2>1. ListedSince(u) = { v \in UsersListed : Precedes(roll, u, v) }
    BY PlacesCount
  <2>2. ListedSince(u)' = { v \in UsersListed' : Precedes(roll', u, v) }
    BY DEF ListedSince, Precedes
  <2>. QED
    BY <1>1, <1>2, <2>1, <2>2
<1>4. IsFiniteSet(ListedSince(u)') /\ UsersListed' \subseteq People
  <2>1. UsersListed' \subseteq People
    BY DEF StoresTyped, RollKept, UsersListed
  <2>2. ListedSince(u)' \subseteq UsersListed'
    BY DEF ListedSince
  <2>. QED
    BY <2>1, <2>2, AdministrationAssumption, FS_Subset
<1>5. Cardinality(ListedSince(u)) <= Cardinality(ListedSince(u)')
  BY <1>3, <1>4, FS_Subset
<1>6. Cardinality(ListedSince(u)') \in Nat
  BY <1>4, FS_CardinalityType
<1>. QED
  BY <1>1, <1>5, <1>6 DEF PlaceOf

LEMMA Divided ==
  ASSUME NEW n \in Nat, NEW s \in Nat \ {0}
  PROVE  n < (n \div s) * s + s
OBVIOUS

\* The last page reaches the last row.
LEMMA LastPageReaches ==
  ASSUME NEW total \in Nat, NEW page \in Nat, page >= LastPage(total)
  PROVE  total <= page * PageLimit
<1>1. PICK size \in Nat \ {0} : size = PageLimit
  BY AdministrationAssumption
<1>2. PICK n \in Nat, d \in Int : n + 1 = total + size /\ d = n \div size
  <2>1. total + size - 1 \in Nat /\ (total + size - 1) + 1 = total + size
    BY <1>1
  <2>2. PICK m \in Nat : m = total + size - 1
    BY <2>1
  <2>3. m \div size \in Int /\ m + 1 = total + size
    BY <1>1, <2>1, <2>2
  <2>. QED
    BY <2>3
<1>3. n + 1 <= (d + 1) * size
  <2>1. n < d * size + size
    <3>1. n < (n \div size) * size + size
      BY Divided
    <3>. QED
      BY <1>2, <3>1
  <2>2. d * size + size = (d + 1) * size /\ (d + 1) * size \in Int
    BY <1>1, <1>2
  <2>. QED
    BY <1>2, <2>1, <2>2
<1>4. d <= page
  <2>1. total + size - 1 = n
    BY <1>1, <1>2
  <2>. QED
    BY <1>1, <1>2, <2>1 DEF LastPage
<1>5. (d + 1) * size <= page * size + size
  <2>1. PICK e \in Nat : page = d + e
    <3>1. page - d \in Nat /\ page = d + (page - d)
      BY <1>4
    <3>. QED
      BY <3>1
  <2>2. page * size = d * size + e * size /\ (d + 1) * size = d * size + size
    BY <1>1, <1>2, <2>1
  <2>3. e * size \in Nat /\ d * size \in Int
    BY <1>1, <2>1
  <2>. QED
    BY <1>1, <2>2, <2>3
<1>6. page * size \in Int /\ (d + 1) * size \in Int
  BY <1>1, <1>2
<1>7. total + size <= page * size + size
  BY <1>1, <1>2, <1>3, <1>5, <1>6
<1>. QED
  BY <1>1, <1>6, <1>7

LEMMA PagesInvInit == ASSUME ResearchInit PROVE PagesInv
<1>1. walk = NoWalk
  BY DEF ResearchInit, AdminInit
<1>. QED
  BY <1>1 DEF PagesInv, NoWalk, UsersPagesComplete

\* Whoever of the start was not shown so far stands below the pages shown, so the next page
\* shows the account or ends above it.
LEMMA NextPageShows ==
  ASSUME StoresTyped, PagesInv, ListUsers, WorkerNext
  PROVE  PagesInv'
<1>1. PICK last \in Nat : last = walk.last
  BY DEF ListUsers, PagesInv, NoWalk
<1>2. PICK page \in Nat : page = walk.last + 1 /\ page = last + 1
  BY <1>1
<1>3. PICK size \in Nat : size = PageLimit
  BY AdministrationAssumption
<1>4. /\ walk'.list = "users" /\ walk'.last = page
      /\ walk'.from = IF page = 1 THEN UsersListed ELSE walk.from
      /\ walk'.shown = walk.shown \cup Page(page)
      /\ walk'.over = (page >= LastPage(Cardinality(UsersListed)))
  BY <1>2 DEF ListUsers, RowsCounted
<1>5. UNCHANGED <<users, roll>>
  BY DEF ListUsers, adminStores
<1>6. UsersListed' = UsersListed /\ \A u : PlaceOf(u)' = PlaceOf(u)
  BY <1>5 DEF UsersListed, Listed, PlaceOf, ListedSince
<1>7. ~shifted' => ~shifted
  BY DEF WorkerNext, Observe
<1>8. ASSUME ~shifted', NEW u \in walk'.from
      PROVE  u \in UsersListed /\ (u \in walk'.shown \/ PlaceOf(u) > page * size)
  <2>1. u \in UsersListed /\ (u \in walk.shown \/ PlaceOf(u) > last * size)
    <3>1. CASE page = 1
      <4>1. u \in UsersListed /\ last * size = 0
        BY <1>2, <1>3, <1>4, <1>8, <3>1
      <4>. QED
        BY <4>1, PlacesCount
    <3>2. CASE page # 1
      <4>1. walk.list = "users" /\ u \in walk.from
        BY <1>1, <1>2, <1>4, <1>8, <3>2 DEF ListUsers, PagesInv, NoWalk
      <4>. QED
        BY <1>1, <1>3, <1>7, <1>8, <4>1 DEF PagesInv
    <3>. QED
      BY <3>1, <3>2
  <2>2. PICK place \in Nat : place = PlaceOf(u)
    BY PlacesCount
  <2>3. CASE u \notin walk.shown /\ place <= page * size
    <3>1. OffsetOf(page) = last * size /\ OffsetOf(page) + size = page * size
      <4>1. page - 1 = last
        BY <1>2
      <4>2. page * size = last * size + size
        BY <1>2
      <4>. QED
        BY <1>3, <4>1, <4>2 DEF OffsetOf
    <3>2. u \in Page(page)
      BY <1>3, <2>1, <2>2, <2>3, <3>1 DEF Page
    <3>. QED
      BY <1>4, <2>1, <3>2
  <2>4. CASE u \in walk.shown
    BY <1>4, <2>1, <2>4
  <2>5. CASE place > page * size
    BY <2>1, <2>2, <2>5
  <2>6. page * size \in Nat
    OBVIOUS
  <2>. QED
    BY <2>2, <2>3, <2>4, <2>5, <2>6
<1>9. ASSUME ~shifted', walk'.over, NEW u \in walk'.from
      PROVE  u \in walk'.shown
  <2>1. PICK total \in Nat : total = Cardinality(UsersListed)
    BY PlacesCount
  <2>2. total <= page * size
    BY <1>3, <1>4, <1>9, <2>1, LastPageReaches
  <2>3. PICK place \in Nat : place = PlaceOf(u) /\ place <= total
    BY <2>1, PlacesCount
  <2>4. page * size \in Nat
    OBVIOUS
  <2>5. ~(place > page * size)
    BY <2>2, <2>3, <2>4
  <2>. QED
    BY <1>8, <1>9, <2>3, <2>5
<1>. QED
  BY <1>3, <1>4, <1>6, <1>8, <1>9 DEF PagesInv, UsersPagesComplete

LEMMA PagesInvKept ==
  ASSUME StoresTyped, WorkerNext, StoresTyped', PagesInv
  PROVE  PagesInv'
<1>1. CASE UNCHANGED walk
  <2>1. ASSUME walk.list = "users", ~shifted', NEW u \in walk.from
        PROVE  /\ u \in UsersListed'
               /\ u \in walk.shown \/ PlaceOf(u)' > walk.last * PageLimit
    <3>1. ~shifted /\ \A v \in UsersListed : Listed(v)'
      BY <2>1 DEF WorkerNext, Observe
    <3>2. u \in UsersListed /\ (u \in walk.shown \/ PlaceOf(u) > walk.last * PageLimit)
      BY <2>1, <3>1 DEF PagesInv
    <3>3. u \in UsersListed' /\ PlaceOf(u) <= PlaceOf(u)' /\ PlaceOf(u)' \in Nat
      BY <3>1, <3>2, PlacesRise
    <3>4. PICK place \in Nat, later \in Nat : place = PlaceOf(u) /\ later = PlaceOf(u)'
      BY <3>3, PlacesCount
    <3>5. PICK above \in Nat : above = walk.last * PageLimit
      BY <2>1, AdministrationAssumption DEF PagesInv
    <3>. QED
      BY <3>2, <3>3, <3>4, <3>5
  <2>2. ~shifted' => ~shifted
    BY DEF WorkerNext, Observe
  <2>. QED
    BY <1>1, <2>1, <2>2 DEF PagesInv, UsersPagesComplete
<1>2. CASE ListUsers
  BY <1>2, NextPageShows
<1>3. CASE ListSignals
  <2>1. walk'.list = "signals"
    BY <1>3 DEF ListSignals
  <2>. QED
    BY <2>1 DEF PagesInv, UsersPagesComplete
<1>4. CASE AdminStep
  BY <1>1, <1>2, <1>4
     DEF AdminStep, AdminArrival, BeginSignIn, BeginAdmin, PutSession, Gate, ReadRole, Update,
         Unlink, EndSessions, Fail, SeedAdmin
<1>5. CASE ResearchStep
  BY <1>1, <1>5
     DEF ResearchStep, KeysArrival, BeginKey, InsertKey, Revoke, AuditThenAnswer, Audit, KeyGate,
         TokenGate, SessionGate, Admit, FindSignal, InsertSignal, InsertEvaluation, InsertAction,
         ExpireKey, EraseWithActions, EraseAccount
<1>6. CASE CallStep
  BY <1>1, <1>3, <1>6 DEF CallStep, ResearchArrival, BeginPush
<1>. QED
  BY <1>4, <1>5, <1>6 DEF WorkerNext

-----------------------------------------------------------------------------
(* The theorems                                                            *)

LEMMA InitTyped == ASSUME ResearchInit PROVE WorkerTyped
<1>. PICK first \in [People -> {"none", "active", "suspended"}] :
       /\ users = [p \in People |-> [role |-> firstRoles[p], status |-> first[p]]]
       /\ roll = SetToSeq({ p \in People : first[p] # "none" })
       /\ sessions = { SignedIn(p, firstRoles[p]) : p \in { q \in People : first[q] = "active" } }
  BY DEF ResearchInit, AdminInit
<1>0. /\ firstRoles \in [People -> Roles] /\ trail = << >> /\ served = 0
      /\ linked = ToSet(roll) /\ tokens = ToSet(roll)
      /\ frames = [t \in Threads |-> Idle] /\ seen = [u \in People |-> MayShow(u)]
      /\ keys = << [revoked |-> FALSE, expired |-> FALSE] >> /\ held = {1} /\ signals = <<1>>
      /\ evaluations = {} /\ actions = {} /\ fit = {}
  BY DEF ResearchInit, AdminInit
<1>1. /\ users \in [People -> [role : Roles, status : Statuses]]
      /\ \A p \in People : users[p].status = first[p]
  BY <1>0 DEF Statuses
<1>2. AccountsTyped
  <2>1. sessions \subseteq [user : People, role : Roles, otp : BOOLEAN]
    <3>1. \A p \in People : SignedIn(p, firstRoles[p]) \in [user : People, role : Roles, otp : BOOLEAN]
      BY <1>0 DEF SignedIn
    <3>. QED
      BY <3>1
  <2>2. frames \in [Threads -> Frame]
    BY <1>0, IdleIsFrame
  <2>3. served \in 0..MaxRequests
    BY <1>0, AdministrationAssumption
  <2>4. trail \in Seq(TrailRow)
    BY <1>0
  <2>. QED
    BY <1>1, <2>1, <2>2, <2>3, <2>4 DEF AccountsTyped
<1>3. RollKept
  <2>. DEFINE created == { p \in People : first[p] # "none" }
  <2>1. IsFiniteSet(created) /\ created \subseteq People
    BY AdministrationAssumption, FS_Subset
  <2>2. roll \in Seq(created) /\ IsInjective(roll) /\ ToSet(roll) = created
    <3>. HIDE DEF created
    <3>1. roll = SetToSeq(created)
      BY DEF created
    <3>. QED
      BY <2>1, <3>1, Enumerated
  <2>3. roll \in Seq(People)
    BY <2>1, <2>2
  <2>4. created = { p \in People : users[p].status \notin {"none", "gone"} }
    BY <1>1
  <2>. QED
    BY <1>0, <2>2, <2>3, <2>4 DEF RollKept
<1>4. ResearchTyped
  <2>1. keys \in Seq(Key) /\ DOMAIN keys = {1}
    BY <1>0 DEF Key
  <2>2. signals \in Seq(1..MaxSignals) /\ IsInjective(signals)
    BY <1>0, ResearchAssumption DEF IsInjective
  <2>. QED
    BY <1>0, <2>1, <2>2 DEF ResearchTyped
<1>5. FramesInOrder
  BY <1>0, IdleInOrder DEF FramesInOrder
<1>6. NothingSeenEarly
  BY <1>0, <1>1 DEF NothingSeenEarly, MayShow
<1>. QED
  BY <1>0, <1>2, <1>3, <1>4, <1>5, <1>6 DEF WorkerTyped, StoresTyped

LEMMA InitHolds == ASSUME ResearchInit PROVE WorkerInv
<1>0. /\ frames = [t \in Threads |-> Idle] /\ removed = {}
      /\ held = {1} /\ actions = {}
  BY DEF ResearchInit, AdminInit
<1>1. \A t \in Threads : frames[t].at = "idle" /\ frames[t].kind = "none"
  BY <1>0, IdleIsFrame
<1>2. WithAuthority
  BY <1>1 DEF WithAuthority
<1>3. OneAtWork
  BY <1>1 DEF OneAtWork, TakingPower
<1>4. AnAdminRemains
  BY AdministrationAssumption DEF ResearchInit, AdminInit, AnAdminRemains
<1>5. RemovedAreShut
  BY <1>0, <1>1 DEF RemovedAreShut, Deleting
<1>6. NoWayBack /\ KeysOnRecord /\ ActionsOwned
  BY <1>0 DEF NoWayBack, KeysOnRecord, ActionsOwned
<1>. QED
  BY <1>2, <1>3, <1>4, <1>5, <1>6, InitTyped DEF WorkerInv

LEMMA StepHolds == ASSUME WorkerInv, WorkerNext PROVE WorkerInv'
<1>1. WorkerTyped /\ StoresTyped
  BY DEF WorkerInv, WorkerTyped
<1>2. WorkerTyped' /\ StoresTyped'
  BY <1>1, WorkerTypedKept DEF WorkerTyped
<1>. QED
  BY <1>1, <1>2, WithAuthorityKept, OneAtWorkKept, AnAdminRemainsKept, RemovedAreShutKept,
     NoWayBackKept, KeysOnRecordKept, ActionsOwnedKept DEF WorkerInv

LEMMA StutterHolds == ASSUME WorkerInv, UNCHANGED workerVars PROVE WorkerInv'
<1>1. UNCHANGED <<adminStores, frames, served, adminHistory, researchStores, fit>>
  BY DEF workerVars, adminVars
<1>2. WorkerTyped'
  BY <1>1 DEF WorkerInv, WorkerTyped, StoresTyped, AccountsTyped, RollKept, ResearchTyped,
       FramesInOrder, InOrder, NothingSeenEarly, adminStores, adminHistory, researchStores
<1>3. WithAuthority' /\ OneAtWork' /\ AnAdminRemains'
  BY <1>1 DEF WorkerInv, WithAuthority, OneAtWork, AtWork, AnAdminRemains, adminStores, adminHistory
<1>4. RemovedAreShut' /\ NoWayBack'
  BY <1>1 DEF WorkerInv, RemovedAreShut, Shut, Deleting, At, NoWayBack, SessionsOf, adminStores, adminHistory
<1>5. KeysOnRecord' /\ ActionsOwned'
  BY <1>1 DEF WorkerInv, KeysOnRecord, ActionsOwned, adminStores, researchStores
<1>. QED
  BY <1>2, <1>3, <1>4, <1>5 DEF WorkerInv

\* The strengthening holds of every behaviour of the Worker, whatever the accounts,
\* requests, keys and signals, and whoever interrupts whom between two awaits.
THEOREM WorkerKeepsInv == WorkerSpec => []WorkerInv
<1>1. ResearchInit => WorkerInv
  BY InitHolds
<1>2. WorkerInv /\ [WorkerNext]_workerVars => WorkerInv'
  BY StepHolds, StutterHolds
<1>. QED
  BY <1>1, <1>2, PTL DEF WorkerSpec

\* Accounts, identities, tokens and sessions hold what their tables and keys may
\* hold, and identities and tokens lead to accounts that are there.
THEOREM AdministrationTypesCorrect == WorkerSpec => []AdminTypeOK
<1>1. WorkerInv => AdminTypeOK
  BY DEF WorkerInv, WorkerTyped, StoresTyped, AccountsTyped, RollKept, AdminTypeOK
<1>. QED
  BY <1>1, WorkerKeepsInv, PTL

\* Keys, signals, evaluations and actions hold what their tables may hold, and rows
\* refer to rows; no two signals have one id.
THEOREM ResearchTypesCorrect == WorkerSpec => []ResearchTypeOK
<1>1. ASSUME WorkerInv PROVE ResearchTypeOK
  <2>1. ResearchTyped /\ fit \subseteq Threads
    BY <1>1 DEF WorkerInv, WorkerTyped, StoresTyped
  <2>2. Len(signals) = Cardinality(ToSet(signals))
    BY <2>1, Counted DEF ResearchTyped
  <2>3. ToSet(signals) \subseteq 1..MaxSignals
    <3>1. ASSUME NEW S, NEW q \in Seq(S) PROVE ToSet(q) \subseteq S
      BY DEF ToSet
    <3>. QED
      BY <2>1, <3>1 DEF ResearchTyped
  <2>. QED
    BY <2>1, <2>2, <2>3 DEF ResearchTyped, ResearchTypeOK, Key
<1>. QED
  BY <1>1, WorkerKeepsInv, PTL

\* Whatever gets past a gate had a credential that was good at some moment since
\* the request began.
THEOREM RequestsHaveAuthority == WorkerSpec => []WithAuthority
<1>1. WorkerInv => WithAuthority
  BY DEF WorkerInv
<1>. QED
  BY <1>1, WorkerKeepsInv, PTL

\* Administrators who change other people's accounts one at a time never lock
\* everyone out, whatever they do.
THEOREM SomebodyRemainsInCharge == WorkerSpec => []AnAdminRemains
<1>1. WorkerInv => AnAdminRemains
  BY DEF WorkerInv
<1>. QED
  BY <1>1, WorkerKeepsInv, PTL

\* An account whose deletion by an administrator went through has no session any
\* more, and never gets one, unless sign-ins crossed.
THEOREM RemovedStayOut == WorkerSpec => []NoWayBack
<1>1. WorkerInv => NoWayBack
  BY DEF WorkerInv
<1>. QED
  BY <1>1, WorkerKeepsInv, PTL

\* Every engine key in anybody's hands has its audit row.
THEOREM KeysAreOnRecord == WorkerSpec => []KeysOnRecord
<1>1. WorkerInv => KeysOnRecord
  BY DEF WorkerInv
<1>. QED
  BY <1>1, WorkerKeepsInv, PTL

\* No action on a signal outlives its account.
THEOREM ActionsAreOwned == WorkerSpec => []ActionsOwned
<1>1. WorkerInv => ActionsOwned
  BY DEF WorkerInv
<1>. QED
  BY <1>1, WorkerKeepsInv, PTL

\* The rows about an account follow one another, and what a request that sets its
\* role has read or set agrees with them, as long as no two such requests meet.
THEOREM TrailKept == WorkerSpec => []TrailInv
<1>1. ResearchInit => TrailInv
  BY TrailInvInit
<1>2. WorkerInv /\ TrailInv /\ [WorkerNext]_workerVars => TrailInv'
  <2>1. ASSUME WorkerInv, TrailInv, WorkerNext PROVE TrailInv'
    BY <2>1, TrailInvKept DEF WorkerInv, WorkerTyped
  <2>2. ASSUME TrailInv, UNCHANGED workerVars PROVE TrailInv'
    <3>1. UNCHANGED <<users, trail, frames, applied, firstRoles, overlapped>>
      BY <2>2 DEF workerVars, adminVars, adminStores, adminHistory
    <3>2. \A u : RoleRows(u)' = RoleRows(u)
      BY <3>1 DEF RoleRows
    <3>3. \A u, role : Explained(u, role)' = Explained(u, role)
      BY <3>1, <3>2 DEF Explained, RoleBefore
    <3>4. \A u, t : Sets(t, u)' = Sets(t, u) /\ \A point : At(t, point)' = At(t, point)
      BY <3>1 DEF Sets, SettingRole, At
    <3>5. \A u : Follows(u)' = Follows(u)
      BY <3>1, <3>2, <3>3, <3>4 DEF Follows
    <3>. QED
      BY <2>2, <3>1, <3>5 DEF TrailInv
  <2>. QED
    BY <2>1, <2>2
<1>. QED
  BY <1>1, <1>2, WorkerKeepsInv, PTL DEF WorkerSpec

\* The audit trail of an account accounts for its role: as long as no two changes of it
\* overlapped and no row is missing, every row continues where the one before left off
\* and the last one names the role the account has.
THEOREM RolesAreExplained == WorkerSpec => []TrailExplainsRole
<1>1. WorkerInv /\ TrailInv => TrailExplainsRole
  BY TrailInvMeans DEF WorkerInv, WorkerTyped
<1>. QED
  BY <1>1, WorkerKeepsInv, TrailKept, PTL

\* Whoever follows the pages of the users listing to the last link has been shown every
\* account listed at the start, however long the pages are and whoever is created
\* meanwhile, unless one left the listing.
THEOREM NobodyIsSkipped == WorkerSpec => []UsersPagesComplete
<1>1. ResearchInit => PagesInv
  BY PagesInvInit
<1>2. WorkerInv /\ WorkerInv' /\ PagesInv /\ [WorkerNext]_workerVars => PagesInv'
  <2>1. ASSUME WorkerInv, WorkerInv', PagesInv, WorkerNext PROVE PagesInv'
    <3>1. StoresTyped /\ StoresTyped'
      BY <2>1 DEF WorkerInv, WorkerTyped
    <3>. QED
      BY <2>1, <3>1, PagesInvKept
  <2>2. ASSUME PagesInv, UNCHANGED workerVars PROVE PagesInv'
    <3>1. UNCHANGED <<users, roll, walk, shifted>>
      BY <2>2 DEF workerVars, adminVars, adminStores, adminHistory
    <3>2. UsersListed' = UsersListed /\ \A u : PlaceOf(u)' = PlaceOf(u)
      BY <3>1 DEF UsersListed, Listed, PlaceOf, ListedSince
    <3>. QED
      BY <2>2, <3>1, <3>2 DEF PagesInv, UsersPagesComplete
  <2>. QED
    BY <2>1, <2>2
<1>3. PagesInv => UsersPagesComplete
  BY DEF PagesInv
<1>. QED
  BY <1>1, <1>2, <1>3, WorkerKeepsInv, PTL DEF WorkerSpec
====
