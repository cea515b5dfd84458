----------------------------- MODULE ResearchApi -----------------------------
(***************************************************************************)
(* The Worker's research API on top of Administration: engine keys, which  *)
(* administrators create and revoke; signals and evaluations pushed with a *)
(* key or an ID token; users' actions on signals; and the listing of       *)
(* signals page by page.                                                   *)
(*                                                                         *)
(* A credential is checked at one await and used at a later one.  Uuids    *)
(* are random, so a signal's id says nothing about when it was created.    *)
(***************************************************************************)
EXTENDS Administration

CONSTANTS
  MaxKeys,     \* bound: keys ever created
  MaxSignals,  \* bound: signals ever pushed
  MaxCalls     \* bound: requests among those served that go to the research API

ASSUME ResearchAssumption ==
  /\ MaxKeys \in Nat \ {0} /\ MaxSignals \in Nat \ {0} /\ MaxCalls \in Nat

VARIABLES
  keys,         \* engine_api_keys: [revoked, expired] of each key
  held,         \* keys whose raw_key was answered
  signals,      \* research_signals in the order of created_at: the id of each
  evaluations,  \* research_evaluations: the signal each refers to, 0 for none
  actions,      \* signal_actions: [user, signal]
  calls,        \* requests to the research API so far
  fit           \* requests whose credential was good at some moment since they began (history)

researchStores == <<keys, held, signals, evaluations, actions>>

workerVars == <<adminVars, researchStores, calls, fit>>

\* One key is in use already, and a signal was pushed with it.
ResearchInit ==
  /\ AdminInit
  /\ keys = << [revoked |-> FALSE, expired |-> FALSE] >>
  /\ held = {1}
  /\ signals = <<1>>
  /\ evaluations = {} /\ actions = {}
  /\ calls = 0 /\ fit = {}

InForce(k) == ~keys[k].revoked /\ ~keys[k].expired

-----------------------------------------------------------------------------
(* Engine keys, behind the administrators' gate                            *)

BeginKey(t, kind, s, k) ==
  /\ Begin(t, [Request("gate", kind, s) EXCEPT !.key = k])
  /\ UNCHANGED <<adminStores, walk, applied, researchStores>>

\* The key is in force before its audit row is written, and nobody has it yet.
InsertKey(t) ==
  /\ At(t, "insert_key")
  /\ keys' = Append(keys, [revoked |-> FALSE, expired |-> FALSE])
  /\ frames' = [frames EXCEPT ![t].key = Len(keys) + 1, ![t].at = "audit"]
  /\ UNCHANGED <<adminStores, served, walk, applied, held, signals, evaluations, actions>>

\* A key that is not there or revoked already is answered with an error.
Revoke(t) ==
  /\ At(t, "revoke")
  /\ LET k == frames[t].key
     IN  IF keys[k].revoked
           THEN Finish(t) /\ UNCHANGED keys
           ELSE keys' = [keys EXCEPT ![k].revoked = TRUE] /\ Proceed(t)
  /\ UNCHANGED <<adminStores, served, walk, applied, held, signals, evaluations, actions>>

\* Faulty variant: the audit row is not awaited, so its failure goes unnoticed.
AnswersUnrecorded(frame) == TRUE

\* The answer waits for the audit row.
Answers(frame) == Recordable(frame)

\* The audit row, and for a new key the one answer that holds it.
AuditThenAnswer(t) ==
  /\ Audit(t)
  /\ held' = IF frames[t].kind = "create_key" /\ Answers(frames[t])
               THEN held \cup {frames[t].key} ELSE held
  /\ UNCHANGED <<keys, signals, evaluations, actions>>

ExpireKey(k) ==
  /\ served < MaxRequests /\ served' = served + 1
  /\ ~keys[k].expired
  /\ keys' = [keys EXCEPT ![k].expired = TRUE]
  /\ UNCHANGED <<adminStores, frames, walk, applied, held, signals, evaluations, actions>>

-----------------------------------------------------------------------------
(* Credentials                                                             *)

Called == calls < MaxCalls /\ calls' = calls + 1

BeginPush(t, kind, at, p, k, i) ==
  /\ Called
  /\ Begin(t, [Request(at, kind, Visitor(p)) EXCEPT !.key = k, !.signal = i])
  /\ UNCHANGED <<adminStores, walk, applied, researchStores>>

\* Where a request goes once its credential is accepted: a signal it names is
\* looked up first.
AcceptedAt(frame) ==
  IF frame.kind = "push" THEN "insert_signal"
  ELSE IF frame.signal # 0 THEN "find_signal" ELSE "insert_evaluation"

Admit(t, good) ==
  /\ IF good THEN GoTo(t, AcceptedAt(frames[t])) ELSE Finish(t)
  /\ UNCHANGED <<adminStores, served, walk, applied, researchStores>>

\* Faulty variant: only expiry is looked at.
KeyAcceptedUnlessExpired(k) == ~keys[k].expired

\* WHERE key_hash = ... AND revoked_at IS NULL AND not expired.
KeyAccepted(k) == InForce(k)

KeyGate(t) == At(t, "key_gate") /\ Admit(t, KeyAccepted(frames[t].key))

\* An ID token, verified as in SignIn: the identity joined with its account.
TokenGate(t) ==
  At(t, "token_gate") /\ Admit(t, frames[t].by \in linked /\ users[frames[t].by].status = "active")

\* A session, read from KV when the request began.
SessionGate(t) == At(t, "session_gate") /\ Admit(t, users[frames[t].by].status = "active")

-----------------------------------------------------------------------------
(* Pushing and acting                                                      *)

\* Faulty variant: the reference is taken as it comes.
SignalKnownAlways(i) == TRUE

SignalKnown(i) == i \in DOMAIN signals

FindSignal(t) ==
  /\ At(t, "find_signal")
  /\ IF SignalKnown(frames[t].signal)
       THEN GoTo(t, IF frames[t].kind = "act" THEN "insert_action" ELSE "insert_evaluation")
       ELSE Finish(t)
  /\ UNCHANGED <<adminStores, served, walk, applied, researchStores>>

\* gen_random_uuid: any id not taken.
InsertSignal(t) ==
  /\ At(t, "insert_signal")
  /\ \E id \in (1..MaxSignals) \ ToSet(signals) : signals' = Append(signals, id)
  /\ Finish(t)
  /\ UNCHANGED <<adminStores, served, walk, applied, keys, held, evaluations, actions>>

InsertEvaluation(t) ==
  /\ At(t, "insert_evaluation")
  /\ evaluations' = evaluations \cup {frames[t].signal}
  /\ Finish(t)
  /\ UNCHANGED <<adminStores, served, walk, applied, keys, held, signals, actions>>

\* Faulty variant: the table does not refer to users.
MayOwnRowAlways(u) == TRUE

\* signal_actions.user_id REFERENCES users ON DELETE CASCADE.
MayOwnRow(u) == users[u].status # "gone"

InsertAction(t) ==
  /\ At(t, "insert_action")
  /\ LET row == [user |-> frames[t].by, signal |-> frames[t].signal]
     IN  actions' = IF MayOwnRow(frames[t].by) THEN actions \cup {row} ELSE actions
  /\ Finish(t)
  /\ UNCHANGED <<adminStores, served, walk, applied, keys, held, signals, evaluations>>

EraseWithActions(u) ==
  /\ EraseAccount(u)
  /\ actions' = { row \in actions : row.user # u }
  /\ UNCHANGED <<keys, held, signals, evaluations>>

-----------------------------------------------------------------------------
(* GET /research/signals?before=<uuid>                                     *)

\* The newest rows whose id is below `before` (0 for no bound), at most a page of them.
SignalsPage(before) ==
  LET matching == SelectSeq(Reverse(signals), LAMBDA id : before = 0 \/ id < before)
  IN  SubSeq(matching, 1, IF Len(matching) < PageLimit THEN Len(matching) ELSE PageLimit)

\* A client asks for the rows before the last one it was given, until a page comes
\* that is not full.
ListSignals ==
  /\ Called
  /\ served < MaxRequests /\ served' = served + 1
  /\ walk.list \in {"none", "signals"} /\ ~walk.over
  /\ LET rows == SignalsPage(walk.last)
     IN  walk' = [list |-> "signals",
                  last |-> IF rows = << >> THEN walk.last ELSE rows[Len(rows)],
                  from |-> IF walk.list = "none" THEN ToSet(signals) ELSE walk.from,
                  shown |-> walk.shown \cup ToSet(rows),
                  over |-> Len(rows) < PageLimit]
  /\ UNCHANGED <<adminStores, frames, applied, researchStores>>

-----------------------------------------------------------------------------
InFlight(kind) == Cardinality({ t \in Threads : frames[t].kind = kind })

KeysArrival(t) ==
  /\ Free(t)
  /\ \/ /\ Len(keys) + InFlight("create_key") < MaxKeys
        /\ \E s \in sessions : BeginKey(t, "create_key", s, 0)
     \/ \E s \in sessions, k \in DOMAIN keys : BeginKey(t, "revoke_key", s, k)

ResearchArrival(t) ==
  /\ Free(t)
  /\ \/ \E kind \in {"push", "evaluate"}, i \in 0..MaxSignals :
          /\ kind = "push" => i = 0 /\ Len(signals) + InFlight("push") < MaxSignals
          /\ \/ \E k \in held : BeginPush(t, kind, "key_gate", Idle.by, k, i)
             \/ \E p \in People : BeginPush(t, kind, "token_gate", p, 0, i)
     \/ \E s \in sessions, i \in 1..MaxSignals :
          BeginPush(t, "act", "session_gate", s.user, 0, i)

CallStep == ListSignals \/ \E t \in Threads : ResearchArrival(t)

ResearchStep ==
  \/ \E t \in Threads :
       \/ KeysArrival(t) \/ InsertKey(t) \/ Revoke(t) \/ AuditThenAnswer(t)
       \/ KeyGate(t) \/ TokenGate(t) \/ SessionGate(t)
       \/ FindSignal(t) \/ InsertSignal(t) \/ InsertEvaluation(t) \/ InsertAction(t)
  \/ \E k \in DOMAIN keys : ExpireKey(k)
  \/ \E u \in People : EraseWithActions(u)

\* What makes the credential of a request good: the account's row, the link, the key.
Fit(f) ==
  CASE f.key # 0 /\ f.kind \in {"push", "evaluate"} -> InForce(f.key)
    [] f.key = 0 /\ f.kind \in {"push", "evaluate"} -> f.by \in linked /\ users[f.by].status = "active"
    [] f.kind = "act"     -> users[f.by].status = "active"
    [] f.kind \in {"none", "sign_in"} -> TRUE
    [] OTHER              -> users[f.by].status = "active" /\ users[f.by].role = "admin" /\ f.otp

WorkerNext ==
  /\ \/ AdminStep /\ UNCHANGED <<researchStores, calls>>
     \/ ResearchStep /\ UNCHANGED calls
     \/ CallStep
  /\ Observe
  /\ fit' = { t \in Threads :
                frames'[t].at # "idle" /\ (t \in fit \/ Fit(frames[t])') }

WorkerSpec == ResearchInit /\ [][WorkerNext]_workerVars

-----------------------------------------------------------------------------
(* Properties                                                              *)

\* Every variable holds what its table may hold, and rows refer to rows.
ResearchTypeOK ==
  /\ keys \in Seq([revoked : BOOLEAN, expired : BOOLEAN])
  /\ held \subseteq DOMAIN keys
  /\ Len(signals) = Cardinality(ToSet(signals)) /\ ToSet(signals) \subseteq 1..MaxSignals
  /\ evaluations \subseteq {0} \cup DOMAIN signals
  /\ actions \subseteq [user : People, signal : DOMAIN signals]
  /\ fit \subseteq Threads

\* A demotion, a suspension and a revocation take effect at once (middleware/auth.ts,
\* lines 14 and 23): whatever gets past a gate, of administrators, key or token, had a
\* credential that was good at some moment since the request began, whoever
\* withdrew it before and whatever an older session still says.
WithAuthority ==
  \A t \in Threads :
    frames[t].at \in {"idle", "put_session", "gate", "key_gate", "token_gate", "session_gate"}
      \/ t \in fit

\* "Every admin action calls this. Never skip it." (audit.ts, line 14): a key that is
\* in anybody's hands has a row that says who created it, though the administrator
\* may be erased or the request may die between the two statements.
KeysOnRecord ==
  \A k \in held \ {1} :
    \E i \in DOMAIN trail : trail[i].action = "create_key" /\ trail[i].key = k

\* An erased account leaves no action behind, not even one that was past its gate
\* when the account was erased (lib/identity-events.ts, line 5: "the data is gone").
ActionsOwned == \A row \in actions : users[row.user].status # "gone"

\* signals.ts, line 3: "list signals (paginated)".  Whoever follows the pages to the
\* end has been shown every signal that was there at the start; none is ever removed.
SignalPagesComplete ==
  (walk.list = "signals" /\ walk.over) => walk.from \subseteq walk.shown

=============================================================================
