---------------------------- MODULE SignInProofs ----------------------------
(***************************************************************************)
(* What the sign-in guarantees for every number of flows, requests, keys   *)
(* and isolates, every time to live and every clock skew within the leeway,*)
(* checked by TLAPS.                                                       *)
(***************************************************************************)
EXTENDS SignIn, SequenceTheorems, TLAPS

(***************************************************************************)
(* The strengthening, in three parts: what the entries and requests hold;  *)
(* what a request that got past the flow entry, or past the check of its   *)
(* jti, knows of the flow; and how old a set of keys can be.               *)
(***************************************************************************)
Issuable == [key : Nat, iat : Int, exp : Int]

KeyRow == [born : Nat, withdrawn : Nat \cup {Never}]

Answer == [keys : SUBSET Nat, at : Nat]

Frame == [at : Points, isolate : Isolates \cup {Never}, flow : Nat,
          token : Seq(Issuable), keys : SUBSET Nat]

\* Part one: types, among them the constants' part of SignInTypeOK.
EntriesTyped ==
  /\ now \in 0..MaxTime
  /\ flows \in Seq(Nat) /\ used \in Seq(Int) /\ signed_in \in Seq(Nat)
  /\ tokens \in Seq(Seq(Issuable))
  /\ Len(used) = Len(flows) /\ Len(signed_in) = Len(flows) /\ Len(tokens) = Len(flows)
  /\ keys \in Seq(KeyRow) /\ signing \in Published /\ ahead \in Skews
  /\ edge \in Seq(Answer) /\ cache \in [Isolates -> Seq(Answer)]
  /\ frames \in [Threads -> Frame]
  /\ raced \in [flow : SUBSET Nat, jti : SUBSET Nat]

\* Nothing carries a time that has not come, but for what lapses.
NothingFromTheFuture ==
  /\ \A n \in DOMAIN flows : flows[n] <= now + FlowTtl
  /\ \A k \in DOMAIN keys :
       keys[k].born <= now /\ (keys[k].withdrawn # Never => keys[k].withdrawn <= now)
  /\ edge # << >> => edge[1].keys \subseteq DOMAIN keys /\ edge[1].at <= now
  /\ \A i \in Isolates : cache[i] # << >> =>
       cache[i][1].keys \subseteq DOMAIN keys /\ cache[i][1].at <= now

\* A token names a key that exists, and was issued by a clock within the leeway.
Plausible(token) == token.key \in DOMAIN keys /\ token.iat - Leeway <= now

TokensPlausible == \A n \in DOMAIN flows : tokens[n] # << >> => Plausible(tokens[n][1])

\* A request carries what its point needs; an event has no flow and no jti.
InOrder(f) ==
  /\ f.flow \in 0..Len(flows) /\ f.keys \subseteq DOMAIN keys
  /\ f.at # "idle" => f.isolate \in Isolates
  /\ f.at \in {"get_flow", "delete_flow", "exchange", "get_jti", "put_jti"} => f.flow # 0
  /\ f.at \in Prompt => f.token # << >>
  /\ f.token # << >> => Plausible(f.token[1])

FramesInOrder == \A t \in Threads : InOrder(frames[t])

\* Part two.  Where the flow's entry lies behind a request.
PastDelete == {"exchange"} \cup Prompt

InFlow(t, n) == frames[t].flow = n /\ frames[t].at \in {"delete_flow"} \cup PastDelete

AtPut(t, n) == frames[t].flow = n /\ At(t, "put_jti")

\* While the entry is there, nobody got past it.
EntryGuards ==
  \A n \in DOMAIN flows : flows[n] # 0 =>
    /\ signed_in[n] = 0
    /\ \A t \in Threads : frames[t].flow = n => frames[t].at \notin PastDelete

\* Unless two requests found the entry at once, one alone is past it, and it is
\* the one that signs in.
FlowOnce ==
  \A n \in DOMAIN flows : n \notin raced.flow =>
    /\ signed_in[n] <= 1
    /\ \A t \in Threads : InFlow(t, n) =>
         signed_in[n] = 0 /\ \A s \in Threads \ {t} : ~InFlow(s, n)

JtiOnce ==
  \A n \in DOMAIN flows : n \notin raced.jti =>
    /\ signed_in[n] <= 1
    /\ \A t \in Threads : AtPut(t, n) =>
         signed_in[n] = 0 /\ \A s \in Threads \ {t} : ~AtPut(s, n)

\* A token that was used stays marked for as long as it would pass, and the token
\* of a request is the one its flow was given.
UsedWhileValid ==
  \A n \in DOMAIN flows : signed_in[n] > 0 =>
    tokens[n] # << >> /\ used[n] >= tokens[n][1].exp + Leeway

OwnTokens ==
  \A t \in Threads :
    frames[t].flow # 0 /\ frames[t].at \in Prompt => frames[t].token = tokens[frames[t].flow]

StillInTime ==
  \A t \in Threads :
    frames[t].at \in Prompt \ {"verify"} => now < frames[t].token[1].exp + Leeway

\* Part three.  A set of keys that is what was published at some moment, or since:
\* no key in it was withdrawn before, and no key born before and still published
\* is missing.
AsOf(found, moment) ==
  \A k \in DOMAIN keys :
    /\ k \in found => keys[k].withdrawn = Never \/ keys[k].withdrawn >= moment
    /\ (k = 1 \/ keys[k].born < moment) /\ keys[k].withdrawn = Never => k \in found

\* An answer of the edge may be this old when it is given.
Oldest(moment) == moment - EdgeTtl + 1

KeySetsAsOf ==
  /\ edge # << >> => AsOf(edge[1].keys, edge[1].at)
  /\ \A i \in Isolates : cache[i] # << >> => AsOf(cache[i][1].keys, Oldest(cache[i][1].at))
  /\ \A t \in Threads : At(t, "use_keys") => AsOf(frames[t].keys, Oldest(now))

SignInTyped == EntriesTyped /\ NothingFromTheFuture /\ TokensPlausible /\ FramesInOrder

SignInGuarded ==
  EntryGuards /\ FlowOnce /\ JtiOnce /\ UsedWhileValid /\ OwnTokens /\ StillInTime

SignInInv == SignInTyped /\ SignInGuarded /\ KeySetsAsOf /\ KeysRecent /\ GenuineAccepted

-----------------------------------------------------------------------------
(* Sequences                                                               *)

LEMMA Appended ==
  ASSUME NEW S, NEW q \in Seq(S), NEW e \in S
  PROVE  /\ Append(q, e) \in Seq(S) /\ Len(Append(q, e)) = Len(q) + 1 /\ Len(q) \in Nat
         /\ DOMAIN q = 1..Len(q) /\ DOMAIN Append(q, e) = 1..(Len(q) + 1)
         /\ Append(q, e)[Len(q) + 1] = e
         /\ \A n \in 1..Len(q) : Append(q, e)[n] = q[n]
<1>1. /\ Append(q, e) \in Seq(S) /\ Len(Append(q, e)) = Len(q) + 1
      /\ \A n \in 1..Len(q) : Append(q, e)[n] = q[n]
      /\ Append(q, e)[Len(q) + 1] = e
  BY AppendProperties
<1>. QED
  BY <1>1, LenProperties

LEMMA Replaced ==
  ASSUME NEW S, NEW q \in Seq(S), NEW k \in DOMAIN q, NEW e \in S
  PROVE  /\ [q EXCEPT ![k] = e] \in Seq(S) /\ Len([q EXCEPT ![k] = e]) = Len(q)
         /\ Len(q) \in Nat
         /\ DOMAIN q = 1..Len(q) /\ DOMAIN [q EXCEPT ![k] = e] = 1..Len(q)
         /\ \A n \in 1..Len(q) : [q EXCEPT ![k] = e][n] = IF n = k THEN e ELSE q[n]
<1>1. DOMAIN q = 1..Len(q) /\ Len(q) \in Nat
  BY LenProperties
<1>2. [q EXCEPT ![k] = e] \in Seq(S) /\ Len([q EXCEPT ![k] = e]) = Len(q)
  BY <1>1, ExceptSeq
<1>. QED
  BY <1>1, <1>2

-----------------------------------------------------------------------------
(* How frames move                                                         *)

\* The frame of a request that goes on at a point, with what it holds.
Moved(t, point, token, found) ==
  [at |-> point, isolate |-> frames[t].isolate, flow |-> frames[t].flow,
   token |-> token, keys |-> found]

Stays(t, point) == Moved(t, point, frames[t].token, frames[t].keys)

StepOf(t, f) == frames' = [frames EXCEPT ![t] = f]

LEMMA IdleFits == Idle \in Frame /\ (SignInTyped => InOrder(Idle))
BY LenProperties DEF Idle, Request, Frame, Points, Prompt, InOrder, SignInTyped, EntriesTyped

LEMMA GoToMoves ==
  ASSUME NEW t \in Threads, EntriesTyped, NEW point, GoTo(t, point)
  PROVE  StepOf(t, Stays(t, point))
<1>1. frames[t] \in Frame
  BY DEF EntriesTyped
<1>2. [frames[t] EXCEPT !.at = point] = Stays(t, point)
  BY <1>1 DEF Frame, Stays, Moved
<1>. QED
  BY <1>2 DEF EntriesTyped, GoTo, StepOf

LEMMA TokenMoves ==
  ASSUME NEW t \in Threads, EntriesTyped, NEW point, NEW token,
         frames' = [frames EXCEPT ![t].at = point, ![t].token = token]
  PROVE  StepOf(t, Moved(t, point, token, frames[t].keys))
<1>. DEFINE there == [frames EXCEPT ![t].at = point]
<1>1. frames[t] \in Frame
  BY DEF EntriesTyped
<1>2. there[t] = Stays(t, point)
  BY <1>1 DEF EntriesTyped, Frame, Stays, Moved
<1>3. [there[t] EXCEPT !.token = token] = Moved(t, point, token, frames[t].keys)
  BY <1>2 DEF Stays, Moved
<1>4. frames' = [there EXCEPT ![t] = [there[t] EXCEPT !.token = token]]
  BY DEF EntriesTyped
<1>. QED
  BY <1>3, <1>4 DEF EntriesTyped, StepOf

LEMMA KeysMove ==
  ASSUME NEW t \in Threads, EntriesTyped, NEW point, NEW found,
         frames' = [frames EXCEPT ![t].at = point, ![t].keys = found]
  PROVE  StepOf(t, Moved(t, point, frames[t].token, found))
<1>. DEFINE there == [frames EXCEPT ![t].at = point]
<1>1. frames[t] \in Frame
  BY DEF EntriesTyped
<1>2. there[t] = Stays(t, point)
  BY <1>1 DEF EntriesTyped, Frame, Stays, Moved
<1>3. [there[t] EXCEPT !.keys = found] = Moved(t, point, frames[t].token, found)
  BY <1>2 DEF Stays, Moved
<1>4. frames' = [there EXCEPT ![t] = [there[t] EXCEPT !.keys = found]]
  BY DEF EntriesTyped
<1>. QED
  BY <1>3, <1>4 DEF EntriesTyped, StepOf

LEMMA StepOfFrames ==
  ASSUME NEW t \in Threads, NEW f, EntriesTyped, StepOf(t, f)
  PROVE  /\ frames'[t] = f
         /\ \A s \in Threads \ {t} : frames'[s] = frames[s]
         /\ f \in Frame => frames' \in [Threads -> Frame]
BY DEF StepOf, EntriesTyped

LEMMA MovedIsFrame ==
  ASSUME NEW t \in Threads, EntriesTyped, NEW point \in Points, NEW token \in Seq(Issuable),
         NEW found \in SUBSET Nat
  PROVE  Moved(t, point, token, found) \in Frame
BY DEF EntriesTyped, Frame, Moved

LEMMA StaysFits ==
  ASSUME NEW t \in Threads, SignInTyped, NEW point \in Points, frames[t].at # "idle",
         point \in {"get_flow", "delete_flow", "exchange", "get_jti", "put_jti"} => frames[t].flow # 0,
         point \in Prompt => frames[t].token # << >>
  PROVE  Stays(t, point) \in Frame /\ InOrder(Stays(t, point))
<1>1. frames[t] \in Frame /\ InOrder(frames[t])
  BY DEF SignInTyped, EntriesTyped, FramesInOrder
<1>2. frames[t].token \in Seq(Issuable) /\ frames[t].keys \in SUBSET Nat
  BY <1>1 DEF Frame
<1>3. Stays(t, point) \in Frame
  BY <1>2, MovedIsFrame DEF Stays, SignInTyped
<1>4. InOrder(Stays(t, point))
  BY <1>1 DEF InOrder, Stays, Moved
<1>. QED
  BY <1>3, <1>4

-----------------------------------------------------------------------------
(* Part one, step by step                                                  *)

\* A request that goes on and leaves the stores alone.
LEMMA RequestKeepsTypes ==
  ASSUME NEW t \in Threads, SignInTyped, NEW f \in Frame, InOrder(f), StepOf(t, f),
         UNCHANGED <<now, flows, used, external, cache, signed_in>>,
         raced' \in [flow : SUBSET Nat, jti : SUBSET Nat]
  PROVE  SignInTyped'
<1>1. EntriesTyped'
  BY StepOfFrames DEF SignInTyped, EntriesTyped, external, Published
<1>2. NothingFromTheFuture' /\ TokensPlausible'
  BY DEF SignInTyped, NothingFromTheFuture, TokensPlausible, Plausible, external
<1>3. FramesInOrder'
  <2>. SUFFICES ASSUME NEW s \in Threads PROVE InOrder(frames[s])'
    BY DEF FramesInOrder
  <2>1. InOrder(frames'[s])
    BY StepOfFrames DEF SignInTyped, FramesInOrder
  <2>. QED
    BY <2>1 DEF InOrder, Plausible, external
<1>. QED
  BY <1>1, <1>2, <1>3 DEF SignInTyped

LEMMA FinishIsStep == ASSUME NEW t \in Threads, Finish(t) PROVE StepOf(t, Idle)
BY DEF Finish, StepOf

LEMMA FinishKeepsTypes ==
  ASSUME NEW t \in Threads, SignInTyped, Finish(t),
         UNCHANGED <<now, flows, used, external, cache, signed_in>>, UNCHANGED raced
  PROVE  SignInTyped'
BY FinishIsStep, IdleFits, RequestKeepsTypes DEF SignInTyped, EntriesTyped

LEMMA IssuedIsPlausible ==
  ASSUME SignInTyped
  PROVE  Issued \in Issuable /\ Plausible(Issued)
<1>1. now \in Int /\ ahead \in Int /\ ahead <= Leeway /\ Leeway \in Nat /\ TokenLife \in Nat
  BY SignInAssumption DEF SignInTyped, EntriesTyped
<1>2. signing \in DOMAIN keys /\ signing \in Nat
  BY DEF SignInTyped, EntriesTyped, Published
<1>. QED
  BY <1>1, <1>2 DEF Issued, Issuable, Plausible

LEMMA Shapes ==
  ASSUME EntriesTyped
  PROVE  /\ Len(flows) \in Nat /\ Len(keys) \in Nat /\ now \in Nat
         /\ DOMAIN flows = 1..Len(flows) /\ DOMAIN used = 1..Len(flows)
         /\ DOMAIN signed_in = 1..Len(flows) /\ DOMAIN tokens = 1..Len(flows)
         /\ DOMAIN keys = 1..Len(keys)
<1>1. flows \in Seq(Nat) /\ used \in Seq(Int) /\ signed_in \in Seq(Nat)
      /\ tokens \in Seq(Seq(Issuable)) /\ keys \in Seq(KeyRow)
      /\ Len(used) = Len(flows) /\ Len(signed_in) = Len(flows) /\ Len(tokens) = Len(flows)
      /\ now \in 0..MaxTime /\ MaxTime \in Nat
  BY SignInAssumption DEF EntriesTyped
<1>. QED
  BY <1>1, LenProperties

LEMMA StartFlowTyped ==
  ASSUME SignInTyped, StartFlow PROVE SignInTyped'
<1>0. EntriesTyped
  BY DEF SignInTyped
<1>1. now + FlowTtl \in Nat
  BY <1>0, Shapes, SignInAssumption
<1>2. flows \in Seq(Nat) /\ flows' = Append(flows, now + FlowTtl)
  BY <1>0 DEF EntriesTyped, StartFlow
<1>3. used \in Seq(Int) /\ used' = Append(used, 0) /\ Len(used) = Len(flows)
  BY <1>0 DEF EntriesTyped, StartFlow
<1>4. signed_in \in Seq(Nat) /\ signed_in' = Append(signed_in, 0) /\ Len(signed_in) = Len(flows)
  BY <1>0 DEF EntriesTyped, StartFlow
<1>5. tokens \in Seq(Seq(Issuable)) /\ tokens' = Append(tokens, << >>) /\ Len(tokens) = Len(flows)
  BY <1>0 DEF EntriesTyped, StartFlow
<1>6. /\ flows' \in Seq(Nat) /\ Len(flows') = Len(flows) + 1 /\ DOMAIN flows' = 1..(Len(flows) + 1)
      /\ flows'[Len(flows) + 1] = now + FlowTtl
      /\ \A n \in 1..Len(flows) : flows'[n] = flows[n]
  BY <1>1, <1>2, Appended
<1>7. used' \in Seq(Int) /\ Len(used') = Len(flows) + 1
  BY <1>3, Appended
<1>8. signed_in' \in Seq(Nat) /\ Len(signed_in') = Len(flows) + 1
  BY <1>4, Appended
<1>9. << >> \in Seq(Issuable)
  OBVIOUS
<1>10. /\ tokens' \in Seq(Seq(Issuable)) /\ Len(tokens') = Len(flows) + 1
       /\ tokens'[Len(flows) + 1] = << >>
       /\ \A n \in 1..Len(flows) : tokens'[n] = tokens[n]
  BY <1>5, <1>9, Appended
<1>11. UNCHANGED <<now, keys, signing, ahead, edge, cache, frames, raced>>
  BY DEF StartFlow
<1>12. EntriesTyped'
  <2>1. Len(used') = Len(flows') /\ Len(signed_in') = Len(flows') /\ Len(tokens') = Len(flows')
    BY <1>6, <1>7, <1>8, <1>10
  <2>. QED
    BY <1>0, <1>6, <1>7, <1>8, <1>10, <1>11, <2>1 DEF EntriesTyped, Published
<1>13. NothingFromTheFuture'
  <2>1. \A n \in DOMAIN flows' : flows'[n] <= now + FlowTtl
    BY <1>0, <1>1, <1>6, Shapes DEF SignInTyped, NothingFromTheFuture
  <2>. QED
    BY <1>11, <2>1 DEF SignInTyped, NothingFromTheFuture
<1>14. TokensPlausible'
  <2>. SUFFICES ASSUME NEW n \in 1..(Len(flows) + 1), tokens'[n] # << >>
                PROVE  Plausible(tokens'[n][1])
    BY <1>6, <1>11 DEF TokensPlausible, Plausible
  <2>1. n \in DOMAIN flows /\ tokens'[n] = tokens[n]
    BY <1>0, <1>10, Shapes
  <2>. QED
    BY <2>1 DEF SignInTyped, TokensPlausible
<1>15. FramesInOrder'
  <2>. SUFFICES ASSUME NEW s \in Threads PROVE InOrder(frames[s])'
    BY DEF FramesInOrder
  <2>1. InOrder(frames[s])
    BY DEF SignInTyped, FramesInOrder
  <2>2. Len(flows) \in Nat /\ Len(flows') = Len(flows) + 1
    BY <1>0, <1>6, Shapes
  <2>. QED
    BY <1>11, <2>1, <2>2 DEF InOrder, Plausible
<1>. QED
  BY <1>12, <1>13, <1>14, <1>15 DEF SignInTyped

LEMMA BeginCallbackTyped ==
  ASSUME SignInTyped, NEW t \in Threads, NEW i \in Isolates, NEW n \in DOMAIN flows,
         BeginCallback(t, i, n)
  PROVE  SignInTyped'
<1>. DEFINE f == Request("get_flow", i, n, << >>)
<1>2. n \in 1..Len(flows)
  BY Shapes DEF SignInTyped
<1>3. f \in Frame /\ InOrder(f)
  BY <1>2 DEF Request, Frame, Points, Prompt, InOrder
<1>4. StepOf(t, f)
  BY DEF BeginCallback, Begin, StepOf
<1>. QED
  BY <1>3, <1>4, RequestKeepsTypes DEF BeginCallback, SignInTyped, EntriesTyped

LEMMA BeginEventTyped ==
  ASSUME SignInTyped, NEW t \in Threads, NEW i \in Isolates, BeginEvent(t, i)
  PROVE  SignInTyped'
<1>. DEFINE f == Request("verify", i, 0, <<Issued>>)
<1>2. <<Issued>> \in Seq(Issuable) /\ <<Issued>> # << >> /\ <<Issued>>[1] = Issued
  BY IssuedIsPlausible
<1>3. f \in Frame
  BY <1>2 DEF Request, Frame, Points, Prompt
<1>4. InOrder(f)
  BY <1>2, IssuedIsPlausible, Shapes DEF InOrder, SignInTyped, Request
<1>5. StepOf(t, f)
  BY DEF BeginEvent, Begin, StepOf
<1>. QED
  BY <1>3, <1>4, <1>5, RequestKeepsTypes DEF BeginEvent, SignInTyped, EntriesTyped

LEMMA DieTyped ==
  ASSUME SignInTyped, NEW t \in Threads, Die(t) PROVE SignInTyped'
BY FinishKeepsTypes DEF Die

LEMMA RacedTyped ==
  ASSUME SignInTyped, NEW n \in Nat, NEW S
  PROVE  /\ [raced EXCEPT !.flow = @ \cup ({n} \cap S)] \in [flow : SUBSET Nat, jti : SUBSET Nat]
         /\ [raced EXCEPT !.jti = @ \cup ({n} \cap S)] \in [flow : SUBSET Nat, jti : SUBSET Nat]
BY DEF SignInTyped, EntriesTyped

LEMMA GetFlowTyped ==
  ASSUME SignInTyped, NEW t \in Threads, GetFlow(t) PROVE SignInTyped'
<1>1. CASE Finish(t) /\ UNCHANGED raced
  BY <1>1, FinishKeepsTypes DEF GetFlow
<1>2. CASE GoTo(t, "delete_flow")
           /\ raced' = [raced EXCEPT !.flow = @ \cup ({frames[t].flow} \cap OthersAt(t, "delete_flow"))]
  <2>1. frames[t].flow # 0 /\ frames[t].flow \in Nat
    BY DEF SignInTyped, EntriesTyped, Frame, FramesInOrder, InOrder, GetFlow, At
  <2>2. Stays(t, "delete_flow") \in Frame /\ InOrder(Stays(t, "delete_flow"))
    BY <2>1, StaysFits DEF GetFlow, At, Points, Prompt
  <2>. QED
    BY <1>2, <2>1, <2>2, GoToMoves, RacedTyped, RequestKeepsTypes DEF GetFlow, SignInTyped
<1>. QED
  BY <1>1, <1>2 DEF GetFlow

LEMMA DeleteFlowTyped ==
  ASSUME SignInTyped, NEW t \in Threads, DeleteFlow(t) PROVE SignInTyped'
<1>. DEFINE n == frames[t].flow
<1>1. n \in Nat /\ n # 0
  BY DEF SignInTyped, EntriesTyped, Frame, FramesInOrder, InOrder, DeleteFlow, At
<1>2. Stays(t, "exchange") \in Frame /\ InOrder(Stays(t, "exchange")) /\ StepOf(t, Stays(t, "exchange"))
  BY <1>1, StaysFits, GoToMoves DEF DeleteFlow, At, Points, Prompt, SignInTyped
<1>3. n \in DOMAIN flows /\ EntriesTyped
  BY <1>1, Shapes DEF SignInTyped, FramesInOrder, InOrder
<1>4. /\ flows' \in Seq(Nat) /\ Len(flows') = Len(flows) /\ DOMAIN flows' = 1..Len(flows)
      /\ \A m \in 1..Len(flows) : flows'[m] = IF m = n THEN 0 ELSE flows[m]
  <2>1. flows \in Seq(Nat) /\ flows' = [flows EXCEPT ![n] = 0]
    BY <1>3 DEF DeleteFlow, EntriesTyped
  <2>. QED
    BY <1>3, <2>1, Replaced
<1>5. EntriesTyped'
  BY <1>2, <1>3, <1>4, StepOfFrames DEF DeleteFlow, EntriesTyped, external, Published
<1>6. NothingFromTheFuture' /\ TokensPlausible'
  BY <1>3, <1>4, Shapes, SignInAssumption
     DEF DeleteFlow, SignInTyped, NothingFromTheFuture, TokensPlausible, Plausible, external
<1>7. FramesInOrder'
  <2>. SUFFICES ASSUME NEW s \in Threads PROVE InOrder(frames[s])'
    BY DEF FramesInOrder
  <2>1. InOrder(frames'[s]) /\ UNCHANGED <<keys, now>>
    BY <1>2, StepOfFrames DEF SignInTyped, FramesInOrder, DeleteFlow, external
  <2>. QED
    BY <1>4, <2>1 DEF InOrder, Plausible
<1>. QED
  BY <1>5, <1>6, <1>7 DEF SignInTyped

LEMMA ExchangeTyped ==
  ASSUME SignInTyped, NEW t \in Threads, Exchange(t) PROVE SignInTyped'
<1>. DEFINE n == frames[t].flow
<1>0. EntriesTyped
  BY DEF SignInTyped
<1>1. frames[t] \in Frame /\ InOrder(frames[t]) /\ frames[t].at = "exchange"
  BY <1>0 DEF SignInTyped, EntriesTyped, FramesInOrder, Exchange, At
<1>2. n \in Nat /\ n # 0 /\ n \in DOMAIN flows /\ n \in DOMAIN tokens
  BY <1>0, <1>1, Shapes DEF InOrder
<1>3. tokens \in Seq(Seq(Issuable)) /\ tokens[n] \in Seq(Issuable)
  <2>1. tokens \in Seq(Seq(Issuable))
    BY <1>0 DEF EntriesTyped
  <2>. QED
    BY <1>2, <2>1
<1>4. ASSUME NEW token \in Seq(Issuable), token # << >>, Plausible(token[1])
      PROVE  /\ Moved(t, "verify", token, frames[t].keys) \in Frame
             /\ InOrder(Moved(t, "verify", token, frames[t].keys))
  <2>1. frames[t].keys \in SUBSET Nat
    BY <1>1 DEF Frame
  <2>2. Moved(t, "verify", token, frames[t].keys) \in Frame
    BY <1>0, <1>4, <2>1, MovedIsFrame DEF Points, Prompt
  <2>3. InOrder(Moved(t, "verify", token, frames[t].keys))
    BY <1>1, <1>2, <1>4 DEF InOrder, Moved
  <2>. QED
    BY <2>2, <2>3
<1>5. CASE Finish(t) /\ UNCHANGED tokens
  BY <1>5, FinishKeepsTypes DEF Exchange, external
<1>6. CASE /\ tokens[n] # << >> /\ UNCHANGED tokens
           /\ frames' = [frames EXCEPT ![t].at = "verify", ![t].token = tokens[n]]
  <2>1. StepOf(t, Moved(t, "verify", tokens[n], frames[t].keys))
    BY <1>0, <1>6, TokenMoves
  <2>2. Plausible(tokens[n][1])
    BY <1>2, <1>6 DEF SignInTyped, TokensPlausible
  <2>. QED
    BY <1>0, <1>3, <1>4, <1>6, <2>1, <2>2, RequestKeepsTypes DEF Exchange, external, EntriesTyped
<1>7. CASE /\ tokens[n] = << >> /\ tokens' = [tokens EXCEPT ![n] = <<Issued>>]
           /\ frames' = [frames EXCEPT ![t].at = "verify", ![t].token = tokens'[n]]
  <2>1. Issued \in Issuable /\ Plausible(Issued)
    BY IssuedIsPlausible
  <2>2. <<Issued>> \in Seq(Issuable) /\ <<Issued>> # << >> /\ <<Issued>>[1] = Issued
    BY <2>1
  <2>3. /\ tokens' \in Seq(Seq(Issuable)) /\ Len(tokens') = Len(tokens)
        /\ \A m \in DOMAIN tokens : tokens'[m] = IF m = n THEN <<Issued>> ELSE tokens[m]
    BY <1>2, <1>3, <1>7, <2>2, Replaced
  <2>4. frames' = [frames EXCEPT ![t].at = "verify", ![t].token = <<Issued>>]
    BY <1>2, <1>7, <2>3
  <2>5. StepOf(t, Moved(t, "verify", <<Issued>>, frames[t].keys))
    BY <1>0, <2>4, TokenMoves
  <2>6. /\ Moved(t, "verify", <<Issued>>, frames[t].keys) \in Frame
        /\ InOrder(Moved(t, "verify", <<Issued>>, frames[t].keys))
    BY <1>4, <2>1, <2>2
  <2>7. UNCHANGED <<now, flows, used, keys, signing, ahead, edge, cache, signed_in, raced>>
    BY DEF Exchange
  <2>8. EntriesTyped'
    BY <1>0, <2>3, <2>5, <2>6, <2>7, StepOfFrames DEF EntriesTyped, Published
  <2>9. NothingFromTheFuture'
    BY <2>7 DEF SignInTyped, NothingFromTheFuture
  <2>10. TokensPlausible'
    BY <1>0, <2>1, <2>2, <2>3, <2>7, Shapes DEF SignInTyped, TokensPlausible, Plausible
  <2>11. FramesInOrder'
    <3>. SUFFICES ASSUME NEW s \in Threads PROVE InOrder(frames[s])'
      BY DEF FramesInOrder
    <3>1. InOrder(frames'[s])
      BY <1>0, <2>5, <2>6, StepOfFrames DEF SignInTyped, FramesInOrder
    <3>. QED
      BY <2>7, <3>1 DEF InOrder, Plausible
  <2>. QED
    BY <2>8, <2>9, <2>10, <2>11 DEF SignInTyped
<1>. QED
  BY <1>5, <1>6, <1>7 DEF Exchange

\* A request that goes on from one Prompt point to another.
LEMMA PromptFits ==
  ASSUME SignInTyped, NEW t \in Threads, frames[t].at \in Prompt, NEW point \in Prompt,
         point \in {"get_jti", "put_jti"} => frames[t].flow # 0
  PROVE  Stays(t, point) \in Frame /\ InOrder(Stays(t, point))
<1>1. frames[t].token # << >> /\ point \in Points /\ frames[t].at # "idle"
  BY DEF SignInTyped, FramesInOrder, InOrder, Points, Prompt
<1>. QED
  BY <1>1, StaysFits DEF Prompt

LEMMA JudgeStep ==
  ASSUME SignInTyped, NEW t \in Threads, frames[t].at \in Prompt, NEW found, Judge(t, found)
  PROVE  \E f \in Frame : StepOf(t, f) /\ InOrder(f) /\ f.at \in {"idle", "get_jti"}
<1>1. CASE Finish(t)
  BY <1>1, FinishIsStep, IdleFits DEF Idle, Request
<1>2. CASE frames[t].flow # 0 /\ GoTo(t, "get_jti")
  <2>1. Stays(t, "get_jti") \in Frame /\ InOrder(Stays(t, "get_jti")) /\ StepOf(t, Stays(t, "get_jti"))
    BY <1>2, PromptFits, GoToMoves DEF Prompt, SignInTyped
  <2>. QED
    BY <2>1 DEF Stays, Moved
<1>. QED
  BY <1>1, <1>2 DEF Judge, Refused

LEMMA VerifyTyped ==
  ASSUME SignInTyped, NEW t \in Threads, Verify(t) PROVE SignInTyped'
<1>1. frames[t].at \in Prompt /\ UNCHANGED <<now, flows, used, external, cache, signed_in, raced>>
  BY DEF Verify, At, Prompt
<1>2. CASE Refused(t)
  BY <1>1, <1>2, FinishKeepsTypes DEF Refused
<1>3. CASE Judge(t, cache[frames[t].isolate][1].keys)
  BY <1>1, <1>3, JudgeStep, RequestKeepsTypes DEF SignInTyped, EntriesTyped
<1>4. CASE GoTo(t, "fetch_keys")
  <2>1. Stays(t, "fetch_keys") \in Frame /\ InOrder(Stays(t, "fetch_keys"))
    BY <1>1, PromptFits DEF Prompt
  <2>. QED
    BY <1>1, <1>4, <2>1, GoToMoves, RequestKeepsTypes DEF SignInTyped, EntriesTyped
<1>. QED
  BY <1>2, <1>3, <1>4 DEF Verify

\* What the edge answers, and what it keeps then.
LEMMA EdgeAnswers ==
  ASSUME SignInTyped, NEW t \in Threads, FetchKeys(t)
  PROVE  /\ edge' \in Seq(Answer) /\ edge' # << >>
         /\ edge'[1] \in Answer /\ edge'[1].keys \subseteq DOMAIN keys /\ edge'[1].at <= now
<1>1. CASE EdgeFresh
  BY <1>1 DEF FetchKeys, EdgeFresh, SignInTyped, EntriesTyped, NothingFromTheFuture
<1>2. CASE ~EdgeFresh
  <2>. DEFINE answer == [keys |-> Published, at |-> now]
  <2>1. Published \subseteq DOMAIN keys /\ Published \subseteq Nat /\ now \in Nat
    BY Shapes DEF Published, SignInTyped
  <2>2. answer \in Answer /\ answer.keys = Published /\ answer.at = now
    BY <2>1 DEF Answer
  <2>3. edge' = <<answer>>
    BY <1>2 DEF FetchKeys
  <2>. HIDE DEF answer
  <2>4. edge' \in Seq(Answer) /\ edge' # << >> /\ edge'[1] = answer
    BY <2>2, <2>3
  <2>. QED
    BY <2>1, <2>2, <2>4
<1>. QED
  BY <1>1, <1>2

LEMMA FetchKeysTyped ==
  ASSUME SignInTyped, NEW t \in Threads, FetchKeys(t) PROVE SignInTyped'
<1>. DEFINE f == Moved(t, "use_keys", frames[t].token, edge'[1].keys)
<1>0. EntriesTyped
  BY DEF SignInTyped
<1>1. StepOf(t, f)
  BY <1>0, KeysMove DEF FetchKeys
<1>2. frames[t] \in Frame /\ InOrder(frames[t]) /\ frames[t].at = "fetch_keys"
  BY <1>0 DEF SignInTyped, EntriesTyped, FramesInOrder, FetchKeys, At
<1>3. frames[t].token \in Seq(Issuable) /\ edge'[1].keys \in SUBSET Nat
  BY <1>2, EdgeAnswers DEF Frame, Answer
<1>4. f \in Frame
  BY <1>0, <1>3, MovedIsFrame DEF Points, Prompt
<1>5. InOrder(f)
  BY <1>2, EdgeAnswers DEF InOrder, Moved, Prompt
<1>6. UNCHANGED <<now, flows, used, tokens, keys, signing, ahead, cache, signed_in, raced>>
  BY DEF FetchKeys
<1>7. EntriesTyped'
  BY <1>0, <1>1, <1>4, <1>6, EdgeAnswers, StepOfFrames DEF EntriesTyped, Published
<1>8. NothingFromTheFuture' /\ TokensPlausible'
  BY <1>6, EdgeAnswers DEF SignInTyped, NothingFromTheFuture, TokensPlausible, Plausible
<1>9. FramesInOrder'
  <2>. SUFFICES ASSUME NEW s \in Threads PROVE InOrder(frames[s])'
    BY DEF FramesInOrder
  <2>1. InOrder(frames'[s])
    BY <1>0, <1>1, <1>4, <1>5, StepOfFrames DEF SignInTyped, FramesInOrder
  <2>. QED
    BY <1>6, <2>1 DEF InOrder, Plausible
<1>. QED
  BY <1>7, <1>8, <1>9 DEF SignInTyped

LEMMA KeysUnavailableTyped ==
  ASSUME SignInTyped, NEW t \in Threads, KeysUnavailable(t) PROVE SignInTyped'
BY FinishKeepsTypes DEF KeysUnavailable

LEMMA UseKeysTyped ==
  ASSUME SignInTyped, NEW t \in Threads, UseKeys(t) PROVE SignInTyped'
<1>. DEFINE i == frames[t].isolate
            answer == [keys |-> frames[t].keys, at |-> now]
<1>0. EntriesTyped
  BY DEF SignInTyped
<1>1. PICK f \in Frame : StepOf(t, f) /\ InOrder(f)
  BY JudgeStep DEF UseKeys, At, Prompt
<1>2. frames[t] \in Frame /\ InOrder(frames[t]) /\ frames[t].at = "use_keys"
  BY <1>0 DEF SignInTyped, EntriesTyped, FramesInOrder, UseKeys, At
<1>3. i \in Isolates /\ now \in Nat
  BY <1>0, <1>2, Shapes DEF InOrder
<1>4. answer \in Answer /\ answer.keys = frames[t].keys /\ answer.at = now
  BY <1>2, <1>3 DEF Answer, Frame
<1>5. cache' = [cache EXCEPT ![i] = <<answer>>]
  BY DEF UseKeys, Fetched
<1>6. UNCHANGED <<now, flows, used, external, signed_in, raced>>
  BY DEF UseKeys
<1>. HIDE DEF answer
<1>7. <<answer>> \in Seq(Answer) /\ <<answer>>[1] = answer
  BY <1>4
<1>8. cache' \in [Isolates -> Seq(Answer)]
      /\ \A j \in Isolates : cache'[j] = IF j = i THEN <<answer>> ELSE cache[j]
  BY <1>0, <1>5, <1>7 DEF EntriesTyped
<1>9. EntriesTyped'
  BY <1>0, <1>1, <1>6, <1>8, StepOfFrames DEF EntriesTyped, Published, external
<1>10. NothingFromTheFuture'
  <2>1. ASSUME NEW j \in Isolates, cache'[j] # << >>
        PROVE  cache'[j][1].keys \subseteq DOMAIN keys /\ cache'[j][1].at <= now
    BY <1>2, <1>3, <1>4, <1>7, <1>8, <2>1 DEF InOrder, SignInTyped, NothingFromTheFuture
  <2>. QED
    BY <1>6, <2>1 DEF SignInTyped, NothingFromTheFuture, external
<1>11. TokensPlausible'
  BY <1>6 DEF SignInTyped, TokensPlausible, Plausible, external
<1>12. FramesInOrder'
  <2>. SUFFICES ASSUME NEW s \in Threads PROVE InOrder(frames[s])'
    BY DEF FramesInOrder
  <2>1. InOrder(frames'[s])
    BY <1>0, <1>1, StepOfFrames DEF SignInTyped, FramesInOrder
  <2>. QED
    BY <1>6, <2>1 DEF InOrder, Plausible, external
<1>. QED
  BY <1>9, <1>10, <1>11, <1>12 DEF SignInTyped

LEMMA GetJtiTyped ==
  ASSUME SignInTyped, NEW t \in Threads, GetJti(t) PROVE SignInTyped'
<1>1. frames[t] \in Frame /\ InOrder(frames[t]) /\ frames[t].at = "get_jti"
  BY DEF SignInTyped, EntriesTyped, FramesInOrder, GetJti, At
<1>2. frames[t].flow # 0 /\ frames[t].flow \in Nat
  BY <1>1 DEF InOrder, Frame
<1>3. CASE Finish(t) /\ UNCHANGED raced
  BY <1>3, FinishKeepsTypes DEF GetJti
<1>4. CASE GoTo(t, "put_jti")
           /\ raced' = [raced EXCEPT !.jti = @ \cup ({frames[t].flow} \cap OthersAt(t, "put_jti"))]
  <2>1. Stays(t, "put_jti") \in Frame /\ InOrder(Stays(t, "put_jti"))
    BY <1>1, <1>2, PromptFits DEF Prompt
  <2>. QED
    BY <1>2, <1>4, <2>1, GoToMoves, RacedTyped, RequestKeepsTypes DEF GetJti, SignInTyped
<1>. QED
  BY <1>3, <1>4 DEF GetJti

LEMMA PutJtiTyped ==
  ASSUME SignInTyped, NEW t \in Threads, PutJti(t) PROVE SignInTyped'
<1>. DEFINE n == frames[t].flow
<1>0. EntriesTyped
  BY DEF SignInTyped
<1>1. frames[t] \in Frame /\ InOrder(frames[t]) /\ frames[t].at = "put_jti"
  BY <1>0 DEF SignInTyped, EntriesTyped, FramesInOrder, PutJti, At
<1>2. n \in DOMAIN used /\ n \in DOMAIN signed_in
  BY <1>0, <1>1, Shapes DEF InOrder
<1>3. frames[t].token \in Seq(Issuable) /\ frames[t].token # << >>
  BY <1>1 DEF Frame, InOrder, Prompt
<1>4. frames[t].token[1] \in Issuable
  BY <1>3
<1>5. now + JtiTtl(frames[t].token[1]) \in Int
  <2>1. frames[t].token[1].exp \in Int /\ now \in Int /\ Leeway \in Int /\ MinTtl \in Int
    BY <1>0, <1>4, Shapes, SignInAssumption DEF Issuable
  <2>. QED
    BY <2>1 DEF JtiTtl
<1>6. used \in Seq(Int) /\ used' = [used EXCEPT ![n] = now + JtiTtl(frames[t].token[1])]
  BY <1>0 DEF PutJti, EntriesTyped
<1>7. used' \in Seq(Int) /\ Len(used') = Len(used)
  BY <1>2, <1>5, <1>6, Replaced
<1>8. signed_in \in Seq(Nat) /\ signed_in' = [signed_in EXCEPT ![n] = signed_in[n] + 1]
  BY <1>0 DEF PutJti, EntriesTyped
<1>9. signed_in[n] + 1 \in Nat
  BY <1>2, <1>8
<1>10. signed_in' \in Seq(Nat) /\ Len(signed_in') = Len(signed_in)
  BY <1>2, <1>8, <1>9, Replaced
<1>11. UNCHANGED <<now, flows, external, cache, raced>> /\ StepOf(t, Idle)
  BY FinishIsStep DEF PutJti
<1>12. EntriesTyped'
  BY <1>0, <1>7, <1>10, <1>11, IdleFits, StepOfFrames DEF EntriesTyped, Published, external
<1>13. NothingFromTheFuture' /\ TokensPlausible'
  BY <1>11 DEF SignInTyped, NothingFromTheFuture, TokensPlausible, Plausible, external
<1>14. FramesInOrder'
  <2>. SUFFICES ASSUME NEW s \in Threads PROVE InOrder(frames[s])'
    BY DEF FramesInOrder
  <2>1. InOrder(frames'[s])
    BY <1>0, <1>11, IdleFits, StepOfFrames DEF SignInTyped, FramesInOrder
  <2>. QED
    BY <1>11, <2>1 DEF InOrder, Plausible, external
<1>. QED
  BY <1>12, <1>13, <1>14 DEF SignInTyped

LEMMA PublishTyped ==
  ASSUME SignInTyped, Publish PROVE SignInTyped'
<1>. DEFINE row == [born |-> now, withdrawn |-> Never]
<1>0. EntriesTyped
  BY DEF SignInTyped
<1>1. row \in KeyRow /\ row.born = now /\ row.withdrawn = Never
  BY <1>0, Shapes DEF KeyRow
<1>2. keys \in Seq(KeyRow) /\ keys' = Append(keys, row)
  BY <1>0 DEF Publish, EntriesTyped
<1>. HIDE DEF row
<1>3. /\ keys' \in Seq(KeyRow) /\ Len(keys) \in Nat
      /\ DOMAIN keys = 1..Len(keys) /\ DOMAIN keys' = 1..(Len(keys) + 1)
      /\ keys'[Len(keys) + 1] = row /\ \A k \in DOMAIN keys : keys'[k] = keys[k]
  BY <1>1, <1>2, Appended
<1>4. UNCHANGED <<now, flows, used, tokens, signing, ahead, edge, cache, frames, signed_in, raced>>
  BY DEF Publish
<1>5. signing \in Published'
  BY <1>0, <1>3, <1>4 DEF EntriesTyped, Published
<1>6. EntriesTyped'
  BY <1>0, <1>3, <1>4, <1>5 DEF EntriesTyped
<1>7. DOMAIN keys \subseteq DOMAIN keys'
  BY <1>3
<1>8. NothingFromTheFuture'
  <2>1. \A k \in DOMAIN keys' :
          keys'[k].born <= now /\ (keys'[k].withdrawn # Never => keys'[k].withdrawn <= now)
    BY <1>0, <1>1, <1>3, Shapes DEF SignInTyped, NothingFromTheFuture
  <2>. QED
    BY <1>4, <1>7, <2>1 DEF SignInTyped, NothingFromTheFuture
<1>9. TokensPlausible'
  BY <1>4, <1>7 DEF SignInTyped, TokensPlausible, Plausible
<1>10. FramesInOrder'
  BY <1>4, <1>7 DEF SignInTyped, FramesInOrder, InOrder, Plausible
<1>. QED
  BY <1>6, <1>8, <1>9, <1>10 DEF SignInTyped

LEMMA SwitchToTyped ==
  ASSUME SignInTyped, NEW k \in DOMAIN keys, SwitchTo(k) PROVE SignInTyped'
BY DEF SwitchTo, SignInTyped, EntriesTyped, Published, NothingFromTheFuture, TokensPlausible,
       Plausible, FramesInOrder, InOrder

LEMMA WithdrawTyped ==
  ASSUME SignInTyped, NEW k \in DOMAIN keys, Withdraw(k) PROVE SignInTyped'
<1>. DEFINE row == [keys[k] EXCEPT !.withdrawn = now]
<1>0. EntriesTyped /\ now \in Nat
  BY Shapes DEF SignInTyped
<1>1. keys \in Seq(KeyRow) /\ keys[k] \in KeyRow
  <2>1. keys \in Seq(KeyRow)
    BY <1>0 DEF EntriesTyped
  <2>. QED
    BY <2>1
<1>2. row \in KeyRow /\ row.born = keys[k].born /\ row.withdrawn = now
  BY <1>0, <1>1 DEF KeyRow
<1>3. keys' = [keys EXCEPT ![k] = row]
  BY DEF Withdraw
<1>. HIDE DEF row
<1>4. /\ keys' \in Seq(KeyRow) /\ DOMAIN keys' = DOMAIN keys
      /\ \A j \in DOMAIN keys : keys'[j] = IF j = k THEN row ELSE keys[j]
  BY <1>1, <1>2, <1>3, Replaced
<1>5. UNCHANGED <<now, flows, used, tokens, signing, ahead, edge, cache, frames, signed_in, raced>>
  BY DEF Withdraw
<1>6. signing \in Published'
  <2>1. k # signing
    BY <1>0, <1>1, Shapes DEF Withdraw, EntriesTyped, Published
  <2>. QED
    BY <1>0, <1>4, <1>5, <2>1 DEF EntriesTyped, Published
<1>7. EntriesTyped'
  BY <1>0, <1>4, <1>5, <1>6 DEF EntriesTyped
<1>8. NothingFromTheFuture'
  <2>1. \A j \in DOMAIN keys' :
          keys'[j].born <= now /\ (keys'[j].withdrawn # Never => keys'[j].withdrawn <= now)
    BY <1>0, <1>2, <1>4 DEF SignInTyped, NothingFromTheFuture
  <2>. QED
    BY <1>4, <1>5, <2>1 DEF SignInTyped, NothingFromTheFuture
<1>9. TokensPlausible'
  BY <1>4, <1>5 DEF SignInTyped, TokensPlausible, Plausible
<1>10. FramesInOrder'
  BY <1>4, <1>5 DEF SignInTyped, FramesInOrder, InOrder, Plausible
<1>. QED
  BY <1>7, <1>8, <1>9, <1>10 DEF SignInTyped

\* Typed values of what carries a time.
LEMMA Times ==
  ASSUME EntriesTyped
  PROVE  /\ \A n \in DOMAIN flows : flows[n] \in Nat
         /\ \A n \in DOMAIN flows : tokens[n] # << >> => tokens[n][1] \in Issuable
         /\ \A n \in DOMAIN flows : used[n] \in Int /\ signed_in[n] \in Nat
         /\ \A k \in DOMAIN keys : keys[k].born \in Nat /\ keys[k].withdrawn \in Nat \cup {Never}
         /\ edge # << >> => edge[1] \in Answer
         /\ \A i \in Isolates : cache[i] # << >> => cache[i][1] \in Answer
         /\ \A t \in Threads : frames[t].token # << >> => frames[t].token[1] \in Issuable
<1>1. flows \in Seq(Nat) /\ used \in Seq(Int) /\ signed_in \in Seq(Nat)
      /\ Len(used) = Len(flows) /\ Len(signed_in) = Len(flows)
  BY DEF EntriesTyped
<1>2. \A n \in DOMAIN flows : flows[n] \in Nat /\ used[n] \in Int /\ signed_in[n] \in Nat
  BY <1>1, LenProperties
<1>3. ASSUME NEW n \in DOMAIN flows, tokens[n] # << >> PROVE tokens[n][1] \in Issuable
  <2>1. tokens \in Seq(Seq(Issuable)) /\ n \in DOMAIN tokens
    BY Shapes DEF EntriesTyped
  <2>2. tokens[n] \in Seq(Issuable)
    BY <2>1
  <2>. QED
    BY <1>3, <2>2
<1>4. ASSUME NEW k \in DOMAIN keys
      PROVE  keys[k].born \in Nat /\ keys[k].withdrawn \in Nat \cup {Never}
  <2>1. keys \in Seq(KeyRow)
    BY DEF EntriesTyped
  <2>2. keys[k] \in KeyRow
    BY <2>1
  <2>. QED
    BY <2>2 DEF KeyRow
<1>5. ASSUME edge # << >> PROVE edge[1] \in Answer
  BY <1>5 DEF EntriesTyped
<1>6. ASSUME NEW i \in Isolates, cache[i] # << >> PROVE cache[i][1] \in Answer
  <2>1. cache[i] \in Seq(Answer)
    BY DEF EntriesTyped
  <2>. QED
    BY <1>6, <2>1
<1>7. ASSUME NEW t \in Threads, frames[t].token # << >> PROVE frames[t].token[1] \in Issuable
  <2>1. frames[t].token \in Seq(Issuable)
    BY DEF EntriesTyped, Frame
  <2>. QED
    BY <1>7, <2>1
<1>. QED
  BY <1>2, <1>3, <1>4, <1>5, <1>6, <1>7

LEMMA PassTyped ==
  ASSUME SignInTyped, Pass PROVE SignInTyped'
<1>0. EntriesTyped /\ now \in Nat /\ Leeway \in Nat /\ FlowTtl \in Nat
  BY Shapes, SignInAssumption DEF SignInTyped
<1>1. now' = now + 1 /\ UNCHANGED <<flows, used, external, cache, frames, signed_in, raced>>
  BY DEF Pass
<1>2. EntriesTyped'
  BY <1>0, <1>1, SignInAssumption DEF EntriesTyped, external, Published, Pass
<1>3. NothingFromTheFuture'
  <2>1. \A n \in DOMAIN flows : flows[n] <= now + 1 + FlowTtl
    BY <1>0, Times DEF SignInTyped, NothingFromTheFuture
  <2>2. \A k \in DOMAIN keys :
          keys[k].born <= now + 1 /\ (keys[k].withdrawn # Never => keys[k].withdrawn <= now + 1)
    BY <1>0, Times DEF SignInTyped, NothingFromTheFuture
  <2>3. edge # << >> => edge[1].keys \subseteq DOMAIN keys /\ edge[1].at <= now + 1
    BY <1>0, Times DEF SignInTyped, NothingFromTheFuture, Answer
  <2>4. \A i \in Isolates : cache[i] # << >> =>
          cache[i][1].keys \subseteq DOMAIN keys /\ cache[i][1].at <= now + 1
    BY <1>0, Times DEF SignInTyped, NothingFromTheFuture, Answer
  <2>. QED
    BY <1>1, <2>1, <2>2, <2>3, <2>4 DEF NothingFromTheFuture, external
<1>4. ASSUME NEW token \in Issuable, Plausible(token) PROVE Plausible(token)'
  BY <1>0, <1>1, <1>4 DEF Plausible, external, Issuable
<1>5. TokensPlausible'
  BY <1>0, <1>1, <1>4, Times DEF SignInTyped, TokensPlausible, external
<1>6. FramesInOrder'
  BY <1>0, <1>1, <1>4, Times DEF SignInTyped, FramesInOrder, InOrder, external
<1>. QED
  BY <1>2, <1>3, <1>5, <1>6 DEF SignInTyped

LEMMA SignInStartsTyped == SignInInit => SignInTyped
<1>. SUFFICES ASSUME SignInInit PROVE SignInTyped
  OBVIOUS
<1>. DEFINE row == [born |-> 0, withdrawn |-> Never]
<1>1. row \in KeyRow /\ row.born = 0 /\ row.withdrawn = Never /\ keys = <<row>>
  BY DEF KeyRow, SignInInit
<1>. HIDE DEF row
<1>2. keys \in Seq(KeyRow) /\ DOMAIN keys = {1} /\ keys[1] = row
  BY <1>1
<1>3. /\ flows \in Seq(Nat) /\ used \in Seq(Int) /\ signed_in \in Seq(Nat)
      /\ tokens \in Seq(Seq(Issuable)) /\ Len(flows) = 0
      /\ Len(used) = Len(flows) /\ Len(signed_in) = Len(flows) /\ Len(tokens) = Len(flows)
      /\ DOMAIN flows = {}
  BY DEF SignInInit
<1>4. signing \in Published
  BY <1>1, <1>2 DEF SignInInit, Published
<1>5. frames \in [Threads -> Frame] /\ \A t \in Threads : frames[t] = Idle
  BY IdleFits DEF SignInInit
<1>6. EntriesTyped
  BY <1>2, <1>3, <1>4, <1>5, SignInAssumption DEF EntriesTyped, SignInInit
<1>7. NothingFromTheFuture /\ TokensPlausible
  BY <1>1, <1>2, <1>3, SignInAssumption DEF NothingFromTheFuture, TokensPlausible, SignInInit
<1>8. InOrder(Idle)
  BY <1>3 DEF InOrder, Idle, Request, Prompt
<1>. QED
  BY <1>5, <1>6, <1>7, <1>8 DEF SignInTyped, FramesInOrder

LEMMA SignInStaysTyped == SignInTyped /\ [SignInNext]_signInVars => SignInTyped'
<1>. SUFFICES ASSUME SignInTyped, [SignInNext]_signInVars PROVE SignInTyped'
  OBVIOUS
<1>1. CASE StartFlow
  BY <1>1, StartFlowTyped
<1>2. CASE \E t \in Threads, i \in Isolates : Arrival(t, i)
  BY <1>2, BeginCallbackTyped, BeginEventTyped DEF Arrival
<1>3. CASE \E t \in Threads : HandlerStep(t) \/ Die(t)
  BY <1>3, GetFlowTyped, DeleteFlowTyped, ExchangeTyped, VerifyTyped, FetchKeysTyped,
     KeysUnavailableTyped, UseKeysTyped, GetJtiTyped, PutJtiTyped, DieTyped DEF HandlerStep
<1>4. CASE Publish
  BY <1>4, PublishTyped
<1>5. CASE \E k \in DOMAIN keys : SwitchTo(k) \/ Withdraw(k)
  BY <1>5, SwitchToTyped, WithdrawTyped
<1>6. CASE Pass
  BY <1>6, PassTyped
<1>7. CASE UNCHANGED signInVars
  BY <1>7 DEF signInVars, SignInTyped, EntriesTyped, Published, NothingFromTheFuture,
     TokensPlausible, Plausible, FramesInOrder, InOrder, external
<1>. QED
  BY <1>1, <1>2, <1>3, <1>4, <1>5, <1>6, <1>7 DEF SignInNext

-----------------------------------------------------------------------------
(* Part two, step by step                                                  *)

guarded == <<now, flows, used, tokens, signed_in, raced>>

\* A request that ends, or that is no sign-in past its entry.
LEMMA OutKeepsGuards ==
  ASSUME SignInTyped, SignInGuarded, NEW t \in Threads, NEW f \in Frame, StepOf(t, f),
         f.at \in {"idle", "get_flow"} \/ (f.flow = 0 /\ f.at = "verify"),
         UNCHANGED guarded
  PROVE  SignInGuarded'
<1>0. EntriesTyped /\ frames'[t] = f /\ \A s \in Threads \ {t} : frames'[s] = frames[s]
  BY StepOfFrames DEF SignInTyped
<1>1. UNCHANGED <<now, flows, used, tokens, signed_in, raced>>
  BY DEF guarded
<1>2. \A n \in DOMAIN flows : n # 0
  BY <1>0, Shapes
<1>3. EntryGuards'
  BY <1>0, <1>1, <1>2 DEF SignInGuarded, EntryGuards, PastDelete, Prompt
<1>4. ASSUME NEW n \in DOMAIN flows, NEW s \in Threads
      PROVE  (InFlow(s, n)' => s # t /\ InFlow(s, n)) /\ (AtPut(s, n)' => s # t /\ AtPut(s, n))
  BY <1>0, <1>2 DEF InFlow, AtPut, At, PastDelete, Prompt
<1>5. FlowOnce' /\ JtiOnce'
  BY <1>1, <1>4 DEF SignInGuarded, FlowOnce, JtiOnce
<1>6. UsedWhileValid'
  BY <1>1 DEF SignInGuarded, UsedWhileValid
<1>7. OwnTokens' /\ StillInTime'
  BY <1>0, <1>1 DEF SignInGuarded, OwnTokens, StillInTime, Prompt
<1>. QED
  BY <1>3, <1>5, <1>6, <1>7 DEF SignInGuarded

LEMMA FinishKeepsGuards ==
  ASSUME SignInTyped, SignInGuarded, NEW t \in Threads, Finish(t), UNCHANGED guarded
  PROVE  SignInGuarded'
BY FinishIsStep, IdleFits, OutKeepsGuards DEF Idle, Request

\* A token that is judged goes on while it is in time.
LEMMA OnKeepsGuards ==
  ASSUME SignInTyped, SignInGuarded, NEW t \in Threads, frames[t].at \in Prompt,
         NEW point \in {"fetch_keys", "use_keys", "get_jti"}, NEW found,
         now < frames[t].token[1].exp + Leeway,
         StepOf(t, Moved(t, point, frames[t].token, found)), UNCHANGED guarded
  PROVE  SignInGuarded'
<1>. DEFINE f == Moved(t, point, frames[t].token, found)
<1>0. EntriesTyped /\ frames'[t] = f /\ \A s \in Threads \ {t} : frames'[s] = frames[s]
  BY StepOfFrames DEF SignInTyped
<1>1. UNCHANGED <<now, flows, used, tokens, signed_in, raced>>
  BY DEF guarded
<1>2. /\ frames'[t].flow = frames[t].flow /\ frames'[t].token = frames[t].token
      /\ frames'[t].at = point /\ point # "put_jti" /\ point \in Prompt \ {"verify"}
  BY <1>0 DEF Moved, Prompt
<1>. HIDE DEF f
<1>3. EntryGuards'
  BY <1>0, <1>1, <1>2 DEF SignInGuarded, EntryGuards, PastDelete
<1>4. ASSUME NEW n \in DOMAIN flows, NEW s \in Threads
      PROVE  (InFlow(s, n)' => InFlow(s, n)) /\ (AtPut(s, n)' => s # t /\ AtPut(s, n))
  BY <1>0, <1>2 DEF InFlow, AtPut, At, PastDelete
<1>5. FlowOnce'
  BY <1>1, <1>4 DEF SignInGuarded, FlowOnce
<1>6. JtiOnce'
  BY <1>1, <1>4 DEF SignInGuarded, JtiOnce
<1>7. UsedWhileValid'
  BY <1>1 DEF SignInGuarded, UsedWhileValid
<1>8. OwnTokens' /\ StillInTime'
  BY <1>0, <1>1, <1>2 DEF SignInGuarded, OwnTokens, StillInTime
<1>. QED
  BY <1>3, <1>5, <1>6, <1>7, <1>8 DEF SignInGuarded

LEMMA JudgeKeepsGuards ==
  ASSUME SignInTyped, SignInGuarded, NEW t \in Threads, frames[t].at \in Prompt,
         now < frames[t].token[1].exp + Leeway, NEW found, Judge(t, found), UNCHANGED guarded
  PROVE  SignInGuarded'
<1>1. CASE Finish(t)
  BY <1>1, FinishKeepsGuards
<1>2. CASE GoTo(t, "get_jti")
  BY <1>2, GoToMoves, OnKeepsGuards DEF Stays, SignInTyped
<1>. QED
  BY <1>1, <1>2 DEF Judge, Refused

LEMMA StartFlowGuarded ==
  ASSUME SignInTyped, SignInGuarded, StartFlow PROVE SignInGuarded'
<1>. DEFINE m == Len(flows) + 1
<1>0. EntriesTyped
  BY DEF SignInTyped
<1>1. UNCHANGED <<now, frames, raced>>
  BY DEF StartFlow
<1>2. /\ flows' = Append(flows, now + FlowTtl) /\ flows \in Seq(Nat) /\ now + FlowTtl \in Nat
      /\ DOMAIN flows = 1..Len(flows)
  <2>1. flows' = Append(flows, now + FlowTtl) /\ flows \in Seq(Nat)
    BY <1>0 DEF StartFlow, EntriesTyped
  <2>. QED
    BY <1>0, <2>1, Shapes, SignInAssumption
<1>3. /\ DOMAIN flows' = 1..m /\ DOMAIN flows = 1..Len(flows) /\ Len(flows) \in Nat
      /\ \A n \in DOMAIN flows : flows'[n] = flows[n]
  <2>1. /\ Append(flows, now + FlowTtl) \in Seq(Nat) /\ Len(flows) \in Nat
        /\ DOMAIN Append(flows, now + FlowTtl) = 1..(Len(flows) + 1)
        /\ \A n \in 1..Len(flows) : Append(flows, now + FlowTtl)[n] = flows[n]
    BY <1>2, Appended
  <2>. QED
    BY <1>2, <2>1
<1>4. \A n \in DOMAIN flows : used'[n] = used[n]
  <2>1. used \in Seq(Int) /\ used' = Append(used, 0) /\ Len(used) = Len(flows)
    BY <1>0 DEF StartFlow, EntriesTyped
  <2>. QED
    BY <1>3, <2>1, Appended
<1>5. signed_in'[m] = 0 /\ \A n \in DOMAIN flows : signed_in'[n] = signed_in[n]
  <2>1. /\ signed_in \in Seq(Nat) /\ signed_in' = Append(signed_in, 0)
        /\ Len(signed_in) = Len(flows)
    BY <1>0 DEF StartFlow, EntriesTyped
  <2>. QED
    BY <1>3, <2>1, Appended
<1>6. \A n \in DOMAIN flows : tokens'[n] = tokens[n]
  <2>1. /\ tokens \in Seq(Seq(Issuable)) /\ << >> \in Seq(Issuable)
        /\ tokens' = Append(tokens, << >>) /\ Len(tokens) = Len(flows)
    BY <1>0 DEF StartFlow, EntriesTyped
  <2>. QED
    BY <1>3, <2>1, Appended
<1>7. \A n \in DOMAIN flows' : n = m \/ n \in DOMAIN flows
  BY <1>3
<1>8. \A t \in Threads : frames[t].flow # m /\ (frames[t].flow # 0 => frames[t].flow \in DOMAIN flows)
  BY <1>3 DEF SignInTyped, FramesInOrder, InOrder
<1>9. EntryGuards'
  BY <1>1, <1>3, <1>5, <1>7, <1>8 DEF SignInGuarded, EntryGuards
<1>10. FlowOnce'
  BY <1>1, <1>5, <1>7, <1>8 DEF SignInGuarded, FlowOnce, InFlow
<1>11. JtiOnce'
  BY <1>1, <1>5, <1>7, <1>8 DEF SignInGuarded, JtiOnce, AtPut, At
<1>12. UsedWhileValid'
  BY <1>4, <1>5, <1>6, <1>7 DEF SignInGuarded, UsedWhileValid
<1>13. OwnTokens' /\ StillInTime'
  BY <1>1, <1>6, <1>8 DEF SignInGuarded, OwnTokens, StillInTime
<1>. QED
  BY <1>9, <1>10, <1>11, <1>12, <1>13 DEF SignInGuarded

LEMMA ArrivalGuarded ==
  ASSUME SignInTyped, SignInGuarded, NEW t \in Threads, NEW i \in Isolates, Arrival(t, i)
  PROVE  SignInGuarded'
<1>1. ASSUME NEW n \in DOMAIN flows, BeginCallback(t, i, n) PROVE SignInGuarded'
  <2>. DEFINE f == Request("get_flow", i, n, << >>)
  <2>1. StepOf(t, f) /\ UNCHANGED guarded
    BY <1>1 DEF BeginCallback, Begin, StepOf, guarded, external
  <2>2. n \in Nat
    BY Shapes DEF SignInTyped
  <2>3. f \in Frame /\ f.at = "get_flow"
    BY <2>2 DEF Request, Frame, Points
  <2>. QED
    BY <2>1, <2>3, OutKeepsGuards
<1>2. ASSUME BeginEvent(t, i) PROVE SignInGuarded'
  <2>. DEFINE f == Request("verify", i, 0, <<Issued>>)
  <2>1. StepOf(t, f) /\ UNCHANGED guarded
    BY <1>2 DEF BeginEvent, Begin, StepOf, guarded, external
  <2>2. <<Issued>> \in Seq(Issuable)
    BY IssuedIsPlausible
  <2>3. f \in Frame /\ f.at = "verify" /\ f.flow = 0
    BY <2>2 DEF Request, Frame, Points, Prompt
  <2>. QED
    BY <2>1, <2>3, OutKeepsGuards
<1>. QED
  BY <1>1, <1>2 DEF Arrival

LEMMA GetFlowGuarded ==
  ASSUME SignInTyped, SignInGuarded, NEW t \in Threads, GetFlow(t) PROVE SignInGuarded'
<1>. DEFINE m == frames[t].flow
<1>0. EntriesTyped /\ m \in DOMAIN flows /\ frames[t].at = "get_flow"
  BY Shapes DEF SignInTyped, FramesInOrder, InOrder, GetFlow, At
<1>1. CASE Finish(t) /\ UNCHANGED raced
  BY <1>1, FinishKeepsGuards DEF GetFlow, guarded, external
<1>2. CASE /\ Alive(flows[m]) /\ GoTo(t, "delete_flow")
           /\ raced' = [raced EXCEPT !.flow = @ \cup ({m} \cap OthersAt(t, "delete_flow"))]
  <2>1. frames'[t] = Stays(t, "delete_flow") /\ \A s \in Threads \ {t} : frames'[s] = frames[s]
    BY <1>0, <1>2, GoToMoves, StepOfFrames
  <2>2. frames'[t].at = "delete_flow" /\ frames'[t].flow = m
    BY <2>1 DEF Stays, Moved
  <2>3. UNCHANGED <<now, flows, used, tokens, signed_in>>
    BY DEF GetFlow, external
  <2>4. raced'.flow = raced.flow \cup ({m} \cap OthersAt(t, "delete_flow")) /\ raced'.jti = raced.jti
    BY <1>0, <1>2 DEF EntriesTyped
  <2>5. flows[m] # 0
    BY <1>0, <1>2, Shapes, Times DEF Alive
  <2>6. EntryGuards'
    BY <2>1, <2>2, <2>3 DEF SignInGuarded, EntryGuards, PastDelete, Prompt
  <2>7. ASSUME m \notin raced'.flow, NEW s \in Threads \ {t} PROVE ~InFlow(s, m)
    <3>1. ~(frames[s].flow = m /\ frames[s].at = "delete_flow")
      BY <2>4, <2>7 DEF OthersAt, At
    <3>2. frames[s].flow = m => frames[s].at \notin PastDelete
      BY <1>0, <2>5 DEF SignInGuarded, EntryGuards
    <3>. QED
      BY <3>1, <3>2 DEF InFlow
  <2>8. signed_in[m] = 0
    BY <1>0, <2>5 DEF SignInGuarded, EntryGuards
  <2>9. ASSUME NEW n \in DOMAIN flows, NEW s \in Threads
        PROVE  /\ InFlow(s, n)' => (s = t /\ n = m) \/ (s # t /\ InFlow(s, n))
               /\ AtPut(s, n)' => s # t /\ AtPut(s, n)
    BY <2>1, <2>2 DEF InFlow, AtPut, At
  <2>10. FlowOnce'
    <3>. SUFFICES ASSUME NEW n \in DOMAIN flows, n \notin raced'.flow
                  PROVE  /\ signed_in[n] <= 1
                         /\ \A s \in Threads : InFlow(s, n)' =>
                              signed_in[n] = 0 /\ \A r \in Threads \ {s} : ~InFlow(r, n)'
      BY <2>3 DEF FlowOnce
    <3>1. CASE n = m
      BY <2>7, <2>8, <2>9, <3>1
    <3>2. CASE n # m
      BY <2>4, <2>9, <3>2 DEF SignInGuarded, FlowOnce
    <3>. QED
      BY <3>1, <3>2
  <2>11. JtiOnce'
    BY <2>3, <2>4, <2>9 DEF SignInGuarded, JtiOnce
  <2>12. UsedWhileValid' /\ OwnTokens' /\ StillInTime'
    BY <2>1, <2>2, <2>3 DEF SignInGuarded, UsedWhileValid, OwnTokens, StillInTime, Prompt
  <2>. QED
    BY <2>6, <2>10, <2>11, <2>12 DEF SignInGuarded
<1>. QED
  BY <1>1, <1>2 DEF GetFlow

LEMMA DeleteFlowGuarded ==
  ASSUME SignInTyped, SignInGuarded, NEW t \in Threads, DeleteFlow(t) PROVE SignInGuarded'
<1>. DEFINE m == frames[t].flow
<1>0. EntriesTyped /\ m \in DOMAIN flows /\ frames[t].at = "delete_flow"
  BY Shapes DEF SignInTyped, FramesInOrder, InOrder, DeleteFlow, At
<1>1. frames'[t] = Stays(t, "exchange") /\ \A s \in Threads \ {t} : frames'[s] = frames[s]
  BY <1>0, GoToMoves, StepOfFrames DEF DeleteFlow
<1>2. frames'[t].at = "exchange" /\ frames'[t].flow = m
  BY <1>1 DEF Stays, Moved
<1>3. UNCHANGED <<now, used, tokens, signed_in, raced>>
  BY DEF DeleteFlow, external
<1>4. /\ DOMAIN flows' = DOMAIN flows
      /\ \A n \in DOMAIN flows : flows'[n] = IF n = m THEN 0 ELSE flows[n]
  <2>1. flows \in Seq(Nat) /\ flows' = [flows EXCEPT ![m] = 0]
    BY <1>0 DEF EntriesTyped, DeleteFlow
  <2>. QED
    BY <1>0, <2>1, Replaced
<1>5. EntryGuards'
  BY <1>1, <1>2, <1>3, <1>4 DEF SignInGuarded, EntryGuards
<1>6. ASSUME NEW n \in DOMAIN flows, NEW s \in Threads
      PROVE  (InFlow(s, n)' => InFlow(s, n)) /\ (AtPut(s, n)' => AtPut(s, n))
  BY <1>0, <1>1, <1>2 DEF InFlow, AtPut, At
<1>7. FlowOnce' /\ JtiOnce'
  BY <1>3, <1>4, <1>6 DEF SignInGuarded, FlowOnce, JtiOnce
<1>8. UsedWhileValid' /\ OwnTokens' /\ StillInTime'
  BY <1>1, <1>2, <1>3, <1>4 DEF SignInGuarded, UsedWhileValid, OwnTokens, StillInTime, Prompt
<1>. QED
  BY <1>5, <1>7, <1>8 DEF SignInGuarded

LEMMA ExchangeGuarded ==
  ASSUME SignInTyped, SignInGuarded, NEW t \in Threads, Exchange(t) PROVE SignInGuarded'
<1>. DEFINE m == frames[t].flow
<1>0. EntriesTyped /\ m \in DOMAIN flows /\ frames[t].at = "exchange"
  BY Shapes DEF SignInTyped, FramesInOrder, InOrder, Exchange, At
<1>1. CASE Finish(t) /\ UNCHANGED tokens
  BY <1>1, FinishKeepsGuards DEF Exchange, guarded
<1>2. ASSUME NEW token, StepOf(t, Moved(t, "verify", token, frames[t].keys)),
             \A n \in DOMAIN flows : tokens'[n] = IF n = m THEN token ELSE tokens[n],
             tokens[m] # << >> => token = tokens[m]
      PROVE  SignInGuarded'
  <2>1. /\ frames'[t] = Moved(t, "verify", token, frames[t].keys)
        /\ \A s \in Threads \ {t} : frames'[s] = frames[s]
    BY <1>0, <1>2, StepOfFrames
  <2>2. frames'[t].at = "verify" /\ frames'[t].flow = m /\ frames'[t].token = token
    BY <2>1 DEF Moved
  <2>3. UNCHANGED <<now, flows, used, signed_in, raced>>
    BY DEF Exchange
  <2>4. EntryGuards'
    BY <1>0, <2>1, <2>2, <2>3 DEF SignInGuarded, EntryGuards, PastDelete, Prompt
  <2>5. ASSUME NEW n \in DOMAIN flows, NEW s \in Threads
        PROVE  (InFlow(s, n)' => InFlow(s, n)) /\ (AtPut(s, n)' => AtPut(s, n))
    BY <1>0, <2>1, <2>2 DEF InFlow, AtPut, At, PastDelete
  <2>6. FlowOnce' /\ JtiOnce'
    BY <2>3, <2>5 DEF SignInGuarded, FlowOnce, JtiOnce
  <2>7. UsedWhileValid'
    BY <1>0, <1>2, <2>3 DEF SignInGuarded, UsedWhileValid
  <2>8. OwnTokens'
    <3>. SUFFICES ASSUME NEW s \in Threads, frames'[s].flow # 0, frames'[s].at \in Prompt
                  PROVE  frames'[s].token = tokens'[frames'[s].flow]
      BY DEF OwnTokens
    <3>1. CASE s = t
      <4>1. tokens'[m] = token
        BY <1>0, <1>2
      <4>. QED
        BY <2>2, <3>1, <4>1
    <3>2. CASE s # t
      <4>1. /\ frames'[s] = frames[s] /\ frames[s].token = tokens[frames[s].flow]
            /\ frames[s].token # << >> /\ frames[s].flow \in DOMAIN flows
        BY <1>0, <2>1, <3>2, Shapes DEF SignInGuarded, OwnTokens, SignInTyped, FramesInOrder, InOrder
      <4>. QED
        BY <1>2, <4>1
    <3>. QED
      BY <3>1, <3>2
  <2>9. StillInTime'
    BY <2>1, <2>2, <2>3 DEF SignInGuarded, StillInTime
  <2>. QED
    BY <2>4, <2>6, <2>7, <2>8, <2>9 DEF SignInGuarded
<1>3. CASE /\ tokens[m] # << >> /\ UNCHANGED tokens
           /\ frames' = [frames EXCEPT ![t].at = "verify", ![t].token = tokens[m]]
  BY <1>0, <1>2, <1>3, TokenMoves
<1>4. CASE /\ tokens[m] = << >> /\ tokens' = [tokens EXCEPT ![m] = <<Issued>>]
           /\ frames' = [frames EXCEPT ![t].at = "verify", ![t].token = tokens'[m]]
  <2>1. \A n \in DOMAIN flows : tokens'[n] = IF n = m THEN <<Issued>> ELSE tokens[n]
    <3>1. tokens \in Seq(Seq(Issuable)) /\ <<Issued>> \in Seq(Issuable) /\ DOMAIN tokens = DOMAIN flows
      BY <1>0, IssuedIsPlausible, Shapes DEF EntriesTyped
    <3>. QED
      BY <1>0, <1>4, <3>1
  <2>2. frames' = [frames EXCEPT ![t].at = "verify", ![t].token = <<Issued>>]
    BY <1>0, <1>4, <2>1
  <2>. QED
    BY <1>0, <1>2, <1>4, <2>1, <2>2, TokenMoves
<1>. QED
  BY <1>1, <1>3, <1>4 DEF Exchange

LEMMA VerifyGuarded ==
  ASSUME SignInTyped, SignInGuarded, NEW t \in Threads, Verify(t) PROVE SignInGuarded'
<1>1. UNCHANGED guarded /\ frames[t].at \in Prompt
  BY DEF Verify, guarded, external, At, Prompt
<1>2. CASE Refused(t)
  BY <1>1, <1>2, FinishKeepsGuards DEF Refused
<1>3. ASSUME InTime(frames[t].token[1]), Judge(t, cache[frames[t].isolate][1].keys)
      PROVE  SignInGuarded'
  BY <1>1, <1>3, JudgeKeepsGuards DEF InTime
<1>4. ASSUME InTime(frames[t].token[1]), GoTo(t, "fetch_keys") PROVE SignInGuarded'
  BY <1>1, <1>4, GoToMoves, OnKeepsGuards DEF Stays, SignInTyped, InTime
<1>. QED
  BY <1>2, <1>3, <1>4 DEF Verify

LEMMA FetchingGuarded ==
  ASSUME SignInTyped, SignInGuarded, NEW t \in Threads,
         FetchKeys(t) \/ KeysUnavailable(t) \/ UseKeys(t)
  PROVE  SignInGuarded'
<1>1. UNCHANGED guarded /\ frames[t].at \in Prompt \ {"verify"}
  BY DEF FetchKeys, KeysUnavailable, UseKeys, guarded, external, At, Prompt
<1>2. now < frames[t].token[1].exp + Leeway
  BY <1>1 DEF SignInGuarded, StillInTime
<1>3. CASE FetchKeys(t)
  BY <1>1, <1>2, <1>3, KeysMove, OnKeepsGuards DEF FetchKeys, SignInTyped
<1>4. CASE KeysUnavailable(t)
  BY <1>1, <1>4, FinishKeepsGuards DEF KeysUnavailable
<1>5. CASE UseKeys(t)
  BY <1>1, <1>2, <1>5, JudgeKeepsGuards DEF UseKeys
<1>. QED
  BY <1>3, <1>4, <1>5

LEMMA GetJtiGuarded ==
  ASSUME SignInTyped, SignInGuarded, NEW t \in Threads, GetJti(t) PROVE SignInGuarded'
<1>. DEFINE m == frames[t].flow
<1>0. EntriesTyped /\ m \in DOMAIN flows /\ frames[t].at = "get_jti" /\ m # 0
  BY Shapes DEF SignInTyped, FramesInOrder, InOrder, GetJti, At
<1>1. CASE Finish(t) /\ UNCHANGED raced
  BY <1>1, FinishKeepsGuards DEF GetJti, guarded, external
<1>2. CASE /\ ~Alive(used[m]) /\ GoTo(t, "put_jti")
           /\ raced' = [raced EXCEPT !.jti = @ \cup ({m} \cap OthersAt(t, "put_jti"))]
  <2>1. frames'[t] = Stays(t, "put_jti") /\ \A s \in Threads \ {t} : frames'[s] = frames[s]
    BY <1>0, <1>2, GoToMoves, StepOfFrames
  <2>2. frames'[t].at = "put_jti" /\ frames'[t].flow = m /\ frames'[t].token = frames[t].token
    BY <2>1 DEF Stays, Moved
  <2>3. UNCHANGED <<now, flows, used, tokens, signed_in>>
    BY DEF GetJti, external
  <2>4. raced'.jti = raced.jti \cup ({m} \cap OthersAt(t, "put_jti")) /\ raced'.flow = raced.flow
    BY <1>0, <1>2 DEF EntriesTyped
  <2>5. signed_in[m] = 0
    <3>1. frames[t].token = tokens[m] /\ now < frames[t].token[1].exp + Leeway
      BY <1>0 DEF SignInGuarded, OwnTokens, StillInTime, Prompt
    <3>2. frames[t].token[1] \in Issuable /\ used[m] \in Int /\ signed_in[m] \in Nat
      BY <1>0, Times DEF SignInTyped, FramesInOrder, InOrder, Prompt
    <3>3. frames[t].token[1].exp \in Int /\ now \in Int /\ Leeway \in Int
      BY <1>0, <3>2, Shapes, SignInAssumption DEF Issuable
    <3>4. used[m] < frames[t].token[1].exp + Leeway
      BY <1>2, <3>1, <3>2, <3>3 DEF Alive
    <3>5. ~(used[m] >= tokens[m][1].exp + Leeway)
      BY <3>1, <3>2, <3>3, <3>4
    <3>. QED
      BY <1>0, <3>2, <3>5 DEF SignInGuarded, UsedWhileValid
  <2>6. ASSUME m \notin raced'.jti, NEW s \in Threads \ {t} PROVE ~AtPut(s, m)
    BY <2>4, <2>6 DEF OthersAt, AtPut, At
  <2>7. ASSUME NEW n \in DOMAIN flows, NEW s \in Threads
        PROVE  /\ InFlow(s, n)' => InFlow(s, n)
               /\ AtPut(s, n)' => (s = t /\ n = m) \/ (s # t /\ AtPut(s, n))
    BY <1>0, <2>1, <2>2 DEF InFlow, AtPut, At, PastDelete, Prompt
  <2>8. EntryGuards'
    BY <1>0, <2>1, <2>2, <2>3 DEF SignInGuarded, EntryGuards, PastDelete, Prompt
  <2>9. FlowOnce'
    BY <2>3, <2>4, <2>7 DEF SignInGuarded, FlowOnce
  <2>10. JtiOnce'
    <3>. SUFFICES ASSUME NEW n \in DOMAIN flows, n \notin raced'.jti
                  PROVE  /\ signed_in[n] <= 1
                         /\ \A s \in Threads : AtPut(s, n)' =>
                              signed_in[n] = 0 /\ \A r \in Threads \ {s} : ~AtPut(r, n)'
      BY <2>3 DEF JtiOnce
    <3>1. CASE n = m
      BY <2>5, <2>6, <2>7, <3>1
    <3>2. CASE n # m
      BY <2>4, <2>7, <3>2 DEF SignInGuarded, JtiOnce
    <3>. QED
      BY <3>1, <3>2
  <2>11. UsedWhileValid'
    BY <2>3 DEF SignInGuarded, UsedWhileValid
  <2>12. OwnTokens' /\ StillInTime'
    BY <1>0, <2>1, <2>2, <2>3 DEF SignInGuarded, OwnTokens, StillInTime, Prompt
  <2>. QED
    BY <2>8, <2>9, <2>10, <2>11, <2>12 DEF SignInGuarded
<1>. QED
  BY <1>1, <1>2 DEF GetJti

LEMMA PutJtiGuarded ==
  ASSUME SignInTyped, SignInGuarded, NEW t \in Threads, PutJti(t) PROVE SignInGuarded'
<1>. DEFINE m == frames[t].flow
            token == frames[t].token[1]
<1>0. EntriesTyped /\ m \in DOMAIN flows /\ frames[t].at = "put_jti" /\ m # 0
  BY Shapes DEF SignInTyped, FramesInOrder, InOrder, PutJti, At
<1>1. StepOf(t, Idle) /\ UNCHANGED <<now, flows, tokens, raced>>
  BY FinishIsStep DEF PutJti, external
<1>2. frames'[t] = Idle /\ \A s \in Threads \ {t} : frames'[s] = frames[s]
  BY <1>0, <1>1, StepOfFrames
<1>3. Idle.at = "idle" /\ Idle.flow = 0
  BY DEF Idle, Request
<1>4. frames[t].token # << >> /\ frames[t].token = tokens[m] /\ token \in Issuable
  BY <1>0, Times DEF SignInTyped, FramesInOrder, InOrder, SignInGuarded, OwnTokens, Prompt
<1>5. /\ used[m] \in Int /\ signed_in[m] \in Nat
      /\ \A n \in DOMAIN flows : used'[n] = IF n = m THEN now + JtiTtl(token) ELSE used[n]
      /\ \A n \in DOMAIN flows : signed_in'[n] = IF n = m THEN signed_in[m] + 1 ELSE signed_in[n]
  <2>1. used \in Seq(Int) /\ signed_in \in Seq(Nat) /\ DOMAIN used = DOMAIN flows
        /\ DOMAIN signed_in = DOMAIN flows
    BY <1>0, Shapes DEF EntriesTyped
  <2>2. used' = [used EXCEPT ![m] = now + JtiTtl(token)]
        /\ signed_in' = [signed_in EXCEPT ![m] = signed_in[m] + 1]
    BY DEF PutJti
  <2>. QED
    BY <1>0, <2>1, <2>2
<1>6. now + JtiTtl(token) >= token.exp + Leeway
  <2>1. token.exp \in Int /\ now \in Int /\ Leeway \in Int /\ MinTtl \in Int
    BY <1>0, <1>4, Shapes, SignInAssumption DEF Issuable
  <2>. QED
    BY <2>1 DEF JtiTtl
<1>7. InFlow(t, m) /\ AtPut(t, m)
  BY <1>0 DEF InFlow, AtPut, At, PastDelete, Prompt
<1>8. flows[m] = 0
  BY <1>0 DEF SignInGuarded, EntryGuards, PastDelete, Prompt
<1>9. ASSUME NEW n \in DOMAIN flows, NEW s \in Threads
      PROVE  (InFlow(s, n)' => s # t /\ InFlow(s, n)) /\ (AtPut(s, n)' => s # t /\ AtPut(s, n))
  BY <1>2, <1>3 DEF InFlow, AtPut, At, PastDelete, Prompt
<1>10. EntryGuards'
  BY <1>1, <1>2, <1>3, <1>5, <1>8 DEF SignInGuarded, EntryGuards, PastDelete, Prompt
<1>11. FlowOnce'
  <2>. SUFFICES ASSUME NEW n \in DOMAIN flows, n \notin raced.flow
                PROVE  /\ signed_in'[n] <= 1
                       /\ \A s \in Threads : InFlow(s, n)' =>
                            signed_in'[n] = 0 /\ \A r \in Threads \ {s} : ~InFlow(r, n)'
    BY <1>1 DEF FlowOnce
  <2>1. CASE n = m
    BY <1>5, <1>7, <1>9, <2>1 DEF SignInGuarded, FlowOnce
  <2>2. CASE n # m
    BY <1>5, <1>9, <2>2 DEF SignInGuarded, FlowOnce
  <2>. QED
    BY <2>1, <2>2
<1>12. JtiOnce'
  <2>. SUFFICES ASSUME NEW n \in DOMAIN flows, n \notin raced.jti
                PROVE  /\ signed_in'[n] <= 1
                       /\ \A s \in Threads : AtPut(s, n)' =>
                            signed_in'[n] = 0 /\ \A r \in Threads \ {s} : ~AtPut(r, n)'
    BY <1>1 DEF JtiOnce
  <2>1. CASE n = m
    BY <1>5, <1>7, <1>9, <2>1 DEF SignInGuarded, JtiOnce
  <2>2. CASE n # m
    BY <1>5, <1>9, <2>2 DEF SignInGuarded, JtiOnce
  <2>. QED
    BY <2>1, <2>2
<1>13. UsedWhileValid'
  BY <1>1, <1>4, <1>5, <1>6 DEF SignInGuarded, UsedWhileValid
<1>14. OwnTokens' /\ StillInTime'
  BY <1>1, <1>2, <1>3 DEF SignInGuarded, OwnTokens, StillInTime, Prompt
<1>. QED
  BY <1>10, <1>11, <1>12, <1>13, <1>14 DEF SignInGuarded

LEMMA KeyStepGuarded ==
  ASSUME SignInGuarded, UNCHANGED guarded, UNCHANGED frames PROVE SignInGuarded'
BY DEF guarded, SignInGuarded, EntryGuards, FlowOnce, JtiOnce, UsedWhileValid, OwnTokens,
       StillInTime, InFlow, AtPut, At

LEMMA PassGuarded ==
  ASSUME SignInGuarded, Pass PROVE SignInGuarded'
BY DEF Pass, external, SignInGuarded, EntryGuards, FlowOnce, JtiOnce, UsedWhileValid, OwnTokens,
       StillInTime, InFlow, AtPut, At

LEMMA SignInStartsGuarded == SignInInit => SignInGuarded
BY DEF SignInInit, Idle, Request, SignInGuarded, EntryGuards, FlowOnce, JtiOnce, UsedWhileValid,
       OwnTokens, StillInTime, Prompt

LEMMA SignInStaysGuarded ==
  SignInTyped /\ SignInGuarded /\ [SignInNext]_signInVars => SignInGuarded'
<1>. SUFFICES ASSUME SignInTyped, SignInGuarded, [SignInNext]_signInVars PROVE SignInGuarded'
  OBVIOUS
<1>1. CASE StartFlow
  BY <1>1, StartFlowGuarded
<1>2. CASE \E t \in Threads, i \in Isolates : Arrival(t, i)
  BY <1>2, ArrivalGuarded
<1>3. ASSUME NEW t \in Threads, Die(t) PROVE SignInGuarded'
  BY <1>3, FinishKeepsGuards DEF Die, guarded, external
<1>4. ASSUME NEW t \in Threads, HandlerStep(t) PROVE SignInGuarded'
  BY <1>4, GetFlowGuarded, DeleteFlowGuarded, ExchangeGuarded, VerifyGuarded, FetchingGuarded,
     GetJtiGuarded, PutJtiGuarded DEF HandlerStep
<1>5. CASE Publish \/ \E k \in DOMAIN keys : SwitchTo(k) \/ Withdraw(k)
  BY <1>5, KeyStepGuarded DEF Publish, SwitchTo, Withdraw, guarded
<1>6. CASE Pass
  BY <1>6, PassGuarded
<1>7. CASE UNCHANGED signInVars
  BY <1>7, KeyStepGuarded DEF signInVars, guarded, external
<1>. QED
  BY <1>1, <1>2, <1>3, <1>4, <1>5, <1>6, <1>7 DEF SignInNext

-----------------------------------------------------------------------------
(* Part three: how old keys are                                            *)

\* The numbers a set of keys is compared with.
LEMMA KeyNumbers ==
  ASSUME SignInTyped
  PROVE  /\ now \in Int /\ EdgeTtl \in Int /\ EdgeTtl > 0 /\ JwksTtl \in Nat
         /\ \A k \in DOMAIN keys : keys[k].born \in Int /\ keys[k].born <= now
         /\ \A k \in DOMAIN keys :
              keys[k].withdrawn # Never => keys[k].withdrawn \in Int /\ keys[k].withdrawn <= now
         /\ edge # << >> => edge[1].at \in Int /\ edge[1].at <= now
         /\ \A i \in Isolates : cache[i] # << >> => cache[i][1].at \in Int /\ cache[i][1].at <= now
<1>1. EntriesTyped /\ NothingFromTheFuture
  BY DEF SignInTyped
<1>2. now \in Int /\ EdgeTtl \in Int /\ EdgeTtl > 0 /\ JwksTtl \in Nat
  BY <1>1, Shapes, SignInAssumption
<1>. QED
  BY <1>1, <1>2, Times DEF NothingFromTheFuture, Answer

\* What was so at a moment is so for any earlier one.
LEMMA AsOfEarlier ==
  ASSUME SignInTyped, NEW found, NEW moment \in Int, NEW earlier \in Int, earlier <= moment,
         AsOf(found, moment)
  PROVE  AsOf(found, earlier)
<1>. SUFFICES ASSUME NEW k \in DOMAIN keys
     PROVE  /\ k \in found => keys[k].withdrawn = Never \/ keys[k].withdrawn >= earlier
            /\ (k = 1 \/ keys[k].born < earlier) /\ keys[k].withdrawn = Never => k \in found
  BY DEF AsOf
<1>1. keys[k].born \in Int /\ (keys[k].withdrawn # Never => keys[k].withdrawn \in Int)
  BY KeyNumbers
<1>. QED
  BY <1>1 DEF AsOf

\* What is published now or was lately is as of any moment gone by.
LEMMA PublishKeepsAsOf ==
  ASSUME SignInTyped, Publish, NEW found, found \subseteq DOMAIN keys,
         NEW moment \in Int, moment <= now, AsOf(found, moment)
  PROVE  \A k \in DOMAIN keys' :
           /\ k \in found => keys'[k].withdrawn = Never \/ keys'[k].withdrawn >= moment
           /\ (k = 1 \/ keys'[k].born < moment) /\ keys'[k].withdrawn = Never => k \in found
<1>. DEFINE row == [born |-> now, withdrawn |-> Never]
<1>0. EntriesTyped
  BY DEF SignInTyped
<1>1. row \in KeyRow /\ row.born = now
  BY <1>0, Shapes DEF KeyRow
<1>2. keys \in Seq(KeyRow) /\ keys' = Append(keys, row)
  BY <1>0 DEF Publish, EntriesTyped
<1>. HIDE DEF row
<1>3. /\ Len(keys) \in Nat /\ DOMAIN keys = 1..Len(keys) /\ DOMAIN keys' = 1..(Len(keys) + 1)
      /\ keys'[Len(keys) + 1] = row /\ \A k \in DOMAIN keys : keys'[k] = keys[k]
  BY <1>1, <1>2, Appended
<1>4. Len(keys) # 0
  BY <1>0, <1>3 DEF EntriesTyped, Published
<1>5. now \in Int
  BY KeyNumbers
<1>. QED
  BY <1>1, <1>3, <1>4, <1>5 DEF AsOf

LEMMA WithdrawKeepsAsOf ==
  ASSUME SignInTyped, NEW j \in DOMAIN keys, Withdraw(j), NEW found,
         NEW moment \in Int, moment <= now, AsOf(found, moment)
  PROVE  \A k \in DOMAIN keys' :
           /\ k \in found => keys'[k].withdrawn = Never \/ keys'[k].withdrawn >= moment
           /\ (k = 1 \/ keys'[k].born < moment) /\ keys'[k].withdrawn = Never => k \in found
<1>0. EntriesTyped /\ now \in Int /\ now # Never
  BY KeyNumbers, SignInAssumption DEF SignInTyped
<1>1. keys' = [keys EXCEPT ![j] = [keys[j] EXCEPT !.withdrawn = now]] /\ keys[j] \in KeyRow
  <2>1. keys \in Seq(KeyRow)
    BY <1>0 DEF EntriesTyped
  <2>. QED
    BY <2>1 DEF Withdraw
<1>2. /\ DOMAIN keys' = DOMAIN keys /\ \A k \in DOMAIN keys : k # j => keys'[k] = keys[k]
      /\ keys'[j].withdrawn = now
  BY <1>1 DEF KeyRow
<1>. QED
  BY <1>0, <1>2 DEF AsOf

LEMMA OldestIsPast ==
  ASSUME SignInTyped
  PROVE  /\ Oldest(now) \in Int /\ Oldest(now) <= now
         /\ edge # << >> => edge[1].at \in Int /\ edge[1].at <= now
         /\ \A i \in Isolates : cache[i] # << >> =>
              Oldest(cache[i][1].at) \in Int /\ Oldest(cache[i][1].at) <= now
BY KeyNumbers DEF Oldest

LEMMA PublishAges ==
  ASSUME SignInTyped, KeySetsAsOf, Publish PROVE KeySetsAsOf'
<1>1. UNCHANGED <<now, edge, cache, frames>>
  BY DEF Publish
<1>2. edge # << >> => edge[1].keys \subseteq DOMAIN keys
  BY DEF SignInTyped, NothingFromTheFuture
<1>3. \A i \in Isolates : cache[i] # << >> => cache[i][1].keys \subseteq DOMAIN keys
  BY DEF SignInTyped, NothingFromTheFuture
<1>4. \A t \in Threads : frames[t].keys \subseteq DOMAIN keys
  BY DEF SignInTyped, FramesInOrder, InOrder
<1>5. (edge # << >> => AsOf(edge[1].keys, edge[1].at))'
  <2>. SUFFICES ASSUME edge # << >> PROVE AsOf(edge[1].keys, edge[1].at)'
    BY <1>1
  <2>1. AsOf(edge[1].keys, edge[1].at)
    BY DEF KeySetsAsOf
  <2>. QED
    BY <1>1, <1>2, <2>1, PublishKeepsAsOf, OldestIsPast DEF AsOf
<1>6. (\A i \in Isolates : cache[i] # << >> => AsOf(cache[i][1].keys, Oldest(cache[i][1].at)))'
  <2>. SUFFICES ASSUME NEW i \in Isolates, cache[i] # << >>
                PROVE  AsOf(cache[i][1].keys, Oldest(cache[i][1].at))'
    BY <1>1
  <2>1. AsOf(cache[i][1].keys, Oldest(cache[i][1].at))
    BY DEF KeySetsAsOf
  <2>. QED
    BY <1>1, <1>3, <2>1, PublishKeepsAsOf, OldestIsPast DEF AsOf, Oldest
<1>7. (\A t \in Threads : At(t, "use_keys") => AsOf(frames[t].keys, Oldest(now)))'
  <2>. SUFFICES ASSUME NEW t \in Threads, At(t, "use_keys")
                PROVE  AsOf(frames[t].keys, Oldest(now))'
    BY <1>1 DEF At
  <2>1. AsOf(frames[t].keys, Oldest(now))
    BY DEF KeySetsAsOf
  <2>. QED
    BY <1>1, <1>4, <2>1, PublishKeepsAsOf, OldestIsPast DEF AsOf, Oldest
<1>. QED
  BY <1>5, <1>6, <1>7 DEF KeySetsAsOf

LEMMA WithdrawAges ==
  ASSUME SignInTyped, KeySetsAsOf, NEW k \in DOMAIN keys, Withdraw(k) PROVE KeySetsAsOf'
<1>1. UNCHANGED <<now, edge, cache, frames>>
  BY DEF Withdraw
<1>2. (edge # << >> => AsOf(edge[1].keys, edge[1].at))'
  <2>. SUFFICES ASSUME edge # << >> PROVE AsOf(edge[1].keys, edge[1].at)'
    BY <1>1
  <2>1. AsOf(edge[1].keys, edge[1].at)
    BY DEF KeySetsAsOf
  <2>. QED
    BY <1>1, <2>1, WithdrawKeepsAsOf, OldestIsPast DEF AsOf
<1>3. (\A i \in Isolates : cache[i] # << >> => AsOf(cache[i][1].keys, Oldest(cache[i][1].at)))'
  <2>. SUFFICES ASSUME NEW i \in Isolates, cache[i] # << >>
                PROVE  AsOf(cache[i][1].keys, Oldest(cache[i][1].at))'
    BY <1>1
  <2>1. AsOf(cache[i][1].keys, Oldest(cache[i][1].at))
    BY DEF KeySetsAsOf
  <2>. QED
    BY <1>1, <2>1, WithdrawKeepsAsOf, OldestIsPast DEF AsOf, Oldest
<1>4. (\A t \in Threads : At(t, "use_keys") => AsOf(frames[t].keys, Oldest(now)))'
  <2>. SUFFICES ASSUME NEW t \in Threads, At(t, "use_keys")
                PROVE  AsOf(frames[t].keys, Oldest(now))'
    BY <1>1 DEF At
  <2>1. AsOf(frames[t].keys, Oldest(now))
    BY DEF KeySetsAsOf
  <2>. QED
    BY <1>1, <2>1, WithdrawKeepsAsOf, OldestIsPast DEF AsOf, Oldest
<1>. QED
  BY <1>2, <1>3, <1>4 DEF KeySetsAsOf

\* A request that goes on, but not to use keys it fetched.
LEMMA OtherRequestAges ==
  ASSUME SignInTyped, KeySetsAsOf, NEW t \in Threads, NEW f, StepOf(t, f), f.at # "use_keys",
         UNCHANGED <<now, keys, edge, cache>>
  PROVE  KeySetsAsOf'
<1>1. frames'[t] = f /\ \A s \in Threads \ {t} : frames'[s] = frames[s]
  BY StepOfFrames DEF SignInTyped
<1>. QED
  BY <1>1 DEF KeySetsAsOf, AsOf, Oldest, At

LEMMA SameFramesAge ==
  ASSUME KeySetsAsOf, UNCHANGED <<now, keys, edge, cache, frames>> PROVE KeySetsAsOf'
BY DEF KeySetsAsOf, AsOf, Oldest, At

LEMMA FetchKeysAges ==
  ASSUME SignInTyped, KeySetsAsOf, NEW t \in Threads, FetchKeys(t) PROVE KeySetsAsOf'
<1>. DEFINE f == Moved(t, "use_keys", frames[t].token, edge'[1].keys)
<1>0. UNCHANGED <<now, keys, cache>>
  BY DEF FetchKeys
<1>1. frames'[t].keys = edge'[1].keys /\ \A s \in Threads \ {t} : frames'[s] = frames[s]
  <2>1. EntriesTyped /\ StepOf(t, f) /\ f.keys = edge'[1].keys
    BY KeysMove DEF FetchKeys, SignInTyped, Moved
  <2>. HIDE DEF f
  <2>. QED
    BY <2>1, StepOfFrames
<1>2. AsOf(edge'[1].keys, edge'[1].at) /\ AsOf(edge'[1].keys, Oldest(now))
  <2>1. CASE EdgeFresh
    <3>1. edge' = edge /\ edge # << >> /\ now - edge[1].at < EdgeTtl
      BY <2>1 DEF FetchKeys, EdgeFresh
    <3>2. AsOf(edge[1].keys, edge[1].at)
      BY <3>1 DEF KeySetsAsOf
    <3>3. edge[1].at \in Int /\ Oldest(now) \in Int /\ Oldest(now) <= edge[1].at
      BY <3>1, KeyNumbers DEF Oldest
    <3>. QED
      BY <3>1, <3>2, <3>3, AsOfEarlier
  <2>2. CASE ~EdgeFresh
    <3>1. edge'[1].keys = Published /\ edge'[1].at = now
      BY <2>2 DEF FetchKeys
    <3>2. AsOf(Published, now)
      BY DEF AsOf, Published
    <3>. QED
      BY <3>1, <3>2, AsOfEarlier, OldestIsPast, KeyNumbers
  <2>. QED
    BY <2>1, <2>2
<1>3. (\A s \in Threads : At(s, "use_keys") => AsOf(frames[s].keys, Oldest(now)))'
  <2>. SUFFICES ASSUME NEW s \in Threads, At(s, "use_keys")'
                PROVE  AsOf(frames[s].keys, Oldest(now))'
    OBVIOUS
  <2>1. CASE s = t
    BY <1>0, <1>1, <1>2, <2>1 DEF AsOf, Oldest
  <2>2. CASE s # t
    BY <1>0, <1>1, <2>2 DEF KeySetsAsOf, AsOf, Oldest, At
  <2>. QED
    BY <2>1, <2>2
<1>4. (edge # << >> => AsOf(edge[1].keys, edge[1].at))'
  BY <1>0, <1>2 DEF AsOf
<1>5. (\A i \in Isolates : cache[i] # << >> => AsOf(cache[i][1].keys, Oldest(cache[i][1].at)))'
  BY <1>0 DEF KeySetsAsOf, AsOf, Oldest
<1>. QED
  BY <1>3, <1>4, <1>5 DEF KeySetsAsOf

LEMMA UseKeysAges ==
  ASSUME SignInTyped, KeySetsAsOf, NEW t \in Threads, UseKeys(t) PROVE KeySetsAsOf'
<1>. DEFINE i == frames[t].isolate
            answer == [keys |-> frames[t].keys, at |-> now]
<1>1. PICK f \in Frame : StepOf(t, f) /\ f.at \in {"idle", "get_jti"}
  BY JudgeStep DEF UseKeys, At, Prompt
<1>2. frames'[t] = f /\ \A s \in Threads \ {t} : frames'[s] = frames[s]
  BY <1>1, StepOfFrames DEF SignInTyped
<1>3. UNCHANGED <<now, keys, edge>> /\ At(t, "use_keys")
  BY DEF UseKeys, external
<1>4. AsOf(frames[t].keys, Oldest(now))
  BY <1>3 DEF KeySetsAsOf
<1>5. i \in Isolates /\ cache' = [cache EXCEPT ![i] = <<answer>>]
  BY <1>3 DEF UseKeys, Fetched, SignInTyped, FramesInOrder, InOrder, At
<1>6. answer.keys = frames[t].keys /\ answer.at = now
  OBVIOUS
<1>. HIDE DEF answer
<1>7. /\ cache'[i][1] = answer /\ \A j \in Isolates \ {i} : cache'[j] = cache[j]
  BY <1>5 DEF SignInTyped, EntriesTyped
<1>8. (\A j \in Isolates : cache[j] # << >> => AsOf(cache[j][1].keys, Oldest(cache[j][1].at)))'
  <2>. SUFFICES ASSUME NEW j \in Isolates, cache'[j] # << >>
                PROVE  AsOf(cache[j][1].keys, Oldest(cache[j][1].at))'
    OBVIOUS
  <2>1. CASE j = i
    <3>1. cache'[j][1].keys = frames[t].keys /\ cache'[j][1].at = now
      BY <1>6, <1>7, <2>1
    <3>. QED
      BY <1>3, <1>4, <3>1 DEF AsOf, Oldest
  <2>2. CASE j # i
    BY <1>3, <1>7, <2>2 DEF KeySetsAsOf, AsOf, Oldest
  <2>. QED
    BY <2>1, <2>2
<1>9. (\A s \in Threads : At(s, "use_keys") => AsOf(frames[s].keys, Oldest(now)))'
  BY <1>1, <1>2, <1>3 DEF KeySetsAsOf, AsOf, Oldest, At
<1>10. (edge # << >> => AsOf(edge[1].keys, edge[1].at))'
  BY <1>3 DEF KeySetsAsOf, AsOf
<1>. QED
  BY <1>8, <1>9, <1>10 DEF KeySetsAsOf

LEMMA PassAges ==
  ASSUME SignInTyped, KeySetsAsOf, Pass PROVE KeySetsAsOf'
BY DEF Pass, external, KeySetsAsOf, AsOf, Oldest, At, Prompt

LEMMA KeySetsStart == SignInInit => KeySetsAsOf
BY DEF SignInInit, KeySetsAsOf, At, Idle, Request

LEMMA KeySetsAge ==
  SignInTyped /\ KeySetsAsOf /\ [SignInNext]_signInVars => KeySetsAsOf'
<1>. SUFFICES ASSUME SignInTyped, KeySetsAsOf, [SignInNext]_signInVars PROVE KeySetsAsOf'
  OBVIOUS
<1>0. EntriesTyped /\ Idle.at = "idle"
  BY DEF SignInTyped, Idle, Request
<1>1. CASE StartFlow
  BY <1>1, SameFramesAge DEF StartFlow
<1>2. ASSUME NEW t \in Threads, NEW i \in Isolates, Arrival(t, i) PROVE KeySetsAsOf'
  <2>1. ASSUME NEW n \in DOMAIN flows, BeginCallback(t, i, n) PROVE KeySetsAsOf'
    <3>1. StepOf(t, Request("get_flow", i, n, << >>)) /\ UNCHANGED <<now, keys, edge, cache>>
      BY <2>1 DEF BeginCallback, Begin, StepOf, external
    <3>. QED
      BY <3>1, OtherRequestAges DEF Request
  <2>2. ASSUME BeginEvent(t, i) PROVE KeySetsAsOf'
    <3>1. StepOf(t, Request("verify", i, 0, <<Issued>>)) /\ UNCHANGED <<now, keys, edge, cache>>
      BY <2>2 DEF BeginEvent, Begin, StepOf, external
    <3>. QED
      BY <3>1, OtherRequestAges DEF Request
  <2>. QED
    BY <1>2, <2>1, <2>2 DEF Arrival
<1>3. ASSUME NEW t \in Threads, Finish(t), UNCHANGED <<now, keys, edge, cache>> PROVE KeySetsAsOf'
  BY <1>0, <1>3, FinishIsStep, OtherRequestAges
<1>4. ASSUME NEW t \in Threads, NEW point, point # "use_keys", GoTo(t, point),
             UNCHANGED <<now, keys, edge, cache>>
      PROVE  KeySetsAsOf'
  <2>1. StepOf(t, Stays(t, point)) /\ Stays(t, point).at = point
    BY <1>0, <1>4, GoToMoves DEF Stays, Moved
  <2>. QED
    BY <1>4, <2>1, OtherRequestAges
<1>5. ASSUME NEW t \in Threads, HandlerStep(t) \/ Die(t) PROVE KeySetsAsOf'
  <2>1. CASE Die(t)
    BY <1>3, <2>1 DEF Die, external
  <2>2. CASE GetFlow(t)
    BY <1>3, <1>4, <2>2 DEF GetFlow, external
  <2>3. CASE DeleteFlow(t)
    BY <1>4, <2>3 DEF DeleteFlow, external
  <2>4. CASE Exchange(t)
    <3>1. ASSUME NEW token, frames' = [frames EXCEPT ![t].at = "verify", ![t].token = token]
          PROVE  KeySetsAsOf'
      <4>. DEFINE f == Moved(t, "verify", token, frames[t].keys)
      <4>1. StepOf(t, f) /\ f.at = "verify" /\ UNCHANGED <<now, keys, edge, cache>>
        BY <1>0, <2>4, <3>1, TokenMoves DEF Exchange, Moved
      <4>. HIDE DEF f
      <4>. QED
        BY <4>1, OtherRequestAges
    <3>. QED
      BY <1>3, <2>4, <3>1 DEF Exchange
  <2>5. CASE Verify(t)
    BY <1>3, <1>4, <2>5 DEF Verify, Judge, Refused, external
  <2>6. CASE FetchKeys(t)
    BY <2>6, FetchKeysAges
  <2>7. CASE KeysUnavailable(t)
    BY <1>3, <2>7 DEF KeysUnavailable, external
  <2>8. CASE UseKeys(t)
    BY <2>8, UseKeysAges
  <2>9. CASE GetJti(t)
    BY <1>3, <1>4, <2>9 DEF GetJti, external
  <2>10. CASE PutJti(t)
    BY <1>3, <2>10 DEF PutJti, external
  <2>. QED
    BY <1>5, <2>1, <2>2, <2>3, <2>4, <2>5, <2>6, <2>7, <2>8, <2>9, <2>10 DEF HandlerStep
<1>6. CASE Publish
  BY <1>6, PublishAges
<1>7. ASSUME NEW k \in DOMAIN keys, SwitchTo(k) PROVE KeySetsAsOf'
  BY <1>7, SameFramesAge DEF SwitchTo
<1>8. ASSUME NEW k \in DOMAIN keys, Withdraw(k) PROVE KeySetsAsOf'
  BY <1>8, WithdrawAges
<1>9. CASE Pass
  BY <1>9, PassAges
<1>10. CASE UNCHANGED signInVars
  BY <1>10, SameFramesAge DEF signInVars, external
<1>. QED
  BY <1>1, <1>2, <1>5, <1>6, <1>7, <1>8, <1>9, <1>10 DEF SignInNext

-----------------------------------------------------------------------------
(* The verdicts                                                            *)

\* The key of a token is judged by a set as of some moment.
LEMMA VerdictByAge ==
  ASSUME SignInTyped, NEW found, NEW moment \in Int, AsOf(found, moment),
         now - moment < JwksTtl + EdgeTtl, NEW k \in DOMAIN keys
  PROVE  /\ k \in found => keys[k].withdrawn = Never \/ now - keys[k].withdrawn < JwksTtl + EdgeTtl
         /\ k \notin found => ~Settled(k, now)
<1>1. /\ now \in Int /\ EdgeTtl \in Int /\ JwksTtl \in Int /\ keys[k].born \in Int
      /\ keys[k].withdrawn # Never => keys[k].withdrawn \in Int /\ keys[k].withdrawn <= now
  BY KeyNumbers
<1>2. /\ k \in found => keys[k].withdrawn = Never \/ keys[k].withdrawn >= moment
      /\ (k = 1 \/ keys[k].born < moment) /\ keys[k].withdrawn = Never => k \in found
  BY DEF AsOf
<1>3. ASSUME k \in found, keys[k].withdrawn # Never
      PROVE  now - keys[k].withdrawn < JwksTtl + EdgeTtl
  BY <1>1, <1>2, <1>3
<1>4. ASSUME k \notin found, Settled(k, now) PROVE FALSE
  <2>1. keys[k].withdrawn = Never
    BY <1>1, <1>4 DEF Settled
  <2>2. k = 1 \/ now - keys[k].born >= JwksTtl + EdgeTtl
    BY <1>4 DEF Settled
  <2>. QED
    BY <1>1, <1>2, <1>4, <2>1, <2>2
<1>. QED
  BY <1>3, <1>4

\* A request's token and what it says of now.
LEMMA JudgedToken ==
  ASSUME SignInTyped, NEW t \in Threads, frames[t].at \in Prompt
  PROVE  /\ frames[t].token[1] \in Issuable /\ frames[t].token[1].key \in DOMAIN keys
         /\ ~InTime(frames[t].token[1]) => now >= frames[t].token[1].exp
<1>. DEFINE token == frames[t].token[1]
<1>1. token \in Issuable /\ Plausible(token)
  BY Times DEF SignInTyped, FramesInOrder, InOrder
<1>2. token.exp \in Int /\ token.iat \in Int /\ now \in Int /\ Leeway \in Nat
  BY <1>1, KeyNumbers, SignInAssumption DEF Issuable
<1>. QED
  BY <1>1, <1>2 DEF Plausible, InTime

\* What both verdicts promise of the step that gives them.
Verdicts == KeysRecent /\ GenuineAccepted

LEMMA JudgeIsRight ==
  ASSUME SignInTyped, NEW t \in Threads, frames[t].at \in Prompt, NEW found, NEW moment \in Int,
         AsOf(found, moment), now - moment < JwksTtl + EdgeTtl, Judge(t, found),
         UNCHANGED <<now, keys>>
  PROVE  Verdicts'
<1>. DEFINE token == frames[t].token[1]
<1>1. token.key \in DOMAIN keys
  BY JudgedToken
<1>2. CASE token.key \in found
  <2>1. last'[1].token = token /\ last'[1].outcome = "accepted"
    BY <1>2 DEF Judge, Verdict
  <2>2. keys[token.key].withdrawn = Never
        \/ now - keys[token.key].withdrawn < JwksTtl + EdgeTtl
    BY <1>1, <1>2, VerdictByAge
  <2>. HIDE DEF token
  <2>. QED
    BY <2>1, <2>2 DEF Verdicts, KeysRecent, GenuineAccepted
<1>3. CASE token.key \notin found
  <2>1. last'[1].token = token /\ last'[1].outcome = "refused"
    BY <1>3 DEF Judge, Refused, Verdict
  <2>2. ~Settled(token.key, now)
    BY <1>1, <1>3, VerdictByAge
  <2>. HIDE DEF token
  <2>. QED
    BY <2>1, <2>2 DEF Verdicts, KeysRecent, GenuineAccepted, Settled
<1>. QED
  BY <1>2, <1>3

LEMMA SilentIsRight == Silent => Verdicts'
BY DEF Silent, Verdicts, KeysRecent, GenuineAccepted

LEMMA VerifyIsRight ==
  ASSUME SignInTyped, KeySetsAsOf, NEW t \in Threads, Verify(t) PROVE Verdicts'
<1>. DEFINE entry == cache[frames[t].isolate]
            token == frames[t].token[1]
<1>1. frames[t].at \in Prompt /\ UNCHANGED <<now, keys>>
  BY DEF Verify, At, Prompt, external
<1>2. CASE ~InTime(token) /\ Refused(t)
  <2>1. last'[1].token = token /\ last'[1].outcome = "refused" /\ now >= token.exp
    BY <1>1, <1>2, JudgedToken DEF Refused, Verdict
  <2>. HIDE DEF token
  <2>. QED
    BY <1>1, <2>1 DEF Verdicts, KeysRecent, GenuineAccepted
<1>3. CASE Fresh(entry) /\ Judge(t, entry[1].keys)
  <2>1. frames[t].isolate \in Isolates /\ entry # << >>
    BY <1>1, <1>3 DEF Fresh, SignInTyped, FramesInOrder, InOrder, Prompt
  <2>2. AsOf(entry[1].keys, Oldest(entry[1].at))
    BY <2>1 DEF KeySetsAsOf
  <2>3. Oldest(entry[1].at) \in Int /\ now - Oldest(entry[1].at) < JwksTtl + EdgeTtl
    BY <1>3, <2>1, KeyNumbers DEF Oldest, Fresh
  <2>. QED
    BY <1>1, <1>3, <2>2, <2>3, JudgeIsRight
<1>4. CASE Silent
  BY <1>4, SilentIsRight
<1>. QED
  BY <1>2, <1>3, <1>4 DEF Verify

LEMMA UseKeysIsRight ==
  ASSUME SignInTyped, KeySetsAsOf, NEW t \in Threads, UseKeys(t) PROVE Verdicts'
<1>1. At(t, "use_keys") /\ frames[t].at \in Prompt /\ UNCHANGED <<now, keys>>
  BY DEF UseKeys, At, Prompt, external
<1>2. AsOf(frames[t].keys, Oldest(now))
  BY <1>1 DEF KeySetsAsOf
<1>3. Oldest(now) \in Int /\ now - Oldest(now) < JwksTtl + EdgeTtl
  BY KeyNumbers DEF Oldest
<1>. QED
  BY <1>1, <1>2, <1>3, JudgeIsRight DEF UseKeys

LEMMA KeysUnavailableIsRight ==
  ASSUME NEW t \in Threads, KeysUnavailable(t) PROVE Verdicts'
<1>1. last'[1].outcome = "unavailable"
  BY DEF KeysUnavailable, Verdict
<1>. QED
  BY <1>1 DEF Verdicts, KeysRecent, GenuineAccepted

LEMMA VerdictsStayRight ==
  SignInTyped /\ KeySetsAsOf /\ Verdicts /\ [SignInNext]_signInVars => Verdicts'
<1>. SUFFICES ASSUME SignInTyped, KeySetsAsOf, Verdicts, [SignInNext]_signInVars PROVE Verdicts'
  OBVIOUS
<1>1. CASE StartFlow \/ Publish \/ Pass \/ \E k \in DOMAIN keys : SwitchTo(k) \/ Withdraw(k)
  BY <1>1, SilentIsRight DEF StartFlow, Publish, Pass, SwitchTo, Withdraw
<1>2. CASE \E t \in Threads, i \in Isolates : Arrival(t, i)
  BY <1>2, SilentIsRight DEF Arrival, BeginCallback, BeginEvent
<1>3. ASSUME NEW t \in Threads, HandlerStep(t) \/ Die(t) PROVE Verdicts'
  <2>1. CASE Verify(t)
    BY <2>1, VerifyIsRight
  <2>2. CASE UseKeys(t)
    BY <2>2, UseKeysIsRight
  <2>3. CASE KeysUnavailable(t)
    BY <2>3, KeysUnavailableIsRight
  <2>4. CASE GetFlow(t) \/ DeleteFlow(t) \/ Exchange(t) \/ FetchKeys(t) \/ GetJti(t) \/ PutJti(t)
             \/ Die(t)
    BY <2>4, SilentIsRight DEF GetFlow, DeleteFlow, Exchange, FetchKeys, GetJti, PutJti, Die
  <2>. QED
    BY <1>3, <2>1, <2>2, <2>3, <2>4 DEF HandlerStep
<1>4. CASE UNCHANGED signInVars
  BY <1>4 DEF signInVars, external, Verdicts, KeysRecent, GenuineAccepted, Settled
<1>. QED
  BY <1>1, <1>2, <1>3, <1>4 DEF SignInNext

-----------------------------------------------------------------------------
(* The theorems                                                            *)

\* Every reachable state of the sign-in satisfies the strengthening: the types, what
\* the flow entry and the jti shield, and how old any set of keys is.
THEOREM SignInKeepsInv == SignInSpec => []SignInInv
<1>1. SignInInit => SignInInv
  <2>1. SignInInit => KeysRecent /\ GenuineAccepted
    BY DEF SignInInit, KeysRecent, GenuineAccepted
  <2>. QED
    BY <2>1, SignInStartsTyped, SignInStartsGuarded, KeySetsStart DEF SignInInv
<1>2. SignInInv /\ [SignInNext]_signInVars => SignInInv'
  BY SignInStaysTyped, SignInStaysGuarded, KeySetsAge, VerdictsStayRight DEF SignInInv, Verdicts
<1>. QED
  BY <1>1, <1>2, PTL DEF SignInSpec

\* Clock, entries, caches and requests keep their types: no cache names a key that
\* was never there or was filled at a time to come (sso-jwt.ts, jwksCache), and no
\* entry of a flow outlives its time to live (budgetapp-auth.ts, /start).
THEOREM SignInTypesCorrect == SignInSpec => []SignInTypeOK
<1>1. SignInInv => SignInTypeOK
  <2>. SUFFICES ASSUME SignInInv PROVE SignInTypeOK
    OBVIOUS
  <2>1. EntriesTyped /\ NothingFromTheFuture /\ FramesInOrder
    BY DEF SignInInv, SignInTyped
  <2>2. \A n \in DOMAIN flows : flows[n] \in 0..(now + FlowTtl) /\ signed_in[n] \in Nat
    BY <2>1, Times, Shapes, SignInAssumption DEF NothingFromTheFuture
  <2>3. \A i \in Isolates : cache[i] # << >> =>
          cache[i][1].keys \subseteq DOMAIN keys /\ cache[i][1].at \in 0..now
    BY <2>1, Times, Shapes DEF NothingFromTheFuture, Answer
  <2>4. \A t \in Threads : frames[t].at \in Points /\ frames[t].flow \in 0..Len(flows)
    BY <2>1 DEF EntriesTyped, Frame, FramesInOrder, InOrder
  <2>. QED
    BY <2>1, <2>2, <2>3, <2>4 DEF EntriesTyped, SignInTypeOK
<1>. QED
  BY <1>1, SignInKeepsInv, PTL

\* However many requests a flow's callback brings, and however late, the flow signs in
\* twice only when two requests passed each of the two guards at once: the entry that is
\* found and then deleted, and the jti that is looked up and then stored.
THEOREM FlowsSignInOnce == SignInSpec => []SignsInOnce
<1>1. SignInInv => SignsInOnce
  BY Times DEF SignInInv, SignInTyped, SignInGuarded, FlowOnce, JtiOnce, SignsInOnce
<1>. QED
  BY <1>1, SignInKeepsInv, PTL

\* fetchJwks over the edge's copy: no token passes on a key withdrawn longer ago than the
\* two times to live together, however isolates and the edge fetched and kept it.
THEOREM AcceptedKeysAreRecent == SignInSpec => []KeysRecent
<1>1. SignInInv => KeysRecent
  BY DEF SignInInv
<1>. QED
  BY <1>1, SignInKeepsInv, PTL

\* verifyIdToken and fetchJwks refuse no token that is in its life and whose key has been
\* published for as long as the two caches may lag.
THEOREM GenuineTokensAccepted == SignInSpec => []GenuineAccepted
<1>1. SignInInv => GenuineAccepted
  BY DEF SignInInv
<1>. QED
  BY <1>1, SignInKeepsInv, PTL
====
