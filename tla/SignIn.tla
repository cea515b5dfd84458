-------------------------------- MODULE SignIn --------------------------------
(***************************************************************************)
(* The first half of a BudgetApp sign-in: GET /start, and the callback up  *)
(* to the point where the identity is verified (Accounts goes on there),   *)
(* with the flow entry, the token exchange, the verification of tokens     *)
(* against cached keys, and the replay guard.  Identity events are         *)
(* verified by the same code against the same cache.                       *)
(*                                                                         *)
(* An action is what a handler does between two awaits.  BudgetApp is      *)
(* external and honest: it answers a code with the token of its flow, so   *)
(* issuer, audience, algorithm and nonce are what verifyIdToken wants, and *)
(* what is left to decide is time, keys and use.  It may answer a repeated *)
(* code with the token it gave before.                                     *)
(***************************************************************************)
EXTENDS Integers, Sequences, FiniteSets

CONSTANTS
  Threads,     \* requests that may be in flight at once
  Isolates,    \* Worker isolates: each has its own jwksCache
  Never,       \* a time that does not come
  FlowTtl,     \* FLOW_TTL_SECONDS
  Leeway,      \* LEEWAY_SECONDS
  MinTtl,      \* the least time to live KV takes
  JwksTtl,     \* JWKS_TTL_MS
  EdgeTtl,     \* cacheTtl of the key request, kept by Cloudflare's edge
  TokenLife,   \* exp - iat of BudgetApp's tokens
  Skews,       \* how far BudgetApp's clock may be ahead
  MaxFlows, MaxRequests, MaxKeys, MaxTime   \* bounds

ASSUME SignInAssumption ==
  /\ {FlowTtl, Leeway, MinTtl, JwksTtl, TokenLife} \subseteq Nat /\ EdgeTtl \in Nat \ {0}
  /\ {MaxFlows, MaxRequests, MaxKeys, MaxTime} \subseteq Nat
  /\ Skews \subseteq -Leeway..Leeway
  /\ Never \notin Int

VARIABLES
  now,        \* the clock, as seconds pass
  flows,      \* KV sso:flow:<state>: when the entry of a started flow lapses, 0 for none
  used,       \* KV sso:jti:<jti>: likewise, for the token of a flow
  tokens,     \* what BudgetApp issued for a flow, <<>> or one token
  keys,       \* BudgetApp's keys: [born, withdrawn] each; the last-born may not sign yet
  signing,    \* the key BudgetApp signs with
  ahead,      \* how far BudgetApp's clock is ahead of the Worker's
  edge,       \* the JWKS answer the edge keeps, << >> for none
  cache,      \* jwksCache of each isolate, << >> for none
  frames,     \* the requests in flight
  served,     \* requests started so far
  signed_in,  \* how often a flow led to a sign-in
  raced,      \* flows two requests found at once, jtis two requests found free at once
  last        \* the verdict the last step gave on a token, if any (history)

external == <<tokens, keys, signing, ahead, edge>>

signInVars == <<now, flows, used, external, cache, frames, served, signed_in, raced, last>>

Request(point, isolate, flow, token) ==
  [at |-> point, isolate |-> isolate, flow |-> flow, token |-> token, keys |-> {}]

Idle == Request("idle", Never, 0, << >>)

Published == { k \in DOMAIN keys : keys[k].withdrawn = Never }

SignInInit ==
  /\ now = 0
  /\ flows = << >> /\ used = << >> /\ tokens = << >> /\ signed_in = << >>
  /\ keys = <<[born |-> 0, withdrawn |-> Never]>>
  /\ signing = 1
  /\ ahead \in Skews
  /\ edge = << >>
  /\ cache = [i \in Isolates |-> << >>]
  /\ frames = [t \in Threads |-> Idle]
  /\ served = 0
  /\ raced = [flow |-> {}, jti |-> {}]
  /\ last = << >>

-----------------------------------------------------------------------------
(* Requests                                                                *)

At(t, point) == frames[t].at = point

GoTo(t, point) == frames' = [frames EXCEPT ![t].at = point]

Finish(t) == frames' = [frames EXCEPT ![t] = Idle]

\* A step that gives no verdict on a token.
Silent == last' = << >>

Begin(t, frame) ==
  /\ At(t, "idle") /\ served < MaxRequests
  /\ served' = served + 1
  /\ frames' = [frames EXCEPT ![t] = frame]

\* A request dies at an await, by an exception or with its isolate.
Die(t) ==
  /\ ~At(t, "idle")
  /\ Finish(t)
  /\ UNCHANGED <<now, flows, used, external, cache, served, signed_in, raced>> /\ Silent

\* A KV entry that has a time to live and has not lapsed.
Alive(expires) == now < expires

-----------------------------------------------------------------------------
(* GET /start, and the callback until a token is there                     *)

StartFlow ==
  /\ Len(flows) < MaxFlows
  /\ flows' = Append(flows, now + FlowTtl)
  /\ used' = Append(used, 0)
  /\ tokens' = Append(tokens, << >>)
  /\ signed_in' = Append(signed_in, 0)
  /\ UNCHANGED <<now, keys, signing, ahead, edge, cache, frames, served, raced>> /\ Silent

\* The browser comes back from BudgetApp; a reload comes again.
BeginCallback(t, i, n) ==
  /\ Begin(t, Request("get_flow", i, n, << >>))
  /\ UNCHANGED <<now, flows, used, external, cache, signed_in, raced>> /\ Silent

OthersAt(t, point) == { frames[s].flow : s \in { s \in Threads \ {t} : At(s, point) } }

GetFlow(t) ==
  /\ At(t, "get_flow")
  /\ LET n == frames[t].flow
     IN  IF Alive(flows[n])
           THEN /\ GoTo(t, "delete_flow")
                /\ raced' = [raced EXCEPT !.flow = @ \cup ({n} \cap OthersAt(t, "delete_flow"))]
           ELSE Finish(t) /\ UNCHANGED raced
  /\ UNCHANGED <<now, flows, used, external, cache, served, signed_in>> /\ Silent

DeleteFlow(t) ==
  /\ At(t, "delete_flow")
  /\ flows' = [flows EXCEPT ![frames[t].flow] = 0]
  /\ GoTo(t, "exchange")
  /\ UNCHANGED <<now, used, external, cache, served, signed_in, raced>> /\ Silent

\* A token BudgetApp signs at this moment, by its own clock.
Issued == [key |-> signing, iat |-> now + ahead, exp |-> now + ahead + TokenLife]

\* The code is exchanged: BudgetApp refuses or cannot be reached, issues the
\* token, or repeats the one it issued for this code.
Exchange(t) ==
  /\ At(t, "exchange")
  /\ LET n == frames[t].flow
     IN  \/ Finish(t) /\ UNCHANGED tokens
         \/ /\ tokens[n] = << >>
            /\ tokens' = [tokens EXCEPT ![n] = <<Issued>>]
            /\ frames' = [frames EXCEPT ![t].at = "verify", ![t].token = tokens'[n]]
         \/ /\ tokens[n] # << >>
            /\ frames' = [frames EXCEPT ![t].at = "verify", ![t].token = tokens[n]]
            /\ UNCHANGED tokens
  /\ UNCHANGED <<now, flows, used, keys, signing, ahead, edge, cache, served, signed_in, raced>> /\ Silent

\* POST /internal/identity-events with an event signed just now.
BeginEvent(t, i) ==
  /\ Begin(t, Request("verify", i, 0, <<Issued>>))
  /\ UNCHANGED <<now, flows, used, external, cache, signed_in, raced>> /\ Silent

-----------------------------------------------------------------------------
(* verifyIdToken and fetchJwks                                             *)

\* Faulty variant: a token from a clock that is ahead is refused.
InTimeNoSkew(token) == now < token.exp + Leeway /\ token.iat <= now

\* exp, and iat and nbf (which BudgetApp sets alike), with the leeway.
InTime(token) == now < token.exp + Leeway /\ token.iat - Leeway <= now

\* Faulty variant: an answer once fetched is kept for the life of the isolate.
FreshOnceFetched(entry) == entry # << >>

Fresh(entry) == entry # << >> /\ now - entry[1].at < JwksTtl

\* Faulty variant: the entry is stamped with the time it lapses.
FetchedStampedAhead(found) == <<[keys |-> found, at |-> now + JwksTtl]>>

\* What jwksCache keeps of an answer.
Fetched(found) == <<[keys |-> found, at |-> now]>>

Verdict(t, outcome) == <<[token |-> frames[t].token[1], outcome |-> outcome]>>

\* A sign-in ends and an event is answered 401.
Refused(t) == Finish(t) /\ last' = Verdict(t, "refused")

\* An accepted event ends here; what follows it is in Accounts.
Judge(t, found) ==
  IF frames[t].token[1].key \notin found THEN Refused(t)
  ELSE /\ last' = Verdict(t, "accepted")
       /\ IF frames[t].flow = 0 THEN Finish(t) ELSE GoTo(t, "get_jti")

Verify(t) ==
  /\ At(t, "verify")
  /\ LET entry == cache[frames[t].isolate]
     IN  IF ~InTime(frames[t].token[1]) THEN Refused(t)
         ELSE IF Fresh(entry) THEN Judge(t, entry[1].keys)
         ELSE GoTo(t, "fetch_keys") /\ Silent
  /\ UNCHANGED <<now, flows, used, external, cache, served, signed_in, raced>>

EdgeFresh == edge # << >> /\ now - edge[1].at < EdgeTtl

\* The edge answers from what it keeps, or asks BudgetApp.
FetchKeys(t) ==
  /\ At(t, "fetch_keys")
  /\ edge' = IF EdgeFresh THEN edge ELSE <<[keys |-> Published, at |-> now]>>
  /\ frames' = [frames EXCEPT ![t].at = "use_keys", ![t].keys = edge'[1].keys]
  /\ UNCHANGED <<now, flows, used, tokens, keys, signing, ahead, cache, served, signed_in, raced>> /\ Silent

\* No answer: the sign-in is refused, an event is answered 503 and comes again.
KeysUnavailable(t) ==
  /\ At(t, "fetch_keys")
  /\ last' = Verdict(t, "unavailable")
  /\ Finish(t)
  /\ UNCHANGED <<now, flows, used, external, cache, served, signed_in, raced>>

UseKeys(t) ==
  /\ At(t, "use_keys")
  /\ cache' = [cache EXCEPT ![frames[t].isolate] = Fetched(frames[t].keys)]
  /\ Judge(t, frames[t].keys)
  /\ UNCHANGED <<now, flows, used, external, served, signed_in, raced>>

-----------------------------------------------------------------------------
(* The replay guard                                                        *)

GetJti(t) ==
  /\ At(t, "get_jti")
  /\ LET n == frames[t].flow
     IN  IF Alive(used[n])
           THEN Finish(t) /\ UNCHANGED raced
           ELSE /\ GoTo(t, "put_jti")
                /\ raced' = [raced EXCEPT !.jti = @ \cup ({n} \cap OthersAt(t, "put_jti"))]
  /\ UNCHANGED <<now, flows, used, external, cache, served, signed_in>> /\ Silent

\* Faulty variant: the entry lapses with the token, though tokens pass later.
JtiTtlNoLeeway(token) == IF token.exp - now > MinTtl THEN token.exp - now ELSE MinTtl

JtiTtl(token) ==
  LET left == token.exp - now + Leeway IN IF left > MinTtl THEN left ELSE MinTtl

\* The token counts as used, and the identity is handed on.
PutJti(t) ==
  /\ At(t, "put_jti")
  /\ LET n == frames[t].flow
     IN  /\ used' = [used EXCEPT ![n] = now + JtiTtl(frames[t].token[1])]
         /\ signed_in' = [signed_in EXCEPT ![n] = @ + 1]
  /\ Finish(t)
  /\ UNCHANGED <<now, flows, external, cache, served, raced>> /\ Silent

-----------------------------------------------------------------------------
(* BudgetApp's keys, and time                                              *)

Publish ==
  /\ Len(keys) < MaxKeys
  /\ keys' = Append(keys, [born |-> now, withdrawn |-> Never])
  /\ UNCHANGED <<now, flows, used, tokens, signing, ahead, edge, cache, frames, served,
                 signed_in, raced>> /\ Silent

SwitchTo(k) ==
  /\ k > signing /\ k \in Published
  /\ signing' = k
  /\ UNCHANGED <<now, flows, used, tokens, keys, ahead, edge, cache, frames, served,
                 signed_in, raced>> /\ Silent

Withdraw(k) ==
  /\ k < signing /\ k \in Published
  /\ keys' = [keys EXCEPT ![k].withdrawn = now]
  /\ UNCHANGED <<now, flows, used, tokens, signing, ahead, edge, cache, frames, served,
                 signed_in, raced>> /\ Silent

\* Between the check of a token's times and the replay guard a handler takes no
\* time worth counting; the browser and the exchange may take any.
Prompt == {"verify", "fetch_keys", "use_keys", "get_jti", "put_jti"}

Pass ==
  /\ now < MaxTime
  /\ \A t \in Threads : frames[t].at \notin Prompt
  /\ now' = now + 1
  /\ UNCHANGED <<flows, used, external, cache, frames, served, signed_in, raced>> /\ Silent

-----------------------------------------------------------------------------
Arrival(t, i) ==
  \/ \E n \in DOMAIN flows : BeginCallback(t, i, n)
  \/ BeginEvent(t, i)

HandlerStep(t) ==
  \/ GetFlow(t) \/ DeleteFlow(t) \/ Exchange(t)
  \/ Verify(t) \/ FetchKeys(t) \/ KeysUnavailable(t) \/ UseKeys(t)
  \/ GetJti(t) \/ PutJti(t)

SignInNext ==
  \/ StartFlow
  \/ \E t \in Threads, i \in Isolates : Arrival(t, i)
  \/ \E t \in Threads : HandlerStep(t) \/ Die(t)
  \/ Publish
  \/ \E k \in DOMAIN keys : SwitchTo(k) \/ Withdraw(k)
  \/ Pass

SignInSpec == SignInInit /\ [][SignInNext]_signInVars

-----------------------------------------------------------------------------
(* Properties                                                              *)

Points == {"idle", "get_flow", "delete_flow", "exchange"} \cup Prompt

\* Entries name keys that exist and were fetched in the past, nothing is kept
\* longer than its time to live.
SignInTypeOK ==
  /\ now \in 0..MaxTime
  /\ signing \in Published
  /\ \A n \in DOMAIN flows : flows[n] \in 0..(now + FlowTtl) /\ signed_in[n] \in Nat
  /\ \A i \in Isolates : cache[i] # << >> =>
       cache[i][1].keys \subseteq DOMAIN keys /\ cache[i][1].at \in 0..now
  /\ \A t \in Threads : frames[t].at \in Points /\ frames[t].flow \in 0..Len(flows)

\* A flow "may be completed exactly once" and "a jti is accepted once"
\* (budgetapp-auth.ts, lines 22 and 149): however often the browser comes back and
\* however late, a flow signs in twice only when two requests found its entry before
\* either deleted it, and again found the jti free before either stored it.
SignsInOnce ==
  \A n \in DOMAIN flows :
    signed_in[n] > 1 => n \in raced.flow /\ n \in raced.jti

\* "cached per URL ... up to 5 minutes" (sso-jwt.ts, line 15), on top of the edge
\* that keeps the same answer for 5 minutes of its own: a token is accepted only
\* when its key was published until less than the two together ago, whichever
\* requests of whichever isolates fetched the keys.
KeysRecent ==
  last # << >> /\ last[1].outcome = "accepted" =>
    LET gone == keys[last[1].token.key].withdrawn
    IN  gone = Never \/ now - gone < JwksTtl + EdgeTtl

\* A key in force at a moment, and published long enough for every cache.
Settled(k, moment) ==
  /\ k = 1 \/ moment - keys[k].born >= JwksTtl + EdgeTtl
  /\ keys[k].withdrawn = Never \/ keys[k].withdrawn > moment

\* A 401 tells BudgetApp that an event is refused "for good" (identity-events.ts,
\* line 53) and a member that the sign-in failed: neither happens to a token within
\* its life whose key has been published for as long as caches may lag, with
\* clocks apart by no more than the leeway.
GenuineAccepted ==
  last # << >> /\ last[1].outcome = "refused" =>
    \/ now >= last[1].token.exp
    \/ ~Settled(last[1].token.key, now)

=============================================================================
