-------------------------------- MODULE Edge --------------------------------
(***************************************************************************)
(* The serving edge: every request carries a weak session token, which the *)
(* edge verifies, trades for the real credential at the exchange peer and  *)
(* replaces by it before it forwards the request to the filestore.  One    *)
(* Exchanger (Resolve) serves all requests: it caches a credential per     *)
(* {filesystem_id, intent} until shortly before that credential expires,   *)
(* and lets concurrent requests for one key share one exchange.  A request *)
(* is a goroutine; the steps below are cut where Resolve takes or releases *)
(* its mutex, waits, or is on the wire, and time passes between any two.   *)
(***************************************************************************)
EXTENDS Integers

CONSTANTS Requests,     \* the edge's request goroutines
          Tokens,       \* weak session tokens: [fs, intent, exp]
          Scopes,       \* the filesystem_ids a request body may name
          Ttl,          \* lifetime of an issued credential
          Skew,         \* renewSkew
          MaxTime,      \* bound: the last instant of the clock
          NoReq, NoTok, NoCred

Intents == {t.intent : t \in Tokens}
Keys    == Scopes \X Intents
Creds   == [fs : Scopes, intent : Intents, exp : Nat]

ASSUME EdgeAssumption ==
    /\ Tokens \subseteq [fs : Scopes, intent : Intents, exp : Nat]
    /\ Ttl \in Nat \ {0} /\ Skew \in Nat /\ MaxTime \in Nat
    /\ NoReq \notin Requests /\ NoTok \notin Tokens
    /\ NoCred \notin Creds

VARIABLES
    now,        \* the clock all peers share
    opaque,     \* does the exchange issue credentials without an expiry?
    cache,      \* the Exchanger's cache: a credential or NoCred per key
    inflight,   \* the request that owns the exchange in flight, per key
    pc,         \* where each request is
    tok,        \* its weak token
    ref,        \* the owner of the flight it waits for
    cred,       \* the credential it holds
    at,         \* when Resolve settled that credential for it
    lag,        \* how long the exchange's answer had then been under way
    status      \* what the client was told

reqVars == <<pc, tok, ref, cred, at, lag, status>>
vars    == <<now, opaque, cache, inflight, reqVars>>

\* The cache and flight key: the {filesystem_id, intent} of the token.
KeyByScope(t) == <<t.fs, CHOOSE i \in Intents : TRUE>>   \* mutant: one entry per scope

Key(t) == <<t.fs, t.intent>>

\* jwtmint.Verify: every other reason to refuse a token is an exp of 0.
Verify(t) == now < t.exp

\* Mutant: a credential is served until the instant it expires.
IsLiveToTheEnd(c) == c.exp = 0 \/ now < c.exp

\* isLive: an opaque credential (exp 0) lives for ever.
IsLive(c) == c.exp = 0 \/ now + Skew < c.exp

Owns(r) == pc[r] \in {"exchange", "issued", "refused"}

Statuses == {"none", "unauthorized", "failed", "expired", "forbidden", "admitted"}

TypeOK ==
    /\ now \in 0..MaxTime
    /\ opaque \in BOOLEAN
    /\ cache \in [Keys -> Creds \cup {NoCred}]
    /\ inflight \in [Keys -> Requests \cup {NoReq}]
    /\ pc \in [Requests -> {"idle", "resolve", "exchange", "issued", "refused",
                            "close", "wait", "woken", "forward"}]
    /\ tok \in [Requests -> Tokens \cup {NoTok}]
    /\ ref \in [Requests -> Requests \cup {NoReq}]
    /\ cred \in [Requests -> Creds \cup {NoCred}]
    /\ at \in [Requests -> 0..MaxTime]
    /\ lag \in [Requests -> 0..MaxTime]
    /\ status \in [Requests -> Statuses]

Init ==
    /\ now = 0 /\ opaque \in BOOLEAN
    /\ cache = [k \in Keys |-> NoCred]
    /\ inflight = [k \in Keys |-> NoReq]
    /\ pc = [r \in Requests |-> "idle"]
    /\ tok = [r \in Requests |-> NoTok]
    /\ ref = [r \in Requests |-> NoReq]
    /\ cred = [r \in Requests |-> NoCred]
    /\ at = [r \in Requests |-> 0] /\ lag = [r \in Requests |-> 0]
    /\ status = [r \in Requests |-> "none"]

-----------------------------------------------------------------------------
\* The client is answered; the goroutine is free for another request.
Answer(r, s) ==
    /\ pc' = [pc EXCEPT ![r] = "idle"]
    /\ status' = [status EXCEPT ![r] = s]
    /\ tok' = [tok EXCEPT ![r] = NoTok] /\ ref' = [ref EXCEPT ![r] = NoReq]
    /\ cred' = [cred EXCEPT ![r] = NoCred]
    /\ at' = [at EXCEPT ![r] = 0] /\ lag' = [lag EXCEPT ![r] = 0]

\* A request arrives; a token that does not verify is answered 401.
Arrive(r) ==
    /\ pc[r] = "idle"
    /\ \E t \in Tokens :
         \/ ~Verify(t) /\ Answer(r, "unauthorized")
         \/ /\ Verify(t)
            /\ tok' = [tok EXCEPT ![r] = t]
            /\ pc' = [pc EXCEPT ![r] = "resolve"]
            /\ status' = [status EXCEPT ![r] = "none"]
            /\ UNCHANGED <<ref, cred, at, lag>>
    /\ UNCHANGED <<now, opaque, cache, inflight>>

\* Resolve finds a live entry.
Hit(r) ==
    LET k == Key(tok[r]) IN
    /\ pc[r] = "resolve"
    /\ cache[k] # NoCred /\ IsLive(cache[k])
    /\ cred' = [cred EXCEPT ![r] = cache[k]]
    /\ at' = [at EXCEPT ![r] = now]
    /\ pc' = [pc EXCEPT ![r] = "forward"]
    /\ UNCHANGED <<now, opaque, cache, inflight, tok, ref, lag, status>>

Stale(k) == cache[k] # NoCred => ~IsLive(cache[k])

\* Resolve finds none: it evicts a stale entry and joins the flight under way ...
Join(r) ==
    LET k == Key(tok[r]) IN
    /\ pc[r] = "resolve" /\ Stale(k) /\ inflight[k] # NoReq
    /\ cache' = [cache EXCEPT ![k] = NoCred]
    /\ ref' = [ref EXCEPT ![r] = inflight[k]]
    /\ pc' = [pc EXCEPT ![r] = "wait"]
    /\ UNCHANGED <<now, opaque, inflight, tok, cred, at, lag, status>>

\* Mutant: a flight is registered without looking for one under way.
LeadUnchecked(r) ==
    LET k == Key(tok[r]) IN
    /\ pc[r] = "resolve" /\ Stale(k)
    /\ cache' = [cache EXCEPT ![k] = NoCred]
    /\ inflight' = [inflight EXCEPT ![k] = r]
    /\ pc' = [pc EXCEPT ![r] = "exchange"]
    /\ UNCHANGED <<now, opaque, tok, ref, cred, at, lag, status>>

\* ... or registers one of its own, all in one critical section.
Lead(r) ==
    LET k == Key(tok[r]) IN
    /\ pc[r] = "resolve" /\ Stale(k) /\ inflight[k] = NoReq
    /\ cache' = [cache EXCEPT ![k] = NoCred]
    /\ inflight' = [inflight EXCEPT ![k] = r]
    /\ pc' = [pc EXCEPT ![r] = "exchange"]
    /\ UNCHANGED <<now, opaque, tok, ref, cred, at, lag, status>>

\* The credential issuer: a token's claims, and an expiry unless it is opaque.
Credential(t) ==
    [fs |-> t.fs, intent |-> t.intent, exp |-> IF opaque THEN 0 ELSE now + Ttl]

\* The exchange peer verifies the token again and issues the credential, bound
\* to the token's own claims.  Until the owner settles, at is the issue time.
Issue(r) ==
    /\ pc[r] = "exchange"
    /\ IF Verify(tok[r])
       THEN /\ cred' = [cred EXCEPT ![r] = Credential(tok[r])]
            /\ pc' = [pc EXCEPT ![r] = "issued"]
       ELSE pc' = [pc EXCEPT ![r] = "refused"] /\ UNCHANGED cred
    /\ at' = [at EXCEPT ![r] = now]
    /\ UNCHANGED <<now, opaque, cache, inflight, tok, ref, lag, status>>

\* Settling: the result is recorded, cached if it is a credential, and the flight
\* is taken out of the table, in one critical section.
Settle(r) ==
    /\ pc[r] = "issued"
    /\ cache' = [cache EXCEPT ![Key(tok[r])] = cred[r]]
    /\ inflight' = [inflight EXCEPT ![Key(tok[r])] = NoReq]
    /\ lag' = [lag EXCEPT ![r] = now - at[r]]
    /\ at' = [at EXCEPT ![r] = now]
    /\ pc' = [pc EXCEPT ![r] = "close"]
    /\ UNCHANGED <<now, opaque, tok, ref, cred, status>>

\* The peer refused, the round trip failed, or the owner's own request was
\* cancelled (with the answer already under way or not): nothing is cached.
ExchangeFails(r) ==
    /\ Owns(r)
    /\ inflight' = [inflight EXCEPT ![Key(tok[r])] = NoReq]
    /\ cred' = [cred EXCEPT ![r] = NoCred]
    /\ pc' = [pc EXCEPT ![r] = "close"]
    /\ UNCHANGED <<now, opaque, cache, tok, ref, at, lag, status>>

\* Mutant: the flight's channel is never closed.
CloseForgotten(r) ==
    /\ pc[r] = "close"
    /\ pc' = [pc EXCEPT ![r] = "woken"]
    /\ UNCHANGED <<now, opaque, cache, inflight, tok, ref, cred, at, lag, status>>

\* close(fl.done): every waiter can now read the flight's result, as its owner can.
Close(r) ==
    /\ pc[r] = "close"
    /\ LET W == {w \in Requests : w = r \/ (pc[w] = "wait" /\ ref[w] = r)} IN
       /\ pc'   = [w \in Requests |-> IF w \in W THEN "woken" ELSE pc[w]]
       /\ cred' = [w \in Requests |-> IF w \in W THEN cred[r] ELSE cred[w]]
       /\ at'   = [w \in Requests |-> IF w \in W THEN at[r] ELSE at[w]]
       /\ lag'  = [w \in Requests |-> IF w \in W THEN lag[r] ELSE lag[w]]
    /\ UNCHANGED <<now, opaque, cache, inflight, tok, ref, status>>

\* Resolve returns the flight's result; the edge answers 401 if it is an error.
Woken(r) ==
    /\ pc[r] = "woken"
    /\ \/ cred[r] = NoCred /\ Answer(r, "unauthorized")
       \/ /\ cred[r] # NoCred
          /\ pc' = [pc EXCEPT ![r] = "forward"]
          /\ UNCHANGED <<tok, ref, cred, at, lag, status>>
    /\ UNCHANGED <<now, opaque, cache, inflight>>

\* A waiter whose client has gone stops waiting, even when the result is there.
GiveUp(r) ==
    /\ pc[r] = "wait" \/ (pc[r] = "woken" /\ ref[r] # NoReq)
    /\ Answer(r, "unauthorized")
    /\ UNCHANGED <<now, opaque, cache, inflight>>

\* The filestore cannot be reached ...
Unreachable(r) ==
    /\ pc[r] = "forward"
    /\ Answer(r, "failed")
    /\ UNCHANGED <<now, opaque, cache, inflight>>

\* The filestore's validator: an opaque credential is looked up, a JWT verified.
Validate(c) == c.exp = 0 \/ now < c.exp

\* The filestore's authorize: the credential is bound to the scope the body names.
Authorize(c, f) == IF c.fs = f THEN "admitted" ELSE "forbidden"

\* ... or validates the injected credential and its binding to the scope the
\* request's body names.
Admit(r) ==
    /\ pc[r] = "forward"
    /\ \E f \in Scopes :
         Answer(r, IF ~Validate(cred[r]) THEN "expired" ELSE Authorize(cred[r], f))
    /\ UNCHANGED <<now, opaque, cache, inflight>>

Tick == now < MaxTime /\ now' = now + 1 /\ UNCHANGED <<opaque, cache, inflight, reqVars>>

Resolving(r) == Hit(r) \/ Join(r) \/ Lead(r)
Exchange(r)  == Issue(r) \/ Settle(r) \/ ExchangeFails(r) \/ Close(r)
Serve(r)     == Resolving(r) \/ Exchange(r) \/ Woken(r) \/ Unreachable(r) \/ Admit(r)

Next == Tick \/ \E r \in Requests : Arrive(r) \/ Serve(r) \/ GiveUp(r)

Spec == Init /\ [][Next]_vars

\* Every goroutine that can run does, and the round trips to the peers end (the
\* request's context bounds them); nobody is obliged to send, cancel or wait.
FairSpec == Spec /\ \A r \in Requests : WF_vars(Serve(r))

-----------------------------------------------------------------------------
(* Properties *)

\* However many requests find the cache empty or stale together, one key has one
\* exchange under way (Resolve's single-flight).
SingleFlight ==
    \A r, s \in Requests : Owns(r) /\ Owns(s) /\ Key(tok[r]) = Key(tok[s]) => r = s

\* The flight table and the goroutines agree: an entry belongs to the request that
\* is exchanging for that key, and whoever waits, waits for a request that is still
\* going to close the flight.
FlightsAreOwned ==
    /\ \A k \in Keys : inflight[k] # NoReq =>
         Owns(inflight[k]) /\ Key(tok[inflight[k]]) = k
    /\ \A r \in Requests : pc[r] = "wait" =>
         /\ ref[r] \in Requests /\ (Owns(ref[r]) \/ pc[ref[r]] = "close")
         /\ Key(tok[ref[r]]) = Key(tok[r])

\* A request is forwarded with a credential of its own token's scope and intent,
\* whoever's token it was exchanged for.
ScopeIsolation ==
    \A r \in Requests : pc[r] = "forward" =>
        /\ cred[r] # NoCred
        /\ cred[r].fs = tok[r].fs /\ cred[r].intent = tok[r].intent

\* The filestore finds an injected credential expired only if the request took
\* longer than renewSkew to get there, or the exchange's answer took all of the
\* credential's lifetime but renewSkew.
ExpiredOnlyIfSlow ==
    [][ \A r \in Requests :
          status[r] # "expired" /\ status'[r] = "expired" =>
            now - at[r] >= Skew \/ lag[r] + Skew > Ttl ]_vars

\* Every request is answered.
EveryRequestAnswered ==
    \A r \in Requests : pc[r] = "resolve" ~> pc[r] = "idle"
=============================================================================
