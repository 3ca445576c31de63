----------------------------- MODULE EdgeProofs -----------------------------
(***************************************************************************)
(* Proofs about the edge for any number of requests, tokens and scopes, any*)
(* credential lifetime and renewal skew.                                   *)
(***************************************************************************)
EXTENDS Edge, TLAPS

\* The flight table lists exactly the exchanges under way.
TableInv ==
    /\ \A r \in Requests : Owns(r) => inflight[Key(tok[r])] = r
    /\ \A k \in Keys : inflight[k] # NoReq => Owns(inflight[k]) /\ Key(tok[inflight[k]]) = k

\* A waiter waits for a request of its key that has still to close the flight.
WaitInv ==
    \A r \in Requests : pc[r] = "wait" =>
        /\ ref[r] \in Requests /\ (Owns(ref[r]) \/ pc[ref[r]] = "close")
        /\ Key(tok[ref[r]]) = Key(tok[r])

TokInv == \A r \in Requests : pc[r] # "idle" => tok[r] \in Tokens

\* Credentials in the cache and in hand are of the key they are kept under.
CredInv ==
    /\ \A k \in Keys : cache[k] # NoCred => Key(cache[k]) = k
    /\ \A r \in Requests :
         /\ cred[r] # NoCred => pc[r] # "idle" /\ Key(cred[r]) = Key(tok[r])
         /\ pc[r] \in {"issued", "forward"} => cred[r] # NoCred
         /\ pc[r] \in {"idle", "resolve", "exchange", "refused", "wait"} => cred[r] = NoCred

\* A credential with an expiry was live with renewSkew to spare at time at, or was
\* issued lag before it.
TimeInv ==
    \A r \in Requests :
        /\ at[r] <= now
        /\ pc[r] \in {"idle", "resolve", "exchange", "refused", "issued"} => lag[r] = 0
        /\ cred[r] # NoCred /\ cred[r].exp # 0 =>
             at[r] + Skew < cred[r].exp \/ cred[r].exp + lag[r] = at[r] + Ttl
        /\ pc[r] = "issued" /\ cred[r].exp # 0 => cred[r].exp = at[r] + Ttl

IInv == TypeOK /\ TokInv /\ TableInv /\ WaitInv /\ CredInv /\ TimeInv

\* Every token has a key (Resolve's cacheKey).
LEMMA KeyType == \A t \in Tokens : Key(t) \in Keys
  BY EdgeAssumption DEF Key, Keys

\* Tokens and credentials of one key agree on scope and intent.
LEMMA KeySame == \A s, t : Key(s) = Key(t) => s.fs = t.fs /\ s.intent = t.intent
  BY DEF Key

\* The invariant survives an answer to a request that owns no flight (Answer).
LEMMA AnswerPreserves ==
    ASSUME IInv, NEW r \in Requests, NEW s \in Statuses,
           pc[r] \in {"idle", "wait", "woken", "forward"},
           Answer(r, s), UNCHANGED <<now, opaque, cache, inflight>>
    PROVE  IInv'
  <1> USE EdgeAssumption DEF IInv
  <1>1. TypeOK'
    BY DEF TypeOK, Answer
  <1>2. TokInv'
    BY DEF TypeOK, TokInv, Answer
  <1>3. /\ \A q \in Requests : q # r =>
             /\ pc'[q] = pc[q] /\ tok'[q] = tok[q] /\ ref'[q] = ref[q]
             /\ cred'[q] = cred[q] /\ at'[q] = at[q] /\ lag'[q] = lag[q]
        /\ pc'[r] = "idle" /\ cred'[r] = NoCred /\ at'[r] = 0 /\ lag'[r] = 0
    BY DEF TypeOK, Answer
  <1>4. ~Owns(r) /\ ~Owns(r)' /\ \A q \in Requests : q # r => Owns(q)' = Owns(q)
    BY <1>3 DEF Owns
  <1>5. TableInv'
    BY <1>3, <1>4 DEF TypeOK, TableInv, Answer
  <1>6. WaitInv'
    BY <1>3, <1>4 DEF TypeOK, WaitInv
  <1>7. CredInv'
    BY <1>3 DEF CredInv
  <1>8. TimeInv'
    BY <1>3 DEF TypeOK, TimeInv
  <1> QED
    BY <1>1, <1>2, <1>5, <1>6, <1>7, <1>8

\* The invariant survives a request's arrival (Arrive).
LEMMA ArrivePreserves == ASSUME IInv, NEW r \in Requests, Arrive(r) PROVE IInv'
  <1>1. PICK t \in Tokens :
          \/ Answer(r, "unauthorized")
          \/ /\ tok' = [tok EXCEPT ![r] = t]
             /\ pc' = [pc EXCEPT ![r] = "resolve"]
             /\ status' = [status EXCEPT ![r] = "none"]
             /\ UNCHANGED <<ref, cred, at, lag>>
    BY DEF Arrive
  <1>2. pc[r] = "idle" /\ UNCHANGED <<now, opaque, cache, inflight>>
    BY DEF Arrive
  <1>3. CASE Answer(r, "unauthorized")
    BY <1>2, <1>3, AnswerPreserves DEF Statuses
  <1>4. CASE /\ tok' = [tok EXCEPT ![r] = t]
             /\ pc' = [pc EXCEPT ![r] = "resolve"]
             /\ status' = [status EXCEPT ![r] = "none"]
             /\ UNCHANGED <<ref, cred, at, lag>>
    <2> USE <1>2, <1>4 DEF IInv
    <2>1. TypeOK'
      BY DEF TypeOK, Statuses
    <2>2. TokInv'
      BY DEF TypeOK, TokInv
    <2>3. TableInv'
      BY DEF TypeOK, TableInv, Owns
    <2>4. WaitInv'
      BY DEF TypeOK, WaitInv, Owns
    <2>5. CredInv'
      BY DEF TypeOK, CredInv
    <2>6. TimeInv'
      BY DEF TypeOK, CredInv, TimeInv
    <2> QED
      BY <2>1, <2>2, <2>3, <2>4, <2>5, <2>6
  <1> QED
    BY <1>1, <1>3, <1>4

\* The invariant survives a cache hit (Hit).
LEMMA HitPreserves == ASSUME IInv, NEW r \in Requests, Hit(r) PROVE IInv'
  <1> USE EdgeAssumption DEF IInv
  <1>1. TypeOK'
    BY KeyType DEF TypeOK, TokInv, TimeInv, CredInv, Creds, Owns, Hit, IsLive
  <1>2. TokInv'
    BY DEF TypeOK, TokInv, Owns, Hit, IsLive
  <1>3. TableInv'
    BY KeyType DEF TypeOK, TokInv, TableInv, Owns, Hit, IsLive
  <1>4. WaitInv'
    BY KeyType DEF TypeOK, TokInv, TableInv, WaitInv, Owns, Hit, IsLive
  <1>5. CredInv'
    BY KeyType DEF TypeOK, TokInv, CredInv, WaitInv, Owns, Hit, IsLive
  <1>6. TimeInv'
    BY KeyType DEF TypeOK, TokInv, CredInv, TimeInv, WaitInv, Owns, Creds, Hit, IsLive
  <1> QED
    BY <1>1, <1>2, <1>3, <1>4, <1>5, <1>6

\* The invariant survives joining a flight (Join).
LEMMA JoinPreserves == ASSUME IInv, NEW r \in Requests, Join(r) PROVE IInv'
  <1> USE EdgeAssumption DEF IInv
  <1>1. TypeOK'
    BY KeyType DEF TypeOK, TokInv, TimeInv, CredInv, Creds, Owns, Join, Stale
  <1>2. TokInv'
    BY DEF TypeOK, TokInv, Owns, Join, Stale
  <1>3. TableInv'
    BY KeyType DEF TypeOK, TokInv, TableInv, Owns, Join, Stale
  <1>4. WaitInv'
    BY KeyType DEF TypeOK, TokInv, TableInv, WaitInv, Owns, Join, Stale
  <1>5. CredInv'
    BY KeyType DEF TypeOK, TokInv, CredInv, WaitInv, Owns, Join, Stale
  <1>6. TimeInv'
    BY KeyType DEF TypeOK, TokInv, CredInv, TimeInv, WaitInv, Owns, Creds, Join, Stale
  <1> QED
    BY <1>1, <1>2, <1>3, <1>4, <1>5, <1>6

\* The invariant survives starting a flight (Lead).
LEMMA LeadPreserves == ASSUME IInv, NEW r \in Requests, Lead(r) PROVE IInv'
  <1> USE EdgeAssumption DEF IInv
  <1>1. TypeOK'
    BY KeyType DEF TypeOK, TokInv, TimeInv, CredInv, Creds, Owns, Lead, Stale
  <1>2. TokInv'
    BY DEF TypeOK, TokInv, Owns, Lead, Stale
  <1>3. TableInv'
    BY KeyType DEF TypeOK, TokInv, TableInv, Owns, Lead, Stale
  <1>4. WaitInv'
    BY KeyType DEF TypeOK, TokInv, TableInv, WaitInv, Owns, Lead, Stale
  <1>5. CredInv'
    BY KeyType DEF TypeOK, TokInv, CredInv, WaitInv, Owns, Lead, Stale
  <1>6. TimeInv'
    BY KeyType DEF TypeOK, TokInv, CredInv, TimeInv, WaitInv, Owns, Creds, Lead, Stale
  <1> QED
    BY <1>1, <1>2, <1>3, <1>4, <1>5, <1>6

\* The invariant survives the peer's answer (Issue).
LEMMA IssuePreserves == ASSUME IInv, NEW r \in Requests, Issue(r) PROVE IInv'
  <1> USE EdgeAssumption DEF IInv
  <1>1. TypeOK'
    BY KeyType DEF TypeOK, TokInv, TimeInv, CredInv, Creds, Owns, Issue, Credential, Verify
  <1>2. TokInv'
    BY DEF TypeOK, TokInv, Owns, Issue, Credential, Verify
  <1>3. TableInv'
    BY KeyType DEF TypeOK, TokInv, TableInv, Owns, Issue, Credential, Verify
  <1>4. WaitInv'
    BY KeyType DEF TypeOK, TokInv, TableInv, WaitInv, Owns, Issue, Credential, Verify
  <1>5. CredInv'
    <2>1. CASE pc'[r] = "issued"
      <3>1. cred'[r] \in Creds /\ Key(cred'[r]) = Key(tok[r])
        BY <2>1 DEF TypeOK, TokInv, Creds, Key, Issue, Credential
      <3>2. cred'[r] # NoCred
        BY <3>1
      <3> QED
        BY <3>1, <3>2, <2>1 DEF TypeOK, CredInv, Issue
    <2>2. CASE pc'[r] = "refused"
      BY <2>2 DEF TypeOK, CredInv, Issue
    <2> QED
      BY <2>1, <2>2 DEF TypeOK, Issue
  <1>6. TimeInv'
    BY SMTT(40), KeyType DEF TypeOK, TokInv, CredInv, TimeInv, WaitInv, Owns, Creds, Issue, Credential, Verify
  <1> QED
    BY <1>1, <1>2, <1>3, <1>4, <1>5, <1>6

\* The invariant survives settling a flight (Settle).
LEMMA SettlePreserves == ASSUME IInv, NEW r \in Requests, Settle(r) PROVE IInv'
  <1> USE EdgeAssumption DEF IInv
  <1>1. TypeOK'
    BY SMTT(40), KeyType DEF TypeOK, TokInv, TimeInv, CredInv, Creds, Owns, Settle
  <1>2. TokInv'
    BY DEF TypeOK, TokInv, Owns, Settle
  <1>3. TableInv'
    BY KeyType DEF TypeOK, TokInv, TableInv, Owns, Settle
  <1>4. WaitInv'
    BY KeyType DEF TypeOK, TokInv, TableInv, WaitInv, Owns, Settle
  <1>5. CredInv'
    BY KeyType DEF TypeOK, TokInv, CredInv, WaitInv, Owns, Settle
  <1>6. TimeInv'
    <2>1. cred[r] \in Creds /\ lag[r] = 0 /\ at[r] <= now
      BY DEF TypeOK, CredInv, TimeInv, Settle
    <2>2. cred[r].exp # 0 => cred[r].exp = at[r] + Ttl
      BY <2>1 DEF CredInv, TimeInv, TypeOK, Creds, Settle
    <2> QED
      BY <2>1, <2>2 DEF TypeOK, TimeInv, Creds, Settle
  <1> QED
    BY <1>1, <1>2, <1>3, <1>4, <1>5, <1>6

\* The invariant survives a failed exchange (ExchangeFails).
LEMMA ExchangeFailsPreserves == ASSUME IInv, NEW r \in Requests, ExchangeFails(r) PROVE IInv'
  <1> USE EdgeAssumption DEF IInv
  <1>1. TypeOK'
    BY KeyType DEF TypeOK, TokInv, TimeInv, CredInv, Creds, Owns, ExchangeFails
  <1>2. TokInv'
    BY DEF TypeOK, TokInv, Owns, ExchangeFails
  <1>3. TableInv'
    BY KeyType DEF TypeOK, TokInv, TableInv, Owns, ExchangeFails
  <1>4. WaitInv'
    BY KeyType DEF TypeOK, TokInv, TableInv, WaitInv, Owns, ExchangeFails
  <1>5. CredInv'
    BY KeyType DEF TypeOK, TokInv, CredInv, WaitInv, Owns, ExchangeFails
  <1>6. TimeInv'
    BY KeyType DEF TypeOK, TokInv, CredInv, TimeInv, WaitInv, Owns, Creds, ExchangeFails
  <1> QED
    BY <1>1, <1>2, <1>3, <1>4, <1>5, <1>6

\* The invariant survives closing a flight (Close).
LEMMA ClosePreserves == ASSUME IInv, NEW r \in Requests, Close(r) PROVE IInv'
  <1> USE EdgeAssumption DEF IInv
  <1>1. TypeOK'
    BY KeyType DEF TypeOK, TokInv, TimeInv, CredInv, Creds, Owns, Close
  <1>2. TokInv'
    BY DEF TypeOK, TokInv, Owns, Close
  <1>3. TableInv'
    BY KeyType DEF TypeOK, TokInv, TableInv, Owns, Close
  <1>4. WaitInv'
    BY KeyType DEF TypeOK, TokInv, TableInv, WaitInv, Owns, Close
  <1>5. CredInv'
    BY KeyType DEF TypeOK, TokInv, CredInv, WaitInv, Owns, Close
  <1>6. TimeInv'
    BY KeyType DEF TypeOK, TokInv, CredInv, TimeInv, WaitInv, Owns, Creds, Close
  <1> QED
    BY <1>1, <1>2, <1>3, <1>4, <1>5, <1>6
\* The invariant survives a flight's result being read (Woken).
LEMMA WokenPreserves == ASSUME IInv, NEW r \in Requests, Woken(r) PROVE IInv'
  <1>1. pc[r] = "woken" /\ UNCHANGED <<now, opaque, cache, inflight>>
    BY DEF Woken
  <1>2. CASE Answer(r, "unauthorized")
    BY <1>1, <1>2, AnswerPreserves DEF Statuses
  <1>3. CASE /\ cred[r] # NoCred
             /\ pc' = [pc EXCEPT ![r] = "forward"]
             /\ UNCHANGED <<tok, ref, cred, at, lag, status>>
    <2> USE <1>1, <1>3 DEF IInv
    <2>1. TypeOK'
      BY DEF TypeOK
    <2>2. TokInv'
      BY DEF TypeOK, TokInv
    <2>3. TableInv'
      BY DEF TypeOK, TableInv, Owns
    <2>4. WaitInv'
      BY DEF TypeOK, WaitInv, Owns
    <2>5. CredInv'
      BY DEF TypeOK, CredInv
    <2>6. TimeInv'
      BY DEF TypeOK, CredInv, TimeInv
    <2> QED
      BY <2>1, <2>2, <2>3, <2>4, <2>5, <2>6
  <1> QED
    BY <1>2, <1>3 DEF Woken

\* The invariant survives a cancelled wait, an unreachable filestore and the
\* filestore's verdict.
LEMMA AnswersPreserve ==
    ASSUME IInv, NEW r \in Requests, GiveUp(r) \/ Unreachable(r) \/ Admit(r) PROVE IInv'
  <1>1. CASE GiveUp(r)
    BY <1>1, AnswerPreserves DEF GiveUp, Statuses
  <1>2. CASE Unreachable(r)
    BY <1>2, AnswerPreserves DEF Unreachable, Statuses
  <1>3. CASE Admit(r)
    <2>1. PICK s \in Statuses : Answer(r, s)
      BY <1>3 DEF Admit, Authorize, Statuses
    <2> QED
      BY <1>3, <2>1, AnswerPreserves DEF Admit
  <1> QED
    BY <1>1, <1>2, <1>3

\* IInv is an inductive invariant of the edge.
THEOREM EdgeInductive == Spec => []IInv
  <1>1. Init => IInv
    <2> SUFFICES ASSUME Init PROVE IInv
      OBVIOUS
    <2>1. TypeOK
      BY EdgeAssumption DEF Init, TypeOK, Statuses
    <2>2. TokInv /\ TableInv /\ WaitInv /\ CredInv
      BY DEF Init, TokInv, TableInv, WaitInv, CredInv, Owns
    <2>3. TimeInv
      <3>1. \A r \in Requests : pc[r] = "idle" /\ cred[r] = NoCred /\ at[r] = 0 /\ lag[r] = 0
        BY DEF Init
      <3>2. now = 0
        BY DEF Init
      <3>3. \A r \in Requests : at[r] <= now
        <4>1. 0 <= 0
          OBVIOUS
        <4> QED
          BY <3>1, <3>2, <4>1, Zenon
      <3> QED
        BY <3>1, <3>3, Zenon DEF TimeInv
    <2> QED
      BY <2>1, <2>2, <2>3 DEF IInv
  <1>2. IInv /\ [Next]_vars => IInv'
    <2> SUFFICES ASSUME IInv, [Next]_vars PROVE IInv'
      OBVIOUS
    <2>1. CASE Tick
      <3> USE <2>1, EdgeAssumption DEF Tick, reqVars, IInv
      <3>1. TypeOK'
        BY DEF TypeOK
      <3>2. TokInv' /\ TableInv'
        BY DEF TokInv, TableInv, Owns
      <3>3. WaitInv' /\ CredInv'
        BY DEF WaitInv, CredInv, Owns
      <3>4. TimeInv'
        BY DEF TypeOK, TimeInv
      <3> QED
        BY <3>1, <3>2, <3>3, <3>4
    <2>2. CASE UNCHANGED vars
      <3> USE <2>2 DEF vars, reqVars, IInv
      <3>1. TypeOK'
        BY DEF TypeOK
      <3>2. TokInv' /\ TableInv'
        BY DEF TokInv, TableInv, Owns
      <3>3. WaitInv' /\ CredInv'
        BY DEF WaitInv, CredInv, Owns
      <3>4. TimeInv'
        BY DEF TypeOK, TimeInv
      <3> QED
        BY <3>1, <3>2, <3>3, <3>4
    <2>3. ASSUME NEW r \in Requests, Arrive(r) \/ Serve(r) \/ GiveUp(r)
          PROVE  IInv'
      BY <2>3, ArrivePreserves, HitPreserves, JoinPreserves, LeadPreserves, IssuePreserves,
         SettlePreserves, ExchangeFailsPreserves, ClosePreserves, WokenPreserves, AnswersPreserve
      DEF Serve, Resolving, Exchange
    <2> QED
      BY <2>1, <2>2, <2>3 DEF Next
  <1> QED
    BY <1>1, <1>2, PTL DEF Spec

\* The type invariant of the edge.
THEOREM EdgeTypes == Spec => []TypeOK
  BY EdgeInductive, PTL DEF IInv

\* One key never has two exchanges under way, however many requests stampede
\* (Resolve keeps lookup, eviction and registration in one critical section).
THEOREM SingleFlightHolds == Spec => []SingleFlight
  <1>1. IInv => SingleFlight
    BY DEF IInv, TableInv, SingleFlight
  <1> QED
    BY <1>1, EdgeInductive, PTL

\* No waiter is left behind by a flight that has been closed (Resolve).
THEOREM FlightsOwned == Spec => []FlightsAreOwned
  <1>1. IInv => FlightsAreOwned
    BY DEF IInv, TableInv, WaitInv, FlightsAreOwned
  <1> QED
    BY <1>1, EdgeInductive, PTL

\* The credential the edge injects is of its request's own scope and intent
\* (Resolve's key, the exchange's binding and ServeHTTP together).
THEOREM ScopesIsolated == Spec => []ScopeIsolation
  <1>1. IInv => ScopeIsolation
    BY KeySame DEF IInv, CredInv, ScopeIsolation
  <1> QED
    BY <1>1, EdgeInductive, PTL

\* A credential is found expired only when the request or the exchange was slow
\* (isLive's renewSkew).
THEOREM ExpiryBounded == Spec => ExpiredOnlyIfSlow
  <1> DEFINE Bounded(r) == status[r] # "expired" /\ status'[r] = "expired" =>
                              now - at[r] >= Skew \/ lag[r] + Skew > Ttl
  <1>1. ASSUME IInv, [Next]_vars, NEW r \in Requests,
               status[r] # "expired", status'[r] = "expired"
        PROVE  Admit(r) /\ cred[r].exp # 0 /\ now >= cred[r].exp
    <2>1. PICK q \in Requests : Arrive(q) \/ Serve(q) \/ GiveUp(q)
      BY <1>1 DEF Next, vars, reqVars, Tick
    <2>2. Admit(q)
      <3> USE <1>1 DEF IInv, TypeOK
      <3>1. ~Arrive(q)
        BY DEF Arrive, Answer
      <3>2. ~Resolving(q)
        BY DEF Resolving, Hit, Join, Lead
      <3>3. ~Exchange(q)
        BY DEF Exchange, Issue, Settle, ExchangeFails, Close
      <3>4. ~Woken(q) /\ ~Unreachable(q) /\ ~GiveUp(q)
        BY DEF Woken, Unreachable, GiveUp, Answer
      <3> QED
        BY <2>1, <3>1, <3>2, <3>3, <3>4 DEF Serve
    <2>3. PICK f \in Scopes :
            Answer(q, IF ~Validate(cred[q]) THEN "expired" ELSE Authorize(cred[q], f))
      BY <2>2 DEF Admit
    <2>4. q = r /\ ~Validate(cred[q])
      BY <1>1, <2>3 DEF IInv, TypeOK, Answer, Authorize
    <2>5. cred[r] \in Creds /\ now \in Int
      BY <1>1, <2>2, <2>4 DEF Admit, CredInv, IInv, TypeOK
    <2> QED
      BY <2>2, <2>4, <2>5 DEF Validate, Creds
  <1>2. ASSUME IInv, [Next]_vars, NEW r \in Requests PROVE Bounded(r)
    <2> SUFFICES ASSUME status[r] # "expired", status'[r] = "expired"
                 PROVE  now - at[r] >= Skew \/ lag[r] + Skew > Ttl
      OBVIOUS
    <2>1. Admit(r) /\ cred[r].exp # 0 /\ now >= cred[r].exp
      BY <1>1, <1>2
    <2>2. cred[r] # NoCred /\ cred[r].exp \in Nat
      BY <1>2, <2>1 DEF IInv, TypeOK, CredInv, Admit, Creds
    <2>3. at[r] + Skew < cred[r].exp \/ cred[r].exp + lag[r] = at[r] + Ttl
      BY <1>2, <2>1, <2>2 DEF IInv, TimeInv
    <2> QED
      BY <1>2, <2>1, <2>2, <2>3, EdgeAssumption DEF IInv, TypeOK
  <1>3. IInv /\ [Next]_vars => [\A r \in Requests : Bounded(r)]_vars
    BY <1>2
  <1> QED
    BY <1>3, EdgeInductive, PTL DEF Spec, ExpiredOnlyIfSlow
=============================================================================
