---------------------------- MODULE RedisRelayer ----------------------------
(***************************************************************************)
(* Several payment-relayer instances sharing one Redis: RedisIdempotency   *)
(* (settleOnce across instances) around RedisLock (the facilitator lock),  *)
(* one action per Redis round trip.                                        *)
(*                                                                         *)
(* Time is counted in ticks of 30 s, as what is left of each TTL and what  *)
(* has passed of each wait.  The requests are pooled settles: they hold    *)
(* the lock for two withTimeout of one tick each.  The closures of adapter *)
(* settles and of /register-creator have no timer under the lock: they are *)
(* its other clients, whose hold nothing bounds.  Each resolve() and each  *)
(* run() draws a fresh token; as an instance has one of each per key       *)
(* (localInFlight), the pair <<instance, key>> stands for it.              *)
(***************************************************************************)
EXTENDS Naturals, FiniteSets

CONSTANTS Instances, Keys,
          MarkerTtl,        \* 3: markerTtlMs = 90 s
          LockTtl,          \* 3: ttlMs = 90 s
          AcquireTimeout,   \* 4: acquireTimeoutMs = 120 s
          HoldLimit,        \* 2: submit and distribute, 30 s each
          NoToken, Other,   \* no token; the token of an adapter settle or a registration
          MaxRequests,      \* bound on requests
          MaxCrashes        \* bound on instance crashes

ASSUME TimesAssumption == /\ {MarkerTtl, LockTtl, AcquireTimeout, HoldLimit} \subseteq Nat \ {0}
                          /\ HoldLimit < LockTtl
ASSUME BoundsAssumption == {MaxRequests, MaxCrashes} \subseteq Nat
ASSUME TokensAssumption == /\ NoToken # Other
                           /\ {NoToken, Other} \cap (Instances \cup Instances \X Keys) = {}

VARIABLES
  pc,          \* pc[i][k]: where settleOnce(k) of instance i is
  result,      \* result[i][k]: how its callback ended
  marker,      \* Redis: marker[k], the owner of the in-flight marker
  markerLeft,  \* Redis: ticks the marker has left
  lock,        \* Redis: the token in the facilitator lock
  lockLeft,    \* Redis: ticks the lock has left
  cache,       \* Redis: keys with a cached success
  age,         \* age[i][k]: ticks spent acquiring, then ticks spent holding
  consumed,    \* ledger: payments whose authorization is spent
  requests, crashes

allVars == <<pc, result, marker, markerLeft, lock, lockLeft, cache, age,
          consumed, requests, crashes>>
redisVars == <<marker, markerLeft, lock, lockLeft, cache>>
boundVars == <<requests, crashes>>

Pcs == {"idle", "get", "claim", "acquire", "body", "release", "store", "unmark"}

RedisTypeOK == /\ pc \in [Instances -> [Keys -> Pcs]]
               /\ result \in [Instances -> [Keys -> {"none", "ok", "err"}]]
               /\ marker \in [Keys -> Instances \cup {NoToken}]
               /\ markerLeft \in [Keys -> 0..MarkerTtl]
               /\ \A k \in Keys : (marker[k] = NoToken) <=> (markerLeft[k] = 0)
               /\ lock \in (Instances \X Keys) \cup {NoToken, Other}
               /\ lockLeft \in 0..LockTtl
               /\ (lock = NoToken) <=> (lockLeft = 0)
               /\ cache \subseteq Keys
               /\ age \in [Instances -> [Keys -> Nat]]
               /\ consumed \subseteq Keys
               /\ requests \in 0..MaxRequests
               /\ crashes \in 0..MaxCrashes

Each(v) == [i \in Instances |-> [k \in Keys |-> v]]

RedisInit == /\ pc = Each("idle")
             /\ result = Each("none")
             /\ marker = [k \in Keys |-> NoToken]
             /\ markerLeft = [k \in Keys |-> 0]
             /\ lock = NoToken
             /\ lockLeft = 0
             /\ cache = {}
             /\ age = Each(0)
             /\ consumed = {}
             /\ requests = 0
             /\ crashes = 0

Goto(i, k, from, to) == pc[i][k] = from /\ pc' = [pc EXCEPT ![i][k] = to]
InCallback(i, k) == pc[i][k] \in {"acquire", "body", "release"}

-----------------------------------------------------------------------------
(* RedisIdempotency *)

\* A request that finds no local promise for its key; the others share that one.
SettleOnce(i, k) ==
  /\ requests < MaxRequests
  /\ Goto(i, k, "idle", "get")
  /\ requests' = requests + 1
  /\ UNCHANGED <<result, redisVars, age, consumed, crashes>>

\* GET of the cached result: answer it, or try for the marker.
ReadCache(i, k) ==
  /\ \/ k \in cache /\ Goto(i, k, "get", "idle")
     \/ k \notin cache /\ Goto(i, k, "get", "claim")
  /\ UNCHANGED <<result, redisVars, age, consumed, boundVars>>

\* SET NX PX of the marker: run the callback, or sleep and look again.
Claim(i, k) ==
  /\ \/ /\ marker[k] = NoToken
        /\ Goto(i, k, "claim", "acquire")
        /\ marker' = [marker EXCEPT ![k] = i]
        /\ markerLeft' = [markerLeft EXCEPT ![k] = MarkerTtl]
     \/ /\ marker[k] # NoToken
        /\ Goto(i, k, "claim", "get")
        /\ UNCHANGED <<marker, markerLeft>>
  /\ UNCHANGED <<result, lock, lockLeft, cache, age, consumed, boundVars>>

\* The callback is over: its success is stored, unless the SET itself fails; a
\* rejection is not.
Store(i, k) ==
  /\ Goto(i, k, "store", "unmark")
  /\ \/ result[i][k] = "ok" /\ cache' = cache \cup {k}
     \/ UNCHANGED cache
  /\ UNCHANGED <<result, marker, markerLeft, lock, lockLeft, age, consumed, boundVars>>

\* releaseMarker: compare the token and DEL; best effort, the TTL frees it too.
Unmark(i, k) ==
  /\ Goto(i, k, "unmark", "idle")
  /\ result' = [result EXCEPT ![i][k] = "none"]
  /\ \/ /\ marker[k] = i
        /\ marker' = [marker EXCEPT ![k] = NoToken]
        /\ markerLeft' = [markerLeft EXCEPT ![k] = 0]
     \/ UNCHANGED <<marker, markerLeft>>
  /\ UNCHANGED <<lock, lockLeft, cache, age, consumed, boundVars>>

-----------------------------------------------------------------------------
(* RedisLock and what runs under it *)

\* SET NX PX of the lock; after acquireTimeoutMs of failures, throw.
Acquire(i, k) ==
  \/ /\ lock = NoToken
     /\ Goto(i, k, "acquire", "body")
     /\ lock' = <<i, k>>
     /\ lockLeft' = LockTtl
     /\ age' = [age EXCEPT ![i][k] = 0]
     /\ UNCHANGED <<result, marker, markerLeft, cache, consumed, boundVars>>
  \/ /\ lock # NoToken
     /\ age[i][k] > AcquireTimeout
     /\ Goto(i, k, "acquire", "store")
     /\ result' = [result EXCEPT ![i][k] = "err"]
     /\ age' = [age EXCEPT ![i][k] = 0]
     /\ UNCHANGED <<redisVars, consumed, boundVars>>

\* The closure ends.  It succeeds only if this submission spends the client's
\* authorization; it may fail with the authorization spent all the same.
EndBody(i, k) ==
  /\ Goto(i, k, "body", "release")
  /\ \/ /\ k \notin consumed
        /\ consumed' = consumed \cup {k}
        /\ \E r \in {"ok", "err"} : result' = [result EXCEPT ![i][k] = r]
     \/ /\ result' = [result EXCEPT ![i][k] = "err"]
        /\ UNCHANGED consumed
  /\ age' = [age EXCEPT ![i][k] = 0]
  /\ UNCHANGED <<redisVars, boundVars>>

\* A plausible mistake: DEL of the lock without comparing the token.
ReleaseAnyway(i, k) ==
  /\ Goto(i, k, "release", "store")
  /\ lock' = NoToken
  /\ lockLeft' = 0
  /\ UNCHANGED <<result, marker, markerLeft, cache, age, consumed, boundVars>>

\* release: compare the token and DEL; best effort, the TTL frees it too.
ReleaseLock(i, k) ==
  /\ Goto(i, k, "release", "store")
  /\ \/ lock = <<i, k>> /\ lock' = NoToken /\ lockLeft' = 0
     \/ UNCHANGED <<lock, lockLeft>>
  /\ UNCHANGED <<result, marker, markerLeft, cache, age, consumed, boundVars>>

\* Another closure takes the lock, and ends if its token is still there.
OtherTakes ==
  /\ lock = NoToken
  /\ lock' = Other
  /\ lockLeft' = LockTtl
  /\ UNCHANGED <<pc, result, marker, markerLeft, cache, age, consumed, boundVars>>

OtherEnds ==
  /\ lock = Other
  /\ lock' = NoToken
  /\ lockLeft' = 0
  /\ UNCHANGED <<pc, result, marker, markerLeft, cache, age, consumed, boundVars>>

-----------------------------------------------------------------------------
\* The process of instance i dies; its keys in Redis stay until their TTL.
Crash(i) ==
  /\ crashes < MaxCrashes
  /\ \E k \in Keys : pc[i][k] # "idle"
  /\ crashes' = crashes + 1
  /\ pc' = [pc EXCEPT ![i] = [k \in Keys |-> "idle"]]
  /\ result' = [result EXCEPT ![i] = [k \in Keys |-> "none"]]
  /\ age' = [age EXCEPT ![i] = [k \in Keys |-> 0]]
  /\ UNCHANGED <<redisVars, consumed, requests>>

Less(n) == IF n = 0 THEN 0 ELSE n - 1
Timed(i, k) == pc[i][k] = "body" \/ (pc[i][k] = "acquire" /\ age[i][k] <= AcquireTimeout)
Until(left, token) == IF left <= 1 THEN NoToken ELSE token

\* No withTimeout has to fire before the next 30 s have passed.
TimeMayPass == \A i \in Instances, k \in Keys : pc[i][k] = "body" => age[i][k] < HoldLimit

\* A plausible mistake: the lock and the marker are kept past their TTL.
TickKeepsTokens ==
  /\ TimeMayPass
  /\ markerLeft' = [k \in Keys |-> Less(markerLeft[k])]
  /\ lockLeft' = Less(lockLeft)
  /\ age' = [i \in Instances |-> [k \in Keys |->
               IF Timed(i, k) THEN age[i][k] + 1 ELSE age[i][k]]]
  /\ UNCHANGED <<pc, result, marker, lock, cache, consumed, boundVars>>

\* 30 s pass, unless a withTimeout has to fire first.
Tick ==
  /\ TimeMayPass
  /\ markerLeft' = [k \in Keys |-> Less(markerLeft[k])]
  /\ marker' = [k \in Keys |-> Until(markerLeft[k], marker[k])]
  /\ lockLeft' = Less(lockLeft)
  /\ lock' = Until(lockLeft, lock)
  /\ age' = [i \in Instances |-> [k \in Keys |->
               IF Timed(i, k) THEN age[i][k] + 1 ELSE age[i][k]]]
  /\ UNCHANGED <<pc, result, cache, consumed, boundVars>>

Step(i, k) == \/ ReadCache(i, k) \/ Claim(i, k) \/ Acquire(i, k) \/ EndBody(i, k)
              \/ ReleaseLock(i, k) \/ Store(i, k) \/ Unmark(i, k)

RedisNext == \/ \E i \in Instances, k \in Keys : SettleOnce(i, k) \/ Step(i, k)
             \/ \E i \in Instances : Crash(i)
             \/ OtherTakes \/ OtherEnds \/ Tick

\* Instances that run and Redis make progress, and time passes.
RedisSpec == /\ RedisInit /\ [][RedisNext]_allVars
             /\ \A i \in Instances, k \in Keys : WF_allVars(Step(i, k))
             /\ WF_allVars(Tick)

-----------------------------------------------------------------------------
(* Properties *)

\* lock.ts:44-48: the lock never expires in the middle of a pooled settle, and no
\* expired or failed holder gives away the lock of the next one: no two pooled
\* settles are under the lock at once, on any instances.
BoundedHoldsExclude ==
  \A i, j \in Instances, k, l \in Keys :
    (pc[i][k] = "body" /\ pc[j][l] = "body") => (i = j /\ k = l)

\* Every request is answered: a crashed owner's marker and lock expire, a lock
\* that cannot be had is given up, a peer that waits for a result re-claims.
RequestsEnd == \A i \in Instances, k \in Keys : pc[i][k] # "idle" ~> pc[i][k] = "idle"

=============================================================================
