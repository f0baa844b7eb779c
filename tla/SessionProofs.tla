--------------------------- MODULE SessionProofs ---------------------------
(***************************************************************************)
(* The API and the page, for any number of clicks, publishes, failures and *)
(* switches, any rows and any pool size.  Three invariants, each resting   *)
(* on those before:                                                        *)
(*                                                                         *)
(*   Slots, Pools      A request opens a pool only if it saw none, so there*)
(*                     are never more than clicks and one for a tile, opened*)
(*                     and being opened together; what a pool handed out,  *)
(*                     handlers hold.                                      *)
(*   Serving,          An id is given to one row only: a row that was drawn*)
(*   Remembered        once is the row of its id, if there is one still.   *)
(*   Single, Awaited   While the page is not overtaken, one request at most*)
(*                     is under way, and it is about the clicked row.      *)
(*                                                                         *)
(* At the end, what the labels of the intervals say of their lengths.      *)
(***************************************************************************)
EXTENDS Session, FiniteSetTheorems, WellFoundedInduction, TLAPS

-----------------------------------------------------------------------------
(* The requests and the pools. *)

States == {"idle", "received", "opening", "waiting", "executing", "answered"}

\* q has the fields of a request, and stands at one of its states.
IsRequest(q) ==
    /\ q = [path |-> q.path, arg |-> q.arg, at |-> q.at, pool |-> q.pool,
            answer |-> q.answer]
    /\ q.at \in States

Opening == { r \in Requests : At(r, "opening") }
Holders(p) == { r \in Requests : At(r, "executing") /\ request[r].pool = p }

Slots ==
    /\ request = [r \in Requests |-> request[r]]
    /\ \A r \in Requests :
         /\ IsRequest(request[r])
         /\ r > clicks => At(r, "idle")
         /\ request[r].at \in {"waiting", "executing"} => request[r].pool \in 1..pools

Pools ==
    /\ clicks \in 0..MaxClicks
    /\ pools \in Nat /\ out \in [PoolIds -> Nat]
    /\ pools + Cardinality(Opening) <= clicks + 1
    /\ IF _POOL = None THEN pools = 0 ELSE _POOL \in 1..pools

IInv == Slots /\ Pools /\ PoolsAccounted

-----------------------------------------------------------------------------
LEMMA FiniteRequests ==
    ASSUME NEW S \in SUBSET Requests
    PROVE  IsFiniteSet(S) /\ Cardinality(S) \in Nat
<1>0. MaxClicks \in Nat /\ Requests = 1..MaxClicks
  BY SessionAssumption
<1>1. IsFiniteSet(Requests)
  BY <1>0, FS_Interval
<1> QED
  BY <1>1, FS_Subset, FS_CardinalityType

LEMMA PoolNumbers == PoolIds = 1..(MaxClicks + 1)
<1>1. MaxClicks \in Nat /\ Requests = 1..MaxClicks
  BY SessionAssumption
<1>2. Cardinality(Requests) = MaxClicks
  BY <1>1, FS_Interval
<1> QED
  BY <1>2 DEF PoolIds

\* Changing one field of a request leaves the others.
LEMMA AtField ==
    ASSUME NEW q, IsRequest(q), NEW where \in States
    PROVE  /\ IsRequest([q EXCEPT !.at = where])
           /\ [q EXCEPT !.at = where].at = where
           /\ [q EXCEPT !.at = where].pool = q.pool
           /\ [q EXCEPT !.at = where].path = q.path
           /\ [q EXCEPT !.at = where].arg = q.arg
<1>1. q = [path |-> q.path, arg |-> q.arg, at |-> q.at, pool |-> q.pool,
           answer |-> q.answer]
  BY DEF IsRequest
<1>2. [q EXCEPT !.at = where] =
        [path |-> q.path, arg |-> q.arg, at |-> where, pool |-> q.pool,
         answer |-> q.answer]
  BY <1>1
<1> QED
  BY <1>2 DEF IsRequest

LEMMA PoolField ==
    ASSUME NEW q, IsRequest(q), NEW p
    PROVE  /\ IsRequest([q EXCEPT !.pool = p])
           /\ [q EXCEPT !.pool = p].at = q.at
           /\ [q EXCEPT !.pool = p].path = q.path
           /\ [q EXCEPT !.pool = p].arg = q.arg
           /\ [q EXCEPT !.pool = p].pool = p
<1>1. q = [path |-> q.path, arg |-> q.arg, at |-> q.at, pool |-> q.pool,
           answer |-> q.answer]
  BY DEF IsRequest
<1>2. [q EXCEPT !.pool = p] =
        [path |-> q.path, arg |-> q.arg, at |-> q.at, pool |-> p, answer |-> q.answer]
  BY <1>1
<1> QED
  BY <1>2 DEF IsRequest

LEMMA NewlyReceived ==
    ASSUME NEW path, NEW arg
    PROVE  /\ IsRequest(Received(path, arg)) /\ Received(path, arg).at = "received"
           /\ Received(path, arg).path = path /\ Received(path, arg).arg = arg
<1>1. Received(path, arg) =
        [path |-> path, arg |-> arg, at |-> "received", pool |-> None, answer |-> None]
  <2>1. Received(path, arg) =
          [[[Idle EXCEPT !.path = path] EXCEPT !.arg = arg] EXCEPT !.at = "received"]
    BY DEF Received
  <2> QED
    BY <2>1 DEF Idle
<1> QED
  BY <1>1 DEF IsRequest, States

LEMMA NewRequests ==
    /\ IsRequest(Idle) /\ Idle.at = "idle"
    /\ \A body : LET q == [Idle EXCEPT !.at = "answered", !.answer = body]
                 IN  IsRequest(q) /\ q.at = "answered" /\ q.answer = body
<1>2. ASSUME NEW body
      PROVE  [Idle EXCEPT !.at = "answered", !.answer = body] =
               [path |-> None, arg |-> None, at |-> "answered", pool |-> None,
                answer |-> body]
  <2>1. [Idle EXCEPT !.at = "answered", !.answer = body] =
          [[Idle EXCEPT !.at = "answered"] EXCEPT !.answer = body]
    OBVIOUS
  <2>2. [Idle EXCEPT !.at = "answered"] =
          [path |-> None, arg |-> None, at |-> "answered", pool |-> None, answer |-> None]
    BY DEF Idle
  <2>3. ASSUME NEW x, x = [path |-> None, arg |-> None, at |-> "answered", pool |-> None,
                           answer |-> None]
        PROVE  [x EXCEPT !.answer = body] =
                 [path |-> None, arg |-> None, at |-> "answered", pool |-> None,
                  answer |-> body]
    BY <2>3
  <2> QED
    BY <2>1, <2>2, <2>3
<1>3. IsRequest(Idle) /\ Idle.at = "idle"
  BY DEF Idle, IsRequest, States
<1> QED
  BY <1>2, <1>3 DEF IsRequest, States

LEMMA Replaced ==
    ASSUME Slots, NEW r \in Requests, NEW q, request' = [request EXCEPT ![r] = q]
    PROVE  /\ request' = [s \in Requests |-> request'[s]]
           /\ request'[r] = q
           /\ \A s \in Requests \ {r} : request'[s] = request[s]
BY DEF Slots

\* What is not about requests and pools disturbs nothing.
LEMMA Elsewhere ==
    ASSUME IInv, UNCHANGED <<request, _POOL, pools, out, clicks>>
    PROVE  IInv'
BY DEF IInv, Slots, Pools, PoolsAccounted, Opening, At

\* A request that holds nothing goes where it holds nothing.
LEMMA Passes ==
    ASSUME IInv, NEW r \in Requests, NEW q, IsRequest(q),
           request' = [request EXCEPT ![r] = q],
           request[r].at \notin {"opening", "executing"},
           q.at \in {"idle", "received", "answered"},
           UNCHANGED <<_POOL, pools, out>>,
           clicks' \in 0..MaxClicks, clicks <= clicks', r <= clicks'
    PROVE  IInv'
<1> USE DEF IInv, At
<1>1. /\ request' = [s \in Requests |-> request'[s]]
      /\ request'[r] = q
      /\ \A s \in Requests \ {r} : request'[s] = request[s]
  BY Replaced
<1>2. Requests \subseteq Nat /\ clicks \in Nat /\ clicks' \in Nat
  BY SessionAssumption DEF Pools
<1>3. Slots'
  BY <1>1, <1>2 DEF Slots
<1>4. Opening' = Opening
  BY <1>1 DEF Opening
<1>5. Cardinality(Opening) \in Nat
  BY FiniteRequests DEF Opening
<1>6. Pools'
  BY <1>2, <1>4, <1>5 DEF Pools
<1>7. ASSUME NEW p \in PoolIds
      PROVE  { s \in Requests : request'[s].at = "executing" /\ request'[s].pool = p } =
             { s \in Requests : request[s].at = "executing" /\ request[s].pool = p }
  BY <1>1
<1>8. PoolsAccounted'
  BY <1>7 DEF PoolsAccounted
<1> QED
  BY <1>3, <1>6, <1>8

\* A request that has executed gives its connection back.
LEMMA GivesBack ==
    ASSUME IInv, NEW r \in Requests, NEW q, IsRequest(q), At(r, "executing"),
           request' = [request EXCEPT ![r] = q],
           q.at \in {"received", "answered"},
           Release(r), UNCHANGED <<_POOL, pools, clicks>>
    PROVE  IInv'
<1> USE DEF IInv, At
<1>0. PICK pool : pool = request[r].pool
  OBVIOUS
<1>1. /\ request' = [s \in Requests |-> request'[s]]
      /\ request'[r] = q
      /\ \A s \in Requests \ {r} : request'[s] = request[s]
  BY Replaced
<1>2. pool \in 1..pools /\ r <= clicks
  BY <1>0, SessionAssumption DEF Slots, Pools
<1>3. Slots'
  BY <1>1, <1>2 DEF Slots
<1>4. Opening' = Opening
  BY <1>1 DEF Opening
<1>5. pool \in PoolIds
  <2>1. Cardinality(Opening) \in Nat
    BY FiniteRequests DEF Opening
  <2> QED
    BY <1>2, <2>1, PoolNumbers, SessionAssumption DEF Pools
<1>6. Holders(pool)' = Holders(pool) \ {r} /\ r \in Holders(pool)
  BY <1>0, <1>1 DEF Holders
<1>7. \A p \in PoolIds \ {pool} : Holders(p)' = Holders(p)
  BY <1>0, <1>1 DEF Holders
<1>8. /\ IsFiniteSet(Holders(pool)) /\ Cardinality(Holders(pool)) \in Nat
      /\ Cardinality(Holders(pool)') \in Nat
      /\ Cardinality(Holders(pool)') = Cardinality(Holders(pool)) - 1
  <2>1. Holders(pool) \in SUBSET Requests /\ Holders(pool)' \in SUBSET Requests
    BY <1>6 DEF Holders
  <2> QED
    BY <1>6, <2>1, FiniteRequests, FS_RemoveElement
<1>9. /\ out \in [PoolIds -> Nat]
      /\ out[pool] = Cardinality(Holders(pool)) /\ out[pool] <= PoolSize
  BY <1>5 DEF Pools, PoolsAccounted, Holders
<1>10. /\ out' \in [PoolIds -> Nat]
       /\ out'[pool] = Cardinality(Holders(pool)') /\ out'[pool] <= PoolSize
  BY <1>0, <1>5, <1>8, <1>9, SessionAssumption DEF Release
<1>11. \A p \in PoolIds \ {pool} : out'[p] = out[p]
  BY <1>0, <1>5, <1>9 DEF Release
<1>12. Pools'
  BY <1>4, <1>10 DEF Pools
<1>13. ASSUME NEW p \in PoolIds
       PROVE  out'[p] = Cardinality(Holders(p)') /\ out'[p] <= PoolSize
  <2>1. CASE p = pool
    BY <1>10, <2>1
  <2>2. CASE p # pool
    BY <1>7, <1>11, <2>2 DEF PoolsAccounted, Holders
  <2> QED
    BY <2>1, <2>2
<1>14. PoolsAccounted'
  BY <1>13 DEF PoolsAccounted, Holders
<1> QED
  BY <1>3, <1>12, <1>14

LEMMA Found ==
    ASSUME IInv, NEW r \in Requests, FindPool(r)
    PROVE  \E q : /\ request' = [request EXCEPT ![r] = q]
                  /\ IsRequest(q)
                  /\ q.at = IF _POOL = None THEN "opening" ELSE "waiting"
                  /\ q.pool = _POOL /\ q.path = request[r].path /\ q.arg = request[r].arg
<1> DEFINE where == IF _POOL = None THEN "opening" ELSE "waiting"
           y == [request[r] EXCEPT !.at = where]
           q == [y EXCEPT !.pool = _POOL]
<1>1. request' = [request EXCEPT ![r] = [request[r] EXCEPT !.at = where, !.pool = _POOL]]
  BY DEF FindPool, IInv, Slots
<1>2. [request[r] EXCEPT !.at = where, !.pool = _POOL] = q
  OBVIOUS
<1>3. IsRequest(request[r]) /\ where \in States
  BY DEF IInv, Slots, States
<1> HIDE DEF where
<1>4. /\ IsRequest(y) /\ y.at = where /\ y.path = request[r].path
      /\ y.arg = request[r].arg
  BY <1>3, AtField
<1> HIDE DEF y
<1>5. /\ IsRequest(q) /\ q.at = where /\ q.pool = _POOL /\ q.path = request[r].path
      /\ q.arg = request[r].arg
  BY <1>4, PoolField
<1> HIDE DEF q
<1> QED
  BY <1>1, <1>2, <1>5 DEF where

\* Only a request that saw no pool is about to open one.
LEMMA Finds ==
    ASSUME IInv, NEW r \in Requests, FindPool(r), UNCHANGED clicks
    PROVE  IInv'
<1> USE DEF IInv, At
<1>0. PICK where \in States : where = IF _POOL = None THEN "opening" ELSE "waiting"
  BY DEF States
<1>1. PICK q : /\ request' = [request EXCEPT ![r] = q]
               /\ IsRequest(q) /\ q.at = where /\ q.pool = _POOL
  BY <1>0, Found
<1>2. /\ request' = [s \in Requests |-> request'[s]]
      /\ request'[r] = q
      /\ \A s \in Requests \ {r} : request'[s] = request[s]
  BY <1>1, Replaced
<1>3. UNCHANGED <<_POOL, pools, out>>
  BY DEF FindPool, pooling
<1>4. Slots'
  BY <1>0, <1>1, <1>2, <1>3 DEF Slots, Pools, FindPool
<1>5. Pools'
  <2>1. Cardinality(Opening) \in Nat /\ clicks \in Nat /\ clicks <= MaxClicks
    BY FiniteRequests, SessionAssumption DEF Opening, Pools
  <2>2. CASE _POOL = None
    <3>1. Opening' \subseteq 1..clicks
      BY <1>4, <2>1, SessionAssumption DEF Opening, Slots
    <3>2. IsFiniteSet(1..clicks) /\ Cardinality(1..clicks) = clicks
      BY <2>1, FS_Interval
    <3>3. Cardinality(Opening') <= clicks /\ Cardinality(Opening') \in Nat
      BY <3>1, <3>2, FS_Subset, FS_CardinalityType
    <3> QED
      BY <1>3, <2>1, <2>2, <3>3 DEF Pools
  <2>3. CASE _POOL # None
    <3>1. Opening' = Opening
      BY <1>0, <1>1, <1>2, <2>3 DEF Opening, FindPool
    <3> QED
      BY <1>3, <3>1 DEF Pools
  <2> QED
    BY <2>2, <2>3
<1>6. ASSUME NEW p \in PoolIds
      PROVE  Holders(p)' = Holders(p)
  BY <1>0, <1>1, <1>2 DEF Holders, FindPool
<1>7. PoolsAccounted'
  BY <1>3, <1>6 DEF PoolsAccounted, Holders
<1> QED
  BY <1>4, <1>5, <1>7

LEMMA Opened ==
    ASSUME IInv, NEW r \in Requests, OpenPool(r)
    PROVE  \E q : /\ request' = [request EXCEPT ![r] = q]
                  /\ IsRequest(q) /\ q.at = "received"
                  /\ q.pool = request[r].pool /\ q.path = request[r].path
                  /\ q.arg = request[r].arg
<1> DEFINE q == [request[r] EXCEPT !.at = "received"]
<1>1. request' = [request EXCEPT ![r] = q]
  BY DEF OpenPool, IInv, Slots
<1>2. IsRequest(request[r]) /\ "received" \in States
  BY DEF IInv, Slots, States
<1>3. /\ IsRequest(q) /\ q.at = "received" /\ q.pool = request[r].pool
      /\ q.path = request[r].path /\ q.arg = request[r].arg
  BY <1>2, AtField
<1> HIDE DEF q
<1> QED
  BY <1>1, <1>3

LEMMA Opens ==
    ASSUME IInv, NEW r \in Requests, OpenPool(r), UNCHANGED clicks
    PROVE  IInv'
<1> USE DEF IInv, At
<1>1. PICK q : /\ request' = [request EXCEPT ![r] = q]
               /\ IsRequest(q) /\ q.at = "received"
  BY Opened
<1>2. /\ request' = [s \in Requests |-> request'[s]]
      /\ request'[r] = q
      /\ \A s \in Requests \ {r} : request'[s] = request[s]
  BY <1>1, Replaced
<1>3. /\ pools \in Nat /\ pools' = pools + 1 /\ _POOL' = pools + 1
      /\ UNCHANGED out /\ At(r, "opening")
  BY DEF OpenPool, database, Pools
<1>4. Slots'
  <2>1. r <= clicks
    BY <1>3, SessionAssumption DEF Slots, Pools
  <2> QED
    BY <1>1, <1>2, <1>3, <2>1 DEF Slots
<1>5. Pools'
  <2>1. Opening' = Opening \ {r} /\ r \in Opening /\ Opening \in SUBSET Requests
    BY <1>1, <1>2, <1>3 DEF Opening
  <2>2. Cardinality(Opening') = Cardinality(Opening) - 1 /\ Cardinality(Opening) \in Nat
    BY <2>1, FiniteRequests, FS_RemoveElement
  <2>3. _POOL' # None /\ _POOL' \in 1..pools'
    BY <1>3, SessionAssumption
  <2> QED
    BY <1>3, <2>2, <2>3 DEF Pools
<1>6. ASSUME NEW p \in PoolIds
      PROVE  Holders(p)' = Holders(p)
  BY <1>1, <1>2, <1>3 DEF Holders
<1>7. PoolsAccounted'
  BY <1>3, <1>6 DEF PoolsAccounted, Holders
<1> QED
  BY <1>4, <1>5, <1>7

LEMMA Connected ==
    ASSUME IInv, NEW r \in Requests, Connect(r)
    PROVE  \E q : /\ request' = [request EXCEPT ![r] = q]
                  /\ IsRequest(q) /\ q.at = "executing"
                  /\ q.pool = request[r].pool /\ q.path = request[r].path
                  /\ q.arg = request[r].arg
<1> DEFINE q == [request[r] EXCEPT !.at = "executing"]
<1>1. request' = [request EXCEPT ![r] = q]
  BY DEF Connect, IInv, Slots
<1>2. IsRequest(request[r]) /\ "executing" \in States
  BY DEF IInv, Slots, States
<1>3. /\ IsRequest(q) /\ q.at = "executing" /\ q.pool = request[r].pool
      /\ q.path = request[r].path /\ q.arg = request[r].arg
  BY <1>2, AtField
<1> HIDE DEF q
<1> QED
  BY <1>1, <1>3

LEMMA Connects ==
    ASSUME IInv, NEW r \in Requests, Connect(r), UNCHANGED clicks
    PROVE  IInv'
<1> USE DEF IInv, At
<1>0. PICK pool : pool = request[r].pool
  OBVIOUS
<1>1. PICK q : /\ request' = [request EXCEPT ![r] = q]
               /\ IsRequest(q) /\ q.at = "executing" /\ q.pool = pool
  BY <1>0, Connected
<1>2. /\ request' = [s \in Requests |-> request'[s]]
      /\ request'[r] = q
      /\ \A s \in Requests \ {r} : request'[s] = request[s]
  BY <1>1, Replaced
<1>3. /\ At(r, "waiting") /\ out[pool] < PoolSize
      /\ out' = [out EXCEPT ![pool] = @ + 1]
      /\ UNCHANGED <<_POOL, pools>>
  BY <1>0 DEF Connect
<1>4. pool \in 1..pools /\ r <= clicks
  BY <1>0, <1>3, SessionAssumption DEF Slots, Pools
<1>5. Slots'
  BY <1>1, <1>2, <1>3, <1>4 DEF Slots
<1>6. Opening' = Opening /\ Cardinality(Opening) \in Nat
  BY <1>1, <1>2, <1>3, FiniteRequests DEF Opening
<1>7. pool \in PoolIds
  BY <1>4, <1>6, PoolNumbers, SessionAssumption DEF Pools
<1>8. Holders(pool)' = Holders(pool) \cup {r} /\ r \notin Holders(pool)
  BY <1>0, <1>1, <1>2, <1>3 DEF Holders
<1>9. \A p \in PoolIds \ {pool} : Holders(p)' = Holders(p)
  BY <1>0, <1>1, <1>2, <1>3 DEF Holders
<1>10. Cardinality(Holders(pool)') = Cardinality(Holders(pool)) + 1
  <2>1. Holders(pool) \in SUBSET Requests
    BY DEF Holders
  <2> QED
    BY <1>8, <2>1, FiniteRequests, FS_AddElement
<1>11. out \in [PoolIds -> Nat] /\ out[pool] = Cardinality(Holders(pool))
  BY <1>7 DEF Pools, PoolsAccounted, Holders
<1>12. /\ out' \in [PoolIds -> Nat]
       /\ out'[pool] = Cardinality(Holders(pool)') /\ out'[pool] <= PoolSize
  BY <1>3, <1>7, <1>10, <1>11, SessionAssumption
<1>13. \A p \in PoolIds \ {pool} : out'[p] = out[p]
  BY <1>3, <1>11
<1>14. Pools'
  BY <1>3, <1>6, <1>12 DEF Pools
<1>15. ASSUME NEW p \in PoolIds
       PROVE  out'[p] = Cardinality(Holders(p)') /\ out'[p] <= PoolSize
  <2>1. CASE p = pool
    BY <1>12, <2>1
  <2>2. CASE p # pool
    BY <1>9, <1>13, <2>2 DEF PoolsAccounted, Holders
  <2> QED
    BY <2>1, <2>2
<1>16. PoolsAccounted'
  BY <1>15 DEF PoolsAccounted, Holders
<1> QED
  BY <1>5, <1>14, <1>16

-----------------------------------------------------------------------------
LEMMA ServeKeeps ==
    ASSUME IInv, NEW r \in Requests, Serve(r) \/ Fails(r)
    PROVE  IInv'
<1>1. clicks \in 0..MaxClicks /\ IsRequest(request[r])
  BY DEF IInv, Pools, Slots
<1>2. r <= clicks \/ At(r, "idle")
  BY <1>1, SessionAssumption DEF IInv, Slots
<1>3. UNCHANGED clicks
  BY DEF Serve, Fails, counters, Deliver, ShowChange, ShowHistory, ShowError
<1>4. CASE FindPool(r)
  BY <1>3, <1>4, Finds
<1>5. CASE OpenPool(r)
  BY <1>3, <1>5, Opens
<1>6. CASE Connect(r)
  BY <1>3, <1>6, Connects
<1>7. ASSUME NEW status, NEW body, Answered(r, status, body)
      PROVE  \E q : /\ request' = [request EXCEPT ![r] = q]
                   /\ IsRequest(q) /\ q.at = "answered"
  BY <1>7, NewRequests DEF Answered
<1>8. CASE GetChangeFeature(r)
  BY <1>3, <1>7, <1>8, GivesBack DEF GetChangeFeature
<1>9. CASE GetFeatureHistory(r)
  <2>1. At(r, "executing") /\ Release(r) /\ UNCHANGED <<_POOL, pools>>
    BY <1>9 DEF GetFeatureHistory
  <2>2. CASE ~HasHistory(request[r].arg)
    BY <1>3, <1>7, <1>9, <2>1, <2>2, GivesBack DEF GetFeatureHistory
  <2>3. CASE HasHistory(request[r].arg)
    <3> DEFINE q == Received("participation", request[r].arg)
    <3>1. request' = [request EXCEPT ![r] = q]
      BY <1>9, <2>3 DEF GetFeatureHistory
    <3>2. IsRequest(q) /\ q.at = "received"
      BY NewlyReceived
    <3> HIDE DEF q
    <3> QED
      BY <1>3, <2>1, <3>1, <3>2, GivesBack
  <2> QED
    BY <2>2, <2>3
<1>10. CASE GetParticipation(r)
  BY <1>3, <1>7, <1>10, GivesBack DEF GetParticipation
<1>11. CASE HandlerRaises(r)
  <2>1. PICK q : /\ request' = [request EXCEPT ![r] = q]
                 /\ IsRequest(q) /\ q.at = "answered"
    BY <1>7, <1>11 DEF HandlerRaises
  <2>2. CASE At(r, "executing")
    BY <1>3, <1>11, <2>1, <2>2, GivesBack DEF HandlerRaises
  <2>3. CASE At(r, "waiting")
    <3>1. UNCHANGED <<_POOL, pools, out>> /\ request[r].at \notin {"opening", "executing"}
      BY <1>11, <2>3 DEF HandlerRaises, At
    <3>2. r <= clicks
      BY <1>2, <2>3 DEF At
    <3>3. clicks' \in 0..MaxClicks /\ clicks <= clicks' /\ r <= clicks'
      BY <1>1, <1>3, <3>2, SessionAssumption
    <3> QED
      BY <2>1, <3>1, <3>3, Passes
  <2> QED
    BY <1>11, <2>2, <2>3 DEF HandlerRaises
<1>12. CASE ShowChange(r) \/ ShowHistory(r) \/ ShowError(r)
  <2>1. At(r, "answered") /\ UNCHANGED <<_POOL, pools, out>>
    BY <1>12 DEF ShowChange, ShowHistory, ShowError, Deliver, pooling
  <2>2. PICK q : /\ request' = [request EXCEPT ![r] = q]
                 /\ IsRequest(q) /\ q.at \in {"idle", "received"}
    <3>1. CASE request' = [request EXCEPT ![r] = Idle]
      BY <3>1, NewRequests
    <3>2. CASE \E id : request' = [request EXCEPT ![r] = Received("history", id)]
      <4>1. PICK id : request' = [request EXCEPT ![r] = Received("history", id)]
        BY <3>2
      <4> DEFINE p == Received("history", id)
      <4>2. IsRequest(p) /\ p.at = "received"
        BY NewlyReceived
      <4> HIDE DEF p
      <4> QED
        BY <4>1, <4>2 DEF p
    <3> QED
      BY <1>12, <3>1, <3>2 DEF ShowChange, ShowHistory, ShowError
  <2>3. r <= clicks /\ request[r].at \notin {"opening", "executing"}
    BY <1>2, <2>1 DEF At
  <2>4. q.at \in {"idle", "received", "answered"}
    BY <2>2
  <2>5. clicks' \in 0..MaxClicks /\ clicks <= clicks' /\ r <= clicks'
    BY <1>1, <1>3, <2>3, SessionAssumption
  <2> QED
    BY <2>1, <2>2, <2>3, <2>4, <2>5, Passes
<1> QED
  BY <1>4, <1>5, <1>6, <1>8, <1>9, <1>10, <1>11, <1>12 DEF Serve, Fails, Handle

LEMMA ClickKeeps ==
    ASSUME IInv, NEW row \in rendered, Click(row)
    PROVE  IInv'
<1>1. clicks \in Nat /\ clicks < MaxClicks /\ clicks' = clicks + 1 /\ MaxClicks \in Nat
  BY SessionAssumption DEF Click, IInv, Pools
<1>2. clicks + 1 \in Requests
  BY <1>1, SessionAssumption
<1>3. At(clicks + 1, "idle")
  BY <1>1, <1>2 DEF IInv, Slots
<1>4. PICK q : /\ request' = [request EXCEPT ![clicks + 1] = q]
               /\ IsRequest(q) /\ q.at = "received"
  <2> DEFINE q == Received("changes", row.id)
  <2>1. request' = [request EXCEPT ![clicks + 1] = q]
    BY DEF Click
  <2>2. IsRequest(q) /\ q.at = "received"
    BY NewlyReceived
  <2> HIDE DEF q
  <2> QED
    BY <2>1, <2>2
<1>5. UNCHANGED <<_POOL, pools, out>>
  BY DEF Click, pooling
<1>6. PICK slot \in Requests : slot = clicks + 1
  BY <1>2
<1>7. /\ request' = [request EXCEPT ![slot] = q]
      /\ request[slot].at \notin {"opening", "executing"}
      /\ clicks' \in 0..MaxClicks /\ clicks <= clicks' /\ slot <= clicks'
  BY <1>1, <1>3, <1>4, <1>6 DEF At
<1> QED
  BY <1>4, <1>5, <1>7, Passes

\* A tile may be the one that opens the pool.
LEMMA TileKeeps ==
    ASSUME IInv, GetPool, UNCHANGED <<request, out, clicks>>
    PROVE  IInv'
<1> USE DEF IInv, At
<1>1. CASE _POOL # None
  <2>1. UNCHANGED <<_POOL, pools>>
    BY <1>1 DEF GetPool
  <2> QED
    BY <2>1, Elsewhere
<1>2. CASE _POOL = None
  <2>1. pools = 0 /\ pools' = 1 /\ _POOL' = 1
    BY <1>2 DEF GetPool, Pools
  <2>2. clicks \in Nat /\ clicks <= MaxClicks
    BY SessionAssumption DEF Pools
  <2>3. Opening' = Opening /\ Opening \subseteq 1..clicks
    BY <2>2, SessionAssumption DEF Opening, Slots
  <2>4. Cardinality(Opening) \in Nat /\ Cardinality(Opening) <= clicks
    <3>1. IsFiniteSet(1..clicks) /\ Cardinality(1..clicks) = clicks
      BY <2>2, FS_Interval
    <3> QED
      BY <2>3, <3>1, FS_Subset, FS_CardinalityType
  <2>5. Slots'
    BY <2>1 DEF Slots
  <2>6. _POOL' # None
    BY <2>1, SessionAssumption
  <2>7. Pools'
    BY <2>1, <2>2, <2>3, <2>4, <2>6 DEF Pools
  <2>8. PoolsAccounted'
    BY DEF PoolsAccounted
  <2> QED
    BY <2>5, <2>7, <2>8
<1> QED
  BY <1>1, <1>2

LEMMA Initially == Init => IInv
<1> SUFFICES ASSUME Init
             PROVE  IInv
  OBVIOUS
<1>1. /\ request = [r \in Requests |-> Idle] /\ _POOL = None /\ pools = 0
      /\ out = [p \in PoolIds |-> 0] /\ clicks = 0
  BY DEF Init, ApiInit
<1>2. IsRequest(Idle) /\ Idle.at = "idle"
  BY NewRequests
<1>3. Slots
  BY <1>1, <1>2 DEF Slots, At
<1>4. Opening = {} /\ \A p \in PoolIds : Holders(p) = {}
  BY <1>1, <1>2 DEF Opening, Holders, At
<1>5. Pools
  BY <1>1, <1>4, FS_EmptySet, SessionAssumption DEF Pools
<1>6. PoolsAccounted
  <2>1. ASSUME NEW p \in PoolIds
        PROVE  out[p] = Cardinality(Holders(p)) /\ out[p] <= PoolSize
    <3>1. out[p] = 0 /\ Holders(p) = {}
      BY <1>1, <1>4
    <3>2. Cardinality({}) = 0
      BY FS_EmptySet
    <3>3. 0 <= PoolSize
      BY SessionAssumption
    <3> QED
      BY <3>1, <3>2, <3>3
  <2> QED
    BY <2>1 DEF PoolsAccounted, Holders
<1> QED
  BY <1>3, <1>5, <1>6 DEF IInv

LEMMA RequestsKeep == IInv /\ [Next]_vars => IInv'
<1> SUFFICES ASSUME IInv, [Next]_vars
             PROVE  IInv'
  OBVIOUS
<1>1. CASE UNCHANGED vars
  BY <1>1, Elsewhere DEF vars, api, pooling, counters
<1>2. ASSUME NEW c \in DOMAIN Changesets,
             \/ SelectInterval(c)
             \/ \E content \in LayerContents : PublishChangeset(c, content)
      PROVE  IInv'
  BY <1>2, Elsewhere DEF SelectInterval, PublishChangeset, api, pooling
<1>3. ASSUME NEW osm_id \in Buildings, NEW version \in SourceQueryVersions,
             PublishSnapshot(osm_id, version)
      PROVE  IInv'
  BY <1>3, Elsewhere DEF PublishSnapshot, api, pooling
<1>4. CASE ShowTile \/ TileFails
  BY <1>4, TileKeeps DEF ShowTile, TileFails, GetTile, TileRaises, counters
<1>5. CASE Expire
  BY <1>5, Elsewhere DEF Expire, api, pooling, counters
<1> QED
  BY <1>1, <1>2, <1>3, <1>4, <1>5, ServeKeeps, ClickKeeps DEF Next

\* However many first requests race for the pool, and whichever fail, what a
\* pool has handed out is what the handlers hold of it, within its size.
THEOREM ConnectionsAccounted == Spec => []PoolsAccounted
<1>1. IInv => PoolsAccounted
  BY DEF IInv
<1> QED
  BY Initially, RequestsKeep, <1>1, PTL DEF Spec

-----------------------------------------------------------------------------
(* The rows.  Ids are never given twice, so a row that was drawn once is    *)
(* the row of its id for as long as there is one, however stale the tile.  *)

RowSet == [id : Nat, changeset_id : DOMAIN Changesets, change : UNION LayerContents]

\* The rows that the page still knows.
Drawn == rendered \cup ({clicked} \ {None})

Serving ==
    /\ change_features_id_seq \in Nat /\ publishes \in Nat
    /\ change_features \subseteq RowSet
    /\ \A row \in change_features :
         /\ row.id \in 1..change_features_id_seq
         /\ \A other \in change_features : row.id = other.id => row = other

Remembered ==
    /\ Drawn \subseteq RowSet
    /\ \A d \in Drawn : d.id <= change_features_id_seq
    /\ \A d \in Drawn : \A row \in change_features : row.id = d.id => row = d
    /\ publishes = 0 => Drawn \subseteq change_features

\* The initial segments of S have a smallest one.
LEMMA LeastOf ==
    ASSUME NEW S \in SUBSET Nat, S # {}
    PROVE  \E m \in S : \A k \in S : m <= k
<1> DEFINE T == { 0..k : k \in S }
           R == StrictSubsetOrdering(Nat)
<1>1. \A k \in S : IsFiniteSet(0..k) /\ 0..k \in SUBSET Nat
  BY FS_Interval
<1>2. T \subseteq FiniteSubsetsOf(Nat) /\ T # {}
  BY <1>1 DEF FiniteSubsetsOf
<1>3. IsWellFoundedOn(R, FiniteSubsetsOf(Nat))
  BY FS_StrictSubsetOrderingWellFounded
<1>4. PICK t \in T : \A u \in T : <<u, t>> \notin R
  <2> HIDE DEF T, R
  <2> QED
    BY <1>2, <1>3, WFMin
<1>5. PICK m \in S : t = 0..m
  BY <1>4
<1>6. ASSUME NEW k \in S, k < m
      PROVE  FALSE
  <2>1. 0..k \subseteq 0..m /\ m \in 0..m /\ m \notin 0..k
    BY <1>6
  <2>2. 0..k \in T /\ <<0..k, 0..m>> \in R
    BY <2>1, <1>1 DEF StrictSubsetOrdering
  <2> QED
    BY <1>4, <1>5, <2>2
<1> QED
  BY <1>6

\* LIST_CHANGESETS has a first row.
LEMMA FirstOf ==
    ASSUME NEW ids \in SUBSET DOMAIN Changesets, ids # {}
    PROVE  First(ids) \in ids
<1> DEFINE spans == { Changesets[c] : c \in ids }
<1>1. spans \in SUBSET Nat /\ spans # {}
  BY SessionAssumption
<1>2. PICK m \in spans : \A k \in spans : m <= k
  <2> HIDE DEF spans
  <2> QED
    BY <1>1, LeastOf
<1>3. \E c \in ids : \A d \in ids : Changesets[c] <= Changesets[d]
  BY <1>2
<1> QED
  BY <1>3 DEF First

LEMMA Defaulted == DefaultChangeset \in DOMAIN Changesets
<1> DEFINE fiveYears == { c \in DOMAIN Changesets : _span_label(Changesets[c]) = <<5, "year">> }
           ids == IF fiveYears # {} THEN fiveYears ELSE DOMAIN Changesets
<1>1. ids \in SUBSET DOMAIN Changesets /\ ids # {}
  BY SessionAssumption
<1>2. DefaultChangeset = First(ids)
  BY DEF DefaultChangeset
<1> HIDE DEF ids
<1> QED
  BY <1>1, <1>2, FirstOf

\* BIGSERIAL: the new rows have ids of their own, all of them new.
LEMMA NewRows ==
    ASSUME NEW changeset_id \in DOMAIN Changesets, NEW content \in LayerContents,
           NEW last \in Nat, NEW ids \in Numberings(content, last)
    PROVE  /\ Cardinality(content) \in Nat
           /\ Rows(changeset_id, content, ids) \subseteq RowSet
           /\ \A row \in Rows(changeset_id, content, ids) :
                /\ row.id \in (last + 1)..(last + Cardinality(content))
                /\ \A other \in Rows(changeset_id, content, ids) :
                     row.id = other.id => row = other
<1>1. Cardinality(content) \in Nat
  BY SessionAssumption, FS_CardinalityType
<1>2. /\ ids \in [content -> (last + 1)..(last + Cardinality(content))]
      /\ \A a, b \in content : ids[a] = ids[b] => a = b
  BY DEF Numberings, Bijection, Injection, Surjection, IsInjective
<1>3. \A c \in content : ids[c] \in Nat /\ c \in UNION LayerContents
  BY <1>1, <1>2
<1>4. Rows(changeset_id, content, ids) \subseteq RowSet
  BY <1>3 DEF Rows, RowSet
<1>5. ASSUME NEW row \in Rows(changeset_id, content, ids)
      PROVE  row.id \in (last + 1)..(last + Cardinality(content))
  BY <1>2 DEF Rows
<1>6. ASSUME NEW row \in Rows(changeset_id, content, ids),
             NEW other \in Rows(changeset_id, content, ids), row.id = other.id
      PROVE  row = other
  <2>1. PICK a \in content :
          row = [id |-> ids[a], changeset_id |-> changeset_id, change |-> a]
    BY DEF Rows
  <2>2. PICK b \in content :
          other = [id |-> ids[b], changeset_id |-> changeset_id, change |-> b]
    BY DEF Rows
  <2> QED
    BY <1>2, <1>6, <2>1, <2>2
<1> QED
  BY <1>1, <1>4, <1>5, <1>6

\* What publishes nothing draws rows it knew, or rows that are there.
LEMMA Redrawn ==
    ASSUME Serving, Remembered, Drawn' \subseteq Drawn \cup change_features,
           UNCHANGED <<database, change_features_id_seq, publishes>>
    PROVE  Serving' /\ Remembered'
<1>1. Serving'
  BY DEF Serving, database
<1>2. ASSUME NEW d \in Drawn'
      PROVE  /\ d \in RowSet /\ d.id <= change_features_id_seq
             /\ \A row \in change_features : row.id = d.id => row = d
             /\ publishes = 0 => d \in change_features
  <2>1. CASE d \in Drawn
    BY <2>1 DEF Remembered
  <2>2. CASE d \in change_features
    BY <2>2 DEF Serving
  <2> QED
    BY <1>2, <2>1, <2>2
<1>3. Remembered'
  BY <1>2 DEF Remembered, database
<1> QED
  BY <1>1, <1>3

LEMMA PublishKeeps ==
    ASSUME Serving, Remembered, NEW c \in DOMAIN Changesets,
           NEW content \in LayerContents, PublishChangeset(c, content)
    PROVE  Serving' /\ Remembered'
<1>0. PICK last \in Nat : last = change_features_id_seq
  BY DEF Serving
<1>1. PICK ids \in Numberings(content, last) :
        change_features' = { row \in change_features : row.changeset_id # c }
                             \cup Rows(c, content, ids)
  BY <1>0 DEF PublishChangeset
<1> DEFINE old == { row \in change_features : row.changeset_id # c }
           new == Rows(c, content, ids)
           n == Cardinality(content)
<1>2. /\ n \in Nat /\ new \subseteq RowSet
      /\ \A row \in new : row.id \in (last + 1)..(last + n)
      /\ \A row, other \in new : row.id = other.id => row = other
  BY <1>1, NewRows
<1>3. /\ old \subseteq RowSet
      /\ \A row \in old : row.id \in 1..last
      /\ \A row, other \in old : row.id = other.id => row = other
  BY <1>0 DEF Serving
<1>4. /\ change_features' = old \cup new
      /\ change_features_id_seq' = last + n
      /\ publishes \in Nat /\ publishes' = publishes + 1
      /\ UNCHANGED <<response, clicked>>
  BY <1>0, <1>1 DEF PublishChangeset, Serving, map
<1>5. publishes' \in Nat /\ publishes' # 0
  BY <1>4
<1>6. Drawn' = Drawn
  BY <1>4 DEF Drawn, rendered
<1>7. /\ Drawn \subseteq RowSet
      /\ \A d \in Drawn : d.id \in Nat /\ d.id <= last
      /\ \A d \in Drawn : \A row \in old : row.id = d.id => row = d
  <2>1. \A d \in RowSet : d.id \in Nat
    BY DEF RowSet
  <2> QED
    BY <1>0, <2>1 DEF Remembered
<1> HIDE DEF old, new, n
<1>8. \A row \in old \cup new : row.id \in 1..(last + n)
  BY <1>2, <1>3
<1>9. \A row \in old : \A other \in new : row.id # other.id
  BY <1>2, <1>3
<1>10. \A row, other \in old \cup new : row.id = other.id => row = other
  BY <1>2, <1>3, <1>9
<1>11. Serving'
  BY <1>2, <1>3, <1>4, <1>5, <1>8, <1>10 DEF Serving
<1>12. \A d \in Drawn, row \in new : row.id # d.id
  BY <1>2, <1>7
<1>13. \A d \in Drawn : d.id <= last + n
  BY <1>2, <1>7
<1>14. Remembered'
  BY <1>4, <1>5, <1>6, <1>7, <1>12, <1>13 DEF Remembered
<1> QED
  BY <1>11, <1>14

LEMMA RowsKeep ==
    ASSUME Serving, Remembered, [Next]_vars
    PROVE  Serving' /\ Remembered'
<1>1. CASE UNCHANGED vars
  BY <1>1, Redrawn DEF vars, tables, map, noted, counters, Drawn, rendered
<1>2. ASSUME NEW c \in DOMAIN Changesets, SelectInterval(c)
      PROVE  Serving' /\ Remembered'
  <2>1. Drawn' \subseteq Drawn
    BY <1>2 DEF SelectInterval, Drawn, rendered
  <2> QED
    BY <1>2, <2>1, Redrawn DEF SelectInterval, tables
<1>3. ASSUME NEW c \in DOMAIN Changesets, NEW content \in LayerContents,
             PublishChangeset(c, content)
      PROVE  Serving' /\ Remembered'
  BY <1>3, PublishKeeps
<1>4. ASSUME NEW osm_id \in Buildings, NEW version \in SourceQueryVersions,
             PublishSnapshot(osm_id, version)
      PROVE  Serving' /\ Remembered'
  <2>1. /\ publishes \in Nat /\ publishes' = publishes + 1
        /\ UNCHANGED <<change_features, change_features_id_seq, response, clicked>>
    BY <1>4 DEF PublishSnapshot, Serving, map, noted
  <2>2. publishes' \in Nat /\ publishes' # 0
    BY <2>1
  <2>3. Drawn' = Drawn
    BY <2>1 DEF Drawn, rendered
  <2> QED
    BY <2>1, <2>2, <2>3 DEF Serving, Remembered
<1>5. CASE ShowTile \/ TileFails \/ Expire
  <2>1. /\ clicked' = clicked
        /\ UNCHANGED <<database, change_features_id_seq, publishes>>
    BY <1>5 DEF ShowTile, TileFails, Expire, GetTile, TileRaises, tables, noted, counters
  <2>2. response'.rows \in {Tile(selected), {}, response.rows}
    BY <1>5 DEF ShowTile, TileFails, Expire, _mvt_response, NoResponse
  <2>3. Tile(selected) \subseteq change_features
    BY DEF Tile, ChangeTile
  <2>4. Drawn' \subseteq Drawn \cup change_features
    BY <2>1, <2>2, <2>3 DEF Drawn, rendered
  <2> QED
    BY <2>1, <2>4, Redrawn
<1>7. ASSUME NEW row \in rendered, Click(row)
      PROVE  Serving' /\ Remembered'
  <2>1. Drawn' \subseteq Drawn
    <3>1. UNCHANGED response /\ clicked' = row
      BY <1>7 DEF Click, map
    <3> QED
      BY <3>1, <1>7 DEF Drawn, rendered
  <2> QED
    BY <1>7, <2>1, Redrawn DEF Click, tables
<1>8. ASSUME NEW r \in Requests, Serve(r) \/ Fails(r)
      PROVE  Serving' /\ Remembered'
  <2>1. UNCHANGED <<database, change_features_id_seq, map, noted, publishes>>
    BY <1>8 DEF Serve, Fails, Handle, FindPool, OpenPool, Connect, GetChangeFeature,
                GetFeatureHistory, GetParticipation, HandlerRaises, ShowChange,
                ShowHistory, ShowError, Deliver, tables, counters
  <2>2. Drawn' = Drawn
    BY <2>1 DEF map, noted, Drawn, rendered
  <2> QED
    BY <2>1, <2>2, Redrawn
<1> QED
  BY <1>1, <1>2, <1>3, <1>4, <1>5, <1>7, <1>8 DEF Next

LEMMA RowsInitially == Init => Serving /\ Remembered
<1> SUFFICES ASSUME Init
             PROVE  Serving /\ Remembered
  OBVIOUS
<1>0. PICK content \in LayerContents : \E ids \in Numberings(content, 0) :
        /\ change_features = Rows(DefaultChangeset, content, ids)
        /\ change_features_id_seq = Cardinality(content)
  BY DEF Init
<1>1. PICK ids \in Numberings(content, 0) :
        /\ change_features = Rows(DefaultChangeset, content, ids)
        /\ change_features_id_seq = Cardinality(content)
  BY <1>0
<1>2. /\ Cardinality(content) \in Nat /\ change_features \subseteq RowSet
      /\ \A row \in change_features :
           /\ row.id \in (0 + 1)..(0 + Cardinality(content))
           /\ \A other \in change_features : row.id = other.id => row = other
  BY <1>1, NewRows, Defaulted
<1>3. Serving
  BY <1>1, <1>2 DEF Serving, Init
<1>4. rendered \subseteq change_features /\ clicked = None
  BY DEF Init, rendered, _mvt_response, Tile, ChangeTile
<1>5. Drawn \subseteq change_features
  BY <1>4 DEF Drawn
<1>6. \A d \in Drawn : d.id <= change_features_id_seq
  BY <1>1, <1>2, <1>5
<1> QED
  BY <1>2, <1>3, <1>5, <1>6 DEF Remembered, Serving

-----------------------------------------------------------------------------
(* The panel.  While the page is not overtaken, at most one request is under *)
(* way, and whatever stage it has reached, it is about the clicked row.      *)

Typed ==
    /\ selected \in DOMAIN Changesets /\ failures \in Nat
    /\ tile \in {"wanted", "loaded", "errored"}
    /\ loading \in BOOLEAN /\ error \in BOOLEAN
    /\ overtaken \in BOOLEAN /\ republished \in BOOLEAN

Busy(r) == ~At(r, "idle")

\* The spinner turns exactly while an answer is due.
Single ==
    ~overtaken =>
        /\ \A r, s \in Requests : Busy(r) /\ Busy(s) => r = s
        /\ loading <=> \E r \in Requests : Busy(r)

\* The clicked row was found in the table, and is still there if nothing was
\* published.
Kept == republished \/ clicked \in change_features

Shown == change = clicked /\ HasSubject(clicked.change)

AskedForChange(q) == q.at # "answered" /\ q.path = "changes" /\ q.arg = clicked.id

AskedForHistory(q) ==
    /\ q.at # "answered" /\ q.path \in {"history", "participation"}
    /\ Shown /\ q.arg = Subject(clicked.change) /\ Kept

AnsweredChange(q) ==
    /\ q.at = "answered" /\ q.answer.status = 200
    /\ q.answer.body = clicked /\ Kept

AnsweredHistory(q) ==
    /\ q.at = "answered" /\ q.answer.status = 200
    /\ Shown
    /\ \E ids \in SUBSET Nat :
         /\ q.answer.body = [osm_id |-> Subject(clicked.change), changes |-> ids]
         /\ republished \/ clicked.id \in ids

\* What an error may be due to.
Explained ==
    \/ publishes + failures > 0
    \/ HasSubject(clicked.change) /\ ~HasHistory(Subject(clicked.change))

AnsweredError(q) ==
    /\ q.at = "answered" /\ q.answer.status # 200
    /\ Explained

AboutClick(q) ==
    \/ AskedForChange(q) \/ AskedForHistory(q)
    \/ AnsweredChange(q) \/ AnsweredHistory(q) \/ AnsweredError(q)

Awaited ==
    ~overtaken => \A r \in Requests : Busy(r) =>
        /\ clicked # None /\ ~error /\ history = None
        /\ AboutClick(request[r])

PanelInv == Single /\ Awaited /\ DetailFollowsClick

\* What DetailFollowsClick says of a panel at rest.
Outcome ==
    \/ error /\ change = None /\ history = None /\ (clicked = None \/ Explained)
    \/ /\ ~error /\ change = clicked
       /\ IF clicked = None THEN history = None
          ELSE IF ~HasSubject(clicked.change) THEN history = None
          ELSE /\ history # None
               /\ history.osm_id = Subject(clicked.change)
               /\ ~republished => clicked.id \in history.changes

LEMMA AtRest == DetailFollowsClick <=> (~loading /\ ~overtaken => Outcome)
BY DEF DetailFollowsClick, Outcome, Explained

\* A change has a building, and its subject is one of them.
LEMMA SubjectIsBuilding ==
    ASSUME NEW row \in RowSet
    PROVE  /\ Subject(row.change) \in Ids(row.change)
           /\ Ids(row.change) \subseteq UNION { Ids(c) : c \in UNION LayerContents }
<1>1. row.change \in UNION LayerContents
  BY DEF RowSet
<1>2. Ids(row.change) # {}
  BY <1>1, SessionAssumption
<1> DEFINE ids == IF row.change.osm_ids_b # {} THEN row.change.osm_ids_b
                  ELSE row.change.osm_ids_a
<1>3. ids # {} /\ ids \subseteq Ids(row.change)
  BY <1>2 DEF Ids
<1>4. Subject(row.change) = CHOOSE id \in ids : TRUE
  BY DEF Subject
<1> HIDE DEF ids
<1> QED
  BY <1>1, <1>3, <1>4

LEMMA ClickedIsRow ==
    ASSUME Remembered, clicked # None
    PROVE  /\ clicked \in Drawn /\ clicked \in RowSet
           /\ clicked = [id |-> clicked.id, changeset_id |-> clicked.changeset_id,
                         change |-> clicked.change]
<1>1. clicked \in Drawn
  BY DEF Drawn
<1>2. clicked \in RowSet
  BY <1>1 DEF Remembered
<1> QED
  BY <1>1, <1>2 DEF RowSet

\* A request goes on, and so does the spinner.
LEMMA GoesOn ==
    ASSUME IInv, Typed, PanelInv, NEW r \in Requests, Busy(r), NEW q, q.at # "idle",
           request' = [request EXCEPT ![r] = q],
           UNCHANGED <<history, loading, error, clicked, overtaken>>,
           ~overtaken => AboutClick(q)'
    PROVE  PanelInv'
<1>1. /\ request'[r] = q
      /\ \A s \in Requests \ {r} : request'[s] = request[s]
  BY Replaced DEF IInv
<1>2. \A s \in Requests : Busy(s)' <=> Busy(s)
  BY <1>1 DEF Busy, At
<1>3. Single'
  BY <1>2 DEF Single, PanelInv
<1>4. Awaited'
  <2> SUFFICES ASSUME ~overtaken, NEW s \in Requests, Busy(s)'
               PROVE  (clicked # None /\ ~error /\ history = None /\ AboutClick(request[s]))'
    BY DEF Awaited
  <2>1. s = r
    BY <1>2 DEF Single, PanelInv
  <2>2. clicked # None /\ ~error /\ history = None
    BY DEF Awaited, PanelInv
  <2>3. AboutClick(q)' /\ request'[s] = q
    BY <1>1, <2>1
  <2>4. AboutClick(request[s])'
    <3>1. CASE AskedForChange(q)'
      BY <2>3, <3>1 DEF AboutClick, AskedForChange
    <3>2. CASE AskedForHistory(q)'
      BY <2>3, <3>2 DEF AboutClick, AskedForHistory
    <3>3. CASE AnsweredChange(q)'
      BY <2>3, <3>3 DEF AboutClick, AnsweredChange
    <3>4. CASE AnsweredHistory(q)'
      BY <2>3, <3>4 DEF AboutClick, AnsweredHistory
    <3>5. CASE AnsweredError(q)'
      BY <2>3, <3>5 DEF AboutClick, AnsweredError
    <3> QED
      BY <2>3, <3>1, <3>2, <3>3, <3>4, <3>5 DEF AboutClick
  <2> QED
    BY <2>2, <2>4
<1>5. ~overtaken => loading
  BY DEF Single, PanelInv
<1>6. DetailFollowsClick'
  BY <1>5, AtRest DEF DetailFollowsClick
<1> QED
  BY <1>3, <1>4, <1>6 DEF PanelInv

\* The last answer of a click is applied.
LEMMA Settles ==
    ASSUME IInv, PanelInv, NEW r \in Requests, Busy(r),
           request' = [request EXCEPT ![r] = Idle],
           loading' = FALSE, overtaken' = overtaken, ~overtaken => Outcome'
    PROVE  PanelInv'
<1>1. /\ request'[r] = Idle /\ Idle.at = "idle"
      /\ \A s \in Requests \ {r} : request'[s] = request[s]
  BY Replaced, NewRequests DEF IInv
<1>2. ~overtaken => \A s \in Requests : ~Busy(s)'
  BY <1>1 DEF Single, PanelInv, Busy, At
<1>3. Single' /\ Awaited'
  BY <1>2 DEF Single, Awaited
<1>4. DetailFollowsClick'
  BY DEF DetailFollowsClick, Outcome, Explained
<1> QED
  BY <1>3, <1>4 DEF PanelInv

\* Nothing that happens beside the page takes back what it shows.
LEMMA Beside ==
    ASSUME Serving, Typed, PanelInv,
           UNCHANGED <<request, panel, clicked, overtaken>>,
           failures' \in {failures, failures + 1},
           publishes' = publishes + 1 \/ UNCHANGED <<publishes, snapshot_features>>,
           republished' \/ UNCHANGED <<change_features, republished>>
    PROVE  PanelInv'
<1>1. Explained => Explained'
  <2>1. publishes \in Nat /\ failures \in Nat
    BY DEF Serving, Typed
  <2>2. PICK p, q, f, g : p = publishes /\ q = publishes' /\ f = failures /\ g = failures'
    OBVIOUS
  <2>3. p \in Nat /\ f \in Nat /\ g \in {f, f + 1} /\ q \in {p, p + 1}
    BY <2>1, <2>2
  <2>4. (p + f > 0 => q + g > 0) /\ (q = p + 1 => q + g > 0)
    BY <2>3
  <2>5. CASE publishes' = publishes + 1 \/ publishes + failures > 0
    <3>1. publishes' + failures' > 0
      BY <2>2, <2>4, <2>5
    <3> QED
      BY <3>1 DEF Explained
  <2>6. CASE UNCHANGED <<publishes, snapshot_features>> /\ ~(publishes + failures > 0)
    BY <2>6 DEF Explained, HasHistory
  <2> QED
    BY <2>5, <2>6
<1>2. UNCHANGED <<request, change, history, loading, error, clicked, overtaken>>
  BY DEF panel
<1>3. \A r \in Requests : Busy(r)' <=> Busy(r)
  BY <1>2 DEF Busy, At
<1>4. Single'
  BY <1>2, <1>3 DEF Single, PanelInv
<1>5. Kept => Kept'
  BY <1>2 DEF Kept
<1>6. ASSUME NEW r \in Requests, AboutClick(request[r])
      PROVE  AboutClick(request[r])'
  <2>1. CASE AskedForChange(request[r])
    BY <1>2, <2>1 DEF AboutClick, AskedForChange
  <2>2. CASE AskedForHistory(request[r])
    BY <1>2, <1>5, <2>2 DEF AboutClick, AskedForHistory, Shown
  <2>3. CASE AnsweredChange(request[r])
    BY <1>2, <1>5, <2>3 DEF AboutClick, AnsweredChange
  <2>4. CASE AnsweredHistory(request[r])
    BY <1>2, <2>4 DEF AboutClick, AnsweredHistory, Shown
  <2>5. CASE AnsweredError(request[r])
    BY <1>1, <1>2, <2>5, Zenon DEF AboutClick, AnsweredError
  <2> QED
    BY <1>6, <2>1, <2>2, <2>3, <2>4, <2>5 DEF AboutClick
<1>7. Awaited'
  BY <1>2, <1>3, <1>6 DEF Awaited, PanelInv
<1>8. DetailFollowsClick'
  <2>1. ASSUME Outcome PROVE Outcome'
    BY <1>1, <1>2, <2>1 DEF Outcome
  <2>2. ~loading' /\ ~overtaken' => Outcome'
    BY <1>2, <2>1, AtRest DEF PanelInv
  <2> QED
    BY <2>2 DEF DetailFollowsClick, Outcome, Explained
<1> QED
  BY <1>4, <1>7, <1>8 DEF PanelInv

LEMMA Answer ==
    ASSUME NEW r, NEW status, NEW body, Answered(r, status, body)
    PROVE  \E q : /\ request' = [request EXCEPT ![r] = q]
                  /\ q.at = "answered" /\ q.answer.status = status
                  /\ q.answer.body = body
<1> DEFINE q == [Idle EXCEPT !.at = "answered",
                             !.answer = [status |-> status, body |-> body]]
<1>1. request' = [request EXCEPT ![r] = q]
  BY DEF Answered
<1>2. q.at = "answered" /\ q.answer = [status |-> status, body |-> body]
  BY NewRequests
<1> HIDE DEF q
<1>3. q.answer.status = status /\ q.answer.body = body
  BY <1>2
<1>4. PICK p : p = q
  OBVIOUS
<1> QED
  BY <1>1, <1>2, <1>3, <1>4

\* What a request to the page's API is about, while it is busy.
LEMMA Current ==
    ASSUME PanelInv, Remembered, NEW r \in Requests, Busy(r), ~overtaken
    PROVE  /\ clicked # None /\ ~error /\ history = None
           /\ clicked \in RowSet /\ clicked \in Drawn /\ clicked.id \in Nat
           /\ AboutClick(request[r])
<1>1. clicked # None /\ ~error /\ history = None /\ AboutClick(request[r])
  BY DEF PanelInv, Awaited
<1>2. clicked \in RowSet /\ clicked \in Drawn
  BY <1>1, ClickedIsRow
<1>3. clicked.id \in Nat
  BY <1>2 DEF RowSet
<1> QED
  BY <1>1, <1>2, <1>3

LEMMA HandlerKeeps ==
    ASSUME IInv, Serving, Remembered, Typed, PanelInv, NEW r \in Requests, Handle(r),
           UNCHANGED <<change_features_id_seq, map, panel, noted, counters>>
    PROVE  PanelInv'
<1>1. /\ UNCHANGED <<change_features, snapshot_features>>
      /\ UNCHANGED <<change, history, loading, error, clicked, overtaken, republished>>
      /\ UNCHANGED <<publishes, failures>>
  <2>1. UNCHANGED <<change_features, snapshot_features>>
    BY DEF Handle, FindPool, OpenPool, Connect, GetChangeFeature, GetFeatureHistory,
           GetParticipation, database
  <2> QED
    BY <2>1 DEF panel, noted, counters
<1>2. /\ Kept' <=> Kept
      /\ Shown' <=> Shown
      /\ Explained' <=> Explained
  BY <1>1 DEF Kept, Shown, Explained, HasHistory
<1>3. ASSUME NEW q, request' = [request EXCEPT ![r] = q],
             request[r].at \notin {"idle", "answered"}, q.at \notin {"idle", "answered"},
             q.path = request[r].path, q.arg = request[r].arg
      PROVE  PanelInv'
  <2>1. Busy(r) /\ q.at # "idle"
    BY <1>3 DEF Busy, At
  <2>2. ASSUME ~overtaken
        PROVE  AskedForChange(q)' \/ AskedForHistory(q)'
    <3>1. AboutClick(request[r])
      BY <2>1, <2>2, Current
    <3>2. AskedForChange(request[r]) \/ AskedForHistory(request[r])
      BY <1>3, <3>1 DEF AboutClick, AnsweredChange, AnsweredHistory, AnsweredError
    <3>3. CASE AskedForChange(request[r])
      BY <1>1, <1>3, <3>3 DEF AskedForChange
    <3>4. CASE AskedForHistory(request[r])
      BY <1>1, <1>2, <1>3, <3>4 DEF AskedForHistory
    <3> QED
      BY <3>2, <3>3, <3>4
  <2>3. ~overtaken => AboutClick(q)'
    BY <2>2 DEF AboutClick
  <2> QED
    BY <1>1, <1>3, <2>1, <2>3, GoesOn
<1>4. CASE FindPool(r)
  <2>1. request[r].at = "received"
    BY <1>4 DEF FindPool, At
  <2> QED
    BY <1>3, <1>4, <2>1, Found
<1>5. CASE OpenPool(r)
  <2>1. request[r].at = "opening"
    BY <1>5 DEF OpenPool, At
  <2> QED
    BY <1>3, <1>5, <2>1, Opened
<1>6. CASE Connect(r)
  <2>1. request[r].at = "waiting"
    BY <1>6 DEF Connect, At
  <2> QED
    BY <1>3, <1>6, <2>1, Connected
<1>7. ASSUME request[r].at = "executing", ~overtaken
      PROVE  /\ clicked \in RowSet /\ clicked \in Drawn /\ clicked.id \in Nat
             /\ AskedForChange(request[r]) \/ AskedForHistory(request[r])
  <2>1. Busy(r)
    BY <1>7 DEF Busy, At
  <2>2. clicked \in RowSet /\ clicked \in Drawn /\ clicked.id \in Nat /\ AboutClick(request[r])
    BY <1>7, <2>1, Current
  <2> QED
    BY <1>7, <2>2 DEF AboutClick, AnsweredChange, AnsweredHistory, AnsweredError
<1>8. ASSUME NEW q, request' = [request EXCEPT ![r] = q], q.at = "answered",
              request[r].at = "executing",
              ~overtaken => AnsweredChange(q)' \/ AnsweredHistory(q)' \/ AnsweredError(q)'
       PROVE  PanelInv'
  <2>1. Busy(r) /\ q.at # "idle"
    BY <1>8 DEF Busy, At
  <2>2. ~overtaken => AboutClick(q)'
    BY <1>8 DEF AboutClick
  <2> QED
    BY <1>1, <1>8, <2>1, <2>2, GoesOn
\* A row that was drawn can be missing only after a publish.
<1>9. CASE GetChangeFeature(r)
  <2>1. request[r].at = "executing" /\ request[r].path = "changes"
    BY <1>9 DEF GetChangeFeature, At
  <2>2. ~overtaken => request[r].arg = clicked.id
    BY <1>7, <2>1 DEF AskedForChange, AskedForHistory
  <2>3. CASE ChangeFeature(request[r].arg) = {}
    <3>1. Answered(r, 404, None)
      BY <1>9, <2>3 DEF GetChangeFeature
    <3>2. PICK q : /\ request' = [request EXCEPT ![r] = q]
                   /\ q.at = "answered" /\ q.answer.status = 404
      BY <3>1, Answer
    <3>3. ASSUME ~overtaken
          PROVE  Explained
      <4>1. clicked \notin change_features
        BY <2>2, <2>3, <3>3 DEF ChangeFeature
      <4>2. publishes # 0
        BY <1>7, <2>1, <3>3, <4>1 DEF Remembered
      <4> QED
        BY <4>2 DEF Serving, Typed, Explained
    <3>4. ~overtaken => AnsweredError(q)'
      BY <1>1, <1>2, <3>2, <3>3 DEF AnsweredError
    <3> QED
      BY <1>8, <2>1, <3>2, <3>4
  <2>4. CASE ChangeFeature(request[r].arg) # {}
    <3>1. PICK row \in ChangeFeature(request[r].arg) : Answered(r, 200, row)
      BY <1>9, <2>4 DEF GetChangeFeature
    <3>2. PICK q : /\ request' = [request EXCEPT ![r] = q]
                   /\ q.at = "answered" /\ q.answer.status = 200 /\ q.answer.body = row
      BY <3>1, Answer
    <3>3. ASSUME ~overtaken
          PROVE  row = clicked /\ Kept
      <4>1. row \in change_features /\ row.id = clicked.id
        BY <2>2, <3>3 DEF ChangeFeature
      <4>2. row = clicked
        BY <1>7, <2>1, <3>3, <4>1 DEF Remembered
      <4> QED
        BY <4>1, <4>2 DEF Kept
    <3>4. ~overtaken => AnsweredChange(q)'
      BY <1>1, <1>2, <3>2, <3>3 DEF AnsweredChange
    <3> QED
      BY <1>8, <2>1, <3>2, <3>4
  <2> QED
    BY <2>3, <2>4
<1>10. CASE GetFeatureHistory(r)
  <2>1. request[r].at = "executing" /\ request[r].path = "history"
    BY <1>10 DEF GetFeatureHistory, At
  <2>2. ~overtaken => AskedForHistory(request[r])
    BY <1>7, <2>1 DEF AskedForChange
  <2>3. CASE ~HasHistory(request[r].arg)
    <3>1. Answered(r, 404, None)
      BY <1>10, <2>3 DEF GetFeatureHistory
    <3>2. PICK q : /\ request' = [request EXCEPT ![r] = q]
                   /\ q.at = "answered" /\ q.answer.status = 404
      BY <3>1, Answer
    <3>3. ASSUME ~overtaken
          PROVE  Explained
      BY <2>2, <2>3, <3>3 DEF AskedForHistory, Shown, Explained
    <3>4. ~overtaken => AnsweredError(q)'
      BY <1>1, <1>2, <3>2, <3>3 DEF AnsweredError
    <3> QED
      BY <1>8, <2>1, <3>2, <3>4
  <2>4. CASE HasHistory(request[r].arg)
    <3> DEFINE q == Received("participation", request[r].arg)
    <3>1. request' = [request EXCEPT ![r] = q]
      BY <1>10, <2>4 DEF GetFeatureHistory
    <3>2. q.at = "received" /\ q.path = "participation" /\ q.arg = request[r].arg
      BY NewlyReceived
    <3> HIDE DEF q
    <3>3. PICK p : p = q
      OBVIOUS
    <3>4. ~overtaken => AskedForHistory(p)'
      BY <1>1, <1>2, <2>2, <3>2, <3>3 DEF AskedForHistory
    <3>5. request' = [request EXCEPT ![r] = p] /\ p.at # "idle" /\ Busy(r)
      BY <2>1, <3>1, <3>2, <3>3 DEF Busy, At
    <3> QED
      BY <1>1, <3>4, <3>5, GoesOn DEF AboutClick
  <2> QED
    BY <2>3, <2>4
<1>11. CASE GetParticipation(r)
  <2>1. request[r].at = "executing" /\ request[r].path = "participation"
    BY <1>11 DEF GetParticipation, At
  <2>2. ~overtaken => AskedForHistory(request[r])
    BY <1>7, <2>1 DEF AskedForChange
  <2>3. PICK osm_id : osm_id = request[r].arg
    OBVIOUS
  <2>4. PICK ids : ids = Participation(osm_id)
    OBVIOUS
  <2>5. Answered(r, 200, [osm_id |-> osm_id, changes |-> ids])
    BY <1>11, <2>3, <2>4 DEF GetParticipation
  <2>6. PICK q : /\ request' = [request EXCEPT ![r] = q]
                 /\ q.at = "answered" /\ q.answer.status = 200
                 /\ q.answer.body = [osm_id |-> osm_id, changes |-> ids]
    BY <2>5, Answer
  <2>7. ids \in SUBSET Nat
    BY <2>4 DEF Participation, Serving, RowSet
  <2>8. ASSUME ~overtaken
        PROVE  /\ Shown /\ osm_id = Subject(clicked.change)
               /\ republished \/ clicked.id \in ids
    <3>1. Shown /\ osm_id = Subject(clicked.change) /\ Kept
      BY <2>2, <2>3, <2>8 DEF AskedForHistory
    <3>2. osm_id \in Ids(clicked.change)
      BY <1>7, <2>1, <2>8, <3>1, SubjectIsBuilding
    <3>3. clicked \in change_features => clicked.id \in ids
      BY <2>4, <3>2 DEF Participation
    <3> QED
      BY <3>1, <3>3 DEF Kept
  <2>9. ~overtaken => AnsweredHistory(q)'
    BY <1>1, <1>2, <2>6, <2>7, <2>8 DEF AnsweredHistory
  <2> QED
    BY <1>8, <2>1, <2>6, <2>9
<1> QED
  BY <1>4, <1>5, <1>6, <1>9, <1>10, <1>11 DEF Handle

LEMMA FailureKeeps ==
    ASSUME IInv, Serving, Typed, PanelInv, NEW r \in Requests, Fails(r)
    PROVE  PanelInv'
<1>1. PICK q : /\ request' = [request EXCEPT ![r] = q]
               /\ q.at = "answered" /\ q.answer.status = 500
  BY Answer DEF Fails, HandlerRaises
<1>2. publishes \in Nat /\ failures \in Nat /\ publishes' = publishes
      /\ failures' = failures + 1
  BY DEF Fails, Serving, Typed
<1>3. AnsweredError(q)'
  BY <1>1, <1>2 DEF AnsweredError, Explained
<1>4. Busy(r)
  BY DEF Fails, HandlerRaises, Busy, At
<1>5. UNCHANGED <<history, loading, error, clicked, overtaken>>
  BY DEF Fails, panel, noted
<1> QED
  BY <1>1, <1>3, <1>4, <1>5, GoesOn DEF AboutClick

\* The fields tell the two answers apart.
LEMMA AnswerShown ==
    ASSUME IInv, Serving, Remembered, Typed, PanelInv, NEW r \in Requests,
           ShowChange(r) \/ ShowHistory(r) \/ ShowError(r)
    PROVE  PanelInv'
<1>1. /\ At(r, "answered") /\ Busy(r)
      /\ UNCHANGED <<change_features, clicked, overtaken, republished>>
      /\ UNCHANGED <<snapshot_features, publishes, failures>>
  BY DEF ShowChange, ShowHistory, ShowError, Deliver, Busy, At, tables, database, noted,
         counters
<1>2. ASSUME ~overtaken
      PROVE  /\ clicked # None /\ ~error /\ history = None /\ clicked \in RowSet
             /\ \/ AnsweredChange(request[r]) \/ AnsweredHistory(request[r])
                \/ AnsweredError(request[r])
  <2>1. /\ clicked # None /\ ~error /\ history = None /\ clicked \in RowSet
        /\ AboutClick(request[r])
    BY <1>1, <1>2, Current
  <2> QED
    BY <1>1, <2>1 DEF AboutClick, AskedForChange, AskedForHistory, At
<1>3. (Kept' <=> Kept) /\ (Explained' <=> Explained)
  BY <1>1 DEF Kept, Explained, HasHistory
<1>4. CASE ShowChange(r)
  <2>1. PICK body : body = Body(r)
    OBVIOUS
  <2>2. /\ Status(r) = 200 /\ "change" \in DOMAIN body /\ change' = body
        /\ UNCHANGED <<history, error>>
    BY <1>4, <2>1 DEF ShowChange
  <2>3. ASSUME ~overtaken
        PROVE  body = clicked /\ Kept
    <3>1. CASE AnsweredChange(request[r])
      BY <2>1, <3>1 DEF AnsweredChange, Body
    <3>2. CASE AnsweredHistory(request[r])
      <4>1. PICK ids : body = [osm_id |-> Subject(clicked.change), changes |-> ids]
        BY <2>1, <3>2 DEF AnsweredHistory, Body
      <4>2. DOMAIN body = {"osm_id", "changes"}
        BY <4>1
      <4> QED
        BY <2>2, <4>2
    <3>3. CASE AnsweredError(request[r])
      BY <2>2, <3>3 DEF AnsweredError, Status
    <3> QED
      BY <1>2, <2>3, <3>1, <3>2, <3>3
  <2>4. CASE HasSubject(body.change)
    <3> DEFINE q == Received("history", Subject(body.change))
    <3>1. request' = [request EXCEPT ![r] = q] /\ UNCHANGED loading
      BY <1>4, <2>1, <2>4 DEF ShowChange
    <3>2. q.at = "received" /\ q.path = "history" /\ q.arg = Subject(body.change)
      BY NewlyReceived
    <3> HIDE DEF q
    <3>3. PICK p : p = q
      OBVIOUS
    <3>4. ~overtaken => AskedForHistory(p)'
      BY <1>1, <1>3, <2>2, <2>3, <2>4, <3>2, <3>3 DEF AskedForHistory, Shown
    <3>5. request' = [request EXCEPT ![r] = p] /\ p.at # "idle"
      BY <3>1, <3>2, <3>3
    <3>6. UNCHANGED <<history, loading, error, clicked, overtaken>>
      BY <1>1, <2>2, <3>1
    <3>7. ~overtaken => AboutClick(p)'
      BY <3>4 DEF AboutClick
    <3> QED
      BY <1>1, <3>5, <3>6, <3>7, GoesOn
  <2>5. CASE ~HasSubject(body.change)
    <3>1. request' = [request EXCEPT ![r] = Idle] /\ loading' = FALSE
      BY <1>4, <2>1, <2>5 DEF ShowChange
    <3>2. ~overtaken => Outcome'
      BY <1>1, <1>2, <2>2, <2>3, <2>5 DEF Outcome
    <3> QED
      BY <1>1, <3>1, <3>2, Settles
  <2> QED
    BY <2>4, <2>5
<1>5. CASE ShowHistory(r)
  <2>1. PICK body : body = Body(r)
    OBVIOUS
  <2>2. /\ Status(r) = 200 /\ "changes" \in DOMAIN body /\ history' = body
        /\ UNCHANGED <<change, error>>
        /\ request' = [request EXCEPT ![r] = Idle] /\ loading' = FALSE
    BY <1>5, <2>1 DEF ShowHistory
  <2>3. ASSUME ~overtaken
        PROVE  /\ Shown
               /\ \E ids \in SUBSET Nat :
                    /\ body = [osm_id |-> Subject(clicked.change), changes |-> ids]
                    /\ republished \/ clicked.id \in ids
    <3>1. CASE AnsweredChange(request[r])
      <4>1. body = clicked /\ clicked \in RowSet
        BY <1>2, <2>1, <2>3, <3>1 DEF AnsweredChange, Body
      <4>2. DOMAIN body = {"id", "changeset_id", "change"}
        BY <4>1 DEF RowSet
      <4> QED
        BY <2>2, <4>2
    <3>2. CASE AnsweredHistory(request[r])
      BY <2>1, <3>2 DEF AnsweredHistory, Body
    <3>3. CASE AnsweredError(request[r])
      BY <2>2, <3>3 DEF AnsweredError, Status
    <3> QED
      BY <1>2, <2>3, <3>1, <3>2, <3>3
  <2>4. ASSUME ~overtaken
        PROVE  Outcome'
    <3>1. PICK ids \in SUBSET Nat :
            /\ body = [osm_id |-> Subject(clicked.change), changes |-> ids]
            /\ republished \/ clicked.id \in ids
      BY <2>3, <2>4
    <3>2. /\ clicked # None /\ ~error /\ clicked \in RowSet
          /\ change = clicked /\ HasSubject(clicked.change)
      BY <1>2, <2>3, <2>4 DEF Shown
    <3>3. body # None
      <4>1. Subject(clicked.change) \in UNION { Ids(c) : c \in UNION LayerContents }
        BY <3>2, SubjectIsBuilding
      <4>2. body \in [osm_id : UNION { Ids(c) : c \in UNION LayerContents }, changes : SUBSET Nat]
        BY <3>1, <4>1
      <4> QED
        BY <4>2, SessionAssumption
    <3>4. body.osm_id = Subject(clicked.change) /\ body.changes = ids
      BY <3>1
    <3> QED
      BY <1>1, <2>2, <3>1, <3>2, <3>3, <3>4 DEF Outcome
  <2> QED
    BY <1>1, <2>2, <2>4, Settles
<1>6. CASE ShowError(r)
  <2>1. /\ Status(r) # 200 /\ error' = TRUE /\ change' = None /\ loading' = FALSE
        /\ request' = [request EXCEPT ![r] = Idle] /\ UNCHANGED history
    BY <1>6 DEF ShowError
  <2>2. ASSUME ~overtaken
        PROVE  Outcome'
    <3>1. AnsweredError(request[r]) /\ history = None
      BY <1>2, <2>1, <2>2 DEF AnsweredChange, AnsweredHistory, Status
    <3> QED
      BY <1>1, <1>3, <2>1, <3>1 DEF AnsweredError, Outcome
  <2> QED
    BY <1>1, <2>1, <2>2, Settles
<1> QED
  BY <1>4, <1>5, <1>6

LEMMA SelectKeeps ==
    ASSUME Typed, PanelInv, NEW c \in DOMAIN Changesets, SelectInterval(c)
    PROVE  PanelInv'
<1>1. /\ UNCHANGED <<request, loading, error, publishes, failures>>
      /\ change' = None /\ history' = None /\ clicked' = None
      /\ overtaken' = (overtaken \/ InFlight)
  BY DEF SelectInterval, api
<1>2. \A r \in Requests : Busy(r)' <=> Busy(r)
  BY <1>1 DEF Busy, At
<1>3. CASE overtaken \/ InFlight
  BY <1>1, <1>3 DEF PanelInv, Single, Awaited, DetailFollowsClick
<1>4. CASE ~overtaken /\ ~InFlight
  <2>1. \A r \in Requests : ~Busy(r) /\ ~Busy(r)'
    BY <1>2, <1>4 DEF InFlight, Busy
  <2>2. ~loading /\ Outcome
    BY <1>4, <2>1, AtRest DEF PanelInv, Single
  <2>3. Single' /\ Awaited'
    BY <1>1, <2>1, <2>2 DEF Single, Awaited
  <2>4. Outcome'
    BY <1>1, <2>2 DEF Outcome
  <2>5. DetailFollowsClick'
    BY <2>4 DEF DetailFollowsClick, Outcome, Explained
  <2> QED
    BY <2>3, <2>5 DEF PanelInv
<1> QED
  BY <1>3, <1>4

LEMMA ClickStarts ==
    ASSUME IInv, Serving, Remembered, NEW row \in rendered, Click(row)
    PROVE  PanelInv'
<1>1. clicks \in Nat /\ clicks < MaxClicks /\ MaxClicks \in Nat
  BY SessionAssumption DEF Click, IInv, Pools
<1>2. PICK slot \in Requests : slot = clicks + 1
  BY <1>1, SessionAssumption
<1> DEFINE p == Received("changes", row.id)
<1>3. /\ request' = [request EXCEPT ![slot] = p]
      /\ loading' = TRUE /\ error' = FALSE /\ history' = None
      /\ clicked' = row /\ overtaken' = InFlight
  BY <1>2 DEF Click
<1>4. p.at = "received" /\ p.path = "changes" /\ p.arg = row.id
  BY NewlyReceived
<1> HIDE DEF p
<1>5. /\ request'[slot] = p
      /\ \A s \in Requests \ {slot} : request'[s] = request[s]
  BY <1>3, Replaced DEF IInv
<1>6. ~InFlight => \A s \in Requests : Busy(s)' <=> s = slot
  BY <1>4, <1>5 DEF InFlight, Busy, At
<1>7. row # None
  <2>1. row \in RowSet
    BY DEF Remembered, Drawn
  <2> QED
    BY <2>1, SessionAssumption DEF RowSet
<1>8. Single'
  BY <1>3, <1>6 DEF Single
<1>9. Awaited'
  <2> SUFFICES ASSUME ~InFlight, NEW s \in Requests, Busy(s)'
               PROVE  (clicked # None /\ ~error /\ history = None /\ AboutClick(request[s]))'
    BY <1>3 DEF Awaited
  <2>1. request'[s] = p
    BY <1>5, <1>6
  <2> QED
    BY <1>3, <1>4, <1>7, <2>1 DEF AboutClick, AskedForChange
<1>10. DetailFollowsClick'
  BY <1>3 DEF DetailFollowsClick
<1> QED
  BY <1>8, <1>9, <1>10 DEF PanelInv

LEMMA PanelKeeps ==
    ASSUME IInv, Serving, Remembered, Typed, PanelInv, [Next]_vars
    PROVE  PanelInv'
<1>0. UNCHANGED failures => failures' \in {failures, failures + 1}
  OBVIOUS
<1>1. CASE UNCHANGED vars
  <2>1. /\ UNCHANGED <<request, panel, clicked, overtaken, failures>>
        /\ UNCHANGED <<change_features, republished>>
        /\ UNCHANGED <<publishes, snapshot_features>>
    BY <1>1 DEF vars, tables, database, api, noted, counters
  <2> QED
    BY <1>0, <2>1, Beside
<1>2. ASSUME NEW c \in DOMAIN Changesets, SelectInterval(c)
      PROVE  PanelInv'
  BY <1>2, SelectKeeps
<1>3. ASSUME NEW c \in DOMAIN Changesets, NEW content \in LayerContents,
             PublishChangeset(c, content)
      PROVE  PanelInv'
  <2>1. /\ UNCHANGED <<request, panel, clicked, overtaken, failures>>
        /\ republished' = TRUE /\ publishes' = publishes + 1
    BY <1>3 DEF PublishChangeset, api
  <2> QED
    BY <1>0, <2>1, Beside
<1>4. ASSUME NEW osm_id \in Buildings, NEW version \in SourceQueryVersions,
             PublishSnapshot(osm_id, version)
      PROVE  PanelInv'
  <2>1. /\ UNCHANGED <<request, panel, clicked, overtaken, failures>>
        /\ UNCHANGED <<change_features, republished>> /\ publishes' = publishes + 1
    BY <1>4 DEF PublishSnapshot, api, noted
  <2> QED
    BY <1>0, <2>1, Beside
<1>5. CASE ShowTile \/ TileFails \/ Expire
  <2>1. /\ UNCHANGED <<request, panel, clicked, overtaken>>
        /\ UNCHANGED <<change_features, republished>>
        /\ UNCHANGED <<publishes, snapshot_features>>
    BY <1>5 DEF ShowTile, TileFails, Expire, GetTile, TileRaises, api, tables, database,
                noted, counters
  <2>2. failures' \in {failures, failures + 1}
    BY <1>5 DEF ShowTile, TileFails, Expire, counters
  <2> QED
    BY <2>1, <2>2, Beside
<1>6. ASSUME NEW r \in Requests, Serve(r) \/ Fails(r)
      PROVE  PanelInv'
  BY <1>6, HandlerKeeps, AnswerShown, FailureKeeps DEF Serve
<1> QED
  BY <1>1, <1>2, <1>3, <1>4, <1>5, <1>6, ClickStarts DEF Next

LEMMA TypesKeep ==
    ASSUME Typed, [Next]_vars
    PROVE  Typed'
<1> USE DEF Typed
<1>1. CASE UNCHANGED vars
  BY <1>1 DEF vars, map, panel, noted, counters
<1>2. ASSUME NEW c \in DOMAIN Changesets, SelectInterval(c)
      PROVE  Typed'
  BY <1>2 DEF SelectInterval
<1>3. ASSUME NEW c \in DOMAIN Changesets,
             \E content \in LayerContents : PublishChangeset(c, content)
      PROVE  Typed'
  BY <1>3 DEF PublishChangeset, map, panel
<1>4. ASSUME NEW osm_id \in Buildings, NEW version \in SourceQueryVersions,
             PublishSnapshot(osm_id, version)
      PROVE  Typed'
  BY <1>4 DEF PublishSnapshot, map, panel, noted
<1>5. CASE ShowTile \/ TileFails \/ Expire
  BY <1>5 DEF ShowTile, TileFails, Expire, panel, noted, counters
<1>6. ASSUME NEW row \in rendered, Click(row)
      PROVE  Typed'
  <2>1. overtaken' = InFlight /\ InFlight \in BOOLEAN
    BY <1>6 DEF Click, InFlight
  <2> QED
    BY <1>6, <2>1 DEF Click, map
<1>7. ASSUME NEW r \in Requests, Serve(r) \/ Fails(r)
      PROVE  Typed'
  <2>1. UNCHANGED <<selected, tile, overtaken, republished>>
    BY <1>7 DEF Serve, Fails, ShowChange, ShowHistory, ShowError, Deliver, map, noted
  <2>2. failures' \in Nat
    BY <1>7 DEF Serve, Fails, ShowChange, ShowHistory, ShowError, Deliver, counters
  <2>3. loading' \in BOOLEAN /\ error' \in BOOLEAN
    BY <1>7 DEF Serve, Fails, ShowChange, ShowHistory, ShowError, panel
  <2> QED
    BY <2>1, <2>2, <2>3
<1> QED
  BY <1>1, <1>2, <1>3, <1>4, <1>5, <1>6, <1>7 DEF Next

LEMMA PanelInitially == Init => Typed /\ PanelInv
<1> SUFFICES ASSUME Init
             PROVE  Typed /\ PanelInv
  OBVIOUS
<1>1. Typed
  BY Defaulted DEF Init, Typed
<1>2. \A r \in Requests : ~Busy(r)
  BY NewRequests DEF Init, ApiInit, Busy, At
<1>3. PanelInv
  BY <1>2 DEF Init, PanelInv, Single, Awaited, DetailFollowsClick
<1> QED
  BY <1>1, <1>3

PageInv == IInv /\ Serving /\ Remembered /\ Typed /\ PanelInv

LEMMA PageHolds == Spec => []PageInv
<1>1. Init => PageInv
  BY Initially, RowsInitially, PanelInitially DEF PageInv
<1>2. PageInv /\ [Next]_vars => PageInv'
  BY RequestsKeep, RowsKeep, TypesKeep, PanelKeeps DEF PageInv
<1> QED
  BY <1>1, <1>2, PTL DEF Spec

\* The ids of the served rows are numbers that were given out, each once; the
\* requests, the pools and the page have the states the code gives them.
THEOREM TypeCorrect == Spec => []TypeOK
<1>1. PageInv => TypeOK
  <2> SUFFICES ASSUME PageInv
               PROVE  TypeOK
    OBVIOUS
  <2>1. ASSUME NEW row \in change_features
        PROVE  /\ row.id \in 1..change_features_id_seq
               /\ row.changeset_id \in DOMAIN Changesets
               /\ \E content \in LayerContents : row.change \in content
               /\ \A other \in change_features : row.id = other.id => row = other
    BY DEF PageInv, Serving, RowSet
  <2>2. Cardinality(Opening) \in Nat
    BY FiniteRequests DEF Opening
  <2>3. _POOL \in (1..pools) \cup {None} /\ pools \in 0..(MaxClicks + 1)
    BY <2>2, SessionAssumption DEF PageInv, IInv, Pools
  <2>4. ASSUME NEW r \in Requests
        PROVE  /\ request[r].at \in States
               /\ request[r].at \in {"waiting", "executing"} => request[r].pool \in 1..pools
    BY DEF PageInv, IInv, Slots, IsRequest
  <2> QED
    BY <2>1, <2>3, <2>4 DEF TypeOK, PageInv, Typed, States
<1> QED
  BY <1>1, PageHolds, PTL

\* When the spinner has stopped, and the page was not used while it turned, the
\* panel says what is known of the row that was drawn where the user clicked,
\* however stale its tile was: never another row's record, never its record with
\* another building's history; or an error, if something was published or failed,
\* or the building is in no snapshot of the version the page asks for.
THEOREM DetailCorrect == Spec => []DetailFollowsClick
<1>1. PageInv => DetailFollowsClick
  BY DEF PageInv, PanelInv
<1> QED
  BY <1>1, PageHolds, PTL

-----------------------------------------------------------------------------
(* The labels of the intervals, for every span. *)

Rank(unit) == CASE unit = "day" -> 0 [] unit = "month" -> 1 [] unit = "year" -> 2

\* The label l is of a span no longer than that of m.
NotLonger(l, m) ==
    \/ Rank(l[2]) < Rank(m[2])
    \/ Rank(l[2]) = Rank(m[2]) /\ l[1] <= m[1]

LEMMA DaysLabel ==
    ASSUME NEW d \in Nat, d < 28
    PROVE  _span_label(d) = <<IF d > 1 THEN d ELSE 1, "day">>
BY DEF _span_label

LEMMA MonthsLabel ==
    ASSUME NEW d \in Nat, d >= 28, d < 329
    PROVE  _span_label(d) = <<Months(d), "month">>
BY DEF _span_label

LEMMA YearsLabel ==
    ASSUME NEW d \in Nat, d >= 329
    PROVE  _span_label(d) = <<Years(d), "year">>
BY DEF _span_label

\* A longer interval never gets the label of a shorter one: the order in which
\* LIST_CHANGESETS returns the intervals, by their length, is that of their
\* labels, across the cuts at 28 and 329 days too.
THEOREM SpanLabelMonotone ==
    ASSUME NEW d \in Nat, NEW e \in Nat, d <= e
    PROVE  NotLonger(_span_label(d), _span_label(e))
<1>1. Months(d) <= Months(e) /\ Years(d) <= Years(e)
  BY DEF Months, Years
<1>2. CASE e < 28
  BY <1>2, DaysLabel DEF NotLonger, Rank
<1>3. CASE d < 28 /\ e >= 28
  BY <1>3, DaysLabel, MonthsLabel, YearsLabel DEF NotLonger, Rank
<1>4. CASE d >= 28 /\ e < 329
  BY <1>1, <1>4, MonthsLabel DEF NotLonger, Rank
<1>5. CASE d >= 28 /\ d < 329 /\ e >= 329
  BY <1>5, MonthsLabel, YearsLabel DEF NotLonger, Rank
<1>6. CASE d >= 329
  BY <1>1, <1>6, YearsLabel DEF NotLonger, Rank
<1> QED
  BY <1>2, <1>3, <1>4, <1>5, <1>6

\* The label of a changeset counts at least one of its unit, and at most eleven
\* months, a year being the next label.
THEOREM SpanLabelSound ==
    ASSUME NEW d \in Nat
    PROVE  /\ _span_label(d)[1] \in Nat \ {0}
           /\ _span_label(d)[2] = "month" => _span_label(d)[1] \in 1..11
<1>1. CASE d < 28
  BY <1>1, DaysLabel
<1>2. CASE d >= 28 /\ d < 329
  <2>1. Months(d) \in 1..11
    BY <1>2 DEF Months
  <2> QED
    BY <1>2, <2>1, MonthsLabel
<1>3. CASE d >= 329
  <2>1. Years(d) \in Nat \ {0}
    BY <1>3 DEF Years
  <2> QED
    BY <1>3, <2>1, YearsLabel
<1> QED
  BY <1>1, <1>2, <1>3
=============================================================================
