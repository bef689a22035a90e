------------------------ MODULE RestRequestsProofs ------------------------
(***************************************************************************)
(* Proofs about RestRequests, for any requests, any routes they may be for *)
(* and any number of sessions and clears.  Single flight uses nothing of   *)
(* the routes: it is a property of the cache, whatever the handlers do.    *)
(* What a cache_if keeps uses the ways of the routes that have one; the    *)
(* types use the ways of all of them, which is why they come last.         *)
(***************************************************************************)
EXTENDS RestRequests, TLAPS

Fields ==
    {"pc", "of", "way", "at", "captured", "since", "whole", "locks", "awaits"}

\* A request is a record with its fields.
RequestShape ==
    /\ DOMAIN req = Requests
    /\ req = [r \in Requests |-> req[r]]
    /\ \A r \in Requests : DOMAIN req[r] = Fields

\* A lock is its key, which is never that of a range, and a number of clears.
IsLock(lock) ==
    /\ lock = [key |-> lock.key, clears |-> lock.clears]
    /\ lock.key.range = FALSE

LocksAreLocks ==
    \A r \in Requests : \A lock \in req[r].locks \cup req[r].awaits : IsLock(lock)

LockInv == RequestShape /\ LocksAreLocks /\ OneLoadPerKey

-----------------------------------------------------------------------------
\* Steps of a request that change neither the cache nor any lock.

\* No request gains a lock, and entries are only lost.
LosesOnly ==
    /\ \A r \in Requests : req'[r].locks \subseteq req[r].locks
    /\ \A k \in DOMAIN entry' : k \in DOMAIN entry /\ entry'[k] = entry[k]

LEMMA LosingKeepsLoads ==
    ASSUME OneLoadPerKey, LosesOnly PROVE OneLoadPerKey'
<1> SUFFICES ASSUME NEW r \in Requests, NEW lock \in req'[r].locks
             PROVE  /\ Holders(lock)' = {r}
                    /\ lock.key \in DOMAIN entry'
                          => entry'[lock.key].clears # lock.clears
  BY DEF OneLoadPerKey
<1>1. lock \in req[r].locks  BY DEF LosesOnly
<1>2. /\ Holders(lock) = {r}
      /\ lock.key \in DOMAIN entry => entry[lock.key].clears # lock.clears
  BY <1>1 DEF OneLoadPerKey
<1>3. Holders(lock)' = {r}  BY <1>2 DEF Holders, LosesOnly
<1>4. QED  BY <1>2, <1>3 DEF LosesOnly

\* The request r becomes q, which has no lock that r had not, and the cache
\* loses entries at most.
LEMMA OneRequestLoses ==
    ASSUME LockInv, NEW r \in Requests, NEW q,
           req' = [req EXCEPT ![r] = q],
           DOMAIN q = Fields,
           q.locks \subseteq req[r].locks,
           \A lock \in q.awaits : IsLock(lock),
           \A k \in DOMAIN entry' : k \in DOMAIN entry /\ entry'[k] = entry[k]
    PROVE  LockInv'
<1>1. /\ DOMAIN req = Requests /\ \A x \in Requests : DOMAIN req[x] = Fields
      /\ \A x \in Requests : req'[x] = IF x = r THEN q ELSE req[x]
      /\ DOMAIN req' = Requests
      /\ req' = [x \in Requests |-> req'[x]]
  BY DEF LockInv, RequestShape
<1>2. RequestShape'  BY <1>1 DEF RequestShape
<1>3. LocksAreLocks'
  <2>1. LocksAreLocks  BY DEF LockInv
  <2>2. QED  BY <1>1, <2>1 DEF LocksAreLocks, IsLock
<1>4. OneLoadPerKey'
  <2>1. LosesOnly  BY <1>1 DEF LosesOnly
  <2>2. QED  BY <2>1, LosingKeepsLoads DEF LockInv
<1>5. QED  BY <1>2, <1>3, <1>4 DEF LockInv

-----------------------------------------------------------------------------
\* The records a step makes of a request.

LEMMA BlankShape ==
    ASSUME NEW how
    PROVE  /\ DOMAIN Ended(how) = Fields
           /\ Ended(how).locks = {} /\ Ended(how).awaits = {}
BY DEF Ended, NoRequest, Fields

LEMMA AdvancedShape ==
    ASSUME NEW q, DOMAIN q = Fields, NEW i
    PROVE  LET p == [q EXCEPT !.at = i]
           IN DOMAIN p = Fields /\ p.locks = q.locks /\ p.awaits = q.awaits
BY DEF Fields

LEMMA HitShape ==
    ASSUME NEW q, DOMAIN q = Fields, NEW i
    PROVE  LET p == [q EXCEPT !.pc = "run", !.at = i, !.awaits = {}]
           IN DOMAIN p = Fields /\ p.locks = q.locks /\ p.awaits = {}
BY DEF Fields

LEMMA WaitShape ==
    ASSUME NEW q, DOMAIN q = Fields, NEW lock
    PROVE  LET p == [q EXCEPT !.pc = "wait", !.awaits = {lock}]
           IN DOMAIN p = Fields /\ p.locks = q.locks /\ p.awaits = {lock}
BY DEF Fields

LEMMA LoadShape ==
    ASSUME NEW q, DOMAIN q = Fields, NEW i, NEW s, NEW lock
    PROVE  LET p == [q EXCEPT !.pc = "run", !.at = i, !.since = s, !.whole = TRUE,
                              !.locks = q.locks \cup {lock}, !.awaits = {}]
           IN DOMAIN p = Fields /\ p.locks = q.locks \cup {lock} /\ p.awaits = {}
BY DEF Fields

LEMMA PutShape ==
    ASSUME NEW q, DOMAIN q = Fields, NEW i, NEW lock
    PROVE  LET p == [q EXCEPT !.at = i, !.locks = q.locks \ {lock}]
           IN DOMAIN p = Fields /\ p.locks = q.locks \ {lock} /\ p.awaits = q.awaits
BY DEF Fields

LEMMA KeyRecord ==
    ASSUME NEW a, NEW b, NEW c
    PROVE  [of |-> a, range |-> b, session |-> c].range = b
OBVIOUS

\* What the cache holds after v was put under the key k.
LEMMA PutEntry ==
    ASSUME NEW k, NEW v, entry' = EntryWith(k, v)
    PROVE  /\ entry'[k] = v
           /\ \A j : j # k => /\ j \in DOMAIN entry' <=> j \in DOMAIN entry
                              /\ j \in DOMAIN entry => entry'[j] = entry[j]
BY DEF EntryWith

\* Whether a key is that of a range is told by the step.
LEMMA KeyRange ==
    ASSUME NEW r
    PROVE  Key(r).range = (Step(r) \in {"find", "store"})
BY KeyRecord, Zenon DEF Key

LEMMA KeyLockIsLock ==
    ASSUME NEW r \in Requests, Step(r) \in {"get", "getProviders"}
    PROVE  IsLock(KeyLock(r))
<1>1. Step(r) \notin {"find", "store"}  OBVIOUS
<1>2. Key(r).range = FALSE
  <2>1. (Step(r) \in {"find", "store"}) = FALSE  BY <1>1, SMT
  <2>2. QED  BY <2>1, KeyRange, Zenon
<1>3. QED  BY <1>2 DEF KeyLock, IsLock

-----------------------------------------------------------------------------
\* What each step does to the locks.

LEMMA EndsKeeps ==
    ASSUME LockInv, NEW r \in Requests, NEW how, Ends(r, how),
           \A k \in DOMAIN entry' : k \in DOMAIN entry /\ entry'[k] = entry[k]
    PROVE  LockInv'
<1>1. req' = [req EXCEPT ![r] = Ended(how)]  BY DEF Ends
<1>2. QED  BY <1>1, BlankShape, OneRequestLoses

LEMMA GoesOnKeeps ==
    ASSUME LockInv, NEW r \in Requests, GoesOn(r),
           \A k \in DOMAIN entry' : k \in DOMAIN entry /\ entry'[k] = entry[k]
    PROVE  LockInv'
<1> DEFINE q == [req[r] EXCEPT !.at = req[r].at + 1]
<1>1. req' = [req EXCEPT ![r] = q]
  BY DEF GoesOn, LockInv, RequestShape
<1>2. DOMAIN req[r] = Fields /\ \A lock \in req[r].awaits : IsLock(lock)
  BY DEF LockInv, RequestShape, LocksAreLocks
<1>3. DOMAIN q = Fields /\ q.locks = req[r].locks /\ q.awaits = req[r].awaits
  BY <1>2, AdvancedShape
<1> HIDE DEF q
<1>4. QED  BY <1>1, <1>2, <1>3, OneRequestLoses

LEMMA HitsKeeps ==
    ASSUME LockInv, NEW r \in Requests, NEW lock, Hits(r, lock), UNCHANGED entry
    PROVE  LockInv'
<1> DEFINE i == CloseOf(r) + 1
           q == [req[r] EXCEPT !.pc = "run", !.at = i, !.awaits = {}]
<1>1. req' = [req EXCEPT ![r].pc = "run", ![r].at = i, ![r].awaits = {}]
  BY DEF Hits
<1> HIDE DEF i
<1>2. req' = [req EXCEPT ![r] = q]
  BY <1>1 DEF LockInv, RequestShape
<1>3. DOMAIN req[r] = Fields  BY DEF LockInv, RequestShape
<1>4. DOMAIN q = Fields /\ q.locks = req[r].locks /\ q.awaits = {}
  BY <1>3, HitShape
<1> HIDE DEF q
<1>5. QED  BY <1>2, <1>4, OneRequestLoses

\* A load starts where nobody has the lock and the key is not cached.
LEMMA MissesKeeps ==
    ASSUME LockInv, NEW r \in Requests, NEW lock, IsLock(lock),
           Holders(lock) = {}, Misses(r, lock), UNCHANGED entry
    PROVE  LockInv'
<1> DEFINE q == [req[r] EXCEPT !.pc = "run", !.at = req[r].at + 1,
                               !.since = session, !.whole = TRUE,
                               !.locks = req[r].locks \cup {lock}, !.awaits = {}]
<1>1. req' = [req EXCEPT ![r] = q]
  BY DEF Misses, StartsLoad, LockInv, RequestShape
<1>2. DOMAIN req[r] = Fields  BY DEF LockInv, RequestShape
<1>3. DOMAIN q = Fields /\ q.locks = req[r].locks \cup {lock} /\ q.awaits = {}
  BY <1>2, LoadShape
<1> HIDE DEF q
<1>4. /\ DOMAIN req = Requests /\ DOMAIN req' = Requests
      /\ req' = [x \in Requests |-> req'[x]]
      /\ \A x \in Requests : req'[x] = IF x = r THEN q ELSE req[x]
      /\ \A x \in Requests : DOMAIN req[x] = Fields
  BY <1>1 DEF LockInv, RequestShape
<1>5. RequestShape'  BY <1>3, <1>4 DEF RequestShape
<1>6. LocksAreLocks'
  <2>1. LocksAreLocks  BY DEF LockInv
  <2>2. QED  BY <1>3, <1>4, <2>1 DEF LocksAreLocks, IsLock
<1>7. OneLoadPerKey'
  <2> SUFFICES ASSUME NEW x \in Requests, NEW m \in req'[x].locks
               PROVE  /\ Holders(m)' = {x}
                      /\ m.key \in DOMAIN entry => entry[m.key].clears # m.clears
    BY DEF OneLoadPerKey
  <2>1. CASE m = lock
    <3>1. \A y \in Requests : lock \notin req[y].locks  BY DEF Holders
    <3>2. x = r  BY <1>3, <1>4, <2>1, <3>1
    <3>3. Holders(m)' = {r}  BY <1>3, <1>4, <2>1, <3>1 DEF Holders
    <3>4. lock.key \notin DOMAIN entry  BY DEF Misses
    <3>5. QED  BY <2>1, <3>2, <3>3, <3>4
  <2>2. CASE m # lock
    <3>1. \A y \in Requests : m \in req'[y].locks <=> m \in req[y].locks
      BY <1>3, <1>4, <2>2
    <3>2. QED  BY <3>1 DEF Holders, OneLoadPerKey, LockInv
  <2>3. QED  BY <2>1, <2>2
<1>8. QED  BY <1>5, <1>6, <1>7 DEF LockInv

LEMMA WaitsKeeps ==
    ASSUME LockInv, NEW r \in Requests, NEW lock, IsLock(lock),
           req' = [req EXCEPT ![r].pc = "wait", ![r].awaits = {lock}],
           UNCHANGED entry
    PROVE  LockInv'
<1> DEFINE q == [req[r] EXCEPT !.pc = "wait", !.awaits = {lock}]
<1>1. req' = [req EXCEPT ![r] = q]
  BY DEF LockInv, RequestShape
<1>2. DOMAIN req[r] = Fields  BY DEF LockInv, RequestShape
<1>3. DOMAIN q = Fields /\ q.locks = req[r].locks /\ q.awaits = {lock}
  BY <1>2, WaitShape
<1> HIDE DEF q
<1>4. QED  BY <1>1, <1>3, OneRequestLoses

LEMMA GetsKeeps ==
    ASSUME LockInv, NEW r \in Requests, Gets(r) PROVE LockInv'
<1> DEFINE lock == KeyLock(r)
<1>1. UNCHANGED entry /\ IsLock(lock)
  BY KeyLockIsLock DEF Gets, At
<1>2. \/ Hits(r, lock)
      \/ Holders(lock) = {} /\ Misses(r, lock)
      \/ req' = [req EXCEPT ![r].pc = "wait", ![r].awaits = {lock}]
  BY DEF Gets
<1> HIDE DEF lock
<1>3. QED  BY <1>1, <1>2, HitsKeeps, MissesKeeps, WaitsKeeps

LEMMA ResumesKeeps ==
    ASSUME LockInv, NEW r \in Requests, Resumes(r) PROVE LockInv'
<1>1. PICK lock \in req[r].awaits : Holders(lock) = {} /\ Rechecks(r, lock)
  BY DEF Resumes
<1>2. UNCHANGED entry /\ IsLock(lock)
  BY DEF Resumes, LockInv, LocksAreLocks
<1>3. QED  BY <1>1, <1>2, HitsKeeps, MissesKeeps DEF Rechecks

\* A put gives the lock back: the entry it makes meets no other lock of its
\* key and clear, since its holder was the only one.
LEMMA PutsKeeps ==
    ASSUME LockInv, NEW r \in Requests, Puts(r) PROVE LockInv'
<1>1. PICK lock \in req[r].locks :
        /\ \/ UNCHANGED entry
           \/ entry' = EntryWith(lock.key, Value(r, lock.clears))
        /\ req' = [req EXCEPT ![r].at = @ + 1, ![r].locks = @ \ {lock}]
  BY DEF Puts
<1> DEFINE q == [req[r] EXCEPT !.at = req[r].at + 1, !.locks = req[r].locks \ {lock}]
<1>2. req' = [req EXCEPT ![r] = q]
  BY <1>1 DEF LockInv, RequestShape
<1>3. DOMAIN req[r] = Fields /\ \A m \in req[r].awaits : IsLock(m)
  BY DEF LockInv, RequestShape, LocksAreLocks
<1>4. /\ DOMAIN q = Fields /\ q.locks = req[r].locks \ {lock}
      /\ q.awaits = req[r].awaits
  BY <1>3, PutShape
<1> HIDE DEF q
<1>5. CASE UNCHANGED entry
  BY <1>2, <1>3, <1>4, <1>5, OneRequestLoses
<1>6. CASE entry' = EntryWith(lock.key, Value(r, lock.clears))
  <2>1. /\ DOMAIN req = Requests /\ DOMAIN req' = Requests
        /\ req' = [x \in Requests |-> req'[x]]
        /\ \A x \in Requests : req'[x] = IF x = r THEN q ELSE req[x]
        /\ \A x \in Requests : DOMAIN req[x] = Fields
    BY <1>2 DEF LockInv, RequestShape
  <2>2. RequestShape'  BY <1>4, <2>1 DEF RequestShape
  <2>3. LocksAreLocks'
    <3>1. LocksAreLocks  BY DEF LockInv
    <3>2. QED  BY <1>4, <2>1, <3>1 DEF LocksAreLocks, IsLock
  <2>4. OneLoadPerKey'
    <3> SUFFICES ASSUME NEW x \in Requests, NEW m \in req'[x].locks
                 PROVE  /\ Holders(m)' = {x}
                        /\ m.key \in DOMAIN entry'
                              => entry'[m.key].clears # m.clears
      BY DEF OneLoadPerKey
    <3>1. m \in req[x].locks /\ Holders(m) = {x} /\ Holders(lock) = {r}
      BY <1>4, <2>1 DEF LockInv, OneLoadPerKey
    <3>2. m # lock  BY <1>4, <2>1, <3>1 DEF Holders
    <3>3. Holders(m)' = {x}  BY <1>4, <2>1, <3>1, <3>2 DEF Holders
    <3>4. IsLock(m) /\ IsLock(lock)
      BY <3>1 DEF LockInv, LocksAreLocks
    <3>5. m.key = lock.key => m.clears # lock.clears
      BY <3>2, <3>4 DEF IsLock
    <3>6. Value(r, lock.clears).clears = lock.clears  BY DEF Value
    <3>7. /\ entry'[lock.key].clears = lock.clears
          /\ \A k : k # lock.key =>
                /\ k \in DOMAIN entry' <=> k \in DOMAIN entry
                /\ k \in DOMAIN entry => entry'[k] = entry[k]
      BY <1>6, <3>6, PutEntry
    <3>8. m.key \in DOMAIN entry => entry[m.key].clears # m.clears
      BY <3>1 DEF LockInv, OneLoadPerKey
    <3>9. QED  BY <3>3, <3>5, <3>7, <3>8
  <2>5. QED  BY <2>2, <2>3, <2>4 DEF LockInv
<1>7. QED  BY <1>1, <1>5, <1>6

LEMMA FindsKeeps ==
    ASSUME LockInv, NEW r \in Requests, Finds(r) PROVE LockInv'
<1>1. UNCHANGED entry  BY DEF Finds
<1>2. CASE Ends(r, "answered")
  BY <1>1, <1>2, EndsKeeps
<1>3. CASE req' = [req EXCEPT ![r].at = @ + 1, ![r].since = session]
  <2> DEFINE q == [req[r] EXCEPT !.at = req[r].at + 1, !.since = session]
  <2>1. req' = [req EXCEPT ![r] = q]
    BY <1>3 DEF LockInv, RequestShape
  <2>2. DOMAIN req[r] = Fields /\ \A lock \in req[r].awaits : IsLock(lock)
    BY DEF LockInv, RequestShape, LocksAreLocks
  <2>3. DOMAIN q = Fields /\ q.locks = req[r].locks /\ q.awaits = req[r].awaits
    BY <2>2 DEF Fields
  <2> HIDE DEF q
  <2>4. QED  BY <1>1, <2>1, <2>2, <2>3, OneRequestLoses
<1>4. QED  BY <1>2, <1>3 DEF Finds

LEMMA AsksEachKeeps ==
    ASSUME LockInv, NEW r \in Requests, AsksEach(r) PROVE LockInv'
<1>1. UNCHANGED entry  BY DEF AsksEach
<1>2. PICK all \in BOOLEAN :
        req' = [req EXCEPT ![r].at = @ + 1, ![r].whole = @ /\ all]
  BY DEF AsksEach
<1> DEFINE w == req[r].whole /\ all
           q == [req[r] EXCEPT !.at = req[r].at + 1, !.whole = w]
<1>3. req' = [req EXCEPT ![r].at = @ + 1, ![r].whole = w]
  BY <1>2
<1> HIDE DEF w
<1>4. req' = [req EXCEPT ![r] = q]
  BY <1>3 DEF LockInv, RequestShape
<1>5. DOMAIN req[r] = Fields /\ \A lock \in req[r].awaits : IsLock(lock)
  BY DEF LockInv, RequestShape, LocksAreLocks
<1>6. DOMAIN q = Fields /\ q.locks = req[r].locks /\ q.awaits = req[r].awaits
  BY <1>5 DEF Fields
<1> HIDE DEF q
<1>7. QED  BY <1>1, <1>4, <1>5, <1>6, OneRequestLoses

LEMMA BeginsKeeps ==
    ASSUME LockInv, NEW r \in Requests, Begins(r) PROVE LockInv'
<1>1. UNCHANGED entry  BY DEF Begins
<1>2. PICK route, way :
        req' = [req EXCEPT ![r] = [NoRequest EXCEPT !.pc = "run", !.of = route,
                                                    !.way = way, !.captured = session,
                                                    !.since = session]]
  BY DEF Begins
<1> DEFINE q == [NoRequest EXCEPT !.pc = "run", !.of = route, !.way = way,
                                  !.captured = session, !.since = session]
<1>3. DOMAIN q = Fields /\ q.locks = {} /\ q.awaits = {}
  BY DEF NoRequest, Fields
<1>4. req' = [req EXCEPT ![r] = q]  BY <1>2
<1> HIDE DEF q
<1>5. QED  BY <1>1, <1>3, <1>4, OneRequestLoses

\* A range is stored under a key no lock has.
LEMMA StoresKeeps ==
    ASSUME LockInv, NEW r \in Requests, Stores(r) PROVE LockInv'
<1>1. /\ entry' = EntryWith(Key(r), Value(r, clears))
      /\ GoesOn(r) /\ Step(r) \in {"find", "store"}
  BY DEF Stores, At
<1> DEFINE q == [req[r] EXCEPT !.at = req[r].at + 1]
<1>2. req' = [req EXCEPT ![r] = q]
  BY <1>1 DEF GoesOn, LockInv, RequestShape
<1>3. DOMAIN req[r] = Fields  BY DEF LockInv, RequestShape
<1>4. DOMAIN q = Fields /\ q.locks = req[r].locks /\ q.awaits = req[r].awaits
  BY <1>3, AdvancedShape
<1> HIDE DEF q
<1>5. /\ DOMAIN req = Requests /\ DOMAIN req' = Requests
      /\ req' = [x \in Requests |-> req'[x]]
      /\ \A x \in Requests : req'[x] = IF x = r THEN q ELSE req[x]
      /\ \A x \in Requests : DOMAIN req[x] = Fields
  BY <1>2 DEF LockInv, RequestShape
<1>6. RequestShape'  BY <1>4, <1>5 DEF RequestShape
<1>7. LocksAreLocks'
  <2>1. LocksAreLocks  BY DEF LockInv
  <2>2. QED  BY <1>4, <1>5, <2>1 DEF LocksAreLocks, IsLock
<1>8. \A k : k # Key(r) =>
         /\ k \in DOMAIN entry' <=> k \in DOMAIN entry
         /\ k \in DOMAIN entry => entry'[k] = entry[k]
  BY <1>1, PutEntry
<1>9. Key(r).range # FALSE
  <2>1. (Step(r) \in {"find", "store"}) = TRUE  BY <1>1, SMT
  <2>2. Key(r).range = TRUE  BY <2>1, KeyRange, Zenon
  <2>3. QED  BY <2>2
<1>10. OneLoadPerKey'
  <2> SUFFICES ASSUME NEW x \in Requests, NEW m \in req'[x].locks
               PROVE  /\ Holders(m)' = {x}
                      /\ m.key \in DOMAIN entry'
                            => entry'[m.key].clears # m.clears
    BY DEF OneLoadPerKey
  <2>1. m \in req[x].locks /\ Holders(m) = {x}
    BY <1>4, <1>5 DEF LockInv, OneLoadPerKey
  <2>2. Holders(m)' = {x}  BY <1>4, <1>5, <2>1 DEF Holders
  <2>3. m.key # Key(r)
    <3>1. m.key.range = FALSE  BY <2>1 DEF LockInv, LocksAreLocks, IsLock
    <3>2. QED  BY <1>9, <3>1
  <2>4. m.key \in DOMAIN entry => entry[m.key].clears # m.clears
    BY <2>1 DEF LockInv, OneLoadPerKey
  <2>5. QED  BY <1>8, <2>2, <2>3, <2>4
<1>11. QED  BY <1>6, <1>7, <1>10 DEF LockInv

-----------------------------------------------------------------------------
\* The theorem.

LEMMA InitLocks == Init => LockInv
<1> SUFFICES ASSUME Init PROVE LockInv  OBVIOUS
<1>1. /\ req = [r \in Requests |-> NoRequest]
      /\ DOMAIN NoRequest = Fields /\ NoRequest.locks = {} /\ NoRequest.awaits = {}
  BY DEF Init, NoRequest, Fields
<1>2. RequestShape  BY <1>1 DEF RequestShape
<1>3. LocksAreLocks /\ OneLoadPerKey
  BY <1>1 DEF LocksAreLocks, OneLoadPerKey
<1>4. QED  BY <1>2, <1>3 DEF LockInv

LEMMA RequestKeepsLocks ==
    ASSUME LockInv, NEW r \in Requests, Request(r) PROVE LockInv'
<1>1. CASE Rejected(r)  BY <1>1, EndsKeeps DEF Rejected
<1>2. CASE Begins(r)  BY <1>2, BeginsKeeps
<1>3. CASE Answers(r)  BY <1>3, EndsKeeps DEF Answers
<1>4. CASE Asks(r)
  <2>1. UNCHANGED entry  BY <1>4 DEF Asks
  <2>2. GoesOn(r) \/ \E how : Ends(r, how)  BY <1>4 DEF Asks
  <2>3. QED  BY <2>1, <2>2, GoesOnKeeps, EndsKeeps
<1>5. CASE AsksEach(r)  BY <1>5, AsksEachKeeps
<1>6. CASE NeedsConnection(r)
  BY <1>6, GoesOnKeeps, EndsKeeps DEF NeedsConnection
<1>7. CASE TimesOut(r)  BY <1>7, EndsKeeps DEF TimesOut
<1>8. CASE Gets(r)  BY <1>8, GetsKeeps
<1>9. CASE Resumes(r)  BY <1>9, ResumesKeeps
<1>10. CASE Puts(r)  BY <1>10, PutsKeeps
<1>11. CASE Finds(r)  BY <1>11, FindsKeeps
<1>12. CASE Stores(r)  BY <1>12, StoresKeeps
<1>13. CASE Stats(r)  BY <1>13, GoesOnKeeps DEF Stats
<1>14. CASE Clears(r)  BY <1>14, GoesOnKeeps DEF Clears
<1>15. QED
  BY <1>1, <1>2, <1>3, <1>4, <1>5, <1>6, <1>7, <1>8, <1>9, <1>10, <1>11,
     <1>12, <1>13, <1>14 DEF Request

\* A step of nobody's request leaves the requests alone and adds no entry.
LEMMA OthersKeepLocks ==
    ASSUME LockInv, UNCHANGED req,
           \A k \in DOMAIN entry' : k \in DOMAIN entry /\ entry'[k] = entry[k]
    PROVE  LockInv'
<1>1. RequestShape'  BY DEF LockInv, RequestShape
<1>2. LocksAreLocks'  BY DEF LockInv, LocksAreLocks, IsLock
<1>3. OneLoadPerKey'
  BY LosingKeepsLoads DEF LockInv, LosesOnly
<1>4. QED  BY <1>1, <1>2, <1>3 DEF LockInv

LEMMA NextKeepsLocks == LockInv /\ [Next]_vars => LockInv'
<1> SUFFICES ASSUME LockInv, [Next]_vars PROVE LockInv'  OBVIOUS
<1>1. CASE \E r \in Requests : Request(r)  BY <1>1, RequestKeepsLocks
<1>2. CASE \E k \in DOMAIN entry : Expires(k)
  <2>1. UNCHANGED req
        /\ \A k \in DOMAIN entry' : k \in DOMAIN entry /\ entry'[k] = entry[k]
    BY <1>2 DEF Expires
  <2>2. QED  BY <2>1, OthersKeepLocks
<1>3. CASE NextSession \/ SwitchedOff \/ SwitchedOn \/ UNCHANGED vars
  <2>1. UNCHANGED <<req, entry>>
    BY <1>3 DEF NextSession, SwitchedOff, SwitchedOn, vars
  <2>2. QED  BY <2>1, OthersKeepLocks
<1>4. QED  BY <1>1, <1>2, <1>3 DEF Next

(* "per-key single-flight protection" (README.md): whatever requests there    *)
(* are, however long they run and however often the cache is cleared, of the  *)
(* loads that share a key's lock at most one runs, and none while what was    *)
(* loaded under that lock is cached: AsyncTTLCache.get_or_set.                *)
THEOREM SingleFlight == Spec => []OneLoadPerKey
<1>1. LockInv => OneLoadPerKey  BY DEF LockInv
<1>2. QED  BY <1>1, InitLocks, NextKeepsLocks, PTL DEF Spec

-----------------------------------------------------------------------------
\* What the cache_if of a route guards.  Of the routes only those that have
\* one matter, and the steps of their ways.

Guarded ==
    {"get_equity_overview", "get_market_panel", "get_market_panel_detailed",
     "get_universe_bars", "get_universe_bars_detailed", "get_returns"}
Loading == {"ask", "refuse?", "each"}
GuardedSteps == Loading \cup {"enabled?", "get", "keep"}
GuardedWays ==
    {way \in Seq(GuardedSteps) :
        \A i \in 1..Len(way) :
            way[i] = "get" => \E j \in i..Len(way) : way[j] = "keep"}

LEMMA Joined ==
    ASSUME NEW S, NEW s \in Seq(S), NEW t \in Seq(S)
    PROVE  /\ s \o t \in Seq(S)
           /\ Len(s \o t) = Len(s) + Len(t)
           /\ \A i \in 1..Len(s) : (s \o t)[i] = s[i]
           /\ \A i \in (Len(s) + 1)..(Len(s) + Len(t)) : (s \o t)[i] = t[i - Len(s)]
OBVIOUS

LEMMA GuardedNames ==
    /\ DOMAIN Panels = Guarded \ {"get_equity_overview"}
    /\ DOMAIN EquityOverview = {"get_equity_overview"}
BY DEF Guarded, Panels, EquityOverview

LEMMA KeptWays ==
    ASSUME NEW load \in Seq(Loading) PROVE Kept(load) \subseteq GuardedWays
<1> DEFINE get == <<"get">>
           keep == <<"keep">>
           begun == get \o load
           way == begun \o keep
<1>1. /\ get \in Seq(GuardedSteps) /\ Len(get) = 1
      /\ keep \in Seq(GuardedSteps) /\ Len(keep) = 1 /\ keep[1] = "keep"
  BY DEF GuardedSteps
<1>2. load \in Seq(GuardedSteps) /\ \A i \in 1..Len(load) : load[i] # "get"
  <2>1. load = [i \in 1..Len(load) |-> load[i]] /\ \A i \in 1..Len(load) : load[i] \in Loading
    OBVIOUS
  <2>2. \A i \in 1..Len(load) : load[i] \in GuardedSteps /\ load[i] # "get"
    BY <2>1 DEF GuardedSteps, Loading
  <2>3. QED  BY <2>1, <2>2
<1>3. load \in GuardedWays  BY <1>2 DEF GuardedWays
<1> HIDE DEF get, keep
<1>4. begun \in Seq(GuardedSteps) /\ Len(begun) = Len(load) + 1
  <2>1. begun \in Seq(GuardedSteps) /\ Len(begun) = Len(get) + Len(load)
    BY <1>1, <1>2, Joined
  <2> HIDE DEF begun
  <2>2. QED  BY <1>1, <2>1
<1> HIDE DEF begun
<1>5. /\ way \in Seq(GuardedSteps) /\ Len(way) = Len(load) + 2
      /\ way[Len(load) + 2] = "keep"
  <2>1. /\ way \in Seq(GuardedSteps) /\ Len(way) = Len(begun) + Len(keep)
        /\ \A i \in (Len(begun) + 1)..(Len(begun) + Len(keep)) :
              way[i] = keep[i - Len(begun)]
    BY <1>1, <1>4, Joined
  <2> HIDE DEF way
  <2>2. QED  BY <1>1, <1>4, <2>1
<1> HIDE DEF way
<1>6. way \in GuardedWays  BY <1>5 DEF GuardedWays
<1>7. QED  BY <1>3, <1>6 DEF Kept, way, begun, get, keep

LEMMA PanelWays ==
    ASSUME NEW route \in DOMAIN Panels PROVE Panels[route] \subseteq GuardedWays
<1>1. /\ <<"each">> \in Seq(Loading) /\ <<"ask", "refuse?", "each">> \in Seq(Loading)
  BY DEF Loading
<1>2. /\ Kept(<<"each">>) \subseteq GuardedWays
      /\ Kept(<<"ask", "refuse?", "each">>) \subseteq GuardedWays
  BY <1>1, KeptWays
<1>3. \/ Panels[route] = Kept(<<"each">>)
      \/ Panels[route] = Kept(<<"each">>) \cup Kept(<<"ask", "refuse?", "each">>)
  BY DEF Panels
<1>4. QED  BY <1>2, <1>3

\* A step before all others, with nothing to load.
LEMMA LaterWays ==
    ASSUME NEW way \in GuardedWays
    PROVE  <<"enabled?">> \o way \in GuardedWays
<1> DEFINE first == <<"enabled?">>
           all == first \o way
<1>1. first \in Seq(GuardedSteps) /\ Len(first) = 1 /\ first[1] = "enabled?"
  BY DEF GuardedSteps
<1>2. way \in Seq(GuardedSteps)  BY DEF GuardedWays
<1> HIDE DEF first
<1>3. /\ all \in Seq(GuardedSteps) /\ Len(all) = 1 + Len(way) /\ all[1] = "enabled?"
      /\ \A i \in 1..Len(way) : all[i + 1] = way[i]
  <2>1. /\ all \in Seq(GuardedSteps) /\ Len(all) = Len(first) + Len(way)
        /\ \A i \in 1..Len(first) : all[i] = first[i]
        /\ \A i \in (Len(first) + 1)..(Len(first) + Len(way)) : all[i] = way[i - Len(first)]
    BY <1>1, <1>2, Joined
  <2> HIDE DEF all
  <2>2. \A i \in 1..Len(way) : i + 1 \in 2..(1 + Len(way)) /\ (i + 1) - 1 = i
    BY <1>2
  <2>3. QED  BY <1>1, <2>1, <2>2
<1> HIDE DEF all
<1>4. ASSUME NEW i \in 1..Len(all), all[i] = "get"
      PROVE  \E j \in i..Len(all) : all[j] = "keep"
  <2>1. i # 1  BY <1>3, <1>4
  <2>2. i - 1 \in 1..Len(way) /\ (i - 1) + 1 = i  BY <1>2, <1>3, <2>1
  <2>3. way[i - 1] = "get"  BY <1>3, <1>4, <2>2
  <2>4. PICK j \in (i - 1)..Len(way) : way[j] = "keep"  BY <2>2, <2>3 DEF GuardedWays
  <2>5. j + 1 \in i..Len(all) /\ j \in 1..Len(way)  BY <1>2, <1>3, <2>2
  <2>6. QED  BY <1>3, <2>4, <2>5
<1>5. all \in GuardedWays  BY <1>3, <1>4 DEF GuardedWays
<1>6. QED  BY <1>5 DEF all, first

LEMMA OverviewWays == EquityOverview["get_equity_overview"] \subseteq GuardedWays
<1>1. <<"ask", "refuse?", "each">> \in Seq(Loading)  BY DEF Loading
<1>2. Kept(<<"ask", "refuse?", "each">>) \subseteq GuardedWays  BY <1>1, KeptWays
<1>3. EquityOverview["get_equity_overview"]
        = {<<"enabled?">> \o way : way \in Kept(<<"ask", "refuse?", "each">>)}
  BY DEF EquityOverview, After
<1>4. QED  BY <1>2, <1>3, LaterWays

LEMMA RouteWays ==
    ASSUME NEW route \in Guarded PROVE Routes[route] \subseteq GuardedWays
<1>1. route \in DOMAIN KeptRoutes /\ Routes[route] = KeptRoutes[route]
  BY GuardedNames DEF Routes, KeptRoutes
<1>2. CASE route \in DOMAIN Panels
  BY <1>1, <1>2, PanelWays DEF KeptRoutes
<1>3. CASE route \notin DOMAIN Panels
  <2>1. route = "get_equity_overview"  BY <1>3, GuardedNames
  <2>2. KeptRoutes[route] = EquityOverview[route]
    BY <1>1, <1>3 DEF KeptRoutes
  <2>3. QED  BY <1>1, <2>1, <2>2, OverviewWays
<1>4. QED  BY <1>2, <1>3

\* A route without a cache_if never writes an entry of one that has it.
LEMMA GuardedKeys ==
    ASSUME NEW r, Key(r).of \in Guarded
    PROVE  /\ req[r].of \in Guarded
           /\ Key(r).of = "get_equity_overview" =>
                 req[r].of = "get_equity_overview" /\ Key(r).session = req[r].captured
<1>1. Key(r).of = IF Step(r) \in {"getProviders", "putProviders"}
                  THEN "get_news_providers" ELSE Namespace(req[r].of)
  BY DEF Key
<1>2. Key(r).session = IF req[r].of = "get_equity_overview" THEN req[r].captured ELSE 0
  BY DEF Key
<1>3. Key(r).of = Namespace(req[r].of)  BY <1>1 DEF Guarded
<1>4. QED  BY <1>2, <1>3 DEF Namespace, Guarded

-----------------------------------------------------------------------------
\* The invariant: a request on a guarded route is on one of its ways, and a
\* load of its began in a session between the one it captured and this one.

GuardedFits(q, n) ==
    q.pc \in {"run", "wait"} /\ q.of \in Guarded =>
        /\ q.way \in GuardedWays /\ q.at \in 1..(Len(q.way) + 1)
        /\ q.pc = "wait" => q.at \in 1..Len(q.way) /\ q.way[q.at] = "get"
        /\ q.captured \in Nat /\ q.captured <= n
        /\ q.locks # {} => q.since \in Nat /\ q.captured <= q.since /\ q.since <= n

KeptInv ==
    /\ LockInv
    /\ session \in Nat
    /\ \A r \in Requests : GuardedFits(req[r], session)
    /\ KeptAnswersAreSound

LEMMA NextStepFits ==
    ASSUME NEW n \in Nat, NEW x, GuardedFits(x, n), x.pc \in {"run", "wait"},
           x.pc = "run" => x.at <= Len(x.way),
           NEW q, q.pc = "run", q.of = x.of, q.way = x.way, q.at = x.at + 1,
           q.captured = x.captured,
           q.since = n \/ (q.since = x.since /\ q.locks \subseteq x.locks)
    PROVE  GuardedFits(q, n)
<1> SUFFICES ASSUME q.of \in Guarded PROVE GuardedFits(q, n)  BY DEF GuardedFits
<1>1. Len(x.way) \in Nat  BY DEF GuardedFits, GuardedWays
<1>2. q.at \in 1..(Len(q.way) + 1)  BY <1>1 DEF GuardedFits
<1>3. q.captured \in Nat /\ q.captured <= n /\ q.way \in GuardedWays  BY DEF GuardedFits
<1>4. q.locks # {} => q.since \in Nat /\ q.captured <= q.since /\ q.since <= n
  BY <1>3 DEF GuardedFits
<1>5. QED  BY <1>2, <1>3, <1>4 DEF GuardedFits

\* The step that a request on a guarded route is at.
LEMMA GuardedStep ==
    ASSUME KeptInv, NEW r \in Requests, NEW steps, At(r, steps), req[r].of \in Guarded
    PROVE  Step(r) \in GuardedSteps /\ req[r].at \in 1..Len(req[r].way)
<1>1. /\ req[r].way \in Seq(GuardedSteps) /\ req[r].at \in 1..(Len(req[r].way) + 1)
      /\ req[r].at <= Len(req[r].way)
  BY DEF KeptInv, GuardedFits, GuardedWays, At
<1>2. Len(req[r].way) \in Nat  BY <1>1
<1>3. req[r].at \in 1..Len(req[r].way)  BY <1>1, <1>2
<1>4. QED  BY <1>1, <1>3 DEF Step

\* A request becomes q; the cache is as sound as before.
LEMMA OneRequestFits ==
    ASSUME KeptInv, NEW r \in Requests, NEW q, req' = [req EXCEPT ![r] = q],
           GuardedFits(q, session), UNCHANGED session, LockInv', KeptAnswersAreSound'
    PROVE  KeptInv'
<1>1. \A x \in Requests : req'[x] = IF x = r THEN q ELSE req[x]
  BY DEF KeptInv, LockInv, RequestShape
<1>2. \A x \in Requests : GuardedFits(req'[x], session)
  <2> SUFFICES ASSUME NEW x \in Requests PROVE GuardedFits(req'[x], session)  OBVIOUS
  <2>1. CASE x = r  BY <1>1, <2>1
  <2>2. CASE x # r  BY <1>1, <2>2 DEF KeptInv
  <2>3. QED  BY <2>1, <2>2
<1>3. QED  BY <1>2 DEF KeptInv

\* Entries are only lost.
LEMMA LosingStaysSound ==
    ASSUME KeptAnswersAreSound,
           \A k \in DOMAIN entry' : k \in DOMAIN entry /\ entry'[k] = entry[k]
    PROVE  KeptAnswersAreSound'
BY DEF KeptAnswersAreSound

\* An entry of no guarded route comes to them, or a sound one.
LEMMA PuttingStaysSound ==
    ASSUME KeptAnswersAreSound, NEW k, NEW v, entry' = EntryWith(k, v),
           k.of \in Guarded => v.whole,
           k.of = "get_equity_overview" => v.sessions = {k.session}
    PROVE  KeptAnswersAreSound'
<1> SUFFICES ASSUME NEW j \in DOMAIN entry'
             PROVE  /\ j.of \in DOMAIN Panels => entry'[j].whole
                    /\ j.of = "get_equity_overview" =>
                          entry'[j].whole /\ entry'[j].sessions = {j.session}
  BY DEF KeptAnswersAreSound
<1>1. /\ entry'[k] = v
      /\ j # k => j \in DOMAIN entry /\ entry'[j] = entry[j]
  BY PutEntry
<1>2. CASE j = k
  <2>1. j.of \in DOMAIN Panels \/ j.of = "get_equity_overview" => j.of \in Guarded
    BY GuardedNames DEF Guarded
  <2>2. QED  BY <1>1, <1>2, <2>1
<1>3. CASE j # k  BY <1>1, <1>3 DEF KeptAnswersAreSound
<1>4. QED  BY <1>2, <1>3

LEMMA EndsFits ==
    ASSUME KeptInv, NEW r \in Requests, NEW how, how \notin {"run", "wait"}, Ends(r, how),
           UNCHANGED session, LockInv', KeptAnswersAreSound'
    PROVE  KeptInv'
<1>1. req' = [req EXCEPT ![r] = Ended(how)]  BY DEF Ends
<1>2. Ended(how).pc = how  BY DEF Ended, NoRequest
<1>3. GuardedFits(Ended(how), session)  BY <1>2 DEF GuardedFits
<1>4. QED  BY <1>1, <1>3, OneRequestFits

\* The request goes on from a step it is at; since is as it was.
LEMMA GoesOnFits ==
    ASSUME KeptInv, NEW r \in Requests, NEW steps, At(r, steps), GoesOn(r),
           UNCHANGED session, LockInv', KeptAnswersAreSound'
    PROVE  KeptInv'
<1> DEFINE x == req[r]
           q == [x EXCEPT !.at = x.at + 1]
<1>1. req' = [req EXCEPT ![r] = q]  BY DEF GoesOn, KeptInv, LockInv, RequestShape
<1>2. /\ DOMAIN x = Fields /\ GuardedFits(x, session) /\ session \in Nat
      /\ x.pc = "run" /\ x.at <= Len(x.way)
  BY DEF KeptInv, LockInv, RequestShape, At
<1>3. /\ q.pc = "run" /\ q.of = x.of /\ q.way = x.way /\ q.at = x.at + 1
      /\ q.captured = x.captured /\ q.since = x.since /\ q.locks = x.locks
  BY <1>2 DEF Fields
<1> HIDE DEF x, q
<1>4. GuardedFits(q, session)  BY <1>2, <1>3, NextStepFits
<1>5. QED  BY <1>1, <1>4, OneRequestFits DEF x

LEMMA BeginsFits ==
    ASSUME KeptInv, NEW r \in Requests, Begins(r), LockInv' PROVE KeptInv'
<1>1. PICK route, way :
        /\ way \in Routes[route]
        /\ req' = [req EXCEPT ![r] = [NoRequest EXCEPT !.pc = "run", !.of = route,
                                                       !.way = way, !.captured = session,
                                                       !.since = session]]
  BY DEF Begins
<1> DEFINE q == [NoRequest EXCEPT !.pc = "run", !.of = route, !.way = way,
                                  !.captured = session, !.since = session]
<1>2. /\ q.of = route /\ q.way = way /\ q.at = 1 /\ q.captured = session
      /\ q.locks = {} /\ q.pc = "run"
  BY DEF NoRequest
<1>3. req' = [req EXCEPT ![r] = q]  BY <1>1
<1> HIDE DEF q
<1>4. route \in Guarded => way \in GuardedWays  BY <1>1, RouteWays
<1>5. session \in Nat  BY DEF KeptInv
<1>6. way \in GuardedWays => Len(way) \in Nat  BY DEF GuardedWays
<1>7. GuardedFits(q, session)  BY <1>2, <1>4, <1>5, <1>6 DEF GuardedFits
<1>8. UNCHANGED <<session, entry>>  BY DEF Begins
<1>9. KeptAnswersAreSound'  BY <1>8, LosingStaysSound DEF KeptInv
<1>10. QED  BY <1>3, <1>7, <1>8, <1>9, OneRequestFits

\* A load begins in the present session.
LEMMA StartsLoadFits ==
    ASSUME KeptInv, NEW r \in Requests, NEW lock, StartsLoad(r, lock),
           req[r].pc = "wait" \/ \E steps : At(r, steps),
           UNCHANGED session, LockInv', KeptAnswersAreSound'
    PROVE  KeptInv'
<1> DEFINE x == req[r]
           q == [x EXCEPT !.pc = "run", !.at = x.at + 1, !.since = session, !.whole = TRUE,
                          !.locks = x.locks \cup {lock}, !.awaits = {}]
<1>1. req' = [req EXCEPT ![r] = q]
  BY DEF StartsLoad, KeptInv, LockInv, RequestShape
<1>2. /\ DOMAIN x = Fields /\ GuardedFits(x, session) /\ session \in Nat
      /\ x.pc \in {"run", "wait"} /\ (x.pc = "run" => x.at <= Len(x.way))
  BY DEF KeptInv, LockInv, RequestShape, At
<1>3. /\ q.pc = "run" /\ q.of = x.of /\ q.way = x.way /\ q.at = x.at + 1
      /\ q.captured = x.captured /\ q.since = session
  BY <1>2 DEF Fields
<1> HIDE DEF x, q
<1>4. GuardedFits(q, session)  BY <1>2, <1>3, NextStepFits
<1>5. QED  BY <1>1, <1>4, OneRequestFits DEF x

\* A hit goes on behind the keep of its get.
LEMMA HitsFits ==
    ASSUME KeptInv, NEW r \in Requests, NEW lock, Hits(r, lock),
           \/ req[r].pc = "wait"
           \/ At(r, {"get", "getProviders"}),
           UNCHANGED session, LockInv', KeptAnswersAreSound'
    PROVE  KeptInv'
<1> DEFINE x == req[r]
           i == CloseOf(r) + 1
           q == [x EXCEPT !.pc = "run", !.at = i, !.awaits = {}]
<1>1. req' = [req EXCEPT ![r].pc = "run", ![r].at = i, ![r].awaits = {}]  BY DEF Hits
<1>2. x.of \in Guarded => i \in 1..(Len(x.way) + 1)
  <2> SUFFICES ASSUME x.of \in Guarded PROVE i \in 1..(Len(x.way) + 1)  OBVIOUS
  <2>1. x.way \in GuardedWays /\ x.at \in 1..Len(x.way) /\ Step(r) = "get"
    <3>1. CASE x.pc = "wait"  BY <3>1 DEF KeptInv, GuardedFits, Step
    <3>2. CASE At(r, {"get", "getProviders"})
      <4>1. Step(r) \in GuardedSteps /\ x.at \in 1..Len(x.way)
        BY <3>2, GuardedStep
      <4>2. Step(r) = "get"  BY <3>2, <4>1 DEF At, GuardedSteps, Loading
      <4>3. x.way \in GuardedWays  BY <3>2 DEF KeptInv, GuardedFits, At
      <4>4. QED  BY <4>1, <4>2, <4>3
    <3>3. QED  BY <3>1, <3>2
  <2>2. \E j \in x.at..Len(x.way) : x.way[j] \in {"put", "keep"}
    BY <2>1 DEF GuardedWays, Step
  <2>3. CloseOf(r) = CHOOSE j \in x.at..Len(x.way) : x.way[j] \in {"put", "keep"}
    BY <2>1 DEF CloseOf
  <2>4. CloseOf(r) \in x.at..Len(x.way)  BY <2>2, <2>3
  <2>5. Len(x.way) \in Nat  BY <2>1 DEF GuardedWays
  <2> HIDE DEF x
  <2>6. QED  BY <2>1, <2>4, <2>5
<1> HIDE DEF i
<1>3. req' = [req EXCEPT ![r] = q]  BY <1>1 DEF KeptInv, LockInv, RequestShape
<1>4. /\ DOMAIN x = Fields /\ GuardedFits(x, session)
      /\ x.pc \in {"run", "wait"}
  BY DEF KeptInv, LockInv, RequestShape, At
<1>5. /\ q.pc = "run" /\ q.of = x.of /\ q.way = x.way /\ q.at = i
      /\ q.captured = x.captured /\ q.since = x.since /\ q.locks = x.locks
  BY <1>4 DEF Fields
<1> HIDE DEF x, q
<1>6. GuardedFits(q, session)  BY <1>2, <1>4, <1>5 DEF GuardedFits
<1>7. QED  BY <1>3, <1>6, OneRequestFits DEF x

LEMMA GetsFits ==
    ASSUME KeptInv, NEW r \in Requests, Gets(r), LockInv' PROVE KeptInv'
<1>1. UNCHANGED <<session, entry>> /\ At(r, {"get", "getProviders"})  BY DEF Gets
<1>2. KeptAnswersAreSound'  BY <1>1, LosingStaysSound DEF KeptInv
<1> DEFINE lock == KeyLock(r)
<1>3. \/ Hits(r, lock) \/ StartsLoad(r, lock)
      \/ req' = [req EXCEPT ![r].pc = "wait", ![r].awaits = {lock}]
  BY DEF Gets, Misses
<1> HIDE DEF lock
<1>4. CASE req' = [req EXCEPT ![r].pc = "wait", ![r].awaits = {lock}]
  <2> DEFINE x == req[r]
             q == [x EXCEPT !.pc = "wait", !.awaits = {lock}]
  <2>1. req' = [req EXCEPT ![r] = q]  BY <1>4 DEF KeptInv, LockInv, RequestShape
  <2>2. /\ DOMAIN x = Fields /\ GuardedFits(x, session) /\ x.pc = "run"
    BY <1>1 DEF KeptInv, LockInv, RequestShape, At
  <2>3. /\ q.pc = "wait" /\ q.of = x.of /\ q.way = x.way /\ q.at = x.at
        /\ q.captured = x.captured /\ q.since = x.since /\ q.locks = x.locks
    BY <2>2 DEF Fields
  <2>4. x.of \in Guarded => x.at \in 1..Len(x.way) /\ x.way[x.at] = "get"
    <3> SUFFICES ASSUME x.of \in Guarded PROVE x.at \in 1..Len(x.way) /\ Step(r) = "get"
      BY DEF Step
    <3>1. Step(r) \in GuardedSteps /\ x.at \in 1..Len(x.way)  BY <1>1, GuardedStep
    <3>2. QED  BY <1>1, <3>1 DEF At, GuardedSteps, Loading
  <2> HIDE DEF x, q
  <2>5. GuardedFits(q, session)  BY <2>2, <2>3, <2>4 DEF GuardedFits
  <2>6. QED  BY <1>1, <1>2, <2>1, <2>5, OneRequestFits DEF x
<1>5. QED  BY <1>1, <1>2, <1>3, <1>4, HitsFits, StartsLoadFits

LEMMA ResumesFits ==
    ASSUME KeptInv, NEW r \in Requests, Resumes(r), LockInv' PROVE KeptInv'
<1>1. /\ UNCHANGED <<session, entry>> /\ req[r].pc = "wait"
      /\ \E lock : Hits(r, lock) \/ StartsLoad(r, lock)
  BY DEF Resumes, Rechecks, Misses
<1>2. KeptAnswersAreSound'  BY <1>1, LosingStaysSound DEF KeptInv
<1>3. QED  BY <1>1, <1>2, HitsFits, StartsLoadFits

\* What a guarded route puts was judged by its cache_if.
LEMMA PutsFits ==
    ASSUME KeptInv, NEW r \in Requests, Puts(r), LockInv' PROVE KeptInv'
<1> DEFINE x == req[r]
           k == Key(r)
<1>1. PICK lock \in x.locks :
        /\ lock.key = k
        /\ entry' = IF Step(r) # "keep" \/ Keeps(r)
                    THEN EntryWith(k, Value(r, lock.clears)) ELSE entry
        /\ req' = [req EXCEPT ![r].at = @ + 1, ![r].locks = @ \ {lock}]
  BY DEF Puts
<1>2. UNCHANGED session /\ At(r, {"put", "putProviders", "keep"})  BY DEF Puts
<1>3. /\ DOMAIN x = Fields /\ GuardedFits(x, session) /\ session \in Nat
      /\ x.pc = "run" /\ x.at <= Len(x.way)
  BY <1>2 DEF KeptInv, LockInv, RequestShape, At
<1>4. KeptAnswersAreSound'
  <2>1. CASE UNCHANGED entry  BY <2>1, LosingStaysSound DEF KeptInv
  <2>2. CASE /\ entry' = EntryWith(k, Value(r, lock.clears))
             /\ Step(r) # "keep" \/ Keeps(r)
    <3> DEFINE v == Value(r, lock.clears)
    <3>1. v.whole = x.whole /\ v.sessions = x.since..session  BY DEF Value
    <3>2. ASSUME k.of \in Guarded
          PROVE  /\ v.whole
                 /\ k.of = "get_equity_overview" => v.sessions = {k.session}
      <4>1. /\ x.of \in Guarded
            /\ k.of = "get_equity_overview" =>
                  x.of = "get_equity_overview" /\ k.session = x.captured
        BY <3>2, GuardedKeys
      <4>2. Step(r) \in GuardedSteps  BY <1>2, <4>1, GuardedStep
      <4>3. Keeps(r)  BY <1>2, <2>2, <4>2 DEF At, GuardedSteps, Loading
      <4>4. x.captured \in Nat /\ x.since \in Nat /\ x.captured <= x.since
            /\ x.since <= session
        BY <1>3, <4>1 DEF GuardedFits
      <4>5. ASSUME k.of = "get_equity_overview" PROVE v.sessions = {k.session}
        <5>1. session = x.captured /\ k.session = x.captured
          BY <4>1, <4>3, <4>5 DEF Keeps
        <5>2. x.since = session  BY <1>3, <4>4, <5>1
        <5>3. session..session = {session}  BY <1>3
        <5>4. QED  BY <3>1, <5>1, <5>2, <5>3
      <4>6. QED  BY <3>1, <4>3, <4>5 DEF Keeps
    <3> HIDE DEF v
    <3>3. k.of = "get_equity_overview" => k.of \in Guarded  BY DEF Guarded
    <3>4. entry' = EntryWith(k, v)  BY <2>2 DEF v
    <3>5. KeptAnswersAreSound  BY DEF KeptInv
    <3> HIDE DEF k
    <3>6. QED  BY <3>2, <3>3, <3>4, <3>5, PuttingStaysSound
  <2>3. QED  BY <1>1, <2>1, <2>2
<1> DEFINE q == [x EXCEPT !.at = x.at + 1, !.locks = x.locks \ {lock}]
<1>5. req' = [req EXCEPT ![r] = q]  BY <1>1 DEF KeptInv, LockInv, RequestShape
<1>6. /\ q.pc = "run" /\ q.of = x.of /\ q.way = x.way /\ q.at = x.at + 1
      /\ q.captured = x.captured /\ q.since = x.since /\ q.locks \subseteq x.locks
  BY <1>3 DEF Fields
<1> HIDE DEF x, q
<1>7. GuardedFits(q, session)  BY <1>3, <1>6, NextStepFits
<1>8. QED  BY <1>2, <1>4, <1>5, <1>7, OneRequestFits DEF x

LEMMA FindsFits ==
    ASSUME KeptInv, NEW r \in Requests, Finds(r), LockInv' PROVE KeptInv'
<1>1. UNCHANGED <<session, entry>> /\ At(r, {"find"})  BY DEF Finds
<1>2. KeptAnswersAreSound'  BY <1>1, LosingStaysSound DEF KeptInv
<1>3. CASE Ends(r, "answered")  BY <1>1, <1>2, <1>3, EndsFits
<1>4. CASE req' = [req EXCEPT ![r].at = @ + 1, ![r].since = session]
  <2> DEFINE x == req[r]
             q == [x EXCEPT !.at = x.at + 1, !.since = session]
  <2>1. req' = [req EXCEPT ![r] = q]  BY <1>4 DEF KeptInv, LockInv, RequestShape
  <2>2. /\ DOMAIN x = Fields /\ GuardedFits(x, session) /\ session \in Nat
        /\ x.pc = "run" /\ x.at <= Len(x.way)
    BY <1>1 DEF KeptInv, LockInv, RequestShape, At
  <2>3. /\ q.pc = "run" /\ q.of = x.of /\ q.way = x.way /\ q.at = x.at + 1
        /\ q.captured = x.captured /\ q.since = session
    BY <2>2 DEF Fields
  <2> HIDE DEF x, q
  <2>4. GuardedFits(q, session)  BY <2>2, <2>3, NextStepFits
  <2>5. QED  BY <1>1, <1>2, <2>1, <2>4, OneRequestFits DEF x
<1>5. QED  BY <1>3, <1>4 DEF Finds

LEMMA AsksEachFits ==
    ASSUME KeptInv, NEW r \in Requests, AsksEach(r), LockInv' PROVE KeptInv'
<1>1. UNCHANGED <<session, entry>> /\ At(r, {"each"})  BY DEF AsksEach
<1>2. KeptAnswersAreSound'  BY <1>1, LosingStaysSound DEF KeptInv
<1>3. PICK all \in BOOLEAN :
        req' = [req EXCEPT ![r].at = @ + 1, ![r].whole = @ /\ all]
  BY DEF AsksEach
<1> DEFINE x == req[r]
           w == x.whole /\ all
           q == [x EXCEPT !.at = x.at + 1, !.whole = w]
<1>4. req' = [req EXCEPT ![r].at = @ + 1, ![r].whole = w]  BY <1>3
<1> HIDE DEF w
<1>5. req' = [req EXCEPT ![r] = q]  BY <1>4 DEF KeptInv, LockInv, RequestShape
<1>6. /\ DOMAIN x = Fields /\ GuardedFits(x, session) /\ session \in Nat
      /\ x.pc = "run" /\ x.at <= Len(x.way)
  BY <1>1 DEF KeptInv, LockInv, RequestShape, At
<1>7. /\ q.pc = "run" /\ q.of = x.of /\ q.way = x.way /\ q.at = x.at + 1
      /\ q.captured = x.captured /\ q.since = x.since /\ q.locks = x.locks
  BY <1>6 DEF Fields
<1> HIDE DEF x, q
<1>8. GuardedFits(q, session)  BY <1>6, <1>7, NextStepFits
<1>9. QED  BY <1>1, <1>2, <1>5, <1>8, OneRequestFits DEF x

\* The routes that store a range are not guarded.
LEMMA StoresFits ==
    ASSUME KeptInv, NEW r \in Requests, Stores(r), LockInv' PROVE KeptInv'
<1>1. /\ UNCHANGED session /\ At(r, {"store"}) /\ GoesOn(r)
      /\ entry' = EntryWith(Key(r), Value(r, clears))
  BY DEF Stores
<1>2. Key(r).of \notin Guarded
  <2> SUFFICES ASSUME Key(r).of \in Guarded PROVE FALSE  OBVIOUS
  <2>1. req[r].of \in Guarded  BY GuardedKeys
  <2>2. Step(r) \in GuardedSteps  BY <1>1, <2>1, GuardedStep
  <2>3. QED  BY <1>1, <2>2 DEF At, GuardedSteps, Loading
<1>3. Key(r).of # "get_equity_overview"  BY <1>2 DEF Guarded
<1>4. KeptAnswersAreSound'  BY <1>1, <1>2, <1>3, PuttingStaysSound DEF KeptInv
<1>5. QED  BY <1>1, <1>4, GoesOnFits

LEMMA RequestKeepsKept ==
    ASSUME KeptInv, NEW r \in Requests, Request(r) PROVE KeptInv'
<1>0. LockInv'  BY RequestKeepsLocks DEF KeptInv
<1>1. ASSUME UNCHANGED session,
             \A k \in DOMAIN entry' : k \in DOMAIN entry /\ entry'[k] = entry[k],
             \/ \E how : how \notin {"run", "wait"} /\ Ends(r, how)
             \/ \E steps : At(r, steps) /\ GoesOn(r)
      PROVE  KeptInv'
  <2>1. KeptAnswersAreSound'  BY <1>1, LosingStaysSound DEF KeptInv
  <2>2. QED  BY <1>0, <1>1, <2>1, EndsFits, GoesOnFits
<1>2. CASE Rejected(r)  BY <1>1, <1>2 DEF Rejected
<1>3. CASE Begins(r)  BY <1>0, <1>3, BeginsFits
<1>4. CASE Answers(r)  BY <1>1, <1>4 DEF Answers
<1>5. CASE Asks(r)
  <2>1. \/ At(r, {"ask", "token", "refuse?"}) /\ GoesOn(r)
        \/ Ends(r, "failed")
        \/ Ends(r, "refused")
    BY <1>5 DEF Asks
  <2>2. UNCHANGED <<session, entry>>  BY <1>5 DEF Asks
  <2>3. QED  BY <1>1, <2>1, <2>2
<1>6. CASE AsksEach(r)  BY <1>0, <1>6, AsksEachFits
<1>7. CASE NeedsConnection(r)
  <2>1. (At(r, {"enabled?"}) /\ GoesOn(r)) \/ Ends(r, "refused")
    BY <1>7 DEF NeedsConnection
  <2>2. UNCHANGED <<session, entry>>  BY <1>7 DEF NeedsConnection
  <2>3. QED  BY <1>1, <2>1, <2>2
<1>8. CASE TimesOut(r)  BY <1>1, <1>8 DEF TimesOut
<1>9. CASE Gets(r)  BY <1>0, <1>9, GetsFits
<1>10. CASE Resumes(r)  BY <1>0, <1>10, ResumesFits
<1>11. CASE Puts(r)  BY <1>0, <1>11, PutsFits
<1>12. CASE Finds(r)  BY <1>0, <1>12, FindsFits
<1>13. CASE Stores(r)  BY <1>0, <1>13, StoresFits
<1>14. CASE Stats(r)  BY <1>1, <1>14 DEF Stats
<1>15. CASE Clears(r)  BY <1>1, <1>15 DEF Clears
<1>16. QED
  BY <1>2, <1>3, <1>4, <1>5, <1>6, <1>7, <1>8, <1>9, <1>10, <1>11, <1>12, <1>13,
     <1>14, <1>15 DEF Request

LEMMA NextKeepsKept == KeptInv /\ [Next]_vars => KeptInv'
<1> SUFFICES ASSUME KeptInv, [Next]_vars PROVE KeptInv'  OBVIOUS
<1>0. LockInv'  BY NextKeepsLocks DEF KeptInv
<1>1. CASE \E r \in Requests : Request(r)  BY <1>1, RequestKeepsKept
<1>2. CASE (\E k \in DOMAIN entry : Expires(k)) \/ NextSession \/ SwitchedOff \/ SwitchedOn
             \/ UNCHANGED vars
  <2>1. /\ UNCHANGED req /\ (session' = session \/ session' = session + 1)
        /\ \A k \in DOMAIN entry' : k \in DOMAIN entry /\ entry'[k] = entry[k]
    BY <1>2 DEF Expires, NextSession, SwitchedOff, SwitchedOn, vars
  <2>2. KeptAnswersAreSound'  BY <2>1, LosingStaysSound DEF KeptInv
  <2>3. session' \in Nat /\ session <= session' /\ session \in Nat  BY <2>1 DEF KeptInv
  <2>4. \A r \in Requests : GuardedFits(req[r], session')
    BY <2>3 DEF KeptInv, GuardedFits
  <2>5. QED  BY <1>0, <2>1, <2>2, <2>3, <2>4 DEF KeptInv
<1>3. QED  BY <1>1, <1>2 DEF Next

(* Whatever requests there are, and whatever becomes of their sessions, the   *)
(* switch and the cache while they load: what a cache_if guards is cached     *)
(* only if no instrument failed, and an overview only if it was loaded from   *)
(* first to last in the session its key names (get_equity_overview,           *)
(* DetailedBarsResponse.cacheable).                                           *)
THEOREM GuardedAnswersAreSound == Spec => []KeptAnswersAreSound
<1>1. Init => KeptInv
  <2> SUFFICES ASSUME Init PROVE KeptInv  OBVIOUS
  <2>1. LockInv  BY InitLocks
  <2>2. session \in Nat /\ KeptAnswersAreSound  BY DEF Init, KeptAnswersAreSound
  <2>3. \A r \in Requests : req[r].pc = "idle"  BY DEF Init, NoRequest
  <2>4. \A r \in Requests : GuardedFits(req[r], session)  BY <2>3 DEF GuardedFits
  <2>5. QED  BY <2>1, <2>2, <2>4 DEF KeptInv
<1>2. KeptInv => KeptAnswersAreSound  BY DEF KeptInv
<1>3. QED  BY <1>1, <1>2, NextKeepsKept, PTL DEF Spec

-----------------------------------------------------------------------------
\* The types.

Endings == {"answered", "refused", "failed", "timed out"}

\* A request in session n after c clears.
RequestTyped(q, n, c) ==
    /\ DOMAIN q = Fields
    /\ q.pc \in {"idle", "run", "wait"} \cup Endings
    /\ (q.pc = "wait") = (q.awaits # {})
    /\ q.whole \in BOOLEAN
    /\ q.pc \in {"run", "wait"} =>
          q.of \in DOMAIN Routes /\ q.captured \in 1..n /\ q.since \in 1..n
    /\ \A lock \in q.locks \cup q.awaits : lock.key \in Keys /\ lock.clears \in 0..c

EntriesTyped(e) ==
    /\ DOMAIN e \subseteq Keys
    /\ \A k \in DOMAIN e :
          /\ e[k].clears \in 0..MaxClears /\ e[k].whole \in BOOLEAN
          /\ e[k].sessions \subseteq 1..MaxSessions

TypesInv ==
    /\ RequestShape
    /\ session \in 1..MaxSessions /\ enabled \in BOOLEAN /\ clears \in 0..MaxClears
    /\ EntriesTyped(entry)
    /\ \A r \in Requests : RequestTyped(req[r], session, clears)

LEMMA TypesImply == ASSUME RestAssumption, TypesInv PROVE TypeOK
<1>1. clears \in Nat /\ MaxClears \in Nat /\ clears <= MaxClears
  BY DEF TypesInv, RestAssumption
<1>2. \A i \in 0..clears : i \in 0..MaxClears  BY <1>1
<1>3. ASSUME NEW r \in Requests
      PROVE  /\ req[r].pc \in {"idle", "run", "wait", "answered", "refused", "failed",
                                "timed out"}
             /\ (req[r].pc = "wait") = (req[r].awaits # {})
             /\ \A lock \in req[r].locks \cup req[r].awaits :
                    lock.key \in Keys /\ lock.clears \in 0..MaxClears
  <2>1. RequestTyped(req[r], session, clears)  BY DEF TypesInv
  <2>2. QED  BY <1>2, <2>1, Zenon DEF RequestTyped, Endings
<1>4. QED  BY <1>3 DEF TypesInv, TypeOK, EntriesTyped

LEMMA TypesStart == ASSUME RestAssumption, Init PROVE TypesInv
<1> USE DEF Init, RestAssumption
<1>1. RequestTyped(NoRequest, session, clears)  BY DEF RequestTyped, NoRequest, Fields
<1>2. RequestShape  BY DEF RequestShape, NoRequest, Fields
<1>3. EntriesTyped(entry)  BY DEF EntriesTyped
<1>4. QED  BY <1>1, <1>2, <1>3 DEF TypesInv

LEMMA LaterTyped ==
    ASSUME NEW q, NEW n, NEW c \in Nat, NEW d \in Nat, c <= d, RequestTyped(q, n, c)
    PROVE  RequestTyped(q, n, d)
<1>1. \A i \in 0..c : i \in 0..d  OBVIOUS
<1>2. QED  BY <1>1, Zenon DEF RequestTyped

\* A request becomes q.
LEMMA OneRequestTyped ==
    ASSUME RestAssumption, TypesInv, NEW r \in Requests, NEW q,
           req' = [req EXCEPT ![r] = q], UNCHANGED <<session, enabled>>,
           clears' \in 0..MaxClears, clears <= clears',
           EntriesTyped(entry'), RequestTyped(q, session, clears)
    PROVE  TypesInv'
<1>1. /\ DOMAIN req = Requests /\ DOMAIN req' = Requests
      /\ req' = [x \in Requests |-> req'[x]]
      /\ \A x \in Requests : req'[x] = IF x = r THEN q ELSE req[x]
  BY DEF TypesInv, RequestShape
<1>2. \A x \in Requests : RequestTyped(req'[x], session, clears)  BY <1>1 DEF TypesInv
<1>3. RequestShape'  BY <1>1, <1>2 DEF RequestShape, RequestTyped
<1>4. clears \in Nat /\ clears' \in Nat  BY DEF TypesInv, RestAssumption
<1>5. \A x \in Requests : RequestTyped(req'[x], session', clears')
  BY <1>2, <1>4, LaterTyped
<1>6. QED  BY <1>3, <1>5 DEF TypesInv

\* A request runs on in its session.
LEMMA RunsOn ==
    ASSUME NEW n \in Nat, NEW c \in Nat, NEW x, RequestTyped(x, n, c),
           x.pc \in {"run", "wait"}, NEW q, DOMAIN q = Fields, q.pc = "run",
           q.of = x.of, q.captured = x.captured, q.since \in 1..n, q.whole \in BOOLEAN,
           q.awaits = {},
           \A lock \in q.locks : lock.key \in Keys /\ lock.clears \in 0..c
    PROVE  RequestTyped(q, n, c)
BY DEF RequestTyped

LEMMA RequestKnown ==
    ASSUME RestAssumption, TypesInv, NEW r \in Requests
    PROVE  /\ DOMAIN req[r] = Fields /\ RequestTyped(req[r], session, clears)
           /\ session \in Nat /\ session >= 1 /\ session <= MaxSessions
           /\ MaxSessions \in Nat /\ MaxClears \in Nat
           /\ clears \in Nat /\ clears <= MaxClears
           /\ req[r].pc = "run" => req[r].awaits = {}
<1>1. DOMAIN req[r] = Fields /\ RequestTyped(req[r], session, clears)
  BY DEF TypesInv, RequestShape
<1>2. /\ session \in Nat /\ session >= 1 /\ session <= MaxSessions
      /\ MaxSessions \in Nat /\ MaxClears \in Nat
      /\ clears \in Nat /\ clears <= MaxClears
  BY DEF TypesInv, RestAssumption
<1>3. req[r].pc = "run" => req[r].awaits = {}
  <2>1. (req[r].pc = "wait") = (req[r].awaits # {})  BY <1>1 DEF RequestTyped
  <2>2. QED  BY <2>1
<1>4. QED  BY <1>1, <1>2, <1>3

LEMMA KeyTyped ==
    ASSUME RestAssumption, TypesInv, NEW r \in Requests, req[r].pc = "run"
    PROVE  Key(r) \in Keys
<1>1. /\ req[r].of \in DOMAIN Routes /\ req[r].captured \in 1..session
      /\ session \in Nat /\ MaxSessions \in Nat /\ session <= MaxSessions
  BY RequestKnown DEF RequestTyped
<1> DEFINE a == IF Step(r) \in {"getProviders", "putProviders"} THEN "get_news_providers"
                                                              ELSE Namespace(req[r].of)
           b == Step(r) \in {"find", "store"}
           c == IF req[r].of = "get_equity_overview" THEN req[r].captured ELSE 0
<1>2. a \in {Namespace(route) : route \in DOMAIN Routes} \cup {"get_news_providers"}
  BY <1>1
<1>3. b \in BOOLEAN  OBVIOUS
<1>4. c \in 0..MaxSessions  BY <1>1
<1>5. Key(r) = [of |-> a, range |-> b, session |-> c]  BY DEF Key
<1> HIDE DEF a, b, c
<1>6. QED  BY <1>2, <1>3, <1>4, <1>5 DEF Keys

\* What the cache holds keeps its types.
LEMMA PutTyped ==
    ASSUME RestAssumption, TypesInv, NEW r \in Requests, req[r].pc = "run",
           NEW k \in Keys, NEW c \in 0..MaxClears, entry' = EntryWith(k, Value(r, c))
    PROVE  EntriesTyped(entry')
<1> DEFINE v == Value(r, c)
<1>1. v.clears \in 0..MaxClears /\ v.whole \in BOOLEAN /\ v.sessions \subseteq 1..MaxSessions
  <2>1. /\ req[r].whole \in BOOLEAN /\ req[r].since \in 1..session
        /\ session \in Nat /\ MaxSessions \in Nat /\ session <= MaxSessions
    BY RequestKnown DEF RequestTyped
  <2>2. req[r].since..session \subseteq 1..MaxSessions  BY <2>1
  <2>3. v.clears = c /\ v.whole = req[r].whole /\ v.sessions = req[r].since..session
    BY DEF Value
  <2>4. QED  BY <2>1, <2>2, <2>3
<1> HIDE DEF v
<1>2. /\ entry'[k] = v
      /\ \A j : j # k => /\ j \in DOMAIN entry' <=> j \in DOMAIN entry
                         /\ j \in DOMAIN entry => entry'[j] = entry[j]
  BY PutEntry DEF v
<1>3. EntriesTyped(entry)  BY DEF TypesInv
<1>4. QED  BY <1>1, <1>2, <1>3 DEF EntriesTyped

LEMMA LosingTyped ==
    ASSUME TypesInv, \A k \in DOMAIN entry' : k \in DOMAIN entry /\ entry'[k] = entry[k]
    PROVE  EntriesTyped(entry')
BY DEF TypesInv, EntriesTyped

LEMMA EndsTyped ==
    ASSUME RestAssumption, TypesInv, NEW r \in Requests,
           NEW how \in Endings, Ends(r, how),
           UNCHANGED <<session, enabled, clears, entry>>
    PROVE  TypesInv'
<1>1. Ended(how) = [NoRequest EXCEPT !.pc = how]  BY DEF Ended
<1>2. /\ DOMAIN Ended(how) = Fields /\ Ended(how).pc = how /\ Ended(how).whole = TRUE
      /\ Ended(how).locks = {} /\ Ended(how).awaits = {}
  BY <1>1 DEF NoRequest, Fields
<1>3. RequestTyped(Ended(how), session, clears)  BY <1>2 DEF RequestTyped, Endings
<1>4. EntriesTyped(entry')  BY LosingTyped
<1>5. clears' \in 0..MaxClears /\ clears <= clears'  BY RequestKnown
<1>6. QED  BY <1>3, <1>4, <1>5, OneRequestTyped DEF Ends

LEMMA GoesOnTyped ==
    ASSUME RestAssumption, TypesInv, NEW r \in Requests, req[r].pc = "run", GoesOn(r),
           UNCHANGED <<session, enabled>>, clears' \in 0..MaxClears, clears <= clears',
           EntriesTyped(entry')
    PROVE  TypesInv'
<1> DEFINE x == req[r]
           q == [x EXCEPT !.at = x.at + 1]
<1>1. req' = [req EXCEPT ![r] = q]  BY DEF GoesOn, TypesInv, RequestShape
<1>2. /\ DOMAIN x = Fields /\ RequestTyped(x, session, clears)
      /\ session \in Nat /\ clears \in Nat /\ x.pc = "run" /\ x.awaits = {}
  BY RequestKnown
<1>3. /\ DOMAIN q = Fields /\ q.pc = x.pc /\ q.of = x.of /\ q.captured = x.captured
      /\ q.since = x.since /\ q.whole = x.whole /\ q.locks = x.locks
      /\ q.awaits = x.awaits
  BY <1>2 DEF Fields
<1> HIDE DEF x, q
<1>4. RequestTyped(q, session, clears)  BY <1>2, <1>3, RunsOn DEF RequestTyped
<1>5. QED  BY <1>1, <1>4, OneRequestTyped DEF x

LEMMA BeginsTyped ==
    ASSUME RestAssumption, TypesInv, NEW r \in Requests, Begins(r) PROVE TypesInv'
<1>1. PICK route \in RoutesOf[r] : \E way \in Routes[route] :
        req' = [req EXCEPT ![r] = [NoRequest EXCEPT !.pc = "run", !.of = route,
                                                    !.way = way, !.captured = session,
                                                    !.since = session]]
  BY DEF Begins
<1>2. PICK way :
        req' = [req EXCEPT ![r] = [NoRequest EXCEPT !.pc = "run", !.of = route,
                                                    !.way = way, !.captured = session,
                                                    !.since = session]]
  BY <1>1
<1> DEFINE q == [NoRequest EXCEPT !.pc = "run", !.of = route, !.way = way,
                                  !.captured = session, !.since = session]
<1>3. /\ DOMAIN q = Fields /\ q.pc = "run" /\ q.of = route /\ q.captured = session
      /\ q.since = session /\ q.whole = TRUE /\ q.locks = {} /\ q.awaits = {}
  BY DEF NoRequest, Fields
<1>4. req' = [req EXCEPT ![r] = q]  BY <1>2
<1> HIDE DEF q
<1>5. route \in DOMAIN Routes  BY DEF RestAssumption
<1>6. session \in 1..session  BY RequestKnown
<1>7. RequestTyped(q, session, clears)  BY <1>3, <1>5, <1>6 DEF RequestTyped
<1>8. /\ UNCHANGED <<session, enabled, clears, entry>>
      /\ EntriesTyped(entry') /\ clears' \in 0..MaxClears /\ clears <= clears'
  BY DEF Begins, TypesInv, RestAssumption
<1>9. QED  BY <1>4, <1>7, <1>8, OneRequestTyped

LEMMA AsksEachTyped ==
    ASSUME RestAssumption, TypesInv, NEW r \in Requests, AsksEach(r) PROVE TypesInv'
<1> DEFINE x == req[r]
<1>1. PICK all \in BOOLEAN : req' = [req EXCEPT ![r].at = @ + 1, ![r].whole = @ /\ all]
  BY DEF AsksEach
<1>2. PICK w : w = (x.whole /\ all)  OBVIOUS
<1> DEFINE q == [x EXCEPT !.at = x.at + 1, !.whole = w]
<1>3. req' = [req EXCEPT ![r].at = @ + 1, ![r].whole = w]  BY <1>1, <1>2
<1>4. req' = [req EXCEPT ![r] = q]  BY <1>3 DEF TypesInv, RequestShape
<1>5. /\ DOMAIN x = Fields /\ RequestTyped(x, session, clears)
      /\ session \in Nat /\ clears \in Nat /\ x.pc = "run" /\ x.awaits = {}
  BY RequestKnown DEF AsksEach, At
<1>6. w \in BOOLEAN  BY <1>2
<1>7. /\ DOMAIN q = Fields /\ q.pc = x.pc /\ q.of = x.of /\ q.captured = x.captured
      /\ q.since = x.since /\ q.whole = w /\ q.locks = x.locks /\ q.awaits = x.awaits
  BY <1>5 DEF Fields
<1> HIDE DEF x, q
<1>8. RequestTyped(q, session, clears)  BY <1>5, <1>6, <1>7, RunsOn DEF RequestTyped
<1>9. /\ UNCHANGED <<session, enabled, clears, entry>>
      /\ EntriesTyped(entry') /\ clears' \in 0..MaxClears /\ clears <= clears'
  BY DEF AsksEach, TypesInv, RestAssumption
<1>10. QED  BY <1>4, <1>8, <1>9, OneRequestTyped DEF x

\* Steps of the cache.

LEMMA HitsTyped ==
    ASSUME RestAssumption, TypesInv, NEW r \in Requests, req[r].pc \in {"run", "wait"},
           NEW lock, Hits(r, lock), UNCHANGED <<session, enabled, clears, entry>>
    PROVE  TypesInv'
<1> DEFINE x == req[r]
           i == CloseOf(r) + 1
           q == [x EXCEPT !.pc = "run", !.at = i, !.awaits = {}]
<1>1. req' = [req EXCEPT ![r].pc = "run", ![r].at = i, ![r].awaits = {}]  BY DEF Hits
<1> HIDE DEF i
<1>2. req' = [req EXCEPT ![r] = q]  BY <1>1 DEF TypesInv, RequestShape
<1>3. /\ DOMAIN x = Fields /\ RequestTyped(x, session, clears)
      /\ session \in Nat /\ clears \in Nat
  BY RequestKnown
<1>4. /\ DOMAIN q = Fields /\ q.pc = "run" /\ q.of = x.of /\ q.captured = x.captured
      /\ q.since = x.since /\ q.whole = x.whole /\ q.locks = x.locks /\ q.awaits = {}
  BY <1>3 DEF Fields
<1>5. x.pc \in {"run", "wait"}  OBVIOUS
<1> HIDE DEF x, q
<1>6. RequestTyped(q, session, clears)  BY <1>3, <1>4, <1>5, RunsOn DEF RequestTyped
<1>7. EntriesTyped(entry')  BY LosingTyped
<1>8. clears' \in 0..MaxClears /\ clears <= clears'  BY DEF TypesInv, RestAssumption
<1>9. QED  BY <1>2, <1>6, <1>7, <1>8, OneRequestTyped DEF x

LEMMA StartsLoadTyped ==
    ASSUME RestAssumption, TypesInv, NEW r \in Requests, req[r].pc \in {"run", "wait"},
           NEW lock, lock.key \in Keys, lock.clears \in 0..clears, StartsLoad(r, lock),
           UNCHANGED <<session, enabled, clears, entry>>
    PROVE  TypesInv'
<1> DEFINE x == req[r]
           q == [x EXCEPT !.pc = "run", !.at = x.at + 1, !.since = session,
                          !.whole = TRUE, !.locks = x.locks \cup {lock}, !.awaits = {}]
<1>1. req' = [req EXCEPT ![r] = q]  BY DEF StartsLoad, TypesInv, RequestShape
<1>2. /\ DOMAIN x = Fields /\ RequestTyped(x, session, clears)
      /\ session \in Nat /\ clears \in Nat /\ session \in 1..session
  BY RequestKnown
<1>3. /\ DOMAIN q = Fields /\ q.pc = "run" /\ q.of = x.of /\ q.captured = x.captured
      /\ q.since = session /\ q.whole = TRUE /\ q.locks = x.locks \cup {lock}
      /\ q.awaits = {}
  BY <1>2 DEF Fields
<1>4. x.pc \in {"run", "wait"}  OBVIOUS
<1> HIDE DEF x, q
<1>5. \A m \in q.locks : m.key \in Keys /\ m.clears \in 0..clears
  BY <1>2, <1>3 DEF RequestTyped
<1>6. RequestTyped(q, session, clears)  BY <1>2, <1>3, <1>4, <1>5, RunsOn DEF RequestTyped
<1>7. EntriesTyped(entry')  BY LosingTyped
<1>8. clears' \in 0..MaxClears /\ clears <= clears'  BY DEF TypesInv, RestAssumption
<1>9. QED  BY <1>1, <1>6, <1>7, <1>8, OneRequestTyped DEF x

LEMMA GetsTyped ==
    ASSUME RestAssumption, TypesInv, NEW r \in Requests, Gets(r) PROVE TypesInv'
<1> DEFINE x == req[r]
           lock == KeyLock(r)
           q == [x EXCEPT !.pc = "wait", !.awaits = {lock}]
<1>1. x.pc = "run" /\ UNCHANGED <<session, enabled, clears, entry>>  BY DEF Gets, At
<1>2. lock.key \in Keys /\ lock.clears \in 0..clears
  <2>1. lock.key = Key(r) /\ lock.clears = clears  BY DEF KeyLock
  <2>2. QED  BY <1>1, <2>1, KeyTyped, RequestKnown
<1>3. \/ Hits(r, lock)
      \/ StartsLoad(r, lock)
      \/ req' = [req EXCEPT ![r].pc = "wait", ![r].awaits = {lock}]
  BY DEF Gets, Misses
<1> HIDE DEF lock
<1>4. CASE req' = [req EXCEPT ![r].pc = "wait", ![r].awaits = {lock}]
  <2>1. req' = [req EXCEPT ![r] = q]  BY <1>4 DEF TypesInv, RequestShape
  <2>2. DOMAIN x = Fields /\ RequestTyped(x, session, clears)  BY RequestKnown
  <2>3. /\ DOMAIN q = Fields /\ q.pc = "wait" /\ q.of = x.of /\ q.captured = x.captured
        /\ q.since = x.since /\ q.whole = x.whole /\ q.locks = x.locks
        /\ q.awaits = {lock}
    BY <2>2 DEF Fields
  <2> HIDE DEF x, q
  <2>4. \A m \in q.locks \cup q.awaits : m.key \in Keys /\ m.clears \in 0..clears
    BY <1>2, <2>2, <2>3 DEF RequestTyped
  <2>5. (q.pc = "wait") = (q.awaits # {})  BY <2>3
  <2>6. RequestTyped(q, session, clears)
    BY <1>1, <2>2, <2>3, <2>4, <2>5 DEF RequestTyped
  <2>7. EntriesTyped(entry')  BY <1>1, LosingTyped
  <2>8. clears' \in 0..MaxClears /\ clears <= clears'
    BY <1>1 DEF TypesInv, RestAssumption
  <2>9. QED  BY <1>1, <2>1, <2>6, <2>7, <2>8, OneRequestTyped DEF x
<1>5. QED  BY <1>1, <1>2, <1>3, <1>4, HitsTyped, StartsLoadTyped

LEMMA ResumesTyped ==
    ASSUME RestAssumption, TypesInv, NEW r \in Requests, Resumes(r) PROVE TypesInv'
<1>1. PICK lock \in req[r].awaits : Rechecks(r, lock)  BY DEF Resumes
<1>2. Hits(r, lock) \/ StartsLoad(r, lock)  BY <1>1 DEF Rechecks, Misses
<1>3. lock.key \in Keys /\ lock.clears \in 0..clears  BY RequestKnown DEF RequestTyped
<1>4. req[r].pc = "wait" /\ UNCHANGED <<session, enabled, clears, entry>>  BY DEF Resumes
<1>5. QED  BY <1>2, <1>3, <1>4, HitsTyped, StartsLoadTyped

LEMMA PutsTyped ==
    ASSUME RestAssumption, TypesInv, NEW r \in Requests, Puts(r) PROVE TypesInv'
<1>1. PICK lock \in req[r].locks :
        /\ \/ UNCHANGED entry
           \/ entry' = EntryWith(lock.key, Value(r, lock.clears))
        /\ req' = [req EXCEPT ![r].at = @ + 1, ![r].locks = @ \ {lock}]
  BY DEF Puts
<1> DEFINE x == req[r]
           q == [x EXCEPT !.at = x.at + 1, !.locks = x.locks \ {lock}]
<1>2. req' = [req EXCEPT ![r] = q]  BY <1>1 DEF TypesInv, RequestShape
<1>3. /\ DOMAIN x = Fields /\ RequestTyped(x, session, clears)
      /\ session \in Nat /\ clears \in Nat /\ x.pc = "run" /\ x.awaits = {}
      /\ MaxClears \in Nat /\ clears <= MaxClears
  BY RequestKnown DEF Puts, At
<1>4. /\ DOMAIN q = Fields /\ q.pc = x.pc /\ q.of = x.of /\ q.captured = x.captured
      /\ q.since = x.since /\ q.whole = x.whole /\ q.locks = x.locks \ {lock}
      /\ q.awaits = x.awaits
  BY <1>3 DEF Fields
<1>5. lock.key \in Keys /\ lock.clears \in 0..clears  BY <1>3 DEF RequestTyped
<1>6. lock.clears \in 0..MaxClears  BY <1>3, <1>5
<1>7. EntriesTyped(entry')
  <2>1. CASE UNCHANGED entry  BY <2>1, LosingTyped
  <2>2. CASE entry' = EntryWith(lock.key, Value(r, lock.clears))
    BY <1>3, <1>5, <1>6, <2>2, PutTyped
  <2>3. QED  BY <1>1, <2>1, <2>2
<1> HIDE DEF x, q
<1>8. RequestTyped(q, session, clears)  BY <1>3, <1>4, RunsOn DEF RequestTyped
<1>9. UNCHANGED <<session, enabled, clears>>  BY DEF Puts
<1>10. clears' \in 0..MaxClears /\ clears <= clears'  BY <1>9, RequestKnown
<1>11. QED  BY <1>2, <1>7, <1>8, <1>9, <1>10, OneRequestTyped DEF x

LEMMA FindsTyped ==
    ASSUME RestAssumption, TypesInv, NEW r \in Requests, Finds(r) PROVE TypesInv'
<1>1. UNCHANGED <<session, enabled, clears, entry>>  BY DEF Finds
<1>2. CASE Ends(r, "answered")  BY <1>1, <1>2, EndsTyped DEF Endings
<1>3. CASE req' = [req EXCEPT ![r].at = @ + 1, ![r].since = session]
  <2> DEFINE x == req[r]
             q == [x EXCEPT !.at = x.at + 1, !.since = session]
  <2>1. req' = [req EXCEPT ![r] = q]  BY <1>3 DEF TypesInv, RequestShape
  <2>2. /\ DOMAIN x = Fields /\ RequestTyped(x, session, clears)
        /\ session \in Nat /\ clears \in Nat /\ x.pc = "run" /\ x.awaits = {}
        /\ session \in 1..session
    BY RequestKnown DEF Finds, At
  <2>3. /\ DOMAIN q = Fields /\ q.pc = x.pc /\ q.of = x.of /\ q.captured = x.captured
        /\ q.since = session /\ q.whole = x.whole /\ q.locks = x.locks
        /\ q.awaits = x.awaits
    BY <2>2 DEF Fields
  <2> HIDE DEF x, q
  <2>4. RequestTyped(q, session, clears)  BY <2>2, <2>3, RunsOn DEF RequestTyped
  <2>5. EntriesTyped(entry')  BY <1>1, LosingTyped
  <2>6. clears' \in 0..MaxClears /\ clears <= clears'  BY <1>1, RequestKnown
  <2>7. QED  BY <1>1, <2>1, <2>4, <2>5, <2>6, OneRequestTyped DEF x
<1>4. QED  BY <1>2, <1>3 DEF Finds

LEMMA StoresTyped ==
    ASSUME RestAssumption, TypesInv, NEW r \in Requests, Stores(r) \/ Clears(r)
    PROVE  TypesInv'
<1>1. req[r].pc = "run" /\ GoesOn(r) /\ UNCHANGED <<session, enabled>>
  BY DEF Stores, Clears, At
<1>2. CASE Stores(r)
  <2>1. entry' = EntryWith(Key(r), Value(r, clears)) /\ clears' = clears
    BY <1>2 DEF Stores
  <2>2. clears \in 0..MaxClears /\ clears <= clears'  BY <2>1, RequestKnown
  <2>3. EntriesTyped(entry')  BY <1>1, <2>1, <2>2, KeyTyped, PutTyped
  <2>4. QED  BY <1>1, <2>1, <2>2, <2>3, GoesOnTyped
<1>3. CASE Clears(r)
  <2>1. clears < MaxClears /\ clears' = clears + 1 /\ entry' = [k \in {} |-> 0]
    BY <1>3 DEF Clears
  <2>2. clears' \in 0..MaxClears /\ clears <= clears'  BY <2>1, RequestKnown
  <2>3. EntriesTyped(entry')  BY <2>1 DEF EntriesTyped
  <2>4. QED  BY <1>1, <2>2, <2>3, GoesOnTyped
<1>4. QED  BY <1>2, <1>3

\* Steps that only look, ask, wait or end.
LEMMA PlainTyped ==
    ASSUME RestAssumption, TypesInv, NEW r \in Requests,
           \/ Rejected(r) \/ Answers(r) \/ Asks(r) \/ NeedsConnection(r) \/ TimesOut(r)
           \/ Stats(r)
    PROVE  TypesInv'
<1>1. UNCHANGED <<session, enabled, clears, entry>>
  BY DEF Rejected, Answers, Asks, NeedsConnection, TimesOut, Stats
<1>2. \/ \E how \in Endings : Ends(r, how)
      \/ req[r].pc = "run" /\ GoesOn(r)
  BY DEF Endings, Rejected, Answers, Asks, NeedsConnection, TimesOut, Stats, At
<1>3. EntriesTyped(entry')  BY <1>1, LosingTyped
<1>4. clears' \in 0..MaxClears /\ clears <= clears'  BY <1>1, RequestKnown
<1>5. QED  BY <1>1, <1>2, <1>3, <1>4, EndsTyped, GoesOnTyped

\* The connection and the entries that expire.
LEMMA OthersTyped ==
    ASSUME RestAssumption, TypesInv,
           \/ \E k \in DOMAIN entry : Expires(k)
           \/ NextSession \/ SwitchedOff \/ SwitchedOn
    PROVE  TypesInv'
<1>1. UNCHANGED <<clears, req>>  BY DEF Expires, NextSession, SwitchedOff, SwitchedOn
<1>2. \A k \in DOMAIN entry' : k \in DOMAIN entry /\ entry'[k] = entry[k]
  BY DEF Expires, NextSession, SwitchedOff, SwitchedOn
<1>3. /\ session \in Nat /\ session' \in 1..MaxSessions /\ session <= session'
      /\ enabled' \in BOOLEAN
  <2>1. session \in 1..MaxSessions /\ MaxSessions \in Nat /\ enabled \in BOOLEAN
    BY DEF TypesInv, RestAssumption
  <2>2. \/ session' = session
        \/ session < MaxSessions /\ session' = session + 1
    BY DEF Expires, NextSession, SwitchedOff, SwitchedOn
  <2>3. enabled' \in BOOLEAN
    BY <2>1 DEF Expires, NextSession, SwitchedOff, SwitchedOn
  <2>4. QED  BY <2>1, <2>2, <2>3
<1>4. EntriesTyped(entry')  BY <1>2, LosingTyped
<1>5. \A i \in 1..session : i \in 1..session'  BY <1>3
<1>6. ASSUME NEW r \in Requests PROVE RequestTyped(req[r], session', clears)
  <2>1. RequestTyped(req[r], session, clears)  BY DEF TypesInv
  <2>2. QED  BY <1>5, <2>1, Zenon DEF RequestTyped
<1>7. RequestShape'  BY <1>1 DEF TypesInv, RequestShape
<1>8. QED  BY <1>1, <1>3, <1>4, <1>6, <1>7 DEF TypesInv

LEMMA TypesStep ==
    ASSUME RestAssumption, TypesInv, [Next]_vars PROVE TypesInv'
<1>1. CASE UNCHANGED vars
  BY <1>1 DEF vars, TypesInv, RequestShape, EntriesTyped
<1>2. ASSUME NEW r \in Requests, Request(r) PROVE TypesInv'
  BY <1>2, BeginsTyped, AsksEachTyped, GetsTyped, ResumesTyped, PutsTyped, FindsTyped,
     StoresTyped, PlainTyped
  DEF Request
<1>3. QED  BY <1>1, <1>2, OthersTyped DEF Next
===============================================================================
