----------------------------- MODULE RedisStore -----------------------------
(***************************************************************************)
(* redis_store.go: counters with a time to live, where each replica sends  *)
(* EXPIRE for a key only until it has seen one confirmed (expireSeen).     *)
(* Redis may lose a key at any time, and an INCRBY then recreates it with  *)
(* no time to live at all.                                                 *)
(***************************************************************************)
EXTENDS Integers, FiniteSets, SequencesExt

CONSTANTS
    Batches,    \* incrMulti / incrAndGetMulti calls, each made at most once
    Replicas,   \* processes, each with a redisStore of its own
    Keys,       \* counter keys
    RepOf,      \* [Calls -> Replicas]
    Entries,    \* [Calls -> Seq(Keys)]: the entries of each call, each a counter of its own
    Delta,      \* [Calls -> {-1, 1}]: what the call adds to its entries
    CacheMax,   \* expireOnceCacheMax
    MaxLost,    \* bound on the keys Redis loses
    MaxFaults,  \* bound on error replies, broken connections and restarts
    MaxConcurrent \* bound on the calls running at one time

ASSUME StoreAssumption ==
    /\ RepOf \in [Batches -> Replicas]
    /\ Entries \in [Batches -> Seq(Keys) \ {<< >>}]
    /\ \A c \in Batches : \A i, j \in 1..Len(Entries[c]) : Entries[c][i] = Entries[c][j] => i = j
    /\ Delta \in [Batches -> {-1, 1}]
    /\ CacheMax \in Nat \ {0}
    /\ MaxLost \in Nat /\ MaxFaults \in Nat /\ MaxConcurrent \in Nat \ {0}

VARIABLES
    val,     \* [Keys -> Int]: the counter's value, 0 when it is absent
    ttl,     \* [Keys -> {"absent", "volatile", "immortal"}]
    seen,    \* per replica, the keys whose EXPIRE was confirmed
    order,   \* per replica, expireOrder: the order of confirmation
    at,      \* where each call is
    pos,     \* index of the entry the server is at
    send,    \* per call, the keys it sends EXPIRE for (sendExpire)
    first,   \* per call, the keys whose INCRBY reply equalled its delta
    conf,    \* per call, the keys whose EXPIRE was answered with 1
    bad,     \* per call, index of the first error reply, 0 if none
    overlap, \* history: two calls were running at one time
    lost,    \* keys lost so far
    errors,  \* INCRBYs answered with an error so far
    denied,  \* EXPIREs answered with an error so far
    broken,  \* pipelines that ended in an error so far
    crashes  \* replica restarts so far

batchVars == <<at, pos, send, first, conf, bad>>
faultVars == <<lost, errors, denied, broken, crashes>>
storeVars == <<val, ttl, seen, order, batchVars, overlap, faultVars>>

faults == errors + denied + broken + crashes
InFlight == {c \in Batches : at[c] \notin {"idle", "done"}}

-----------------------------------------------------------------------------
\* commitExpireLocked: first in, first out, bounded by CacheMax.
Commit(cache, k) ==
    IF k \in cache.seen THEN cache
    ELSE LET full == Len(cache.order) >= CacheMax
             s == IF full THEN cache.seen \ {Head(cache.order)} ELSE cache.seen
             o == IF full THEN Tail(cache.order) ELSE cache.order
         IN  [seen |-> s \cup {k}, order |-> Append(o, k)]

\* forgetExpireLocked leaves the key's place in expireOrder.
Forget(cache, k) == [cache EXCEPT !.seen = @ \ {k}]

Cache(p) == [seen |-> seen[p], order |-> order[p]]
SetCache(p, cache) ==
    /\ seen' = [seen EXCEPT ![p] = cache.seen]
    /\ order' = [order EXCEPT ![p] = cache.order]

\* applyIncrReplies stops at the first error reply; the entries before it count.
Processed(c) == IF bad[c] = 0 THEN Len(Entries[c]) ELSE bad[c] - 1

\* The cache once the first n entries of call c are settled: a confirmed EXPIRE
\* is committed, a key among those recreated is forgotten.
Settled(c, n, recreated) ==
    LET after[i \in 0..n] ==
            IF i = 0 THEN Cache(RepOf[c])
            ELSE LET k == Entries[c][i]
                 IN  IF k \in conf[c] THEN Commit(after[i - 1], k)
                     ELSE IF k \in recreated THEN Forget(after[i - 1], k)
                     ELSE after[i - 1]
    IN  after[n]

\* firstWrite: a key whose EXPIRE was sent is never taken for a first write.
FirstWrites(c) == first[c] \ send[c]

\* Faulty variant: a recreated key is forgotten but not repaired.
RecreatedNone(c) == {}
\* The entries repairRecreatedExpires sends EXPIRE for.
Recreated(c) == {i \in 1..Len(Entries[c]) : Entries[c][i] \in FirstWrites(c)}

-----------------------------------------------------------------------------
StoreInit ==
    /\ val = [k \in Keys |-> 0]
    /\ ttl = [k \in Keys |-> "absent"]
    /\ seen = [p \in Replicas |-> {}]
    /\ order = [p \in Replicas |-> << >>]
    /\ at = [c \in Batches |-> "idle"]
    /\ pos = [c \in Batches |-> 1]
    /\ send = [c \in Batches |-> {}]
    /\ first = [c \in Batches |-> {}]
    /\ conf = [c \in Batches |-> {}]
    /\ bad = [c \in Batches |-> 0]
    /\ overlap = FALSE
    /\ lost = 0 /\ errors = 0 /\ denied = 0 /\ broken = 0 /\ crashes = 0

\* needsExpireBatch decides, under the lock, before the pipeline goes out.
Start(c) ==
    /\ at[c] = "idle"
    /\ Cardinality(InFlight) < MaxConcurrent
    /\ at' = [at EXCEPT ![c] = "incr"]
    /\ send' = [send EXCEPT ![c] = {k \in Keys : k \notin seen[RepOf[c]]}]
    /\ overlap' = (overlap \/ InFlight # {})
    /\ UNCHANGED <<val, ttl, seen, order, pos, first, conf, bad, faultVars>>

\* Where the server goes after the commands of entry pos[c].
Advance(c, phase) ==
    /\ pos' = [pos EXCEPT ![c] = @ + 1]
    /\ at' = [at EXCEPT ![c] = IF pos[c] = Len(Entries[c]) THEN "answered" ELSE phase]

\* Redis runs the entry's INCRBY, or answers it with an error.
IncrBy(c) ==
    /\ at[c] = "incr"
    /\ LET k == Entries[c][pos[c]]
           v == val[k] + Delta[c]
       IN  /\ \/ /\ val' = [val EXCEPT ![k] = v]
                 /\ ttl' = [ttl EXCEPT ![k] = IF @ = "absent" THEN "immortal" ELSE @]
                 /\ first' = [first EXCEPT ![c] = IF v = Delta[c] THEN @ \cup {k} ELSE @]
                 /\ UNCHANGED <<bad, errors>>
              \/ /\ faults < MaxFaults
                 /\ errors' = errors + 1
                 /\ bad' = [bad EXCEPT ![c] = IF @ = 0 THEN pos[c] ELSE @]
                 /\ UNCHANGED <<val, ttl, first>>
           /\ IF k \in send[c]
              THEN at' = [at EXCEPT ![c] = "expire"] /\ UNCHANGED pos
              ELSE Advance(c, "incr")
    /\ UNCHANGED <<seen, order, send, conf, overlap, lost, denied, broken, crashes>>

\* Redis runs an EXPIRE of call c: 1 when the key exists, 0 when it does not.
RunExpire(c, k) ==
    \/ /\ ttl[k] # "absent"
       /\ ttl' = [ttl EXCEPT ![k] = "volatile"]
       /\ conf' = [conf EXCEPT ![c] = @ \cup {k}]
       /\ UNCHANGED denied
    \/ /\ ttl[k] = "absent"
       /\ UNCHANGED <<ttl, conf, denied>>
    \/ /\ faults < MaxFaults
       /\ denied' = denied + 1
       /\ UNCHANGED <<ttl, conf>>

Expire(c) ==
    /\ at[c] = "expire"
    /\ RunExpire(c, Entries[c][pos[c]])
    /\ Advance(c, "incr")
    /\ UNCHANGED <<val, seen, order, send, first, bad, overlap, lost, errors, broken, crashes>>

\* incrMulti / incrAndGetMulti once the replies are read: settle the cache,
\* then either report the error or send the repairs.
Settle(c) ==
    /\ at[c] = "answered"
    /\ SetCache(RepOf[c], Settled(c, Processed(c), FirstWrites(c)))
    /\ IF bad[c] # 0 \/ Recreated(c) = {}
       THEN at' = [at EXCEPT ![c] = "done"] /\ UNCHANGED pos
       ELSE at' = [at EXCEPT ![c] = "repair"] /\ pos' = [pos EXCEPT ![c] = Min(Recreated(c))]
    /\ conf' = [conf EXCEPT ![c] = {}]
    /\ UNCHANGED <<val, ttl, send, first, bad, overlap, faultVars>>

\* repairRecreatedExpires, one EXPIRE per recreated key.
Repair(c) ==
    /\ at[c] = "repair"
    /\ RunExpire(c, Entries[c][pos[c]])
    /\ LET rest == {i \in Recreated(c) : i > pos[c]}
       IN  IF rest = {}
           THEN at' = [at EXCEPT ![c] = "repaired"] /\ UNCHANGED pos
           ELSE pos' = [pos EXCEPT ![c] = Min(rest)] /\ UNCHANGED at
    /\ UNCHANGED <<val, seen, order, send, first, bad, overlap, lost, errors, broken, crashes>>

\* Its replies are in: commit the keys that were answered with 1.
CommitRepairs(c) ==
    /\ at[c] = "repaired"
    /\ SetCache(RepOf[c], Settled(c, Len(Entries[c]), {}))
    /\ at' = [at EXCEPT ![c] = "done"]
    /\ UNCHANGED <<val, ttl, pos, send, first, conf, bad, overlap, faultVars>>

\* The pipeline of a call, or of its repairs, ends in an error: its replies
\* are never looked at.
Break(c) ==
    /\ at[c] \in {"incr", "expire", "answered", "repair", "repaired"}
    /\ faults < MaxFaults
    /\ broken' = broken + 1
    /\ at' = [at EXCEPT ![c] = "done"]
    /\ UNCHANGED <<val, ttl, seen, order, pos, send, first, conf, bad,
                   overlap, lost, errors, denied, crashes>>

\* Redis loses a key: it expires, is evicted, or a restart or failover drops it.
LoseKey(k) ==
    /\ ttl[k] # "absent"
    /\ lost < MaxLost
    /\ lost' = lost + 1
    /\ ttl' = [ttl EXCEPT ![k] = "absent"]
    /\ val' = [val EXCEPT ![k] = 0]
    /\ UNCHANGED <<seen, order, batchVars, overlap, errors, denied, broken, crashes>>

\* A replica restarts: its cache is empty and its calls are gone.
Crash(p) ==
    /\ faults < MaxFaults
    /\ crashes' = crashes + 1
    /\ SetCache(p, [seen |-> {}, order |-> << >>])
    /\ at' = [c \in Batches |-> IF RepOf[c] = p /\ c \in InFlight THEN "done" ELSE at[c]]
    /\ UNCHANGED <<val, ttl, pos, send, first, conf, bad, overlap, lost, errors, denied, broken>>

StoreNext ==
    \/ \E c \in Batches :
          \/ Start(c) \/ IncrBy(c) \/ Expire(c) \/ Settle(c)
          \/ Repair(c) \/ CommitRepairs(c) \/ Break(c)
    \/ \E k \in Keys : LoseKey(k)
    \/ \E p \in Replicas : Crash(p)

StoreSpec == StoreInit /\ [][StoreNext]_storeVars

-----------------------------------------------------------------------------
\* The type invariant of the module's state.
StoreTypeOK ==
    /\ val \in [Keys -> Int]
    /\ ttl \in [Keys -> {"absent", "volatile", "immortal"}]
    /\ seen \in [Replicas -> SUBSET Keys]
    /\ order \in [Replicas -> Seq(Keys)]
    /\ at \in [Batches -> {"idle", "incr", "expire", "answered", "repair", "repaired", "done"}]
    /\ pos \in [Batches -> Nat \ {0}]
    /\ \A x \in {send, first, conf} : x \in [Batches -> SUBSET Keys]
    /\ bad \in [Batches -> Nat]
    /\ overlap \in BOOLEAN
    /\ lost \in Nat /\ errors \in Nat /\ denied \in Nat /\ broken \in Nat /\ crashes \in Nat

\* A counter without a time to live does not stay so.  When no call is running
\* one is left only after a fault, on however many replicas the stale cache
\* skipped its EXPIRE; and if calls did not overlap and every reply arrived, then
\* some replica knows and will send EXPIRE with its next increment of the key
\* (forgetExpireLocked: "bounding the immortal-key window to at most one skipped
\* cycle").
QuietMeansMortal ==
    InFlight = {} =>
        \A k \in Keys : ttl[k] = "immortal" =>
            /\ faults > 0
            /\ ~overlap /\ broken = 0 /\ errors = 0 => \E p \in Replicas : k \notin seen[p]

=============================================================================
