-------------------------------- MODULE CfPool --------------------------------
(* The Cloudflare side of the connection pool (pool.rs cf_get, cf_prefetch,     *)
(* cf_refill_reserved): spare tunnels, opened only behind a connection that has *)
(* just worked, at most CF_POOL_MAX idle in a bucket and one being opened.  A   *)
(* bucket is one (tier, dc, is_media) key; the domain a spare runs through does *)
(* not change what happens to it and is left out.  Each action is one critical  *)
(* section.                                                                     *)
EXTENDS Naturals, Sequences

CONSTANTS
  CfKey,      \* buckets: (tier, dc, is_media)
  CfClient,   \* clients being routed
  CfTask,     \* identities of refill tasks
  CfPoolMax,  \* CF_POOL_MAX
  CfPoolSize, \* pool_size, --pool-size
  NoKey

ASSUME CfPoolAssumption ==
  /\ NoKey \notin CfKey
  /\ CfPoolMax \in Nat \ {0} /\ CfPoolSize \in Nat

VARIABLES
  spare,      \* cf_idle: the idle spares of a bucket, TRUE while one can be used
  reserved,   \* cf_refilling
  wish,       \* the bucket a client is about to call cf_prefetch for, or NoKey
  refill      \* the refill tasks: where each is and for which bucket

cfVars == <<spare, reserved, wish, refill>>

CfBudget == IF CfPoolMax < CfPoolSize THEN CfPoolMax ELSE CfPoolSize

NoTask == [at |-> "free", key |-> NoKey]

CfInit ==
  /\ spare = [k \in CfKey |-> <<>>]
  /\ reserved = {}
  /\ wish = [c \in CfClient |-> NoKey]
  /\ refill = [t \in CfTask |-> NoTask]

\* cf_get, under the lock: spares are popped from the back until one is young and
\* quiet enough; that one is the client's, and the bucket is prefetched for.
CfHit(c, k) ==
  /\ wish[c] = NoKey
  /\ \E i \in DOMAIN spare[k] :
       /\ spare[k][i] /\ \A j \in i + 1..Len(spare[k]) : ~spare[k][j]
       /\ spare' = [spare EXCEPT ![k] = SubSeq(@, 1, i - 1)]
  /\ wish' = [wish EXCEPT ![c] = k]
  /\ UNCHANGED <<reserved, refill>>

\* A miss empties the bucket and opens nothing.
CfMiss(c, k) ==
  /\ wish[c] = NoKey
  /\ \A i \in DOMAIN spare[k] : ~spare[k][i]
  /\ spare' = [spare EXCEPT ![k] = <<>>]
  /\ UNCHANGED <<reserved, wish, refill>>

\* A tunnel the routing has just opened in line: cf_prefetch comes next.
CfOpened(c, k) ==
  /\ wish[c] = NoKey
  /\ wish' = [wish EXCEPT ![c] = k]
  /\ UNCHANGED <<spare, reserved, refill>>

\* cf_prefetch without a pool, or for a bucket that is being refilled.
CfPrefetchSkips(c) ==
  /\ wish[c] # NoKey
  /\ CfPoolSize = 0 \/ wish[c] \in reserved
  /\ wish' = [wish EXCEPT ![c] = NoKey]
  /\ UNCHANGED <<spare, reserved, refill>>

\* Mutant: what the insert into cf_refilling answers is not looked at.
CfPrefetchAlways(c, t) ==
  /\ wish[c] # NoKey /\ CfPoolSize > 0
  /\ refill[t].at = "free"
  /\ reserved' = reserved \cup {wish[c]}
  /\ refill' = [refill EXCEPT ![t] = [at |-> "count", key |-> wish[c]]]
  /\ wish' = [wish EXCEPT ![c] = NoKey]
  /\ UNCHANGED spare

\* reserve_cf_refill inserts the key and the task is spawned.
CfPrefetch(c, t) ==
  /\ wish[c] # NoKey /\ CfPoolSize > 0 /\ wish[c] \notin reserved
  /\ refill[t].at = "free"
  /\ reserved' = reserved \cup {wish[c]}
  /\ refill' = [refill EXCEPT ![t] = [at |-> "count", key |-> wish[c]]]
  /\ wish' = [wish EXCEPT ![c] = NoKey]
  /\ UNCHANGED spare

RefillGoes(t, from, to) ==
  /\ refill[t].at = from
  /\ refill' = [refill EXCEPT ![t].at = to]

\* cf_refill_reserved: a full bucket ends the task at once.
CfCount(t) ==
  /\ RefillGoes(t, "count",
                IF Len(spare[refill[t].key]) >= CfBudget THEN "drop" ELSE "dial")
  /\ UNCHANGED <<spare, reserved, wish>>

\* cf_connect_one; no connection, no spare.
CfDialled(t) ==
  /\ RefillGoes(t, "dial", "push") \/ RefillGoes(t, "dial", "drop")
  /\ UNCHANGED <<spare, reserved, wish>>

\* The bucket is counted again; a surplus connection is closed.
CfPush(t) ==
  /\ RefillGoes(t, "push", "drop")
  /\ LET k == refill[t].key
     IN  spare' = IF Len(spare[k]) < CfBudget
                    THEN [spare EXCEPT ![k] = Append(@, TRUE)] ELSE spare
  /\ UNCHANGED <<reserved, wish>>

\* RefillGuard::drop, on every way out.
CfDrop(t) ==
  /\ refill[t].at = "drop"
  /\ reserved' = reserved \ {refill[t].key}
  /\ refill' = [refill EXCEPT ![t] = NoTask]
  /\ UNCHANGED <<spare, wish>>

\* A spare passes CF_POOL_MAX_AGE or is closed by its peer.
CfAges(k) ==
  /\ \E i \in DOMAIN spare[k] : spare[k][i] /\ spare' = [spare EXCEPT ![k][i] = FALSE]
  /\ UNCHANGED <<reserved, wish, refill>>

CfClientStep(c) ==
  \/ \E k \in CfKey : CfHit(c, k) \/ CfMiss(c, k) \/ CfOpened(c, k)
  \/ CfPrefetchSkips(c)
  \/ \E t \in CfTask : CfPrefetch(c, t)

CfTaskStep(t) == CfCount(t) \/ CfDialled(t) \/ CfPush(t) \/ CfDrop(t)

CfNext ==
  \/ \E c \in CfClient : CfClientStep(c)
  \/ \E t \in CfTask : CfTaskStep(t)
  \/ \E k \in CfKey : CfAges(k)

CfSpec == CfInit /\ [][CfNext]_cfVars

----------------------------------------------------------------------------

CfTypeOK ==
  /\ spare \in [CfKey -> Seq(BOOLEAN)]
  /\ reserved \subseteq CfKey
  /\ wish \in [CfClient -> CfKey \cup {NoKey}]
  /\ refill \in [CfTask -> {NoTask} \cup [at : {"count", "dial", "push", "drop"}, key : CfKey]]

\* No bucket holds more spares than CF_POOL_MAX.
CfBounded == \A k \in CfKey : Len(spare[k]) <= CfBudget

\* The refill tasks alive for a bucket.
CfHolders == [k \in CfKey |-> {t \in CfTask : refill[t].key = k}]

CfLease == INSTANCE RefillLease
  WITH Bucket <- CfKey, Task <- CfTask, holders <- CfHolders

\* Refills of the Cloudflare pool are leases of their bucket too: whatever
\* clients hit, miss and connect, a bucket has one refill task at a time
\* (reserve_cf_refill, RefillGuard).
CfLeaseSpec == CfLease!Spec
=============================================================================
