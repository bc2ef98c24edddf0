---------------------------- MODULE RefillLease ----------------------------
(* What both connection pools promise about their background refills: a      *)
(* bucket is a lease.  A refill task takes the lease before it exists, keeps *)
(* it for its whole life, and the next task starts only after it is returned.*)
CONSTANTS Bucket,   \* pool buckets
          Task      \* identities of refill tasks

VARIABLE holders    \* bucket -> the refill tasks alive for it

Init == holders = [b \in Bucket |-> {}]

\* A task is spawned for a bucket nobody is refilling.
Acquire(b, t) ==
  /\ holders[b] = {}
  /\ \A c \in Bucket : t \notin holders[c]
  /\ holders' = [holders EXCEPT ![b] = {t}]

\* The task ends, whatever it achieved.
Release(b, t) ==
  /\ holders[b] = {t}
  /\ holders' = [holders EXCEPT ![b] = {}]

Next == \E b \in Bucket, t \in Task : Acquire(b, t) \/ Release(b, t)

Spec == Init /\ [][Next]_holders
=============================================================================
