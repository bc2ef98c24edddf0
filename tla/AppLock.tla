------------------------------ MODULE AppLock ------------------------------
(* What every long operation of the desktop program shares (lib.rs): the       *)
(* process, the lock OPS that OpsGuard holds, the indicator op_running that     *)
(* OpGuard raises a moment later, and the flag of a background check            *)
(* (BusyGuard).  A look at a flag and the compare-exchange that follows it are   *)
(* steps of their own wherever others can come between them.                    *)

VARIABLES
  up,     \* the program's process runs
  ops,    \* the operation that holds OPS, or Free
  shown,  \* op_running
  busy    \* a BusyGuard is alive: an automatic check is under way

lockVars == <<up, ops, shown, busy>>

Free == "free"
Operations == {"test", "apply", "check", "service"}

LockTypeOK ==
  /\ up \in BOOLEAN /\ ops \in Operations \cup {Free} /\ busy \in BOOLEAN
  /\ shown \in BOOLEAN /\ (shown => ops # Free)

LockInit == up = FALSE /\ ops = Free /\ shown = FALSE /\ busy = FALSE

\* OpsGuard::acquire: an operation that finds OPS taken answers "busy" and
\* changes nothing.
TryOps(op) == up /\ ops = Free /\ ops' = op /\ UNCHANGED <<up, shown, busy>>

\* OpGuard::new.
ShowsOp(op) == up /\ ops = op /\ ~shown /\ shown' = TRUE /\ UNCHANGED <<up, ops, busy>>

\* Both, for the operations between whose two steps nobody looks at OPS: what is
\* seen of op_running between them is what was seen before.
TakesOps(op) == up /\ ops = Free /\ ops' = op /\ shown' = TRUE /\ UNCHANGED <<up, busy>>

\* OpGuard and OpsGuard are dropped, in this order, by whatever ends the thread.
DropOps(op) == up /\ ops = op /\ ops' = Free /\ shown' = FALSE /\ UNCHANGED <<up, busy>>

\* BusyGuard::try_new.
TryBusy == up /\ ~busy /\ busy' = TRUE /\ UNCHANGED <<up, ops, shown>>

DropBusy == up /\ busy /\ busy' = FALSE /\ UNCHANGED <<up, ops, shown>>

\* The process ends, by a crash or by "quit": threads die where they are, no
\* guard runs its Drop.
LockDies == up /\ up' = FALSE /\ ops' = Free /\ shown' = FALSE /\ busy' = FALSE

LockStarts == ~up /\ up' = TRUE /\ UNCHANGED <<ops, shown, busy>>
=============================================================================
