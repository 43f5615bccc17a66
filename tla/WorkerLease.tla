---------------------------- MODULE WorkerLease ----------------------------
(***************************************************************************)
(* Worker ids leased from the database (apps/server/internal/infra:        *)
(* wuid.go, and dlock.go as wuid uses it).                                 *)
(*                                                                         *)
(* Each process claims a slot of the table worker_ids under the allocation *)
(* lock, renews it from a heartbeat, and minting ids stops when the lease  *)
(* may be lost.  The clock of the database ticks in units; a call takes    *)
(* effect at one moment and returns at a later one.  With Timely no        *)
(* heartbeat and no call it makes is later than Latency; without, a call   *)
(* may hang and a process may be suspended for as long as you like.        *)
(***************************************************************************)
EXTENDS Naturals, FiniteSets

CONSTANTS
  Nodes,    \* processes; the name of one is also its token and lock owner
  MaxId,    \* the largest worker id (65535 in the code)
  Lease,    \* the lease, which is also the TTL of the allocation lock
  Retry,    \* retryInterval
  Latency,  \* how late a heartbeat or the answer to a call is with Timely
  Timely,
  MaxTime,  \* bound: ticks of the clock
  MaxFaults, \* bound: calls that fail, crashes and calls of Close
  None

Renew  == Lease \div 3
Margin == Lease \div 3

(* An interval of the heartbeat and the margin leave room for two answers  *)
(* that are as late as they can be.                                        *)
ASSUME LeaseAssumption ==
  /\ None \notin Nodes /\ None \notin Nat
  /\ MaxId \in Nat
  /\ Lease \in Nat /\ Retry \in Nat /\ Latency \in Nat
  /\ MaxTime \in Nat /\ MaxFaults \in Nat
  /\ Retry <= Renew
  /\ Timely \in BOOLEAN
  /\ Timely => 2 * Latency + Retry <= Margin + 1

Ids == 0 .. MaxId

VARIABLES
  now,        \* the clock of the database
  lockOwner, lockUntil,   \* the row 'wuid:alloc' of dlocks
  token, until, size,     \* worker_ids: the rows 0 .. size - 1
  pc,         \* where the process is in allocate, claimUnderLock or run
  pick,       \* the slot it looks at or has claimed
  id, alive, lastRenew,   \* the fields of Worker
  due,        \* when the timer fires, or when the slot was claimed
  res,        \* the answer to the renewal on its way
  closing,    \* how far Worker.Close is
  faults      \* how many faults there were: for the bound only

lockVars == <<lockOwner, lockUntil>>
rowVars == <<token, until, size>>
workerVars == <<id, alive, lastRenew>>
vars == <<now, lockVars, rowVars, pc, pick, workerVars, due, res, closing, faults>>

Init ==
  /\ now = 1
  /\ lockOwner = None /\ lockUntil = 0
  /\ token = [i \in Ids |-> None]
  /\ until = [i \in Ids |-> 0]
  /\ size = 0
  /\ pc = [n \in Nodes |-> "off"]
  /\ pick = [n \in Nodes |-> None]
  /\ id = [n \in Nodes |-> None]
  /\ alive = [n \in Nodes |-> FALSE]
  /\ lastRenew = [n \in Nodes |-> 0]
  /\ due = [n \in Nodes |-> 0]
  /\ res = [n \in Nodes |-> "ok"]
  /\ closing = [n \in Nodes |-> "no"]
  /\ faults = 0

Goto(n, where) == pc' = [pc EXCEPT ![n] = where]
Pick(n, i) == pick' = [pick EXCEPT ![n] = i]

Opened(n) == id[n] # None
Cancelled(n) == closing[n] = "cancelled"

Fault == faults < MaxFaults /\ faults' = faults + 1

-----------------------------------------------------------------------------
(***************************************************************************)
(* claimUnderLock.  The owner of the lock is a fresh token of every call,  *)
(* so no process takes over a lock of its earlier life.                    *)
(***************************************************************************)
Open(n) ==
  /\ pc[n] = "off"
  /\ Goto(n, "lock")
  /\ UNCHANGED <<now, lockVars, rowVars, pick, workerVars, due, res, closing, faults>>

Reacquire(n) ==
  /\ pc[n] = "sleep"
  /\ ~Cancelled(n)
  /\ ~alive[n]
  /\ now >= due[n]
  /\ Goto(n, "lock")
  /\ UNCHANGED <<now, lockVars, rowVars, pick, workerVars, due, res, closing, faults>>

Lock(n) ==
  /\ pc[n] = "lock"
  /\ ~Cancelled(n)
  /\ lockUntil < now
  /\ lockOwner' = n
  /\ lockUntil' = now + Lease
  /\ Goto(n, "select")
  /\ UNCHANGED <<now, rowVars, pick, workerVars, due, res, closing, faults>>

Expired == {i \in Ids : i < size /\ until[i] < now}

Select(n) ==
  /\ pc[n] = "select"
  /\ ~Cancelled(n)
  /\ \/ /\ Expired = {}
        /\ Goto(n, "max")
        /\ UNCHANGED pick
     \/ \E i \in Expired :
          /\ \A j \in Expired : i <= j
          /\ Pick(n, i)
          /\ Goto(n, "claim")
  /\ UNCHANGED <<now, lockVars, rowVars, workerVars, due, res, closing, faults>>

Take(n, i) ==
  /\ token' = [token EXCEPT ![i] = n]
  /\ until' = [until EXCEPT ![i] = now + Lease]
  /\ due' = [due EXCEPT ![n] = now]

(* The slip: the slot that was expired when it was looked at is taken.     *)
ClaimUnguarded(n) ==
  /\ pc[n] = "claim"
  /\ ~Cancelled(n)
  /\ Take(n, pick[n])
  /\ Goto(n, "unlock")
  /\ UNCHANGED <<now, lockVars, size, pick, workerVars, res, closing, faults>>

Claim(n) ==
  /\ pc[n] = "claim"
  /\ ~Cancelled(n)
  /\ IF until[pick[n]] < now
       THEN Take(n, pick[n]) /\ Goto(n, "unlock")
       ELSE Goto(n, "max") /\ UNCHANGED <<token, until, due>>
  /\ UNCHANGED <<now, lockVars, size, pick, workerVars, res, closing, faults>>

(* The slip: the size of the pool is not looked at.                        *)
PoolUnbounded(n) ==
  /\ pc[n] = "max"
  /\ ~Cancelled(n)
  /\ Pick(n, size)
  /\ Goto(n, "insert")
  /\ UNCHANGED <<now, lockVars, rowVars, workerVars, due, res, closing, faults>>

MaxOf(n) ==
  /\ pc[n] = "max"
  /\ ~Cancelled(n)
  /\ IF size <= MaxId THEN Pick(n, size) /\ Goto(n, "insert")
                      ELSE Pick(n, None) /\ Goto(n, "unlock")
  /\ UNCHANGED <<now, lockVars, rowVars, workerVars, due, res, closing, faults>>

(* The primary key refuses a second row of the same id.                    *)
Insert(n) ==
  /\ pc[n] = "insert"
  /\ ~Cancelled(n)
  /\ IF size = pick[n]
       THEN Take(n, pick[n]) /\ size' = size + 1 /\ UNCHANGED pick
       ELSE Pick(n, None) /\ UNCHANGED <<rowVars, due>>
  /\ Goto(n, "unlock")
  /\ UNCHANGED <<now, lockVars, workerVars, res, closing, faults>>

(* A call fails, before it took effect or after: the token of the claim is *)
(* then known to nobody.  After Close has cancelled the context they all   *)
(* fail.                                                                   *)
ClaimFails(n) ==
  /\ \/ pc[n] \in {"lock", "select", "claim", "max", "insert"} /\ UNCHANGED token
     \/ /\ pc[n] = "unlock"
        /\ pick[n] # None
        /\ token' = [token EXCEPT ![pick[n]] = None]
  /\ Pick(n, None)
  /\ Goto(n, "unlock")
  /\ IF Cancelled(n) THEN UNCHANGED faults ELSE Fault
  /\ UNCHANGED <<now, lockVars, until, size, workerVars, due, res, closing>>

(* Unlock changes a row of ours only; its error is ignored, and the row    *)
(* keeps an owner that nobody is until the lock expires.                   *)
Unlock(n) ==
  \/ lockOwner = n /\ lockOwner' = None /\ lockUntil' = 0 /\ UNCHANGED faults
  \/ lockOwner = n /\ lockOwner' = None /\ UNCHANGED lockUntil /\ Fault
  \/ lockOwner # n /\ UNCHANGED <<lockVars, faults>>

(* allocate and reacquire: the claimed id becomes the worker's.            *)
Allocated(n) ==
  /\ pc[n] = "unlock"
  /\ pick[n] # None
  /\ Unlock(n)
  /\ id' = [id EXCEPT ![n] = pick[n]]
  /\ alive' = [alive EXCEPT ![n] = TRUE]
  /\ lastRenew' = [lastRenew EXCEPT ![n] = now]
  /\ due' = [due EXCEPT ![n] = now + Renew]
  /\ Pick(n, None)
  /\ Goto(n, "sleep")
  /\ UNCHANGED <<now, rowVars, res, closing>>

NotAllocated(n) ==
  /\ pc[n] = "unlock"
  /\ pick[n] = None
  /\ Unlock(n)
  /\ Goto(n, IF Opened(n) THEN "sleep" ELSE "off")
  /\ due' = [due EXCEPT ![n] = IF Opened(n) THEN now + Retry ELSE 0]
  /\ UNCHANGED <<now, rowVars, pick, workerVars, res, closing>>

-----------------------------------------------------------------------------
(***************************************************************************)
(* The heartbeat: step and renew.                                          *)
(***************************************************************************)
Answer(n, r) == res' = [res EXCEPT ![n] = r]

(* The answer may be lost after the update took effect.                    *)
RenewLease(n) ==
  /\ pc[n] = "sleep"
  /\ ~Cancelled(n)
  /\ alive[n]
  /\ now >= due[n]
  /\ Goto(n, "answer")
  /\ \/ Answer(n, "error") /\ Fault /\ UNCHANGED until
     \/ /\ token[id[n]] = n
        /\ until' = [until EXCEPT ![id[n]] = now + Lease]
        /\ \/ Answer(n, "ok") /\ UNCHANGED faults
           \/ Answer(n, "error") /\ Fault
     \/ /\ token[id[n]] # n
        /\ Answer(n, "taken")
        /\ UNCHANGED <<until, faults>>
  /\ UNCHANGED <<now, lockVars, token, size, pick, workerVars, due, closing>>

(* The slip: an error is tolerated up to the end of the lease.             *)
NoMargin(n) ==
  /\ pc[n] = "answer"
  /\ Goto(n, "sleep")
  /\ LET stays == res[n] = "ok" \/ (res[n] = "error" /\ now < lastRenew[n] + Lease)
     IN alive' = [alive EXCEPT ![n] = @ /\ stays]
  /\ lastRenew' = [lastRenew EXCEPT ![n] = IF res[n] = "ok" THEN now ELSE @]
  /\ due' = [due EXCEPT ![n] = IF res[n] = "ok" THEN now + Renew ELSE now + Retry]
  /\ UNCHANGED <<now, lockVars, rowVars, pick, id, res, closing, faults>>

(* declareLost when another process has the row, or when an error comes    *)
(* too late in the lease; the error that comes early is retried.           *)
RenewReturns(n) ==
  /\ pc[n] = "answer"
  /\ Goto(n, "sleep")
  /\ LET stays == res[n] = "ok" \/ (res[n] = "error" /\ now + Margin < lastRenew[n] + Lease)
     IN alive' = [alive EXCEPT ![n] = @ /\ stays]
  /\ lastRenew' = [lastRenew EXCEPT ![n] = IF res[n] = "ok" THEN now ELSE @]
  /\ due' = [due EXCEPT ![n] = IF res[n] = "ok" THEN now + Renew ELSE now + Retry]
  /\ UNCHANGED <<now, lockVars, rowVars, pick, id, res, closing, faults>>

-----------------------------------------------------------------------------
(***************************************************************************)
(* Close, which runs next to the heartbeat; a crash.                       *)
(***************************************************************************)
Closing(n, c) == closing' = [closing EXCEPT ![n] = c]

CloseBegins(n) ==
  /\ Opened(n)
  /\ closing[n] = "no"
  /\ Closing(n, "begun")
  /\ alive' = [alive EXCEPT ![n] = FALSE]
  /\ UNCHANGED <<now, lockVars, rowVars, pc, pick, id, lastRenew, due, res>>
  /\ Fault

CloseCancels(n) ==
  /\ closing[n] = "begun"
  /\ Closing(n, "cancelled")
  /\ UNCHANGED <<now, lockVars, rowVars, pc, pick, workerVars, due, res, faults>>

(* wg.Wait: the heartbeat has seen the cancelled context and returned.     *)
CloseReleases(n) ==
  /\ closing[n] = "cancelled"
  /\ pc[n] = "sleep"
  /\ Closing(n, "closed")
  /\ Goto(n, "closed")
  /\ \/ until' = [until EXCEPT ![id[n]] = IF token[id[n]] = n THEN 0 ELSE @] /\ UNCHANGED faults
     \/ Fault /\ UNCHANGED until
  /\ UNCHANGED <<now, lockVars, token, size, pick, workerVars, due, res>>

Crash(n) ==
  /\ pc[n] # "off"
  /\ Goto(n, "off")
  /\ Pick(n, None)
  /\ id' = [id EXCEPT ![n] = None]
  /\ alive' = [alive EXCEPT ![n] = FALSE]
  /\ lastRenew' = [lastRenew EXCEPT ![n] = 0]
  /\ due' = [due EXCEPT ![n] = 0]
  /\ Answer(n, "ok")
  /\ Closing(n, "no")
  /\ token' = [i \in Ids |-> IF token[i] = n THEN None ELSE token[i]]
  /\ lockOwner' = IF lockOwner = n THEN None ELSE lockOwner
  /\ Fault
  /\ UNCHANGED <<now, lockUntil, until, size>>

(* What with Timely has to happen before the clock goes on: a heartbeat    *)
(* that is due, the answer to a renewal, and the end of a claim.           *)
Pressing(n) ==
  \/ pc[n] = "sleep" /\ alive[n]
  \/ pc[n] = "answer"
  \/ pc[n] = "unlock" /\ pick[n] # None

Tick ==
  /\ now < MaxTime
  /\ Timely => \A n \in Nodes : Pressing(n) => now < due[n] + Latency
  /\ now' = now + 1
  /\ UNCHANGED <<lockVars, rowVars, pc, pick, workerVars, due, res, closing, faults>>

Claiming(n) ==
  \/ Open(n) \/ Reacquire(n) \/ Lock(n) \/ Select(n) \/ Claim(n) \/ MaxOf(n) \/ Insert(n)
  \/ ClaimFails(n) \/ Allocated(n) \/ NotAllocated(n)

Stopping(n) == CloseBegins(n) \/ CloseCancels(n) \/ CloseReleases(n) \/ Crash(n)

Next ==
  \/ \E n \in Nodes : Claiming(n) \/ RenewLease(n) \/ RenewReturns(n) \/ Stopping(n)
  \/ Tick

Spec == Init /\ [][Next]_vars

-----------------------------------------------------------------------------
(* The variables have the values the code can give them.                   *)
TypeOK ==
  /\ now \in Nat
  /\ lockOwner \in Nodes \cup {None} /\ lockUntil \in Nat
  /\ token \in [Ids -> Nodes \cup {None}]
  /\ until \in [Ids -> Nat]
  /\ size \in 0 .. MaxId + 1
  /\ pc \in [Nodes -> {"off", "lock", "select", "claim", "max", "insert", "unlock",
                       "sleep", "answer", "closed"}]
  /\ pick \in [Nodes -> Ids \cup {None}]
  /\ id \in [Nodes -> Ids \cup {None}]
  /\ alive \in [Nodes -> BOOLEAN]
  /\ lastRenew \in [Nodes -> Nat]
  /\ due \in [Nodes -> Nat]
  /\ res \in [Nodes -> {"ok", "taken", "error"}]
  /\ closing \in [Nodes -> {"no", "begun", "cancelled", "closed"}]
  /\ faults \in 0 .. MaxFaults

Working(n) == alive[n] /\ closing[n] = "no"

(* No two processes that are alive mint ids with the same worker id.       *)
UniqueAlive ==
  \A m, n \in Nodes : Working(m) /\ Working(n) /\ id[m] = id[n] => m = n

(* A process that is alive has the lease: the row is its own and has not   *)
(* expired, so nobody can claim the slot.                                  *)
LeaseHeld ==
  \A n \in Nodes : Working(n) => token[id[n]] = n /\ now <= until[id[n]]
=============================================================================
