------------------------- MODULE WorkerLeaseProofs -------------------------
(***************************************************************************)
(* A worker that is alive holds its lease, and no two that are alive have  *)
(* the same id, whatever the number of processes and of slots and the      *)
(* length of the lease, if no heartbeat and no call it makes is too late.  *)
(***************************************************************************)
EXTENDS WorkerLease, TLAPS

(* A slot that was never inserted belongs to nobody.                       *)
Fresh == \A i \in Ids : size <= i => token[i] = None

(* The slot that is about to be claimed has a row.                         *)
Chosen == \A n \in Nodes : pc[n] = "claim" => pick[n] \in Ids /\ pick[n] < size

(* A slot that was claimed is still there when allocate returns with it.   *)
Pending(n) ==
  pc[n] = "unlock" /\ pick[n] # None =>
    /\ token[pick[n]] = n
    /\ due[n] + Lease <= until[pick[n]]
    /\ now <= due[n] + Latency

(* The next heartbeat, however late, is before the end of the lease, which *)
(* is as long as the worker believes but for the time an answer takes.     *)
Current(n) ==
  Working(n) =>
    /\ pc[n] \in {"sleep", "answer"}
    /\ id[n] \in Ids
    /\ token[id[n]] = n
    /\ lastRenew[n] <= now
    /\ lastRenew[n] + Lease <= until[id[n]] + Latency
    /\ now <= due[n] + Latency
    /\ due[n] + Latency <= until[id[n]]

(* A renewal that succeeded counts from the heartbeat that sent it.        *)
Renewed(n) ==
  Working(n) /\ pc[n] = "answer" /\ res[n] = "ok" => due[n] + Lease <= until[id[n]]

Held(n) == Pending(n) /\ Current(n) /\ Renewed(n)

IInv == TypeOK /\ Fresh /\ Chosen /\ \A n \in Nodes : Held(n)

-----------------------------------------------------------------------------
(* What the assumptions say of the lease, its third and the latency.       *)
LEMMA LeaseFacts ==
  /\ Lease \in Nat /\ Retry \in Nat /\ Latency \in Nat /\ Margin \in Nat
  /\ Renew = Margin /\ 3 * Margin <= Lease
  /\ Timely => /\ 2 * Latency + Retry <= Margin + 1
               /\ 2 * Latency + Renew <= Lease
<1>1. Lease \in Nat /\ Retry \in Nat /\ Latency \in Nat
  BY LeaseAssumption
<1>2. Margin \in Nat /\ 3 * Margin <= Lease
  BY <1>1 DEF Margin
<1>3. Renew = Margin
  BY DEF Renew, Margin
<1>4. ASSUME Timely PROVE 2 * Latency + Renew <= Lease
  <2>1. 2 * Latency + Retry <= Margin + 1 /\ Retry <= Margin
    BY <1>3, <1>4, LeaseAssumption
  <2> QED
    BY <1>1, <1>2, <1>3, <2>1
<1> QED
  BY <1>1, <1>2, <1>3, <1>4, LeaseAssumption

(* The initial values have the types of the variables.                     *)
LEMMA InitType == Init => TypeOK
  BY LeaseAssumption DEF Init, TypeOK, Ids

(* Every action keeps the types of the variables.                          *)
LEMMA NextType == TypeOK /\ [Next]_vars => TypeOK'
<1> SUFFICES ASSUME TypeOK, [Next]_vars PROVE TypeOK'
  OBVIOUS
<1> USE LeaseFacts DEF TypeOK, Goto, Pick
<1>1. ASSUME NEW n \in Nodes, Claiming(n) PROVE TypeOK'
  <2>1. CASE Open(n) \/ Reacquire(n)
    BY <2>1 DEF Open, Reacquire, lockVars, rowVars, workerVars
  <2>2. CASE Lock(n)
    BY <2>2 DEF Lock, rowVars, workerVars
  <2>3. CASE Select(n)
    BY <2>3 DEF Select, Expired, lockVars, rowVars, workerVars
  <2>4. CASE Claim(n)
    BY <2>4 DEF Claim, Take, lockVars, workerVars
  <2>5. CASE MaxOf(n)
    <3>1. size <= MaxId => size \in Ids
      BY LeaseAssumption DEF Ids
    <3>2. pick' \in [Nodes -> Ids \cup {None}]
      BY <2>5, <3>1 DEF MaxOf
    <3> QED
      BY <2>5, <3>2 DEF MaxOf, lockVars, rowVars, workerVars
  <2>6. CASE Insert(n)
    <3>1. size = pick[n] => size + 1 \in 0 .. MaxId + 1
      <4>1. size \in Nat /\ MaxId \in Nat /\ None \notin Nat
        BY LeaseAssumption
      <4>2. pick[n] \in Ids \cup {None}
        OBVIOUS
      <4>3. size = pick[n] => size \in 0 .. MaxId
        BY <4>1, <4>2 DEF Ids
      <4> QED
        BY <4>1, <4>3
    <3>2. size' \in 0 .. MaxId + 1
      BY <2>6, <3>1 DEF Insert, rowVars
    <3> QED
      BY <2>6, <3>2 DEF Insert, Take, lockVars, rowVars, workerVars
  <2>7. CASE ClaimFails(n)
    BY <2>7, LeaseAssumption DEF ClaimFails, Fault, lockVars, workerVars
  <2>8. CASE Allocated(n)
    BY <2>8, LeaseAssumption DEF Allocated, Unlock, Fault, lockVars, rowVars
  <2>9. CASE NotAllocated(n)
    <3>1. lockOwner' \in Nodes \cup {None} /\ lockUntil' \in Nat /\ faults' \in 0 .. MaxFaults
      BY <2>9, LeaseAssumption DEF NotAllocated, Unlock, Fault, lockVars
    <3>2. pc' \in [Nodes -> {"off", "lock", "select", "claim", "max", "insert", "unlock",
                            "sleep", "answer", "closed"}]
      BY <2>9 DEF NotAllocated
    <3>3. due' \in [Nodes -> Nat]
      BY <2>9 DEF NotAllocated
    <3> QED
      BY <2>9, <3>1, <3>2, <3>3 DEF NotAllocated, rowVars, workerVars
  <2> QED
    BY <1>1, <2>1, <2>2, <2>3, <2>4, <2>5, <2>6, <2>7, <2>8, <2>9 DEF Claiming
<1>2. ASSUME NEW n \in Nodes, RenewLease(n) PROVE TypeOK'
  BY <1>2, LeaseAssumption DEF RenewLease, Answer, Fault, lockVars, workerVars
<1>3. ASSUME NEW n \in Nodes, RenewReturns(n) PROVE TypeOK'
  BY <1>3 DEF RenewReturns, lockVars, rowVars
<1>4. ASSUME NEW n \in Nodes, Stopping(n) PROVE TypeOK'
  <2>1. CASE CloseBegins(n)
    BY <2>1, LeaseAssumption DEF CloseBegins, Closing, Fault, lockVars, rowVars
  <2>4. CASE CloseCancels(n)
    BY <2>4 DEF CloseCancels, Closing, lockVars, rowVars, workerVars
  <2>2. CASE CloseReleases(n)
    BY <2>2, LeaseAssumption DEF CloseReleases, Closing, Fault, lockVars, workerVars
  <2>3. CASE Crash(n)
    BY <2>3, LeaseAssumption DEF Crash, Answer, Closing, Fault
  <2> QED
    BY <1>4, <2>1, <2>2, <2>3, <2>4 DEF Stopping
<1>5. CASE Tick
  BY <1>5 DEF Tick, lockVars, rowVars, workerVars
<1>6. CASE UNCHANGED vars
  BY <1>6 DEF vars, lockVars, rowVars, workerVars
<1> QED
  BY <1>1, <1>2, <1>3, <1>4, <1>5, <1>6 DEF Next

-----------------------------------------------------------------------------
(* No slot is given to a process before it has a row.                      *)
LEMMA SlotsStep == TypeOK /\ Fresh /\ Chosen /\ [Next]_vars => Fresh' /\ Chosen'
<1> SUFFICES ASSUME TypeOK, Fresh, Chosen, [Next]_vars PROVE Fresh' /\ Chosen'
  OBVIOUS
<1> USE DEF TypeOK, Fresh, Chosen, Goto, Pick
<1>1. ASSUME NEW n \in Nodes, Claiming(n) PROVE Fresh' /\ Chosen'
  <2>1. CASE Open(n) \/ Reacquire(n)
    BY <2>1 DEF Open, Reacquire, rowVars
  <2>2. CASE Lock(n)
    BY <2>2 DEF Lock, rowVars
  <2>3. CASE Select(n)
    BY <2>3 DEF Select, Expired, rowVars
  <2>4. CASE Claim(n)
    <3>1. pick[n] \in Ids /\ pick[n] < size /\ size' = size /\ size \in Nat
      BY <2>4, LeaseAssumption DEF Claim
    <3>2. \A i \in Ids : size <= i => i # pick[n]
      BY <3>1, LeaseAssumption DEF Ids
    <3> QED
      BY <2>4, <3>1, <3>2 DEF Claim, Take
  <2>5. CASE MaxOf(n)
    BY <2>5 DEF MaxOf, rowVars
  <2>6. CASE Insert(n)
    <3>1. \A i \in Ids : size + 1 <= i => size <= i /\ i # size
      <4> TAKE i \in Ids
      <4>1. MaxId \in Nat /\ size \in 0 .. MaxId + 1 /\ i \in 0 .. MaxId
        BY LeaseAssumption DEF Ids
      <4> QED
        BY <4>1
    <3>2. Chosen'
      <4>1. pc' = [pc EXCEPT ![n] = "unlock"] /\ size' \in {size, size + 1}
        BY <2>6 DEF Insert, rowVars
      <4>2. \A m \in Nodes : m # n => pick'[m] = pick[m]
        BY <2>6 DEF Insert
      <4>3. \A m \in Nodes : pc[m] = "claim" => pick[m] \in Nat /\ pick[m] < size + 1
        BY LeaseAssumption DEF Ids
      <4> QED
        BY <4>1, <4>2, <4>3
    <3>3. CASE size = pick[n]
      <4>1. token' = [token EXCEPT ![size] = n] /\ size' = size + 1
        BY <2>6, <3>3 DEF Insert, Take
      <4>2. Fresh'
        BY <3>1, <4>1
      <4> QED
        BY <3>2, <4>2
    <3>4. CASE size # pick[n]
      <4>1. token' = token /\ size' = size
        BY <2>6, <3>4 DEF Insert, rowVars
      <4> QED
        BY <3>2, <4>1
    <3> QED
      BY <3>3, <3>4
  <2>7. CASE ClaimFails(n)
    BY <2>7 DEF ClaimFails
  <2>8. CASE Allocated(n)
    BY <2>8 DEF Allocated, rowVars
  <2>9. CASE NotAllocated(n)
    BY <2>9 DEF NotAllocated, Opened, rowVars
  <2> QED
    BY <1>1, <2>1, <2>2, <2>3, <2>4, <2>5, <2>6, <2>7, <2>8, <2>9 DEF Claiming
<1>2. ASSUME NEW n \in Nodes, RenewLease(n) PROVE Fresh' /\ Chosen'
  BY <1>2 DEF RenewLease
<1>3. ASSUME NEW n \in Nodes, RenewReturns(n) PROVE Fresh' /\ Chosen'
  BY <1>3 DEF RenewReturns, rowVars
<1>4. ASSUME NEW n \in Nodes, Stopping(n) PROVE Fresh' /\ Chosen'
  BY <1>4 DEF Stopping, CloseBegins, CloseCancels, CloseReleases, Crash, rowVars
<1>5. CASE Tick
  BY <1>5 DEF Tick, rowVars
<1>6. CASE UNCHANGED vars
  BY <1>6 DEF vars, rowVars
<1> QED
  BY <1>1, <1>2, <1>3, <1>4, <1>5, <1>6 DEF Next

-----------------------------------------------------------------------------
(* A step that is not m's leaves it alone, and its slot until that expires. *)
Unaffected(m) ==
  /\ now' = now
  /\ pc'[m] = pc[m] /\ pick'[m] = pick[m] /\ id'[m] = id[m] /\ alive'[m] = alive[m]
  /\ lastRenew'[m] = lastRenew[m] /\ due'[m] = due[m] /\ res'[m] = res[m]
  /\ closing'[m] = closing[m]
  /\ \A i \in Ids : token[i] = m /\ now <= until[i] => token'[i] = m /\ until'[i] = until[i]

(* A process the action leaves alone keeps its part of the invariant.       *)
LEMMA UnaffectedHeld ==
  ASSUME Timely, TypeOK, NEW m \in Nodes, Held(m), Unaffected(m)
  PROVE  Held(m)'
<1> USE LeaseFacts DEF TypeOK, Held, Unaffected
<1>1. Pending(m)'
  BY DEF Pending
<1>2. Current(m)'
  BY DEF Current, Working
<1>3. Renewed(m)'
  BY DEF Renewed, Current, Working
<1> QED
  BY <1>1, <1>2, <1>3

(* The claim of one process leaves the others alone: what is claimed has   *)
(* expired or is nobody's.                                                 *)
LEMMA ClaimingOthers ==
  ASSUME Timely, IInv, NEW n \in Nodes, Claiming(n), NEW m \in Nodes, m # n
  PROVE  Unaffected(m)
<1> USE DEF IInv, TypeOK, Goto, Pick, Unaffected
<1>1. CASE Open(n) \/ Reacquire(n)
  BY <1>1 DEF Open, Reacquire, rowVars, workerVars
<1>2. CASE Lock(n)
  BY <1>2 DEF Lock, rowVars, workerVars
<1>3. CASE Select(n)
  BY <1>3 DEF Select, rowVars, workerVars
<1>4. CASE Claim(n)
  <2>1. pick[n] \in Ids
    BY <1>4 DEF Claim, Chosen
  <2>2. until[pick[n]] < now => \A i \in Ids : now <= until[i] => i # pick[n]
    BY <2>1
  <2> QED
    BY <1>4, <2>1, <2>2 DEF Claim, Take, workerVars
<1>5. CASE MaxOf(n)
  BY <1>5 DEF MaxOf, rowVars, workerVars
<1>6. CASE Insert(n)
  <2>1. size = pick[n] => \A i \in Ids : token[i] = m => i # pick[n]
    BY LeaseAssumption DEF Fresh
  <2> QED
    BY <1>6, <2>1 DEF Insert, Take, rowVars, workerVars
<1>7. CASE ClaimFails(n)
  <2>1. pc[n] = "unlock" /\ pick[n] # None => token[pick[n]] = n
    BY DEF Held, Pending
  <2> QED
    BY <1>7, <2>1 DEF ClaimFails, workerVars
<1>8. CASE Allocated(n)
  BY <1>8 DEF Allocated, rowVars
<1>9. CASE NotAllocated(n)
  BY <1>9 DEF NotAllocated, Opened, rowVars, workerVars
<1> QED
  BY <1>1, <1>2, <1>3, <1>4, <1>5, <1>6, <1>7, <1>8, <1>9 DEF Claiming

(* Nor does a renewal, Close or a crash disturb the others.                *)
LEMMA LosingOthers ==
  ASSUME IInv, NEW n \in Nodes, RenewLease(n) \/ RenewReturns(n) \/ Stopping(n),
         NEW m \in Nodes, m # n
  PROVE  Unaffected(m)
<1> USE DEF IInv, TypeOK, Goto, Pick, Answer, Closing, Unaffected
<1>1. CASE RenewLease(n)
  BY <1>1 DEF RenewLease, workerVars
<1>2. CASE RenewReturns(n)
  BY <1>2 DEF RenewReturns, rowVars
<1>3. CASE CloseBegins(n)
  BY <1>3 DEF CloseBegins, rowVars
<1>4. CASE CloseCancels(n)
  BY <1>4 DEF CloseCancels, rowVars, workerVars
<1>5. CASE CloseReleases(n)
  BY <1>5 DEF CloseReleases, workerVars
<1>6. CASE Crash(n)
  BY <1>6 DEF Crash
<1> QED
  BY <1>1, <1>2, <1>3, <1>4, <1>5, <1>6 DEF Stopping

-----------------------------------------------------------------------------
(* What a process does itself: its claim starts the lease.                 *)
LEMMA ClaimingOwn ==
  ASSUME Timely, IInv, NEW n \in Nodes, Claiming(n)
  PROVE  Held(n)'
<1> USE LeaseFacts DEF IInv, TypeOK, Goto, Pick, Held, Pending, Current, Renewed, Working
<1>1. CASE Open(n) \/ Reacquire(n)
  BY <1>1 DEF Open, Reacquire, rowVars, workerVars
<1>2. CASE Lock(n)
  BY <1>2 DEF Lock, rowVars, workerVars
<1>3. CASE Select(n)
  BY <1>3 DEF Select, rowVars, workerVars
<1>4. CASE Claim(n)
  <2>1. pick[n] \in Ids
    BY <1>4 DEF Claim, Chosen
  <2> QED
    BY <1>4, <2>1 DEF Claim, Take, workerVars
<1>5. CASE MaxOf(n)
  BY <1>5 DEF MaxOf, rowVars, workerVars
<1>6. CASE Insert(n)
  BY <1>6 DEF Insert, Take, rowVars, workerVars
<1>7. CASE ClaimFails(n)
  BY <1>7 DEF ClaimFails, workerVars
<1>8. CASE Allocated(n)
  <2>1. pick[n] \in Ids /\ until' = until /\ token' = token /\ now' = now
    BY <1>8 DEF Allocated, rowVars
  <2>2. /\ id'[n] = pick[n] /\ lastRenew'[n] = now /\ due'[n] = now + Renew
        /\ pc'[n] = "sleep" /\ pick'[n] = None
    BY <1>8 DEF Allocated
  <2>3. token[pick[n]] = n /\ due[n] + Lease <= until[pick[n]] /\ now <= due[n] + Latency
    BY <1>8 DEF Allocated
  <2> QED
    BY <2>1, <2>2, <2>3
<1>9. CASE NotAllocated(n)
  BY <1>9 DEF NotAllocated, Opened, rowVars, workerVars
<1> QED
  BY <1>1, <1>2, <1>3, <1>4, <1>5, <1>6, <1>7, <1>8, <1>9 DEF Claiming

(* A renewal extends the lease beyond the next heartbeat; an error is only *)
(* tolerated when there is time for another one.                           *)
LEMMA LosingOwn ==
  ASSUME Timely, IInv, NEW n \in Nodes, RenewLease(n) \/ RenewReturns(n) \/ Stopping(n)
  PROVE  Held(n)'
<1> USE LeaseFacts
        DEF IInv, TypeOK, Goto, Pick, Answer, Closing, Held, Pending, Current, Renewed, Working
<1>1. CASE RenewLease(n)
  BY <1>1 DEF RenewLease, workerVars
<1>2. CASE RenewReturns(n)
  <2>1. /\ pc'[n] = "sleep" /\ id' = id /\ until' = until /\ token' = token /\ now' = now
        /\ closing' = closing
    BY <1>2 DEF RenewReturns, rowVars
  <2>2. CASE res[n] = "ok"
    BY <1>2, <2>1, <2>2 DEF RenewReturns
  <2>3. CASE res[n] = "error" /\ now + Margin < lastRenew[n] + Lease
    BY <1>2, <2>1, <2>3 DEF RenewReturns
  <2>4. CASE ~(res[n] = "ok" \/ (res[n] = "error" /\ now + Margin < lastRenew[n] + Lease))
    <3>1. alive'[n] = FALSE
      BY <1>2, <2>4 DEF RenewReturns
    <3> QED
      BY <2>1, <3>1
  <2> QED
    BY <2>2, <2>3, <2>4
<1>3. CASE CloseBegins(n)
  BY <1>3 DEF CloseBegins, rowVars
<1>4. CASE CloseCancels(n)
  BY <1>4 DEF CloseCancels, rowVars, workerVars
<1>5. CASE CloseReleases(n)
  BY <1>5 DEF CloseReleases, workerVars
<1>6. CASE Crash(n)
  BY <1>6 DEF Crash
<1> QED
  BY <1>1, <1>2, <1>3, <1>4, <1>5, <1>6 DEF Stopping

(* The clock waits for a heartbeat and for an answer that are due.         *)
LEMMA TickHeld ==
  ASSUME Timely, IInv, Tick, NEW n \in Nodes
  PROVE  Held(n)'
BY LeaseFacts
DEF IInv, TypeOK, Tick, Pressing, Held, Pending, Current, Renewed, Working,
    lockVars, rowVars, workerVars

-----------------------------------------------------------------------------
(* No process holds or claims anything before Open.                        *)
LEMMA InitInv == Init => IInv
BY InitType DEF Init, IInv, Fresh, Chosen, Held, Pending, Current, Renewed, Working

(* Every action keeps the lease of every process.                          *)
LEMMA NextInv == Timely /\ IInv /\ [Next]_vars => IInv'
<1> SUFFICES ASSUME Timely, IInv, [Next]_vars PROVE IInv'
  OBVIOUS
<1>1. TypeOK' /\ Fresh' /\ Chosen'
  BY NextType, SlotsStep DEF IInv
<1>2. ASSUME NEW m \in Nodes PROVE Held(m)'
  <2>1. ASSUME NEW n \in Nodes,
               Claiming(n) \/ RenewLease(n) \/ RenewReturns(n) \/ Stopping(n)
        PROVE  Held(m)'
    <3>1. CASE m = n
      BY <2>1, <3>1, ClaimingOwn, LosingOwn
    <3>2. CASE m # n
      <4>1. Unaffected(m)
        BY <2>1, <3>2, ClaimingOthers, LosingOthers
      <4> QED
        BY <4>1, UnaffectedHeld DEF IInv
    <3> QED
      BY <3>1, <3>2
  <2>2. CASE Tick
    BY <2>2, TickHeld
  <2>3. CASE UNCHANGED vars
    <3>1. Unaffected(m)
      BY <2>3 DEF Unaffected, vars, rowVars, workerVars
    <3> QED
      BY <3>1, UnaffectedHeld DEF IInv
  <2> QED
    BY <2>1, <2>2, <2>3 DEF Next
<1> QED
  BY <1>1, <1>2 DEF IInv

(* The invariant says more than that the lease is held.                    *)
LEMMA InvLease == Timely /\ IInv => LeaseHeld
BY LeaseFacts DEF IInv, TypeOK, Held, Current, LeaseHeld

(* One row has one token, so two workers alive have two rows.              *)
LEMMA InvUnique == Timely /\ IInv => UniqueAlive
BY DEF IInv, Held, Current, UniqueAlive

(* The variables of every run have their types: the rows of the pool stay  *)
(* within MaxId.                                                           *)
THEOREM TypeCorrect == Spec => []TypeOK
<1>1. TypeOK /\ [Next]_vars => TypeOK'
  BY NextType
<1> QED
  BY InitType, <1>1, PTL DEF Spec

(* Spec and step() with timely calls: a worker that is alive holds a lease *)
(* that has not expired.                                                   *)
THEOREM LeaseCorrect == ASSUME Timely PROVE Spec => []LeaseHeld
<1>1. IInv /\ [Next]_vars => IInv'
  BY NextInv
<1>2. IInv => LeaseHeld
  BY InvLease
<1> QED
  BY InitInv, <1>1, <1>2, PTL DEF Spec

(* With timely calls no two workers that are alive have the same id.       *)
THEOREM UniqueCorrect == ASSUME Timely PROVE Spec => []UniqueAlive
<1>1. IInv /\ [Next]_vars => IInv'
  BY NextInv
<1>2. IInv => UniqueAlive
  BY InvUnique
<1> QED
  BY InitInv, <1>1, <1>2, PTL DEF Spec
=============================================================================
