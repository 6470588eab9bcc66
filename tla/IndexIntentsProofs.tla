-------------------------- MODULE IndexIntentsProofs --------------------------
(***************************************************************************)
(* What IndexIntents promises of one intent, proved for every set of index  *)
(* workers and mergers, with and without barriers and handles, and for      *)
(* every number of edits, attempts and faults.                              *)
(*                                                                         *)
(* The argument.  Live(w) says that w holds the row for the revision the    *)
(* row has.  It can only begin with a claim, and a request ends it, because *)
(* it stores a revision nobody has claimed: Moves lists what a step may do  *)
(* to the claim, and everything else is about Live.  A live claim has seen  *)
(* what was asked for (Seen), so finish, which compares the revision, puts  *)
(* the intent away only when it was built.  Every attempt of the row's      *)
(* revision is a mishap, the claim that is alive, or was refunded           *)
(* (Counted): the budget is spent on mishaps only.  A message that was sent *)
(* late is recorded or its call still is (TrackedStep), and a barrier's     *)
(* delay survives because a claim cannot be made and an edit keeps it       *)
(* (EmbargoStep).                                                           *)
(***************************************************************************)
EXTENDS IndexIntents, FiniteSetTheorems, TLAPS

(* The values the actions store in the row are typed.                         *)
LEMMA RowValues ==
    /\ NoRow \in Rows
    /\ \A r \in Rows, f \in BOOLEAN : [r EXCEPT !.wake = f] \in Rows
    /\ \A r \in Rows, f \in BOOLEAN : [r EXCEPT !.lease = f] \in Rows
    /\ \A r \in Rows, f \in BOOLEAN : [r EXCEPT !.failed = f] \in Rows
    /\ \A r \in Rows, t \in Times : [r EXCEPT !.notBefore = t] \in Rows
    /\ \A r \in Rows, n \in Nat : [r EXCEPT !.attempts = n] \in Rows
    /\ \A r \in Rows, t \in Times, f \in BOOLEAN : [r EXCEPT !.notBefore = t, !.wake = f] \in Rows
    /\ \A r \in Rows, f \in BOOLEAN, c \in Callers \cup {Nobody} :
          [r EXCEPT !.wake = f, !.reservation = c] \in Rows
    /\ \A r \in Rows, n \in Nat, c \in Callers \cup {Nobody} :
          [r EXCEPT !.receipt = n, !.reservation = c] \in Rows
    /\ \A r \in Rows, s \in Reasons, n \in Nat, f \in BOOLEAN :
          [r EXCEPT !.reason = s, !.schedule = n, !.wake = f] \in Rows
    /\ \A r \in Rows, f \in BOOLEAN : [r EXCEPT !.owner = Nobody, !.lease = FALSE, !.wake = f] \in Rows
    /\ \A r \in Rows, f \in BOOLEAN, s \in Reasons, t \in Times, n \in Nat :
          [r EXCEPT !.wake = f, !.reason = s, !.notBefore = t, !.schedule = n] \in Rows
    /\ \A r \in Rows, n \in Nat, f \in BOOLEAN, t \in Times :
          [r EXCEPT !.rev = n, !.failed = f, !.notBefore = t] \in Rows
    /\ \A r \in Rows, w \in Workers, n \in Nat, k \in Nat :
          [r EXCEPT !.owner = w, !.lease = TRUE, !.wake = FALSE, !.reservation = Nobody, !.schedule = 0,
                    !.attempts = n, !.attemptRev = k] \in Rows
  <1>1. NoRow \in Rows
    BY DEF NoRow, Rows, Times, Reasons
  <1>2. \A r \in Rows, f \in BOOLEAN : [r EXCEPT !.wake = f] \in Rows
    BY DEF Rows
  <1>3. \A r \in Rows, f \in BOOLEAN : [r EXCEPT !.lease = f] \in Rows
    BY DEF Rows
  <1>4. \A r \in Rows, f \in BOOLEAN : [r EXCEPT !.failed = f] \in Rows
    BY DEF Rows
  <1>5. \A r \in Rows, t \in Times : [r EXCEPT !.notBefore = t] \in Rows
    BY DEF Rows
  <1>6. \A r \in Rows, n \in Nat : [r EXCEPT !.attempts = n] \in Rows
    BY DEF Rows
  <1>7. \A r \in Rows, t \in Times, f \in BOOLEAN : [r EXCEPT !.notBefore = t, !.wake = f] \in Rows
    BY DEF Rows
  <1>8. \A r \in Rows, f \in BOOLEAN, c \in Callers \cup {Nobody} :
          [r EXCEPT !.wake = f, !.reservation = c] \in Rows
    BY DEF Rows
  <1>9. \A r \in Rows, n \in Nat, c \in Callers \cup {Nobody} :
          [r EXCEPT !.receipt = n, !.reservation = c] \in Rows
    BY DEF Rows
  <1>10. \A r \in Rows, s \in Reasons, n \in Nat, f \in BOOLEAN :
          [r EXCEPT !.reason = s, !.schedule = n, !.wake = f] \in Rows
    BY DEF Rows
  <1>11. \A r \in Rows, f \in BOOLEAN : [r EXCEPT !.owner = Nobody, !.lease = FALSE, !.wake = f] \in Rows
    BY DEF Rows
  <1>12. \A r \in Rows, f \in BOOLEAN, s \in Reasons, t \in Times, n \in Nat :
          [r EXCEPT !.wake = f, !.reason = s, !.notBefore = t, !.schedule = n] \in Rows
    BY DEF Rows
  <1>13. \A r \in Rows, n \in Nat, f \in BOOLEAN, t \in Times :
          [r EXCEPT !.rev = n, !.failed = f, !.notBefore = t] \in Rows
    BY DEF Rows
  <1>14. \A r \in Rows, w \in Workers, n \in Nat, k \in Nat :
          [r EXCEPT !.owner = w, !.lease = TRUE, !.wake = FALSE, !.reservation = Nobody, !.schedule = 0,
                    !.attempts = n, !.attemptRev = k] \in Rows
    BY DEF Rows
  <1>. QED
    BY <1>1, <1>2, <1>3, <1>4, <1>5, <1>6, <1>7, <1>8, <1>9, <1>10, <1>11, <1>12, <1>13, <1>14

LEMMA WorkerValues ==
    /\ Idle \in Works
    /\ [Idle EXCEPT !.pc = "refused", !.message = TRUE] \in Works
    /\ \A q \in Works, pc \in WorkSteps : [q EXCEPT !.pc = pc] \in Works
    /\ \A n, k, s \in Nat, f \in BOOLEAN :
          [pc |-> "building", rev |-> n, attempt |-> k, sees |-> s, message |-> f] \in Works
  BY DEF Idle, Works, WorkSteps

LEMMA CallValues ==
    /\ NoCall \in Calls
    /\ \A f \in BOOLEAN, n \in Nat, k \in Nat :
          /\ [NoCall EXCEPT !.pc = "send", !.delayed = f, !.previous = n] \in Calls
          /\ [NoCall EXCEPT !.pc = "resend", !.rev = n, !.schedule = k] \in Calls
    /\ \A q \in Calls, n \in Nat :
          /\ [q EXCEPT !.pc = "record", !.sent = n] \in Calls
          /\ [q EXCEPT !.pc = "clear"] \in Calls
  BY DEF NoCall, Calls, CallSteps

LEMMA StepNames == {"idle", "refused", "building", "built", "busy", "park", "yield",
              "recheck", "barrier", "renotify", "calling"} \subseteq WorkSteps
  BY DEF WorkSteps

(* One worker's or one caller's entry is changed at a time.                   *)
LEMMA Updates ==
    ASSUME TypeOK
    PROVE  /\ \A w \in Workers, q \in Works : [worker EXCEPT ![w] = q] \in [Workers -> Works]
           /\ \A w \in Workers, pc \in WorkSteps : [worker EXCEPT ![w].pc = pc] \in [Workers -> Works]
           /\ \A c \in Callers, q \in Calls : [call EXCEPT ![c] = q] \in [Callers -> Calls]
           /\ \A c \in Callers, n \in Nat :
                 /\ [call EXCEPT ![c].pc = "record", ![c].sent = n] \in [Callers -> Calls]
                 /\ [call EXCEPT ![c].pc = "clear"] \in [Callers -> Calls]
  BY CallValues, WorkerValues DEF TypeOK

LEMMA GotoTypes == ASSUME TypeOK, NEW w \in Workers, NEW pc \in WorkSteps, Goto(w, pc)
                   PROVE worker' \in [Workers -> Works] /\ ready' \in Nat
  BY Updates DEF Goto, TypeOK
LEMMA BackTypes == ASSUME TypeOK, NEW c, NEW ack, Back(c, ack) PROVE ready' \in Nat
  BY DEF Back, TypeOK
LEMMA DoneTypes == ASSUME TypeOK, NEW w \in Workers, NEW ack, Done(w, ack)
                   PROVE worker' \in [Workers -> Works] /\ ready' \in Nat
  BY Updates, WorkerValues, BackTypes DEF Done
LEMMA ReplyTypes == ASSUME TypeOK, NEW c \in Callers, Reply(c)
                    PROVE worker' \in [Workers -> Works] /\ call' \in [Callers -> Calls]
  BY Updates, WorkerValues, CallValues DEF Reply, TypeOK
LEMMA ChargeTypes == ASSUME TypeOK, NEW r, Charge(r) PROVE mishaps' \in Nat
  BY DEF Charge, TypeOK
LEMMA SpentTypes == ASSUME TypeOK
    PROVE /\ Stall => spent' \in [asks: Nat, gates: Nat, stalls: Nat, lost: Nat]
          /\ Lose => spent' \in [asks: Nat, gates: Nat, stalls: Nat, lost: Nat]
          /\ Contend => spent' \in [asks: Nat, gates: Nat, stalls: Nat, lost: Nat]
          /\ [spent EXCEPT !.asks = @ + 1] \in [asks: Nat, gates: Nat, stalls: Nat, lost: Nat]
  BY DEF TypeOK, Stall, Lose, Contend

(* A fresh number is a number nothing refers to.                              *)
LEMMA FreshNumbers ==
    ASSUME NEW S, IsFiniteSet(S) PROVE Fresh(S) \in Nat /\ Fresh(S) \notin S
  <1>. DEFINE n == Cardinality(S)
  <1>1. n \in Nat
    BY FS_CardinalityType
  <1>2. IsFiniteSet(1..(n + 1)) /\ Cardinality(1..(n + 1)) = n + 1
    BY <1>1, FS_Interval
  <1>3. ~((1..(n + 1)) \subseteq S)
    <2>1. ASSUME (1..(n + 1)) \subseteq S PROVE Cardinality(1..(n + 1)) <= n
      BY <2>1, FS_Subset
    <2>. QED
      BY <2>1, <1>1, <1>2
  <1>4. \E k \in 1..(n + 1) : k \notin S
    BY <1>3
  <1>5. Fresh(S) \in 1..(n + 1) /\ Fresh(S) \notin S
    BY <1>4 DEF Fresh
  <1>. QED
    BY <1>1, <1>5

LEMMA FiniteImage ==
    ASSUME NEW S, IsFiniteSet(S), NEW f, f = [x \in S |-> f[x]]
    PROVE  IsFiniteSet({f[x] : x \in S})
  <1>1. f \in Surjection(S, {f[x] : x \in S})
    BY DEF Surjection
  <1>. QED
    BY <1>1, FS_Surjection

LEMMA CallersFinite == IsFiniteSet(Callers)
  BY IntentAssumption, FS_AddElement DEF Callers

(* The numbers the queue and the schedules use.                               *)
LEMMA FreshTypes ==
    ASSUME IsFiniteSet(deferred)
    PROVE  Fresh(Ids \ {0}) \in Nat /\ Fresh(Schedules \ {0}) \in Nat
  <1>1. IsFiniteSet({m.id : m \in deferred})
    <2>. DEFINE f == [m \in deferred |-> m.id]
    <2>1. IsFiniteSet({f[m] : m \in deferred})
      BY FiniteImage
    <2>2. {f[m] : m \in deferred} = {m.id : m \in deferred}
      OBVIOUS
    <2>. QED
      BY <2>1, <2>2
  <1>2. IsFiniteSet({call[c].sent : c \in Callers})
    <2>. DEFINE f == [c \in Callers |-> call[c].sent]
    <2>1. IsFiniteSet({f[c] : c \in Callers})
      BY FiniteImage, CallersFinite
    <2>2. {f[c] : c \in Callers} = {call[c].sent : c \in Callers}
      OBVIOUS
    <2>. QED
      BY <2>1, <2>2
  <1>3. IsFiniteSet({call[c].previous : c \in Callers})
    <2>. DEFINE f == [c \in Callers |-> call[c].previous]
    <2>1. IsFiniteSet({f[c] : c \in Callers})
      BY FiniteImage, CallersFinite
    <2>2. {f[c] : c \in Callers} = {call[c].previous : c \in Callers}
      OBVIOUS
    <2>. QED
      BY <2>1, <2>2
  <1>4. IsFiniteSet({call[c].schedule : c \in Callers})
    <2>. DEFINE f == [c \in Callers |-> call[c].schedule]
    <2>1. IsFiniteSet({f[c] : c \in Callers})
      BY FiniteImage, CallersFinite
    <2>2. {f[c] : c \in Callers} = {call[c].schedule : c \in Callers}
      OBVIOUS
    <2>. QED
      BY <2>1, <2>2
  <1>5. IsFiniteSet({row.receipt}) /\ IsFiniteSet({row.schedule})
    BY FS_Singleton
  <1>6. IsFiniteSet(Schedules)
    BY <1>4, <1>5, FS_Union DEF Schedules
  <1>7. IsFiniteSet({m.id : m \in deferred} \cup {row.receipt})
    BY <1>1, <1>5, FS_Union
  <1>8. IsFiniteSet({m.id : m \in deferred} \cup {row.receipt} \cup {call[c].sent : c \in Callers})
    BY <1>7, <1>2, FS_Union
  <1>9. IsFiniteSet(Ids)
    BY <1>8, <1>3, FS_Union DEF Ids
  <1>10. IsFiniteSet(Ids \ {0}) /\ IsFiniteSet(Schedules \ {0})
    BY <1>6, <1>9, FS_Difference
  <1>. QED
    BY <1>10, FreshNumbers

(* What the helpers of the row and of the queue store is typed.               *)
LEMMA ReleasedTypes == ASSUME TypeOK PROVE Released \in Rows /\ Unclaimed \in Rows
  BY RowValues DEF Released, Unclaimed, TypeOK

LEMMA RefundedTypes ==
    ASSUME TypeOK, NEW q \in Rows, q.attempts = row.attempts, NEW r
    PROVE  Refunded(q, r) \in Rows
  <1>1. row.attempts \in Nat
    BY DEF TypeOK, Rows
  <1>2. CASE row.rev = r /\ row.attempts > 0
    <2>1. q.attempts - 1 \in Nat
      BY <1>1, <1>2
    <2>. QED
      BY <1>2, <2>1, RowValues DEF Refunded
  <1>. QED
    BY <1>2 DEF Refunded

LEMMA DeferredTypes ==
    ASSUME TypeOK, IsFiniteSet(deferred), NEW r, NEW reason \in {"barrier_wait", "wave_wait"}
    PROVE  Deferred(r, reason) \in Rows
  <1>. DEFINE n == Fresh(Schedules \ {0})
              t == IF reason = "barrier_wait" THEN "later" ELSE "zero"
              q == [Released EXCEPT !.wake = FALSE, !.reason = reason, !.notBefore = t, !.schedule = n]
  <1>1. n \in Nat /\ t \in Times /\ reason \in Reasons
    BY FreshTypes DEF Times, Reasons
  <1>2. q \in Rows
    <2>. HIDE DEF n, t
    <2>. QED
      BY <1>1, ReleasedTypes, RowValues
  <1>3. q.attempts = row.attempts
    BY ReleasedTypes DEF Released, Rows, TypeOK
  <1>4. Refunded(q, r) \in Rows
    <2>. HIDE DEF q
    <2>. QED
      BY <1>2, <1>3, RefundedTypes
  <1>. QED
    BY <1>4 DEF Deferred

LEMMA RequestedTypes == ASSUME TypeOK, NEW delay PROVE Requested(delay) \in Rows
  <1>1. NotBefore(delay) \in Times
    <2>1. row.notBefore \in Times
      BY DEF TypeOK, Rows
    <2>. QED
      BY <2>1 DEF NotBefore, Earlier, Times
  <1>2. rev + 1 \in Nat
    BY DEF TypeOK
  <1>. DEFINE next == [row EXCEPT !.rev = rev + 1, !.failed = FALSE, !.notBefore = NotBefore(delay)]
  <1>3. next \in Rows
    BY <1>1, <1>2, RowValues DEF TypeOK
  <1>4. [next EXCEPT !.owner = Nobody, !.lease = FALSE, !.wake = FALSE] \in Rows
    <2>. HIDE DEF next
    <2>. QED
      BY <1>3, RowValues
  <1>. QED
    BY <1>3, <1>4 DEF Requested

LEMMA AdvanceTypes ==
    ASSUME TypeOK, NEW delay, Advance(delay)
    PROVE  row' \in Rows /\ rev' \in Nat /\ mishaps' \in Nat
  <1>1. row' \in Rows
    BY RequestedTypes DEF Advance
  <1>2. rev' \in Nat /\ mishaps' \in Nat
    BY DEF Advance, TypeOK
  <1>. QED
    BY <1>1, <1>2

LEMMA ReserveTypes ==
    ASSUME TypeOK, NEW c \in Callers, NEW head, Reserve(c, head)
    PROVE  row' \in Rows /\ call' \in [Callers -> Calls]
  <1>. DEFINE delayed == head \/ row.notBefore = "later"
  <1>1. row' \in Rows
    <2>1. row' = [row EXCEPT !.wake = TRUE, !.reservation = c] \/ row' = [row EXCEPT !.wake = TRUE, !.reservation = Nobody]
      BY DEF Reserve
    <2>2. c \in Callers \cup {Nobody} /\ Nobody \in Callers \cup {Nobody} /\ row \in Rows
      BY DEF TypeOK
    <2>3. \A d \in Callers \cup {Nobody} : [row EXCEPT !.wake = TRUE, !.reservation = d] \in Rows
      BY <2>2, RowValues
    <2>. QED
      BY <2>1, <2>2, <2>3
  <1>2. row.receipt \in Nat
    BY DEF TypeOK, Rows
  <1>3. CASE delayed
    <2>1. [NoCall EXCEPT !.pc = "send", !.delayed = TRUE, !.previous = row.receipt] \in Calls
      BY <1>2, CallValues
    <2>2. call' = [call EXCEPT ![c] = [NoCall EXCEPT !.pc = "send", !.delayed = delayed, !.previous = row.receipt]]
      BY <1>3 DEF Reserve
    <2>3. [NoCall EXCEPT !.pc = "send", !.delayed = delayed, !.previous = row.receipt] \in Calls
      BY <1>2 DEF NoCall, Calls, CallSteps
    <2>. QED
      BY <2>2, <2>3, <1>1, Updates
  <1>4. CASE ~delayed
    <2>2. call' = [call EXCEPT ![c] = [NoCall EXCEPT !.pc = "send", !.delayed = delayed, !.previous = 0]]
      BY <1>4 DEF Reserve
    <2>3. [NoCall EXCEPT !.pc = "send", !.delayed = delayed, !.previous = 0] \in Calls
      BY DEF NoCall, Calls, CallSteps
    <2>. QED
      BY <2>2, <2>3, <1>1, Updates
  <1>. QED
    BY <1>3, <1>4

LEMMA PrepareTypes ==
    ASSUME TypeOK, NEW c \in Callers, Prepare(c)
    PROVE  row' \in Rows /\ call' \in [Callers -> Calls]
  <1>1. row' \in Rows
    BY RowValues DEF Prepare, TypeOK, Times
  <1>2. row.rev \in Nat /\ row.schedule \in Nat
    BY DEF TypeOK, Rows
  <1>3. [NoCall EXCEPT !.pc = "resend", !.rev = row.rev, !.schedule = row.schedule] \in Calls
    BY <1>2, CallValues
  <1>. QED
    BY <1>1, <1>3, Updates DEF Prepare

LEMMA ClaimTypes ==
    ASSUME TypeOK, NEW w \in Workers, NEW message \in BOOLEAN, Claim(w, message)
    PROVE  row' \in Rows /\ worker' \in [Workers -> Works]
  <1>1. row.attempts \in Nat /\ row.rev \in Nat /\ marked \in Nat
    BY DEF TypeOK, Rows
  <1>2. ClaimedBy(w) \in Rows
    <2>1. (IF row.attemptRev = row.rev THEN row.attempts + 1 ELSE 1) \in Nat
      BY <1>1
    <2>. QED
      BY <2>1, <1>1, RowValues DEF ClaimedBy, TypeOK
  <1>3. row' \in Rows
    BY <1>2 DEF Claim
  <1>4. row'.attempts \in Nat
    BY <1>3 DEF Rows
  <1>. QED
    BY <1>1, <1>3, <1>4, WorkerValues, Updates DEF Claim

(* The deferred queue holds messages, and a finite number of them.            *)
LEMMA MessageTypes ==
    ASSUME TypeOK, IsFiniteSet(deferred), NEW stray \in BOOLEAN
    PROVE  /\ Message(stray) \in Messages
           /\ deferred \cup {Message(stray)} \subseteq Messages
           /\ IsFiniteSet(deferred \cup {Message(stray)})
  <1>1. Message(stray) \in Messages
    BY FreshTypes DEF Message, Messages
  <1>2. IsFiniteSet(deferred \cup {Message(stray)})
    BY FS_AddElement
  <1>. QED
    BY <1>1, <1>2 DEF TypeOK

LEMMA StrayTypes ==
    ASSUME TypeOK, IsFiniteSet(deferred), NEW id
    PROVE  /\ {[m EXCEPT !.stray = @ \/ m.id = id] : m \in deferred} \subseteq Messages
           /\ IsFiniteSet({[m EXCEPT !.stray = @ \/ m.id = id] : m \in deferred})
  <1>. DEFINE f == [m \in deferred |-> [m EXCEPT !.stray = @ \/ m.id = id]]
  <1>1. IsFiniteSet({f[m] : m \in deferred})
    <2>1. f = [m \in deferred |-> f[m]]
      OBVIOUS
    <2>. HIDE DEF f
    <2>. QED
      BY <2>1, FiniteImage
  <1>2. {f[m] : m \in deferred} = {[m EXCEPT !.stray = @ \/ m.id = id] : m \in deferred}
    OBVIOUS
  <1>3. \A m \in Messages : [m EXCEPT !.stray = @ \/ m.id = id] \in Messages
    BY DEF Messages
  <1>. QED
    BY <1>1, <1>2, <1>3 DEF TypeOK

LEMMA CancelledTypes ==
    ASSUME TypeOK, IsFiniteSet(deferred), NEW id, NEW fails \in BOOLEAN
    PROVE  Cancelled(id, fails) \subseteq Messages /\ IsFiniteSet(Cancelled(id, fails))
  <1>1. CASE fails
    BY <1>1, StrayTypes DEF Cancelled
  <1>2. CASE ~fails
    <2>1. IsFiniteSet({m \in deferred : m.id # id})
      BY FS_Subset
    <2>. QED
      BY <1>2, <2>1 DEF Cancelled, TypeOK
  <1>. QED
    BY <1>1, <1>2

(* What is published is the newer of two publications.                        *)
LEMMA LargerOfTwo ==
    ASSUME NEW a \in Nat, NEW b \in Nat
    PROVE  Max({a, b}) \in {a, b} /\ Max({a, b}) >= a /\ Max({a, b}) >= b
  <1>1. \E x \in {a, b} : \A y \in {a, b} : x >= y
    OBVIOUS
  <1>. QED
    BY <1>1 DEF Max

(* The messages that wait are finitely many, as the count of them needs.     *)
TypeInv == TypeOK /\ IsFiniteSet(deferred)

LEMMA TypeInit == Init => TypeInv
  <1>. SUFFICES ASSUME Init PROVE TypeInv
    OBVIOUS
  <1>1. IsFiniteSet(deferred)
    BY FS_EmptySet DEF Init
  <1>2. worker \in [Workers -> Works] /\ call \in [Callers -> Calls] /\ row \in Rows
    BY WorkerValues, CallValues, RowValues DEF Init
  <1>3. edit \in [pc: EditSteps, advance: BOOLEAN]
    BY DEF Init, EditSteps
  <1>4. {rev, ready, marked, built, mishaps} \subseteq Nat
    BY DEF Init
  <1>5. spent \in [asks: Nat, gates: Nat, stalls: Nat, lost: Nat]
    BY DEF Init
  <1>6. deferred \subseteq Messages /\ inline \in BOOLEAN /\ gate \in {"clear", "reserved", "wave"}
    BY DEF Init
  <1>. QED
    BY <1>1, <1>2, <1>3, <1>4, <1>5, <1>6 DEF TypeInv, TypeOK

LEMMA TypeStep == TypeInv /\ [Next]_vars => TypeInv'
  <1>. SUFFICES ASSUME TypeInv, [Next]_vars PROVE TypeInv'
    OBVIOUS
  <1>. TypeOK /\ IsFiniteSet(deferred)
    BY DEF TypeInv
  <1>. Workers \subseteq Callers /\ Sweeper \in Callers
    BY DEF Callers
  <1>1. ASSUME NEW kind \in {"request", "metadata"}, Mark(kind) PROVE TypeInv'
    <2>1. marked' \in Nat /\ edit' \in [pc: EditSteps, advance: BOOLEAN]
      BY <1>1 DEF Mark, TypeOK, EditSteps
    <2>. QED
      BY <1>1, <2>1 DEF Mark, TypeInv, TypeOK
  <1>2. ASSUME LookAtLease PROVE TypeInv'
    <2>1. edit' \in [pc: EditSteps, advance: BOOLEAN]
      BY <1>2 DEF LookAtLease, TypeOK, EditSteps, Rows
    <2>. QED
      BY <1>2, <2>1 DEF LookAtLease, TypeInv, TypeOK
  <1>3. ASSUME NEW delay \in Delays, Ask(delay) PROVE TypeInv'
    <2>1. row' \in Rows /\ rev' \in Nat /\ mishaps' \in Nat
      BY <1>3, AdvanceTypes DEF Ask, Request, TypeOK
    <2>2. edit' \in [pc: EditSteps, advance: BOOLEAN]
      BY <1>3 DEF Ask, EditSteps
    <2>3. inline' \in BOOLEAN
      BY <1>3, IntentAssumption DEF Ask, TypeOK
    <2>. QED
      BY <1>3, <2>1, <2>2, <2>3 DEF Ask, TypeInv, TypeOK
  <1>4. ASSUME AskAgain PROVE TypeInv'
    <2>1. row' \in Rows /\ rev' \in Nat /\ mishaps' \in Nat
      BY <1>4, AdvanceTypes DEF AskAgain, Request, TypeOK
    <2>2. spent' \in [asks: Nat, gates: Nat, stalls: Nat, lost: Nat]
      BY <1>4, SpentTypes DEF AskAgain
    <2>. QED
      BY <1>4, <2>1, <2>2 DEF AskAgain, TypeInv, TypeOK
  <1>5. ASSUME Sweep PROVE TypeInv'
    <2>1. row' \in Rows /\ call' \in [Callers -> Calls]
      BY <1>5, ReserveTypes DEF Sweep, Callers
    <2>. QED
      BY <1>5, <2>1 DEF Sweep, TypeInv, TypeOK
  <1>6. ASSUME SweepPasses PROVE TypeInv'
    <2>1. row' \in Rows
      BY <1>6, RowValues DEF SweepPasses, TypeOK
    <2>. QED
      BY <1>6, <2>1 DEF SweepPasses, TypeInv, TypeOK
  <1>7. ASSUME Handoff PROVE TypeInv'
    <2>1. row' \in Rows /\ call' \in [Callers -> Calls]
      BY <1>7, PrepareTypes DEF Handoff, Callers
    <2>. QED
      BY <1>7, <2>1 DEF Handoff, TypeInv, TypeOK
  <1>8. ASSUME EmbargoEnds PROVE TypeInv'
    <2>1. row' \in Rows
      BY <1>8, RowValues DEF EmbargoEnds, TypeOK, Times
    <2>. QED
      BY <1>8, <2>1 DEF EmbargoEnds, TypeInv, TypeOK
  <1>9. ASSUME WakeExpires PROVE TypeInv'
    <2>1. row' \in Rows
      BY <1>9, RowValues DEF WakeExpires, TypeOK
    <2>. QED
      BY <1>9, <2>1 DEF WakeExpires, TypeInv, TypeOK
  <1>10. ASSUME LeaseLapses PROVE TypeInv'
    <2>1. row' \in Rows
      BY <1>10, RowValues DEF LeaseLapses, TypeOK
    <2>2. mishaps' \in Nat
      BY <1>10, ChargeTypes DEF LeaseLapses, TypeOK
    <2>3. spent' \in [asks: Nat, gates: Nat, stalls: Nat, lost: Nat]
      BY <1>10, SpentTypes DEF LeaseLapses, TypeOK
    <2>. QED
      BY <1>10, <2>1, <2>2, <2>3 DEF LeaseLapses, TypeInv, TypeOK
  <1>11. ASSUME NEW to \in {"reserved", "wave"}, GateRises(to) PROVE TypeInv'
    <2>1. gate' \in {"clear", "reserved", "wave"}
      BY <1>11 DEF GateRises
    <2>2. spent' \in [asks: Nat, gates: Nat, stalls: Nat, lost: Nat]
      BY <1>11, SpentTypes DEF GateRises
    <2>. QED
      BY <1>11, <2>1, <2>2 DEF GateRises, TypeInv, TypeOK
  <1>12. ASSUME GateFalls PROVE TypeInv'
    <2>1. gate' \in {"clear", "reserved", "wave"}
      BY <1>12 DEF GateFalls
    <2>. QED
      BY <1>12, <2>1 DEF GateFalls, TypeInv, TypeOK
  <1>13. ASSUME NEW c \in Callers, SendNow(c) PROVE TypeInv'
    <2>1. ready' \in Nat
      BY <1>13 DEF SendNow, TypeOK
    <2>2. worker' \in [Workers -> Works] /\ call' \in [Callers -> Calls]
      BY <1>13, ReplyTypes DEF SendNow
    <2>. QED
      BY <1>13, <2>1, <2>2 DEF SendNow, TypeInv, TypeOK
  <1>14. ASSUME NEW c \in Callers, SendLater(c) PROVE TypeInv'
    <2>1. deferred' \subseteq Messages /\ IsFiniteSet(deferred')
      BY <1>14, MessageTypes, IntentAssumption DEF SendLater
    <2>2. worker' \in [Workers -> Works] /\ call' \in [Callers -> Calls]
      <3>1. CASE Handles
        <4>1. Message(~Handles).id \in Nat
          BY FreshTypes DEF Message
        <4>2. \A n \in Nat : [call EXCEPT ![c].pc = "record", ![c].sent = n] \in [Callers -> Calls]
          BY Updates
        <4>3. call' = [call EXCEPT ![c].pc = "record", ![c].sent = Message(~Handles).id] /\ worker' = worker
          BY <1>14, <3>1 DEF SendLater
        <4>. QED
          BY <4>1, <4>2, <4>3 DEF TypeOK
      <3>2. CASE ~Handles
        BY <1>14, <3>2, ReplyTypes DEF SendLater
      <3>. QED
        BY <3>1, <3>2
    <2>. QED
      BY <1>14, <2>1, <2>2 DEF SendLater, TypeInv, TypeOK
  <1>15. ASSUME NEW c \in Callers, SendFails(c) PROVE TypeInv'
    <2>1. deferred' \subseteq Messages /\ IsFiniteSet(deferred')
      BY <1>15, MessageTypes DEF SendFails, TypeOK, TypeInv
    <2>2. worker' \in [Workers -> Works] /\ call' \in [Callers -> Calls]
      BY <1>15, ReplyTypes DEF SendFails
    <2>3. ready' \in Nat
      BY <1>15, BackTypes DEF SendFails
    <2>4. spent' \in [asks: Nat, gates: Nat, stalls: Nat, lost: Nat]
      BY <1>15, SpentTypes DEF SendFails
    <2>. QED
      BY <1>15, <2>1, <2>2, <2>3, <2>4 DEF SendFails, TypeInv, TypeOK
  <1>16. ASSUME NEW c \in Callers, NEW fails \in BOOLEAN, RecordWakeup(c, fails) PROVE TypeInv'
    <2>1. row' \in Rows
      <3>1. call[c].sent \in Nat
        BY DEF TypeOK, Calls
      <3>2. row.reservation \in Callers \cup {Nobody} /\ Nobody \in Callers \cup {Nobody}
        BY DEF TypeOK, Rows
      <3>. DEFINE r == IF row.reservation = c THEN Nobody ELSE row.reservation
      <3>3. row' = [row EXCEPT !.receipt = call[c].sent, !.reservation = r] \/ row' = row
        BY <1>16 DEF RecordWakeup
      <3>4. r \in Callers \cup {Nobody}
        BY <3>2
      <3>. HIDE DEF r
      <3>. QED
        <4>. row \in Rows
          BY DEF TypeOK
        <4>1. \A n \in Nat, d \in Callers \cup {Nobody} : [row EXCEPT !.receipt = n, !.reservation = d] \in Rows
          BY RowValues
        <4>. QED
          BY <3>1, <3>3, <3>4, <4>1
    <2>2. deferred' \subseteq Messages /\ IsFiniteSet(deferred')
      BY <1>16, CancelledTypes DEF RecordWakeup
    <2>3. worker' \in [Workers -> Works] /\ call' \in [Callers -> Calls]
      BY <1>16, ReplyTypes DEF RecordWakeup
    <2>. QED
      BY <1>16, <2>1, <2>2, <2>3 DEF RecordWakeup, TypeInv, TypeOK
  <1>17. ASSUME NEW m \in deferred, NEW keeps \in BOOLEAN, Promote(m, keeps) PROVE TypeInv'
    <2>1. deferred' \subseteq Messages /\ IsFiniteSet(deferred')
      <3>1. [m EXCEPT !.stray = TRUE] \in Messages
        BY DEF TypeOK, Messages
      <3>2. IsFiniteSet(deferred \ {m})
        BY FS_RemoveElement
      <3>3. IsFiniteSet((deferred \ {m}) \cup {[m EXCEPT !.stray = TRUE]})
        BY <3>2, FS_AddElement
      <3>4. deferred' = deferred \ {m} \/ deferred' = (deferred \ {m}) \cup {[m EXCEPT !.stray = TRUE]}
        BY <1>17 DEF Promote
      <3>. QED
        BY <3>1, <3>2, <3>3, <3>4 DEF TypeOK
    <2>2. ready' \in Nat
      BY <1>17 DEF Promote, TypeOK
    <2>3. spent' \in [asks: Nat, gates: Nat, stalls: Nat, lost: Nat]
      BY <1>17, SpentTypes DEF Promote, TypeOK
    <2>. QED
      BY <1>17, <2>1, <2>2, <2>3 DEF Promote, TypeInv, TypeOK
  <1>18. ASSUME NEW c \in Callers, Resend(c) PROVE TypeInv'
    <2>1. ready' \in Nat
      BY <1>18 DEF Resend, TypeOK
    <2>2. call' \in [Callers -> Calls]
      BY <1>18, Updates DEF Resend
    <2>. QED
      BY <1>18, <2>1, <2>2 DEF Resend, TypeInv, TypeOK
  <1>19. ASSUME NEW c \in Callers, ClearWait(c) PROVE TypeInv'
    <2>1. row' \in Rows
      BY <1>19, RowValues DEF ClearWait, TypeOK, Reasons
    <2>2. worker' \in [Workers -> Works] /\ call' \in [Callers -> Calls]
      BY <1>19, ReplyTypes DEF ClearWait
    <2>. QED
      BY <1>19, <2>1, <2>2 DEF ClearWait, TypeInv, TypeOK
  <1>20. ASSUME NEW c \in Callers, Crash(c) PROVE TypeInv'
    <2>1. spent' \in [asks: Nat, gates: Nat, stalls: Nat, lost: Nat]
      BY <1>20, SpentTypes DEF Crash
    <2>2. deferred' \subseteq Messages /\ IsFiniteSet(deferred')
      BY <1>20, StrayTypes DEF Crash
    <2>3. ready' \in Nat
      BY <1>20, BackTypes DEF Crash
    <2>4. call' \in [Callers -> Calls]
      BY <1>20, Updates, CallValues DEF Crash
    <2>5. worker' \in [Workers -> Works]
      <3>1. (c \in Workers /\ worker' = [worker EXCEPT ![c] = Idle]) \/ worker' = worker
        BY <1>20 DEF Crash
      <3>. QED
        <4>1. worker \in [Workers -> Works]
          BY DEF TypeOK
        <4>2. \A v \in Workers : [worker EXCEPT ![v] = Idle] \in [Workers -> Works]
          BY Updates, WorkerValues
        <4>. QED
          BY <3>1, <4>1, <4>2
    <2>6. mishaps' \in Nat
      BY <1>20, ChargeTypes DEF Crash, TypeOK
    <2>. QED
      BY <1>20, <2>1, <2>2, <2>3, <2>4, <2>5, <2>6 DEF Crash, TypeInv, TypeOK
  <1>21. ASSUME NEW w \in Workers, TakeClaim(w) PROVE TypeInv'
    <2>1. ready' \in Nat
      BY <1>21 DEF TakeClaim, Takes, TypeOK
    <2>2. row' \in Rows /\ worker' \in [Workers -> Works]
      BY <1>21, ClaimTypes DEF TakeClaim
    <2>. QED
      BY <1>21, <2>1, <2>2 DEF TakeClaim, TypeInv, TypeOK
  <1>22. ASSUME NEW w \in Workers, TakeObsolete(w) PROVE TypeInv'
    <2>1. ready' \in Nat
      BY <1>22 DEF TakeObsolete, Takes, TypeOK
    <2>. QED
      BY <1>22, <2>1 DEF TakeObsolete, TypeInv, TypeOK
  <1>23. ASSUME NEW w \in Workers, TakeEarly(w) PROVE TypeInv'
    <2>1. ready' \in Nat
      BY <1>23 DEF TakeEarly, Takes, TypeOK
    <2>2. worker' \in [Workers -> Works]
      BY <1>23, Updates, WorkerValues DEF TakeEarly
    <2>. QED
      BY <1>23, <2>1, <2>2 DEF TakeEarly, TypeInv, TypeOK
  <1>24. ASSUME NEW w \in Workers, InlineClaim(w) PROVE TypeInv'
    <2>1. row' \in Rows /\ worker' \in [Workers -> Works]
      BY <1>24, ClaimTypes DEF InlineClaim, TypeOK
    <2>2. inline' \in BOOLEAN
      BY <1>24 DEF InlineClaim
    <2>. QED
      BY <1>24, <2>1, <2>2 DEF InlineClaim, TypeInv, TypeOK
  <1>25. ASSUME NEW w \in Workers, NotifyAgain(w) PROVE TypeInv'
    <2>1. row' \in Rows /\ call' \in [Callers -> Calls]
      BY <1>25, ReserveTypes DEF NotifyAgain, Callers, TypeOK
    <2>2. worker' \in [Workers -> Works] /\ ready' \in Nat
      BY <1>25, GotoTypes, DoneTypes, StepNames DEF NotifyAgain
    <2>. QED
      BY <1>25, <2>1, <2>2 DEF NotifyAgain, TypeInv, TypeOK
  <1>26. ASSUME NEW w \in Workers, BuildOk(w) PROVE TypeInv'
    <2>1. built' \in Nat
      <3>1. worker[w].sees \in Nat /\ built \in Nat
        BY DEF TypeOK, Works
      <3>. QED
        BY <1>26, <3>1, LargerOfTwo DEF BuildOk
    <2>2. worker' \in [Workers -> Works] /\ ready' \in Nat
      BY <1>26, GotoTypes, StepNames DEF BuildOk
    <2>. QED
      BY <1>26, <2>1, <2>2 DEF BuildOk, TypeInv, TypeOK
  <1>27. ASSUME NEW w \in Workers, BuildBusy(w) PROVE TypeInv'
    <2>1. spent' \in [asks: Nat, gates: Nat, stalls: Nat, lost: Nat]
      BY <1>27, SpentTypes DEF BuildBusy, TypeOK
    <2>2. worker' \in [Workers -> Works] /\ ready' \in Nat
      BY <1>27, GotoTypes, StepNames DEF BuildBusy
    <2>. QED
      BY <1>27, <2>1, <2>2 DEF BuildBusy, TypeInv, TypeOK
  <1>28. ASSUME NEW w \in Workers, InlineDeclines(w) PROVE TypeInv'
    <2>1. row' \in Rows
      <3>1. Released.attempts = row.attempts
        BY DEF Released, TypeOK, Rows
      <3>. QED
        BY <1>28, <3>1, ReleasedTypes, RefundedTypes DEF InlineDeclines, TypeOK
    <2>2. worker' \in [Workers -> Works] /\ ready' \in Nat
      BY <1>28, DoneTypes DEF InlineDeclines
    <2>. QED
      BY <1>28, <2>1, <2>2 DEF InlineDeclines, TypeInv, TypeOK
  <1>29. ASSUME NEW w \in Workers, BuildFails(w) PROVE TypeInv'
    <2>1. row' \in Rows
      BY <1>29, ReleasedTypes DEF BuildFails, TypeOK
    <2>2. mishaps' \in Nat
      BY <1>29, ChargeTypes DEF BuildFails
    <2>3. worker' \in [Workers -> Works] /\ ready' \in Nat
      BY <1>29, DoneTypes DEF BuildFails
    <2>. QED
      BY <1>29, <2>1, <2>2, <2>3 DEF BuildFails, TypeInv, TypeOK
  <1>30. ASSUME NEW w \in Workers, GiveUp(w) PROVE TypeInv'
    <2>1. row' \in Rows
      BY <1>30, ReleasedTypes, RowValues DEF GiveUp, TypeOK
    <2>2. worker' \in [Workers -> Works] /\ ready' \in Nat
      BY <1>30, GotoTypes, DoneTypes, StepNames DEF GiveUp
    <2>. QED
      BY <1>30, <2>1, <2>2 DEF GiveUp, TypeInv, TypeOK
  <1>31. ASSUME NEW w \in Workers, NEW fails \in BOOLEAN, Finish(w, fails) PROVE TypeInv'
    <2>1. row' \in Rows /\ mishaps' \in Nat
      BY <1>31, RowValues DEF Finish
    <2>2. deferred' \subseteq Messages /\ IsFiniteSet(deferred')
      BY <1>31, CancelledTypes DEF Finish
    <2>3. worker' \in [Workers -> Works] /\ ready' \in Nat
      BY <1>31, DoneTypes DEF Finish
    <2>. QED
      BY <1>31, <2>1, <2>2, <2>3 DEF Finish, TypeInv, TypeOK
  <1>32. ASSUME NEW w \in Workers, FinishNewer(w) PROVE TypeInv'
    <2>1. row' \in Rows
      BY <1>32, ReleasedTypes DEF FinishNewer
    <2>2. worker' \in [Workers -> Works] /\ ready' \in Nat
      BY <1>32, GotoTypes, DoneTypes, StepNames DEF FinishNewer
    <2>. QED
      BY <1>32, <2>1, <2>2 DEF FinishNewer, TypeInv, TypeOK
  <1>33. ASSUME NEW w \in Workers, FinishLost(w) PROVE TypeInv'
    <2>1. row' \in Rows
      BY <1>33, ReleasedTypes DEF FinishLost, TypeOK
    <2>2. worker' \in [Workers -> Works] /\ ready' \in Nat
      BY <1>33, DoneTypes DEF FinishLost
    <2>. QED
      BY <1>33, <2>1, <2>2 DEF FinishLost, TypeInv, TypeOK
  <1>34. ASSUME NEW w \in Workers, ReadGate(w) PROVE TypeInv'
    <2>1. worker' \in [Workers -> Works] /\ ready' \in Nat
      BY <1>34, GotoTypes, StepNames DEF ReadGate
    <2>. QED
      BY <1>34, <2>1 DEF ReadGate, TypeInv, TypeOK
  <1>35. ASSUME NEW w \in Workers, Park(w) PROVE TypeInv'
    <2>1. row' \in Rows
      <3>1. Deferred(worker[w].rev, "wave_wait") \in Rows
        BY DeferredTypes
      <3>. QED
        BY <1>35, <3>1 DEF Park, TypeOK
    <2>2. worker' \in [Workers -> Works] /\ ready' \in Nat
      BY <1>35, GotoTypes, DoneTypes, StepNames DEF Park
    <2>. QED
      BY <1>35, <2>1, <2>2 DEF Park, TypeInv, TypeOK
  <1>36. ASSUME NEW w \in Workers, Recheck(w) PROVE TypeInv'
    <2>1. row' \in Rows /\ call' \in [Callers -> Calls]
      BY <1>36, PrepareTypes DEF Recheck, Callers, TypeOK
    <2>2. worker' \in [Workers -> Works] /\ ready' \in Nat
      BY <1>36, GotoTypes, DoneTypes, StepNames DEF Recheck
    <2>. QED
      BY <1>36, <2>1, <2>2 DEF Recheck, TypeInv, TypeOK
  <1>37. ASSUME NEW w \in Workers, Yield(w) PROVE TypeInv'
    <2>1. row' \in Rows
      <3>1. Deferred(worker[w].rev, "barrier_wait") \in Rows
        BY DeferredTypes
      <3>. QED
        BY <1>37, <3>1 DEF Yield, TypeOK
    <2>2. worker' \in [Workers -> Works] /\ ready' \in Nat
      BY <1>37, GotoTypes, DoneTypes, StepNames DEF Yield
    <2>. QED
      BY <1>37, <2>1, <2>2 DEF Yield, TypeInv, TypeOK
  <1>38. ASSUME UNCHANGED vars PROVE TypeInv'
    BY <1>38 DEF vars, TypeInv, TypeOK
  <1>. QED
    BY <1>1, <1>2, <1>3, <1>4, <1>5, <1>6, <1>7, <1>8, <1>9, <1>10, <1>11, <1>12, <1>13, <1>14,
        <1>15, <1>16, <1>17, <1>18, <1>19, <1>20, <1>21, <1>22, <1>23, <1>24, <1>25, <1>26,
        <1>27, <1>28, <1>29, <1>30, <1>31, <1>32, <1>33, <1>34, <1>35, <1>36, <1>37, <1>38
       DEF Next, Edits, Timers, Promotes, CallStep, Take, Work

-----------------------------------------------------------------------------
(* The claim of the row: the worker that the row names, under a lease and for
   the revision the row has.                                                  *)
Live(w) == Holds(w) /\ Working(w) /\ worker[w].rev = row.rev

(* What is stored in the row.                                                 *)
RowSound ==
    /\ row.rev = 0 => row = NoRow
    /\ row.rev <= rev /\ row.attemptRev <= row.rev
    /\ row.lease => row.owner \in Workers
    /\ row.failed => row.owner = Nobody

(* A worker is inside of a call only at the end of its delivery.              *)
CallsMatch == \A w \in Workers : call[w].pc # "idle" => worker[w].pc = "calling"

(* Nobody works on a revision that was not requested.                         *)
RevisionsKnown == \A w \in Workers : Working(w) => worker[w].rev <= rev

(* A worker that has built has published what it saw.                         *)
BuiltCovers == \A w \in Workers : worker[w].pc = "built" => built >= worker[w].sees

(* The attempts of the row's revision: one for every mishap, and one for the
   claim that is alive.                                                       *)
Counted ==
    /\ \A w \in Workers : Live(w) => row.attemptRev = row.rev /\ worker[w].attempt = row.attempts
    /\ mishaps < MaxAttempts /\ row.attemptRev = row.rev =>
          \/ row.attempts <= mishaps
          \/ row.attempts = mishaps + 1 /\ \E w \in Workers : Live(w)

(* The newest change whose request has returned; a live claim has seen it, and
   the change of a request that will leave the revision as it is.             *)
Asked == IF edit.pc = "idle" THEN marked ELSE marked - 1
EditSound == edit.pc # "idle" => marked > 0
Seen == \A w \in Workers : Live(w) =>
    /\ worker[w].sees >= Asked
    /\ edit.pc = "request" /\ ~edit.advance => worker[w].sees >= marked

-----------------------------------------------------------------------------
(* What a step does to the other workers, and to the one it moves.            *)
Others(w) == \A v \in Workers \ {w} : worker'[v] = worker[v]

LEMMA GotoMoves ==
    ASSUME TypeOK, NEW w \in Workers, NEW step, Goto(w, step)
    PROVE  /\ worker'[w].pc = step /\ worker'[w].rev = worker[w].rev
           /\ worker'[w].attempt = worker[w].attempt /\ worker'[w].sees = worker[w].sees
           /\ Others(w)
  BY DEF TypeOK, Goto, Others, Works
LEMMA DoneMoves ==
    ASSUME TypeOK, NEW w \in Workers, NEW ack, Done(w, ack) PROVE worker'[w] = Idle /\ Others(w)
  BY DEF TypeOK, Done, Others
LEMMA ReplyMoves ==
    ASSUME TypeOK, NEW c \in Callers, Reply(c)
    PROVE  /\ call'[c].pc = "idle" /\ \A d \in Callers \ {c} : call'[d] = call[d]
           /\ c \in Workers => worker'[c] = Idle
           /\ Others(c)
  BY DEF TypeOK, Reply, Others, NoCall
LEMMA IdleRests == Idle.pc = "idle" /\ Idle.rev = 0
  BY DEF Idle

(* Whoever is inside of a call finds the worker where it left it.             *)
LEMMA CallsStep == TypeOK /\ CallsMatch /\ [Next]_vars => CallsMatch'
  <1>. SUFFICES ASSUME TypeOK, CallsMatch, [Next]_vars PROVE CallsMatch'
    OBVIOUS
  <1>. Workers \subseteq Callers /\ Sweeper \notin Workers /\ Sweeper \in Callers
    BY IntentAssumption DEF Callers
  <1>. USE DEF CallsMatch
  <1>1. ASSUME UNCHANGED <<worker, call>> PROVE CallsMatch'
    BY <1>1
  <1>2. ASSUME NEW c \in Callers, Reply(c) PROVE CallsMatch'
    BY <1>2, ReplyMoves DEF Others
  <1>3. ASSUME NEW w \in Workers, UNCHANGED call, Others(w), call[w].pc = "idle" PROVE CallsMatch'
    BY <1>3 DEF Others
  <1>4. ASSUME NEW w \in Workers, Others(w), worker'[w].pc = "calling",
               \A c \in Callers \ {w} : call'[c] = call[c]
        PROVE CallsMatch'
    BY <1>4 DEF Others
  <1>5. ASSUME NEW w \in Workers, UNCHANGED call, Others(w), worker[w].pc # "calling" PROVE CallsMatch'
    BY <1>3, <1>5
  <1>6. ASSUME NEW c \in Callers, UNCHANGED worker, call[c].pc # "idle" \/ c = Sweeper,
               \A d \in Callers \ {c} : call'[d] = call[d]
        PROVE CallsMatch'
    BY <1>6
  <1>7. ASSUME Edits \/ AskAgain \/ SweepPasses \/ Timers \/ LeaseLapses
               \/ (\E m \in deferred, keeps \in BOOLEAN : Promote(m, keeps))
               \/ (\E to \in {"reserved", "wave"} : GateRises(to)) \/ GateFalls
               \/ (\E w \in Workers : TakeObsolete(w)) \/ UNCHANGED vars
        PROVE CallsMatch'
    BY <1>7, <1>1 DEF Edits, Mark, LookAtLease, Ask, AskAgain, SweepPasses, Timers, EmbargoEnds,
       WakeExpires, LeaseLapses, Promote, GateRises, GateFalls, TakeObsolete, vars
  <1>8. ASSUME Sweep \/ Handoff PROVE CallsMatch'
    <2>1. UNCHANGED worker /\ \A d \in Callers \ {Sweeper} : call'[d] = call[d]
      BY <1>8 DEF Sweep, Handoff, Reserve, Prepare, TypeOK
    <2>. QED
      BY <2>1, <1>6
  <1>9. ASSUME NEW c \in Callers, SendNow(c) \/ SendFails(c) \/ ClearWait(c)
               \/ (\E fails \in BOOLEAN : RecordWakeup(c, fails))
        PROVE CallsMatch'
    BY <1>9, <1>2 DEF SendNow, SendFails, ClearWait, RecordWakeup
  <1>10. ASSUME NEW c \in Callers, SendLater(c) PROVE CallsMatch'
    <2>1. CASE Handles
      <3>1. UNCHANGED worker /\ (\A d \in Callers \ {c} : call'[d] = call[d]) /\ call[c].pc # "idle"
        BY <1>10, <2>1 DEF SendLater, TypeOK
      <3>. QED
        BY <3>1, <1>6
    <2>2. CASE ~Handles
      BY <1>10, <1>2, <2>2 DEF SendLater
    <2>. QED
      BY <2>1, <2>2
  <1>11. ASSUME NEW c \in Callers, Resend(c) PROVE CallsMatch'
    <2>1. UNCHANGED worker /\ (\A d \in Callers \ {c} : call'[d] = call[d]) /\ call[c].pc # "idle"
      BY <1>11 DEF Resend, TypeOK
    <2>. QED
      BY <2>1, <1>6
  <1>12. ASSUME NEW c \in Callers, Crash(c) PROVE CallsMatch'
    <2>1. Others(c) /\ call'[c].pc = "idle" /\ \A d \in Callers \ {c} : call'[d] = call[d]
      BY <1>12 DEF Crash, TypeOK, Others, NoCall
    <2>. QED
      BY <2>1 DEF Others
  <1>13. ASSUME NEW w \in Workers, TakeClaim(w) \/ TakeEarly(w) \/ InlineClaim(w) PROVE CallsMatch'
    <2>1. UNCHANGED call /\ Others(w) /\ worker[w].pc = "idle"
      BY <1>13 DEF TakeClaim, TakeEarly, InlineClaim, Takes, Claim, Others, TypeOK
    <2>. QED
      BY <2>1, <1>5
  <1>14. ASSUME NEW w \in Workers, NotifyAgain(w) \/ Recheck(w) PROVE CallsMatch'
    <2>1. Others(w) /\ worker[w].pc # "calling"
      BY <1>14, GotoMoves, DoneMoves DEF NotifyAgain, Recheck
    <2>2. UNCHANGED call \/ (Goto(w, "calling") /\ \A d \in Callers \ {w} : call'[d] = call[d])
      BY <1>14 DEF NotifyAgain, Recheck, Reserve, Prepare, TypeOK
    <2>. QED
      BY <2>1, <2>2, <1>4, <1>5, GotoMoves
  <1>15. ASSUME NEW w \in Workers,
               BuildOk(w) \/ BuildBusy(w) \/ InlineDeclines(w) \/ BuildFails(w) \/ GiveUp(w)
               \/ (\E fails \in BOOLEAN : Finish(w, fails)) \/ FinishNewer(w) \/ FinishLost(w)
               \/ ReadGate(w) \/ Park(w) \/ Yield(w)
        PROVE CallsMatch'
    <2>1. UNCHANGED call /\ worker[w].pc # "calling" /\ Others(w)
      BY <1>15, GotoMoves, DoneMoves
         DEF BuildOk, BuildBusy, InlineDeclines, BuildFails, GiveUp, Finish, FinishNewer, FinishLost,
             ReadGate, Park, Yield
    <2>. QED
      BY <2>1, <1>5
  <1>. QED
    BY <1>7, <1>8, <1>9, <1>10, <1>11, <1>12, <1>13, <1>14, <1>15
       DEF Next, Promotes, CallStep, Take, Work

-----------------------------------------------------------------------------
(* The moves of the claim.  Most steps leave it alone.                        *)
SameRow ==
    /\ row'.rev = row.rev /\ row'.failed = row.failed /\ row'.owner = row.owner
    /\ row'.lease = row.lease /\ row'.attempts = row.attempts /\ row'.attemptRev = row.attemptRev
SameWork(w) ==
    /\ Working(w)' = Working(w)
    /\ Working(w) => /\ worker'[w].rev = worker[w].rev /\ worker'[w].attempt = worker[w].attempt
                     /\ worker'[w].sees = worker[w].sees
Keeps == SameRow /\ UNCHANGED <<rev, mishaps>> /\ \A w \in Workers : SameWork(w)

(* A request advances the revision, a lease lapses, a worker claims the row.  *)
Advances == UNCHANGED worker /\ \E delay \in BOOLEAN : Advance(delay)
Lapses ==
    /\ UNCHANGED <<worker, rev>> /\ row.lease /\ ~row'.lease
    /\ row'.rev = row.rev /\ row'.failed = row.failed /\ row'.owner = row.owner
    /\ row'.attempts = row.attempts /\ row'.attemptRev = row.attemptRev
    /\ IF Working(row.owner) THEN Charge(worker[row.owner].rev) ELSE UNCHANGED mishaps
Claims(w) ==
    /\ Claimable /\ worker[w].pc = "idle" /\ (\E message \in BOOLEAN : Claim(w, message))
    /\ UNCHANGED <<rev, mishaps>>

(* A worker leaves: the row is as it was or has no owner, and what the claim
   cost is refunded, charged to a mishap or the end of the intent.            *)
GivesUp(w) == Live(w) /\ worker[w].attempt > MaxAttempts
Leaves(w) ==
    /\ Working(w) /\ ~Working(w)' /\ Others(w) /\ UNCHANGED rev
    /\ row'.rev = row.rev /\ row'.attemptRev = row.attemptRev
    /\ row'.attempts \in Nat /\ row'.attempts <= row.attempts
    /\ ~Owns(w) => row' = row
    /\ (row'.owner = Nobody /\ ~row'.lease) \/ row' = row
    /\ mishaps' \in {mishaps, mishaps + 1}
    /\ row'.failed => row.failed \/ GivesUp(w)
    /\ row'.failed /\ ~row.failed => row'.owner = Nobody
    /\ Live(w) => \/ row'.attempts < row.attempts \/ row'.attempts = 0
                  \/ mishaps' > mishaps \/ mishaps >= MaxAttempts \/ row'.failed

(* A worker puts the intent away.                                             *)
Puts(w) == Working(w) /\ ~Working(w)' /\ Others(w) /\ UNCHANGED rev /\ row' = NoRow /\ mishaps' = 0

Moves == Keeps \/ Advances \/ Lapses \/ (\E w \in Workers : Claims(w) \/ Leaves(w) \/ Puts(w))

LEMMA WorkingNames ==
    /\ \A w \in Workers : worker[w].pc \in {"idle", "refused", "recheck", "barrier", "renotify", "calling"} => ~Working(w)
    /\ \A w \in Workers : worker[w].pc \in {"building", "built", "busy", "park", "yield"} => Working(w)
    /\ \A w \in Workers : worker'[w].pc \in {"idle", "refused", "recheck", "barrier", "renotify", "calling"} => ~Working(w)'
    /\ \A w \in Workers : worker'[w].pc \in {"building", "built", "busy", "park", "yield"} => Working(w)'
  BY DEF Working

LEMMA SameWorkers == ASSUME NEW w, worker'[w] = worker[w] PROVE SameWork(w)
  BY DEF SameWork, Working

(* A worker that is not working changes its step and no more.                 *)
LEMMA RestingMoves ==
    ASSUME TypeOK, SameRow, UNCHANGED <<rev, mishaps>>, NEW w,
           w \in Workers => ~Working(w) /\ ~Working(w)', Others(w)
    PROVE  Keeps
  <1>1. ASSUME NEW v \in Workers PROVE SameWork(v)
    <2>1. CASE v = w
      BY <2>1 DEF SameWork, Working
    <2>2. CASE v # w
      BY <2>2, SameWorkers DEF Others
    <2>. QED
      BY <2>1, <2>2
  <1>. QED
    BY <1>1 DEF Keeps

(* Updates that leave the claim alone.                                        *)
LEMMA SameRowUpdates ==
    ASSUME TypeOK
    PROVE  /\ (\E f, x : row' = [row EXCEPT !.wake = f, !.reservation = x]) => SameRow
           /\ (\E f : row' = [row EXCEPT !.wake = f]) => SameRow
           /\ (\E t : row' = [row EXCEPT !.notBefore = t]) => SameRow
           /\ (\E t, f : row' = [row EXCEPT !.notBefore = t, !.wake = f]) => SameRow
           /\ (\E n, x : row' = [row EXCEPT !.receipt = n, !.reservation = x]) => SameRow
           /\ (\E s, n, f : row' = [row EXCEPT !.reason = s, !.schedule = n, !.wake = f]) => SameRow
  <1>. row \in Rows
    BY DEF TypeOK
  <1>1. (\E f, x : row' = [row EXCEPT !.wake = f, !.reservation = x]) => SameRow
    BY DEF SameRow, Rows
  <1>2. (\E f : row' = [row EXCEPT !.wake = f]) => SameRow
    BY DEF SameRow, Rows
  <1>3. (\E t : row' = [row EXCEPT !.notBefore = t]) => SameRow
    BY DEF SameRow, Rows
  <1>4. (\E t, f : row' = [row EXCEPT !.notBefore = t, !.wake = f]) => SameRow
    BY DEF SameRow, Rows
  <1>5. (\E n, x : row' = [row EXCEPT !.receipt = n, !.reservation = x]) => SameRow
    BY DEF SameRow, Rows
  <1>6. (\E s, n, f : row' = [row EXCEPT !.reason = s, !.schedule = n, !.wake = f]) => SameRow
    BY DEF SameRow, Rows
  <1>. QED
    BY <1>1, <1>2, <1>3, <1>4, <1>5, <1>6

LEMMA KeepingSteps ==
    ASSUME TypeOK, CallsMatch,
           \/ Mark("request") \/ Mark("metadata") \/ LookAtLease \/ Sweep \/ SweepPasses \/ Handoff
           \/ EmbargoEnds \/ WakeExpires \/ (\E m \in deferred, keeps \in BOOLEAN : Promote(m, keeps))
           \/ (\E to \in {"reserved", "wave"} : GateRises(to)) \/ GateFalls \/ UNCHANGED vars
           \/ (\E w \in Workers : TakeObsolete(w)) \/ (\E c \in Callers : Resend(c))
    PROVE  Keeps
  <1>1. UNCHANGED <<rev, mishaps, worker>>
    BY DEF Mark, LookAtLease, Sweep, SweepPasses, Handoff, EmbargoEnds, WakeExpires, Promote,
        GateRises, GateFalls,
       vars, TakeObsolete, Resend
  <1>2. SameRow
    <2>1. CASE row' = row
      BY <2>1 DEF SameRow
    <2>2. CASE Sweep \/ SweepPasses \/ Handoff \/ EmbargoEnds \/ WakeExpires
      <3>1. \/ \E f \in BOOLEAN : \E x : row' = [row EXCEPT !.wake = f, !.reservation = x]
            \/ \E f \in BOOLEAN : row' = [row EXCEPT !.wake = f]
            \/ \E t : row' = [row EXCEPT !.notBefore = t]
            \/ \E t, f : row' = [row EXCEPT !.notBefore = t, !.wake = f]
        BY <2>2 DEF Sweep, SweepPasses, Handoff, EmbargoEnds, WakeExpires, Reserve, Prepare
      <3>. QED
        BY <3>1, SameRowUpdates
    <2>. QED
      BY <2>1, <2>2 DEF Mark, LookAtLease, Promote, GateRises, GateFalls, vars, TakeObsolete, Resend
  <1>. QED
    BY <1>1, <1>2, SameWorkers DEF Keeps

LEMMA ReplyingSteps ==
    ASSUME TypeOK, CallsMatch, NEW c \in Callers,
           SendNow(c) \/ SendLater(c) \/ SendFails(c) \/ (\E fails \in BOOLEAN : RecordWakeup(c, fails)) \/ ClearWait(c)
    PROVE  Keeps
  <1>1. UNCHANGED <<rev, mishaps>>
    BY DEF SendNow, SendLater, SendFails, RecordWakeup, ClearWait
  <1>2. SameRow
    <2>1. CASE row' = row
      BY <2>1 DEF SameRow
    <2>2. CASE ClearWait(c) \/ \E fails \in BOOLEAN : RecordWakeup(c, fails)
      <3>1. \/ row' = row
            \/ \E n, x : row' = [row EXCEPT !.receipt = n, !.reservation = x]
            \/ \E s, n, f : row' = [row EXCEPT !.reason = s, !.schedule = n, !.wake = f]
        <4>1. CASE ClearWait(c)
          <5>1. row' = row \/ row' = [row EXCEPT !.reason = "none", !.schedule = 0, !.wake = TRUE]
            BY <4>1 DEF ClearWait
          <5>. QED
            BY <5>1
        <4>2. ASSUME NEW fails, RecordWakeup(c, fails)
              PROVE  row' = row \/ \E n, x : row' = [row EXCEPT !.receipt = n, !.reservation = x]
          <5>. DEFINE x == IF row.reservation = c THEN Nobody ELSE row.reservation
          <5>1. row' = row \/ row' = [row EXCEPT !.receipt = call[c].sent, !.reservation = x]
            BY <4>2 DEF RecordWakeup
          <5>. HIDE DEF x
          <5>. QED
            BY <5>1
        <4>. QED
          BY <2>2, <4>1, <4>2
      <3>. QED
        BY <3>1, <2>1, SameRowUpdates
    <2>. QED
      BY <2>1, <2>2 DEF SendNow, SendLater, SendFails
  <1>3. call[c].pc # "idle"
    BY DEF SendNow, SendLater, SendFails, RecordWakeup, ClearWait
  <1>4. worker' = worker \/ Reply(c)
    BY DEF SendNow, SendLater, SendFails, RecordWakeup, ClearWait
  <1>5. CASE worker' = worker
    BY <1>1, <1>2, <1>5, SameWorkers DEF Keeps
  <1>6. CASE Reply(c)
    <2>1. c \in Workers => ~Working(c) /\ ~Working(c)'
      BY <1>3, <1>6, ReplyMoves, IdleRests, WorkingNames DEF CallsMatch
    <2>2. Others(c)
      BY <1>6, ReplyMoves
    <2>. QED
      BY <1>1, <1>2, <2>1, <2>2, RestingMoves
  <1>. QED
    BY <1>4, <1>5, <1>6

LEMMA RestingSteps ==
    ASSUME TypeOK, NEW w \in Workers, TakeEarly(w) \/ NotifyAgain(w) \/ Recheck(w)
    PROVE  Keeps
  <1>1. UNCHANGED <<rev, mishaps>>
    BY DEF TakeEarly, NotifyAgain, Recheck
  <1>2. SameRow
    <2>1. CASE row' = row
      BY <2>1 DEF SameRow
    <2>2. CASE \/ \E x : row' = [row EXCEPT !.wake = TRUE, !.reservation = x]
               \/ row' = [row EXCEPT !.notBefore = "zero", !.wake = FALSE]
      BY <2>2, SameRowUpdates
    <2>. QED
      BY <2>1, <2>2 DEF TakeEarly, NotifyAgain, Recheck, Reserve, Prepare
  <1>3. worker[w].pc \in {"idle", "refused", "recheck", "barrier", "renotify"}
    BY DEF TakeEarly, NotifyAgain, Recheck, Takes
  <1>4. worker'[w].pc \in {"idle", "refused", "calling"} /\ Others(w)
    <2>1. ASSUME TakeEarly(w) PROVE worker'[w].pc \in {"idle", "refused", "calling"} /\ Others(w)
      BY <2>1 DEF TakeEarly, TypeOK, Others, Idle
    <2>2. Goto(w, "calling") \/ (\E ack : Done(w, ack))
          => worker'[w].pc \in {"idle", "refused", "calling"} /\ Others(w)
      BY GotoMoves, DoneMoves, IdleRests
    <2>. QED
      BY <2>1, <2>2 DEF NotifyAgain, Recheck
  <1>. QED
    BY <1>1, <1>2, <1>3, <1>4, WorkingNames, RestingMoves

LEMMA BuildingSteps ==
    ASSUME TypeOK, NEW w \in Workers, BuildOk(w) \/ BuildBusy(w) \/ ReadGate(w)
    PROVE  Keeps
  <1>1. UNCHANGED <<row, rev, mishaps>>
    BY DEF BuildOk, BuildBusy, ReadGate
  <1>2. worker[w].pc \in {"building", "busy"}
    BY DEF BuildOk, BuildBusy, ReadGate
  <1>3. \E step \in {"built", "busy", "park", "yield"} : Goto(w, step)
    BY DEF BuildOk, BuildBusy, ReadGate
  <1>4. /\ worker'[w].pc \in {"built", "busy", "park", "yield"} /\ Others(w)
        /\ worker'[w].rev = worker[w].rev /\ worker'[w].attempt = worker[w].attempt
        /\ worker'[w].sees = worker[w].sees
    BY <1>3, GotoMoves
  <1>5. SameWork(w)
    BY <1>2, <1>4 DEF SameWork, Working
  <1>6. \A v \in Workers : SameWork(v)
    BY <1>4, <1>5, SameWorkers DEF Others
  <1>. QED
    BY <1>1, <1>6 DEF Keeps, SameRow

(* Claims and requests.                                                       *)
LEMMA ClaimingSteps ==
    ASSUME TypeOK, NEW w \in Workers, TakeClaim(w) \/ InlineClaim(w)
    PROVE  Keeps \/ Claims(w)
  <1>1. CASE TakeClaim(w)
    BY <1>1 DEF TakeClaim, Takes, Claims
  <1>2. CASE InlineClaim(w) /\ Claimable
    BY <1>2 DEF InlineClaim, Claims
  <1>3. CASE InlineClaim(w) /\ ~Claimable
    BY <1>3, SameWorkers DEF InlineClaim, Keeps, SameRow
  <1>. QED
    BY <1>1, <1>2, <1>3

LEMMA AskingSteps ==
    ASSUME TypeOK, AskAgain \/ \E delay \in Delays : Ask(delay)
    PROVE  Keeps \/ Advances
  <1>1. UNCHANGED worker
    BY DEF AskAgain, Ask
  <1>2. \E delay \in BOOLEAN : \E advance : Request(advance, delay)
    BY IntentAssumption DEF AskAgain, Ask
  <1>3. UNCHANGED <<row, rev, mishaps>> \/ \E delay \in BOOLEAN : Advance(delay)
    BY <1>2 DEF Request
  <1>. QED
    BY <1>1, <1>3, SameWorkers DEF Keeps, SameRow, Advances

LEMMA LapsingSteps == ASSUME TypeOK, LeaseLapses PROVE Lapses
  BY DEF LeaseLapses, Lapses, TypeOK, Rows

(* What a worker that leaves does to the row.                                 *)
LEMMA ReleasedRow ==
    ASSUME TypeOK
    PROVE  /\ Released.rev = row.rev /\ Released.attemptRev = row.attemptRev /\ Released.failed = row.failed
           /\ Released.attempts = row.attempts /\ Released.owner = Nobody /\ ~Released.lease
           /\ Unclaimed.rev = row.rev /\ Unclaimed.attemptRev = row.attemptRev /\ Unclaimed.failed = row.failed
           /\ Unclaimed.attempts = row.attempts /\ Unclaimed.owner = Nobody /\ ~Unclaimed.lease
           /\ row.attempts \in Nat /\ row.rev \in Nat /\ row.attemptRev \in Nat /\ row.failed \in BOOLEAN
  BY DEF Released, Unclaimed, TypeOK, Rows

LEMMA RefundedRow ==
    ASSUME TypeOK, NEW q \in Rows, NEW r, q.attempts = row.attempts, NEW s, s = Refunded(q, r)
    PROVE  /\ s.rev = q.rev /\ s.attemptRev = q.attemptRev /\ s.failed = q.failed /\ s.owner = q.owner
           /\ s.lease = q.lease /\ s.attempts \in Nat /\ s.attempts <= row.attempts
           /\ row.rev = r /\ row.attempts > 0 => s.attempts < row.attempts
  <1>1. row.attempts \in Nat
    BY ReleasedRow
  <1>2. CASE row.rev = r /\ row.attempts > 0
    <2>1. s = [q EXCEPT !.attempts = @ - 1]
      BY <1>2 DEF Refunded
    <2>2. /\ s.rev = q.rev /\ s.attemptRev = q.attemptRev /\ s.failed = q.failed /\ s.owner = q.owner
          /\ s.lease = q.lease /\ s.attempts = row.attempts - 1
      BY <2>1 DEF Rows
    <2>. QED
      BY <1>1, <1>2, <2>2
  <1>3. CASE ~(row.rev = r /\ row.attempts > 0)
    BY <1>1, <1>3 DEF Refunded
  <1>. QED
    BY <1>2, <1>3

LEMMA DeferredRow ==
    ASSUME TypeOK, IsFiniteSet(deferred), NEW r, NEW reason \in {"barrier_wait", "wave_wait"},
           NEW s, s = Deferred(r, reason)
    PROVE  /\ s.rev = row.rev /\ s.attemptRev = row.attemptRev /\ s.failed = row.failed /\ s.owner = Nobody
           /\ ~s.lease /\ s.attempts \in Nat /\ s.attempts <= row.attempts
           /\ row.rev = r /\ row.attempts > 0 => s.attempts < row.attempts
  <1>. DEFINE n == Fresh(Schedules \ {0})
              t == IF reason = "barrier_wait" THEN "later" ELSE "zero"
              q == [Released EXCEPT !.wake = FALSE, !.reason = reason, !.notBefore = t, !.schedule = n]
  <1>1. n \in Nat /\ t \in Times /\ reason \in Reasons
    BY FreshTypes DEF Times, Reasons
  <1>2. q \in Rows /\ q.rev = Released.rev /\ q.attemptRev = Released.attemptRev /\ q.failed = Released.failed
        /\ q.owner = Released.owner /\ q.lease = Released.lease /\ q.attempts = Released.attempts
    <2>. HIDE DEF n, t
    <2>1. q \in Rows
      BY <1>1, ReleasedTypes, RowValues
    <2>2. q.rev = Released.rev /\ q.attemptRev = Released.attemptRev /\ q.failed = Released.failed
        /\ q.owner = Released.owner /\ q.lease = Released.lease /\ q.attempts = Released.attempts
      BY ReleasedTypes DEF Rows
    <2>. QED
      BY <2>1, <2>2
  <1>3. s = Refunded(q, r)
    BY DEF Deferred
  <1>. HIDE DEF q
  <1>4. q.attempts = row.attempts
    BY <1>2, ReleasedRow
  <1>. QED
    BY <1>2, <1>3, <1>4, RefundedRow, ReleasedRow

LEMMA ChargeMoves ==
    ASSUME TypeOK, NEW r, Charge(r)
    PROVE  /\ mishaps' \in {mishaps, mishaps + 1}
           /\ r = row.rev => mishaps' > mishaps \/ mishaps >= MaxAttempts
  BY IntentAssumption DEF Charge, TypeOK

(* The shapes of leaving: without the row, behind a release that refunds the
   attempt, or behind one of a claim that is not alive.                       *)
LEMMA LeavingParts ==
    ASSUME TypeOK, NEW w \in Workers, Working(w), ~Working(w)', Others(w), UNCHANGED rev
    PROVE  /\ row' = row /\ ~Live(w) /\ mishaps' \in {mishaps, mishaps + 1} => Leaves(w)
           /\ row' = row /\ (\E r : Charge(r) /\ (Live(w) => r = row.rev)) => Leaves(w)
           /\ /\ Owns(w) /\ row' \in Rows /\ row'.rev = row.rev /\ row'.attemptRev = row.attemptRev
              /\ row'.failed = row.failed /\ row'.owner = Nobody /\ ~row'.lease
              /\ row'.attempts <= row.attempts /\ mishaps' \in {mishaps, mishaps + 1}
              /\ Live(w) => row'.attempts < row.attempts \/ row'.attempts = 0
                            \/ mishaps' > mishaps \/ mishaps >= MaxAttempts
              => Leaves(w)
  <1>. row.attempts \in Nat /\ mishaps \in Nat /\ row.failed \in BOOLEAN
    BY ReleasedRow DEF TypeOK
  <1>1. ASSUME row' = row, ~Live(w), mishaps' \in {mishaps, mishaps + 1} PROVE Leaves(w)
    BY <1>1 DEF Leaves
  <1>2. ASSUME row' = row, NEW r, Charge(r), Live(w) => r = row.rev PROVE Leaves(w)
    <2>1. /\ mishaps' \in {mishaps, mishaps + 1}
          /\ Live(w) => mishaps' > mishaps \/ mishaps >= MaxAttempts
      BY <1>2, ChargeMoves
    <2>. QED
      BY <1>2, <2>1 DEF Leaves
  <1>3. ASSUME Owns(w), row' \in Rows, row'.rev = row.rev, row'.attemptRev = row.attemptRev,
               row'.failed = row.failed, row'.owner = Nobody, ~row'.lease,
               row'.attempts <= row.attempts, mishaps' \in {mishaps, mishaps + 1},
               Live(w) => row'.attempts < row.attempts \/ row'.attempts = 0
                          \/ mishaps' > mishaps \/ mishaps >= MaxAttempts
        PROVE  Leaves(w)
    <2>1. row'.attempts \in Nat
      BY <1>3 DEF Rows
    <2>. QED
      BY <1>3, <2>1 DEF Leaves
  <1>. QED
    BY <1>1, <1>2, <1>3

LEMMA LeavingSteps ==
    ASSUME TypeOK, IsFiniteSet(deferred), row' \in Rows, NEW w \in Workers,
           InlineDeclines(w) \/ BuildFails(w) \/ FinishNewer(w) \/ FinishLost(w) \/ Park(w) \/ Yield(w) \/ GiveUp(w)
    PROVE  Leaves(w)
  <1>. mishaps \in Nat /\ row.attempts \in Nat
    BY ReleasedRow DEF TypeOK
  <1>1. UNCHANGED rev /\ worker[w].pc \in {"building", "built", "park", "yield"}
    BY DEF InlineDeclines, BuildFails, FinishNewer, FinishLost, Park, Yield, GiveUp
  <1>2. (\E ack : Done(w, ack)) \/ (\E step \in {"renotify", "recheck", "barrier"} : Goto(w, step))
    BY DEF InlineDeclines, BuildFails, FinishNewer, FinishLost, Park, Yield, GiveUp
  <1>3. worker'[w].pc \in {"idle", "renotify", "recheck", "barrier"} /\ Others(w)
    BY <1>2, DoneMoves, GotoMoves, IdleRests
  <1>4. Working(w) /\ ~Working(w)'
    BY <1>1, <1>3, WorkingNames
  <1>5. Live(w) => Owns(w) /\ row.lease /\ row.rev = worker[w].rev
    BY DEF Live, Holds
  <1>6. ASSUME Owns(w), row' = Released \/ row' = Unclaimed, ~Live(w), UNCHANGED mishaps PROVE Leaves(w)
    BY <1>1, <1>3, <1>4, <1>6, LeavingParts, ReleasedRow
  <1>7. ASSUME row' = row, ~Live(w), UNCHANGED mishaps PROVE Leaves(w)
    BY <1>1, <1>3, <1>4, <1>7, LeavingParts
  <1>8. ASSUME Owns(w), UNCHANGED mishaps, NEW reason \in {"barrier_wait", "wave_wait"},
               row' = Deferred(worker[w].rev, reason)
        PROVE  Leaves(w)
    <2>1. /\ row'.rev = row.rev /\ row'.attemptRev = row.attemptRev /\ row'.failed = row.failed
          /\ row'.owner = Nobody /\ ~row'.lease /\ row'.attempts \in Nat /\ row'.attempts <= row.attempts
          /\ row.rev = worker[w].rev /\ row.attempts > 0 => row'.attempts < row.attempts
      BY <1>8, DeferredRow
    <2>2. Live(w) => row'.attempts < row.attempts \/ row'.attempts = 0
      BY <1>5, <2>1
    <2>. QED
      BY <1>1, <1>3, <1>4, <1>8, <2>1, <2>2, LeavingParts
  <1>9. ASSUME InlineDeclines(w) PROVE Leaves(w)
    <2>1. CASE ~Owns(w)
      BY <1>5, <1>7, <1>9, <2>1 DEF InlineDeclines
    <2>2. CASE Owns(w)
      <3>1. row' = Refunded(Released, worker[w].rev) /\ UNCHANGED mishaps
        BY <1>9, <2>2 DEF InlineDeclines
      <3>2. /\ row'.rev = row.rev /\ row'.attemptRev = row.attemptRev /\ row'.failed = row.failed
            /\ row'.owner = Nobody /\ ~row'.lease /\ row'.attempts \in Nat /\ row'.attempts <= row.attempts
            /\ row.rev = worker[w].rev /\ row.attempts > 0 => row'.attempts < row.attempts
        BY <3>1, RefundedRow, ReleasedRow, ReleasedTypes
      <3>3. Live(w) => row'.attempts < row.attempts \/ row'.attempts = 0
        BY <1>5, <3>2
      <3>. QED
        BY <1>1, <1>3, <1>4, <2>2, <3>1, <3>2, <3>3, LeavingParts
    <2>. QED
      BY <2>1, <2>2
  <1>10. ASSUME BuildFails(w) PROVE Leaves(w)
    <2>1. Charge(worker[w].rev)
      BY <1>10 DEF BuildFails
    <2>2. mishaps' \in {mishaps, mishaps + 1} /\ (Live(w) => mishaps' > mishaps \/ mishaps >= MaxAttempts)
      BY <1>5, <2>1, ChargeMoves
    <2>3. CASE Owns(w)
      <3>1. row' = Released
        BY <1>10, <2>3 DEF BuildFails
      <3>. QED
        BY <1>1, <1>3, <1>4, <2>2, <2>3, <3>1, LeavingParts, ReleasedRow
    <2>4. CASE ~Owns(w)
      <3>1. row' = row
        BY <1>10, <2>4 DEF BuildFails
      <3>. QED
        BY <1>1, <1>3, <1>4, <1>5, <2>2, <2>4, <3>1, LeavingParts
    <2>. QED
      BY <2>3, <2>4
  <1>11. ASSUME FinishNewer(w) PROVE Leaves(w)
    BY <1>5, <1>6, <1>11 DEF FinishNewer, OwnRevision, Holds
  <1>12. ASSUME FinishLost(w) PROVE Leaves(w)
    BY <1>5, <1>6, <1>7, <1>12 DEF FinishLost, Holds
  <1>13. ASSUME Park(w) PROVE Leaves(w)
    BY <1>5, <1>7, <1>8, <1>13 DEF Park
  <1>14. ASSUME Yield(w) PROVE Leaves(w)
    BY <1>5, <1>7, <1>8, <1>14 DEF Yield
  <1>15. ASSUME GiveUp(w) PROVE Leaves(w)
    <2>1. CASE ~Holds(w)
      BY <1>5, <1>6, <1>7, <1>15, <2>1 DEF GiveUp, Holds
    <2>2. CASE Holds(w) /\ row.rev # worker[w].rev
      BY <1>5, <1>6, <1>15, <2>2 DEF GiveUp, Holds
    <2>3. CASE Holds(w) /\ row.rev = worker[w].rev
      <3>1. row' = [Unclaimed EXCEPT !.failed = TRUE] /\ UNCHANGED mishaps
        BY <1>15, <2>3 DEF GiveUp
      <3>2. /\ row'.rev = row.rev /\ row'.attemptRev = row.attemptRev /\ row'.failed
            /\ row'.owner = Nobody /\ ~row'.lease /\ row'.attempts = row.attempts
        BY <3>1, ReleasedRow, ReleasedTypes DEF Rows
      <3>3. GivesUp(w) /\ Owns(w)
        BY <1>4, <1>15, <2>3 DEF GiveUp, GivesUp, Live, Exhausted, Holds
      <3>. QED
        BY <1>1, <1>3, <1>4, <3>1, <3>2, <3>3 DEF Leaves
    <2>. QED
      BY <2>1, <2>2, <2>3
  <1>. QED
    BY <1>9, <1>10, <1>11, <1>12, <1>13, <1>14, <1>15

LEMMA PuttingSteps ==
    ASSUME TypeOK, NEW w \in Workers, NEW fails, Finish(w, fails) PROVE Puts(w)
  BY DoneMoves, WorkingNames, IdleRests DEF Finish, Puts

LEMMA CrashingSteps ==
    ASSUME TypeOK, NEW c \in Callers, Crash(c)
    PROVE  Keeps \/ \E w \in Workers : Leaves(w)
  <1>1. UNCHANGED <<row, rev>>
    BY DEF Crash
  <1>2. CASE c \in Workers /\ Working(c)
    <2>1. worker'[c] = Idle /\ Others(c)
      BY <1>2 DEF Crash, Others, TypeOK
    <2>2. ~Working(c)'
      BY <2>1, <1>2, IdleRests, WorkingNames
    <2>3. CASE Owns(c)
      <3>1. Charge(worker[c].rev)
        BY <1>2, <2>3 DEF Crash
      <3>. QED
        BY <1>1, <1>2, <2>1, <2>2, <3>1, LeavingParts DEF Live
    <2>4. CASE ~Owns(c)
      <3>1. UNCHANGED mishaps /\ ~Live(c)
        BY <1>2, <2>4 DEF Crash, Live, Holds
      <3>. QED
        BY <1>1, <1>2, <2>1, <2>2, <3>1, LeavingParts
    <2>. QED
      BY <2>3, <2>4
  <1>3. CASE c \in Workers /\ ~Working(c)
    <2>1. worker'[c] = Idle /\ Others(c) /\ UNCHANGED mishaps
      BY <1>3 DEF Crash, Others, TypeOK
    <2>2. ~Working(c)'
      BY <2>1, <1>3, IdleRests, WorkingNames
    <2>. QED
      BY <1>1, <1>3, <2>1, <2>2, RestingMoves DEF SameRow
  <1>4. CASE c \notin Workers
    BY <1>1, <1>4, SameWorkers DEF Crash, Keeps, SameRow
  <1>. QED
    BY <1>2, <1>3, <1>4

(* Every step is one of the moves.                                            *)
LEMMA StepsMove ==
    ASSUME TypeInv, CallsMatch, [Next]_vars PROVE Moves
  <1>. TypeOK /\ IsFiniteSet(deferred)
    BY DEF TypeInv
  <1>1. row' \in Rows
    BY TypeStep DEF TypeInv, TypeOK
  <1>2. ASSUME Edits \/ AskAgain PROVE Moves
    BY <1>2, KeepingSteps, AskingSteps DEF Edits, Moves
  <1>3. ASSUME Sweep \/ SweepPasses \/ Handoff \/ Timers \/ LeaseLapses \/ Promotes
               \/ (\E m \in deferred : Promote(m, TRUE))
               \/ GateRises("reserved") \/ GateRises("wave") \/ GateFalls \/ UNCHANGED vars
        PROVE Moves
    BY <1>3, KeepingSteps, LapsingSteps DEF Timers, Promotes, Moves
  <1>4. ASSUME NEW c \in Callers, CallStep(c) \/ SendFails(c) PROVE Moves
    BY <1>4, KeepingSteps, ReplyingSteps DEF CallStep, Moves
  <1>5. ASSUME NEW c \in Callers, Crash(c) PROVE Moves
    BY <1>5, CrashingSteps DEF Moves
  <1>6. ASSUME NEW w \in Workers, Take(w) \/ InlineClaim(w) PROVE Moves
    BY <1>6, KeepingSteps, RestingSteps, ClaimingSteps DEF Take, Moves
  <1>7. ASSUME NEW w \in Workers, Work(w) \/ BuildBusy(w) PROVE Moves
    BY <1>1, <1>7, BuildingSteps, RestingSteps, LeavingSteps, PuttingSteps DEF Work, Moves
  <1>. QED
    BY <1>2, <1>3, <1>4, <1>5, <1>6, <1>7 DEF Next

-----------------------------------------------------------------------------
LEMMA RevisionsStep ==
    ASSUME TypeOK, RowSound, RevisionsKnown, Moves PROVE RevisionsKnown'
  <1>. USE DEF RevisionsKnown
  <1>. rev \in Nat /\ row.rev \in Nat /\ (\A w \in Workers : worker[w].rev \in Nat)
    BY ReleasedRow DEF TypeOK, Works
  <1>1. CASE Keeps
    BY <1>1 DEF Keeps, SameWork
  <1>2. CASE Advances
    <2>1. rev' = rev + 1 /\ UNCHANGED worker
      BY <1>2 DEF Advances, Advance
    <2>. QED
      BY <2>1 DEF Working
  <1>3. CASE Lapses
    BY <1>3 DEF Lapses, Working
  <1>4. ASSUME NEW w \in Workers, Claims(w) PROVE RevisionsKnown'
    <2>1. worker'[w].rev = row.rev /\ Others(w) /\ rev' = rev
      BY <1>4 DEF Claims, Claim, Others, TypeOK
    <2>. QED
      BY <2>1 DEF Others, Working, RowSound
  <1>5. ASSUME NEW w \in Workers, Leaves(w) \/ Puts(w) PROVE RevisionsKnown'
    <2>1. ~Working(w)' /\ Others(w) /\ rev' = rev
      BY <1>5 DEF Leaves, Puts
    <2>. QED
      BY <2>1 DEF Others, Working
  <1>. QED
    BY <1>1, <1>2, <1>3, <1>4, <1>5 DEF Moves

(* A row that is not there is only brought back by a request.                 *)
LEMMA NoRowFacts ==
    ASSUME row = NoRow
    PROVE  /\ ~Exists /\ ~row.failed /\ ~row.lease /\ row.owner = Nobody /\ ~row.wake
           /\ row.notBefore = "zero" /\ row.rev = 0
           /\ \A w \in Workers : ~Owns(w)
  BY IntentAssumption DEF NoRow, Exists, Owns

LEMMA NoRowStays ==
    ASSUME TypeOK, [Next]_vars, row = NoRow PROVE row' = row \/ Advances
  <1>1. CASE \/ Mark("request") \/ Mark("metadata") \/ LookAtLease \/ Sweep \/ SweepPasses \/ Handoff
             \/ EmbargoEnds \/ WakeExpires \/ LeaseLapses \/ (\E m \in deferred, keeps \in BOOLEAN : Promote(m, keeps))
             \/ (\E to \in {"reserved", "wave"} : GateRises(to)) \/ GateFalls \/ UNCHANGED vars
    BY <1>1, NoRowFacts
       DEF Mark, LookAtLease, Sweep, SweepPasses, Handoff, EmbargoEnds, WakeExpires, LeaseLapses, Promote,
           GateRises, GateFalls, vars, Notifiable, Resumable
  <1>2. ASSUME NEW c \in Callers, CallStep(c) \/ SendFails(c) \/ Crash(c) PROVE row' = row
    BY <1>2, NoRowFacts
      DEF CallStep, SendNow, SendLater, Resend, ClearWait, RecordWakeup, SendFails, Crash
  <1>3. ASSUME NEW w \in Workers, Take(w) \/ InlineClaim(w) \/ Work(w) \/ BuildBusy(w) PROVE row' = row
    <2>1. ASSUME Take(w) \/ InlineClaim(w) PROVE row' = row
      BY <2>1, NoRowFacts DEF Take, TakeClaim, TakeObsolete, TakeEarly, InlineClaim, Claimable
    <2>2. ASSUME BuildOk(w) \/ BuildFails(w) \/ InlineDeclines(w) \/ GiveUp(w) \/ BuildBusy(w) PROVE row' = row
      BY <2>2, NoRowFacts DEF BuildOk, BuildFails, InlineDeclines, GiveUp, BuildBusy, Holds
    <2>3. ASSUME (\E fails \in BOOLEAN : Finish(w, fails)) \/ FinishNewer(w) \/ FinishLost(w) \/ ReadGate(w)
                 \/ Park(w) \/ Recheck(w) \/ Yield(w) \/ NotifyAgain(w)
          PROVE  row' = row
      BY <2>3, NoRowFacts
         DEF Finish, FinishNewer, FinishLost, ReadGate, Park, Recheck, Yield, NotifyAgain, Holds, Resumable, Notifiable
    <2>. QED
      BY <1>3, <2>1, <2>2, <2>3 DEF Work
  <1>4. ASSUME AskAgain \/ (\E delay \in Delays : Ask(delay)) PROVE row' = row \/ Advances
    <2>1. UNCHANGED worker /\ \E delay \in BOOLEAN : \E advance : Request(advance, delay)
      BY <1>4, IntentAssumption DEF AskAgain, Ask
    <2>. QED
      BY <2>1 DEF Request, Advances
  <1>. QED
    BY <1>1, <1>2, <1>3, <1>4 DEF Next, Edits, Timers, Promotes

LEMMA RequestedRow ==
    ASSUME TypeOK, NEW delay, NEW s, s = Requested(delay)
    PROVE  /\ s.rev = rev + 1 /\ ~s.failed /\ s.attemptRev = row.attemptRev
           /\ IF row.failed THEN s.owner = Nobody /\ ~s.lease
                            ELSE s.owner = row.owner /\ s.lease = row.lease
  <1>. DEFINE next == [row EXCEPT !.rev = rev + 1, !.failed = FALSE, !.notBefore = NotBefore(delay)]
  <1>1. next.rev = rev + 1 /\ ~next.failed /\ next.attemptRev = row.attemptRev
        /\ next.owner = row.owner /\ next.lease = row.lease
    BY DEF TypeOK, Rows
  <1>2. CASE row.failed
    BY <1>2 DEF Requested, TypeOK, Rows
  <1>3. CASE ~row.failed
    <2>1. s = next
      BY <1>3 DEF Requested
    <2>. HIDE DEF next
    <2>. QED
      BY <1>1, <1>3, <2>1
  <1>. QED
    BY <1>2, <1>3

LEMMA ClaimedRow ==
    ASSUME TypeOK, NEW w
    PROVE  /\ ClaimedBy(w).rev = row.rev /\ ClaimedBy(w).failed = row.failed /\ ClaimedBy(w).owner = w
           /\ ClaimedBy(w).lease /\ ClaimedBy(w).attemptRev = row.rev
           /\ ClaimedBy(w).attempts = IF row.attemptRev = row.rev THEN row.attempts + 1 ELSE 1
  BY DEF ClaimedBy, TypeOK, Rows

LEMMA RowStep ==
    ASSUME TypeInv, TypeOK', RowSound, Moves, [Next]_vars PROVE RowSound'
  <1>. TypeOK /\ rev \in Nat /\ row.rev \in Nat /\ row.attemptRev \in Nat /\ row'.rev \in Nat
    BY ReleasedRow DEF TypeInv, TypeOK, Rows
  <1>1. row'.rev = 0 => row' = NoRow
    <2>1. CASE Advances
      <3>1. row'.rev = rev + 1
        BY <2>1, RequestedRow DEF Advances, Advance
      <3>. QED
        BY <3>1
    <2>2. CASE row = NoRow /\ ~Advances
      BY <2>2, NoRowStays
    <2>3. CASE row # NoRow /\ ~Advances
      <3>1. row.rev # 0
        BY <2>3 DEF RowSound
      <3>2. row' = NoRow \/ row'.rev = row.rev
        BY <2>3, ClaimedRow DEF Moves, Keeps, SameRow, Lapses, Claims, Claim, Leaves, Puts
      <3>. QED
        BY <3>1, <3>2
    <2>. QED
      BY <2>1, <2>2, <2>3
  <1>2. CASE Keeps
    BY <1>1, <1>2 DEF Keeps, SameRow, RowSound
  <1>3. CASE Advances
    <2>1. row'.rev = rev' /\ row'.attemptRev <= row'.rev
      BY <1>3, RequestedRow DEF Advances, Advance, RowSound
    <2>2. (row'.lease => row'.owner \in Workers) /\ ~row'.failed
      BY <1>3, RequestedRow DEF Advances, Advance, RowSound
    <2>. QED
      BY <1>1, <2>1, <2>2 DEF RowSound
  <1>4. CASE Lapses
    BY <1>1, <1>4 DEF Lapses, RowSound
  <1>5. ASSUME NEW w \in Workers, Claims(w) PROVE RowSound'
    <2>1. row' = ClaimedBy(w) /\ rev' = rev /\ ~row.failed
      BY <1>5 DEF Claims, Claim, Claimable
    <2>. QED
      BY <1>1, <2>1, ClaimedRow DEF RowSound
  <1>6. ASSUME NEW w \in Workers, Leaves(w) PROVE RowSound'
    <2>1. row'.rev <= rev' /\ row'.attemptRev <= row'.rev
      BY <1>6 DEF Leaves, RowSound
    <2>2. (row'.lease => row'.owner \in Workers) /\ (row'.failed => row'.owner = Nobody)
      BY <1>6 DEF Leaves, RowSound
    <2>. QED
      BY <1>1, <2>1, <2>2 DEF RowSound
  <1>7. ASSUME NEW w \in Workers, Puts(w) PROVE RowSound'
    BY <1>7 DEF Puts, NoRow, RowSound
  <1>. QED
    BY <1>2, <1>3, <1>4, <1>5, <1>6, <1>7 DEF Moves

-----------------------------------------------------------------------------
(* Who is alive after a step was alive before it.                             *)
LEMMA NobodyLives ==
    ASSUME TypeOK, RowSound, RevisionsKnown, Advances \/ Lapses, NEW w \in Workers PROVE ~Live(w)'
  <1>. rev \in Nat /\ worker[w].rev \in Nat
    BY DEF TypeOK, Works
  <1>1. CASE Advances
    <2>1. row'.rev = rev + 1 /\ UNCHANGED worker
      BY <1>1, RequestedRow DEF Advances, Advance
    <2>2. Working(w)' => worker'[w].rev <= rev
      BY <2>1 DEF RevisionsKnown, Working
    <2>3. worker'[w].rev = row'.rev => ~Working(w)'
      BY <2>1, <2>2
    <2>. QED
      BY <2>3 DEF Live
  <1>2. CASE Lapses
    BY <1>2 DEF Lapses, Live, Holds
  <1>. QED
    BY <1>1, <1>2

LEMMA KeptLives ==
    ASSUME TypeOK, Keeps, NEW w \in Workers
    PROVE  /\ Live(w)' = Live(w)
           /\ Live(w) => worker'[w].attempt = worker[w].attempt /\ worker'[w].sees = worker[w].sees
  <1>1. Working(w)' = Working(w) /\ (Working(w) => worker'[w].rev = worker[w].rev)
    BY DEF Keeps, SameWork
  <1>2. Holds(w)' = Holds(w)
    BY DEF Keeps, SameRow, Holds, Owns
  <1>3. Live(w)' = Live(w)
    BY <1>1, <1>2 DEF Live, Keeps, SameRow
  <1>. QED
    BY <1>3 DEF Keeps, SameWork, Live

LEMMA ClaimLives ==
    ASSUME TypeOK, NEW w \in Workers, Claims(w)
    PROVE  /\ Live(w)' /\ worker'[w].attempt = row'.attempts /\ worker'[w].sees = marked
           /\ \A v \in Workers : ~Live(v)
           /\ \A v \in Workers : Live(v)' => v = w
  <1>1. row' = ClaimedBy(w) /\ ~row.lease
    BY DEF Claims, Claim, Claimable
  <1>2. worker'[w].pc = "building" /\ worker'[w].rev = row.rev /\ worker'[w].attempt = row'.attempts
        /\ worker'[w].sees = marked
    BY DEF Claims, Claim, TypeOK
  <1>3. row'.rev = row.rev /\ row'.owner = w /\ row'.lease
    BY <1>1, ClaimedRow
  <1>4. Live(w)'
    BY <1>2, <1>3 DEF Live, Holds, Owns, Working
  <1>. QED
    BY <1>1, <1>2, <1>3, <1>4 DEF Live, Holds, Owns

LEMMA LeaverLives ==
    ASSUME TypeOK, NEW w \in Workers, Leaves(w), NEW v \in Workers
    PROVE  /\ ~Live(w)'
           /\ Live(v)' => v # w /\ row' = row /\ ~Owns(w) /\ Live(v) /\ worker'[v] = worker[v]
           /\ Live(v) /\ v # w => row' = row /\ Live(v)'
  <1>1. ~Live(w)'
    BY DEF Leaves, Live
  <1>2. ASSUME Live(v)' PROVE v # w /\ row' = row /\ ~Owns(w) /\ Live(v) /\ worker'[v] = worker[v]
    <2>1. v # w /\ worker'[v] = worker[v]
      BY <1>1, <1>2 DEF Leaves, Others
    <2>2. row'.owner = v /\ row' = row
      BY <1>2, IntentAssumption DEF Leaves, Live, Holds, Owns
    <2>3. Live(v)
      BY <1>2, <2>1, <2>2 DEF Live, Holds, Owns, Working
    <2>. QED
      BY <2>1, <2>2, <2>3 DEF Owns
  <1>3. ASSUME Live(v), v # w PROVE row' = row /\ Live(v)'
    <2>1. row' = row
      BY <1>3 DEF Leaves, Live, Holds, Owns
    <2>2. worker'[v] = worker[v]
      BY <1>3 DEF Leaves, Others
    <2>. QED
      BY <1>3, <2>1, <2>2 DEF Live, Holds, Owns, Working
  <1>. QED
    BY <1>1, <1>2, <1>3

LEMMA PutterLives ==
    ASSUME NEW w \in Workers, Puts(w), NEW v \in Workers PROVE ~Live(v)'
  <1>1. row'.owner = Nobody
    BY DEF Puts, NoRow
  <1>. QED
    BY <1>1, IntentAssumption DEF Live, Holds, Owns

(* Attempts are paid for by mishaps.                                          *)
LEMMA BudgetSpent ==
    ASSUME TypeOK, Counted, NEW w \in Workers, GivesUp(w) PROVE mishaps >= MaxAttempts
  <1>. row.attempts \in Nat /\ mishaps \in Nat /\ MaxAttempts \in Nat /\ worker[w].attempt \in Nat
    BY ReleasedRow, IntentAssumption DEF TypeOK, Works
  <1>1. row.attemptRev = row.rev /\ row.attempts > MaxAttempts
    BY DEF GivesUp, Counted
  <1>2. mishaps < MaxAttempts => row.attempts <= mishaps + 1
    BY <1>1 DEF Counted
  <1>. QED
    BY <1>1, <1>2

LEMMA CountedStep ==
    ASSUME TypeOK, RowSound, RevisionsKnown, Counted, FailedOnlyByMishaps, Moves
    PROVE  Counted' /\ FailedOnlyByMishaps'
  <1>. DEFINE Alive == \A v \in Workers : Live(v)' => row'.attemptRev = row'.rev /\ worker'[v].attempt = row'.attempts
              Paid == mishaps' < MaxAttempts /\ row'.attemptRev = row'.rev =>
                         \/ row'.attempts <= mishaps'
                         \/ row'.attempts = mishaps' + 1 /\ \E v \in Workers : Live(v)'
              Failing == row'.failed => mishaps' >= MaxAttempts
  <1>. row.attempts \in Nat /\ mishaps \in Nat /\ MaxAttempts \in Nat /\ row.failed \in BOOLEAN
    BY ReleasedRow, IntentAssumption DEF TypeOK
  <1>. SUFFICES Alive /\ Paid /\ Failing
    BY DEF Counted, FailedOnlyByMishaps
  <1>. USE DEF FailedOnlyByMishaps
  <1>1. CASE Keeps
    <2>1. row'.attempts = row.attempts /\ row'.attemptRev = row.attemptRev /\ row'.rev = row.rev
          /\ mishaps' = mishaps /\ row'.failed = row.failed
      BY <1>1 DEF Keeps, SameRow
    <2>2. Alive
      BY <1>1, <2>1, KeptLives DEF Counted
    <2>3. Paid
      BY <1>1, <2>1, KeptLives DEF Counted
    <2>. QED
      BY <2>1, <2>2, <2>3
  <1>2. CASE Advances
    <2>1. Alive
      BY <1>2, NobodyLives
    <2>2. row'.attemptRev < row'.rev /\ ~row'.failed
      <3>1. rev \in Nat /\ row.rev \in Nat /\ row.attemptRev \in Nat
        BY ReleasedRow DEF TypeOK
      <3>. QED
        BY <1>2, <3>1, RequestedRow DEF Advances, Advance, RowSound
    <2>3. row'.attemptRev # row'.rev
      <3>1. rev \in Nat /\ row.rev \in Nat /\ row.attemptRev \in Nat
        BY ReleasedRow DEF TypeOK
      <3>2. row'.attemptRev = row.attemptRev /\ row'.rev = rev + 1
        BY <1>2, RequestedRow DEF Advances, Advance
      <3>. QED
        BY <2>2, <3>1, <3>2
    <2>. QED
      BY <2>1, <2>2, <2>3
  <1>3. CASE Lapses
    <2>1. Alive
      BY <1>3, NobodyLives
    <2>2. row'.attempts = row.attempts /\ row'.attemptRev = row.attemptRev /\ row'.rev = row.rev
          /\ row'.failed = row.failed
      BY <1>3 DEF Lapses
    <2>3. mishaps' \in {mishaps, mishaps + 1}
      BY <1>3, ChargeMoves DEF Lapses
    <2>4. ASSUME NEW v \in Workers, Live(v) PROVE mishaps' > mishaps \/ mishaps >= MaxAttempts
      <3>1. row.owner = v /\ Working(row.owner) /\ worker[row.owner].rev = row.rev
        BY <2>4 DEF Live, Holds, Owns
      <3>. QED
        BY <1>3, <3>1, ChargeMoves DEF Lapses
    <2>5. Paid
      BY <2>2, <2>3, <2>4 DEF Counted
    <2>6. Failing
      BY <2>2, <2>3
    <2>. QED
      BY <2>1, <2>5, <2>6
  <1>4. ASSUME NEW w \in Workers, Claims(w) PROVE Alive /\ Paid /\ Failing
    <2>1. row' = ClaimedBy(w) /\ mishaps' = mishaps /\ ~row.failed
      BY <1>4 DEF Claims, Claim, Claimable
    <2>2. row'.rev = row.rev /\ row'.attemptRev = row.rev /\ row'.failed = row.failed
          /\ row'.attempts = (IF row.attemptRev = row.rev THEN row.attempts + 1 ELSE 1)
      BY <2>1, ClaimedRow
    <2>3. Alive
      BY <1>4, <2>2, ClaimLives
    <2>4. (mishaps < MaxAttempts /\ row.attemptRev = row.rev) => row.attempts <= mishaps
      BY <1>4, ClaimLives DEF Counted
    <2>5. mishaps < MaxAttempts => row'.attempts <= mishaps + 1 /\ row'.attempts \in Nat
      BY <2>2, <2>4
    <2>6. Paid
      <3>1. \E v \in Workers : Live(v)'
        BY <1>4, ClaimLives
      <3>. QED
        BY <2>1, <2>5, <3>1
    <2>. QED
      BY <2>1, <2>2, <2>3, <2>6
  <1>5. ASSUME NEW w \in Workers, Leaves(w) PROVE Alive /\ Paid /\ Failing
    <2>1. row'.rev = row.rev /\ row'.attemptRev = row.attemptRev /\ row'.attempts \in Nat
          /\ row'.attempts <= row.attempts /\ mishaps' \in {mishaps, mishaps + 1}
      BY <1>5 DEF Leaves
    <2>2. Alive
      BY <1>5, LeaverLives DEF Counted
    <2>3. Failing
      <3>1. row'.failed => row.failed \/ GivesUp(w)
        BY <1>5 DEF Leaves
      <3>2. row'.failed => mishaps >= MaxAttempts
        BY <3>1, BudgetSpent
      <3>. QED
        BY <2>1, <3>2
    <2>4. ASSUME mishaps' < MaxAttempts, row'.attemptRev = row'.rev
          PROVE  \/ row'.attempts <= mishaps'
                 \/ row'.attempts = mishaps' + 1 /\ \E v \in Workers : Live(v)'
      <3>1. mishaps < MaxAttempts /\ row.attemptRev = row.rev
        BY <2>1, <2>4
      <3>2. CASE row.attempts <= mishaps
        BY <2>1, <3>2
      <3>3. ASSUME row.attempts = mishaps + 1, NEW v \in Workers, Live(v)
            PROVE  \/ row'.attempts <= mishaps'
                   \/ row'.attempts = mishaps' + 1 /\ \E u \in Workers : Live(u)'
        <4>1. CASE v = w
          <5>1. \/ row'.attempts < row.attempts \/ row'.attempts = 0 \/ mishaps' > mishaps \/ row'.failed
            BY <1>5, <3>1, <3>3, <4>1 DEF Leaves
          <5>2. ~row'.failed
            BY <2>3, <2>4, <2>1
          <5>. QED
            BY <2>1, <3>3, <5>1, <5>2
        <4>2. CASE v # w
          <5>1. row' = row /\ Live(v)'
            BY <1>5, <3>3, <4>2, LeaverLives
          <5>2. \E u \in Workers : Live(u)'
            BY <5>1
          <5>. QED
            BY <2>1, <3>3, <5>1, <5>2
        <4>. QED
          BY <4>1, <4>2
      <3>. QED
        BY <3>1, <3>2, <3>3 DEF Counted
    <2>. QED
      BY <2>2, <2>3, <2>4
  <1>6. ASSUME NEW w \in Workers, Puts(w) PROVE Alive /\ Paid /\ Failing
    <2>1. row'.attempts = 0 /\ mishaps' = 0 /\ ~row'.failed
      BY <1>6 DEF Puts, NoRow
    <2>. QED
      BY <1>6, <2>1, PutterLives
  <1>. QED
    BY <1>1, <1>2, <1>3, <1>4, <1>5, <1>6 DEF Moves

-----------------------------------------------------------------------------
(* What is published and what was asked for.                                  *)
LEMMA BuiltStep ==
    ASSUME TypeOK, CallsMatch, BuiltCovers, [Next]_vars PROVE BuiltCovers'
  <1>. built \in Nat /\ \A w \in Workers : worker[w].sees \in Nat
    BY DEF TypeOK, Works
  <1>. USE DEF BuiltCovers
  <1>1. ASSUME NEW w, Others(w), UNCHANGED built, w \in Workers => worker'[w].pc # "built" PROVE BuiltCovers'
    BY <1>1 DEF Others
  <1>2. ASSUME UNCHANGED <<worker, built>> PROVE BuiltCovers'
    BY <1>2
  <1>3. CASE \/ Edits \/ AskAgain \/ Sweep \/ SweepPasses \/ Handoff \/ Timers \/ LeaseLapses \/ Promotes
             \/ (\E m \in deferred : Promote(m, TRUE)) \/ GateRises("reserved") \/ GateRises("wave") \/ GateFalls
             \/ UNCHANGED vars \/ (\E c \in Callers : Resend(c)) \/ (\E w \in Workers : TakeObsolete(w))
    BY <1>2, <1>3
       DEF Edits, Mark, LookAtLease, Ask, AskAgain, Sweep, SweepPasses, Handoff, Timers, EmbargoEnds, WakeExpires,
           LeaseLapses, Promotes, Promote, GateRises, GateFalls, vars, Resend, TakeObsolete
  <1>4. ASSUME NEW c \in Callers,
               SendNow(c) \/ SendLater(c) \/ SendFails(c) \/ ClearWait(c) \/ (\E fails \in BOOLEAN : RecordWakeup(c, fails))
        PROVE  BuiltCovers'
    <2>1. UNCHANGED built /\ (worker' = worker \/ Reply(c))
      BY <1>4 DEF SendNow, SendLater, SendFails, RecordWakeup, ClearWait
    <2>. QED
      BY <1>1, <1>2, <2>1, ReplyMoves, IdleRests
  <1>5. ASSUME NEW c \in Callers, Crash(c) PROVE BuiltCovers'
    <2>1. UNCHANGED built /\ Others(c) /\ (c \in Workers => worker'[c] = Idle)
      BY <1>5 DEF Crash, Others, TypeOK
    <2>. QED
      BY <1>1, <2>1, IdleRests
  <1>6. ASSUME NEW w \in Workers, TakeClaim(w) \/ TakeEarly(w) \/ InlineClaim(w) PROVE BuiltCovers'
    <2>1. UNCHANGED built /\ Others(w) /\ (worker'[w].pc \in {"building", "refused"} \/ worker' = worker)
      <3>1. \A message : Claim(w, message) => Others(w) /\ worker'[w].pc = "building"
        BY DEF Claim, Others, TypeOK
      <3>2. TakeEarly(w) => Others(w) /\ worker'[w].pc = "refused"
        BY DEF TakeEarly, Others, TypeOK, Idle
      <3>3. worker' = worker => Others(w)
        BY DEF Others
      <3>. QED
        BY <1>6, <3>1, <3>2, <3>3 DEF TakeClaim, TakeEarly, InlineClaim
    <2>. QED
      BY <1>1, <1>2, <2>1
  <1>7. ASSUME NEW w \in Workers,
               BuildBusy(w) \/ InlineDeclines(w) \/ BuildFails(w) \/ GiveUp(w) \/ (\E fails \in BOOLEAN : Finish(w, fails))
               \/ FinishNewer(w) \/ FinishLost(w) \/ ReadGate(w) \/ Park(w) \/ Yield(w) \/ NotifyAgain(w) \/ Recheck(w)
        PROVE  BuiltCovers'
    <2>1. UNCHANGED built
          /\ ((\E ack : Done(w, ack)) \/ \E step \in WorkSteps \ {"built"} : Goto(w, step))
      <3>1. {"busy", "renotify", "park", "yield", "recheck", "barrier", "calling"} \subseteq WorkSteps \ {"built"}
        BY StepNames
      <3>. QED
        BY <1>7, <3>1
           DEF BuildBusy, InlineDeclines, BuildFails, GiveUp, Finish, FinishNewer, FinishLost, ReadGate, Park, Yield,
               NotifyAgain, Recheck
    <2>. QED
      BY <1>1, <2>1, DoneMoves, GotoMoves, IdleRests
  <1>8. ASSUME NEW w \in Workers, BuildOk(w) PROVE BuiltCovers'
    <2>1. built' >= built /\ built' >= worker[w].sees /\ built' \in Nat
      BY <1>8, LargerOfTwo DEF BuildOk
    <2>2. Others(w) /\ worker'[w].sees = worker[w].sees
      BY <1>8, GotoMoves DEF BuildOk
    <2>. QED
      BY <2>1, <2>2 DEF Others
  <1>. QED
    BY <1>3, <1>4, <1>5, <1>6, <1>7, <1>8 DEF Next, CallStep, Take, Work

LEMMA EditMoves ==
    ASSUME [Next]_vars
    PROVE  \/ UNCHANGED <<edit, marked>> \/ Mark("request") \/ Mark("metadata") \/ LookAtLease
           \/ \E delay \in Delays : Ask(delay)
  <1>1. CASE AskAgain \/ Sweep \/ SweepPasses \/ Handoff \/ Timers \/ LeaseLapses \/ Promotes
             \/ (\E m \in deferred : Promote(m, TRUE)) \/ GateRises("reserved") \/ GateRises("wave") \/ GateFalls
             \/ UNCHANGED vars
    BY <1>1
       DEF AskAgain, Sweep, SweepPasses, Handoff, Timers, EmbargoEnds, WakeExpires,
           LeaseLapses, Promotes, Promote, GateRises, GateFalls, vars
  <1>2. ASSUME NEW c \in Callers, CallStep(c) \/ SendFails(c) \/ Crash(c) PROVE UNCHANGED <<edit, marked>>
    BY <1>2 DEF CallStep, SendNow, SendLater, Resend, ClearWait, RecordWakeup, SendFails, Crash
  <1>3. ASSUME NEW w \in Workers, Take(w) \/ InlineClaim(w) \/ Work(w) \/ BuildBusy(w) PROVE UNCHANGED <<edit, marked>>
    BY <1>3
       DEF Take, TakeClaim, TakeObsolete, TakeEarly, InlineClaim, Work, BuildOk, BuildFails, InlineDeclines, GiveUp,
           BuildBusy, Finish, FinishNewer, FinishLost, ReadGate, Park, Recheck, Yield, NotifyAgain
  <1>. QED
    BY <1>1, <1>2, <1>3 DEF Next, Edits

LEMMA LiveBefore ==
    ASSUME TypeOK, RowSound, RevisionsKnown, Moves, NEW v \in Workers, Live(v)'
    PROVE  (Live(v) /\ worker'[v].sees = worker[v].sees) \/ worker'[v].sees = marked
  <1>1. CASE Keeps
    BY <1>1, KeptLives
  <1>2. CASE Advances \/ Lapses
    BY <1>2, NobodyLives
  <1>3. ASSUME NEW w \in Workers, Claims(w) PROVE worker'[v].sees = marked
    BY <1>3, ClaimLives
  <1>4. ASSUME NEW w \in Workers, Leaves(w) PROVE Live(v) /\ worker'[v].sees = worker[v].sees
    BY <1>4, LeaverLives
  <1>5. ASSUME NEW w \in Workers, Puts(w) PROVE FALSE
    BY <1>5, PutterLives
  <1>. QED
    BY <1>1, <1>2, <1>3, <1>4, <1>5 DEF Moves

LEMMA SeenStep ==
    ASSUME TypeOK, RowSound, RevisionsKnown, EditSound, Seen, Moves, [Next]_vars
    PROVE  EditSound' /\ Seen'
  <1>. marked \in Nat /\ \A w \in Workers : worker[w].sees \in Nat
    BY DEF TypeOK, Works
  <1>1. CASE UNCHANGED <<edit, marked>>
    <2>1. EditSound'
      BY <1>1 DEF EditSound
    <2>2. Asked' = Asked /\ Asked <= marked
      BY <1>1 DEF Asked
    <2>3. ASSUME NEW v \in Workers, Live(v)'
          PROVE  worker'[v].sees >= Asked /\ (edit.pc = "request" /\ ~edit.advance => worker'[v].sees >= marked)
      <3>1. CASE Live(v) /\ worker'[v].sees = worker[v].sees
        BY <3>1 DEF Seen
      <3>2. CASE worker'[v].sees = marked
        BY <2>2, <3>2
      <3>. QED
        BY <2>3, <3>1, <3>2, LiveBefore
    <2>. QED
      BY <1>1, <2>1, <2>2, <2>3 DEF Seen
  <1>2. ASSUME NEW kind \in {"request", "metadata"}, Mark(kind) PROVE EditSound' /\ Seen'
    <2>1. UNCHANGED <<row, worker>> /\ marked' = marked + 1 /\ edit.pc = "idle" /\ edit'.pc = kind /\ edit'.advance
      BY <1>2 DEF Mark
    <2>2. Asked = marked /\ Asked' = marked
      BY <2>1 DEF Asked
    <2>3. \A v \in Workers : Live(v)' => Live(v)
      BY <2>1 DEF Live, Holds, Owns, Working
    <2>. QED
      BY <2>1, <2>2, <2>3 DEF Seen, EditSound
  <1>3. CASE LookAtLease
    <2>1. UNCHANGED <<row, worker, marked>> /\ edit.pc = "metadata" /\ edit'.pc = "request" /\ edit'.advance = row.lease
      BY <1>3 DEF LookAtLease, TypeOK
    <2>2. Asked' = Asked
      BY <2>1 DEF Asked
    <2>3. \A v \in Workers : Live(v)' => Live(v) /\ row.lease
      BY <2>1 DEF Live, Holds, Owns, Working
    <2>. QED
      BY <2>1, <2>2, <2>3 DEF Seen, EditSound
  <1>4. ASSUME NEW delay \in Delays, Ask(delay) PROVE EditSound' /\ Seen'
    <2>1. UNCHANGED <<worker, marked>> /\ edit.pc = "request" /\ edit'.pc = "idle"
      BY <1>4 DEF Ask
    <2>2. Asked' = marked
      BY <2>1 DEF Asked
    <2>3. CASE UNCHANGED row /\ ~edit.advance
      <3>1. \A v \in Workers : Live(v)' => Live(v)
        BY <2>1, <2>3 DEF Live, Holds, Owns, Working
      <3>. QED
        BY <2>1, <2>2, <2>3, <3>1 DEF Seen, EditSound
    <2>4. CASE Advance(delay)
      <3>1. Advances
        BY <2>1, <2>4, IntentAssumption DEF Advances
      <3>. QED
        BY <2>1, <3>1, NobodyLives DEF Seen, EditSound
    <2>. QED
      BY <1>4, <2>3, <2>4 DEF Ask, Request
  <1>. QED
    BY <1>1, <1>2, <1>3, <1>4, EditMoves

-----------------------------------------------------------------------------
(* The inductive invariant.                                                   *)
IntentInv ==
    /\ TypeInv /\ RowSound /\ CallsMatch /\ RevisionsKnown /\ BuiltCovers
    /\ Counted /\ FailedOnlyByMishaps /\ EditSound /\ Seen

LEMMA IntentStart == Init => IntentInv
  <1>. SUFFICES ASSUME Init PROVE IntentInv
    OBVIOUS
  <1>1. TypeInv
    BY TypeInit
  <1>2. row = NoRow /\ rev = 0 /\ mishaps = 0 /\ edit.pc = "idle" /\ marked = 0 /\ built = 0
        /\ (\A w \in Workers : worker[w] = Idle /\ call[w].pc = "idle")
    BY DEF Init, NoCall, Callers
  <1>3. \A w \in Workers : ~Working(w) /\ ~Live(w)
    BY <1>2, IdleRests DEF Working, Live
  <1>4. RowSound
    BY <1>2 DEF RowSound, NoRow
  <1>5. CallsMatch /\ RevisionsKnown
    BY <1>2, <1>3 DEF CallsMatch, RevisionsKnown
  <1>6. BuiltCovers
    BY <1>2, IdleRests DEF BuiltCovers
  <1>7. Counted /\ FailedOnlyByMishaps
    BY <1>2, <1>3 DEF Counted, FailedOnlyByMishaps, NoRow
  <1>8. EditSound /\ Seen
    BY <1>2, <1>3 DEF EditSound, Seen
  <1>. QED
    BY <1>1, <1>4, <1>5, <1>6, <1>7, <1>8 DEF IntentInv

LEMMA IntentStep == IntentInv /\ [Next]_vars => IntentInv'
  <1>. SUFFICES ASSUME IntentInv, [Next]_vars PROVE IntentInv'
    OBVIOUS
  <1>. TypeInv /\ TypeOK /\ RowSound /\ CallsMatch /\ RevisionsKnown /\ BuiltCovers
       /\ Counted /\ FailedOnlyByMishaps /\ EditSound /\ Seen
    BY DEF IntentInv, TypeInv
  <1>1. TypeInv' /\ TypeOK'
    BY TypeStep DEF TypeInv
  <1>2. Moves
    BY StepsMove
  <1>3. RowSound'
    BY <1>1, <1>2, RowStep
  <1>4. CallsMatch' /\ RevisionsKnown' /\ BuiltCovers'
    BY <1>2, CallsStep, RevisionsStep, BuiltStep
  <1>5. Counted' /\ FailedOnlyByMishaps'
    BY <1>2, CountedStep
  <1>6. EditSound' /\ Seen'
    BY <1>2, SeenStep
  <1>. QED
    BY <1>1, <1>3, <1>4, <1>5, <1>6 DEF IntentInv

(* The invariant the proofs rest on: one worker at most is alive on the row's
   revision, it has seen what was asked for, and every attempt is accounted for. *)
THEOREM IntentInvariant == Spec => []IntentInv
  BY IntentStart, IntentStep, PTL DEF Spec

(* Every reachable state of an intent is well typed.                          *)
THEOREM IntentTypes == Spec => []TypeOK
  <1>1. IntentInv => TypeOK
    BY DEF IntentInv, TypeInv
  <1>. QED
    BY <1>1, IntentInvariant, PTL

(* An intent is given up only after its budget of mishaps was spent.          *)
THEOREM WaitingCostsNothing == Spec => []FailedOnlyByMishaps
  <1>1. IntentInv => FailedOnlyByMishaps
    BY DEF IntentInv
  <1>. QED
    BY <1>1, IntentInvariant, PTL

-----------------------------------------------------------------------------
(* What the updates of the row keep of its receipt and of its delay.          *)
SameReceipt == row'.rev = row.rev /\ row'.receipt = row.receipt
SameDelay == row'.notBefore = row.notBefore

LEMMA PlainUpdates ==
    ASSUME TypeOK
    PROVE  /\ \A f, x : row' = [row EXCEPT !.wake = f, !.reservation = x] => SameReceipt /\ SameDelay
           /\ \A f : row' = [row EXCEPT !.wake = f] => SameReceipt /\ SameDelay
           /\ \A f : row' = [row EXCEPT !.lease = f] => SameReceipt /\ SameDelay
           /\ \A t : row' = [row EXCEPT !.notBefore = t] => SameReceipt
           /\ \A t, f : row' = [row EXCEPT !.notBefore = t, !.wake = f] => SameReceipt
           /\ \A s, n, f : row' = [row EXCEPT !.reason = s, !.schedule = n, !.wake = f] => SameReceipt /\ SameDelay
           /\ \A w : row' = ClaimedBy(w) => SameReceipt /\ SameDelay
           /\ row' = Released => SameReceipt /\ SameDelay
           /\ row' = Unclaimed => SameReceipt /\ SameDelay
           /\ row' = [Unclaimed EXCEPT !.failed = TRUE] => SameReceipt /\ SameDelay
           /\ row' = row => SameReceipt /\ SameDelay
  <1>. row \in Rows
    BY DEF TypeOK
  <1>1. \A f, x : row' = [row EXCEPT !.wake = f, !.reservation = x] => SameReceipt /\ SameDelay
    BY DEF SameReceipt, SameDelay, Rows
  <1>2. \A f : row' = [row EXCEPT !.wake = f] => SameReceipt /\ SameDelay
    BY DEF SameReceipt, SameDelay, Rows
  <1>3. \A f : row' = [row EXCEPT !.lease = f] => SameReceipt /\ SameDelay
    BY DEF SameReceipt, SameDelay, Rows
  <1>4. \A t : row' = [row EXCEPT !.notBefore = t] => SameReceipt
    BY DEF SameReceipt, Rows
  <1>5. \A t, f : row' = [row EXCEPT !.notBefore = t, !.wake = f] => SameReceipt
    BY DEF SameReceipt, Rows
  <1>6. \A s, n, f : row' = [row EXCEPT !.reason = s, !.schedule = n, !.wake = f] => SameReceipt /\ SameDelay
    BY DEF SameReceipt, SameDelay, Rows
  <1>7. \A w : row' = ClaimedBy(w) => SameReceipt /\ SameDelay
    BY DEF SameReceipt, SameDelay, Rows, ClaimedBy
  <1>8. row' = Released => SameReceipt /\ SameDelay
    BY DEF SameReceipt, SameDelay, Rows, Released
  <1>9. row' = Unclaimed => SameReceipt /\ SameDelay
    BY DEF SameReceipt, SameDelay, Rows, Unclaimed
  <1>10. row' = [Unclaimed EXCEPT !.failed = TRUE] => SameReceipt /\ SameDelay
    BY DEF SameReceipt, SameDelay, Rows, Unclaimed
  <1>11. row' = row => SameReceipt /\ SameDelay
    BY DEF SameReceipt, SameDelay
  <1>. QED
    BY <1>1, <1>2, <1>3, <1>4, <1>5, <1>6, <1>7, <1>8, <1>9, <1>10, <1>11

LEMMA RefundUpdates ==
    ASSUME TypeOK, IsFiniteSet(deferred), NEW r
    PROVE  /\ row' = Refunded(Released, r) => SameReceipt /\ SameDelay
           /\ \A reason \in {"barrier_wait", "wave_wait"} : row' = Deferred(r, reason) => SameReceipt
  <1>. row \in Rows /\ Released \in Rows
    BY ReleasedTypes DEF TypeOK
  <1>1. Released.rev = row.rev /\ Released.receipt = row.receipt /\ Released.notBefore = row.notBefore
    BY DEF Released, Rows
  <1>2. ASSUME NEW q \in Rows, NEW s, s = Refunded(q, r)
        PROVE  s.rev = q.rev /\ s.receipt = q.receipt /\ s.notBefore = q.notBefore
    <2>1. s = q \/ s = [q EXCEPT !.attempts = @ - 1]
      BY <1>2 DEF Refunded
    <2>. QED
      BY <2>1 DEF Rows
  <1>3. ASSUME NEW reason \in {"barrier_wait", "wave_wait"}, row' = Deferred(r, reason) PROVE SameReceipt
    <2>. DEFINE n == Fresh(Schedules \ {0})
                t == IF reason = "barrier_wait" THEN "later" ELSE "zero"
                q == [Released EXCEPT !.wake = FALSE, !.reason = reason, !.notBefore = t, !.schedule = n]
    <2>1. n \in Nat /\ t \in Times /\ reason \in Reasons
      BY FreshTypes DEF Times, Reasons
    <2>2. q \in Rows /\ q.rev = Released.rev /\ q.receipt = Released.receipt
      <3>. HIDE DEF n, t
      <3>1. q \in Rows
        BY <2>1, RowValues
      <3>2. q.rev = Released.rev /\ q.receipt = Released.receipt
        BY DEF Rows
      <3>. QED
        BY <3>1, <3>2
    <2>3. row' = Refunded(q, r)
      BY <1>3 DEF Deferred
    <2>. HIDE DEF q
    <2>. QED
      BY <1>1, <1>2, <2>2, <2>3 DEF SameReceipt
  <1>. QED
    BY <1>1, <1>2, <1>3 DEF SameReceipt, SameDelay

LEMMA RequestUpdates ==
    ASSUME TypeOK, NEW delay, Advance(delay)
    PROVE  /\ row'.rev # 0 /\ row'.receipt = row.receipt
           /\ Exists /\ ~row.failed /\ row.reason = "barrier_wait" /\ row.notBefore = "later"
              => row'.notBefore = "later"
  <1>. DEFINE next == [row EXCEPT !.rev = rev + 1, !.failed = FALSE, !.notBefore = NotBefore(delay)]
  <1>1. next.rev = rev + 1 /\ next.receipt = row.receipt /\ next.notBefore = NotBefore(delay)
    BY DEF TypeOK, Rows
  <1>2. row'.receipt = row.receipt /\ row'.notBefore = NotBefore(delay) /\ row'.rev = rev + 1
    <2>1. CASE row.failed
      BY <2>1 DEF Advance, Requested, TypeOK, Rows
    <2>2. CASE ~row.failed
      <3>1. row' = next
        BY <2>2 DEF Advance, Requested
      <3>. HIDE DEF next
      <3>. QED
        BY <1>1, <3>1
    <2>. QED
      BY <2>1, <2>2
  <1>3. rev + 1 # 0
    BY DEF TypeOK
  <1>4. Exists /\ ~row.failed /\ row.reason = "barrier_wait" /\ row.notBefore = "later" => NotBefore(delay) = "later"
    BY DEF NotBefore
  <1>. QED
    BY <1>2, <1>3, <1>4

(* The receipt leaves the row only with the row or for a later one.           *)
LEMMA ReceiptKept ==
    ASSUME TypeOK, IsFiniteSet(deferred), [Next]_vars, row' # row
    PROVE  \/ row'.rev # 0 /\ row'.receipt = row.receipt
           \/ SameReceipt
           \/ (\E c \in Callers, fails \in BOOLEAN : RecordWakeup(c, fails))
           \/ (\E w \in Workers, fails \in BOOLEAN : Finish(w, fails))
  <1>1. CASE \/ Mark("request") \/ Mark("metadata") \/ LookAtLease \/ Sweep \/ SweepPasses \/ Handoff
             \/ EmbargoEnds \/ WakeExpires \/ LeaseLapses \/ Promotes \/ (\E m \in deferred : Promote(m, TRUE))
             \/ GateRises("reserved") \/ GateRises("wave") \/ GateFalls \/ UNCHANGED vars
    BY <1>1, PlainUpdates
       DEF Mark, LookAtLease, Sweep, SweepPasses, Handoff, EmbargoEnds, WakeExpires, LeaseLapses, Promotes, Promote,
           GateRises, GateFalls, vars, Reserve, Prepare
  <1>2. ASSUME AskAgain \/ (\E delay \in Delays : Ask(delay)) PROVE row'.rev # 0 /\ row'.receipt = row.receipt
    BY <1>2, RequestUpdates DEF AskAgain, Ask, Request
  <1>3. ASSUME NEW c \in Callers, CallStep(c) \/ SendFails(c) \/ Crash(c)
        PROVE  SameReceipt \/ \E fails \in BOOLEAN : RecordWakeup(c, fails)
    <2>1. ASSUME ClearWait(c) PROVE SameReceipt
      <3>1. row' = row \/ row' = [row EXCEPT !.reason = "none", !.schedule = 0, !.wake = TRUE]
        BY <2>1 DEF ClearWait
      <3>. QED
        BY <3>1, PlainUpdates
    <2>. QED
      BY <1>3, <2>1, PlainUpdates DEF CallStep, SendNow, SendLater, Resend, SendFails, Crash
  <1>4. ASSUME NEW w \in Workers, Take(w) \/ InlineClaim(w) \/ NotifyAgain(w) \/ Recheck(w) PROVE SameReceipt
    BY <1>4, PlainUpdates
       DEF Take, TakeClaim, TakeObsolete, TakeEarly, InlineClaim, Claim, NotifyAgain, Recheck, Reserve, Prepare
  <1>5. ASSUME NEW w \in Workers,
               BuildOk(w) \/ BuildFails(w) \/ GiveUp(w) \/ BuildBusy(w) \/ FinishNewer(w) \/ FinishLost(w) \/ ReadGate(w)
        PROVE SameReceipt
    BY <1>5, PlainUpdates
      DEF BuildOk, BuildFails, GiveUp, BuildBusy, FinishNewer, FinishLost, ReadGate
  <1>6. ASSUME NEW w \in Workers, InlineDeclines(w) \/ Park(w) \/ Yield(w) PROVE SameReceipt
    BY <1>6, RefundUpdates, PlainUpdates DEF InlineDeclines, Park, Yield
  <1>. QED
    BY <1>1, <1>2, <1>3, <1>4, <1>5, <1>6 DEF Next, Edits, Timers, Work

(* Every message that nobody lost track of is the row's receipt or about to be. *)
Recording(c, m) == call[c].pc = "record" /\ call[c].sent = m.id
Tracked(m) == (Exists /\ row.receipt = m.id) \/ \E c \in Callers : Recording(c, m)

(* What a cancellation leaves in the queue, with its handle, is another message. *)
LEMMA Untouched ==
    ASSUME TypeOK, NEW id, NEW m, ~m.stray,
           \/ m \in {[n EXCEPT !.stray = @ \/ n.id = id] : n \in deferred}
           \/ \E fails \in BOOLEAN : m \in Cancelled(id, fails)
    PROVE  m \in deferred /\ m.id # id
  <1>1. CASE m \in {[n EXCEPT !.stray = @ \/ n.id = id] : n \in deferred}
    <2>1. PICK n \in deferred : m = [n EXCEPT !.stray = @ \/ n.id = id]
      BY <1>1
    <2>2. n \in Messages
      BY DEF TypeOK
    <2>3. m.stray = (n.stray \/ n.id = id) /\ m.id = n.id
      BY <2>1, <2>2 DEF Messages
    <2>4. n.stray = FALSE /\ n.id # id
      BY <2>2, <2>3 DEF Messages
    <2>5. m = n
      BY <2>1, <2>2, <2>4 DEF Messages
    <2>. QED
      BY <2>4, <2>5
  <1>. QED
    BY <1>1 DEF Cancelled

LEMMA TrackedStep ==
    ASSUME TypeOK, IsFiniteSet(deferred), CallsMatch, DelayedWakesTracked, [Next]_vars
    PROVE  DelayedWakesTracked'
  <1>. Workers \subseteq Callers /\ Sweeper \in Callers
    BY DEF Callers
  <1>a. ASSUME NEW m \in deferred, ~m.stray PROVE Tracked(m)
    BY <1>a DEF DelayedWakesTracked, Tracked, Recording
  <1>. SUFFICES ASSUME NEW m \in deferred', ~m.stray
                PROVE  \/ row'.rev # 0 /\ row'.receipt = m.id
                       \/ \E c \in Callers : call'[c].pc = "record" /\ call'[c].sent = m.id
    BY DEF DelayedWakesTracked, Exists
  <1>. DEFINE Row == row'.rev # 0 /\ row'.receipt = m.id
              Call == \E c \in Callers : call'[c].pc = "record" /\ call'[c].sent = m.id
  (* A call that is not recording anything changes, and the receipt is kept.  *)
  <1>1. ASSUME m \in deferred,
               row' = row \/ (row'.rev # 0 /\ row'.receipt = row.receipt) \/ SameReceipt,
               NEW c, c \in Callers => call[c].pc # "record", \A d \in Callers \ {c} : call'[d] = call[d]
        PROVE  Row \/ Call
    <2>1. CASE Exists /\ row.receipt = m.id
      BY <1>1, <2>1 DEF Exists, SameReceipt
    <2>2. ASSUME NEW d \in Callers, Recording(d, m) PROVE Call
      <3>1. d # c
        BY <1>1, <2>2 DEF Recording
      <3>. QED
        BY <1>1, <2>2, <3>1 DEF Recording
    <2>. QED
      BY <1>1, <1>a, <2>1, <2>2 DEF Tracked
  <1>2. CASE row' = row /\ call' = call /\ deferred' = deferred
    BY <1>2, <1>a DEF Tracked, Recording, Exists
  <1>3. ASSUME NEW c \in Callers, NEW fails \in BOOLEAN, RecordWakeup(c, fails) PROVE Row \/ Call
    <2>1. call[c].pc = "record" /\ \A d \in Callers \ {c} : call'[d] = call[d]
      BY <1>3, ReplyMoves DEF RecordWakeup
    <2>2. CASE Exists /\ ~Superseded(c)
      <3>1. row'.rev # 0 /\ row'.receipt = call[c].sent
        BY <1>3, <2>2 DEF RecordWakeup, Exists, TypeOK, Rows
      <3>2. deferred' = Cancelled(row.receipt, fails)
        BY <1>3, <2>2 DEF RecordWakeup
      <3>3. m \in deferred /\ m.id # row.receipt
        BY <3>2, Untouched
      <3>4. \E d \in Callers : Recording(d, m)
        BY <1>a, <3>3 DEF Tracked
      <3>5. PICK d \in Callers : Recording(d, m)
        BY <3>4
      <3>6. CASE d = c
        BY <3>1, <3>5, <3>6 DEF Recording
      <3>7. CASE d # c
        BY <2>1, <3>5, <3>7 DEF Recording
      <3>. QED
        BY <3>6, <3>7
    <2>3. CASE ~(Exists /\ ~Superseded(c))
      <3>1. row' = row
        BY <1>3, <2>3 DEF RecordWakeup
      <3>2. deferred' = Cancelled(call[c].sent, fails)
        BY <1>3, <2>3 DEF RecordWakeup
      <3>3. m \in deferred /\ m.id # call[c].sent
        BY <3>2, Untouched
      <3>4. CASE Exists /\ row.receipt = m.id
        BY <3>1, <3>4 DEF Exists
      <3>5. ASSUME NEW d \in Callers, Recording(d, m) PROVE Call
        <4>1. d # c
          BY <3>3, <3>5 DEF Recording
        <4>. QED
          BY <2>1, <3>5, <4>1 DEF Recording
      <3>. QED
        BY <1>a, <3>3, <3>4, <3>5 DEF Tracked
    <2>. QED
      BY <2>2, <2>3
  <1>4. ASSUME NEW w \in Workers, NEW fails \in BOOLEAN, Finish(w, fails) PROVE Row \/ Call
    <2>1. m \in deferred /\ m.id # row.receipt
      BY <1>4, Untouched DEF Finish
    <2>2. \E c \in Callers : Recording(c, m)
      BY <1>a, <2>1 DEF Tracked
    <2>. QED
      BY <1>4, <2>2 DEF Finish, Recording
  <1>5. ASSUME row' = row \/ (row'.rev # 0 /\ row'.receipt = row.receipt) \/ SameReceipt
        PROVE  Row \/ Call
    <2>1. CASE \/ Mark("request") \/ Mark("metadata") \/ LookAtLease \/ (\E delay \in Delays : Ask(delay)) \/ AskAgain
               \/ SweepPasses \/ EmbargoEnds \/ WakeExpires \/ LeaseLapses
               \/ GateRises("reserved") \/ GateRises("wave") \/ GateFalls \/ UNCHANGED vars
               \/ (\E n \in deferred, keeps \in BOOLEAN : Promote(n, keeps))
      <3>1. call' = call /\ (deferred' = deferred \/ \E n \in deferred, keeps \in BOOLEAN : Promote(n, keeps))
        BY <2>1
           DEF Mark, LookAtLease, Ask, AskAgain, SweepPasses, EmbargoEnds, WakeExpires, LeaseLapses, GateRises,
               GateFalls, vars, Promote
      <3>2. m \in deferred
        <4>1. ASSUME NEW n \in deferred, NEW keeps \in BOOLEAN, Promote(n, keeps) PROVE m \in deferred
          <5>1. [n EXCEPT !.stray = TRUE].stray
            BY DEF TypeOK, Messages
          <5>. QED
            BY <4>1, <5>1 DEF Promote
        <4>. QED
          BY <3>1, <4>1
      <3>. QED
        BY <1>1, <1>5, <3>1, <3>2, IntentAssumption DEF Callers
    <2>2. CASE Sweep \/ Handoff
      <3>1. deferred' = deferred /\ call[Sweeper].pc = "idle" /\ \A d \in Callers \ {Sweeper} : call'[d] = call[d]
        BY <2>2 DEF Sweep, Handoff, Reserve, Prepare, TypeOK
      <3>. QED
        BY <1>1, <1>5, <3>1
    <2>3. ASSUME NEW c \in Callers, SendNow(c) \/ SendFails(c) \/ Resend(c) \/ ClearWait(c) PROVE Row \/ Call
      <3>1. call[c].pc # "record" /\ \A d \in Callers \ {c} : call'[d] = call[d]
        BY <2>3, ReplyMoves DEF SendNow, SendFails, Resend, ClearWait, TypeOK
      <3>2. m \in deferred
        <4>1. Message(TRUE).stray
          BY DEF Message
        <4>2. deferred' = deferred \/ deferred' = deferred \cup {Message(TRUE)}
          BY <2>3 DEF SendNow, SendFails, Resend, ClearWait
        <4>. QED
          BY <4>1, <4>2
      <3>. QED
        BY <1>1, <1>5, <3>1, <3>2
    <2>4. ASSUME NEW c \in Callers, SendLater(c) PROVE Row \/ Call
      <3>1. call[c].pc # "record" /\ deferred' = deferred \cup {Message(~Handles)}
        BY <2>4 DEF SendLater
      <3>2. \A d \in Callers \ {c} : call'[d] = call[d]
        BY <2>4, ReplyMoves DEF SendLater, TypeOK
      <3>3. CASE m \in deferred
        BY <1>1, <1>5, <3>1, <3>2, <3>3
      <3>4. CASE m = Message(~Handles)
        <4>1. Handles
          BY <3>4 DEF Message
        <4>2. call'[c].pc = "record" /\ call'[c].sent = m.id
          BY <2>4, <3>4, <4>1 DEF SendLater, TypeOK, Calls
        <4>. QED
          BY <4>2
      <3>. QED
        BY <3>1, <3>3, <3>4
    <2>5. ASSUME NEW c \in Callers, Crash(c) PROVE Row \/ Call
      <3>1. row' = row /\ \A d \in Callers \ {c} : call'[d] = call[d]
        BY <2>5 DEF Crash, TypeOK
      <3>2. m \in deferred /\ m.id # call[c].sent
        BY <2>5, Untouched DEF Crash
      <3>3. ASSUME NEW d \in Callers, Recording(d, m) PROVE Call
        BY <3>1, <3>2, <3>3 DEF Recording
      <3>. QED
        BY <1>a, <3>1, <3>2, <3>3 DEF Tracked, Exists
    <2>6. ASSUME NEW w \in Workers, NotifyAgain(w) \/ Recheck(w) PROVE Row \/ Call
      <3>1. call[w].pc = "idle" /\ deferred' = deferred
        BY <2>6 DEF NotifyAgain, Recheck, CallsMatch
      <3>2. \A d \in Callers \ {w} : call'[d] = call[d]
        BY <2>6 DEF NotifyAgain, Recheck, Reserve, Prepare, TypeOK
      <3>. QED
        BY <1>1, <1>5, <3>1, <3>2
    <2>7. ASSUME NEW w \in Workers,
                 \/ Take(w) \/ InlineClaim(w) \/ BuildBusy(w) \/ BuildOk(w) \/ BuildFails(w) \/ InlineDeclines(w)
                 \/ GiveUp(w) \/ FinishNewer(w) \/ FinishLost(w) \/ ReadGate(w) \/ Park(w) \/ Yield(w)
          PROVE Row \/ Call
      <3>1. call' = call /\ deferred' = deferred
        BY <2>7
           DEF Take, TakeClaim, TakeObsolete, TakeEarly, InlineClaim, BuildBusy, BuildOk, BuildFails, InlineDeclines,
               GiveUp, FinishNewer, FinishLost, ReadGate, Park, Yield
      <3>. QED
        BY <1>1, <1>5, <3>1, IntentAssumption DEF Callers
    <2>. QED
      BY <1>3, <1>4, <2>1, <2>2, <2>3, <2>4, <2>5, <2>6, <2>7
        DEF Next, Edits, Timers, Promotes, CallStep, Work
  <1>. QED
    BY <1>3, <1>4, <1>5, ReceiptKept

(* No delayed delivery is left in the queue without a record of it.           *)
THEOREM WakesAreTracked == Spec => []DelayedWakesTracked
  <1>1. Init => DelayedWakesTracked
    BY DEF Init, DelayedWakesTracked
  <1>2. IntentInv /\ DelayedWakesTracked /\ [Next]_vars => DelayedWakesTracked'
    BY TrackedStep DEF IntentInv, TypeInv
  <1>. QED
    BY <1>1, <1>2, IntentInvariant, PTL DEF Spec

-----------------------------------------------------------------------------
(* A step that shortens the delay of a barrier is its end, or no such step.   *)
LEMMA EmbargoStep ==
    ASSUME IntentInv, [Next]_vars, row.owner = Nobody, row.reason = "barrier_wait",
           row.notBefore = "later", ~row.failed
    PROVE  row' = NoRow \/ row'.notBefore = "later" \/ EmbargoEnds
  <1>. TypeOK /\ IsFiniteSet(deferred) /\ RowSound
    BY DEF IntentInv, TypeInv
  <1>1. Exists
    BY DEF RowSound, Exists, NoRow
  <1>2. \A w \in Workers : ~Owns(w)
    BY IntentAssumption DEF Owns
  <1>3. SameDelay => row'.notBefore = "later"
    BY DEF SameDelay
  <1>4. ~Claimable /\ ~Resumable
    BY DEF Claimable, Resumable
  <1>5. CASE \/ Mark("request") \/ Mark("metadata") \/ LookAtLease \/ Sweep \/ SweepPasses \/ Handoff
             \/ EmbargoEnds \/ WakeExpires \/ LeaseLapses \/ Promotes \/ (\E m \in deferred : Promote(m, TRUE))
             \/ GateRises("reserved") \/ GateRises("wave") \/ GateFalls \/ UNCHANGED vars
    <2>1. ASSUME Sweep \/ SweepPasses \/ Handoff \/ WakeExpires \/ LeaseLapses PROVE SameDelay
      <3>1. (\E c, head : Reserve(c, head)) => SameDelay
        BY PlainUpdates DEF Reserve
      <3>2. SweepPasses \/ WakeExpires \/ LeaseLapses => SameDelay
        BY PlainUpdates DEF SweepPasses, WakeExpires, LeaseLapses
      <3>. QED
        BY <1>4, <2>1, <3>1, <3>2 DEF Sweep, Handoff
    <2>2. ASSUME \/ Mark("request") \/ Mark("metadata") \/ LookAtLease \/ Promotes \/ (\E m \in deferred : Promote(m, TRUE))
                 \/ GateRises("reserved") \/ GateRises("wave") \/ GateFalls \/ UNCHANGED vars
          PROVE  SameDelay
      BY <2>2 DEF Mark, LookAtLease, Promotes, Promote, GateRises, GateFalls, vars, SameDelay
    <2>. QED
      BY <1>3, <1>5, <2>1, <2>2
  <1>6. ASSUME AskAgain \/ (\E delay \in Delays : Ask(delay)) PROVE row'.notBefore = "later"
    BY <1>1, <1>6, RequestUpdates DEF AskAgain, Ask, Request
  <1>7. ASSUME NEW c \in Callers, CallStep(c) \/ SendFails(c) \/ Crash(c) PROVE SameDelay
    <2>1. ASSUME ClearWait(c) PROVE SameDelay
      <3>1. row' = row \/ row' = [row EXCEPT !.reason = "none", !.schedule = 0, !.wake = TRUE]
        BY <2>1 DEF ClearWait
      <3>. QED
        BY <3>1 DEF SameDelay, TypeOK, Rows
    <2>2. ASSUME NEW fails \in BOOLEAN, RecordWakeup(c, fails) PROVE SameDelay
      <3>1. \/ row' = row
            \/ row' = [row EXCEPT !.receipt = call[c].sent, !.reservation = IF @ = c THEN Nobody ELSE @]
        BY <2>2 DEF RecordWakeup
      <3>. QED
        BY <3>1 DEF SameDelay, TypeOK, Rows
    <2>. QED
      BY <1>7, <2>1, <2>2, PlainUpdates DEF CallStep, SendNow, SendLater, Resend, SendFails, Crash
  <1>8. ASSUME NEW w \in Workers, Take(w) \/ InlineClaim(w) \/ NotifyAgain(w) \/ Recheck(w) PROVE SameDelay
    BY <1>4, <1>8, PlainUpdates
       DEF Take, TakeClaim, TakeObsolete, TakeEarly, InlineClaim, NotifyAgain, Recheck, Reserve
  <1>9. ASSUME NEW w \in Workers,
               \/ BuildOk(w) \/ BuildFails(w) \/ GiveUp(w) \/ BuildBusy(w) \/ FinishNewer(w) \/ FinishLost(w)
               \/ ReadGate(w) \/ InlineDeclines(w) \/ Park(w) \/ Yield(w) \/ (\E fails \in BOOLEAN : Finish(w, fails))
        PROVE SameDelay
    BY <1>2, <1>9, PlainUpdates
       DEF BuildOk, BuildFails, GiveUp, BuildBusy, FinishNewer, FinishLost, ReadGate, InlineDeclines, Park, Yield,
           Finish, Holds
  <1>. QED
    BY <1>3, <1>5, <1>6, <1>7, <1>8, <1>9 DEF Next, Edits, Timers, Work

(* Nothing but the end of a barrier's delay ends it.                          *)
THEOREM BarriersKeepTheirDelay == Spec => EmbargoKept
  <1>1. IntentInv /\ [Next]_vars
        => [row.owner = Nobody /\ row.reason = "barrier_wait" /\ row.notBefore = "later" /\ ~row.failed
            => row' = NoRow \/ row'.notBefore = "later" \/ EmbargoEnds]_vars
    BY EmbargoStep
  <1>. QED
    BY <1>1, IntentInvariant, PTL DEF Spec, EmbargoKept

-----------------------------------------------------------------------------
(* The refinement of DurableIntent: its status is read off the row.           *)
Status == IF ~Exists THEN "none" ELSE IF row.failed THEN "failed" ELSE "pending"

LEMMA StatusKept ==
    ASSUME TypeOK, row'.rev = row.rev, row'.failed = row.failed PROVE Status' = Status
  BY DEF Status, Exists

LEMMA AdvancedStatus == ASSUME TypeOK, NEW delay, Advance(delay) PROVE Status' = "pending"
  <1>1. row'.rev # 0 /\ ~row'.failed
    BY RequestUpdates, RequestedRow DEF Advance
  <1>. QED
    BY <1>1 DEF Status, Exists

(* The steps that are no publication, request or end of an intent.            *)
LEMMA QuietStatus ==
    ASSUME TypeOK, Keeps \/ Lapses \/ \E w \in Workers : Claims(w) PROVE Status' = Status
  <1>1. row'.rev = row.rev /\ row'.failed = row.failed
    BY ClaimedRow DEF Keeps, SameRow, Lapses, Claims, Claim
  <1>. QED
    BY <1>1, StatusKept

LEMMA PromiseStep ==
    ASSUME IntentInv, [Next]_vars
    PROVE  Promise!IntentNext \/ (Asked' = Asked /\ built' = built /\ Status' = Status)
  <1>. TypeInv /\ TypeOK /\ TypeOK' /\ IsFiniteSet(deferred) /\ RowSound /\ CallsMatch /\ BuiltCovers /\ EditSound /\ Seen
    BY TypeStep DEF IntentInv, TypeInv
  <1>. marked \in Nat /\ built \in Nat /\ row' \in Rows
    BY DEF TypeOK
  <1>. DEFINE Stutter == Asked' = Asked /\ built' = built /\ Status' = Status
  <1>a. ASSUME UNCHANGED <<edit, marked>> PROVE Asked' = Asked
    BY <1>a DEF Asked
  <1>1. ASSUME NEW kind \in {"request", "metadata"}, Mark(kind) PROVE Stutter
    <2>1. Asked' = Asked
      BY <1>1 DEF Mark, Asked
    <2>. QED
      BY <1>1, <2>1, StatusKept DEF Mark
  <1>2. ASSUME LookAtLease PROVE Stutter
    BY <1>2, StatusKept DEF LookAtLease, Asked
  <1>3. ASSUME NEW delay \in Delays, Ask(delay) PROVE Promise!IntentNext
    <2>1. Asked' > Asked /\ built' = built
      BY <1>3 DEF Ask, Asked, EditSound
    <2>2. Status' \in {"pending", "failed"} /\ (Status' = "failed" => Status = "failed")
      <3>1. CASE Exists /\ ~edit.advance
        BY <1>3, <3>1, StatusKept DEF Ask, Request, Status
      <3>2. CASE ~(Exists /\ ~edit.advance)
        BY <1>3, <3>2, AdvancedStatus DEF Ask, Request
      <3>. QED
        BY <3>1, <3>2
    <2>. QED
      BY <2>1, <2>2 DEF Promise!IntentNext, Promise!Ask, Asked, Status
  <1>4. ASSUME AskAgain PROVE Promise!IntentNext
    <2>1. Status' = "pending"
      BY <1>4, AdvancedStatus DEF AskAgain, Request
    <2>2. UNCHANGED <<edit, marked, built>>
      BY <1>4 DEF AskAgain
    <2>. QED
      BY <2>1, <2>2, <1>a DEF Promise!IntentNext, Promise!Remind, Asked, Status
  <1>5. ASSUME NEW w \in Workers, BuildOk(w) PROVE Stutter \/ Promise!IntentNext
    <2>1. Asked' = Asked /\ Status' = Status
      BY <1>5, <1>a, StatusKept DEF BuildOk
    <2>2. built' = built \/ built' > built
      <3>1. worker[w].sees \in Nat
        BY DEF TypeOK, Works
      <3>. QED
        BY <1>5, <3>1, LargerOfTwo DEF BuildOk
    <2>. QED
      BY <2>1, <2>2 DEF Promise!IntentNext, Promise!Publish, Asked, Status
  <1>6. ASSUME NEW w \in Workers, NEW fails \in BOOLEAN, Finish(w, fails) PROVE Promise!IntentNext
    <2>1. Live(w) /\ worker[w].pc = "built" /\ row.owner \in Workers
      BY <1>6 DEF Finish, Live, Working, OwnRevision, Holds, Owns
    <2>2. built >= Asked
      <3>1. built >= worker[w].sees /\ worker[w].sees >= Asked
        BY <2>1 DEF Seen, BuiltCovers
      <3>2. worker[w].sees \in Nat /\ Asked \in Int
        BY DEF TypeOK, Works, Asked
      <3>. QED
        BY <3>1, <3>2
    <2>3. Status = "pending"
      <3>1. row # NoRow /\ ~row.failed
        BY <2>1, IntentAssumption DEF NoRow, RowSound
      <3>. QED
        BY <3>1 DEF Status, Exists, RowSound
    <2>4. Status' = "none"
      BY <1>6 DEF Finish, Status, Exists, NoRow
    <2>5. Asked' = Asked /\ built' = built
      BY <1>6, <1>a DEF Finish
    <2>. QED
      BY <2>2, <2>3, <2>4, <2>5 DEF Promise!IntentNext, Promise!Settle, Asked, Status
  <1>7. ASSUME NEW w \in Workers, GiveUp(w) PROVE Stutter \/ Promise!IntentNext
    <2>1. Leaves(w) /\ Asked' = Asked /\ built' = built
      BY <1>7, <1>a, LeavingSteps DEF GiveUp
    <2>2. row'.rev = row.rev /\ row.failed \in BOOLEAN /\ row'.failed \in BOOLEAN
      BY <2>1 DEF Leaves, TypeOK, Rows
    <2>3. CASE row'.failed = row.failed
      BY <2>1, <2>2, <2>3, StatusKept
    <2>4. CASE row'.failed # row.failed
      <3>1. row.owner \in Workers /\ row' # row
        BY <1>7, <2>2, <2>4 DEF GiveUp, Holds, Owns, Leaves
      <3>2. ~row.failed /\ row # NoRow
        BY <3>1, IntentAssumption DEF RowSound, NoRow
      <3>3. row'.failed
        BY <2>2, <2>4, <3>2
      <3>4. Status = "pending" /\ Status' = "failed"
        BY <2>2, <3>2, <3>3 DEF Status, Exists, RowSound
      <3>. QED
        BY <2>1, <3>4 DEF Promise!IntentNext, Promise!GiveUp, Asked, Status
    <2>. QED
      BY <2>3, <2>4
  <1>8. ASSUME NEW w \in Workers,
               InlineDeclines(w) \/ BuildFails(w) \/ FinishNewer(w) \/ FinishLost(w) \/ Park(w) \/ Yield(w)
        PROVE  Stutter
    <2>1. Leaves(w) /\ UNCHANGED <<edit, marked, built>>
      BY <1>8, LeavingSteps DEF InlineDeclines, BuildFails, FinishNewer, FinishLost, Park, Yield
    <2>2. row'.failed = row.failed
      <3>1. row' = row \/ row' = Released \/ row' = Unclaimed \/ row' = Refunded(Released, worker[w].rev)
            \/ \E reason \in {"barrier_wait", "wave_wait"} : row' = Deferred(worker[w].rev, reason)
        BY <1>8 DEF InlineDeclines, BuildFails, FinishNewer, FinishLost, Park, Yield
      <3>. QED
        BY <3>1, ReleasedRow, RefundedRow, DeferredRow, ReleasedTypes
    <2>. QED
      BY <2>1, <2>2, <1>a, StatusKept DEF Leaves
  <1>9. CASE \/ Sweep \/ SweepPasses \/ Handoff \/ Timers \/ LeaseLapses \/ Promotes
             \/ (\E m \in deferred : Promote(m, TRUE)) \/ GateRises("reserved") \/ GateRises("wave") \/ GateFalls
             \/ UNCHANGED vars
    <2>1. Keeps \/ Lapses
      BY <1>9, KeepingSteps, LapsingSteps DEF Timers, Promotes
    <2>2. UNCHANGED <<edit, marked, built>>
      BY <1>9
         DEF Sweep, SweepPasses, Handoff, Timers, EmbargoEnds, WakeExpires, LeaseLapses, Promotes, Promote, GateRises,
             GateFalls, vars
    <2>. QED
      BY <2>1, <2>2, <1>a, QuietStatus
  <1>10. ASSUME NEW c \in Callers, CallStep(c) \/ SendFails(c) \/ Crash(c) PROVE Stutter
    <2>1. UNCHANGED <<edit, marked, built>>
      BY <1>10 DEF CallStep, SendNow, SendLater, Resend, ClearWait, RecordWakeup, SendFails, Crash
    <2>2. CASE CallStep(c) \/ SendFails(c)
      <3>1. Keeps
        BY <2>2, KeepingSteps, ReplyingSteps DEF CallStep
      <3>. QED
        BY <2>1, <3>1, <1>a, QuietStatus
    <2>3. CASE Crash(c)
      BY <2>1, <2>3, <1>a, StatusKept DEF Crash
    <2>. QED
      BY <1>10, <2>2, <2>3
  <1>11. ASSUME NEW w \in Workers,
                Take(w) \/ InlineClaim(w) \/ BuildBusy(w) \/ ReadGate(w) \/ NotifyAgain(w) \/ Recheck(w)
         PROVE  Stutter
    <2>1. Keeps \/ \E v \in Workers : Claims(v)
      BY <1>11, KeepingSteps, RestingSteps, BuildingSteps, ClaimingSteps DEF Take
    <2>2. UNCHANGED <<edit, marked, built>>
      BY <1>11
        DEF Take, TakeClaim, TakeObsolete, TakeEarly, InlineClaim, BuildBusy, ReadGate,
          NotifyAgain, Recheck
    <2>. QED
      BY <2>1, <2>2, <1>a, QuietStatus
  <1>. QED
    BY <1>1, <1>2, <1>3, <1>4, <1>5, <1>6, <1>7, <1>8, <1>9, <1>10, <1>11 DEF Next, Edits, Work

(* The queue, the leases, the retries and the timers keep the promise of a
   durable intent: it is put away only when everything asked for is in a
   published index, and otherwise stays pending or visibly failed.            *)
THEOREM PromiseKept == Spec => KeepsThePromise
  <1>1. Init => Promise!IntentInit
    BY DEF Init, Promise!IntentInit, Exists, NoRow
  <1>2. IntentInv /\ [Next]_vars => [Promise!IntentNext]_(Promise!intentVars)
    BY PromiseStep DEF Promise!intentVars, Asked, Status
  <1>. QED
    BY <1>1, <1>2, IntentInvariant, PTL DEF Spec, KeepsThePromise, Promise!IntentSpec
==============================================================================
