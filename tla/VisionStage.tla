---------------------------- MODULE VisionStage ----------------------------
(***************************************************************************)
(* The Vision stage of one wave: deliveries of its release compete for a    *)
(* renewable execution lease, walk the frozen members in groups, run each   *)
(* source at most MAX_SOURCE_ATTEMPTS times under a lease on its own row,   *)
(* commit what they observed and freeze the wave.                          *)
(*                                                                         *)
(* UploadWaves sees this stage as observations and evaluations of a wave;   *)
(* here the wave is behind the barrier and the question is who writes them. *)
(*                                                                         *)
(* Abstractions.  A wave transition compares the lease row it read with     *)
(* check(): guard holds the workers whose read is still current, so that a  *)
(* lease that expires after the read does not stop the write and a lease    *)
(* row rewritten since does.  A renewal only postpones the expiry.          *)
(* keepalive's local deadline never outlives the lease, so passing it means *)
(* the lease is still this owner's; so does a coalesced check.  Owner ids   *)
(* are minted fresh: any number no row and no worker still holds.  A source *)
(* row keeps who may write it and whether it carries a completion.  A group *)
(* is inspected as of the snapshot it was loaded with.  The barrier scan is *)
(* one step: its pages are UploadWaves'.                                    *)
(***************************************************************************)
EXTENDS Integers

CONSTANTS NWorkers,      \* deliveries of the release that run at the same time
          NMembers,      \* members of the wave, in RowKey order
          GroupSize,     \* MAX_PAGE: members of a group
          MaxAttempts,   \* MAX_SOURCE_ATTEMPTS
          MaxDisturb     \* bound on what disturb counts

ASSUME StageAssumption ==
    /\ NWorkers \in Nat \ {0}
    /\ NMembers \in Nat \ {0}
    /\ GroupSize \in Nat \ {0}
    /\ MaxAttempts \in Nat \ {0}
    /\ MaxDisturb \in Nat

Workers == 1..NWorkers
Members == 1..NMembers

(* Enough owner numbers that one is always fresh. *)
Owners   == 1..(NWorkers + NMembers + 1)
Nobody   == 0
Outsider == -1     \* a browser or another processor holding a source

LeaseRow == [status: {"none", "running", "succeeded"}, owner: Owners \cup {Nobody},
             live: BOOLEAN, phase: {"sources", "evaluate"}, after: Members \cup {0}]

(* Who stored the completion of a source: an attempt that returned, one whose
   lease had lapsed by the time its write landed, one that raised after it, or
   somebody outside the stage. *)
Results == {"no", "returned", "late", "raised", "outsider"}
SourceRow == [holder: Owners \cup {Nobody, Outsider}, live: BOOLEAN, stored: Results]

(* Steps of the stage loop, and of one member of its current group. *)
Steps == {"idle", "claiming", "loading", "sources", "settling", "saving", "ending",
          "evaluate", "frozen", "reset", "leaving"}
Unread == {"out"}
Waiting == {"runnable"}
Attempting == {"admitted", "started", "claimed", "checked", "verified"}
Unresolved == {"returned", "raised", "doomed"}
Resolved == {"skipped", "qualified", "pending", "failed"}
Plans == Unread \cup Waiting \cup Attempting \cup Unresolved \cup Resolved

Job == [pc: Steps, own: Owners \cup {Nobody}, after: Members \cup {0}, late: BOOLEAN]
NoJob == [pc |-> "idle", own |-> Nobody, after |-> 0, late |-> FALSE]
NoPlan == [m \in Members |-> "out"]
NoCounts == [m \in Members |-> 0]

VARIABLES
    lease,     \* the execution lease row of (library, wave, vision)
    guard,     \* workers whose check() read the lease row as it still is
    frozen,    \* the wave left the barrier: its state is ready
    outcome,   \* outcome of each member's evidence row
    attempts,  \* count of each member's source-attempt! row
    source,    \* lease and completion of each member's metadata row
    job,       \* the stage loop of each worker
    plan,      \* what each worker knows of each member of its group
    attempt,   \* the attempt number a worker's reservation returned
    ran,       \* model runs made under each attempt number of each member
    disturb,   \* crashes, lapses under a running owner, deadlines and claims
               \* from outside so far
    disputed   \* members whose stored result was leased by somebody outside, or
               \* could not be read when its attempt was qualified: a history,
               \* which no action looks at

vars == <<lease, guard, frozen, outcome, attempts, source, job, plan, attempt,
          ran, disturb, disputed>>

Init ==
    /\ lease = [status |-> "none", owner |-> Nobody, live |-> FALSE,
                phase |-> "sources", after |-> 0]
    /\ guard = {}
    /\ frozen = FALSE
    /\ outcome = [m \in Members |-> "pending"]
    /\ attempts = [m \in Members |-> 0]
    /\ source = [m \in Members |-> [holder |-> Nobody, live |-> FALSE, stored |-> "no"]]
    /\ job = [w \in Workers |-> NoJob]
    /\ plan = [w \in Workers |-> NoPlan]
    /\ attempt = [w \in Workers |-> NoCounts]
    /\ ran = [m \in Members |-> [n \in 1..MaxAttempts |-> 0]]
    /\ disturb = 0
    /\ disputed = {}

-----------------------------------------------------------------------------
(* The lease and the rows it guards. *)

(* _authoritative: the row still names this owner. *)
Named(w) == job[w].own # Nobody /\ lease.owner = job[w].own
Owned(w) == Named(w) /\ lease.live

(* _execution_check: the release is still current and check() passes. *)
Holds(w) == Owned(w) /\ lease.status = "running" /\ ~ frozen

WriteLease(row) == lease' = row /\ guard' = {}
KeepLease == UNCHANGED <<lease, guard>>

(* A transaction of w that carries guard_operations. *)
Guarded(w) == w \in guard /\ guard' = guard \ {w} /\ UNCHANGED lease

(* A dispute is about a result that is there. *)
Dispute(m) == disputed' = disputed \cup {k \in {m} : source[k].stored # "no"}

LiveHeld(m) == source[m].holder # Nobody /\ source[m].live

(* _observe_qualified: a leased row shows no completion, expired or not. *)
Qualified(m) == source[m].stored # "no" /\ source[m].holder = Nobody

Freed(m) == [source EXCEPT ![m] = [source[m] EXCEPT !.holder = Nobody, !.live = FALSE]]

MovePlan(w, m, p) == plan' = [plan EXCEPT ![w] = [plan[w] EXCEPT ![m] = p]]
ForgetGroup(w) ==
    /\ plan' = [plan EXCEPT ![w] = NoPlan]
    /\ attempt' = [attempt EXCEPT ![w] = NoCounts]
MoveJob(w, pc) == job' = [job EXCEPT ![w] = [job[w] EXCEPT !.pc = pc]]

(* The group: at most GroupSize members after the cursor. *)
Group(w) == {m \in Members : job[w].after < m /\ m <= job[w].after + GroupSize}
Taken(w) == {m \in Group(w) : plan[w][m] # "out"}
Drained(w) == \A m \in Members : plan[w][m] \notin Attempting
Last(w) == {m \in Taken(w) : \A k \in Taken(w) : k <= m}
Cursor(w) == IF Last(w) = {} THEN job[w].after ELSE CHOOSE m \in Last(w) : TRUE

Fresh == Owners \ ({lease.owner} \cup {job[w].own : w \in Workers}
                                 \cup {source[m].holder : m \in Members})

-----------------------------------------------------------------------------
(* Claiming the stage. *)

(* claim_release: the wave and its outbox are read ... *)
ReadRelease(w) ==
    /\ job[w].pc = "idle"
    /\ ~ frozen
    /\ MoveJob(w, "claiming")
    /\ UNCHANGED <<lease, guard, frozen, outcome, attempts, source, plan, attempt, ran, disturb, disputed>>

(* ... and claim() mints a fresh owner, keeping the progress checkpoint; a live
   lease or a finished stage sends the delivery away. *)
Claim(w) ==
    /\ job[w].pc = "claiming"
    /\ \/ /\ lease.live \/ lease.status = "succeeded"
          /\ MoveJob(w, "idle")
          /\ KeepLease
       \/ /\ ~ lease.live
          /\ lease.status # "succeeded"
          /\ Fresh # {}
          /\ LET owner == CHOOSE o \in Fresh : TRUE
             IN /\ WriteLease([lease EXCEPT !.status = "running", !.owner = owner,
                                            !.live = TRUE])
                /\ job' = [job EXCEPT ![w] =
                       [pc |-> IF lease.phase = "sources" THEN "loading" ELSE "evaluate",
                        own |-> owner, after |-> lease.after, late |-> FALSE]]
    /\ UNCHANGED <<frozen, outcome, attempts, source, plan, attempt, ran, disturb, disputed>>

(* guard_operations: eligible() and check() before a transaction. *)
Check(w) ==
    /\ Holds(w)
    /\ w \notin guard
    /\ job[w].pc \in {"sources", "settling", "evaluate"}
    /\ guard' = guard \cup {w}
    /\ UNCHANGED <<lease, frozen, outcome, attempts, source, job, plan, attempt, ran, disturb, disputed>>

-----------------------------------------------------------------------------
(* One group of sources. *)

(* _inspect_vision_member: a settled failure is passed over, a completion is
   taken as it stands, a live lease means pending, the rest is run. *)
Inspected(m) ==
    IF outcome[m] = "failed" THEN "skipped"
    ELSE IF Qualified(m) THEN "qualified"
    ELSE IF LiveHeld(m) THEN "pending" ELSE "runnable"

(* window.page and MetadataBatch: one snapshot plans the whole group. *)
Load(w) ==
    /\ job[w].pc = "loading"
    /\ ~ job[w].late
    /\ Holds(w)
    /\ MoveJob(w, "sources")
    /\ plan' = [plan EXCEPT ![w] =
           [m \in Members |-> IF m \in Group(w) THEN Inspected(m) ELSE "out"]]
    /\ UNCHANGED <<lease, guard, frozen, outcome, attempts, source, attempt, ran, disturb, disputed>>

(* Past the deadline the members behind the last one taken stay unread. *)
CutShort(w) ==
    /\ job[w].pc = "sources"
    /\ job[w].late
    /\ \E last \in Members \cup {0} :
          LET tail == {m \in Taken(w) : last < m}
          IN /\ tail # {}
             /\ \A m \in tail : plan[w][m] \in Waiting \cup Resolved
             /\ plan' = [plan EXCEPT ![w] =
                    [m \in Members |-> IF m \in tail THEN "out" ELSE plan[w][m]]]
    /\ UNCHANGED <<lease, guard, frozen, outcome, attempts, source, job, attempt, ran, disturb, disputed>>

(* reserve_attempts: the counters of the runnable members, in one transaction
   that carries the guard when it changes any of them.  A refused member is
   exhausted at once, as the group's snapshot shows it: not leased.  The variants
   forget the counter a predecessor left and admit one attempt too many. *)
ForgottenCount(m) == 0
Previous(m) == attempts[m]

AdmitsOneMore(m) == Previous(m) <= MaxAttempts
Admits(m) == Previous(m) < MaxAttempts
Count(m) == IF Admits(m) THEN Previous(m) + 1 ELSE Previous(m)

Reserve(w) == \E last \in Members :
    LET ready == {m \in Members : m <= last /\ plan[w][m] = "runnable"}
    IN /\ job[w].pc = "sources"
       /\ plan[w][last] = "runnable"
       /\ IF \E m \in ready : Admits(m) THEN Guarded(w) ELSE KeepLease
       /\ attempts' = [m \in Members |-> IF m \in ready THEN Count(m) ELSE attempts[m]]
       /\ attempt' = [attempt EXCEPT ![w] =
              [m \in Members |-> IF m \in ready THEN Count(m) ELSE attempt[w][m]]]
       /\ plan' = [plan EXCEPT ![w] =
              [m \in Members |-> IF m \notin ready THEN plan[w][m]
                                 ELSE IF Admits(m) THEN "admitted" ELSE "doomed"]]
       /\ UNCHANGED <<frozen, outcome, source, job, ran, disturb, disputed>>

(* process: a source thread renews before it touches the photo. *)
Start(w, m) ==
    /\ plan[w][m] = "admitted"
    /\ MovePlan(w, m, IF Owned(w) THEN "started" ELSE "raised")
    /\ UNCHANGED <<lease, guard, frozen, outcome, attempts, source, job, attempt, ran, disturb, disputed>>

(* claim_processing_lease, then the models, unless every step is already done. *)
ClaimSource(w, m) ==
    /\ plan[w][m] = "started"
    /\ IF LiveHeld(m)
       THEN MovePlan(w, m, "raised") /\ UNCHANGED <<source, ran>>
       ELSE /\ source' = [source EXCEPT ![m] =
                   [source[m] EXCEPT !.holder = job[w].own, !.live = TRUE]]
            /\ IF source[m].stored = "no"
               THEN /\ MovePlan(w, m, "claimed")
                    /\ ran' = [ran EXCEPT ![m] =
                           [ran[m] EXCEPT ![attempt[w][m]] = ran[m][attempt[w][m]] + 1]]
               ELSE MovePlan(w, m, "checked") /\ UNCHANGED ran
    /\ UNCHANGED <<lease, guard, frozen, outcome, attempts, job, attempt, disturb, disputed>>

(* check() between the models and the write; the variant forgets it. *)
MayAlwaysWrite(w) == TRUE
MayWrite(w) == Owned(w)

CheckRun(w, m) ==
    /\ plan[w][m] = "claimed"
    /\ IF MayWrite(w)
       THEN MovePlan(w, m, "checked") /\ UNCHANGED source
       ELSE /\ MovePlan(w, m, "raised")
            /\ source' = IF source[m].holder = job[w].own THEN Freed(m) ELSE source
    /\ UNCHANGED <<lease, guard, frozen, outcome, attempts, job, attempt, ran, disturb, disputed>>

(* _commit_worker_processing_results reads its own unexpired lease ... *)
Verify(w, m) ==
    /\ plan[w][m] = "checked"
    /\ source[m].holder = job[w].own
    /\ source[m].live
    /\ MovePlan(w, m, "verified")
    /\ UNCHANGED <<lease, guard, frozen, outcome, attempts, source, job, attempt, ran, disturb, disputed>>

(* ... and stores the result and frees the source in one conditional write that
   compares the row, not the clock.  The attempt may still raise afterwards:
   the last check() and the release come later. *)
Store(w, m) ==
    /\ plan[w][m] = "verified"
    /\ source[m].holder = job[w].own
    /\ \E end \in {"returned", "raised"} :
          /\ MovePlan(w, m, end)
          /\ source' = [source EXCEPT ![m] =
                 [holder |-> Nobody, live |-> FALSE,
                  stored |-> IF source[m].stored # "no" THEN source[m].stored
                             ELSE IF source[m].live THEN end ELSE "late"]]
    /\ UNCHANGED <<lease, guard, frozen, outcome, attempts, job, attempt, ran, disturb, disputed>>

(* A step failed: the write frees the source but completes nothing. *)
StoreFailure(w, m) ==
    /\ plan[w][m] = "verified"
    /\ source[m].holder = job[w].own
    /\ source[m].stored = "no"
    /\ MovePlan(w, m, "returned")
    /\ source' = Freed(m)
    /\ UNCHANGED <<lease, guard, frozen, outcome, attempts, job, attempt, ran, disturb, disputed>>

(* Any exception; release_processing_lease gives up after its retries. *)
Raise(w, m) ==
    /\ plan[w][m] \in {"started", "claimed", "checked", "verified"}
    /\ MovePlan(w, m, "raised")
    /\ source' \in IF source[m].holder = job[w].own THEN {source, Freed(m)} ELSE {source}
    /\ UNCHANGED <<lease, guard, frozen, outcome, attempts, job, attempt, ran, disturb, disputed>>

-----------------------------------------------------------------------------
(* Settling a drained group. *)

(* exhausted(): a full budget and no live lease.  It reads the row again, but
   what it then settles does not compare it. *)
Exhausted(w, m) == attempt[w][m] >= MaxAttempts /\ ~ LiveHeld(m)

(* settle(..., 'failed_exhausted'). *)
SettleFailed(w, m) ==
    /\ job[w].pc \in {"sources", "settling"}
    /\ plan[w][m] = "doomed"
    /\ ~ frozen
    /\ Guarded(w)
    /\ outcome' = [outcome EXCEPT ![m] = "failed"]
    /\ MovePlan(w, m, "failed")
    /\ UNCHANGED <<frozen, attempts, source, job, attempt, ran, disturb, disputed>>

(* The pool has drained; the boundary check rereads the release. *)
BeginSettling(w) ==
    /\ job[w].pc = "sources"
    /\ Drained(w)
    /\ \A m \in Members : plan[w][m] \notin {"runnable", "doomed"}
    /\ Holds(w)
    /\ MoveJob(w, "settling")
    /\ UNCHANGED <<lease, guard, frozen, outcome, attempts, source, plan, attempt, ran, disturb, disputed>>

(* A member that raised is exhausted or left for a later pass; one that
   returned is qualified against the row as it is now. *)
Settled(w, m) ==
    IF plan[w][m] = "raised" THEN IF Exhausted(w, m) THEN "doomed" ELSE "skipped"
    ELSE IF Qualified(m) THEN "qualified"
    ELSE IF Exhausted(w, m) THEN "doomed" ELSE "pending"

Settle(w, m) ==
    /\ job[w].pc = "settling"
    /\ plan[w][m] \in {"raised", "returned"}
    /\ MovePlan(w, m, Settled(w, m))
    /\ UNCHANGED <<lease, guard, frozen, outcome, attempts, source, job, attempt, ran, disturb, disputed>>

(* _observe_qualified raises for one that returned: whatever its row carries, it
   is exhausted or left for a later pass. *)
QualifyFails(w, m) ==
    /\ job[w].pc = "settling"
    /\ plan[w][m] = "returned"
    /\ MovePlan(w, m, IF Exhausted(w, m) THEN "doomed" ELSE "skipped")
    /\ Dispute(m)
    /\ UNCHANGED <<lease, guard, frozen, outcome, attempts, source, job, attempt, ran, disturb>>

(* commit_observations: a terminal outcome is never overwritten, and a page
   that changes nothing is not written.  The variant takes a source that
   returned for one that has a receipt. *)
ObservedUnqualified(w, m) ==
    IF outcome[m] = "failed" THEN "failed"
    ELSE IF plan[w][m] \in {"qualified", "pending"} THEN "settled" ELSE outcome[m]

Observed(w, m) ==
    IF outcome[m] = "failed" THEN "failed"
    ELSE IF plan[w][m] = "qualified" THEN "settled"
    ELSE IF plan[w][m] = "pending" THEN "pending" ELSE outcome[m]

CommitPage(w) ==
    LET seen == [m \in Members |-> Observed(w, m)]
    IN /\ job[w].pc = "settling"
       /\ \A m \in Members : plan[w][m] \in Unread \cup Resolved
       /\ IF seen = outcome THEN KeepLease ELSE ~ frozen /\ Guarded(w)
       /\ outcome' = seen
       /\ MoveJob(w, "saving")
       /\ UNCHANGED <<frozen, attempts, source, plan, attempt, ran, disturb, disputed>>

(* checkpoint('sources', cursor), and on to the next group. *)
Checkpoint(w) ==
    /\ job[w].pc = "saving"
    /\ Owned(w)
    /\ WriteLease([lease EXCEPT !.after = Cursor(w)])
    /\ job' = [job EXCEPT ![w] =
           [job[w] EXCEPT !.after = Cursor(w),
                          !.pc = IF job[w].late THEN "leaving"
                                 ELSE IF Cursor(w) = NMembers THEN "ending" ELSE "loading"]]
    /\ ForgetGroup(w)
    /\ UNCHANGED <<frozen, outcome, attempts, source, ran, disturb, disputed>>

-----------------------------------------------------------------------------
(* Freezing the wave and leaving the stage. *)

EnterEvaluate(w) ==
    /\ job[w].pc = "ending"
    /\ Owned(w)
    /\ WriteLease([lease EXCEPT !.phase = "evaluate", !.after = 0])
    /\ MoveJob(w, "evaluate")
    /\ UNCHANGED <<frozen, outcome, attempts, source, plan, attempt, ran, disturb, disputed>>

(* evaluate: the wave freezes when no member is pending. *)
Evaluate(w) ==
    /\ job[w].pc = "evaluate"
    /\ ~ job[w].late
    /\ ~ frozen
    /\ Guarded(w)
    /\ frozen' = \A m \in Members : outcome[m] # "pending"
    /\ MoveJob(w, IF frozen' THEN "frozen" ELSE "reset")
    /\ UNCHANGED <<outcome, attempts, source, plan, attempt, ran, disturb, disputed>>

(* checkpoint('sources'): the next delivery revisits unresolved members.  The
   variant leaves the checkpoint at the evaluation. *)
NotRewound == lease
Rewound == [lease EXCEPT !.phase = "sources", !.after = 0]

ResetCursor(w) ==
    /\ job[w].pc = "reset"
    /\ Owned(w)
    /\ WriteLease(Rewound)
    /\ MoveJob(w, "leaving")
    /\ UNCHANGED <<frozen, outcome, attempts, source, plan, attempt, ran, disturb, disputed>>

Complete(w) ==
    /\ job[w].pc = "frozen"
    /\ Owned(w)
    /\ lease.status = "running"
    /\ WriteLease([lease EXCEPT !.status = "succeeded", !.owner = Nobody, !.live = FALSE])
    /\ MoveJob(w, "leaving")
    /\ UNCHANGED <<frozen, outcome, attempts, source, plan, attempt, ran, disturb, disputed>>

(* A failed check, or the deadline between groups and before an evaluation. *)
Leave(w) ==
    /\ job[w].pc \in Steps \ {"idle", "claiming", "leaving"}
    /\ \/ IF job[w].pc = "frozen" THEN ~ Owned(w) ELSE ~ Holds(w)
       \/ job[w].late /\ job[w].pc \in {"loading", "evaluate"}
    /\ MoveJob(w, "leaving")
    /\ UNCHANGED <<lease, guard, frozen, outcome, attempts, source, plan, attempt, ran, disturb, disputed>>

(* The finally block waits for the sources, then releases this exact attempt,
   expired or not; a replacement's claim is left alone, except by the variant. *)
ReleasedByAnyone(w) == WriteLease([lease EXCEPT !.owner = Nobody, !.live = FALSE])
Released(w) == IF Named(w)
               THEN WriteLease([lease EXCEPT !.owner = Nobody, !.live = FALSE])
               ELSE KeepLease

Release(w) ==
    /\ job[w].pc = "leaving"
    /\ Drained(w)
    /\ Released(w)
    /\ job' = [job EXCEPT ![w] = NoJob]
    /\ ForgetGroup(w)
    /\ UNCHANGED <<frozen, outcome, attempts, source, ran, disturb, disputed>>

-----------------------------------------------------------------------------
(* Clocks, crashes and the sources' other owners. *)

Disturb == disturb < MaxDisturb /\ disturb' = disturb + 1

Kept == \E w \in Workers : Named(w)
Heartbeating(m) == \E w \in Workers :
    /\ source[m].holder = job[w].own
    /\ plan[w][m] \in {"claimed", "checked", "verified"}

(* leaseUntil passes: of a worker that is gone, or of one that stalled. *)
LeaseLapses ==
    /\ lease.live
    /\ IF Kept THEN Disturb ELSE UNCHANGED disturb
    /\ lease' = [lease EXCEPT !.live = FALSE]
    /\ UNCHANGED <<guard, frozen, outcome, attempts, source, job, plan, attempt, ran, disputed>>

SourceLapses(m) ==
    /\ source[m].live
    /\ IF Heartbeating(m) THEN Disturb ELSE UNCHANGED disturb
    /\ source' = [source EXCEPT ![m] = [source[m] EXCEPT !.live = FALSE]]
    /\ UNCHANGED <<lease, guard, frozen, outcome, attempts, job, plan, attempt, ran, disputed>>

(* The process dies; what it wrote and what it leased stays behind. *)
Crash(w) ==
    /\ job[w].pc # "idle"
    /\ Disturb
    /\ job' = [job EXCEPT ![w] = NoJob]
    /\ guard' = guard \ {w}
    /\ ForgetGroup(w)
    /\ UNCHANGED <<lease, frozen, outcome, attempts, source, ran, disputed>>

(* expired(): the delivery's deadline passes. *)
Deadline(w) ==
    /\ job[w].own # Nobody
    /\ ~ job[w].late
    /\ Disturb
    /\ job' = [job EXCEPT ![w] = [job[w] EXCEPT !.late = TRUE]]
    /\ UNCHANGED <<lease, guard, frozen, outcome, attempts, source, plan, attempt, ran, disputed>>

(* Somebody outside the stage claims a source.  claim_processing_lease does not
   ask whether the row carries a completion, and leaves it there. *)
OutsiderClaims(m) ==
    /\ ~ LiveHeld(m)
    /\ Disturb
    /\ source' = [source EXCEPT ![m] = [source[m] EXCEPT !.holder = Outsider, !.live = TRUE]]
    /\ Dispute(m)
    /\ UNCHANGED <<lease, guard, frozen, outcome, attempts, job, plan, attempt, ran>>

(* It releases the source, with a result of its own if there was none. *)
OutsiderEnds(m) ==
    /\ source[m].holder = Outsider
    /\ source[m].live
    /\ \E result \in {"no", "outsider"} :
          source' = [source EXCEPT ![m] =
              [holder |-> Nobody, live |-> FALSE,
               stored |-> IF source[m].stored # "no" THEN source[m].stored ELSE result]]
    /\ UNCHANGED <<lease, guard, frozen, outcome, attempts, job, plan, attempt, ran, disturb, disputed>>

-----------------------------------------------------------------------------
Member(w, m) ==
    \/ Start(w, m)
    \/ ClaimSource(w, m)
    \/ CheckRun(w, m)
    \/ Verify(w, m)
    \/ Store(w, m)
    \/ StoreFailure(w, m)
    \/ Raise(w, m)
    \/ SettleFailed(w, m)
    \/ Settle(w, m)
    \/ QualifyFails(w, m)

Stage(w) ==
    \/ Check(w)
    \/ Load(w)
    \/ CutShort(w)
    \/ Reserve(w)
    \/ BeginSettling(w)
    \/ CommitPage(w)
    \/ Checkpoint(w)
    \/ EnterEvaluate(w)
    \/ Evaluate(w)
    \/ ResetCursor(w)
    \/ Complete(w)
    \/ Leave(w)
    \/ Release(w)
    \/ \E m \in Members : Member(w, m)

Next ==
    \/ \E w \in Workers : ReadRelease(w)
    \/ \E w \in Workers : Claim(w)
    \/ \E w \in Workers : Stage(w)
    \/ \E w \in Workers : Crash(w)
    \/ \E w \in Workers : Deadline(w)
    \/ LeaseLapses
    \/ \E m \in Members : SourceLapses(m)
    \/ \E m \in Members : OutsiderClaims(m)
    \/ \E m \in Members : OutsiderEnds(m)

Spec == Init /\ [][Next]_vars

(* A delivery that is not finished is redelivered, a running worker goes on,
   nobody outside keeps a source for ever, and a lease nobody renews lapses. *)
FairSpec ==
    /\ Spec
    /\ \A w \in Workers : WF_vars(ReadRelease(w)) /\ WF_vars(Claim(w)) /\ WF_vars(Stage(w))
    /\ WF_vars(LeaseLapses /\ ~ Kept)
    /\ \A m \in Members : WF_vars(SourceLapses(m) /\ ~ Heartbeating(m))

-----------------------------------------------------------------------------
(* Every row and every local variable keeps its shape. *)
TypeOK ==
    /\ lease \in LeaseRow
    /\ guard \subseteq Workers
    /\ frozen \in BOOLEAN
    /\ outcome \in [Members -> {"pending", "settled", "failed"}]
    /\ attempts \in [Members -> 0..MaxAttempts]
    /\ source \in [Members -> SourceRow]
    /\ job \in [Workers -> Job]
    /\ plan \in [Workers -> [Members -> Plans]]
    /\ attempt \in [Workers -> [Members -> 0..MaxAttempts]]
    /\ ran \in [Members -> [1..MaxAttempts -> Nat]]
    /\ disturb \in 0..MaxDisturb
    /\ disputed \subseteq Members

(* "A crash after admission consumes that attempt; it must not silently grant
   another model run" (reserve_attempts): the models run at most once under
   each reserved attempt, and never without one, whoever crashes or is
   superseded in between. *)
AttemptBudget ==
    \A m \in Members : \A n \in 1..MaxAttempts :
        ran[m][n] <= (IF n <= attempts[m] THEN 1 ELSE 0)

(* "Source results are durable first; interruption before this commit is
   replayable through receipt qualification" (run_vision_release): a member whose
   attempt stored its result in time and returned is never recorded as failed,
   whoever crashed, stalled, was replaced or worked from an old snapshot in
   between.  Only a dispute loses such a result: a lease that somebody outside
   took on the completed row, or a qualification that raised. *)
ResultsKept ==
    \A m \in Members : outcome[m] = "failed" /\ source[m].stored = "returned" => m \in disputed

(* The stage is complete only when the wave is frozen, and the wave is frozen
   only over members that have a durable result or used up their attempts. *)
FreezeJustified ==
    /\ lease.status = "succeeded" => frozen
    /\ frozen => \A m \in Members :
          \/ outcome[m] = "settled" /\ source[m].stored # "no"
          \/ outcome[m] = "failed" /\ attempts[m] = MaxAttempts

(* "Every mutating call re-checks (owner, epoch)": no step of a worker whose
   claim has been replaced changes the wave's evidence, its state, the attempt
   counters or the replacement's lease. *)
Superseded(w) == job[w].own # Nobody /\ lease.owner # job[w].own
SupersededNeverWrites ==
    [][\A w \in Workers :
          Superseded(w) /\ (job'[w] # job[w] \/ plan'[w] # plan[w])
              => UNCHANGED <<lease, outcome, attempts, frozen>>]_vars

(* "Qualified results are checked before reaching this path" (reserve_attempts),
   and the snapshots of a group "only select work" (MetadataBatch): a member that
   is refused another attempt is exhausted only if its source has no result. *)
RefusedWithoutResult ==
    [][\A w \in Workers : \A m \in Members :
          plan[w][m] = "runnable" /\ plan'[w][m] = "doomed"
              => source[m].stored = "no"]_vars

(* Whatever crashes, stalls or deadlines interrupt it, the stage freezes its
   wave: no unresolved member is passed over for good. *)
VisionEnds == <>frozen
=============================================================================
