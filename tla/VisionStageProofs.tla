-------------------------- MODULE VisionStageProofs ---------------------------
(***************************************************************************)
(* What the Vision stage promises about its workers, attempts and results,  *)
(* for any number of workers, members and attempts: a worker whose claim    *)
(* was replaced writes nothing to the wave, the models run at most once per *)
(* reserved attempt, a wave is frozen only over members that are done, and, *)
(* with the one attempt per source the code allows, a result that was       *)
(* returned and that nobody disputed is never recorded as a failure.       *)
(*                                                                         *)
(* Fencing.  guard holds workers whose check() still describes the lease    *)
(* row, so a worker in guard is the one the row names (GuardsNamed).  A     *)
(* replaced worker is not named by the row, so every transaction that       *)
(* carries guard_operations is refused to it, and every write of the lease  *)
(* row itself starts by comparing the owner.  That the row can name no two  *)
(* workers needs owner ids to be fresh (DistinctOwners).                    *)
(*                                                                         *)
(* Results.  AttemptInv numbers the attempts: the counter row hands every   *)
(* number to one worker, and a number is used up before a successor can be  *)
(* given the next.  FreezeInv follows evidence from the source row to the   *)
(* frozen wave.  ResultsInv relates the two workers that can meet on one    *)
(* source: the one that owns the stage and may run or fail it, and a        *)
(* predecessor whose thread is still writing.                              *)
(***************************************************************************)
EXTENDS VisionStage, TLAPS

(* The values outside the owners have a place in the rows. *)
LEMMA Constants ==
    /\ Nobody \in Owners \cup {Nobody, Outsider}
    /\ Outsider \in Owners \cup {Nobody, Outsider}
    /\ 0 \in Members \cup {0}
  OBVIOUS

(* Moving a worker to another step keeps the shape of the jobs. *)
LEMMA JobMoves ==
    ASSUME job \in [Workers -> Job], NEW w \in Workers, NEW pc \in Steps, MoveJob(w, pc)
    PROVE  job' \in [Workers -> Job]
  BY DEF MoveJob, Job

(* The steps by name, so that no proof has to expand the set. *)
LEMMA StepNames ==
    {"idle", "claiming", "loading", "sources", "settling", "saving", "ending",
     "evaluate", "frozen", "reset", "leaving"} \subseteq Steps
  BY DEF Steps

(* The job of a worker that is not running is a job. *)
LEMMA NoJobTyped == NoJob \in Job
  BY DEF NoJob, Job, Steps

(* Moving a member to another plan keeps the shape of the plans. *)
LEMMA PlanMoves ==
    ASSUME plan \in [Workers -> [Members -> Plans]],
           NEW w \in Workers, NEW m \in Members, NEW p \in Plans, MovePlan(w, m, p)
    PROVE  plan' \in [Workers -> [Members -> Plans]]
  BY DEF MovePlan

(* The plans by name. *)
LEMMA PlanNames ==
    {"out", "runnable", "admitted", "started", "claimed", "checked", "verified",
     "returned", "raised", "doomed", "skipped", "qualified", "pending", "failed"}
        \subseteq Plans
  BY DEF Plans, Unread, Waiting, Attempting, Unresolved, Resolved

(* Freeing a source keeps the shape of the source rows. *)
LEMMA SourceFreed ==
    ASSUME source \in [Members -> SourceRow], NEW m \in Members
    PROVE  Freed(m) \in [Members -> SourceRow]
  BY DEF Freed, SourceRow

(* Counting one more model run keeps the shape of the counters; a number
   outside the range counts nowhere. *)
LEMMA RanMore ==
    ASSUME NEW r \in [1..MaxAttempts -> Nat], NEW n \in 0..MaxAttempts
    PROVE  [r EXCEPT ![n] = r[n] + 1] \in [1..MaxAttempts -> Nat]
<1>1. CASE n \in 1..MaxAttempts
  <2>1. r[n] \in Nat
    BY <1>1
  <2>2. r[n] + 1 \in Nat
    BY <2>1
  <2>. QED
    BY <1>1, <2>2
<1>2. CASE n \notin 1..MaxAttempts
  <2>1. [r EXCEPT ![n] = r[n] + 1] = r
    BY <1>2
  <2>. QED
    BY <2>1
<1>. QED
  BY <1>1, <1>2

(* Every step keeps every row and every local variable in shape. *)
LEMMA TypeStep == TypeOK /\ [Next]_vars => TypeOK'
<1> SUFFICES ASSUME TypeOK, [Next]_vars PROVE TypeOK'
  OBVIOUS
<1>1. ASSUME NEW w \in Workers, ReadRelease(w)
      PROVE  TypeOK'
  <2>1. job' \in [Workers -> Job]
    BY <1>1, JobMoves, StepNames, Constants DEF TypeOK, ReadRelease
  <2>. QED
    BY <1>1, <2>1 DEF TypeOK, ReadRelease
<1>2. ASSUME NEW w \in Workers, Claim(w)
      PROVE  TypeOK'
  <2>fresh. Fresh # {} => (CHOOSE o \in Fresh : TRUE) \in Owners
    BY DEF Fresh
  <2>claimed. Fresh # {} => [pc |-> IF lease.phase = "sources" THEN "loading" ELSE "evaluate",
         own |-> CHOOSE o \in Fresh : TRUE, after |-> lease.after, late |-> FALSE] \in Job
    BY <2>fresh, StepNames DEF TypeOK, LeaseRow, Job
  <2>1. lease' \in LeaseRow
    BY <1>2, <2>fresh, <2>claimed, Constants
       DEF TypeOK, Claim, LeaseRow, WriteLease, KeepLease, Fresh
  <2>2. guard' \subseteq Workers
    BY <1>2, <2>fresh, <2>claimed DEF TypeOK, Claim, WriteLease, KeepLease
  <2>3. job' \in [Workers -> Job]
    BY <1>2, <2>fresh, <2>claimed, JobMoves, StepNames, Constants DEF TypeOK, Claim
  <2>. QED
    BY <1>2, <2>1, <2>2, <2>3 DEF TypeOK, Claim
<1>3. ASSUME NEW w \in Workers, Check(w)
      PROVE  TypeOK'
  <2>1. guard' \subseteq Workers
    BY <1>3 DEF TypeOK, Check
  <2>. QED
    BY <1>3, <2>1 DEF TypeOK, Check
<1>4. ASSUME NEW w \in Workers, Load(w)
      PROVE  TypeOK'
  <2>1. job' \in [Workers -> Job]
    BY <1>4, JobMoves, StepNames, Constants DEF TypeOK, Load
  <2>2. plan' \in [Workers -> [Members -> Plans]]
    BY <1>4 DEF TypeOK, Load, Plans, Unread, Waiting, Attempting, Unresolved, Resolved,
           Inspected
  <2>. QED
    BY <1>4, <2>1, <2>2 DEF TypeOK, Load
<1>5. ASSUME NEW w \in Workers, CutShort(w)
      PROVE  TypeOK'
  <2>1. plan' \in [Workers -> [Members -> Plans]]
    BY <1>5 DEF TypeOK, CutShort, Plans, Unread, Waiting, Attempting, Unresolved, Resolved
  <2>. QED
    BY <1>5, <2>1 DEF TypeOK, CutShort
<1>6. ASSUME NEW w \in Workers, Reserve(w)
      PROVE  TypeOK'
  <2>1. lease' \in LeaseRow
    BY <1>6, Constants DEF TypeOK, Reserve, Guarded, KeepLease
  <2>2. guard' \subseteq Workers
    BY <1>6 DEF TypeOK, Reserve, Guarded, KeepLease
  <2>3. attempts' \in [Members -> 0..MaxAttempts]
    BY <1>6, StageAssumption DEF TypeOK, Reserve, Count, Admits, Previous
  <2>4. attempt' \in [Workers -> [Members -> 0..MaxAttempts]]
    BY <1>6, StageAssumption DEF TypeOK, Reserve, Count, Admits, Previous
  <2>5. plan' \in [Workers -> [Members -> Plans]]
    BY <1>6 DEF TypeOK, Reserve, Plans, Unread, Waiting, Attempting, Unresolved, Resolved
  <2>. QED
    BY <1>6, <2>1, <2>2, <2>3, <2>4, <2>5 DEF TypeOK, Reserve
<1>7. ASSUME NEW w \in Workers, NEW m \in Members, Start(w, m)
      PROVE  TypeOK'
  <2>1. plan' \in [Workers -> [Members -> Plans]]
    BY <1>7, PlanMoves, PlanNames DEF TypeOK, Start
  <2>. QED
    BY <1>7, <2>1 DEF TypeOK, Start
<1>8. ASSUME NEW w \in Workers, NEW m \in Members, ClaimSource(w, m)
      PROVE  TypeOK'
  <2>own. job[w].own \in Owners \cup {Nobody}
    BY DEF TypeOK, Job
  <2>row. source[m] \in SourceRow
    BY DEF TypeOK
  <2>held. [source[m] EXCEPT !.holder = job[w].own, !.live = TRUE] \in SourceRow
    BY <2>own, <2>row DEF SourceRow
  <2>shape. attempt[w][m] \in 0..MaxAttempts /\ ran[m] \in [1..MaxAttempts -> Nat]
    BY DEF TypeOK
  <2>counted. [ran[m] EXCEPT ![attempt[w][m]] = ran[m][attempt[w][m]] + 1]
                  \in [1..MaxAttempts -> Nat]
    BY <2>shape, RanMore
  <2>1. source' \in [Members -> SourceRow]
    BY <1>8, <2>held, <2>counted, Constants DEF TypeOK, ClaimSource
  <2>2. plan' \in [Workers -> [Members -> Plans]]
    BY <1>8, <2>held, <2>counted, PlanMoves, PlanNames DEF TypeOK, ClaimSource
  <2>3. ran' \in [Members -> [1..MaxAttempts -> Nat]]
    BY <1>8, <2>held, <2>counted, StageAssumption DEF TypeOK, ClaimSource
  <2>. QED
    BY <1>8, <2>1, <2>2, <2>3 DEF TypeOK, ClaimSource
<1>9. ASSUME NEW w \in Workers, NEW m \in Members, CheckRun(w, m)
      PROVE  TypeOK'
  <2>1. source' \in [Members -> SourceRow]
    BY <1>9, SourceFreed, Constants DEF TypeOK, CheckRun
  <2>2. plan' \in [Workers -> [Members -> Plans]]
    BY <1>9, PlanMoves, PlanNames DEF TypeOK, CheckRun
  <2>. QED
    BY <1>9, <2>1, <2>2 DEF TypeOK, CheckRun
<1>10. ASSUME NEW w \in Workers, NEW m \in Members, Verify(w, m)
      PROVE  TypeOK'
  <2>1. plan' \in [Workers -> [Members -> Plans]]
    BY <1>10, PlanMoves, PlanNames DEF TypeOK, Verify
  <2>. QED
    BY <1>10, <2>1 DEF TypeOK, Verify
<1>11. ASSUME NEW w \in Workers, NEW m \in Members, Store(w, m)
      PROVE  TypeOK'
  <2>1. source' \in [Members -> SourceRow]
    BY <1>11, Constants DEF TypeOK, Store, SourceRow, Results
  <2>2. plan' \in [Workers -> [Members -> Plans]]
    BY <1>11, PlanMoves, PlanNames DEF TypeOK, Store
  <2>. QED
    BY <1>11, <2>1, <2>2 DEF TypeOK, Store
<1>12. ASSUME NEW w \in Workers, NEW m \in Members, StoreFailure(w, m)
      PROVE  TypeOK'
  <2>1. source' \in [Members -> SourceRow]
    BY <1>12, SourceFreed, Constants DEF TypeOK, StoreFailure
  <2>2. plan' \in [Workers -> [Members -> Plans]]
    BY <1>12, PlanMoves, PlanNames DEF TypeOK, StoreFailure
  <2>. QED
    BY <1>12, <2>1, <2>2 DEF TypeOK, StoreFailure
<1>13. ASSUME NEW w \in Workers, NEW m \in Members, Raise(w, m)
      PROVE  TypeOK'
  <2>1. source' \in [Members -> SourceRow]
    BY <1>13, SourceFreed, Constants DEF TypeOK, Raise
  <2>2. plan' \in [Workers -> [Members -> Plans]]
    BY <1>13, PlanMoves, PlanNames DEF TypeOK, Raise
  <2>. QED
    BY <1>13, <2>1, <2>2 DEF TypeOK, Raise
<1>14. ASSUME NEW w \in Workers, NEW m \in Members, SettleFailed(w, m)
      PROVE  TypeOK'
  <2>1. lease' \in LeaseRow
    BY <1>14, Constants DEF TypeOK, SettleFailed, Guarded
  <2>2. guard' \subseteq Workers
    BY <1>14 DEF TypeOK, SettleFailed, Guarded
  <2>3. outcome' \in [Members -> {"pending", "settled", "failed"}]
    BY <1>14 DEF TypeOK, SettleFailed
  <2>4. plan' \in [Workers -> [Members -> Plans]]
    BY <1>14, PlanMoves, PlanNames DEF TypeOK, SettleFailed
  <2>. QED
    BY <1>14, <2>1, <2>2, <2>3, <2>4 DEF TypeOK, SettleFailed
<1>15. ASSUME NEW w \in Workers, BeginSettling(w)
      PROVE  TypeOK'
  <2>1. job' \in [Workers -> Job]
    BY <1>15, JobMoves, StepNames, Constants DEF TypeOK, BeginSettling
  <2>. QED
    BY <1>15, <2>1 DEF TypeOK, BeginSettling
<1>16. ASSUME NEW w \in Workers, NEW m \in Members, Settle(w, m)
      PROVE  TypeOK'
  <2>1. plan' \in [Workers -> [Members -> Plans]]
    BY <1>16, PlanMoves, PlanNames DEF TypeOK, Settle, Settled
  <2>. QED
    BY <1>16, <2>1 DEF TypeOK, Settle
<1>17. ASSUME NEW w \in Workers, CommitPage(w)
      PROVE  TypeOK'
  <2>1. lease' \in LeaseRow
    BY <1>17, Constants DEF TypeOK, CommitPage, Guarded, KeepLease
  <2>2. guard' \subseteq Workers
    BY <1>17 DEF TypeOK, CommitPage, Guarded, KeepLease
  <2>3. outcome' \in [Members -> {"pending", "settled", "failed"}]
    BY <1>17 DEF TypeOK, CommitPage, Observed
  <2>4. job' \in [Workers -> Job]
    BY <1>17, JobMoves, StepNames, Constants DEF TypeOK, CommitPage
  <2>. QED
    BY <1>17, <2>1, <2>2, <2>3, <2>4 DEF TypeOK, CommitPage
<1>18. ASSUME NEW w \in Workers, Checkpoint(w)
      PROVE  TypeOK'
  <2>cursor. Cursor(w) \in Members \cup {0}
    BY <1>18 DEF Cursor, Last, Taken, Group, TypeOK, Job
  <2>job. job[w] \in Job
    BY DEF TypeOK
  <2>step. (IF job[w].late THEN "leaving"
            ELSE IF Cursor(w) = NMembers THEN "ending" ELSE "loading") \in Steps
    BY StepNames
  <2>saved. [job[w] EXCEPT !.after = Cursor(w),
                            !.pc = IF job[w].late THEN "leaving"
                                   ELSE IF Cursor(w) = NMembers THEN "ending" ELSE "loading"] \in Job
    BY <2>cursor, <2>job, <2>step DEF Job
  <2>1. lease' \in LeaseRow
    BY <1>18, <2>cursor, <2>saved, Constants DEF TypeOK, Checkpoint, LeaseRow, WriteLease
  <2>2. guard' \subseteq Workers
    BY <1>18, <2>cursor, <2>saved DEF TypeOK, Checkpoint, WriteLease
  <2>3. job' \in [Workers -> Job]
    BY <1>18, <2>cursor, <2>saved, Constants DEF TypeOK, Checkpoint
  <2>4. plan' \in [Workers -> [Members -> Plans]]
    BY <1>18, <2>cursor, <2>saved DEF TypeOK, Checkpoint, ForgetGroup, NoPlan, Plans, Unread
  <2>5. attempt' \in [Workers -> [Members -> 0..MaxAttempts]]
    BY <1>18, <2>cursor, <2>saved, StageAssumption
       DEF TypeOK, Checkpoint, ForgetGroup, NoCounts
  <2>. QED
    BY <1>18, <2>1, <2>2, <2>3, <2>4, <2>5 DEF TypeOK, Checkpoint
<1>19. ASSUME NEW w \in Workers, EnterEvaluate(w)
      PROVE  TypeOK'
  <2>1. lease' \in LeaseRow
    BY <1>19, Constants DEF TypeOK, EnterEvaluate, LeaseRow, WriteLease
  <2>2. guard' \subseteq Workers
    BY <1>19 DEF TypeOK, EnterEvaluate, WriteLease
  <2>3. job' \in [Workers -> Job]
    BY <1>19, JobMoves, StepNames, Constants DEF TypeOK, EnterEvaluate
  <2>. QED
    BY <1>19, <2>1, <2>2, <2>3 DEF TypeOK, EnterEvaluate
<1>20. ASSUME NEW w \in Workers, Evaluate(w)
      PROVE  TypeOK'
  <2>1. lease' \in LeaseRow
    BY <1>20, Constants DEF TypeOK, Evaluate, Guarded
  <2>2. guard' \subseteq Workers
    BY <1>20 DEF TypeOK, Evaluate, Guarded
  <2>3. frozen' \in BOOLEAN
    BY <1>20 DEF TypeOK, Evaluate
  <2>4. job' \in [Workers -> Job]
    BY <1>20, JobMoves, StepNames, Constants DEF TypeOK, Evaluate
  <2>. QED
    BY <1>20, <2>1, <2>2, <2>3, <2>4 DEF TypeOK, Evaluate
<1>21. ASSUME NEW w \in Workers, ResetCursor(w)
      PROVE  TypeOK'
  <2>1. lease' \in LeaseRow
    BY <1>21, Constants DEF TypeOK, ResetCursor, LeaseRow, WriteLease, Rewound
  <2>2. guard' \subseteq Workers
    BY <1>21 DEF TypeOK, ResetCursor, WriteLease
  <2>3. job' \in [Workers -> Job]
    BY <1>21, JobMoves, StepNames, Constants DEF TypeOK, ResetCursor
  <2>. QED
    BY <1>21, <2>1, <2>2, <2>3 DEF TypeOK, ResetCursor
<1>22. ASSUME NEW w \in Workers, Complete(w)
      PROVE  TypeOK'
  <2>1. lease' \in LeaseRow
    BY <1>22, Constants DEF TypeOK, Complete, LeaseRow, WriteLease
  <2>2. guard' \subseteq Workers
    BY <1>22 DEF TypeOK, Complete, WriteLease
  <2>3. job' \in [Workers -> Job]
    BY <1>22, JobMoves, StepNames, Constants DEF TypeOK, Complete
  <2>. QED
    BY <1>22, <2>1, <2>2, <2>3 DEF TypeOK, Complete
<1>23. ASSUME NEW w \in Workers, Leave(w)
      PROVE  TypeOK'
  <2>1. job' \in [Workers -> Job]
    BY <1>23, JobMoves, StepNames, Constants DEF TypeOK, Leave
  <2>. QED
    BY <1>23, <2>1 DEF TypeOK, Leave
<1>24. ASSUME NEW w \in Workers, Release(w)
      PROVE  TypeOK'
  <2>1. lease' \in LeaseRow
    BY <1>24, Constants DEF TypeOK, Release, LeaseRow, WriteLease, Released, KeepLease
  <2>2. guard' \subseteq Workers
    BY <1>24 DEF TypeOK, Release, Released, WriteLease, KeepLease
  <2>3. job' \in [Workers -> Job]
    BY <1>24, NoJobTyped, Constants DEF TypeOK, Release, Job
  <2>4. plan' \in [Workers -> [Members -> Plans]]
    BY <1>24 DEF TypeOK, Release, ForgetGroup, NoPlan, Plans, Unread
  <2>5. attempt' \in [Workers -> [Members -> 0..MaxAttempts]]
    BY <1>24, StageAssumption DEF TypeOK, Release, ForgetGroup, NoCounts
  <2>. QED
    BY <1>24, <2>1, <2>2, <2>3, <2>4, <2>5 DEF TypeOK, Release
<1>25. ASSUME NEW w \in Workers, Crash(w)
      PROVE  TypeOK'
  <2>1. guard' \subseteq Workers
    BY <1>25 DEF TypeOK, Crash
  <2>2. job' \in [Workers -> Job]
    BY <1>25, NoJobTyped, Constants DEF TypeOK, Crash, Job
  <2>3. plan' \in [Workers -> [Members -> Plans]]
    BY <1>25 DEF TypeOK, Crash, ForgetGroup, NoPlan, Plans, Unread
  <2>4. attempt' \in [Workers -> [Members -> 0..MaxAttempts]]
    BY <1>25, StageAssumption DEF TypeOK, Crash, ForgetGroup, NoCounts
  <2>5. disturb' \in 0..MaxDisturb
    BY <1>25, StageAssumption DEF TypeOK, Crash, Disturb
  <2>. QED
    BY <1>25, <2>1, <2>2, <2>3, <2>4, <2>5 DEF TypeOK, Crash
<1>26. ASSUME NEW w \in Workers, Deadline(w)
      PROVE  TypeOK'
  <2>1. job' \in [Workers -> Job]
    BY <1>26, Constants DEF TypeOK, Deadline, Job
  <2>2. disturb' \in 0..MaxDisturb
    BY <1>26, StageAssumption DEF TypeOK, Deadline, Disturb
  <2>. QED
    BY <1>26, <2>1, <2>2 DEF TypeOK, Deadline
<1>27. ASSUME LeaseLapses
      PROVE  TypeOK'
  <2>1. lease' \in LeaseRow
    BY <1>27, Constants DEF TypeOK, LeaseLapses, LeaseRow
  <2>2. disturb' \in 0..MaxDisturb
    BY <1>27, StageAssumption DEF TypeOK, LeaseLapses, Disturb
  <2>. QED
    BY <1>27, <2>1, <2>2 DEF TypeOK, LeaseLapses
<1>28. ASSUME NEW m \in Members, SourceLapses(m)
      PROVE  TypeOK'
  <2>1. source' \in [Members -> SourceRow]
    BY <1>28, Constants DEF TypeOK, SourceLapses, SourceRow
  <2>2. disturb' \in 0..MaxDisturb
    BY <1>28, StageAssumption DEF TypeOK, SourceLapses, Disturb
  <2>. QED
    BY <1>28, <2>1, <2>2 DEF TypeOK, SourceLapses
<1>29. ASSUME NEW m \in Members, OutsiderClaims(m)
      PROVE  TypeOK'
  <2>1. source' \in [Members -> SourceRow]
    BY <1>29, Constants DEF TypeOK, OutsiderClaims, SourceRow, Results
  <2>2. disturb' \in 0..MaxDisturb
    BY <1>29, StageAssumption DEF TypeOK, OutsiderClaims, Disturb
  <2>3. disputed' \subseteq Members
    BY <1>29 DEF TypeOK, OutsiderClaims, Dispute
  <2>. QED
    BY <1>29, <2>1, <2>2, <2>3 DEF TypeOK, OutsiderClaims
<1>30. ASSUME NEW m \in Members, OutsiderEnds(m)
      PROVE  TypeOK'
  <2>1. source' \in [Members -> SourceRow]
    BY <1>30, Constants DEF TypeOK, OutsiderEnds, SourceRow, Results
  <2>. QED
    BY <1>30, <2>1 DEF TypeOK, OutsiderEnds
<1>31. ASSUME NEW w \in Workers, NEW m \in Members, QualifyFails(w, m)
      PROVE  TypeOK'
  <2>1. plan' \in [Workers -> [Members -> Plans]]
    BY <1>31, PlanMoves, PlanNames DEF TypeOK, QualifyFails
  <2>2. disputed' \subseteq Members
    BY <1>31 DEF TypeOK, QualifyFails, Dispute
  <2>. QED
    BY <1>31, <2>1, <2>2 DEF TypeOK, QualifyFails
<1>32. CASE UNCHANGED vars
  BY <1>32 DEF TypeOK, vars
<1>. QED
  BY <1>1, <1>2, <1>3, <1>4, <1>5, <1>6, <1>7, <1>8, <1>9, <1>10, <1>11, <1>12, <1>13,
         <1>14, <1>15, <1>16, <1>17, <1>18, <1>19, <1>20, <1>21, <1>22, <1>23, <1>24,
         <1>25, <1>26, <1>27, <1>28, <1>29, <1>30, <1>31,
         <1>32
     DEF Next, Stage, Member

-----------------------------------------------------------------------------

(* A worker has an owner id exactly while it runs the stage ... *)
PlacedOwners == \A w \in Workers :
    job[w].own = Nobody <=> job[w].pc \in {"idle", "claiming"}

(* ... no two workers have the same one ... *)
DistinctOwners == \A w, v \in Workers :
    w # v /\ job[w].own # Nobody => job[w].own # job[v].own

(* ... a check() that is still current names the worker that made it ... *)
GuardsNamed == \A w \in guard : Named(w)

(* ... and a worker that has not loaded a group knows of no member. *)
PlansPlaced == \A w \in Workers :
    job[w].pc \in {"idle", "claiming", "loading"} => plan[w] = NoPlan
OwnersInv == PlacedOwners /\ DistinctOwners /\ GuardsNamed /\ PlansPlaced

(* Nobody and Outsider are no owners. *)
LEMMA Apart == Nobody \notin Owners /\ Outsider \notin Owners /\ Nobody # Outsider
  BY DEF Nobody, Outsider, Owners

(* Every step keeps the owners apart: claim() mints an owner id nobody holds,
   and every write of the lease row empties guard. *)
LEMMA OwnersStep == TypeOK /\ OwnersInv /\ [Next]_vars => OwnersInv'
<1> SUFFICES ASSUME TypeOK, OwnersInv, [Next]_vars PROVE OwnersInv'
  OBVIOUS
<1>1. ASSUME NEW w \in Workers, ReadRelease(w)
      PROVE  OwnersInv'
  <2>1. PlacedOwners'
    BY <1>1 DEF TypeOK, OwnersInv, PlacedOwners, DistinctOwners, GuardsNamed, Named,
           ReadRelease, MoveJob, Job
  <2>2. DistinctOwners'
    BY <1>1 DEF TypeOK, OwnersInv, DistinctOwners, PlacedOwners, GuardsNamed, Named,
           ReadRelease, MoveJob, Job
  <2>3. GuardsNamed'
    BY <1>1 DEF TypeOK, OwnersInv, GuardsNamed, Named, PlacedOwners, DistinctOwners,
           ReadRelease, MoveJob, Job
  <2>4. PlansPlaced'
    BY <1>1 DEF TypeOK, OwnersInv, PlansPlaced, NoPlan, PlacedOwners, DistinctOwners,
           GuardsNamed, Named, ReadRelease, MoveJob, Job
  <2>. QED
    BY <2>1, <2>2, <2>3, <2>4 DEF OwnersInv
<1>2. ASSUME NEW w \in Workers, Claim(w)
      PROVE  OwnersInv'
  <2>1. CASE UNCHANGED lease /\ MoveJob(w, "idle") /\ KeepLease
    <3>1. \A v \in Workers : /\ job'[v].own = job[v].own
                             /\ job'[v].pc = (IF v = w THEN "idle" ELSE job[v].pc)
      BY <2>1 DEF TypeOK, Job, MoveJob
    <3>2. job[w].pc = "claiming" /\ plan' = plan
      BY <1>2 DEF Claim
    <3>3. PlacedOwners'
      BY <3>1, <3>2 DEF OwnersInv, PlacedOwners
    <3>4. DistinctOwners'
      BY <3>1 DEF OwnersInv, DistinctOwners
    <3>5. GuardsNamed'
      BY <2>1, <3>1 DEF TypeOK, OwnersInv, GuardsNamed, Named, KeepLease
    <3>6. PlansPlaced'
      BY <3>1, <3>2 DEF OwnersInv, PlansPlaced
    <3>. QED
      BY <3>3, <3>4, <3>5, <3>6 DEF OwnersInv
  <2>2. ASSUME NEW owner \in Owners, NEW pc \in {"loading", "evaluate"},
               owner \in Fresh, guard' = {}, NEW after,
               job' = [job EXCEPT ![w] =
                          [pc |-> pc, own |-> owner, after |-> after, late |-> FALSE]]
        PROVE  OwnersInv'
    <3>1. \A v \in Workers : owner # job[v].own
      BY <2>2 DEF Fresh
    <3>2. owner # Nobody
      BY Apart
    <3>3. \A v \in Workers : job'[v].own = (IF v = w THEN owner ELSE job[v].own)
                               /\ job'[v].pc = (IF v = w THEN pc ELSE job[v].pc)
      BY <2>2 DEF TypeOK
    <3>4. job[w].pc = "claiming" /\ plan' = plan
      BY <1>2 DEF Claim
    <3>5. PlacedOwners'
      BY <3>2, <3>3 DEF OwnersInv, PlacedOwners
    <3>6. DistinctOwners'
      BY <3>1, <3>2, <3>3 DEF OwnersInv, DistinctOwners
    <3>7. PlansPlaced'
      BY <3>3, <3>4 DEF OwnersInv, PlansPlaced
    <3>. QED
      BY <2>2, <3>5, <3>6, <3>7 DEF OwnersInv, GuardsNamed
  <2>. DEFINE owner == CHOOSE o \in Fresh : TRUE
  <2>3. CASE Fresh # {} /\ guard' = {} /\ job' = [job EXCEPT ![w] =
               [pc |-> IF lease.phase = "sources" THEN "loading" ELSE "evaluate",
                own |-> owner, after |-> lease.after, late |-> FALSE]]
    <3>1. owner \in Fresh
      BY <2>3
    <3>2. owner \in Owners
      BY <3>1 DEF Fresh
    <3>. HIDE DEF owner
    <3>. QED
      BY <2>2, <2>3, <3>1, <3>2
  <2>. QED
    BY <1>2, <2>1, <2>3 DEF Claim, WriteLease, KeepLease
<1>3. ASSUME NEW w \in Workers, Check(w)
      PROVE  OwnersInv'
  <2>1. PlacedOwners'
    BY <1>3 DEF TypeOK, OwnersInv, PlacedOwners, DistinctOwners, GuardsNamed, Named, Check,
           Holds, Owned, Job
  <2>2. DistinctOwners'
    BY <1>3 DEF TypeOK, OwnersInv, DistinctOwners, PlacedOwners, GuardsNamed, Named, Check,
           Holds, Owned, Job
  <2>3. GuardsNamed'
    BY <1>3 DEF TypeOK, OwnersInv, GuardsNamed, Named, PlacedOwners, DistinctOwners, Check,
           Holds, Owned, Job
  <2>4. PlansPlaced'
    BY <1>3 DEF TypeOK, OwnersInv, PlansPlaced, NoPlan, PlacedOwners, DistinctOwners,
           GuardsNamed, Named, Check, Holds, Owned, Job
  <2>. QED
    BY <2>1, <2>2, <2>3, <2>4 DEF OwnersInv
<1>4. ASSUME NEW w \in Workers, Load(w)
      PROVE  OwnersInv'
  <2>1. PlacedOwners'
    BY <1>4 DEF TypeOK, OwnersInv, PlacedOwners, DistinctOwners, GuardsNamed, Named, Load,
           MoveJob, Job
  <2>2. DistinctOwners'
    BY <1>4 DEF TypeOK, OwnersInv, DistinctOwners, PlacedOwners, GuardsNamed, Named, Load,
           MoveJob, Job
  <2>3. GuardsNamed'
    BY <1>4 DEF TypeOK, OwnersInv, GuardsNamed, Named, PlacedOwners, DistinctOwners, Load,
           MoveJob, Job
  <2>4. PlansPlaced'
    BY <1>4 DEF TypeOK, OwnersInv, PlansPlaced, NoPlan, PlacedOwners, DistinctOwners,
           GuardsNamed, Named, Load, MoveJob, Job
  <2>. QED
    BY <2>1, <2>2, <2>3, <2>4 DEF OwnersInv
<1>5. ASSUME NEW w \in Workers, CutShort(w)
      PROVE  OwnersInv'
  <2>1. PlacedOwners'
    BY <1>5 DEF TypeOK, OwnersInv, PlacedOwners, DistinctOwners, GuardsNamed, Named,
           CutShort, Job
  <2>2. DistinctOwners'
    BY <1>5 DEF TypeOK, OwnersInv, DistinctOwners, PlacedOwners, GuardsNamed, Named,
           CutShort, Job
  <2>3. GuardsNamed'
    BY <1>5 DEF TypeOK, OwnersInv, GuardsNamed, Named, PlacedOwners, DistinctOwners,
           CutShort, Job
  <2>4. PlansPlaced'
    BY <1>5 DEF TypeOK, OwnersInv, PlansPlaced, NoPlan, PlacedOwners, DistinctOwners,
           GuardsNamed, Named, CutShort, Job
  <2>. QED
    BY <2>1, <2>2, <2>3, <2>4 DEF OwnersInv
<1>6. ASSUME NEW w \in Workers, Reserve(w)
      PROVE  OwnersInv'
  <2>1. PlacedOwners'
    BY <1>6 DEF TypeOK, OwnersInv, PlacedOwners, DistinctOwners, GuardsNamed, Named,
           Reserve, KeepLease, Guarded, Job
  <2>2. DistinctOwners'
    BY <1>6 DEF TypeOK, OwnersInv, DistinctOwners, PlacedOwners, GuardsNamed, Named,
           Reserve, KeepLease, Guarded, Job
  <2>3. GuardsNamed'
    BY <1>6 DEF TypeOK, OwnersInv, GuardsNamed, Named, PlacedOwners, DistinctOwners,
           Reserve, KeepLease, Guarded, Job
  <2>4. PlansPlaced'
    BY <1>6 DEF TypeOK, OwnersInv, PlansPlaced, NoPlan, PlacedOwners, DistinctOwners,
           GuardsNamed, Named, Reserve, KeepLease, Guarded, Job
  <2>. QED
    BY <2>1, <2>2, <2>3, <2>4 DEF OwnersInv
<1>7. ASSUME NEW w \in Workers, NEW m \in Members, Start(w, m)
      PROVE  OwnersInv'
  <2>1. PlacedOwners'
    BY <1>7 DEF TypeOK, OwnersInv, PlacedOwners, DistinctOwners, GuardsNamed, Named, Start,
           MovePlan, Job
  <2>2. DistinctOwners'
    BY <1>7 DEF TypeOK, OwnersInv, DistinctOwners, PlacedOwners, GuardsNamed, Named, Start,
           MovePlan, Job
  <2>3. GuardsNamed'
    BY <1>7 DEF TypeOK, OwnersInv, GuardsNamed, Named, PlacedOwners, DistinctOwners, Start,
           MovePlan, Job
  <2>4. PlansPlaced'
    BY <1>7 DEF TypeOK, OwnersInv, PlansPlaced, NoPlan, PlacedOwners, DistinctOwners,
           GuardsNamed, Named, Start, MovePlan, Job
  <2>. QED
    BY <2>1, <2>2, <2>3, <2>4 DEF OwnersInv
<1>8. ASSUME NEW w \in Workers, NEW m \in Members, ClaimSource(w, m)
      PROVE  OwnersInv'
  <2>1. PlacedOwners'
    BY <1>8 DEF TypeOK, OwnersInv, PlacedOwners, DistinctOwners, GuardsNamed, Named,
           ClaimSource, MovePlan, Job
  <2>2. DistinctOwners'
    BY <1>8 DEF TypeOK, OwnersInv, DistinctOwners, PlacedOwners, GuardsNamed, Named,
           ClaimSource, MovePlan, Job
  <2>3. GuardsNamed'
    BY <1>8 DEF TypeOK, OwnersInv, GuardsNamed, Named, PlacedOwners, DistinctOwners,
           ClaimSource, MovePlan, Job
  <2>4. PlansPlaced'
    BY <1>8 DEF TypeOK, OwnersInv, PlansPlaced, NoPlan, PlacedOwners, DistinctOwners,
           GuardsNamed, Named, ClaimSource, MovePlan, Job
  <2>. QED
    BY <2>1, <2>2, <2>3, <2>4 DEF OwnersInv
<1>9. ASSUME NEW w \in Workers, NEW m \in Members, CheckRun(w, m)
      PROVE  OwnersInv'
  <2>1. PlacedOwners'
    BY <1>9 DEF TypeOK, OwnersInv, PlacedOwners, DistinctOwners, GuardsNamed, Named,
           CheckRun, MovePlan, Freed, Job
  <2>2. DistinctOwners'
    BY <1>9 DEF TypeOK, OwnersInv, DistinctOwners, PlacedOwners, GuardsNamed, Named,
           CheckRun, MovePlan, Freed, Job
  <2>3. GuardsNamed'
    BY <1>9 DEF TypeOK, OwnersInv, GuardsNamed, Named, PlacedOwners, DistinctOwners,
           CheckRun, MovePlan, Freed, Job
  <2>4. PlansPlaced'
    BY <1>9 DEF TypeOK, OwnersInv, PlansPlaced, NoPlan, PlacedOwners, DistinctOwners,
           GuardsNamed, Named, CheckRun, MovePlan, Freed, Job
  <2>. QED
    BY <2>1, <2>2, <2>3, <2>4 DEF OwnersInv
<1>10. ASSUME NEW w \in Workers, NEW m \in Members, Verify(w, m)
      PROVE  OwnersInv'
  <2>1. PlacedOwners'
    BY <1>10 DEF TypeOK, OwnersInv, PlacedOwners, DistinctOwners, GuardsNamed, Named,
           Verify, MovePlan, Job
  <2>2. DistinctOwners'
    BY <1>10 DEF TypeOK, OwnersInv, DistinctOwners, PlacedOwners, GuardsNamed, Named,
           Verify, MovePlan, Job
  <2>3. GuardsNamed'
    BY <1>10 DEF TypeOK, OwnersInv, GuardsNamed, Named, PlacedOwners, DistinctOwners,
           Verify, MovePlan, Job
  <2>4. PlansPlaced'
    BY <1>10 DEF TypeOK, OwnersInv, PlansPlaced, NoPlan, PlacedOwners, DistinctOwners,
           GuardsNamed, Named, Verify, MovePlan, Job
  <2>. QED
    BY <2>1, <2>2, <2>3, <2>4 DEF OwnersInv
<1>11. ASSUME NEW w \in Workers, NEW m \in Members, Store(w, m)
      PROVE  OwnersInv'
  <2>1. PlacedOwners'
    BY <1>11 DEF TypeOK, OwnersInv, PlacedOwners, DistinctOwners, GuardsNamed, Named,
           Store, MovePlan, Job
  <2>2. DistinctOwners'
    BY <1>11 DEF TypeOK, OwnersInv, DistinctOwners, PlacedOwners, GuardsNamed, Named,
           Store, MovePlan, Job
  <2>3. GuardsNamed'
    BY <1>11 DEF TypeOK, OwnersInv, GuardsNamed, Named, PlacedOwners, DistinctOwners,
           Store, MovePlan, Job
  <2>4. PlansPlaced'
    BY <1>11 DEF TypeOK, OwnersInv, PlansPlaced, NoPlan, PlacedOwners, DistinctOwners,
           GuardsNamed, Named, Store, MovePlan, Job
  <2>. QED
    BY <2>1, <2>2, <2>3, <2>4 DEF OwnersInv
<1>12. ASSUME NEW w \in Workers, NEW m \in Members, StoreFailure(w, m)
      PROVE  OwnersInv'
  <2>1. PlacedOwners'
    BY <1>12 DEF TypeOK, OwnersInv, PlacedOwners, DistinctOwners, GuardsNamed, Named,
           StoreFailure, MovePlan, Freed, Job
  <2>2. DistinctOwners'
    BY <1>12 DEF TypeOK, OwnersInv, DistinctOwners, PlacedOwners, GuardsNamed, Named,
           StoreFailure, MovePlan, Freed, Job
  <2>3. GuardsNamed'
    BY <1>12 DEF TypeOK, OwnersInv, GuardsNamed, Named, PlacedOwners, DistinctOwners,
           StoreFailure, MovePlan, Freed, Job
  <2>4. PlansPlaced'
    BY <1>12 DEF TypeOK, OwnersInv, PlansPlaced, NoPlan, PlacedOwners, DistinctOwners,
           GuardsNamed, Named, StoreFailure, MovePlan, Freed, Job
  <2>. QED
    BY <2>1, <2>2, <2>3, <2>4 DEF OwnersInv
<1>13. ASSUME NEW w \in Workers, NEW m \in Members, Raise(w, m)
      PROVE  OwnersInv'
  <2>1. PlacedOwners'
    BY <1>13 DEF TypeOK, OwnersInv, PlacedOwners, DistinctOwners, GuardsNamed, Named,
           Raise, MovePlan, Freed, Job
  <2>2. DistinctOwners'
    BY <1>13 DEF TypeOK, OwnersInv, DistinctOwners, PlacedOwners, GuardsNamed, Named,
           Raise, MovePlan, Freed, Job
  <2>3. GuardsNamed'
    BY <1>13 DEF TypeOK, OwnersInv, GuardsNamed, Named, PlacedOwners, DistinctOwners,
           Raise, MovePlan, Freed, Job
  <2>4. PlansPlaced'
    BY <1>13 DEF TypeOK, OwnersInv, PlansPlaced, NoPlan, PlacedOwners, DistinctOwners,
           GuardsNamed, Named, Raise, MovePlan, Freed, Job
  <2>. QED
    BY <2>1, <2>2, <2>3, <2>4 DEF OwnersInv
<1>14. ASSUME NEW w \in Workers, NEW m \in Members, SettleFailed(w, m)
      PROVE  OwnersInv'
  <2>1. PlacedOwners'
    BY <1>14 DEF TypeOK, OwnersInv, PlacedOwners, DistinctOwners, GuardsNamed, Named,
           SettleFailed, MovePlan, Guarded, Job
  <2>2. DistinctOwners'
    BY <1>14 DEF TypeOK, OwnersInv, DistinctOwners, PlacedOwners, GuardsNamed, Named,
           SettleFailed, MovePlan, Guarded, Job
  <2>3. GuardsNamed'
    BY <1>14 DEF TypeOK, OwnersInv, GuardsNamed, Named, PlacedOwners, DistinctOwners,
           SettleFailed, MovePlan, Guarded, Job
  <2>4. PlansPlaced'
    BY <1>14 DEF TypeOK, OwnersInv, PlansPlaced, NoPlan, PlacedOwners, DistinctOwners,
           GuardsNamed, Named, SettleFailed, MovePlan, Guarded, Job
  <2>. QED
    BY <2>1, <2>2, <2>3, <2>4 DEF OwnersInv
<1>15. ASSUME NEW w \in Workers, BeginSettling(w)
      PROVE  OwnersInv'
  <2>1. PlacedOwners'
    BY <1>15 DEF TypeOK, OwnersInv, PlacedOwners, DistinctOwners, GuardsNamed, Named,
           BeginSettling, MoveJob, Job
  <2>2. DistinctOwners'
    BY <1>15 DEF TypeOK, OwnersInv, DistinctOwners, PlacedOwners, GuardsNamed, Named,
           BeginSettling, MoveJob, Job
  <2>3. GuardsNamed'
    BY <1>15 DEF TypeOK, OwnersInv, GuardsNamed, Named, PlacedOwners, DistinctOwners,
           BeginSettling, MoveJob, Job
  <2>4. PlansPlaced'
    BY <1>15 DEF TypeOK, OwnersInv, PlansPlaced, NoPlan, PlacedOwners, DistinctOwners,
           GuardsNamed, Named, BeginSettling, MoveJob, Job
  <2>. QED
    BY <2>1, <2>2, <2>3, <2>4 DEF OwnersInv
<1>16. ASSUME NEW w \in Workers, NEW m \in Members, Settle(w, m)
      PROVE  OwnersInv'
  <2>1. PlacedOwners'
    BY <1>16 DEF TypeOK, OwnersInv, PlacedOwners, DistinctOwners, GuardsNamed, Named,
           Settle, MovePlan, Job
  <2>2. DistinctOwners'
    BY <1>16 DEF TypeOK, OwnersInv, DistinctOwners, PlacedOwners, GuardsNamed, Named,
           Settle, MovePlan, Job
  <2>3. GuardsNamed'
    BY <1>16 DEF TypeOK, OwnersInv, GuardsNamed, Named, PlacedOwners, DistinctOwners,
           Settle, MovePlan, Job
  <2>4. PlansPlaced'
    BY <1>16 DEF TypeOK, OwnersInv, PlansPlaced, NoPlan, PlacedOwners, DistinctOwners,
           GuardsNamed, Named, Settle, MovePlan, Job
  <2>. QED
    BY <2>1, <2>2, <2>3, <2>4 DEF OwnersInv
<1>17. ASSUME NEW w \in Workers, CommitPage(w)
      PROVE  OwnersInv'
  <2>1. PlacedOwners'
    BY <1>17 DEF TypeOK, OwnersInv, PlacedOwners, DistinctOwners, GuardsNamed, Named,
           CommitPage, MoveJob, KeepLease, Guarded, Job
  <2>2. DistinctOwners'
    BY <1>17 DEF TypeOK, OwnersInv, DistinctOwners, PlacedOwners, GuardsNamed, Named,
           CommitPage, MoveJob, KeepLease, Guarded, Job
  <2>3. GuardsNamed'
    BY <1>17 DEF TypeOK, OwnersInv, GuardsNamed, Named, PlacedOwners, DistinctOwners,
           CommitPage, MoveJob, KeepLease, Guarded, Job
  <2>4. PlansPlaced'
    BY <1>17 DEF TypeOK, OwnersInv, PlansPlaced, NoPlan, PlacedOwners, DistinctOwners,
           GuardsNamed, Named, CommitPage, MoveJob, KeepLease, Guarded, Job
  <2>. QED
    BY <2>1, <2>2, <2>3, <2>4 DEF OwnersInv
<1>18. ASSUME NEW w \in Workers, Checkpoint(w)
      PROVE  OwnersInv'
  <2>1. PlacedOwners'
    BY <1>18 DEF TypeOK, OwnersInv, PlacedOwners, DistinctOwners, GuardsNamed, Named,
           Checkpoint, WriteLease, ForgetGroup, Job
  <2>2. DistinctOwners'
    BY <1>18 DEF TypeOK, OwnersInv, DistinctOwners, PlacedOwners, GuardsNamed, Named,
           Checkpoint, WriteLease, ForgetGroup, Job
  <2>3. GuardsNamed'
    BY <1>18 DEF TypeOK, OwnersInv, GuardsNamed, Named, PlacedOwners, DistinctOwners,
           Checkpoint, WriteLease, ForgetGroup, Job
  <2>4. PlansPlaced'
    BY <1>18 DEF TypeOK, OwnersInv, PlansPlaced, NoPlan, PlacedOwners, DistinctOwners,
           GuardsNamed, Named, Checkpoint, WriteLease, ForgetGroup, Job
  <2>. QED
    BY <2>1, <2>2, <2>3, <2>4 DEF OwnersInv
<1>19. ASSUME NEW w \in Workers, EnterEvaluate(w)
      PROVE  OwnersInv'
  <2>1. PlacedOwners'
    BY <1>19 DEF TypeOK, OwnersInv, PlacedOwners, DistinctOwners, GuardsNamed, Named,
           EnterEvaluate, MoveJob, WriteLease, Job
  <2>2. DistinctOwners'
    BY <1>19 DEF TypeOK, OwnersInv, DistinctOwners, PlacedOwners, GuardsNamed, Named,
           EnterEvaluate, MoveJob, WriteLease, Job
  <2>3. GuardsNamed'
    BY <1>19 DEF TypeOK, OwnersInv, GuardsNamed, Named, PlacedOwners, DistinctOwners,
           EnterEvaluate, MoveJob, WriteLease, Job
  <2>4. PlansPlaced'
    BY <1>19 DEF TypeOK, OwnersInv, PlansPlaced, NoPlan, PlacedOwners, DistinctOwners,
           GuardsNamed, Named, EnterEvaluate, MoveJob, WriteLease, Job
  <2>. QED
    BY <2>1, <2>2, <2>3, <2>4 DEF OwnersInv
<1>20. ASSUME NEW w \in Workers, Evaluate(w)
      PROVE  OwnersInv'
  <2>1. PlacedOwners'
    BY <1>20 DEF TypeOK, OwnersInv, PlacedOwners, DistinctOwners, GuardsNamed, Named,
           Evaluate, MoveJob, Guarded, Job
  <2>2. DistinctOwners'
    BY <1>20 DEF TypeOK, OwnersInv, DistinctOwners, PlacedOwners, GuardsNamed, Named,
           Evaluate, MoveJob, Guarded, Job
  <2>3. GuardsNamed'
    BY <1>20 DEF TypeOK, OwnersInv, GuardsNamed, Named, PlacedOwners, DistinctOwners,
           Evaluate, MoveJob, Guarded, Job
  <2>4. PlansPlaced'
    BY <1>20 DEF TypeOK, OwnersInv, PlansPlaced, NoPlan, PlacedOwners, DistinctOwners,
           GuardsNamed, Named, Evaluate, MoveJob, Guarded, Job
  <2>. QED
    BY <2>1, <2>2, <2>3, <2>4 DEF OwnersInv
<1>21. ASSUME NEW w \in Workers, ResetCursor(w)
      PROVE  OwnersInv'
  <2>1. PlacedOwners'
    BY <1>21 DEF TypeOK, OwnersInv, PlacedOwners, DistinctOwners, GuardsNamed, Named,
           ResetCursor, MoveJob, WriteLease, Rewound, Job
  <2>2. DistinctOwners'
    BY <1>21 DEF TypeOK, OwnersInv, DistinctOwners, PlacedOwners, GuardsNamed, Named,
           ResetCursor, MoveJob, WriteLease, Rewound, Job
  <2>3. GuardsNamed'
    BY <1>21 DEF TypeOK, OwnersInv, GuardsNamed, Named, PlacedOwners, DistinctOwners,
           ResetCursor, MoveJob, WriteLease, Rewound, Job
  <2>4. PlansPlaced'
    BY <1>21 DEF TypeOK, OwnersInv, PlansPlaced, NoPlan, PlacedOwners, DistinctOwners,
           GuardsNamed, Named, ResetCursor, MoveJob, WriteLease, Rewound, Job
  <2>. QED
    BY <2>1, <2>2, <2>3, <2>4 DEF OwnersInv
<1>22. ASSUME NEW w \in Workers, Complete(w)
      PROVE  OwnersInv'
  <2>1. PlacedOwners'
    BY <1>22 DEF TypeOK, OwnersInv, PlacedOwners, DistinctOwners, GuardsNamed, Named,
           Complete, MoveJob, WriteLease, Job
  <2>2. DistinctOwners'
    BY <1>22 DEF TypeOK, OwnersInv, DistinctOwners, PlacedOwners, GuardsNamed, Named,
           Complete, MoveJob, WriteLease, Job
  <2>3. GuardsNamed'
    BY <1>22 DEF TypeOK, OwnersInv, GuardsNamed, Named, PlacedOwners, DistinctOwners,
           Complete, MoveJob, WriteLease, Job
  <2>4. PlansPlaced'
    BY <1>22 DEF TypeOK, OwnersInv, PlansPlaced, NoPlan, PlacedOwners, DistinctOwners,
           GuardsNamed, Named, Complete, MoveJob, WriteLease, Job
  <2>. QED
    BY <2>1, <2>2, <2>3, <2>4 DEF OwnersInv
<1>23. ASSUME NEW w \in Workers, Leave(w)
      PROVE  OwnersInv'
  <2>1. PlacedOwners'
    BY <1>23 DEF TypeOK, OwnersInv, PlacedOwners, DistinctOwners, GuardsNamed, Named,
           Leave, MoveJob, Job
  <2>2. DistinctOwners'
    BY <1>23 DEF TypeOK, OwnersInv, DistinctOwners, PlacedOwners, GuardsNamed, Named,
           Leave, MoveJob, Job
  <2>3. GuardsNamed'
    BY <1>23 DEF TypeOK, OwnersInv, GuardsNamed, Named, PlacedOwners, DistinctOwners,
           Leave, MoveJob, Job
  <2>4. PlansPlaced'
    BY <1>23 DEF TypeOK, OwnersInv, PlansPlaced, NoPlan, PlacedOwners, DistinctOwners,
           GuardsNamed, Named, Leave, MoveJob, Job
  <2>. QED
    BY <2>1, <2>2, <2>3, <2>4 DEF OwnersInv
<1>24. ASSUME NEW w \in Workers, Release(w)
      PROVE  OwnersInv'
  <2>1. PlacedOwners'
    BY <1>24 DEF TypeOK, OwnersInv, PlacedOwners, DistinctOwners, GuardsNamed, Named,
           Release, NoJob, KeepLease, WriteLease, ForgetGroup, Released, Job
  <2>2. DistinctOwners'
    BY <1>24 DEF TypeOK, OwnersInv, DistinctOwners, PlacedOwners, GuardsNamed, Named,
           Release, NoJob, KeepLease, WriteLease, ForgetGroup, Released, Job
  <2>3. GuardsNamed'
    BY <1>24 DEF TypeOK, OwnersInv, GuardsNamed, Named, PlacedOwners, DistinctOwners,
           Release, NoJob, KeepLease, WriteLease, ForgetGroup, Released, Job
  <2>4. PlansPlaced'
    BY <1>24 DEF TypeOK, OwnersInv, PlansPlaced, NoPlan, PlacedOwners, DistinctOwners,
           GuardsNamed, Named, Release, NoJob, KeepLease, WriteLease, ForgetGroup,
           Released, Job
  <2>. QED
    BY <2>1, <2>2, <2>3, <2>4 DEF OwnersInv
<1>25. ASSUME NEW w \in Workers, Crash(w)
      PROVE  OwnersInv'
  <2>1. PlacedOwners'
    BY <1>25 DEF TypeOK, OwnersInv, PlacedOwners, DistinctOwners, GuardsNamed, Named,
           Crash, NoJob, ForgetGroup, Job
  <2>2. DistinctOwners'
    BY <1>25 DEF TypeOK, OwnersInv, DistinctOwners, PlacedOwners, GuardsNamed, Named,
           Crash, NoJob, ForgetGroup, Job
  <2>3. GuardsNamed'
    BY <1>25 DEF TypeOK, OwnersInv, GuardsNamed, Named, PlacedOwners, DistinctOwners,
           Crash, NoJob, ForgetGroup, Job
  <2>4. PlansPlaced'
    BY <1>25 DEF TypeOK, OwnersInv, PlansPlaced, NoPlan, PlacedOwners, DistinctOwners,
           GuardsNamed, Named, Crash, NoJob, ForgetGroup, Job
  <2>. QED
    BY <2>1, <2>2, <2>3, <2>4 DEF OwnersInv
<1>26. ASSUME NEW w \in Workers, Deadline(w)
      PROVE  OwnersInv'
  <2>1. PlacedOwners'
    BY <1>26 DEF TypeOK, OwnersInv, PlacedOwners, DistinctOwners, GuardsNamed, Named,
           Deadline, Job
  <2>2. DistinctOwners'
    BY <1>26 DEF TypeOK, OwnersInv, DistinctOwners, PlacedOwners, GuardsNamed, Named,
           Deadline, Job
  <2>3. GuardsNamed'
    BY <1>26 DEF TypeOK, OwnersInv, GuardsNamed, Named, PlacedOwners, DistinctOwners,
           Deadline, Job
  <2>4. PlansPlaced'
    BY <1>26 DEF TypeOK, OwnersInv, PlansPlaced, NoPlan, PlacedOwners, DistinctOwners,
           GuardsNamed, Named, Deadline, Job
  <2>. QED
    BY <2>1, <2>2, <2>3, <2>4 DEF OwnersInv
<1>27. ASSUME LeaseLapses
      PROVE  OwnersInv'
  <2>1. PlacedOwners'
    BY <1>27 DEF TypeOK, OwnersInv, PlacedOwners, DistinctOwners, GuardsNamed, Named,
           LeaseLapses, Job
  <2>2. DistinctOwners'
    BY <1>27 DEF TypeOK, OwnersInv, DistinctOwners, PlacedOwners, GuardsNamed, Named,
           LeaseLapses, Job
  <2>3. GuardsNamed'
    BY <1>27 DEF TypeOK, OwnersInv, GuardsNamed, Named, PlacedOwners, DistinctOwners,
           LeaseLapses, Job
  <2>4. PlansPlaced'
    BY <1>27 DEF TypeOK, OwnersInv, PlansPlaced, NoPlan, PlacedOwners, DistinctOwners,
           GuardsNamed, Named, LeaseLapses, Job
  <2>. QED
    BY <2>1, <2>2, <2>3, <2>4 DEF OwnersInv
<1>28. ASSUME NEW m \in Members, SourceLapses(m)
      PROVE  OwnersInv'
  BY <1>28 DEF OwnersInv, PlacedOwners, DistinctOwners, GuardsNamed, Named, PlansPlaced,
         NoPlan, SourceLapses
<1>29. ASSUME NEW m \in Members, OutsiderClaims(m)
      PROVE  OwnersInv'
  BY <1>29 DEF OwnersInv, PlacedOwners, DistinctOwners, GuardsNamed, Named, PlansPlaced,
         NoPlan, OutsiderClaims
<1>30. ASSUME NEW m \in Members, OutsiderEnds(m)
      PROVE  OwnersInv'
  BY <1>30 DEF OwnersInv, PlacedOwners, DistinctOwners, GuardsNamed, Named, PlansPlaced,
         NoPlan, OutsiderEnds
<1>31. ASSUME NEW w \in Workers, NEW m \in Members, QualifyFails(w, m)
      PROVE  OwnersInv'
  <2>1. PlacedOwners'
    BY <1>31 DEF TypeOK, OwnersInv, PlacedOwners, DistinctOwners, GuardsNamed, Named,
           QualifyFails, MovePlan, Job
  <2>2. DistinctOwners'
    BY <1>31 DEF TypeOK, OwnersInv, DistinctOwners, PlacedOwners, GuardsNamed, Named,
           QualifyFails, MovePlan, Job
  <2>3. GuardsNamed'
    BY <1>31 DEF TypeOK, OwnersInv, GuardsNamed, Named, PlacedOwners, DistinctOwners,
           QualifyFails, MovePlan, Job
  <2>4. PlansPlaced'
    BY <1>31 DEF TypeOK, OwnersInv, PlansPlaced, NoPlan, PlacedOwners, DistinctOwners,
           GuardsNamed, Named, QualifyFails, MovePlan, Job
  <2>. QED
    BY <2>1, <2>2, <2>3, <2>4 DEF OwnersInv
<1>32. CASE UNCHANGED vars
  BY <1>32 DEF OwnersInv, PlacedOwners, DistinctOwners, GuardsNamed, Named, PlansPlaced,
         NoPlan, vars
<1>. QED
  BY <1>1, <1>2, <1>3, <1>4, <1>5, <1>6, <1>7, <1>8, <1>9, <1>10, <1>11, <1>12, <1>13,
         <1>14, <1>15, <1>16, <1>17, <1>18, <1>19, <1>20, <1>21, <1>22, <1>23, <1>24,
         <1>25, <1>26, <1>27, <1>28, <1>29, <1>30, <1>31,
         <1>32
     DEF Next, Stage, Member

(* No step of a worker v whose claim was replaced changes the lease, the
   evidence, the counters or the state of the wave: what it writes carries a
   guard it does not have, or starts with an ownership check it fails. *)
LEMMA SupersededStep ==
    ASSUME TypeOK, OwnersInv, Next, NEW v \in Workers, Superseded(v),
           job'[v] # job[v] \/ plan'[v] # plan[v],
           ~ UNCHANGED <<lease, outcome, attempts, frozen>>
    PROVE  FALSE
<1>1. ASSUME NEW w \in Workers, ReadRelease(w)
      PROVE  FALSE
  <2>1. v = w
    BY <1>1 DEF TypeOK, ReadRelease, MoveJob
  <2>. QED
    BY <1>1, <2>1 DEF ReadRelease
<1>2. ASSUME NEW w \in Workers, Claim(w)
      PROVE  FALSE
  <2>1. v = w
    BY <1>2 DEF TypeOK, Claim, MoveJob
  <2>. QED
    BY <1>2, <2>1 DEF Claim, OwnersInv, PlacedOwners, Superseded
<1>3. ASSUME NEW w \in Workers, Check(w)
      PROVE  FALSE
  <2>1. v = w
    BY <1>3 DEF TypeOK, Check
  <2>. QED
    BY <1>3, <2>1 DEF Check
<1>4. ASSUME NEW w \in Workers, Load(w)
      PROVE  FALSE
  <2>1. v = w
    BY <1>4 DEF TypeOK, Load, MoveJob
  <2>. QED
    BY <1>4, <2>1 DEF Load
<1>5. ASSUME NEW w \in Workers, CutShort(w)
      PROVE  FALSE
  <2>1. v = w
    BY <1>5 DEF TypeOK, CutShort
  <2>. QED
    BY <1>5, <2>1 DEF CutShort
<1>6. ASSUME NEW w \in Workers, Reserve(w)
      PROVE  FALSE
  <2>1. v = w
    BY <1>6 DEF TypeOK, Reserve
  <2>2. v \notin guard
    BY DEF OwnersInv, GuardsNamed, Named, Superseded
  <2>3. ASSUME NEW last \in Members,
               ~ \E m \in {k \in Members : k <= last /\ plan[w][k] = "runnable"} : Admits(m),
               attempts' = [m \in Members |->
                               IF m \in {k \in Members : k <= last /\ plan[w][k] = "runnable"}
                               THEN Count(m) ELSE attempts[m]]
        PROVE  attempts' = attempts
    BY <2>3 DEF TypeOK, Count, Previous
  <2>. QED
    BY <1>6, <2>1, <2>2, <2>3 DEF Reserve, Guarded, KeepLease
<1>7. ASSUME NEW w \in Workers, NEW m \in Members, Start(w, m)
      PROVE  FALSE
  <2>1. v = w
    BY <1>7 DEF TypeOK, Start, MovePlan
  <2>. QED
    BY <1>7, <2>1 DEF Start
<1>8. ASSUME NEW w \in Workers, NEW m \in Members, ClaimSource(w, m)
      PROVE  FALSE
  <2>1. v = w
    BY <1>8 DEF TypeOK, ClaimSource, MovePlan
  <2>. QED
    BY <1>8, <2>1 DEF ClaimSource
<1>9. ASSUME NEW w \in Workers, NEW m \in Members, CheckRun(w, m)
      PROVE  FALSE
  <2>1. v = w
    BY <1>9 DEF TypeOK, CheckRun, MovePlan
  <2>. QED
    BY <1>9, <2>1 DEF CheckRun
<1>10. ASSUME NEW w \in Workers, NEW m \in Members, Verify(w, m)
      PROVE  FALSE
  <2>1. v = w
    BY <1>10 DEF TypeOK, Verify, MovePlan
  <2>. QED
    BY <1>10, <2>1 DEF Verify
<1>11. ASSUME NEW w \in Workers, NEW m \in Members, Store(w, m)
      PROVE  FALSE
  <2>1. v = w
    BY <1>11 DEF TypeOK, Store, MovePlan
  <2>. QED
    BY <1>11, <2>1 DEF Store
<1>12. ASSUME NEW w \in Workers, NEW m \in Members, StoreFailure(w, m)
      PROVE  FALSE
  <2>1. v = w
    BY <1>12 DEF TypeOK, StoreFailure, MovePlan
  <2>. QED
    BY <1>12, <2>1 DEF StoreFailure
<1>13. ASSUME NEW w \in Workers, NEW m \in Members, Raise(w, m)
      PROVE  FALSE
  <2>1. v = w
    BY <1>13 DEF TypeOK, Raise, MovePlan
  <2>. QED
    BY <1>13, <2>1 DEF Raise
<1>14. ASSUME NEW w \in Workers, NEW m \in Members, SettleFailed(w, m)
      PROVE  FALSE
  <2>1. v = w
    BY <1>14 DEF TypeOK, SettleFailed, MovePlan
  <2>2. v \notin guard
    BY DEF OwnersInv, GuardsNamed, Named, Superseded
  <2>. QED
    BY <1>14, <2>1, <2>2 DEF SettleFailed, Guarded
<1>15. ASSUME NEW w \in Workers, BeginSettling(w)
      PROVE  FALSE
  <2>1. v = w
    BY <1>15 DEF TypeOK, BeginSettling, MoveJob
  <2>. QED
    BY <1>15, <2>1 DEF BeginSettling
<1>16. ASSUME NEW w \in Workers, NEW m \in Members, Settle(w, m)
      PROVE  FALSE
  <2>1. v = w
    BY <1>16 DEF TypeOK, Settle, MovePlan
  <2>. QED
    BY <1>16, <2>1 DEF Settle
<1>17. ASSUME NEW w \in Workers, CommitPage(w)
      PROVE  FALSE
  <2>1. v = w
    BY <1>17 DEF TypeOK, CommitPage, MoveJob
  <2>2. v \notin guard
    BY DEF OwnersInv, GuardsNamed, Named, Superseded
  <2>. QED
    BY <1>17, <2>1, <2>2 DEF CommitPage, Guarded, KeepLease
<1>18. ASSUME NEW w \in Workers, Checkpoint(w)
      PROVE  FALSE
  <2>1. v = w
    BY <1>18 DEF TypeOK, Checkpoint, ForgetGroup
  <2>. QED
    BY <1>18, <2>1 DEF Checkpoint, Owned, Named, Superseded
<1>19. ASSUME NEW w \in Workers, EnterEvaluate(w)
      PROVE  FALSE
  <2>1. v = w
    BY <1>19 DEF TypeOK, EnterEvaluate, MoveJob
  <2>. QED
    BY <1>19, <2>1 DEF EnterEvaluate, Owned, Named, Superseded
<1>20. ASSUME NEW w \in Workers, Evaluate(w)
      PROVE  FALSE
  <2>1. v = w
    BY <1>20 DEF TypeOK, Evaluate, MoveJob
  <2>2. v \notin guard
    BY DEF OwnersInv, GuardsNamed, Named, Superseded
  <2>. QED
    BY <1>20, <2>1, <2>2 DEF Evaluate, Guarded
<1>21. ASSUME NEW w \in Workers, ResetCursor(w)
      PROVE  FALSE
  <2>1. v = w
    BY <1>21 DEF TypeOK, ResetCursor, MoveJob
  <2>. QED
    BY <1>21, <2>1 DEF ResetCursor, Owned, Named, Superseded
<1>22. ASSUME NEW w \in Workers, Complete(w)
      PROVE  FALSE
  <2>1. v = w
    BY <1>22 DEF TypeOK, Complete, MoveJob
  <2>. QED
    BY <1>22, <2>1 DEF Complete, Owned, Named, Superseded
<1>23. ASSUME NEW w \in Workers, Leave(w)
      PROVE  FALSE
  <2>1. v = w
    BY <1>23 DEF TypeOK, Leave, MoveJob
  <2>. QED
    BY <1>23, <2>1 DEF Leave
<1>24. ASSUME NEW w \in Workers, Release(w)
      PROVE  FALSE
  <2>1. v = w
    BY <1>24 DEF TypeOK, Release, ForgetGroup
  <2>. QED
    BY <1>24, <2>1 DEF Release, KeepLease, Released, Owned, Named, Superseded
<1>25. ASSUME NEW w \in Workers, Crash(w)
      PROVE  FALSE
  <2>1. v = w
    BY <1>25 DEF TypeOK, Crash, ForgetGroup
  <2>. QED
    BY <1>25, <2>1 DEF Crash
<1>26. ASSUME NEW w \in Workers, Deadline(w)
      PROVE  FALSE
  <2>1. v = w
    BY <1>26 DEF TypeOK, Deadline
  <2>. QED
    BY <1>26, <2>1 DEF Deadline
<1>27. ASSUME LeaseLapses
      PROVE  FALSE
  BY <1>27 DEF LeaseLapses
<1>28. ASSUME NEW m \in Members, SourceLapses(m)
      PROVE  FALSE
  BY <1>28 DEF SourceLapses
<1>29. ASSUME NEW m \in Members, OutsiderClaims(m)
      PROVE  FALSE
  BY <1>29 DEF OutsiderClaims
<1>30. ASSUME NEW m \in Members, OutsiderEnds(m)
      PROVE  FALSE
  BY <1>30 DEF OutsiderEnds
<1>31. ASSUME NEW w \in Workers, NEW m \in Members, QualifyFails(w, m)
      PROVE  FALSE
  BY <1>31 DEF QualifyFails
<1>. QED
  BY <1>1, <1>2, <1>3, <1>4, <1>5, <1>6, <1>7, <1>8, <1>9, <1>10, <1>11, <1>12, <1>13,
         <1>14, <1>15, <1>16, <1>17, <1>18, <1>19, <1>20, <1>21, <1>22, <1>23, <1>24,
         <1>25, <1>26, <1>27, <1>28, <1>29, <1>30, <1>31
     DEF Next, Stage, Member

(* The stage starts in shape, without owners. *)
LEMMA TypeInit == Init => TypeOK
<1>. SUFFICES ASSUME Init PROVE TypeOK
  OBVIOUS
<1>1. lease \in LeaseRow
  BY DEF Init, LeaseRow
<1>2. source \in [Members -> SourceRow]
  BY DEF Init, SourceRow, Results
<1>3. job \in [Workers -> Job]
  BY NoJobTyped DEF Init
<1>4. plan \in [Workers -> [Members -> Plans]]
  BY PlanNames DEF Init, NoPlan
<1>5. /\ attempts \in [Members -> 0..MaxAttempts]
      /\ attempt \in [Workers -> [Members -> 0..MaxAttempts]]
      /\ disturb \in 0..MaxDisturb
  BY StageAssumption DEF Init, NoCounts
<1>6. ran \in [Members -> [1..MaxAttempts -> Nat]]
  BY DEF Init
<1>7. /\ guard \subseteq Workers
      /\ frozen \in BOOLEAN
      /\ outcome \in [Members -> {"pending", "settled", "failed"}]
      /\ disputed \subseteq Members
  BY DEF Init
<1>. QED
  BY <1>1, <1>2, <1>3, <1>4, <1>5, <1>6, <1>7 DEF TypeOK

(* ... *)
LEMMA OwnersInit == Init => OwnersInv
<1>. SUFFICES ASSUME Init PROVE OwnersInv
  OBVIOUS
<1>1. \A w \in Workers : job[w].own = Nobody /\ job[w].pc = "idle" /\ plan[w] = NoPlan
  BY DEF Init, NoJob
<1>2. guard = {}
  BY DEF Init
<1>. QED
  BY <1>1, <1>2 DEF OwnersInv, PlacedOwners, DistinctOwners, GuardsNamed, PlansPlaced

(* Every row and every local variable keeps its shape, however the deliveries
   of the release interleave, crash and replace each other. *)
THEOREM TypeCorrect == Spec => []TypeOK
<1>. QED
  BY TypeInit, TypeStep, PTL DEF Spec

(* At any time the lease row names at most one running worker, and a check()
   that is still current was made by that worker. *)
THEOREM OwnersKeptApart == Spec => [](TypeOK /\ OwnersInv)
<1>1. TypeOK /\ OwnersInv /\ [Next]_vars => (TypeOK /\ OwnersInv)'
  BY TypeStep, OwnersStep
<1>. QED
  BY TypeInit, OwnersInit, <1>1, PTL DEF Spec

(* A worker whose claim was replaced changes neither the evidence nor the state
   of the wave, neither an attempt counter nor the lease of its replacement. *)
THEOREM SupersededAreFenced == Spec => SupersededNeverWrites
<1>1. TypeOK /\ OwnersInv /\ [Next]_vars =>
          [\A w \in Workers :
              Superseded(w) /\ (job'[w] # job[w] \/ plan'[w] # plan[w])
                  => UNCHANGED <<lease, outcome, attempts, frozen>>]_vars
  BY SupersededStep
<1>. QED
  BY OwnersKeptApart, <1>1, PTL DEF Spec, SupersededNeverWrites

-----------------------------------------------------------------------------
(* A member under a reserved attempt, whatever came of it ... *)
Tried == Attempting \cup {"returned", "raised"}

(* ... and one whose models have not run yet. *)
Fresher == {"admitted", "started"}

(* An attempt number in use was reserved ... *)
NumbersReserved == \A w \in Workers : \A m \in Members :
    plan[w][m] \in Tried => attempt[w][m] \in 1..attempts[m]

(* ... by this worker alone ... *)
NumbersDistinct == \A w, v \in Workers : \A m \in Members :
    w # v /\ plan[w][m] \in Tried /\ plan[v][m] \in Tried
        => attempt[w][m] # attempt[v][m]

(* ... and nothing ran under it before the source is claimed. *)
UnusedNumbers == \A w \in Workers : \A m \in Members :
    plan[w][m] \in Fresher => ran[m][attempt[w][m]] = 0
AttemptInv == NumbersReserved /\ NumbersDistinct /\ UnusedNumbers /\ AttemptBudget

(* Most steps only take members out of their attempts. *)
Narrowing ==
    /\ UNCHANGED <<attempts, ran>>
    /\ \A w \in Workers : \A m \in Members :
          plan'[w][m] \in Tried =>
              /\ plan[w][m] \in Tried
              /\ attempt'[w][m] = attempt[w][m]
              /\ plan'[w][m] \in Fresher => plan[w][m] \in Fresher

(* Such a step keeps the attempts accounted for. *)
LEMMA NarrowingKeeps ==
    ASSUME AttemptInv, Narrowing PROVE AttemptInv'
<1>0. Fresher \subseteq Tried
  BY DEF Fresher, Tried, Attempting
<1>1. NumbersReserved'
  BY DEF AttemptInv, Narrowing, NumbersReserved
<1>2. NumbersDistinct'
  BY DEF AttemptInv, Narrowing, NumbersDistinct
<1>3. UnusedNumbers'
  BY <1>0 DEF AttemptInv, Narrowing, UnusedNumbers
<1>4. AttemptBudget'
  BY DEF AttemptInv, Narrowing, AttemptBudget
<1>. QED
  BY <1>1, <1>2, <1>3, <1>4 DEF AttemptInv

(* Moving a member that is under way anywhere but back is such a step. *)
LEMMA MoveNarrows ==
    ASSUME TypeOK, NEW w \in Workers, NEW m \in Members, NEW p, MovePlan(w, m, p),
           plan[w][m] \in Tried, p \notin Fresher, UNCHANGED <<attempts, attempt, ran>>
    PROVE  Narrowing
  BY DEF TypeOK, Narrowing, MovePlan

(* Every step keeps the attempts accounted for: a reservation takes the next
   number of the counter it increments, and a number runs once. *)
LEMMA AttemptStep == TypeOK /\ AttemptInv /\ [Next]_vars => AttemptInv'
<1> SUFFICES ASSUME TypeOK, AttemptInv, [Next]_vars PROVE AttemptInv'
  OBVIOUS
<1>1. ASSUME NEW w \in Workers, ReadRelease(w)
      PROVE  AttemptInv'
  <2>1. Narrowing
    BY <1>1 DEF TypeOK, Narrowing, ReadRelease
  <2>. QED
    BY <2>1, NarrowingKeeps
<1>2. ASSUME NEW w \in Workers, Claim(w)
      PROVE  AttemptInv'
  <2>1. Narrowing
    BY <1>2 DEF TypeOK, Narrowing, Claim
  <2>. QED
    BY <2>1, NarrowingKeeps
<1>3. ASSUME NEW w \in Workers, Check(w)
      PROVE  AttemptInv'
  <2>1. Narrowing
    BY <1>3 DEF TypeOK, Narrowing, Check
  <2>. QED
    BY <2>1, NarrowingKeeps
<1>4. ASSUME NEW w \in Workers, Load(w)
      PROVE  AttemptInv'
  <2>1. Narrowing
    BY <1>4 DEF TypeOK, Narrowing, Load, Tried, Attempting, Fresher, Inspected
  <2>. QED
    BY <2>1, NarrowingKeeps
<1>5. ASSUME NEW w \in Workers, CutShort(w)
      PROVE  AttemptInv'
  <2>1. Narrowing
    BY <1>5 DEF TypeOK, Narrowing, CutShort, Tried, Attempting, Fresher
  <2>. QED
    BY <2>1, NarrowingKeeps
<1>6. ASSUME NEW w \in Workers, Reserve(w)
      PROVE  AttemptInv'
  <2>1. PICK last \in Members :
          /\ attempts' = [m \in Members |-> IF m <= last /\ plan[w][m] = "runnable"
                                            THEN Count(m) ELSE attempts[m]]
          /\ attempt' = [attempt EXCEPT ![w] =
                 [m \in Members |-> IF m <= last /\ plan[w][m] = "runnable"
                                    THEN Count(m) ELSE attempt[w][m]]]
          /\ plan' = [plan EXCEPT ![w] =
                 [m \in Members |-> IF ~ (m <= last /\ plan[w][m] = "runnable") THEN plan[w][m]
                                    ELSE IF Admits(m) THEN "admitted" ELSE "doomed"]]
          /\ ran' = ran
    BY <1>6 DEF Reserve
  <2>. DEFINE Ready(m) == m <= last /\ plan[w][m] = "runnable"
  <2>2. \A m \in Members :
          /\ attempts[m] \in Nat
          /\ attempts'[m] \in Nat
          /\ attempts[m] <= attempts'[m]
          /\ attempts'[m] <= MaxAttempts
          /\ Ready(m) /\ Admits(m) => attempts'[m] = attempts[m] + 1
    BY <2>1, StageAssumption DEF TypeOK, Count, Admits, Previous
  <2>3. \A v \in Workers : \A m \in Members :
          plan'[v][m] \in Tried =>
             \/ /\ v = w /\ Ready(m) /\ Admits(m)
                /\ attempt'[v][m] = attempts'[m] /\ attempts'[m] = attempts[m] + 1
             \/ /\ plan'[v][m] = plan[v][m] /\ attempt'[v][m] = attempt[v][m]
                /\ v = w => ~ Ready(m)
    BY <2>1, <2>2 DEF TypeOK, Count, Tried, Attempting
  <2>4. NumbersReserved'
    BY <2>2, <2>3 DEF AttemptInv, NumbersReserved
  <2>5. NumbersDistinct'
    <3>. SUFFICES ASSUME NEW u \in Workers, NEW v \in Workers, NEW m \in Members, u # v,
                         plan'[u][m] \in Tried, plan'[v][m] \in Tried
                  PROVE  attempt'[u][m] # attempt'[v][m]
      BY DEF NumbersDistinct
    <3>. HIDE DEF Ready
    <3>1. \A x \in Workers : plan[x][m] \in Tried =>
             attempt[x][m] \in Nat /\ attempt[x][m] < attempts[m] + 1
      BY <2>2 DEF AttemptInv, NumbersReserved
    <3>. QED
      BY <2>3, <3>1 DEF AttemptInv, NumbersDistinct
  <2>6. UnusedNumbers'
    <3>. SUFFICES ASSUME NEW v \in Workers, NEW m \in Members, plan'[v][m] \in Fresher
                  PROVE  ran[m][attempt'[v][m]] = 0
      BY <2>1 DEF UnusedNumbers
    <3>1. plan'[v][m] \in Tried
      BY DEF Fresher, Tried, Attempting
    <3>2. CASE attempt'[v][m] = attempts[m] + 1 /\ attempts'[m] = attempts[m] + 1
      <4>1. attempts[m] + 1 \in 1..MaxAttempts
        BY <2>2, <3>2, StageAssumption
      <4>2. ran[m][attempts[m] + 1] <= 0 /\ ran[m][attempts[m] + 1] \in Nat
        <5>1. ran[m][attempts[m] + 1] \in Nat
          BY <4>1 DEF TypeOK
        <5>2. ran[m][attempts[m] + 1] <= (IF attempts[m] + 1 <= attempts[m] THEN 1 ELSE 0)
          BY <4>1 DEF AttemptInv, AttemptBudget
        <5>. QED
          BY <5>1, <5>2, <2>2
      <4>. QED
        BY <3>2, <4>2
    <3>3. CASE plan'[v][m] = plan[v][m] /\ attempt'[v][m] = attempt[v][m]
      BY <3>3 DEF AttemptInv, UnusedNumbers
    <3>. QED
      BY <2>3, <3>1, <3>2, <3>3
  <2>7. AttemptBudget'
    BY <2>1, <2>2, StageAssumption DEF AttemptInv, AttemptBudget, TypeOK
  <2>. QED
    BY <2>4, <2>5, <2>6, <2>7 DEF AttemptInv
<1>7. ASSUME NEW w \in Workers, NEW m \in Members, Start(w, m)
      PROVE  AttemptInv'
  <2>1. Narrowing
    BY <1>7 DEF TypeOK, Narrowing, Start, MovePlan, Tried, Attempting, Fresher
  <2>. QED
    BY <2>1, NarrowingKeeps
<1>8. ASSUME NEW w \in Workers, NEW m \in Members, ClaimSource(w, m)
      PROVE  AttemptInv'
  <2>1. CASE UNCHANGED ran
    <3>0. plan[w][m] = "started" /\ UNCHANGED <<attempts, attempt>>
          /\ (MovePlan(w, m, "raised") \/ MovePlan(w, m, "claimed") \/ MovePlan(w, m, "checked"))
      BY <1>8 DEF ClaimSource
    <3>1. Narrowing
      BY <2>1, <3>0, MoveNarrows DEF Tried, Tried, Attempting, Fresher
    <3>. QED
      BY <3>1, NarrowingKeeps
  <2>2. CASE ran # ran'
    <3>. DEFINE n == attempt[w][m]
    <3>1. plan[w][m] = "started" /\ UNCHANGED <<attempts, attempt>> /\ MovePlan(w, m, "claimed")
          /\ ran' = [ran EXCEPT ![m] = [ran[m] EXCEPT ![n] = ran[m][n] + 1]]
      BY <1>8, <2>2 DEF ClaimSource
    <3>2. n \in 1..attempts[m] /\ ran[m][n] = 0 /\ attempts[m] \in 0..MaxAttempts
      BY <3>1 DEF AttemptInv, NumbersReserved, UnusedNumbers, Tried, Attempting, Fresher,
             TypeOK
    <3>3. n \in 1..MaxAttempts
      BY <3>2, StageAssumption
    <3>4. \A v \in Workers : \A k \in Members :
            /\ plan'[v][k] \in Tried => plan[v][k] \in Tried
            /\ plan'[v][k] \in Fresher => plan[v][k] \in Fresher /\ ~ (v = w /\ k = m)
      BY <3>1 DEF TypeOK, MovePlan, Tried, Attempting, Fresher
    <3>5. \A k \in Members : \A i \in 1..MaxAttempts :
            ran'[k][i] = IF k = m /\ i = n THEN 1 ELSE ran[k][i]
      <4>1. ran \in [Members -> [1..MaxAttempts -> Nat]]
        BY DEF TypeOK
      <4>2. ran'[m] = [ran[m] EXCEPT ![n] = 1]
        BY <3>1, <3>2, <4>1
      <4>3. \A k \in Members : k # m => ran'[k] = ran[k]
        BY <3>1, <4>1
      <4>4. ran[m] \in [1..MaxAttempts -> Nat]
        BY <4>1
      <4>. HIDE DEF n
      <4>5. \A i \in 1..MaxAttempts : ran'[m][i] = IF i = n THEN 1 ELSE ran[m][i]
        BY <4>2, <4>4
      <4>. QED
        BY <4>3, <4>5
    <3>6. NumbersReserved'
      BY <3>1, <3>4 DEF AttemptInv, NumbersReserved
    <3>7. NumbersDistinct'
      BY <3>1, <3>4 DEF AttemptInv, NumbersDistinct
    <3>8. UnusedNumbers'
      <4>. SUFFICES ASSUME NEW v \in Workers, NEW k \in Members, plan'[v][k] \in Fresher
                    PROVE  ran'[k][attempt[v][k]] = 0
        BY <3>1 DEF UnusedNumbers
      <4>1. plan[v][k] \in Fresher /\ ~ (v = w /\ k = m) /\ plan[w][m] \in Tried
        BY <3>1, <3>4 DEF Tried, Attempting
      <4>2. plan[v][k] \in Tried
        BY <4>1 DEF Fresher, Tried, Attempting
      <4>3. attempt[v][k] \in 1..MaxAttempts
        BY <4>2, StageAssumption DEF AttemptInv, NumbersReserved, TypeOK
      <4>4. ~ (k = m /\ attempt[v][k] = n)
        BY <4>1, <4>2 DEF AttemptInv, NumbersDistinct
      <4>5. ran[k][attempt[v][k]] = 0
        BY <4>1 DEF AttemptInv, UnusedNumbers
      <4>. QED
        BY <3>5, <4>3, <4>4, <4>5
    <3>9. AttemptBudget'
      <4>. SUFFICES ASSUME NEW k \in Members, NEW i \in 1..MaxAttempts
                    PROVE  ran'[k][i] <= (IF i <= attempts[k] THEN 1 ELSE 0)
        BY <3>1 DEF AttemptBudget
      <4>1. ran[k][i] <= (IF i <= attempts[k] THEN 1 ELSE 0)
        BY DEF AttemptInv, AttemptBudget
      <4>2. CASE k = m /\ i = n
        BY <3>2, <3>5, <4>2
      <4>. QED
        BY <3>5, <4>1, <4>2
    <3>. QED
      BY <3>6, <3>7, <3>8, <3>9 DEF AttemptInv
  <2>. QED
    BY <2>1, <2>2
<1>9. ASSUME NEW w \in Workers, NEW m \in Members, CheckRun(w, m)
      PROVE  AttemptInv'
  <2>1. plan[w][m] = "claimed" /\ UNCHANGED <<attempts, attempt, ran>>
        /\ (MovePlan(w, m, "checked") \/ MovePlan(w, m, "raised"))
    BY <1>9 DEF CheckRun
  <2>2. Narrowing
    BY <2>1, MoveNarrows DEF Tried, Tried, Attempting, Fresher
  <2>. QED
    BY <2>2, NarrowingKeeps
<1>10. ASSUME NEW w \in Workers, NEW m \in Members, Verify(w, m)
      PROVE  AttemptInv'
  <2>1. Narrowing
    BY <1>10 DEF TypeOK, Narrowing, Verify, MovePlan, Tried, Attempting, Fresher
  <2>. QED
    BY <2>1, NarrowingKeeps
<1>11. ASSUME NEW w \in Workers, NEW m \in Members, Store(w, m)
      PROVE  AttemptInv'
  <2>1. Narrowing
    BY <1>11 DEF TypeOK, Narrowing, Store, MovePlan, Tried, Attempting, Fresher
  <2>. QED
    BY <2>1, NarrowingKeeps
<1>12. ASSUME NEW w \in Workers, NEW m \in Members, StoreFailure(w, m)
      PROVE  AttemptInv'
  <2>1. Narrowing
    BY <1>12 DEF TypeOK, Narrowing, StoreFailure, MovePlan, Tried, Attempting, Fresher
  <2>. QED
    BY <2>1, NarrowingKeeps
<1>13. ASSUME NEW w \in Workers, NEW m \in Members, Raise(w, m)
      PROVE  AttemptInv'
  <2>1. Narrowing
    BY <1>13 DEF TypeOK, Narrowing, Raise, MovePlan, Tried, Attempting, Fresher
  <2>. QED
    BY <2>1, NarrowingKeeps
<1>14. ASSUME NEW w \in Workers, NEW m \in Members, SettleFailed(w, m)
      PROVE  AttemptInv'
  <2>1. Narrowing
    BY <1>14 DEF TypeOK, Narrowing, SettleFailed, MovePlan, Tried, Attempting, Fresher
  <2>. QED
    BY <2>1, NarrowingKeeps
<1>15. ASSUME NEW w \in Workers, BeginSettling(w)
      PROVE  AttemptInv'
  <2>1. Narrowing
    BY <1>15 DEF TypeOK, Narrowing, BeginSettling
  <2>. QED
    BY <2>1, NarrowingKeeps
<1>16. ASSUME NEW w \in Workers, NEW m \in Members, Settle(w, m)
      PROVE  AttemptInv'
  <2>1. Narrowing
    BY <1>16 DEF TypeOK, Narrowing, Settle, MovePlan, Tried, Attempting, Fresher, Settled
  <2>. QED
    BY <2>1, NarrowingKeeps
<1>17. ASSUME NEW w \in Workers, CommitPage(w)
      PROVE  AttemptInv'
  <2>1. Narrowing
    BY <1>17 DEF TypeOK, Narrowing, CommitPage
  <2>. QED
    BY <2>1, NarrowingKeeps
<1>18. ASSUME NEW w \in Workers, Checkpoint(w)
      PROVE  AttemptInv'
  <2>1. Narrowing
    BY <1>18 DEF TypeOK, Narrowing, Checkpoint, ForgetGroup, Tried, Attempting, Fresher,
           NoPlan
  <2>. QED
    BY <2>1, NarrowingKeeps
<1>19. ASSUME NEW w \in Workers, EnterEvaluate(w)
      PROVE  AttemptInv'
  <2>1. Narrowing
    BY <1>19 DEF TypeOK, Narrowing, EnterEvaluate
  <2>. QED
    BY <2>1, NarrowingKeeps
<1>20. ASSUME NEW w \in Workers, Evaluate(w)
      PROVE  AttemptInv'
  <2>1. Narrowing
    BY <1>20 DEF TypeOK, Narrowing, Evaluate
  <2>. QED
    BY <2>1, NarrowingKeeps
<1>21. ASSUME NEW w \in Workers, ResetCursor(w)
      PROVE  AttemptInv'
  <2>1. Narrowing
    BY <1>21 DEF TypeOK, Narrowing, ResetCursor
  <2>. QED
    BY <2>1, NarrowingKeeps
<1>22. ASSUME NEW w \in Workers, Complete(w)
      PROVE  AttemptInv'
  <2>1. Narrowing
    BY <1>22 DEF TypeOK, Narrowing, Complete
  <2>. QED
    BY <2>1, NarrowingKeeps
<1>23. ASSUME NEW w \in Workers, Leave(w)
      PROVE  AttemptInv'
  <2>1. Narrowing
    BY <1>23 DEF TypeOK, Narrowing, Leave
  <2>. QED
    BY <2>1, NarrowingKeeps
<1>24. ASSUME NEW w \in Workers, Release(w)
      PROVE  AttemptInv'
  <2>1. Narrowing
    BY <1>24 DEF TypeOK, Narrowing, Release, ForgetGroup, Tried, Attempting, Fresher, NoPlan
  <2>. QED
    BY <2>1, NarrowingKeeps
<1>25. ASSUME NEW w \in Workers, Crash(w)
      PROVE  AttemptInv'
  <2>1. Narrowing
    BY <1>25 DEF TypeOK, Narrowing, Crash, ForgetGroup, Tried, Attempting, Fresher, NoPlan
  <2>. QED
    BY <2>1, NarrowingKeeps
<1>26. ASSUME NEW w \in Workers, Deadline(w)
      PROVE  AttemptInv'
  <2>1. Narrowing
    BY <1>26 DEF TypeOK, Narrowing, Deadline
  <2>. QED
    BY <2>1, NarrowingKeeps
<1>27. ASSUME LeaseLapses
      PROVE  AttemptInv'
  <2>1. Narrowing
    BY <1>27 DEF TypeOK, Narrowing, LeaseLapses
  <2>. QED
    BY <2>1, NarrowingKeeps
<1>28. ASSUME NEW m \in Members, SourceLapses(m)
      PROVE  AttemptInv'
  <2>1. Narrowing
    BY <1>28 DEF TypeOK, Narrowing, SourceLapses
  <2>. QED
    BY <2>1, NarrowingKeeps
<1>29. ASSUME NEW m \in Members, OutsiderClaims(m)
      PROVE  AttemptInv'
  <2>1. Narrowing
    BY <1>29 DEF TypeOK, Narrowing, OutsiderClaims
  <2>. QED
    BY <2>1, NarrowingKeeps
<1>30. ASSUME NEW m \in Members, OutsiderEnds(m)
      PROVE  AttemptInv'
  <2>1. Narrowing
    BY <1>30 DEF TypeOK, Narrowing, OutsiderEnds
  <2>. QED
    BY <2>1, NarrowingKeeps
<1>31. ASSUME NEW w \in Workers, NEW m \in Members, QualifyFails(w, m)
      PROVE  AttemptInv'
  <2>1. Narrowing
    BY <1>31 DEF TypeOK, Narrowing, QualifyFails, MovePlan, Tried, Attempting, Fresher
  <2>. QED
    BY <2>1, NarrowingKeeps
<1>32. CASE UNCHANGED vars
  <2>1. Narrowing
    BY <1>32 DEF Narrowing, vars
  <2>. QED
    BY <2>1, NarrowingKeeps
<1>. QED
  BY <1>1, <1>2, <1>3, <1>4, <1>5, <1>6, <1>7, <1>8, <1>9, <1>10, <1>11, <1>12, <1>13,
         <1>14, <1>15, <1>16, <1>17, <1>18, <1>19, <1>20, <1>21, <1>22, <1>23, <1>24,
         <1>25, <1>26, <1>27, <1>28, <1>29, <1>30, <1>31,
         <1>32
     DEF Next, Stage, Member

-----------------------------------------------------------------------------

(* What is recorded as settled, or about to be, has a durable completion. *)
SettledStored == \A m \in Members : outcome[m] = "settled" => source[m].stored # "no"
QualifiedStored == \A w \in Workers : \A m \in Members :
    plan[w][m] = "qualified" => source[m].stored # "no"

(* A worker never remembers more attempts than the counter has ... *)
AttemptBehind == \A w \in Workers : \A m \in Members : attempt[w][m] <= attempts[m]

(* ... so that what fails, or is about to, has used up its attempts. *)
DoomedSpent == \A w \in Workers : \A m \in Members :
    plan[w][m] = "doomed" => attempts[m] = MaxAttempts
FailedSpent == \A m \in Members : outcome[m] = "failed" => attempts[m] = MaxAttempts

(* A worker past the evaluation has frozen the wave ... *)
FrozenSeen == \A w \in Workers : job[w].pc = "frozen" => frozen

(* ... a frozen wave has no pending member, and stays that way ... *)
FrozenResolved == frozen => \A m \in Members : outcome[m] # "pending"

(* ... and the stage succeeds only after that. *)
SucceededFrozen == lease.status = "succeeded" => frozen
FreezeInv ==
    /\ SettledStored /\ QualifiedStored
    /\ AttemptBehind /\ DoomedSpent /\ FailedSpent
    /\ FrozenSeen /\ FrozenResolved /\ SucceededFrozen

(* The invariant says that a freeze is justified. *)
LEMMA FreezeImplies == TypeOK /\ FreezeInv => FreezeJustified
  BY DEF TypeOK, FreezeInv, SettledStored, FailedSpent, FrozenResolved, SucceededFrozen,
         FreezeJustified

(* Steps of a source attempt that do not store a result ... *)
SourceKept ==
    /\ \A m \in Members : source'[m].stored = source[m].stored
    /\ \A w \in Workers : \A m \in Members :
          plan'[w][m] \in {"qualified", "doomed"} => plan'[w][m] = plan[w][m]
    /\ UNCHANGED <<lease, frozen, outcome, attempts, job, attempt>>

(* ... because freeing a row leaves its completion alone ... *)
LEMMA FreedKeeps ==
    ASSUME TypeOK, NEW m \in Members, source' = Freed(m) \/ source' = source
    PROVE  \A k \in Members : source'[k].stored = source[k].stored
<1>1. CASE source' = source
  BY <1>1
<1>2. CASE source' = Freed(m)
  <2>1. source'[m].stored = source[m].stored
    BY <1>2 DEF TypeOK, Freed, SourceRow
  <2>2. \A k \in Members : k # m => source'[k] = source[k]
    BY <1>2 DEF TypeOK, Freed
  <2>. QED
    BY <2>1, <2>2
<1>. QED
  BY <1>1, <1>2

(* ... and the attempt qualifies and dooms nothing ... *)
LEMMA MoveOther ==
    ASSUME TypeOK, NEW w \in Workers, NEW m \in Members, NEW p, MovePlan(w, m, p),
           p \notin {"qualified", "doomed"}
    PROVE  \A v \in Workers : \A k \in Members :
               plan'[v][k] \in {"qualified", "doomed"} => plan'[v][k] = plan[v][k]
  BY DEF TypeOK, MovePlan

(* ... keep the justification. *)
LEMMA SourceKeptKeeps ==
    ASSUME FreezeInv, SourceKept PROVE FreezeInv'
<1>1. (SettledStored /\ QualifiedStored)'
  BY DEF FreezeInv, SourceKept, SettledStored, QualifiedStored
<1>2. (AttemptBehind /\ DoomedSpent /\ FailedSpent)'
  BY DEF FreezeInv, SourceKept, AttemptBehind, DoomedSpent, FailedSpent
<1>3. (FrozenSeen /\ FrozenResolved /\ SucceededFrozen)'
  BY DEF FreezeInv, SourceKept, FrozenSeen, FrozenResolved, SucceededFrozen
<1>. QED
  BY <1>1, <1>2, <1>3 DEF FreezeInv

(* Every step keeps the freeze justified: a page commits "settled" only for a
   source whose completion the worker has seen, a failure only for a spent
   budget, and nothing changes an outcome behind a frozen wave. *)
LEMMA FreezeStep == TypeOK /\ OwnersInv /\ FreezeInv /\ [Next]_vars => FreezeInv'
<1> SUFFICES ASSUME TypeOK, OwnersInv, FreezeInv, [Next]_vars PROVE FreezeInv'
  OBVIOUS
<1>1. ASSUME NEW w \in Workers, ReadRelease(w)
      PROVE  FreezeInv'
  <2>1. FrozenSeen'
    BY <1>1, StageAssumption
       DEF TypeOK, FreezeInv, FrozenSeen, ReadRelease, MoveJob, Job, NoJob
  <2>. QED
    BY <1>1, <2>1
       DEF FreezeInv, SettledStored, QualifiedStored, AttemptBehind,
              DoomedSpent, FailedSpent, FrozenResolved, SucceededFrozen, ReadRelease
<1>2. ASSUME NEW w \in Workers, Claim(w)
      PROVE  FreezeInv'
  <2>1. UNCHANGED <<frozen, outcome, attempts, source, plan, attempt>>
    BY <1>2 DEF Claim
  <2>2. lease'.status = lease.status \/ lease'.status = "running"
    BY <1>2 DEF TypeOK, LeaseRow, Claim, KeepLease, WriteLease
  <2>3. \A v \in Workers : job'[v].pc = "frozen" => job[v].pc = "frozen"
    <3>1. job[w].pc = "claiming"
      BY <1>2 DEF Claim
    <3>2. \/ MoveJob(w, "idle")
          \/ \E pc \in {"loading", "evaluate"} : \E own, after :
                job' = [job EXCEPT ![w] = [pc |-> pc, own |-> own, after |-> after, late |-> FALSE]]
      BY <1>2 DEF Claim
    <3>3. CASE MoveJob(w, "idle")
      BY <3>3 DEF TypeOK, Job, MoveJob
    <3>4. CASE \E pc \in {"loading", "evaluate"} : \E own, after :
                job' = [job EXCEPT ![w] = [pc |-> pc, own |-> own, after |-> after, late |-> FALSE]]
      BY <3>4 DEF TypeOK
    <3>. QED
      BY <3>2, <3>3, <3>4
  <2>4. (FrozenSeen /\ SucceededFrozen)'
    BY <2>1, <2>2, <2>3 DEF FreezeInv, FrozenSeen, SucceededFrozen
  <2>. QED
    BY <2>1, <2>4
       DEF FreezeInv, SettledStored, QualifiedStored, AttemptBehind,
              DoomedSpent, FailedSpent, FrozenResolved
<1>3. ASSUME NEW w \in Workers, Check(w)
      PROVE  FreezeInv'
  BY <1>3 DEF FreezeInv, SettledStored, QualifiedStored, AttemptBehind,
         DoomedSpent, FailedSpent, FrozenSeen, FrozenResolved, SucceededFrozen, Check
<1>4. ASSUME NEW w \in Workers, Load(w)
      PROVE  FreezeInv'
  <2>1. QualifiedStored'
    BY <1>4, StageAssumption
       DEF TypeOK, FreezeInv, QualifiedStored, Load, Inspected, Qualified
  <2>2. DoomedSpent'
    BY <1>4, StageAssumption DEF TypeOK, FreezeInv, DoomedSpent, Load, Inspected, Qualified
  <2>3. FrozenSeen'
    BY <1>4, StageAssumption DEF TypeOK, FreezeInv, FrozenSeen, Load, MoveJob, Job, NoJob
  <2>. QED
    BY <1>4, <2>1, <2>2, <2>3
       DEF FreezeInv, SettledStored, AttemptBehind, FailedSpent,
              FrozenResolved, SucceededFrozen, Load
<1>5. ASSUME NEW w \in Workers, CutShort(w)
      PROVE  FreezeInv'
  <2>1. QualifiedStored'
    BY <1>5, StageAssumption DEF TypeOK, FreezeInv, QualifiedStored, CutShort
  <2>2. DoomedSpent'
    BY <1>5, StageAssumption DEF TypeOK, FreezeInv, DoomedSpent, CutShort
  <2>. QED
    BY <1>5, <2>1, <2>2
       DEF FreezeInv, SettledStored, AttemptBehind, FailedSpent, FrozenSeen,
              FrozenResolved, SucceededFrozen, CutShort
<1>6. ASSUME NEW w \in Workers, Reserve(w)
      PROVE  FreezeInv'
  <2>1. QualifiedStored'
    BY <1>6, StageAssumption
       DEF TypeOK, FreezeInv, QualifiedStored, Reserve, Count, Admits, Previous
  <2>2. AttemptBehind'
    BY <1>6, StageAssumption
       DEF TypeOK, FreezeInv, AttemptBehind, Reserve, Count, Admits, Previous
  <2>3. DoomedSpent'
    BY <1>6, StageAssumption
       DEF TypeOK, FreezeInv, DoomedSpent, Reserve, Count, Admits, Previous
  <2>4. FailedSpent'
    BY <1>6, StageAssumption
       DEF TypeOK, FreezeInv, FailedSpent, Reserve, Count, Admits, Previous
  <2>5. SucceededFrozen'
    BY <1>6, StageAssumption
       DEF TypeOK, FreezeInv, SucceededFrozen, Reserve, KeepLease, Guarded, Count, Admits,
              Previous
  <2>. QED
    BY <1>6, <2>1, <2>2, <2>3, <2>4, <2>5
       DEF FreezeInv, SettledStored, FrozenSeen, FrozenResolved, Reserve
<1>7. ASSUME NEW w \in Workers, NEW m \in Members, Start(w, m)
      PROVE  FreezeInv'
  <2>1. QualifiedStored'
    BY <1>7, StageAssumption DEF TypeOK, FreezeInv, QualifiedStored, Start, MovePlan
  <2>2. DoomedSpent'
    BY <1>7, StageAssumption DEF TypeOK, FreezeInv, DoomedSpent, Start, MovePlan
  <2>. QED
    BY <1>7, <2>1, <2>2
       DEF FreezeInv, SettledStored, AttemptBehind, FailedSpent, FrozenSeen,
              FrozenResolved, SucceededFrozen, Start
<1>8. ASSUME NEW w \in Workers, NEW m \in Members, ClaimSource(w, m)
      PROVE  FreezeInv'
  <2>1. /\ UNCHANGED <<lease, frozen, outcome, attempts, job, attempt>>
        /\ MovePlan(w, m, "raised") \/ MovePlan(w, m, "claimed") \/ MovePlan(w, m, "checked")
        /\ source' = source \/ source' = [source EXCEPT ![m] =
               [source[m] EXCEPT !.holder = job[w].own, !.live = TRUE]]
    BY <1>8 DEF ClaimSource
  <2>2. \A k \in Members : /\ source'[k].stored = source[k].stored
                           /\ source'[k].holder = Outsider => source[k].holder = Outsider
    <3>1. job[w].own # Outsider
      BY Apart DEF TypeOK, Job
    <3>2. CASE source' = [source EXCEPT ![m] =
               [source[m] EXCEPT !.holder = job[w].own, !.live = TRUE]]
      <4>1. source'[m].stored = source[m].stored /\ source'[m].holder = job[w].own
        BY <3>2 DEF TypeOK, SourceRow
      <4>2. \A k \in Members : k # m => source'[k] = source[k]
        BY <3>2 DEF TypeOK
      <4>. QED
        BY <3>1, <4>1, <4>2
    <3>. QED
      BY <2>1, <3>2
  <2>3. \A v \in Workers : \A k \in Members :
          plan'[v][k] \in {"qualified", "doomed"} => plan'[v][k] = plan[v][k]
    BY <2>1, MoveOther
  <2>4. SourceKept
    BY <2>1, <2>2, <2>3 DEF SourceKept
  <2>. QED
    BY <2>4, SourceKeptKeeps
<1>9. ASSUME NEW w \in Workers, NEW m \in Members, CheckRun(w, m)
      PROVE  FreezeInv'
  <2>1. /\ UNCHANGED <<lease, frozen, outcome, attempts, job, attempt>>
        /\ MovePlan(w, m, "raised") \/ MovePlan(w, m, "checked")
        /\ source' = Freed(m) \/ source' = source
    BY <1>9 DEF CheckRun
  <2>2. \A v \in Workers : \A k \in Members :
          plan'[v][k] \in {"qualified", "doomed"} => plan'[v][k] = plan[v][k]
    BY <2>1, MoveOther
  <2>3. SourceKept
    BY <2>1, <2>2, FreedKeeps DEF SourceKept
  <2>. QED
    BY <2>3, SourceKeptKeeps
<1>10. ASSUME NEW w \in Workers, NEW m \in Members, Verify(w, m)
      PROVE  FreezeInv'
  <2>1. QualifiedStored'
    BY <1>10, StageAssumption DEF TypeOK, FreezeInv, QualifiedStored, Verify, MovePlan
  <2>2. DoomedSpent'
    BY <1>10, StageAssumption DEF TypeOK, FreezeInv, DoomedSpent, Verify, MovePlan
  <2>. QED
    BY <1>10, <2>1, <2>2
       DEF FreezeInv, SettledStored, AttemptBehind, FailedSpent, FrozenSeen,
              FrozenResolved, SucceededFrozen, Verify
<1>11. ASSUME NEW w \in Workers, NEW m \in Members, Store(w, m)
      PROVE  FreezeInv'
  <2>1. SettledStored'
    BY <1>11, StageAssumption
       DEF TypeOK, FreezeInv, SettledStored, Store, SourceRow, Job
  <2>2. QualifiedStored'
    BY <1>11, StageAssumption
       DEF TypeOK, FreezeInv, QualifiedStored, Store, MovePlan, SourceRow,
              Job
  <2>3. DoomedSpent'
    BY <1>11, StageAssumption DEF TypeOK, FreezeInv, DoomedSpent, Store, MovePlan
  <2>. QED
    BY <1>11, <2>1, <2>2, <2>3
       DEF FreezeInv, AttemptBehind, FailedSpent, FrozenSeen, FrozenResolved,
              SucceededFrozen, Store
<1>12. ASSUME NEW w \in Workers, NEW m \in Members, StoreFailure(w, m)
      PROVE  FreezeInv'
  <2>1. SettledStored'
    BY <1>12, StageAssumption
       DEF TypeOK, FreezeInv, SettledStored, StoreFailure, Freed, SourceRow,
              Job
  <2>2. QualifiedStored'
    BY <1>12, StageAssumption
       DEF TypeOK, FreezeInv, QualifiedStored, StoreFailure, MovePlan, Freed,
              SourceRow, Job
  <2>3. DoomedSpent'
    BY <1>12, StageAssumption DEF TypeOK, FreezeInv, DoomedSpent, StoreFailure, MovePlan
  <2>. QED
    BY <1>12, <2>1, <2>2, <2>3
       DEF FreezeInv, AttemptBehind, FailedSpent, FrozenSeen, FrozenResolved,
              SucceededFrozen, StoreFailure
<1>13. ASSUME NEW w \in Workers, NEW m \in Members, Raise(w, m)
      PROVE  FreezeInv'
  <2>1. /\ UNCHANGED <<lease, frozen, outcome, attempts, job, attempt>>
        /\ MovePlan(w, m, "raised")
        /\ source' = Freed(m) \/ source' = source
    BY <1>13 DEF Raise
  <2>2. \A v \in Workers : \A k \in Members :
          plan'[v][k] \in {"qualified", "doomed"} => plan'[v][k] = plan[v][k]
    BY <2>1, MoveOther
  <2>3. SourceKept
    BY <2>1, <2>2, FreedKeeps DEF SourceKept
  <2>. QED
    BY <2>3, SourceKeptKeeps
<1>14. ASSUME NEW w \in Workers, NEW m \in Members, SettleFailed(w, m)
      PROVE  FreezeInv'
  <2>1. SettledStored'
    BY <1>14, StageAssumption
       DEF TypeOK, FreezeInv, SettledStored, SettleFailed, DoomedSpent
  <2>2. QualifiedStored'
    BY <1>14, StageAssumption DEF TypeOK, FreezeInv, QualifiedStored, SettleFailed, MovePlan
  <2>3. DoomedSpent'
    BY <1>14, StageAssumption DEF TypeOK, FreezeInv, DoomedSpent, SettleFailed, MovePlan
  <2>4. FailedSpent'
    BY <1>14, StageAssumption DEF TypeOK, FreezeInv, FailedSpent, SettleFailed, DoomedSpent
  <2>5. FrozenResolved'
    BY <1>14, StageAssumption
       DEF TypeOK, FreezeInv, FrozenResolved, SettleFailed, DoomedSpent
  <2>6. SucceededFrozen'
    BY <1>14, StageAssumption DEF TypeOK, FreezeInv, SucceededFrozen, SettleFailed, Guarded
  <2>. QED
    BY <1>14, <2>1, <2>2, <2>3, <2>4, <2>5, <2>6
       DEF FreezeInv, AttemptBehind, FrozenSeen, SettleFailed
<1>15. ASSUME NEW w \in Workers, BeginSettling(w)
      PROVE  FreezeInv'
  <2>1. FrozenSeen'
    BY <1>15, StageAssumption
       DEF TypeOK, FreezeInv, FrozenSeen, BeginSettling, MoveJob, Job, NoJob
  <2>. QED
    BY <1>15, <2>1
       DEF FreezeInv, SettledStored, QualifiedStored, AttemptBehind,
              DoomedSpent, FailedSpent, FrozenResolved, SucceededFrozen, BeginSettling
<1>16. ASSUME NEW w \in Workers, NEW m \in Members, Settle(w, m)
      PROVE  FreezeInv'
  <2>1. QualifiedStored'
    BY <1>16, StageAssumption
       DEF TypeOK, FreezeInv, QualifiedStored, Settle, MovePlan, Settled, Exhausted,
              Qualified, AttemptBehind
  <2>2. DoomedSpent'
    BY <1>16, StageAssumption
       DEF TypeOK, FreezeInv, DoomedSpent, Settle, MovePlan, Settled, Exhausted, Qualified,
              AttemptBehind
  <2>. QED
    BY <1>16, <2>1, <2>2
       DEF FreezeInv, SettledStored, AttemptBehind, FailedSpent, FrozenSeen,
              FrozenResolved, SucceededFrozen, Settle
<1>17. ASSUME NEW w \in Workers, CommitPage(w)
      PROVE  FreezeInv'
  <2>1. SettledStored'
    BY <1>17, StageAssumption
       DEF TypeOK, FreezeInv, SettledStored, CommitPage, Observed, QualifiedStored,
              FailedSpent
  <2>2. FailedSpent'
    BY <1>17, StageAssumption
       DEF TypeOK, FreezeInv, FailedSpent, CommitPage, Observed, QualifiedStored
  <2>3. FrozenSeen'
    BY <1>17, StageAssumption
       DEF TypeOK, FreezeInv, FrozenSeen, CommitPage, MoveJob, Job, NoJob
  <2>4. FrozenResolved'
    BY <1>17, StageAssumption
       DEF TypeOK, FreezeInv, FrozenResolved, CommitPage, Observed, QualifiedStored,
              FailedSpent
  <2>5. SucceededFrozen'
    BY <1>17, StageAssumption
       DEF TypeOK, FreezeInv, SucceededFrozen, CommitPage, KeepLease, Guarded
  <2>. QED
    BY <1>17, <2>1, <2>2, <2>3, <2>4, <2>5
       DEF FreezeInv, QualifiedStored, AttemptBehind, DoomedSpent,
              CommitPage
<1>18. ASSUME NEW w \in Workers, Checkpoint(w)
      PROVE  FreezeInv'
  <2>1. QualifiedStored'
    BY <1>18, StageAssumption
       DEF TypeOK, FreezeInv, QualifiedStored, Checkpoint, ForgetGroup, NoPlan, NoCounts
  <2>2. AttemptBehind'
    BY <1>18, StageAssumption
       DEF TypeOK, FreezeInv, AttemptBehind, Checkpoint, ForgetGroup, NoPlan, NoCounts
  <2>3. DoomedSpent'
    BY <1>18, StageAssumption
       DEF TypeOK, FreezeInv, DoomedSpent, Checkpoint, ForgetGroup, NoPlan, NoCounts
  <2>4. FrozenSeen'
    BY <1>18, StageAssumption DEF TypeOK, FreezeInv, FrozenSeen, Checkpoint, Job, NoJob
  <2>5. SucceededFrozen'
    BY <1>18, StageAssumption DEF TypeOK, FreezeInv, SucceededFrozen, Checkpoint, WriteLease
  <2>. QED
    BY <1>18, <2>1, <2>2, <2>3, <2>4, <2>5
       DEF FreezeInv, SettledStored, FailedSpent, FrozenResolved,
              Checkpoint
<1>19. ASSUME NEW w \in Workers, EnterEvaluate(w)
      PROVE  FreezeInv'
  <2>1. FrozenSeen'
    BY <1>19, StageAssumption
       DEF TypeOK, FreezeInv, FrozenSeen, EnterEvaluate, MoveJob, Job, NoJob
  <2>2. SucceededFrozen'
    BY <1>19, StageAssumption
       DEF TypeOK, FreezeInv, SucceededFrozen, EnterEvaluate, WriteLease
  <2>. QED
    BY <1>19, <2>1, <2>2
       DEF FreezeInv, SettledStored, QualifiedStored, AttemptBehind,
              DoomedSpent, FailedSpent, FrozenResolved, EnterEvaluate
<1>20. ASSUME NEW w \in Workers, Evaluate(w)
      PROVE  FreezeInv'
  <2>1. FrozenSeen'
    BY <1>20, StageAssumption
       DEF TypeOK, FreezeInv, FrozenSeen, Evaluate, MoveJob, Job, NoJob
  <2>2. FrozenResolved'
    BY <1>20, StageAssumption DEF TypeOK, FreezeInv, FrozenResolved, Evaluate
  <2>3. SucceededFrozen'
    BY <1>20, StageAssumption DEF TypeOK, FreezeInv, SucceededFrozen, Evaluate, Guarded
  <2>. QED
    BY <1>20, <2>1, <2>2, <2>3
       DEF FreezeInv, SettledStored, QualifiedStored, AttemptBehind,
              DoomedSpent, FailedSpent, Evaluate
<1>21. ASSUME NEW w \in Workers, ResetCursor(w)
      PROVE  FreezeInv'
  <2>1. FrozenSeen'
    BY <1>21, StageAssumption
       DEF TypeOK, FreezeInv, FrozenSeen, ResetCursor, MoveJob, Job, NoJob
  <2>2. SucceededFrozen'
    BY <1>21, StageAssumption
       DEF TypeOK, FreezeInv, SucceededFrozen, ResetCursor, WriteLease, Rewound
  <2>. QED
    BY <1>21, <2>1, <2>2
       DEF FreezeInv, SettledStored, QualifiedStored, AttemptBehind,
              DoomedSpent, FailedSpent, FrozenResolved, ResetCursor
<1>22. ASSUME NEW w \in Workers, Complete(w)
      PROVE  FreezeInv'
  <2>1. FrozenSeen'
    BY <1>22, StageAssumption
       DEF TypeOK, FreezeInv, FrozenSeen, Complete, MoveJob, Job, NoJob
  <2>2. SucceededFrozen'
    BY <1>22, StageAssumption
       DEF TypeOK, FreezeInv, SucceededFrozen, Complete, WriteLease, FrozenSeen
  <2>. QED
    BY <1>22, <2>1, <2>2
       DEF FreezeInv, SettledStored, QualifiedStored, AttemptBehind,
              DoomedSpent, FailedSpent, FrozenResolved, Complete
<1>23. ASSUME NEW w \in Workers, Leave(w)
      PROVE  FreezeInv'
  <2>1. FrozenSeen'
    BY <1>23, StageAssumption DEF TypeOK, FreezeInv, FrozenSeen, Leave, MoveJob, Job, NoJob
  <2>. QED
    BY <1>23, <2>1
       DEF FreezeInv, SettledStored, QualifiedStored, AttemptBehind,
              DoomedSpent, FailedSpent, FrozenResolved, SucceededFrozen, Leave
<1>24. ASSUME NEW w \in Workers, Release(w)
      PROVE  FreezeInv'
  <2>1. QualifiedStored'
    BY <1>24, StageAssumption
       DEF TypeOK, FreezeInv, QualifiedStored, Release, ForgetGroup, NoPlan, NoCounts
  <2>2. AttemptBehind'
    BY <1>24, StageAssumption
       DEF TypeOK, FreezeInv, AttemptBehind, Release, ForgetGroup, NoPlan, NoCounts
  <2>3. DoomedSpent'
    BY <1>24, StageAssumption
       DEF TypeOK, FreezeInv, DoomedSpent, Release, ForgetGroup, NoPlan, NoCounts
  <2>4. FrozenSeen'
    BY <1>24, StageAssumption DEF TypeOK, FreezeInv, FrozenSeen, Release, Job, NoJob
  <2>5. SucceededFrozen'
    <3>1. lease'.status = lease.status
      BY <1>24 DEF TypeOK, LeaseRow, Release, Released, WriteLease, KeepLease
    <3>. QED
      BY <1>24, <3>1 DEF FreezeInv, SucceededFrozen, Release
  <2>. QED
    BY <1>24, <2>1, <2>2, <2>3, <2>4, <2>5
       DEF FreezeInv, SettledStored, FailedSpent, FrozenResolved, Release
<1>25. ASSUME NEW w \in Workers, Crash(w)
      PROVE  FreezeInv'
  <2>1. QualifiedStored'
    BY <1>25, StageAssumption
       DEF TypeOK, FreezeInv, QualifiedStored, Crash, ForgetGroup, NoPlan, NoCounts
  <2>2. AttemptBehind'
    BY <1>25, StageAssumption
       DEF TypeOK, FreezeInv, AttemptBehind, Crash, ForgetGroup, NoPlan, NoCounts
  <2>3. DoomedSpent'
    BY <1>25, StageAssumption
       DEF TypeOK, FreezeInv, DoomedSpent, Crash, ForgetGroup, NoPlan, NoCounts
  <2>4. FrozenSeen'
    BY <1>25, StageAssumption DEF TypeOK, FreezeInv, FrozenSeen, Crash, Job, NoJob
  <2>. QED
    BY <1>25, <2>1, <2>2, <2>3, <2>4
       DEF FreezeInv, SettledStored, FailedSpent, FrozenResolved,
              SucceededFrozen, Crash
<1>26. ASSUME NEW w \in Workers, Deadline(w)
      PROVE  FreezeInv'
  <2>1. FrozenSeen'
    BY <1>26, StageAssumption DEF TypeOK, FreezeInv, FrozenSeen, Deadline, Job, NoJob
  <2>. QED
    BY <1>26, <2>1
       DEF FreezeInv, SettledStored, QualifiedStored, AttemptBehind,
              DoomedSpent, FailedSpent, FrozenResolved, SucceededFrozen, Deadline
<1>27. ASSUME LeaseLapses
      PROVE  FreezeInv'
  <2>1. SucceededFrozen'
    BY <1>27, StageAssumption DEF TypeOK, FreezeInv, SucceededFrozen, LeaseLapses
  <2>. QED
    BY <1>27, <2>1
       DEF FreezeInv, SettledStored, QualifiedStored, AttemptBehind,
              DoomedSpent, FailedSpent, FrozenSeen, FrozenResolved, LeaseLapses
<1>28. ASSUME NEW m \in Members, SourceLapses(m)
      PROVE  FreezeInv'
  <2>1. SettledStored'
    BY <1>28, StageAssumption
       DEF TypeOK, FreezeInv, SettledStored, SourceLapses, SourceRow, Job
  <2>2. QualifiedStored'
    BY <1>28, StageAssumption
       DEF TypeOK, FreezeInv, QualifiedStored, SourceLapses, SourceRow, Job
  <2>. QED
    BY <1>28, <2>1, <2>2
       DEF FreezeInv, AttemptBehind, DoomedSpent, FailedSpent, FrozenSeen, FrozenResolved,
              SucceededFrozen, SourceLapses
<1>29. ASSUME NEW m \in Members, OutsiderClaims(m)
      PROVE  FreezeInv'
  <2>1. SettledStored'
    BY <1>29, StageAssumption
       DEF TypeOK, FreezeInv, SettledStored, OutsiderClaims, SourceRow, Job,
              LiveHeld
  <2>2. QualifiedStored'
    BY <1>29, StageAssumption
       DEF TypeOK, FreezeInv, QualifiedStored, OutsiderClaims, SourceRow,
              Job, LiveHeld
  <2>. QED
    BY <1>29, <2>1, <2>2
       DEF FreezeInv, AttemptBehind, DoomedSpent, FailedSpent, FrozenSeen, FrozenResolved,
              SucceededFrozen, OutsiderClaims
<1>30. ASSUME NEW m \in Members, OutsiderEnds(m)
      PROVE  FreezeInv'
  <2>1. SettledStored'
    BY <1>30, StageAssumption
       DEF TypeOK, FreezeInv, SettledStored, OutsiderEnds, SourceRow, Job
  <2>2. QualifiedStored'
    BY <1>30, StageAssumption
       DEF TypeOK, FreezeInv, QualifiedStored, OutsiderEnds, SourceRow, Job
  <2>. QED
    BY <1>30, <2>1, <2>2
       DEF FreezeInv, AttemptBehind, DoomedSpent, FailedSpent, FrozenSeen, FrozenResolved,
              SucceededFrozen, OutsiderEnds
<1>31. ASSUME NEW w \in Workers, NEW m \in Members, QualifyFails(w, m)
      PROVE  FreezeInv'
  <2>1. QualifiedStored'
    BY <1>31, StageAssumption
       DEF TypeOK, FreezeInv, QualifiedStored, QualifyFails, MovePlan
  <2>2. DoomedSpent'
    BY <1>31, StageAssumption
       DEF TypeOK, FreezeInv, DoomedSpent, QualifyFails, MovePlan, Exhausted, AttemptBehind
  <2>. QED
    BY <1>31, <2>1, <2>2
       DEF FreezeInv, SettledStored, AttemptBehind, FailedSpent, FrozenSeen,
              FrozenResolved, SucceededFrozen, QualifyFails
<1>32. CASE UNCHANGED vars
  BY <1>32 DEF FreezeInv, SettledStored, QualifiedStored, AttemptBehind,
         DoomedSpent, FailedSpent, FrozenSeen, FrozenResolved, SucceededFrozen, vars
<1>. QED
  BY <1>1, <1>2, <1>3, <1>4, <1>5, <1>6, <1>7, <1>8, <1>9, <1>10, <1>11, <1>12, <1>13,
         <1>14, <1>15, <1>16, <1>17, <1>18, <1>19, <1>20, <1>21, <1>22, <1>23, <1>24,
         <1>25, <1>26, <1>27, <1>28, <1>29, <1>30, <1>31,
         <1>32
     DEF Next, Stage, Member

-----------------------------------------------------------------------------

(* A worker keeps its owner id and gains no claim, unless it knows of no
   member. *)
OwnershipKept == \A v \in Workers :
    \/ plan'[v] = NoPlan
    \/ job'[v].own = job[v].own /\ (Named(v)' => Named(v))

(* Every step is such a step: a new claim starts without a group. *)
LEMMA OwnershipStep ==
    ASSUME TypeOK, OwnersInv, [Next]_vars PROVE OwnershipKept
<1>0. /\ lease'.owner \in {lease.owner, Nobody}
      /\ \A v \in Workers : job'[v].own = job[v].own \/ plan'[v] = NoPlan
      => OwnershipKept
  BY DEF OwnershipKept, Named
<1>1. ASSUME NEW w \in Workers, ReadRelease(w)
      PROVE  OwnershipKept
  <2>1. lease'.owner \in {lease.owner, Nobody}
    BY <1>1 DEF TypeOK, LeaseRow, ReadRelease
  <2>2. \A v \in Workers : job'[v].own = job[v].own \/ plan'[v] = NoPlan
    BY <1>1 DEF TypeOK, Job, NoJob, ReadRelease, MoveJob
  <2>. QED
    BY <1>0, <2>1, <2>2
<1>2. ASSUME NEW w \in Workers, Claim(w)
      PROVE  OwnershipKept
  <2>1. job[w].pc = "claiming" /\ plan' = plan /\ plan[w] = NoPlan
    BY <1>2 DEF Claim, OwnersInv, PlansPlaced
  <2>2. \A v \in Workers : v # w => job'[v] = job[v]
    BY <1>2 DEF TypeOK, Claim, MoveJob
  <2>3. lease'.owner = lease.owner \/ \A v \in Workers : job[v].own # lease'.owner
    <3>1. Fresh # {} => (CHOOSE o \in Fresh : TRUE) \in Fresh
      OBVIOUS
    <3>2. Fresh # {} => \A v \in Workers : job[v].own # (CHOOSE o \in Fresh : TRUE)
      BY <3>1 DEF Fresh
    <3>3. CASE KeepLease
      BY <3>3 DEF KeepLease
    <3>4. CASE Fresh # {} /\ lease' = [lease EXCEPT !.status = "running",
                    !.owner = CHOOSE o \in Fresh : TRUE, !.live = TRUE]
      <4>1. lease'.owner = CHOOSE o \in Fresh : TRUE
        BY <3>4 DEF TypeOK, LeaseRow
      <4>. QED
        BY <3>2, <3>4, <4>1
    <3>. QED
      BY <1>2, <3>3, <3>4 DEF Claim, WriteLease
  <2>. QED
    BY <2>1, <2>2, <2>3 DEF OwnershipKept, Named
<1>3. ASSUME NEW w \in Workers, Check(w)
      PROVE  OwnershipKept
  <2>1. lease'.owner \in {lease.owner, Nobody}
    BY <1>3 DEF TypeOK, LeaseRow, Check
  <2>2. \A v \in Workers : job'[v].own = job[v].own \/ plan'[v] = NoPlan
    BY <1>3 DEF TypeOK, Job, NoJob, Check
  <2>. QED
    BY <1>0, <2>1, <2>2
<1>4. ASSUME NEW w \in Workers, Load(w)
      PROVE  OwnershipKept
  <2>1. lease'.owner \in {lease.owner, Nobody}
    BY <1>4 DEF TypeOK, LeaseRow, Load
  <2>2. \A v \in Workers : job'[v].own = job[v].own \/ plan'[v] = NoPlan
    BY <1>4 DEF TypeOK, Job, NoJob, Load, MoveJob
  <2>. QED
    BY <1>0, <2>1, <2>2
<1>5. ASSUME NEW w \in Workers, CutShort(w)
      PROVE  OwnershipKept
  <2>1. lease'.owner \in {lease.owner, Nobody}
    BY <1>5 DEF TypeOK, LeaseRow, CutShort
  <2>2. \A v \in Workers : job'[v].own = job[v].own \/ plan'[v] = NoPlan
    BY <1>5 DEF TypeOK, Job, NoJob, CutShort
  <2>. QED
    BY <1>0, <2>1, <2>2
<1>6. ASSUME NEW w \in Workers, Reserve(w)
      PROVE  OwnershipKept
  <2>1. lease'.owner \in {lease.owner, Nobody}
    BY <1>6 DEF TypeOK, LeaseRow, Reserve, KeepLease, Guarded
  <2>2. \A v \in Workers : job'[v].own = job[v].own \/ plan'[v] = NoPlan
    BY <1>6 DEF TypeOK, Job, NoJob, Reserve
  <2>. QED
    BY <1>0, <2>1, <2>2
<1>7. ASSUME NEW w \in Workers, NEW m \in Members, Start(w, m)
      PROVE  OwnershipKept
  <2>1. lease'.owner \in {lease.owner, Nobody}
    BY <1>7 DEF TypeOK, LeaseRow, Start
  <2>2. \A v \in Workers : job'[v].own = job[v].own \/ plan'[v] = NoPlan
    BY <1>7 DEF TypeOK, Job, NoJob, Start
  <2>. QED
    BY <1>0, <2>1, <2>2
<1>8. ASSUME NEW w \in Workers, NEW m \in Members, ClaimSource(w, m)
      PROVE  OwnershipKept
  <2>1. lease'.owner \in {lease.owner, Nobody}
    BY <1>8 DEF TypeOK, LeaseRow, ClaimSource
  <2>2. \A v \in Workers : job'[v].own = job[v].own \/ plan'[v] = NoPlan
    BY <1>8 DEF TypeOK, Job, NoJob, ClaimSource
  <2>. QED
    BY <1>0, <2>1, <2>2
<1>9. ASSUME NEW w \in Workers, NEW m \in Members, CheckRun(w, m)
      PROVE  OwnershipKept
  <2>1. lease'.owner \in {lease.owner, Nobody}
    BY <1>9 DEF TypeOK, LeaseRow, CheckRun
  <2>2. \A v \in Workers : job'[v].own = job[v].own \/ plan'[v] = NoPlan
    BY <1>9 DEF TypeOK, Job, NoJob, CheckRun
  <2>. QED
    BY <1>0, <2>1, <2>2
<1>10. ASSUME NEW w \in Workers, NEW m \in Members, Verify(w, m)
      PROVE  OwnershipKept
  <2>1. lease'.owner \in {lease.owner, Nobody}
    BY <1>10 DEF TypeOK, LeaseRow, Verify
  <2>2. \A v \in Workers : job'[v].own = job[v].own \/ plan'[v] = NoPlan
    BY <1>10 DEF TypeOK, Job, NoJob, Verify
  <2>. QED
    BY <1>0, <2>1, <2>2
<1>11. ASSUME NEW w \in Workers, NEW m \in Members, Store(w, m)
      PROVE  OwnershipKept
  <2>1. lease'.owner \in {lease.owner, Nobody}
    BY <1>11 DEF TypeOK, LeaseRow, Store
  <2>2. \A v \in Workers : job'[v].own = job[v].own \/ plan'[v] = NoPlan
    BY <1>11 DEF TypeOK, Job, NoJob, Store
  <2>. QED
    BY <1>0, <2>1, <2>2
<1>12. ASSUME NEW w \in Workers, NEW m \in Members, StoreFailure(w, m)
      PROVE  OwnershipKept
  <2>1. lease'.owner \in {lease.owner, Nobody}
    BY <1>12 DEF TypeOK, LeaseRow, StoreFailure
  <2>2. \A v \in Workers : job'[v].own = job[v].own \/ plan'[v] = NoPlan
    BY <1>12 DEF TypeOK, Job, NoJob, StoreFailure
  <2>. QED
    BY <1>0, <2>1, <2>2
<1>13. ASSUME NEW w \in Workers, NEW m \in Members, Raise(w, m)
      PROVE  OwnershipKept
  <2>1. lease'.owner \in {lease.owner, Nobody}
    BY <1>13 DEF TypeOK, LeaseRow, Raise
  <2>2. \A v \in Workers : job'[v].own = job[v].own \/ plan'[v] = NoPlan
    BY <1>13 DEF TypeOK, Job, NoJob, Raise
  <2>. QED
    BY <1>0, <2>1, <2>2
<1>14. ASSUME NEW w \in Workers, NEW m \in Members, SettleFailed(w, m)
      PROVE  OwnershipKept
  <2>1. lease'.owner \in {lease.owner, Nobody}
    BY <1>14 DEF TypeOK, LeaseRow, SettleFailed, Guarded
  <2>2. \A v \in Workers : job'[v].own = job[v].own \/ plan'[v] = NoPlan
    BY <1>14 DEF TypeOK, Job, NoJob, SettleFailed
  <2>. QED
    BY <1>0, <2>1, <2>2
<1>15. ASSUME NEW w \in Workers, BeginSettling(w)
      PROVE  OwnershipKept
  <2>1. lease'.owner \in {lease.owner, Nobody}
    BY <1>15 DEF TypeOK, LeaseRow, BeginSettling
  <2>2. \A v \in Workers : job'[v].own = job[v].own \/ plan'[v] = NoPlan
    BY <1>15 DEF TypeOK, Job, NoJob, BeginSettling, MoveJob
  <2>. QED
    BY <1>0, <2>1, <2>2
<1>16. ASSUME NEW w \in Workers, NEW m \in Members, Settle(w, m)
      PROVE  OwnershipKept
  <2>1. lease'.owner \in {lease.owner, Nobody}
    BY <1>16 DEF TypeOK, LeaseRow, Settle
  <2>2. \A v \in Workers : job'[v].own = job[v].own \/ plan'[v] = NoPlan
    BY <1>16 DEF TypeOK, Job, NoJob, Settle
  <2>. QED
    BY <1>0, <2>1, <2>2
<1>17. ASSUME NEW w \in Workers, CommitPage(w)
      PROVE  OwnershipKept
  <2>1. lease'.owner \in {lease.owner, Nobody}
    BY <1>17 DEF TypeOK, LeaseRow, CommitPage, KeepLease, Guarded
  <2>2. \A v \in Workers : job'[v].own = job[v].own \/ plan'[v] = NoPlan
    BY <1>17 DEF TypeOK, Job, NoJob, CommitPage, MoveJob
  <2>. QED
    BY <1>0, <2>1, <2>2
<1>18. ASSUME NEW w \in Workers, Checkpoint(w)
      PROVE  OwnershipKept
  <2>1. lease'.owner \in {lease.owner, Nobody}
    BY <1>18 DEF TypeOK, LeaseRow, Checkpoint, WriteLease
  <2>2. \A v \in Workers : job'[v].own = job[v].own \/ plan'[v] = NoPlan
    BY <1>18 DEF TypeOK, Job, NoJob, Checkpoint, ForgetGroup
  <2>. QED
    BY <1>0, <2>1, <2>2
<1>19. ASSUME NEW w \in Workers, EnterEvaluate(w)
      PROVE  OwnershipKept
  <2>1. lease'.owner \in {lease.owner, Nobody}
    BY <1>19 DEF TypeOK, LeaseRow, EnterEvaluate, WriteLease
  <2>2. \A v \in Workers : job'[v].own = job[v].own \/ plan'[v] = NoPlan
    BY <1>19 DEF TypeOK, Job, NoJob, EnterEvaluate, MoveJob
  <2>. QED
    BY <1>0, <2>1, <2>2
<1>20. ASSUME NEW w \in Workers, Evaluate(w)
      PROVE  OwnershipKept
  <2>1. lease'.owner \in {lease.owner, Nobody}
    BY <1>20 DEF TypeOK, LeaseRow, Evaluate, Guarded
  <2>2. \A v \in Workers : job'[v].own = job[v].own \/ plan'[v] = NoPlan
    BY <1>20 DEF TypeOK, Job, NoJob, Evaluate, MoveJob
  <2>. QED
    BY <1>0, <2>1, <2>2
<1>21. ASSUME NEW w \in Workers, ResetCursor(w)
      PROVE  OwnershipKept
  <2>1. lease'.owner \in {lease.owner, Nobody}
    BY <1>21 DEF TypeOK, LeaseRow, ResetCursor, WriteLease, Rewound
  <2>2. \A v \in Workers : job'[v].own = job[v].own \/ plan'[v] = NoPlan
    BY <1>21 DEF TypeOK, Job, NoJob, ResetCursor, MoveJob
  <2>. QED
    BY <1>0, <2>1, <2>2
<1>22. ASSUME NEW w \in Workers, Complete(w)
      PROVE  OwnershipKept
  <2>1. lease'.owner \in {lease.owner, Nobody}
    BY <1>22 DEF TypeOK, LeaseRow, Complete, WriteLease
  <2>2. \A v \in Workers : job'[v].own = job[v].own \/ plan'[v] = NoPlan
    BY <1>22 DEF TypeOK, Job, NoJob, Complete, MoveJob
  <2>. QED
    BY <1>0, <2>1, <2>2
<1>23. ASSUME NEW w \in Workers, Leave(w)
      PROVE  OwnershipKept
  <2>1. lease'.owner \in {lease.owner, Nobody}
    BY <1>23 DEF TypeOK, LeaseRow, Leave
  <2>2. \A v \in Workers : job'[v].own = job[v].own \/ plan'[v] = NoPlan
    BY <1>23 DEF TypeOK, Job, NoJob, Leave, MoveJob
  <2>. QED
    BY <1>0, <2>1, <2>2
<1>24. ASSUME NEW w \in Workers, Release(w)
      PROVE  OwnershipKept
  <2>1. lease'.owner \in {lease.owner, Nobody}
    BY <1>24 DEF TypeOK, LeaseRow, Release, KeepLease, WriteLease, Released
  <2>2. \A v \in Workers : job'[v].own = job[v].own \/ plan'[v] = NoPlan
    BY <1>24 DEF TypeOK, Job, NoJob, Release, ForgetGroup
  <2>. QED
    BY <1>0, <2>1, <2>2
<1>25. ASSUME NEW w \in Workers, Crash(w)
      PROVE  OwnershipKept
  <2>1. lease'.owner \in {lease.owner, Nobody}
    BY <1>25 DEF TypeOK, LeaseRow, Crash
  <2>2. \A v \in Workers : job'[v].own = job[v].own \/ plan'[v] = NoPlan
    BY <1>25 DEF TypeOK, Job, NoJob, Crash, ForgetGroup
  <2>. QED
    BY <1>0, <2>1, <2>2
<1>26. ASSUME NEW w \in Workers, Deadline(w)
      PROVE  OwnershipKept
  <2>1. lease'.owner \in {lease.owner, Nobody}
    BY <1>26 DEF TypeOK, LeaseRow, Deadline
  <2>2. \A v \in Workers : job'[v].own = job[v].own \/ plan'[v] = NoPlan
    BY <1>26 DEF TypeOK, Job, NoJob, Deadline
  <2>. QED
    BY <1>0, <2>1, <2>2
<1>27. ASSUME LeaseLapses
      PROVE  OwnershipKept
  <2>1. lease'.owner \in {lease.owner, Nobody}
    BY <1>27 DEF TypeOK, LeaseRow, LeaseLapses
  <2>2. \A v \in Workers : job'[v].own = job[v].own \/ plan'[v] = NoPlan
    BY <1>27 DEF TypeOK, Job, NoJob, LeaseLapses
  <2>. QED
    BY <1>0, <2>1, <2>2
<1>28. ASSUME NEW m \in Members, SourceLapses(m)
      PROVE  OwnershipKept
  <2>1. lease'.owner \in {lease.owner, Nobody}
    BY <1>28 DEF TypeOK, LeaseRow, SourceLapses
  <2>2. \A v \in Workers : job'[v].own = job[v].own \/ plan'[v] = NoPlan
    BY <1>28 DEF TypeOK, Job, NoJob, SourceLapses
  <2>. QED
    BY <1>0, <2>1, <2>2
<1>29. ASSUME NEW m \in Members, OutsiderClaims(m)
      PROVE  OwnershipKept
  <2>1. lease'.owner \in {lease.owner, Nobody}
    BY <1>29 DEF TypeOK, LeaseRow, OutsiderClaims
  <2>2. \A v \in Workers : job'[v].own = job[v].own \/ plan'[v] = NoPlan
    BY <1>29 DEF TypeOK, Job, NoJob, OutsiderClaims
  <2>. QED
    BY <1>0, <2>1, <2>2
<1>30. ASSUME NEW m \in Members, OutsiderEnds(m)
      PROVE  OwnershipKept
  <2>1. lease'.owner \in {lease.owner, Nobody}
    BY <1>30 DEF TypeOK, LeaseRow, OutsiderEnds
  <2>2. \A v \in Workers : job'[v].own = job[v].own \/ plan'[v] = NoPlan
    BY <1>30 DEF TypeOK, Job, NoJob, OutsiderEnds
  <2>. QED
    BY <1>0, <2>1, <2>2
<1>31. ASSUME NEW w \in Workers, NEW m \in Members, QualifyFails(w, m)
      PROVE  OwnershipKept
  <2>1. lease'.owner \in {lease.owner, Nobody}
    BY <1>31 DEF TypeOK, LeaseRow, QualifyFails
  <2>2. \A v \in Workers : job'[v].own = job[v].own \/ plan'[v] = NoPlan
    BY <1>31 DEF TypeOK, Job, NoJob, QualifyFails
  <2>. QED
    BY <1>0, <2>1, <2>2
<1>32. CASE UNCHANGED vars
  BY <1>0, <1>32 DEF vars
<1>. QED
  BY <1>1, <1>2, <1>3, <1>4, <1>5, <1>6, <1>7, <1>8, <1>9, <1>10, <1>11, <1>12, <1>13,
         <1>14, <1>15, <1>16, <1>17, <1>18, <1>19, <1>20, <1>21, <1>22, <1>23, <1>24,
         <1>25, <1>26, <1>27, <1>28, <1>29, <1>30, <1>31,
         <1>32
     DEF Next, Stage, Member

(* A member a worker may still run or fail ... *)
Retained == {"runnable", "doomed"}

(* ... one whose attempt is under way or has failed ... *)
Working == Attempting \cup {"raised"}

(* ... one that may still run ... *)
Selected == Attempting \cup {"runnable"}

(* ... and one whose result may land in time: the attempt passed its check()
   and still holds the source. *)
Writing(v, m) ==
    plan[v][m] \in {"checked", "verified"} /\ source[m].holder = job[v].own /\ source[m].live

(* The result of an attempt that returned is in the source row, and nobody has
   disputed it: a lease taken on the row from outside, or a qualification that
   raised, may make the stage run or fail the member again. *)
Returned(m) == source[m].stored = "returned" /\ m \notin disputed

(* A source with such a result is finished: no attempt is left or under way
   ... *)
ReturnedFinal == \A m \in Members : Returned(m) =>
    /\ attempts[m] = MaxAttempts
    /\ source[m].holder = Nobody
    /\ \A w \in Workers : plan[w][m] \notin Working

(* ... and the owner of the stage does not run or fail it. *)
RetainedOpen == \A w \in Workers : \A m \in Members :
    Named(w) /\ plan[w][m] \in Retained => ~ Returned(m)

(* What the owner of the stage may still run or fail, nobody else is about to
   complete: when the group was loaded, or the attempt settled, no live lease
   was on the row, and a later check() passes for the owner only ... *)
RetainedUnwritten == \A w, v \in Workers : \A m \in Members :
    Named(w) /\ plan[w][m] \in Retained /\ source[m].stored = "no" => ~ Writing(v, m)

(* ... nor what is already recorded as failed ... *)
FailedUnwritten == \A v \in Workers : \A m \in Members :
    outcome[m] = "failed" /\ source[m].stored = "no" => ~ Writing(v, m)

(* ... which the owner of the stage does not run again. *)
FailedUnselected == \A w \in Workers : \A m \in Members :
    outcome[m] = "failed" /\ Named(w) => plan[w][m] \notin Selected
ResultsInv == ReturnedFinal /\ RetainedOpen /\ RetainedUnwritten
              /\ FailedUnwritten /\ FailedUnselected /\ ResultsKept

(* Steps that store nothing, reserve nothing and select nothing ... *)
Quiet ==
    /\ \A m \in Members :
          /\ source'[m].stored = source[m].stored
          /\ attempts'[m] = attempts[m]
          /\ Returned(m)' => Returned(m) /\ source'[m].holder = source[m].holder
          /\ outcome'[m] = "failed" => outcome[m] = "failed"
    /\ \A w \in Workers : \A m \in Members :
          /\ plan'[w][m] \in Working => plan[w][m] \in Working
          /\ Named(w)' /\ plan'[w][m] \in Retained => Named(w) /\ plan[w][m] \in Retained
          /\ Named(w)' /\ plan'[w][m] \in Selected => Named(w) /\ plan[w][m] \in Selected
          /\ Writing(w, m)' => Writing(w, m)

(* ... keep the results. *)
LEMMA QuietKeeps ==
    ASSUME ResultsInv, Quiet PROVE ResultsInv'
<1>1. ReturnedFinal'
  BY DEF ResultsInv, Quiet, ReturnedFinal, Returned
<1>2. RetainedOpen'
  BY DEF ResultsInv, Quiet, RetainedOpen, Returned
<1>3. RetainedUnwritten'
  BY DEF ResultsInv, Quiet, RetainedUnwritten
<1>4. FailedUnwritten'
  BY DEF ResultsInv, Quiet, FailedUnwritten
<1>5. FailedUnselected'
  BY DEF ResultsInv, Quiet, FailedUnselected
<1>6. ResultsKept'
  BY DEF ResultsInv, Quiet, ResultsKept, Returned
<1>. QED
  BY <1>1, <1>2, <1>3, <1>4, <1>5, <1>6 DEF ResultsInv

(* The lease names one worker. *)
LEMMA OneNamed ==
    ASSUME OwnersInv, NEW w \in Workers, NEW v \in Workers, Named(w), Named(v)
    PROVE  w = v
  BY DEF OwnersInv, DistinctOwners, Named

(* With one attempt per member, one worker has it. *)
LEMMA OneTried ==
    ASSUME TypeOK, AttemptInv, MaxAttempts = 1,
           NEW m \in Members, NEW w \in Workers, NEW v \in Workers,
           plan[w][m] \in Tried, plan[v][m] \in Tried
    PROVE  w = v /\ attempts[m] = MaxAttempts
<1>1. attempt[w][m] \in 1..attempts[m] /\ attempt[v][m] \in 1..attempts[m]
  BY DEF AttemptInv, NumbersReserved
<1>2. attempts[m] \in 0..1
  BY DEF TypeOK
<1>3. attempt[w][m] = 1 /\ attempt[v][m] = 1 /\ attempts[m] = 1
  BY <1>1, <1>2
<1>. QED
  BY <1>3 DEF AttemptInv, NumbersDistinct

(* A worker that knows a member runs the stage. *)
LEMMA TriedOwned ==
    ASSUME OwnersInv, NEW w \in Workers, NEW m \in Members, plan[w][m] # "out"
    PROVE  job[w].own # Nobody
  BY DEF OwnersInv, PlacedOwners, PlansPlaced, NoPlan

(* What a move of one member does to every plan. *)
LEMMA PlanMoved ==
    ASSUME TypeOK, NEW w \in Workers, NEW m \in Members, NEW p, MovePlan(w, m, p)
    PROVE  /\ plan'[w][m] = p
           /\ \A v \in Workers : \A k \in Members : ~ (v = w /\ k = m) => plan'[v][k] = plan[v][k]
  BY DEF TypeOK, MovePlan

(* Whoever keeps its job keeps its claim while the lease row stays. *)
LEMMA NamedSame ==
    ASSUME NEW w \in Workers, UNCHANGED <<lease, job>> PROVE Named(w)' <=> Named(w)
  BY DEF Named

(* What freeing a source does to every row. *)
LEMMA FreedRow ==
    ASSUME TypeOK, NEW m \in Members, source' = Freed(m)
    PROVE  /\ source'[m].stored = source[m].stored /\ source'[m].holder = Nobody
           /\ \A k \in Members : k # m => source'[k] = source[k]
  BY DEF TypeOK, Freed, SourceRow

(* How the sets of plans above relate. *)
LEMMA PhaseSets ==
    /\ "out" \notin Working \cup Retained \cup Selected
    /\ Attempting \subseteq Working /\ Attempting \subseteq Tried /\ "raised" \in Tried
  BY DEF Working, Retained, Selected, Attempting, Tried

(* Steps that leave the results and the counters alone ... *)
StoresNothing == \A k \in Members :
    /\ source'[k].stored = source[k].stored
    /\ attempts'[k] = attempts[k]
    /\ Returned(k)' => Returned(k) /\ source'[k].holder = source[k].holder
    /\ outcome'[k] = "failed" => outcome[k] = "failed"

(* ... under which the plans only move forward ... *)
PlansForward == \A v \in Workers : \A k \in Members :
    /\ plan'[v][k] \in Working => plan[v][k] \in Working
    /\ plan'[v][k] \in Retained => plan[v][k] \in Retained
    /\ plan'[v][k] \in Selected => plan[v][k] \in Selected
    /\ plan'[v][k] \in {"checked", "verified"} => plan[v][k] \in {"checked", "verified"}

(* ... and that claim no source for the stage ... *)
NothingClaimed == \A k \in Members :
    \/ source'[k] = source[k]
    \/ source'[k].holder \in {Nobody, Outsider}
    \/ ~ source'[k].live

(* ... are quiet. *)
LEMMA CalmKeeps ==
    ASSUME TypeOK, OwnersInv, ResultsInv, OwnershipKept, TypeOK',
           StoresNothing, PlansForward, NothingClaimed
    PROVE  ResultsInv'
<1>1. \A v \in Workers : \A k \in Members : plan'[v][k] # "out" =>
          /\ job'[v].own = job[v].own /\ (Named(v)' => Named(v))
          /\ plan[v][k] # "out" => job[v].own \notin {Nobody, Outsider}
  BY TriedOwned, Apart DEF OwnershipKept, NoPlan, TypeOK, Job
<1>2. \A v \in Workers : \A k \in Members : Writing(v, k)' => Writing(v, k)
  BY <1>1 DEF Writing, PlansForward, NothingClaimed
<1>3. Quiet
  BY <1>1, <1>2, PhaseSets DEF Quiet, StoresNothing, PlansForward
<1>. QED
  BY <1>3, QuietKeeps

(* Every step keeps the results. *)
LEMMA ResultsStep ==
    ASSUME MaxAttempts = 1, TypeOK, OwnersInv, AttemptInv, FreezeInv, ResultsInv,
           [Next]_vars, TypeOK'
    PROVE  ResultsInv'
<1>0. OwnershipKept
  BY OwnershipStep
<1>1. ASSUME NEW w \in Workers, ReadRelease(w)
      PROVE  ResultsInv'
  <2>1. StoresNothing
    BY <1>1 DEF TypeOK, StoresNothing, Returned, ReadRelease
  <2>2. PlansForward
    BY <1>1 DEF TypeOK, PlansForward, ReadRelease
  <2>3. NothingClaimed
    BY <1>1 DEF TypeOK, NothingClaimed, ReadRelease
  <2>. QED
    BY <1>0, <2>1, <2>2, <2>3, CalmKeeps
<1>2. ASSUME NEW w \in Workers, Claim(w)
      PROVE  ResultsInv'
  <2>1. StoresNothing
    BY <1>2 DEF TypeOK, StoresNothing, Returned, Claim
  <2>2. PlansForward
    BY <1>2 DEF TypeOK, PlansForward, Claim
  <2>3. NothingClaimed
    BY <1>2 DEF TypeOK, NothingClaimed, Claim
  <2>. QED
    BY <1>0, <2>1, <2>2, <2>3, CalmKeeps
<1>3. ASSUME NEW w \in Workers, Check(w)
      PROVE  ResultsInv'
  <2>1. StoresNothing
    BY <1>3 DEF TypeOK, StoresNothing, Returned, Check
  <2>2. PlansForward
    BY <1>3 DEF TypeOK, PlansForward, Check
  <2>3. NothingClaimed
    BY <1>3 DEF TypeOK, NothingClaimed, Check
  <2>. QED
    BY <1>0, <2>1, <2>2, <2>3, CalmKeeps
<1>4. ASSUME NEW w \in Workers, Load(w)
      PROVE  ResultsInv'
  <2>0. UNCHANGED <<lease, outcome, attempts, source, disputed>> /\ Named(w) /\ MoveJob(w, "sources")
    BY <1>4 DEF Load, Holds, Owned
  <2>1. \A v \in Workers : \A k \in Members : plan'[v][k] =
          IF v = w THEN IF k \in Group(w) THEN Inspected(k) ELSE "out" ELSE plan[v][k]
    BY <1>4 DEF TypeOK, Load
  <2>2. \A v \in Workers : job'[v].own = job[v].own
    BY <2>0 DEF TypeOK, Job, MoveJob
  <2>3. \A v \in Workers : Named(v)' <=> Named(v)
    BY <2>0, <2>2 DEF Named
  <2>4. \A k \in Members : Inspected(k) \in {"skipped", "qualified", "pending", "runnable"}
    BY DEF Inspected
  <2>5. \A k \in Members : Inspected(k) = "runnable" =>
           outcome[k] # "failed" /\ ~ Qualified(k) /\ ~ LiveHeld(k)
    BY DEF Inspected
  <2>6. \A v \in Workers : \A k \in Members :
           plan'[v][k] \in {"checked", "verified"} \cup Working => plan'[v][k] = plan[v][k] /\ v # w
    BY <2>1, <2>4 DEF Working, Attempting
  <2>7. \A v \in Workers : \A k \in Members : Writing(v, k)' => Writing(v, k) /\ v # w
    BY <2>0, <2>2, <2>6 DEF Writing
  <2>8. ReturnedFinal'
    BY <2>0, <2>6 DEF ResultsInv, ReturnedFinal, Returned
  <2>9. RetainedOpen'
    BY <2>0, <2>1, <2>3, <2>4, <2>5
       DEF ResultsInv, RetainedOpen, ReturnedFinal, Returned, Retained, Qualified
  <2>10. RetainedUnwritten'
    <3>. SUFFICES ASSUME NEW u \in Workers, NEW v \in Workers, NEW k \in Members, Named(u)',
                         plan'[u][k] \in Retained, source[k].stored = "no", Writing(v, k)'
                  PROVE  FALSE
      BY <2>0 DEF RetainedUnwritten
    <3>1. Writing(v, k) /\ LiveHeld(k)
      BY <2>7, TriedOwned DEF Writing, LiveHeld
    <3>. QED
      BY <2>1, <2>3, <2>4, <2>5, <3>1 DEF ResultsInv, RetainedUnwritten, Retained
  <2>11. FailedUnwritten'
    BY <2>0, <2>7 DEF ResultsInv, FailedUnwritten
  <2>12. FailedUnselected'
    BY <2>0, <2>1, <2>3, <2>4, <2>5 DEF ResultsInv, FailedUnselected, Selected, Attempting
  <2>13. ResultsKept'
    BY <2>0 DEF ResultsInv, ResultsKept, Returned
  <2>. QED
    BY <2>8, <2>9, <2>10, <2>11, <2>12, <2>13 DEF ResultsInv
<1>5. ASSUME NEW w \in Workers, CutShort(w)
      PROVE  ResultsInv'
  <2>1. StoresNothing
    BY <1>5 DEF TypeOK, StoresNothing, Returned, CutShort
  <2>2. PlansForward
    BY <1>5 DEF TypeOK, PlansForward, CutShort, Working, Selected, Retained, Attempting,
           Taken, Waiting, Resolved
  <2>3. NothingClaimed
    BY <1>5 DEF TypeOK, NothingClaimed, CutShort
  <2>. QED
    BY <1>0, <2>1, <2>2, <2>3, CalmKeeps
<1>6. ASSUME NEW w \in Workers, Reserve(w)
      PROVE  ResultsInv'
  <2>1. PICK last \in Members :
          /\ attempts' = [m \in Members |-> IF m <= last /\ plan[w][m] = "runnable"
                                            THEN Count(m) ELSE attempts[m]]
          /\ plan' = [plan EXCEPT ![w] =
                 [m \in Members |-> IF ~ (m <= last /\ plan[w][m] = "runnable") THEN plan[w][m]
                                    ELSE IF Admits(m) THEN "admitted" ELSE "doomed"]]
          /\ UNCHANGED <<lease, job, source, outcome, disputed>>
    BY <1>6 DEF Reserve, Guarded, KeepLease
  <2>2. \A k \in Members : attempts[k] = MaxAttempts => attempts'[k] = attempts[k] /\ ~ Admits(k)
    BY <2>1, StageAssumption DEF TypeOK, Count, Admits, Previous
  <2>3. \A v \in Workers : \A k \in Members :
          \/ plan'[v][k] = plan[v][k]
          \/ plan[v][k] = "runnable" /\ plan'[v][k] = "admitted" /\ Admits(k)
          \/ plan[v][k] = "runnable" /\ plan'[v][k] = "doomed"
    BY <2>1 DEF TypeOK
  <2>4. \A v \in Workers : Named(v)' <=> Named(v)
    BY <2>1 DEF Named
  <2>5. \A v \in Workers : \A k \in Members : Writing(v, k)' => Writing(v, k)
    BY <2>1, <2>3 DEF Writing
  <2>6. ReturnedFinal'
    BY <2>1, <2>2, <2>3 DEF ResultsInv, ReturnedFinal, Returned, Working, Attempting
  <2>7. RetainedOpen'
    BY <2>1, <2>3, <2>4 DEF ResultsInv, RetainedOpen, Returned, Retained
  <2>8. RetainedUnwritten'
    BY <2>1, <2>3, <2>4, <2>5 DEF ResultsInv, RetainedUnwritten, Retained
  <2>9. FailedUnwritten'
    BY <2>1, <2>5 DEF ResultsInv, FailedUnwritten
  <2>10. FailedUnselected'
    BY <2>1, <2>3, <2>4 DEF ResultsInv, FailedUnselected, Selected, Attempting
  <2>11. ResultsKept'
    BY <2>1 DEF ResultsInv, ResultsKept, Returned
  <2>. QED
    BY <2>6, <2>7, <2>8, <2>9, <2>10, <2>11 DEF ResultsInv
<1>7. ASSUME NEW w \in Workers, NEW m \in Members, Start(w, m)
      PROVE  ResultsInv'
  <2>1. StoresNothing
    BY <1>7 DEF TypeOK, StoresNothing, Returned, Start
  <2>2. PlansForward
    BY <1>7 DEF TypeOK, PlansForward, Start, MovePlan, Working, Selected, Retained,
           Attempting
  <2>3. NothingClaimed
    BY <1>7 DEF TypeOK, NothingClaimed, Start
  <2>. QED
    BY <1>0, <2>1, <2>2, <2>3, CalmKeeps
<1>8. ASSUME NEW w \in Workers, NEW m \in Members, ClaimSource(w, m)
      PROVE  ResultsInv'
  <2>1. /\ plan[w][m] \in Attempting /\ UNCHANGED <<lease, outcome, attempts, job, disputed>>
        /\ \E p \in {"raised", "claimed", "checked"} : MovePlan(w, m, p)
        /\ \A k \in Members : k # m => source'[k] = source[k]
        /\ source'[m].stored = source[m].stored
        /\ source'[m] = source[m] \/ source'[m].holder = job[w].own
        /\ MovePlan(w, m, "checked") => source[m].stored # "no"
    <3>1. plan[w][m] = "started" /\ UNCHANGED <<lease, outcome, attempts, job, disputed>>
      BY <1>8 DEF ClaimSource
    <3>2. CASE MovePlan(w, m, "raised") /\ UNCHANGED source
      <4>1. ~ MovePlan(w, m, "checked")
        BY <3>2, PlanMoved
      <4>. QED
        BY <3>1, <3>2, <4>1 DEF Attempting
    <3>3. ASSUME source' = [source EXCEPT ![m] = [source[m] EXCEPT !.holder = job[w].own, !.live = TRUE]],
                 \/ MovePlan(w, m, "claimed")
                 \/ MovePlan(w, m, "checked") /\ source[m].stored # "no"
          PROVE  /\ \E p \in {"raised", "claimed", "checked"} : MovePlan(w, m, p)
                 /\ \A k \in Members : k # m => source'[k] = source[k]
                 /\ source'[m].stored = source[m].stored
                 /\ source'[m].holder = job[w].own
                 /\ MovePlan(w, m, "checked") => source[m].stored # "no"
      <4>1. source'[m].stored = source[m].stored /\ source'[m].holder = job[w].own
            /\ \A k \in Members : k # m => source'[k] = source[k]
        BY <3>3 DEF TypeOK, SourceRow
      <4>2. MovePlan(w, m, "checked") => source[m].stored # "no"
        BY <3>3, PlanMoved
      <4>3. \E p \in {"raised", "claimed", "checked"} : MovePlan(w, m, p)
        BY <3>3
      <4>. QED
        BY <4>1, <4>2, <4>3
    <3>. QED
      BY <1>8, <3>1, <3>2, <3>3 DEF ClaimSource, Attempting
  <2>2. PICK p \in {"raised", "claimed", "checked"} : MovePlan(w, m, p)
    BY <2>1
  <2>3. /\ plan'[w][m] = p
        /\ \A v \in Workers : \A k \in Members : ~ (v = w /\ k = m) => plan'[v][k] = plan[v][k]
    BY <2>2, PlanMoved
  <2>4. \A v \in Workers : Named(v)' <=> Named(v)
    BY <2>1, NamedSame
  <2>5. \A v \in Workers : plan[v][m] \in Tried => v = w
    BY <2>1, OneTried, PhaseSets
  <2>6. ~ Returned(m)
    BY <2>1, PhaseSets DEF ResultsInv, ReturnedFinal
  <2>7. \A v \in Workers : \A k \in Members :
          Writing(v, k)' => Writing(v, k) \/ (v = w /\ k = m /\ source[m].stored # "no")
    <3>0. \A v \in Workers : \A k \in Members : k # m /\ Writing(v, k)' => Writing(v, k)
      BY <2>1, <2>3 DEF Writing
    <3>1. \A v \in Workers : v # w => ~ Writing(v, m)'
      BY <2>3, <2>5 DEF Writing, Tried, Attempting
    <3>2. Writing(w, m)' => source[m].stored # "no"
      BY <2>1, <2>2, <2>3 DEF Writing
    <3>. QED
      BY <3>0, <3>1, <3>2
  <2>8. ReturnedFinal'
    BY <2>1, <2>3, <2>6 DEF ResultsInv, ReturnedFinal, Returned
  <2>9. RetainedOpen'
    BY <2>1, <2>3, <2>4 DEF ResultsInv, RetainedOpen, Returned, Retained
  <2>10. RetainedUnwritten'
    BY <2>1, <2>3, <2>4, <2>7 DEF ResultsInv, RetainedUnwritten, Retained
  <2>11. FailedUnwritten'
    BY <2>1, <2>7 DEF ResultsInv, FailedUnwritten
  <2>12. FailedUnselected'
    BY <2>1, <2>3, <2>4 DEF ResultsInv, FailedUnselected, Selected, Attempting
  <2>13. ResultsKept'
    BY <2>1 DEF ResultsInv, ResultsKept, Returned
  <2>. QED
    BY <2>8, <2>9, <2>10, <2>11, <2>12, <2>13 DEF ResultsInv
<1>9. ASSUME NEW w \in Workers, NEW m \in Members, CheckRun(w, m)
      PROVE  ResultsInv'
  <2>1. /\ plan[w][m] \in Attempting /\ UNCHANGED <<lease, outcome, attempts, job, disputed>>
        /\ \E p \in {"raised", "checked"} : MovePlan(w, m, p)
        /\ \A k \in Members : k # m => source'[k] = source[k]
        /\ source'[m].stored = source[m].stored
        /\ MovePlan(w, m, "checked") => Owned(w) /\ source' = source
        /\ source' = source \/ source' = Freed(m)
    <3>1. plan[w][m] = "claimed" /\ UNCHANGED <<lease, outcome, attempts, job, disputed>>
      BY <1>9 DEF CheckRun
    <3>2. CASE Owned(w) /\ MovePlan(w, m, "checked") /\ UNCHANGED source
      BY <3>1, <3>2 DEF Attempting
    <3>3. CASE MovePlan(w, m, "raised") /\ (source' = source \/ source' = Freed(m))
      <4>1. ~ MovePlan(w, m, "checked")
        BY <3>3, PlanMoved
      <4>2. source'[m].stored = source[m].stored /\ \A k \in Members : k # m => source'[k] = source[k]
        BY <3>3, FreedRow
      <4>. QED
        BY <3>1, <3>3, <4>1, <4>2 DEF Attempting
    <3>. QED
      BY <1>9, <3>2, <3>3 DEF CheckRun, MayWrite
  <2>2. PICK p \in {"raised", "checked"} : MovePlan(w, m, p)
    BY <2>1
  <2>3. /\ plan'[w][m] = p
        /\ \A v \in Workers : \A k \in Members : ~ (v = w /\ k = m) => plan'[v][k] = plan[v][k]
    BY <2>2, PlanMoved
  <2>4. \A v \in Workers : Named(v)' <=> Named(v)
    BY <2>1, NamedSame
  <2>5. \A v \in Workers : plan[v][m] \in Tried => v = w
    BY <2>1, OneTried, PhaseSets
  <2>6. ~ Returned(m)
    BY <2>1, PhaseSets DEF ResultsInv, ReturnedFinal
  <2>7. \A v \in Workers : \A k \in Members :
          Writing(v, k)' => Writing(v, k) \/ (v = w /\ k = m /\ Owned(w))
    <3>. SUFFICES ASSUME NEW v \in Workers, NEW k \in Members, Writing(v, k)', ~ (v = w /\ k = m)
                  PROVE  Writing(v, k)
      BY <2>1, <2>2, <2>3 DEF Writing
    <3>1. plan[v][k] = plan'[v][k] /\ job'[v].own = job[v].own
      BY <2>1, <2>3
    <3>2. CASE k # m
      BY <2>1, <3>1, <3>2 DEF Writing
    <3>3. CASE k = m
      BY <2>5, <3>1, <3>3 DEF Writing, Tried, Attempting
    <3>. QED
      BY <3>2, <3>3
  <2>8. ReturnedFinal'
    BY <2>1, <2>3, <2>6 DEF ResultsInv, ReturnedFinal, Returned
  <2>9. RetainedOpen'
    BY <2>1, <2>3, <2>4 DEF ResultsInv, RetainedOpen, Returned, Retained
  <2>10. RetainedUnwritten'
    <3>. SUFFICES ASSUME NEW u \in Workers, NEW v \in Workers, NEW k \in Members, Named(u)',
                         plan'[u][k] \in Retained, source'[k].stored = "no", Writing(v, k)'
                  PROVE  FALSE
      BY DEF RetainedUnwritten
    <3>1. Named(u) /\ plan[u][k] \in Retained /\ ~ (u = w /\ k = m) /\ source[k].stored = "no"
      BY <2>1, <2>3, <2>4 DEF Retained
    <3>2. v = w /\ k = m /\ Named(w)
      BY <2>7, <3>1 DEF ResultsInv, RetainedUnwritten, Owned
    <3>. QED
      BY <3>1, <3>2, OneNamed
  <2>11. FailedUnwritten'
    <3>. SUFFICES ASSUME NEW v \in Workers, NEW k \in Members, outcome[k] = "failed",
                         source'[k].stored = "no", Writing(v, k)'
                  PROVE  FALSE
      BY <2>1 DEF FailedUnwritten
    <3>1. source[k].stored = "no"
      BY <2>1
    <3>2. v = w /\ k = m /\ Named(w)
      BY <2>7, <3>1 DEF ResultsInv, FailedUnwritten, Owned
    <3>. QED
      BY <2>1, <3>2 DEF ResultsInv, FailedUnselected, Selected
  <2>12. FailedUnselected'
    BY <2>1, <2>3, <2>4 DEF ResultsInv, FailedUnselected, Selected, Attempting
  <2>13. ResultsKept'
    BY <2>1 DEF ResultsInv, ResultsKept, Returned
  <2>. QED
    BY <2>8, <2>9, <2>10, <2>11, <2>12, <2>13 DEF ResultsInv
<1>10. ASSUME NEW w \in Workers, NEW m \in Members, Verify(w, m)
      PROVE  ResultsInv'
  <2>1. StoresNothing
    BY <1>10 DEF TypeOK, StoresNothing, Returned, Verify
  <2>2. PlansForward
    BY <1>10 DEF TypeOK, PlansForward, Verify, MovePlan, Working, Selected, Retained,
           Attempting
  <2>3. NothingClaimed
    BY <1>10 DEF TypeOK, NothingClaimed, Verify
  <2>. QED
    BY <1>0, <2>1, <2>2, <2>3, CalmKeeps
<1>11. ASSUME NEW w \in Workers, NEW m \in Members, Store(w, m)
      PROVE  ResultsInv'
  <2>1. /\ plan[w][m] \in Attempting /\ UNCHANGED <<lease, outcome, attempts, job, disputed>>
        /\ \E p \in {"returned", "raised"} : MovePlan(w, m, p)
        /\ \A k \in Members : k # m => source'[k] = source[k]
        /\ source[m].holder = job[w].own /\ plan[w][m] = "verified"
        /\ source'[m].holder = Nobody
        /\ Returned(m)' => \/ Returned(m)
                           \/ /\ MovePlan(w, m, "returned")
                              /\ source[m].live
                              /\ source[m].stored = "no"
        /\ source'[m].stored # "no"
    <3>1. PICK end \in {"returned", "raised"} :
          /\ MovePlan(w, m, end)
          /\ source' = [source EXCEPT ![m] =
                 [holder |-> Nobody, live |-> FALSE,
                  stored |-> IF source[m].stored # "no" THEN source[m].stored
                             ELSE IF source[m].live THEN end ELSE "late"]]
      BY <1>11 DEF Store
    <3>2. /\ \A k \in Members : k # m => source'[k] = source[k]
          /\ source'[m].holder = Nobody
          /\ source'[m].stored = IF source[m].stored # "no" THEN source[m].stored
                                 ELSE IF source[m].live THEN end ELSE "late"
      BY <3>1 DEF TypeOK
    <3>. QED
      BY <1>11, <3>1, <3>2 DEF Store, Returned, Attempting
  <2>2. PICK p \in {"returned", "raised"} : MovePlan(w, m, p)
    BY <2>1
  <2>3. /\ plan'[w][m] = p
        /\ \A v \in Workers : \A k \in Members : ~ (v = w /\ k = m) => plan'[v][k] = plan[v][k]
    BY <2>2, PlanMoved
  <2>4. \A v \in Workers : Named(v)' <=> Named(v)
    BY <2>1, NamedSame
  <2>5. \A v \in Workers : plan[v][m] \in Tried => v = w
    BY <2>1, OneTried, PhaseSets
  <2>6. ~ Returned(m)
    BY <2>1, PhaseSets DEF ResultsInv, ReturnedFinal
  <2>7. \A v \in Workers : \A k \in Members : Writing(v, k)' => Writing(v, k) /\ k # m
    <3>. SUFFICES ASSUME NEW v \in Workers, NEW k \in Members, Writing(v, k)'
                  PROVE  Writing(v, k) /\ k # m
      OBVIOUS
    <3>1. k # m
      <4>1. SUFFICES ASSUME k = m PROVE FALSE
        OBVIOUS
      <4>2. v # w
        BY <2>2, <2>3, <4>1 DEF Writing
      <4>. QED
        BY <2>3, <2>5, <4>1, <4>2 DEF Writing, Tried, Attempting
    <3>. QED
      BY <2>1, <2>3, <3>1 DEF Writing
  <2>8. Returned(m)' => MovePlan(w, m, "returned") /\ Writing(w, m) /\ source[m].stored = "no"
    BY <2>1, <2>6 DEF Writing
  <2>9. \A k \in Members : k # m => (Returned(k)' <=> Returned(k))
    BY <2>1 DEF Returned
  <2>10. ReturnedFinal'
    <3>1. ASSUME Returned(m)'
          PROVE  attempts[m] = MaxAttempts /\ \A v \in Workers : plan'[v][m] \notin Working
      <4>1. attempts[m] = MaxAttempts
        BY <2>1, OneTried, PhaseSets
      <4>2. plan'[w][m] = "returned"
        BY <2>8, <3>1, PlanMoved
      <4>3. \A v \in Workers : v # w => plan[v][m] \notin Working
        BY <2>5 DEF Working, Tried
      <4>. QED
        BY <2>3, <4>1, <4>2, <4>3 DEF Working, Attempting
    <3>2. ASSUME NEW k \in Members, k # m, Returned(k)
          PROVE  attempts[k] = MaxAttempts /\ source'[k].holder = Nobody
                 /\ \A v \in Workers : plan'[v][k] \notin Working
      BY <2>1, <2>3, <3>2 DEF ResultsInv, ReturnedFinal
    <3>. QED
      BY <2>1, <2>9, <3>1, <3>2 DEF ReturnedFinal
  <2>11. RetainedOpen'
    <3>. SUFFICES ASSUME NEW u \in Workers, NEW k \in Members, Named(u)', plan'[u][k] \in Retained, Returned(k)'
                  PROVE  FALSE
      BY DEF RetainedOpen
    <3>1. Named(u) /\ plan[u][k] \in Retained
      BY <2>2, <2>3, <2>4 DEF Retained
    <3>. QED
      BY <2>8, <2>9, <3>1 DEF ResultsInv, RetainedOpen, RetainedUnwritten
  <2>12. RetainedUnwritten'
    BY <2>1, <2>2, <2>3, <2>4, <2>7 DEF ResultsInv, RetainedUnwritten, Retained
  <2>13. FailedUnwritten'
    BY <2>1, <2>7 DEF ResultsInv, FailedUnwritten
  <2>14. FailedUnselected'
    BY <2>1, <2>2, <2>3, <2>4 DEF ResultsInv, FailedUnselected, Selected, Attempting
  <2>15. ResultsKept'
    <3>. SUFFICES ASSUME NEW k \in Members, outcome[k] = "failed", Returned(k)'
                  PROVE  FALSE
      BY <2>1 DEF ResultsKept, Returned
    <3>. QED
      BY <2>8, <2>9 DEF ResultsInv, ResultsKept, FailedUnwritten, Returned
  <2>. QED
    BY <2>10, <2>11, <2>12, <2>13, <2>14, <2>15 DEF ResultsInv
<1>12. ASSUME NEW w \in Workers, NEW m \in Members, StoreFailure(w, m)
      PROVE  ResultsInv'
  <2>0. UNCHANGED <<attempts, outcome, disputed>> /\ plan[w][m] \in Attempting
        /\ (source' = source \/ source' = Freed(m))
    BY <1>12 DEF StoreFailure, Attempting
  <2>1. StoresNothing
    BY <2>0, FreedRow, PhaseSets DEF ResultsInv, ReturnedFinal, StoresNothing, Returned
  <2>2. PlansForward
    BY <1>12 DEF TypeOK, PlansForward, StoreFailure, MovePlan, Working, Selected, Retained,
           Attempting
  <2>3. NothingClaimed
    BY <2>0, FreedRow DEF NothingClaimed
  <2>. QED
    BY <1>0, <2>1, <2>2, <2>3, CalmKeeps
<1>13. ASSUME NEW w \in Workers, NEW m \in Members, Raise(w, m)
      PROVE  ResultsInv'
  <2>0. UNCHANGED <<attempts, outcome, disputed>> /\ plan[w][m] \in Attempting
        /\ (source' = source \/ source' = Freed(m))
    BY <1>13 DEF Raise, Attempting
  <2>1. StoresNothing
    BY <2>0, FreedRow, PhaseSets DEF ResultsInv, ReturnedFinal, StoresNothing, Returned
  <2>2. PlansForward
    BY <1>13 DEF TypeOK, PlansForward, Raise, MovePlan, Working, Selected, Retained,
           Attempting
  <2>3. NothingClaimed
    BY <2>0, FreedRow DEF NothingClaimed
  <2>. QED
    BY <1>0, <2>1, <2>2, <2>3, CalmKeeps
<1>14. ASSUME NEW w \in Workers, NEW m \in Members, SettleFailed(w, m)
      PROVE  ResultsInv'
  <2>1. /\ UNCHANGED <<lease, job, source, attempts, disputed>> /\ Named(w)
        /\ plan[w][m] = "doomed" /\ MovePlan(w, m, "failed")
        /\ outcome' = [outcome EXCEPT ![m] = "failed"]
    BY <1>14 DEF SettleFailed, Guarded, OwnersInv, GuardsNamed
  <2>2. /\ plan'[w][m] = "failed"
        /\ \A v \in Workers : \A k \in Members : ~ (v = w /\ k = m) => plan'[v][k] = plan[v][k]
    BY <2>1, PlanMoved
  <2>3. \A v \in Workers : (Named(v)' <=> Named(v)) /\ (Named(v) => v = w)
    BY <2>1, NamedSame, OneNamed
  <2>4. \A v \in Workers : \A k \in Members : Writing(v, k)' => Writing(v, k)
    BY <2>1, <2>2 DEF Writing
  <2>5. \A k \in Members : k # m => outcome'[k] = outcome[k]
    BY <2>1 DEF TypeOK
  <2>6. ReturnedFinal'
    BY <2>1, <2>2 DEF ResultsInv, ReturnedFinal, Returned, Working, Attempting
  <2>7. RetainedOpen'
    BY <2>1, <2>2, <2>3 DEF ResultsInv, RetainedOpen, Returned, Retained
  <2>8. RetainedUnwritten'
    BY <2>1, <2>2, <2>3, <2>4 DEF ResultsInv, RetainedUnwritten, Retained
  <2>9. FailedUnwritten'
    BY <2>1, <2>4, <2>5 DEF ResultsInv, FailedUnwritten, RetainedUnwritten, Retained
  <2>10. FailedUnselected'
    BY <2>2, <2>3, <2>5 DEF ResultsInv, FailedUnselected, Selected, Attempting
  <2>11. ResultsKept'
    BY <2>1, <2>5 DEF ResultsInv, ResultsKept, RetainedOpen, Retained, Returned
  <2>. QED
    BY <2>6, <2>7, <2>8, <2>9, <2>10, <2>11 DEF ResultsInv
<1>15. ASSUME NEW w \in Workers, BeginSettling(w)
      PROVE  ResultsInv'
  <2>1. StoresNothing
    BY <1>15 DEF TypeOK, StoresNothing, Returned, BeginSettling
  <2>2. PlansForward
    BY <1>15 DEF TypeOK, PlansForward, BeginSettling
  <2>3. NothingClaimed
    BY <1>15 DEF TypeOK, NothingClaimed, BeginSettling
  <2>. QED
    BY <1>0, <2>1, <2>2, <2>3, CalmKeeps
<1>16. ASSUME NEW w \in Workers, NEW m \in Members, Settle(w, m)
      PROVE  ResultsInv'
  <2>1. /\ UNCHANGED <<lease, job, source, attempts, outcome, disputed>>
        /\ plan[w][m] \in {"raised", "returned"} /\ MovePlan(w, m, Settled(w, m))
    BY <1>16 DEF Settle
  <2>2. /\ plan'[w][m] = Settled(w, m)
        /\ \A v \in Workers : \A k \in Members : ~ (v = w /\ k = m) => plan'[v][k] = plan[v][k]
    BY <2>1, PlanMoved
  <2>3. Settled(w, m) \in {"doomed", "skipped", "qualified", "pending"}
    BY DEF Settled
  <2>4. Settled(w, m) = "doomed" => ~ LiveHeld(m) /\ (plan[w][m] = "raised" \/ ~ Qualified(m))
    BY DEF Settled, Exhausted
  <2>5. \A v \in Workers : Named(v)' <=> Named(v)
    BY <2>1, NamedSame
  <2>6. \A v \in Workers : \A k \in Members : Writing(v, k)' => Writing(v, k)
    BY <2>1, <2>2, <2>3 DEF Writing
  <2>7. ReturnedFinal'
    BY <2>1, <2>2, <2>3 DEF ResultsInv, ReturnedFinal, Returned, Working, Attempting
  <2>8. plan'[w][m] \in Retained => ~ Returned(m) /\ \A v \in Workers : ~ Writing(v, m)
    <3>. SUFFICES ASSUME plan'[w][m] \in Retained
                  PROVE  ~ Returned(m) /\ \A v \in Workers : ~ Writing(v, m)
      OBVIOUS
    <3>1. ~ LiveHeld(m) /\ (plan[w][m] = "raised" \/ ~ Qualified(m))
      BY <2>2, <2>3, <2>4 DEF Retained
    <3>2. ~ Returned(m)
      BY <3>1 DEF ResultsInv, ReturnedFinal, Working, Qualified, Returned
    <3>3. \A v \in Workers : ~ Writing(v, m)
      BY <3>1, TriedOwned DEF Writing, LiveHeld
    <3>. QED
      BY <3>2, <3>3
  <2>9. RetainedOpen'
    BY <2>1, <2>2, <2>5, <2>8 DEF ResultsInv, RetainedOpen, Returned
  <2>10. RetainedUnwritten'
    BY <2>1, <2>2, <2>5, <2>6, <2>8 DEF ResultsInv, RetainedUnwritten
  <2>11. FailedUnwritten'
    BY <2>1, <2>6 DEF ResultsInv, FailedUnwritten
  <2>12. FailedUnselected'
    BY <2>1, <2>2, <2>3, <2>5 DEF ResultsInv, FailedUnselected, Selected, Attempting
  <2>13. ResultsKept'
    BY <2>1 DEF ResultsInv, ResultsKept, Returned
  <2>. QED
    BY <2>7, <2>9, <2>10, <2>11, <2>12, <2>13 DEF ResultsInv
<1>17. ASSUME NEW w \in Workers, CommitPage(w)
      PROVE  ResultsInv'
  <2>1. StoresNothing
    BY <1>17 DEF TypeOK, StoresNothing, Returned, CommitPage, Observed
  <2>2. PlansForward
    BY <1>17 DEF TypeOK, PlansForward, CommitPage
  <2>3. NothingClaimed
    BY <1>17 DEF TypeOK, NothingClaimed, CommitPage
  <2>. QED
    BY <1>0, <2>1, <2>2, <2>3, CalmKeeps
<1>18. ASSUME NEW w \in Workers, Checkpoint(w)
      PROVE  ResultsInv'
  <2>1. StoresNothing
    BY <1>18 DEF TypeOK, StoresNothing, Returned, Checkpoint
  <2>2. PlansForward
    BY <1>18 DEF TypeOK, PlansForward, Checkpoint, ForgetGroup, Working, Selected,
           Retained, Attempting, NoPlan
  <2>3. NothingClaimed
    BY <1>18 DEF TypeOK, NothingClaimed, Checkpoint
  <2>. QED
    BY <1>0, <2>1, <2>2, <2>3, CalmKeeps
<1>19. ASSUME NEW w \in Workers, EnterEvaluate(w)
      PROVE  ResultsInv'
  <2>1. StoresNothing
    BY <1>19 DEF TypeOK, StoresNothing, Returned, EnterEvaluate
  <2>2. PlansForward
    BY <1>19 DEF TypeOK, PlansForward, EnterEvaluate
  <2>3. NothingClaimed
    BY <1>19 DEF TypeOK, NothingClaimed, EnterEvaluate
  <2>. QED
    BY <1>0, <2>1, <2>2, <2>3, CalmKeeps
<1>20. ASSUME NEW w \in Workers, Evaluate(w)
      PROVE  ResultsInv'
  <2>1. StoresNothing
    BY <1>20 DEF TypeOK, StoresNothing, Returned, Evaluate
  <2>2. PlansForward
    BY <1>20 DEF TypeOK, PlansForward, Evaluate
  <2>3. NothingClaimed
    BY <1>20 DEF TypeOK, NothingClaimed, Evaluate
  <2>. QED
    BY <1>0, <2>1, <2>2, <2>3, CalmKeeps
<1>21. ASSUME NEW w \in Workers, ResetCursor(w)
      PROVE  ResultsInv'
  <2>1. StoresNothing
    BY <1>21 DEF TypeOK, StoresNothing, Returned, ResetCursor
  <2>2. PlansForward
    BY <1>21 DEF TypeOK, PlansForward, ResetCursor
  <2>3. NothingClaimed
    BY <1>21 DEF TypeOK, NothingClaimed, ResetCursor
  <2>. QED
    BY <1>0, <2>1, <2>2, <2>3, CalmKeeps
<1>22. ASSUME NEW w \in Workers, Complete(w)
      PROVE  ResultsInv'
  <2>1. StoresNothing
    BY <1>22 DEF TypeOK, StoresNothing, Returned, Complete
  <2>2. PlansForward
    BY <1>22 DEF TypeOK, PlansForward, Complete
  <2>3. NothingClaimed
    BY <1>22 DEF TypeOK, NothingClaimed, Complete
  <2>. QED
    BY <1>0, <2>1, <2>2, <2>3, CalmKeeps
<1>23. ASSUME NEW w \in Workers, Leave(w)
      PROVE  ResultsInv'
  <2>1. StoresNothing
    BY <1>23 DEF TypeOK, StoresNothing, Returned, Leave
  <2>2. PlansForward
    BY <1>23 DEF TypeOK, PlansForward, Leave
  <2>3. NothingClaimed
    BY <1>23 DEF TypeOK, NothingClaimed, Leave
  <2>. QED
    BY <1>0, <2>1, <2>2, <2>3, CalmKeeps
<1>24. ASSUME NEW w \in Workers, Release(w)
      PROVE  ResultsInv'
  <2>1. StoresNothing
    BY <1>24 DEF TypeOK, StoresNothing, Returned, Release
  <2>2. PlansForward
    BY <1>24 DEF TypeOK, PlansForward, Release, ForgetGroup, Working, Selected, Retained,
           Attempting, NoPlan
  <2>3. NothingClaimed
    BY <1>24 DEF TypeOK, NothingClaimed, Release
  <2>. QED
    BY <1>0, <2>1, <2>2, <2>3, CalmKeeps
<1>25. ASSUME NEW w \in Workers, Crash(w)
      PROVE  ResultsInv'
  <2>1. StoresNothing
    BY <1>25 DEF TypeOK, StoresNothing, Returned, Crash
  <2>2. PlansForward
    BY <1>25 DEF TypeOK, PlansForward, Crash, ForgetGroup, Working, Selected, Retained,
           Attempting, NoPlan
  <2>3. NothingClaimed
    BY <1>25 DEF TypeOK, NothingClaimed, Crash
  <2>. QED
    BY <1>0, <2>1, <2>2, <2>3, CalmKeeps
<1>26. ASSUME NEW w \in Workers, Deadline(w)
      PROVE  ResultsInv'
  <2>1. StoresNothing
    BY <1>26 DEF TypeOK, StoresNothing, Returned, Deadline
  <2>2. PlansForward
    BY <1>26 DEF TypeOK, PlansForward, Deadline
  <2>3. NothingClaimed
    BY <1>26 DEF TypeOK, NothingClaimed, Deadline
  <2>. QED
    BY <1>0, <2>1, <2>2, <2>3, CalmKeeps
<1>27. ASSUME LeaseLapses
      PROVE  ResultsInv'
  <2>1. StoresNothing
    BY <1>27 DEF TypeOK, StoresNothing, Returned, LeaseLapses
  <2>2. PlansForward
    BY <1>27 DEF TypeOK, PlansForward, LeaseLapses
  <2>3. NothingClaimed
    BY <1>27 DEF TypeOK, NothingClaimed, LeaseLapses
  <2>. QED
    BY <1>0, <2>1, <2>2, <2>3, CalmKeeps
<1>28. ASSUME NEW m \in Members, SourceLapses(m)
      PROVE  ResultsInv'
  <2>1. StoresNothing
    BY <1>28 DEF TypeOK, StoresNothing, SourceLapses, Returned, SourceRow
  <2>2. PlansForward
    BY <1>28 DEF TypeOK, PlansForward, SourceLapses
  <2>3. NothingClaimed
    BY <1>28 DEF TypeOK, NothingClaimed, SourceLapses, SourceRow
  <2>. QED
    BY <1>0, <2>1, <2>2, <2>3, CalmKeeps
<1>29. ASSUME NEW m \in Members, OutsiderClaims(m)
      PROVE  ResultsInv'
  <2>1. StoresNothing
    <3>1. /\ source'[m].stored = source[m].stored
          /\ \A k \in Members : k # m => source'[k] = source[k]
      BY <1>29 DEF TypeOK, OutsiderClaims, SourceRow
    <3>2. \A k \in Members : Returned(k)' => Returned(k) /\ k # m
      BY <1>29, <3>1 DEF OutsiderClaims, Returned, Dispute
    <3>. QED
      BY <1>29, <3>1, <3>2 DEF OutsiderClaims, StoresNothing
  <2>2. PlansForward
    BY <1>29 DEF TypeOK, PlansForward, OutsiderClaims
  <2>3. NothingClaimed
    BY <1>29 DEF TypeOK, NothingClaimed, OutsiderClaims, SourceRow
  <2>. QED
    BY <1>0, <2>1, <2>2, <2>3, CalmKeeps
<1>30. ASSUME NEW m \in Members, OutsiderEnds(m)
      PROVE  ResultsInv'
  <2>1. /\ UNCHANGED <<lease, job, plan, attempts, outcome, disputed>>
        /\ source[m].holder = Outsider
        /\ \E result \in {"no", "outsider"} :
              source' = [source EXCEPT ![m] =
                  [holder |-> Nobody, live |-> FALSE,
                   stored |-> IF source[m].stored # "no" THEN source[m].stored ELSE result]]
    BY <1>30 DEF OutsiderEnds
  <2>2. /\ source'[m].holder = Nobody /\ ~ source'[m].live
        /\ source'[m].stored = "returned" => source[m].stored = "returned"
        /\ \A k \in Members : k # m => source'[k] = source[k]
    BY <2>1 DEF TypeOK
  <2>3. ~ Returned(m)
    BY <2>1, Apart DEF ResultsInv, ReturnedFinal
  <2>4. \A v \in Workers : Named(v)' <=> Named(v)
    BY <2>1, NamedSame
  <2>5. \A v \in Workers : \A k \in Members : Writing(v, k)' => Writing(v, k) /\ k # m
    BY <2>1, <2>2 DEF Writing
  <2>6. \A k \in Members : Returned(k)' => Returned(k) /\ k # m
    BY <2>1, <2>2, <2>3 DEF Returned
  <2>7. ReturnedFinal'
    BY <2>1, <2>2, <2>6 DEF ResultsInv, ReturnedFinal
  <2>8. RetainedOpen'
    BY <2>1, <2>4, <2>6 DEF ResultsInv, RetainedOpen
  <2>9. RetainedUnwritten'
    BY <2>1, <2>2, <2>4, <2>5 DEF ResultsInv, RetainedUnwritten
  <2>10. FailedUnwritten'
    BY <2>1, <2>2, <2>5 DEF ResultsInv, FailedUnwritten
  <2>11. FailedUnselected'
    BY <2>1, <2>4 DEF ResultsInv, FailedUnselected
  <2>12. ResultsKept'
    BY <2>1, <2>6 DEF ResultsInv, ResultsKept, Returned
  <2>. QED
    BY <2>7, <2>8, <2>9, <2>10, <2>11, <2>12 DEF ResultsInv
<1>31. ASSUME NEW w \in Workers, NEW m \in Members, QualifyFails(w, m)
      PROVE  ResultsInv'
  <2>1. /\ UNCHANGED <<lease, job, source, attempts, outcome>> /\ Dispute(m)
        /\ plan[w][m] = "returned"
        /\ MovePlan(w, m, IF Exhausted(w, m) THEN "doomed" ELSE "skipped")
    BY <1>31 DEF QualifyFails
  <2>2. /\ plan'[w][m] = IF Exhausted(w, m) THEN "doomed" ELSE "skipped"
        /\ \A v \in Workers : \A k \in Members : ~ (v = w /\ k = m) => plan'[v][k] = plan[v][k]
    BY <2>1, PlanMoved
  <2>3. plan'[w][m] = "doomed" => ~ LiveHeld(m)
    BY <2>2 DEF Exhausted
  <2>4. \A k \in Members : Returned(k)' => Returned(k) /\ k # m
    BY <2>1 DEF Returned, Dispute
  <2>5. \A v \in Workers : Named(v)' <=> Named(v)
    BY <2>1, NamedSame
  <2>6. \A v \in Workers : \A k \in Members : Writing(v, k)' => Writing(v, k)
    BY <2>1, <2>2 DEF Writing
  <2>7. ReturnedFinal'
    BY <2>1, <2>2, <2>4 DEF ResultsInv, ReturnedFinal, Working, Attempting
  <2>8. RetainedOpen'
    BY <2>1, <2>2, <2>4, <2>5 DEF ResultsInv, RetainedOpen, Retained
  <2>9. plan'[w][m] \in Retained => \A v \in Workers : ~ Writing(v, m)
    BY <2>2, <2>3, TriedOwned DEF Retained, Writing, LiveHeld
  <2>10. RetainedUnwritten'
    BY <2>1, <2>2, <2>5, <2>6, <2>9 DEF ResultsInv, RetainedUnwritten
  <2>11. FailedUnwritten'
    BY <2>1, <2>6 DEF ResultsInv, FailedUnwritten
  <2>12. FailedUnselected'
    BY <2>1, <2>2, <2>5 DEF ResultsInv, FailedUnselected, Selected, Attempting
  <2>13. ResultsKept'
    BY <2>1, <2>4 DEF ResultsInv, ResultsKept, Returned
  <2>. QED
    BY <2>7, <2>8, <2>10, <2>11, <2>12, <2>13 DEF ResultsInv
<1>32. CASE UNCHANGED vars
  <2>1. Quiet
    BY <1>32 DEF Quiet, vars, Named, Writing, Returned
  <2>. QED
    BY <2>1, QuietKeeps
<1>. QED
  BY <1>1, <1>2, <1>3, <1>4, <1>5, <1>6, <1>7, <1>8, <1>9, <1>10, <1>11, <1>12, <1>13,
         <1>14, <1>15, <1>16, <1>17, <1>18, <1>19, <1>20, <1>21, <1>22, <1>23, <1>24,
         <1>25, <1>26, <1>27, <1>28, <1>29, <1>30, <1>31,
         <1>32
     DEF Next, Stage, Member

-----------------------------------------------------------------------------
(* No attempt, no evidence and no result at the start. *)
LEMMA AttemptInit == Init => AttemptInv
  BY StageAssumption DEF Init, NoPlan, AttemptInv, NumbersReserved, NumbersDistinct,
     UnusedNumbers, AttemptBudget, Tried, Attempting, Fresher

(* ... *)
LEMMA FreezeInit == Init => FreezeInv
<1>. SUFFICES ASSUME Init PROVE FreezeInv
  OBVIOUS
<1>1. SettledStored /\ QualifiedStored
  BY DEF Init, NoPlan, SettledStored, QualifiedStored
<1>2. AttemptBehind /\ DoomedSpent /\ FailedSpent
  BY DEF Init, NoPlan, NoCounts, AttemptBehind, DoomedSpent, FailedSpent
<1>3. FrozenSeen /\ FrozenResolved /\ SucceededFrozen
  BY DEF Init, NoJob, FrozenSeen, FrozenResolved, SucceededFrozen
<1>. QED
  BY <1>1, <1>2, <1>3 DEF FreezeInv

(* ... *)
LEMMA ResultsInit == Init => ResultsInv
<1>. SUFFICES ASSUME Init PROVE ResultsInv
  OBVIOUS
<1>1. \A m \in Members : source[m].stored = "no" /\ outcome[m] = "pending"
  BY DEF Init
<1>2. \A w \in Workers : \A m \in Members : plan[w][m] = "out"
  BY DEF Init, NoPlan
<1>. QED
  BY <1>1, <1>2, PhaseSets DEF ResultsInv, ReturnedFinal, RetainedOpen, RetainedUnwritten,
     FailedUnwritten, FailedUnselected, ResultsKept, Returned

(* "A crash after admission consumes that attempt": whatever crashes or is
   replaced, the models of a source run at most once under each attempt its
   counter row admitted, and never without one. *)
THEOREM AttemptsAreBudgeted == Spec => []AttemptBudget
<1>1. Init => TypeOK /\ AttemptInv
  BY TypeInit, AttemptInit
<1>2. TypeOK /\ AttemptInv /\ [Next]_vars => (TypeOK /\ AttemptInv)'
  BY TypeStep, AttemptStep
<1>3. AttemptInv => AttemptBudget
  BY DEF AttemptInv
<1>. QED
  BY <1>1, <1>2, <1>3, PTL DEF Spec

(* The stage succeeds only over a frozen wave, and the wave is frozen only over
   members that have a durable completion or have used up their attempts. *)
THEOREM FreezesAreJustified == Spec => []FreezeJustified
<1>1. Init => TypeOK /\ OwnersInv /\ FreezeInv
  BY TypeInit, OwnersInit, FreezeInit
<1>2. TypeOK /\ OwnersInv /\ FreezeInv /\ [Next]_vars => (TypeOK /\ OwnersInv /\ FreezeInv)'
  BY TypeStep, OwnersStep, FreezeStep
<1>3. TypeOK /\ FreezeInv => FreezeJustified
  BY FreezeImplies
<1>. QED
  BY <1>1, <1>2, <1>3, PTL DEF Spec

(* With MAX_SOURCE_ATTEMPTS = 1 a member whose attempt stored its result in time
   and returned is never recorded as failed, although its worker may have
   crashed or been replaced before it could record the completion: unless
   somebody outside the stage leased the completed row, or qualifying the
   attempt raised. *)
THEOREM ReturnedResultsAreKept ==
    ASSUME MaxAttempts = 1 PROVE Spec => []ResultsKept
<1>. DEFINE Inv == TypeOK /\ OwnersInv /\ AttemptInv /\ FreezeInv /\ ResultsInv
<1>1. Init => Inv
  BY TypeInit, OwnersInit, AttemptInit, FreezeInit, ResultsInit
<1>2. Inv /\ [Next]_vars => Inv'
  BY TypeStep, OwnersStep, AttemptStep, FreezeStep, ResultsStep
<1>3. Inv => ResultsKept
  BY DEF ResultsInv
<1>. QED
  BY <1>1, <1>2, <1>3, PTL DEF Spec
=============================================================================
