-------------------------- MODULE UploadWavesChain --------------------------
(***************************************************************************)
(* The line of waves, for any number of sessions, items and photos: waves   *)
(* are created one behind the other and leave intake, Vision and            *)
(* publication in that order; a wave's release is the one of its intake     *)
(* epoch; a wave completes with the revision it froze or because an earlier *)
(* publication covers it; and all of it implements WaveChain.               *)
(*                                                                         *)
(* The argument.  The n-th wave created is wave n and its predecessor is    *)
(* n - 1, so the tail is the number of waves (ChainInv).  Only a session    *)
(* that is open keeps its wave collecting, and the last one that ends seals *)
(* it; a new epoch is larger than every epoch that has an outbox row.  Few  *)
(* actions touch the fields this is about: the lemma OnlyMoves names them,  *)
(* and each part of the invariant is shown for those alone.                 *)
(***************************************************************************)
EXTENDS UploadWavesBarrier, MCUploadWaves

-----------------------------------------------------------------------------
(* The invariant. *)

(* The n-th wave is wave n, and the one before it is its predecessor. *)
Numbered ==
    /\ \A w \in Waves : wave[w].state # "none" <=> w <= control.tail
    /\ \A w \in Waves : wave[w].state # "none" => wave[w].pred = w - 1
    /\ control.collecting \in {0, control.tail}

(* Only a collecting wave has open sessions; the collecting wave of a live
   library is one. *)
OpenCollects ==
    /\ \A s \in Sessions : session[s].state = "open" =>
          wave[session[s].wave].state = "collecting"
    /\ enrolled /\ control.collecting # 0 =>
          wave[control.collecting].state = "collecting"

(* A wave has a frozen revision from the moment it is frozen; only a wave
   completed without work has one that no scan froze. *)
FrozenBound ==
    \A w \in Waves :
        /\ wave[w].state \notin Frozen => wave[w].frozen = NoRevision
        /\ wave[w].state \in {"ready", "indexing"} => wave[w].frozen.path = "vision"
        /\ wave[w].state = "complete" => wave[w].frozen.path \in {"vision", "no_work"}

(* The predecessor revision a wave is bound to is its predecessor's. *)
PredBound ==
    \A w \in Waves : wave[w].pred # 0 =>
        wave[w].predFrozen \in {NoRevision, wave[wave[w].pred].frozen}

(* No outbox row is of a later epoch than its wave. *)
EpochsPast == \A w \in Waves : \A e \in visionOut[w] : e <= wave[w].epoch

(* A completion receipt exists exactly for a complete wave and names its
   revision. *)
Receipts ==
    \A w \in Waves :
        /\ wave[w].state = "complete" <=> completion[w] # NoRevision
        /\ completion[w] \in {NoRevision, wave[w].frozen}

(* A published-source! marker names a wave that had the photo settled. *)
Markers ==
    \A src \in Sources : published[src] # 0 =>
        /\ wave[published[src]].state \in {"indexing", "complete"}
        /\ wave[published[src]].frozen.path = "vision"
        /\ src \in SettledMembers(published[src])

(* What the no-work probe has passed, and what a wave completed by it holds,
   only repeats published photos. *)
RepeatsOnly(w, keys) ==
    \A src \in Sources : MemberKey(src) \in keys /\ evidence[w][MemberKey(src)].kind = "member" =>
        ~ evidence[w][MemberKey(src)].needs /\ Justified(src)

ProbeInv ==
    \A w \in Waves :
        /\ RepeatsOnly(w, 1..probe[w].after)
        /\ wave[w].frozen.path = "no_work" => RepeatsOnly(w, Keys)

ChainInv == Numbered /\ OpenCollects /\ FrozenBound /\ PredBound
CompletionInv == Receipts /\ Markers /\ ProbeInv

-----------------------------------------------------------------------------
(* Which steps move a wave. *)

(* The fields of a wave row the chain is about. *)
RowKept(w) ==
    /\ wave'[w].state = wave[w].state /\ wave'[w].pred = wave[w].pred
    /\ wave'[w].predFrozen = wave[w].predFrozen /\ wave'[w].epoch = wave[w].epoch
    /\ wave'[w].vision = wave[w].vision /\ wave'[w].frozen = wave[w].frozen

(* Every step leaves the chain alone but for these. *)
Quiet ==
    /\ \A w \in Waves : RowKept(w)
    /\ UNCHANGED <<visionOut, completion>>
    /\ control'.tail = control.tail
    /\ enrolled' = enrolled \/ control.tail = 0

Ends(s) ==
    /\ session[s].state = "open"
    /\ CloseAs(s, "closed") \/ CloseAs(s, "abandoned")

Moves ==
    \/ \E s \in Sessions : Opens(s) \/ Ends(s)
    \/ \E w \in Waves : PromoteSuccessor(w) \/ CompleteEmpty(w) \/ CommitAssignment(w) \/ CompleteIndexing(w)
    \/ EvaluateHold \/ EvaluateFreeze

(* A step that is no move leaves the chain alone. *)
LEMMA OnlyMoves ==
    ASSUME IInv, [Next]_vars, ~ Moves
    PROVE  Quiet
<1> TypeOK
  BY DEF IInv, TypeInv
<1>1. ASSUME UNCHANGED <<wave, visionOut, completion, control>>,
             enrolled' = enrolled \/ control.tail = 0
      PROVE  Quiet
  BY <1>1 DEF Quiet, RowKept
<1>2. UNCHANGED vars \/ Enroll => Quiet
  BY <1>1 DEF vars, Enroll
<1>3. ASSUME NEW s \in Sessions, Intake(s)
      PROVE  Quiet
  <2>1. ASSUME NEW page \in Pages, Register(s, page)
        PROVE  Quiet
    BY <1>1, <2>1 DEF Register
  <2>2. ASSUME NEW i \in Items, AdmitFinalize(s, i)
        PROVE  Quiet
    BY <1>1, <2>2 DEF AdmitFinalize
  <2>3. ASSUME NEW page \in Pages, NEW binding \in [page -> Bindings], ResolveMany(s, binding)
        PROVE  Quiet
    <3>1. PICK n : wave' = [wave EXCEPT ![session[s].wave].members = n]
      BY <2>3 DEF ResolveMany
    <3>2. \A w \in Waves : RowKept(w)
      BY <3>1 DEF RowKept, TypeOK, WaveRow
    <3> QED
      BY <2>3, <3>2 DEF ResolveMany, Quiet
  <2>4. ~ Opens(s) /\ ~ Close(s)
    BY DEF Moves, Ends, Close, Complete
  <2> QED
    BY <1>3, <2>1, <2>2, <2>3, <2>4 DEF Intake, Opens
<1>4. ASSUME NEW s \in Sessions, Cancellation(s)
      PROVE  Quiet
  <2>1. CASE SealExpired(s)
    <3>1. control'.tail = control.tail
      BY <2>1 DEF SealExpired, TypeOK
    <3> QED
      BY <2>1, <3>1 DEF SealExpired, Quiet, RowKept
  <2>2. ~ CloseAbandoned(s)
    BY DEF Moves, Ends, CloseAbandoned
  <2> QED
    BY <1>1, <1>4, <2>1, <2>2 DEF Cancellation, FenceDiscard, AbandonPage
<1>5. ASSUME NEW s \in Sessions, Time(s)
      PROVE  Quiet
  BY <1>1, <1>5 DEF Time, LeaseLapses, FinalizeLeaseLapses, DrainEnds
<1>6. ASSUME NEW w \in Waves, BarrierStep(w)
      PROVE  Quiet
  <2>1. ~ PromoteSuccessor(w)
    BY DEF Moves
  <2> QED
    BY <1>1, <1>6, <2>1 DEF BarrierStep, CommitObservations, Observe, Settle, EvaluateRead
<1>7. ASSUME NEW w \in Waves, Publication(w)
      PROVE  Quiet
  <2>1. ASSUME ProbeImpossible(w)
        PROVE  Quiet
    <3>1. wave' = [wave EXCEPT ![w].noWorkImpossible = TRUE]
      BY <2>1 DEF ProbeImpossible
    <3>2. \A v \in Waves : RowKept(v)
      BY <3>1 DEF RowKept, TypeOK, WaveRow
    <3> QED
      BY <2>1, <3>2 DEF ProbeImpossible, Quiet
  <2>2. ~ CompleteEmpty(w) /\ ~ CommitAssignment(w) /\ ~ CompleteIndexing(w)
    BY DEF Moves
  <2> QED
    BY <1>1, <1>7, <2>1, <2>2 DEF Publication, ProbeSavePage, RecordPublicationMembers
<1>8. ASSUME Evaluation \/ EvaluateCrash
      PROVE  Quiet
  <2>1. ~ EvaluateHold /\ ~ EvaluateFreeze
    BY DEF Moves
  <2> QED
    BY <1>1, <1>8, <2>1 DEF Evaluation, EvaluateSavePage, EvaluateCrash
<1> QED
  BY <1>2, <1>3, <1>4, <1>5, <1>6, <1>7, <1>8 DEF Next

-----------------------------------------------------------------------------
(* What each of them does to its wave. *)

OthersKept(w) == \A v \in Waves \ {w} : RowKept(v)

(* What a move leaves alone of its own wave. *)
LineKept(w) ==
    /\ wave'[w].pred = wave[w].pred
    /\ wave'[w].epoch = wave[w].epoch

(* A session opens in the tail wave or starts the next one behind it. *)
LEMMA OpensMove ==
    ASSUME IInv, Numbered, NEW s \in Sessions, Opens(s)
    PROVE  \E w \in Waves :
              /\ \/ /\ w = control.tail /\ control.collecting = w
                    /\ wave'[w].pred = wave[w].pred
                    /\ wave'[w].predFrozen = wave[w].predFrozen
                 \/ /\ w = control.tail + 1 /\ wave[w] = NoWave
                    /\ wave'[w].pred = control.tail
                    /\ wave'[w].predFrozen = IF control.tail = 0 THEN NoRevision
                                             ELSE wave[control.tail].frozen
              /\ wave[w].state \notin Frozen
              /\ wave'[w].state = "collecting" /\ wave'[w].epoch = wave[w].epoch + 1
              /\ wave'[w].frozen = wave[w].frozen
              /\ OthersKept(w)
              /\ control'.collecting = w /\ control'.tail = w
              /\ session'[s].wave = w
              /\ \A t \in Sessions \ {s} : session'[t] = session[t]
              /\ UNCHANGED <<enrolled, visionOut, completion, published>>
<1> TypeOK /\ UnusedWaves /\ CollectingNotFrozen
  BY DEF IInv, TypeInv, FreezeInv
<1>1. PICK declared \in Declarations : OpenSession(s, declared)
  BY DEF Opens
<1>2. PICK w \in Waves :
        /\ Joins(w)
        /\ wave[w].state # "ready"
        /\ wave' = [wave EXCEPT ![w] =
                       Reopened(IF wave[w].state = "none" THEN FreshWave ELSE wave[w])]
        /\ session' = [session EXCEPT ![s] =
                          [NoSession EXCEPT !.state = "open", !.wave = w,
                                            !.declared = declared,
                                            !.lease = IF enrolled THEN "live" ELSE "none"]]
        /\ control' = CollectingTail(w)
  BY <1>1 DEF OpenSession
<1> DEFINE base == IF wave[w].state = "none" THEN FreshWave ELSE wave[w]
<1>3. base \in WaveRow
  BY BlankRows DEF FreshWave, WaveRow, Waves, TypeOK
<1>4. wave' = [wave EXCEPT ![w] = Reopened(base)]
  BY <1>2
<1>5. /\ Reopened(base).state = "collecting" /\ Reopened(base).epoch = base.epoch + 1
      /\ Reopened(base).pred = base.pred /\ Reopened(base).predFrozen = base.predFrozen
      /\ Reopened(base).frozen = base.frozen
  BY <1>3 DEF Reopened, WaveRow
<1>6. control'.collecting = w /\ control'.tail = w
  BY <1>2 DEF CollectingTail, TypeOK
<1>7. session'[s].wave = w /\ \A t \in Sessions \ {s} : session'[t] = session[t]
  BY <1>2 DEF TypeOK, NoSession
<1>8. OthersKept(w) /\ wave'[w] = Reopened(base)
  BY <1>4 DEF OthersKept, RowKept, TypeOK
<1>9. UNCHANGED <<enrolled, visionOut, completion, published>>
  BY <1>1 DEF OpenSession
<1>10. CASE control.collecting # 0
  <2>1. w = control.collecting /\ w = control.tail /\ wave[w].state # "none"
    BY <1>2, <1>10 DEF Joins, Numbered, Waves
  <2>2. base = wave[w]
    BY <2>1
  <2>3. wave[w].state \notin Frozen
    BY <1>10, <2>1 DEF CollectingNotFrozen
  <2> HIDE DEF base
  <2> QED
    BY <1>5, <1>6, <1>7, <1>8, <1>9, <2>1, <2>2, <2>3
<1>11. CASE control.collecting = 0
  <2>1. wave[w].state = "none" /\ \A v \in 1..(w - 1) : wave[v].state # "none"
    BY <1>2, <1>11 DEF Joins
  <2>2. w = control.tail + 1
    <3>1. w \in Nat \ {0} /\ control.tail \in Nat /\ NSessions \in Nat
      BY NumbersAssumption DEF Waves, TypeOK
    <3>2. w > control.tail
      BY <2>1, <3>1 DEF Numbered
    <3>3. w # 1 => w - 1 \in Waves /\ w - 1 <= control.tail
      BY <2>1, <3>1 DEF Numbered, Waves
    <3> QED
      BY <3>1, <3>2, <3>3
  <2>3. wave[w] = NoWave
    BY <2>1 DEF UnusedWaves
  <2>4. base = FreshWave
    BY <2>1
  <2> HIDE DEF base
  <2>5. /\ base.pred = control.tail /\ base.epoch = wave[w].epoch /\ base.frozen = wave[w].frozen
        /\ base.predFrozen = IF control.tail = 0 THEN NoRevision ELSE wave[control.tail].frozen
    BY <2>3, <2>4 DEF FreshWave, NoWave
  <2> QED
    BY <1>5, <1>6, <1>7, <1>8, <1>9, <2>1, <2>2, <2>3, <2>5 DEF Frozen
<1> QED
  BY <1>10, <1>11

(* The session that ends last seals its wave, and only that one does. *)
LEMMA EndsMove ==
    ASSUME IInv, TypeInv', NEW s \in Sessions, Ends(s)
    PROVE  LET w == session[s].wave IN
              /\ w \in Waves /\ OthersKept(w) /\ LineKept(w)
              /\ wave'[w].predFrozen = wave[w].predFrozen /\ wave'[w].frozen = wave[w].frozen
              /\ session'[s].state \in {"closed", "abandoned"}
              /\ \A t \in Sessions \ {s} : session'[t] = session[t]
              /\ \/ /\ wave'[w].state = "collecting" /\ UNCHANGED <<visionOut, control>>
                 \/ /\ wave'[w].state = "waiting_predecessor" /\ wave[w].pred # 0
                    /\ UNCHANGED visionOut
                    /\ \A t \in Sessions : session'[t].wave = w => session'[t].state # "open"
                    /\ control'.tail = control.tail
                    /\ control'.collecting \in {0, control.collecting}
                    /\ enrolled => control'.collecting # w
                 \/ /\ wave'[w].state = "processing_pending" /\ wave[w].pred = 0
                    /\ wave'[w].vision = wave[w].epoch
                    /\ visionOut' = [visionOut EXCEPT ![w] = @ \cup {wave[w].epoch}]
                    /\ \A t \in Sessions : session'[t].wave = w => session'[t].state # "open"
                    /\ control'.tail = control.tail
                    /\ control'.collecting \in {0, control.collecting}
                    /\ enrolled => control'.collecting # w
              /\ UNCHANGED <<enrolled, completion, published>>
<1> TypeOK /\ TypeInv
  BY DEF IInv, TypeInv
<1> DEFINE w == session[s].wave
           left == wave[w].open - 1
           next == IF left # 0 THEN "collecting"
                   ELSE IF wave[w].pred # 0 THEN "waiting_predecessor"
                   ELSE "processing_pending"
<1>1. w \in Waves
  BY OpenSessionsWave DEF Ends
<1>2. PICK state \in {"closed", "abandoned"} : CloseAs(s, state)
  BY DEF Ends
<1>3. wave' = [wave EXCEPT ![w] =
                  [wave[w] EXCEPT !.open = left, !.state = next,
                                  !.vision = IF next = "processing_pending"
                                             THEN wave[w].epoch ELSE @]]
  BY <1>2 DEF CloseAs
<1>4. visionOut' = [visionOut EXCEPT ![w] =
                       IF next = "processing_pending" THEN @ \cup {wave[w].epoch} ELSE @]
  BY <1>2 DEF CloseAs
<1>5. control' = Detached(w, left) /\ UNCHANGED <<enrolled, completion, published>>
  BY <1>2 DEF CloseAs
<1>6. session'[s].state = state /\ \A t \in Sessions \ {s} : session'[t] = session[t]
  <2>1. session[s] \in SessionRow
    BY DEF TypeOK
  <2>2. [Stopped(session[s]) EXCEPT !.state = state].state = state
    BY <2>1 DEF Stopped, SessionRow
  <2> QED
    BY <1>2, <2>2 DEF CloseAs, TypeOK
<1>7. wave'[w].open = left
  BY <1>1, <1>3 DEF TypeOK, WaveRow
<1>8. left = 0 => \A t \in Sessions : session'[t].wave = w => session'[t].state # "open"
  <2> DEFINE still == {t \in Sessions : session'[t].wave = w /\ session'[t].state = "open"}
  <2>1. \A v \in Waves : wave'[v].open =
           Cardinality({t \in Sessions : session'[t].wave = v /\ session'[t].state = "open"})
    BY DEF TypeInv, OpenCounted, OpenSessions
  <2>2. left = Cardinality(still)
    BY <1>1, <1>7, <2>1
  <2>3. IsFiniteSet(still)
    <3>1. still \in SUBSET (1..NSessions)
      BY DEF Sessions
    <3> QED
      BY <3>1, CountIsNat, NumbersAssumption
  <2>4. left = 0 => still = {}
    BY <2>2, <2>3, FS_EmptySet
  <2> QED
    BY <2>4
<1>9. OthersKept(w)
  BY <1>3 DEF OthersKept, RowKept, TypeOK
<1>10. /\ LineKept(w) /\ wave'[w].predFrozen = wave[w].predFrozen /\ wave'[w].frozen = wave[w].frozen
       /\ wave'[w].state = next
       /\ next = "processing_pending" => wave'[w].vision = wave[w].epoch
  BY <1>1, <1>3 DEF LineKept, TypeOK, WaveRow
<1>11. CASE left # 0
  <2>1. next = "collecting" /\ UNCHANGED control
    BY <1>5, <1>11 DEF Detached
  <2>2. UNCHANGED visionOut
    BY <1>4, <2>1 DEF TypeOK
  <2> QED
    BY <1>1, <1>5, <1>6, <1>9, <1>10, <2>1, <2>2
<1>12. CASE left = 0
  <2>1. /\ control'.tail = control.tail /\ control'.collecting \in {0, control.collecting}
        /\ enrolled => control'.collecting # w
    <3>1. w # 0
      BY <1>1, NumbersAssumption DEF Waves
    <3> QED
      BY <1>5, <1>12, <3>1 DEF Detached, TypeOK
  <2>2. CASE wave[w].pred # 0
    <3>1. next = "waiting_predecessor"
      BY <1>12, <2>2
    <3>2. UNCHANGED visionOut
      BY <1>4, <3>1 DEF TypeOK
    <3> QED
      BY <1>1, <1>5, <1>6, <1>8, <1>9, <1>10, <1>12, <2>1, <2>2, <3>1, <3>2
  <2>3. CASE wave[w].pred = 0
    <3>1. next = "processing_pending"
      BY <1>12, <2>3
    <3>2. visionOut' = [visionOut EXCEPT ![w] = @ \cup {wave[w].epoch}]
      BY <1>4, <3>1
    <3> HIDE DEF next
    <3> QED
      BY <1>1, <1>5, <1>6, <1>8, <1>9, <1>10, <1>12, <2>1, <2>3, <3>1, <3>2
  <2> QED
    BY <2>2, <2>3
<1> QED
  BY <1>11, <1>12

(* A promoted wave enters Vision with the release of its own epoch. *)
LEMMA PromoteMove ==
    ASSUME IInv, NEW w \in Waves, PromoteSuccessor(w)
    PROVE  LET p == wave[w].pred IN
              /\ wave[w].state = "waiting_predecessor" /\ p \in Waves /\ wave[p].state \in Frozen
              /\ wave'[w].state = "processing_pending" /\ LineKept(w) /\ OthersKept(w)
              /\ wave'[w].predFrozen = wave[p].frozen /\ wave'[w].frozen = wave[w].frozen
              /\ wave'[w].vision = wave[w].epoch
              /\ visionOut' = [visionOut EXCEPT ![w] = @ \cup {wave[w].epoch}]
              /\ UNCHANGED <<enrolled, control, session, evidence, completion, published>>
<1> TypeOK /\ wave[w] \in WaveRow
  BY DEF IInv, TypeInv, TypeOK
<1>1. wave' = [wave EXCEPT ![w] =
                   [wave[w] EXCEPT !.state = "processing_pending",
                                   !.predFrozen = wave[wave[w].pred].frozen,
                                   !.vision = wave[w].epoch]]
  BY DEF PromoteSuccessor
<1>2. OthersKept(w)
  BY <1>1 DEF OthersKept, RowKept, TypeOK
<1>3. /\ wave'[w].state = "processing_pending" /\ LineKept(w)
      /\ wave'[w].predFrozen = wave[wave[w].pred].frozen /\ wave'[w].frozen = wave[w].frozen
      /\ wave'[w].vision = wave[w].epoch
  BY <1>1 DEF LineKept, TypeOK, WaveRow
<1> QED
  BY <1>2, <1>3 DEF PromoteSuccessor, WaveRow

(* A freeze and a completion without work drop the wave from intake. *)
Detaches(w) ==
    /\ control'.tail = control.tail
    /\ control'.collecting \in {0, control.collecting}
    /\ control'.collecting # w

(* An evaluation holds its wave in the barrier or freezes it. *)
LEMMA EvaluationMove ==
    ASSUME IInv, EvaluateHold \/ EvaluateFreeze
    PROVE  LET w == scan.wave IN
              /\ w \in Waves /\ wave[w].state \in Barrier /\ LineKept(w) /\ OthersKept(w)
              /\ wave'[w].predFrozen = wave[w].predFrozen /\ wave'[w].vision = wave[w].vision
              /\ \/ /\ wave'[w].state = "processing" /\ wave'[w].frozen = wave[w].frozen
                    /\ UNCHANGED control
                 \/ /\ wave'[w].state = "ready" /\ wave'[w].frozen.path = "vision"
                    /\ Detaches(w)
              /\ UNCHANGED <<enrolled, session, evidence, visionOut, completion, published>>
<1> DEFINE w == scan.wave
<1> TypeOK
  BY DEF IInv, TypeInv
<1>1. w \in Waves /\ wave[w].state \in Barrier /\ w # 0
  BY DEF TypeOK, Scan, EvaluateHold, EvaluateFreeze, IInv, ScanInv, ScanInBarrier
<1>2. CASE EvaluateHold
  <2>1. wave' = [wave EXCEPT ![w].state = "processing"]
    BY <1>2 DEF EvaluateHold
  <2>2. /\ wave'[w].state = "processing" /\ wave'[w].frozen = wave[w].frozen
        /\ wave'[w].predFrozen = wave[w].predFrozen /\ wave'[w].vision = wave[w].vision
        /\ LineKept(w)
    BY <1>1, <2>1 DEF LineKept, TypeOK, WaveRow
  <2>3. OthersKept(w)
    BY <2>1 DEF OthersKept, RowKept, TypeOK
  <2> QED
    BY <1>1, <1>2, <2>2, <2>3 DEF EvaluateHold
<1>3. CASE EvaluateFreeze
  <2>1. PICK revision : /\ revision.path = "vision"
                        /\ wave' = [wave EXCEPT ![w] = [wave[w] EXCEPT !.state = "ready", !.frozen = revision]]
    BY <1>3 DEF EvaluateFreeze
  <2>2. /\ wave'[w].state = "ready" /\ wave'[w].frozen.path = "vision"
        /\ wave'[w].predFrozen = wave[w].predFrozen /\ wave'[w].vision = wave[w].vision
        /\ LineKept(w)
    BY <1>1, <2>1 DEF LineKept, TypeOK, WaveRow
  <2>3. OthersKept(w)
    BY <2>1 DEF OthersKept, RowKept, TypeOK
  <2>4. Detaches(w)
    BY <1>1, <1>3 DEF EvaluateFreeze, Detaches, TypeOK
  <2> QED
    BY <1>1, <1>3, <2>2, <2>3, <2>4 DEF EvaluateFreeze
<1> QED
  BY <1>2, <1>3

(* A wave completed without work had a published predecessor. *)
LEMMA EmptyMove ==
    ASSUME IInv, NEW w \in Waves, CompleteEmpty(w)
    PROVE  /\ wave[w].state \in Barrier /\ PredecessorPublished(w)
           /\ wave'[w].state = "complete" /\ LineKept(w) /\ OthersKept(w)
           /\ wave'[w].predFrozen = wave[w].predFrozen
           /\ wave'[w].frozen.path = "no_work"
           /\ completion' = [completion EXCEPT ![w] = wave'[w].frozen]
           /\ Detaches(w)
           /\ UNCHANGED <<enrolled, session, evidence, visionOut, published>>
<1> TypeOK /\ wave[w] \in WaveRow
  BY DEF IInv, TypeInv, TypeOK
<1>1. PICK revision :
         /\ revision.path = "no_work"
         /\ wave' = [wave EXCEPT ![w] = [wave[w] EXCEPT !.state = "complete", !.frozen = revision]]
         /\ completion' = [completion EXCEPT ![w] = revision]
  BY DEF CompleteEmpty
<1>2. /\ wave'[w].state = "complete" /\ wave'[w].frozen = revision
      /\ wave'[w].predFrozen = wave[w].predFrozen /\ LineKept(w)
  BY <1>1 DEF LineKept, TypeOK, WaveRow
<1>3. OthersKept(w)
  BY <1>1 DEF OthersKept, RowKept, TypeOK
<1>4. Detaches(w)
  <2>1. w # 0
    BY NumbersAssumption DEF Waves
  <2> QED
    BY <2>1 DEF CompleteEmpty, Detaches, TypeOK
<1> QED
  BY <1>1, <1>2, <1>3, <1>4 DEF CompleteEmpty, Probing

(* Assignment and completion move a wave on behind a published one. *)
LEMMA AssignMove ==
    ASSUME IInv, NEW w \in Waves, CommitAssignment(w) \/ CompleteIndexing(w)
    PROVE  /\ \/ /\ wave[w].state = "ready" /\ wave'[w].state = "indexing"
                 /\ PredecessorPublished(w) /\ UNCHANGED completion
              \/ /\ wave[w].state = "indexing" /\ wave'[w].state = "complete"
                 /\ completion' = [completion EXCEPT ![w] = wave[w].frozen]
           /\ LineKept(w) /\ OthersKept(w)
           /\ wave'[w].predFrozen = wave[w].predFrozen /\ wave'[w].frozen = wave[w].frozen
           /\ UNCHANGED <<enrolled, control, session, evidence, visionOut, published>>
<1> TypeOK /\ wave[w] \in WaveRow
  BY DEF IInv, TypeInv, TypeOK
<1>1. PICK state : wave' = [wave EXCEPT ![w].state = state]
  BY DEF CommitAssignment, CompleteIndexing
<1>2. /\ wave'[w].state = state /\ wave'[w].frozen = wave[w].frozen
      /\ wave'[w].predFrozen = wave[w].predFrozen /\ LineKept(w)
  BY <1>1 DEF LineKept, TypeOK, WaveRow
<1>3. OthersKept(w)
  BY <1>1 DEF OthersKept, RowKept, TypeOK
<1>4. wave'[w].state = IF wave[w].state = "ready" THEN "indexing" ELSE "complete"
  BY DEF CommitAssignment, CompleteIndexing, TypeOK, WaveRow
<1> QED
  BY <1>2, <1>3, <1>4 DEF CommitAssignment, CompleteIndexing

-----------------------------------------------------------------------------
(* The chain invariant is inductive. *)

(* A predecessor is a wave; a wave not started has none. *)
LEMMA PredInWaves ==
    ASSUME IInv, NEW w \in Waves
    PROVE  /\ wave[w] \in WaveRow /\ wave[w].pred \in Waves \cup {0}
           /\ wave[w].state = "none" => wave[w].pred = 0 /\ wave[w].frozen = NoRevision
BY DEF IInv, TypeInv, TypeOK, WaveRow, UnusedWaves, NoWave

(* Moving one wave, in use before and after, keeps the line. *)
LEMMA OneRowLine ==
    ASSUME IInv, ChainInv, NEW w \in Waves, OthersKept(w), LineKept(w),
           wave[w].state # "none", wave'[w].state # "none",
           control'.tail = control.tail, control'.collecting \in {0, control.collecting},
           wave'[w].frozen = wave[w].frozen \/ wave[w].frozen = NoRevision,
           wave[w].pred # 0 => wave'[w].predFrozen \in {wave[w].predFrozen, wave[wave[w].pred].frozen}
    PROVE  Numbered' /\ PredBound'
<1>1. \A v \in Waves : /\ wave'[v].pred = wave[v].pred
                       /\ wave'[v].state = "none" <=> wave[v].state = "none"
  BY DEF OthersKept, RowKept, LineKept
<1>2. Numbered'
  BY <1>1 DEF ChainInv, Numbered
<1>3. ASSUME NEW v \in Waves, wave[v].pred # 0
      PROVE  wave'[v].predFrozen \in {NoRevision, wave'[wave[v].pred].frozen}
  <2> DEFINE p == wave[v].pred
  <2>1. p \in Waves /\ p # v
    <3>1. p \in Waves /\ wave[v].state # "none"
      BY <1>3, PredInWaves
    <3>2. p = v - 1
      BY <3>1 DEF ChainInv, Numbered
    <3> QED
      BY <3>1, <3>2 DEF Waves
  <2>2. wave[v].predFrozen \in {NoRevision, wave[p].frozen}
    BY <1>3 DEF ChainInv, PredBound
  <2>3. CASE v = w
    BY <1>3, <2>1, <2>2, <2>3 DEF OthersKept, RowKept
  <2>4. CASE v # w
    <3>1. wave'[v].predFrozen = wave[v].predFrozen
      BY <2>4 DEF OthersKept, RowKept
    <3>2. wave'[p].frozen = wave[p].frozen \/ wave[p].frozen = NoRevision
      BY <2>1 DEF OthersKept, RowKept
    <3> QED
      BY <2>2, <3>1, <3>2
  <2> QED
    BY <2>3, <2>4
<1> QED
  BY <1>1, <1>2, <1>3 DEF PredBound

(* An open session collects as long as it is not its own wave that stops, and
   so does the collecting wave. *)
LEMMA StillCollects ==
    ASSUME IInv, ChainInv, [Next]_vars, ~ \E s \in Sessions : Opens(s),
           enrolled' = enrolled, NEW w \in Waves, OthersKept(w), wave[w].state # "collecting"
    PROVE  OpenCollects'
<1>1. ASSUME NEW t \in Sessions, session'[t].state = "open"
      PROVE  wave'[session'[t].wave].state = "collecting"
  <2>1. session[t].state = "open" /\ session'[t].wave = session[t].wave
    BY <1>1, OthersOpenNothing
  <2>2. session[t].wave \in Waves /\ wave[session[t].wave].state = "collecting"
    BY <2>1, OpenSessionsWave DEF IInv, ChainInv, OpenCollects
  <2> QED
    BY <2>1, <2>2 DEF OthersKept, RowKept
<1>2. ASSUME enrolled', control'.collecting # 0
      PROVE  wave'[control'.collecting].state = "collecting"
  <2>1. control'.collecting = control.collecting
    BY <1>2, OthersOpenNothing
  <2>2. control.collecting \in Waves /\ wave[control.collecting].state = "collecting"
    BY <1>2, <2>1 DEF IInv, TypeInv, TypeOK, ChainInv, OpenCollects
  <2> QED
    BY <2>1, <2>2 DEF OthersKept, RowKept
<1> QED
  BY <1>1, <1>2 DEF OpenCollects

(* A step that moves no wave keeps the line. *)
LEMMA QuietChain ==
    ASSUME IInv, ChainInv, [Next]_vars, Quiet, ~ \E s \in Sessions : Opens(s)
    PROVE  ChainInv'
<1>1. control'.collecting \in {0, control.collecting}
  BY OthersOpenNothing
<1>2. Numbered' /\ FrozenBound'
  BY <1>1 DEF ChainInv, Numbered, FrozenBound, Quiet, RowKept
<1>3. PredBound'
  <2> SUFFICES ASSUME NEW w \in Waves, wave'[w].pred # 0
               PROVE  wave'[w].predFrozen \in {NoRevision, wave'[wave'[w].pred].frozen}
    BY DEF PredBound
  <2>1. wave[w].pred \in Waves
    BY PredInWaves DEF Quiet, RowKept
  <2> QED
    BY <2>1 DEF ChainInv, PredBound, Quiet, RowKept
<1>4. ASSUME NEW t \in Sessions, session'[t].state = "open"
      PROVE  wave'[session'[t].wave].state = "collecting"
  <2>1. session[t].state = "open" /\ session'[t].wave = session[t].wave
    BY <1>4, OthersOpenNothing
  <2>2. session[t].wave \in Waves /\ wave[session[t].wave].state = "collecting"
    BY <2>1, OpenSessionsWave DEF IInv, ChainInv, OpenCollects
  <2> QED
    BY <2>1, <2>2 DEF Quiet, RowKept
<1>5. ASSUME enrolled', control'.collecting # 0
      PROVE  wave'[control'.collecting].state = "collecting"
  <2>1. control'.collecting = control.collecting /\ control.collecting \in Waves
    BY <1>1, <1>5 DEF IInv, TypeInv, TypeOK
  <2>2. control.tail # 0
    BY <2>1, NumbersAssumption DEF ChainInv, Numbered, Waves
  <2>3. wave[control.collecting].state = "collecting"
    BY <1>5, <2>1, <2>2 DEF Quiet, ChainInv, OpenCollects
  <2> QED
    BY <2>1, <2>3 DEF Quiet, RowKept
<1> QED
  BY <1>2, <1>3, <1>4, <1>5 DEF ChainInv, OpenCollects

(* Opening a session keeps the line. *)
LEMMA OpensChain ==
    ASSUME IInv, ChainInv, NEW s \in Sessions, Opens(s)
    PROVE  ChainInv'
<1>0. Numbered
  BY DEF ChainInv
<1>1. PICK w \in Waves :
        /\ \/ /\ w = control.tail /\ control.collecting = w
              /\ wave'[w].pred = wave[w].pred
              /\ wave'[w].predFrozen = wave[w].predFrozen
           \/ /\ w = control.tail + 1 /\ wave[w] = NoWave
              /\ wave'[w].pred = control.tail
              /\ wave'[w].predFrozen = IF control.tail = 0 THEN NoRevision
                                       ELSE wave[control.tail].frozen
        /\ wave[w].state \notin Frozen
        /\ wave'[w].state = "collecting"
        /\ wave'[w].frozen = wave[w].frozen
        /\ OthersKept(w)
        /\ control'.collecting = w /\ control'.tail = w
        /\ session'[s].wave = w
        /\ \A t \in Sessions \ {s} : session'[t] = session[t]
  BY <1>0, OpensMove, Zenon
<1>2. control.tail \in Nat /\ w \in Nat \ {0} /\ NSessions \in Nat
  BY NumbersAssumption DEF IInv, TypeInv, TypeOK, Waves
<1>3. \A v \in Waves : wave'[v].frozen = wave[v].frozen
  BY <1>1 DEF OthersKept, RowKept
<1>4. Numbered'
  <2>1. CASE w = control.tail /\ wave'[w].pred = wave[w].pred
    <3>1. \A v \in Waves : wave'[v].pred = wave[v].pred
      BY <1>1, <2>1 DEF OthersKept, RowKept
    <3>2. \A v \in Waves : wave'[v].state # "none" <=> wave[v].state # "none"
      <4>1. wave[w].state # "none" /\ wave'[w].state # "none"
        BY <1>0, <1>1, <1>2, <2>1 DEF Numbered
      <4> QED
        BY <1>1, <4>1 DEF OthersKept, RowKept
    <3> QED
      BY <1>0, <1>1, <2>1, <3>1, <3>2 DEF Numbered
  <2>2. CASE w = control.tail + 1 /\ wave'[w].pred = control.tail
    <3>1. ASSUME NEW v \in Waves
          PROVE  /\ wave'[v].state # "none" <=> v <= w
                 /\ wave'[v].state # "none" => wave'[v].pred = v - 1
      <4>1. CASE v = w
        BY <1>1, <1>2, <2>2, <4>1
      <4>2. CASE v # w
        <5>1. wave'[v].state = wave[v].state /\ wave'[v].pred = wave[v].pred
          BY <1>1, <4>2 DEF OthersKept, RowKept
        <5>2. v <= w <=> v <= control.tail
          BY <1>2, <2>2, <4>2 DEF Waves
        <5> QED
          BY <1>0, <5>1, <5>2 DEF Numbered
      <4> QED
        BY <4>1, <4>2
    <3> QED
      BY <1>1, <3>1 DEF Numbered
  <2> QED
    BY <1>1, <2>1, <2>2
<1>5. OpenCollects'
  <2>1. ASSUME NEW t \in Sessions, session'[t].state = "open"
        PROVE  wave'[session'[t].wave].state = "collecting"
    <3>1. CASE t = s
      BY <1>1, <3>1
    <3>2. CASE t # s
      <4>1. session'[t] = session[t] /\ session[t].wave \in Waves
        BY <1>1, <2>1, <3>2, OpenSessionsWave DEF IInv
      <4>2. wave[session[t].wave].state = "collecting"
        BY <2>1, <4>1 DEF ChainInv, OpenCollects
      <4> QED
        BY <1>1, <4>1, <4>2 DEF OthersKept, RowKept
    <3> QED
      BY <3>1, <3>2
  <2> QED
    BY <1>1, <2>1 DEF OpenCollects
<1>6. FrozenBound'
  <2> SUFFICES ASSUME NEW v \in Waves
               PROVE  /\ wave'[v].state \notin Frozen => wave'[v].frozen = NoRevision
                      /\ wave'[v].state \in {"ready", "indexing"} => wave'[v].frozen.path = "vision"
                      /\ wave'[v].state = "complete" => wave'[v].frozen.path \in {"vision", "no_work"}
    BY DEF FrozenBound
  <2>1. CASE v = w
    <3>1. wave[w].frozen = NoRevision
      BY <1>1 DEF ChainInv, FrozenBound
    <3> QED
      BY <1>1, <2>1, <3>1
  <2>2. CASE v # w
    BY <1>1, <2>2 DEF OthersKept, RowKept, ChainInv, FrozenBound
  <2> QED
    BY <2>1, <2>2
<1>7. PredBound'
  <2> SUFFICES ASSUME NEW v \in Waves, wave'[v].pred # 0
               PROVE  wave'[v].predFrozen \in {NoRevision, wave'[wave'[v].pred].frozen}
    BY DEF PredBound
  <2>1. CASE wave'[v].pred = wave[v].pred /\ wave'[v].predFrozen = wave[v].predFrozen
    <3>1. wave[v].pred \in Waves
      BY <2>1, PredInWaves
    <3> QED
      BY <1>3, <2>1, <3>1 DEF ChainInv, PredBound
  <2>2. CASE wave'[v].pred = control.tail /\ wave'[v].predFrozen = IF control.tail = 0 THEN NoRevision
                                                               ELSE wave[control.tail].frozen
    <3>1. control.tail \in Waves
      BY <2>2 DEF IInv, TypeInv, TypeOK
    <3> QED
      BY <1>3, <2>2, <3>1
  <2> QED
    BY <1>1, <2>1, <2>2 DEF OthersKept, RowKept
<1> QED
  BY <1>4, <1>5, <1>6, <1>7 DEF ChainInv

(* The waves that move have been started. *)
LEMMA MovesChain ==
    ASSUME IInv, TypeInv', ChainInv, [Next]_vars, Moves, ~ \E s \in Sessions : Opens(s)
    PROVE  ChainInv'
<1> USE DEF ChainInv
<1>1. \A w \in Waves : \A v \in Waves \ {w} : OthersKept(w) =>
          /\ wave'[v].state = wave[v].state
          /\ wave'[v].frozen = wave[v].frozen
  BY DEF OthersKept, RowKept
<1> DEFINE Bound(w) ==
             /\ wave'[w].state \notin Frozen => wave'[w].frozen = NoRevision
             /\ wave'[w].state \in {"ready", "indexing"} => wave'[w].frozen.path = "vision"
             /\ wave'[w].state = "complete" => wave'[w].frozen.path \in {"vision", "no_work"}
<1>2. ASSUME NEW w \in Waves, OthersKept(w), Bound(w)
      PROVE  FrozenBound'
  BY <1>1, <1>2 DEF FrozenBound
<1> HIDE DEF Bound
<1>3. ASSUME NEW s \in Sessions, Ends(s)
      PROVE  ChainInv'
  <2> DEFINE w == session[s].wave
  <2>1. /\ w \in Waves /\ OthersKept(w) /\ LineKept(w)
        /\ wave'[w].predFrozen = wave[w].predFrozen /\ wave'[w].frozen = wave[w].frozen
        /\ wave'[w].state \in {"collecting", "waiting_predecessor", "processing_pending"}
        /\ control'.tail = control.tail /\ control'.collecting \in {0, control.collecting}
        /\ session'[s].state # "open" /\ \A t \in Sessions \ {s} : session'[t] = session[t]
        /\ wave'[w].state # "collecting" =>
              /\ \A t \in Sessions : session'[t].wave = w => session'[t].state # "open"
              /\ enrolled => control'.collecting # w
        /\ enrolled' = enrolled
    BY <1>3, EndsMove
  <2>2. wave[w].state = "collecting"
    BY <1>3 DEF Ends, OpenCollects
  <2> HIDE DEF w
  <2>3. Numbered' /\ PredBound'
    BY <2>1, <2>2, OneRowLine
  <2>4. FrozenBound'
    BY <1>2, <2>1, <2>2 DEF FrozenBound, Frozen, Bound
  <2>5. OpenCollects'
    <3>1. ASSUME NEW t \in Sessions, session'[t].state = "open"
          PROVE  wave'[session'[t].wave].state = "collecting"
      <4>1. session'[t] = session[t] /\ session[t].wave \in Waves
        BY <2>1, <3>1, OpenSessionsWave DEF IInv
      <4>2. wave[session[t].wave].state = "collecting"
        BY <3>1, <4>1 DEF OpenCollects
      <4> QED
        BY <1>1, <2>1, <3>1, <4>1, <4>2
    <3>2. ASSUME enrolled', control'.collecting # 0
          PROVE  wave'[control'.collecting].state = "collecting"
      <4>1. control'.collecting = control.collecting /\ control.collecting \in Waves
        BY <2>1, <3>2 DEF IInv, TypeInv, TypeOK
      <4>2. wave[control.collecting].state = "collecting"
        BY <2>1, <3>2, <4>1 DEF OpenCollects
      <4> QED
        BY <1>1, <2>1, <3>2, <4>1, <4>2
    <3> QED
      BY <3>1, <3>2 DEF OpenCollects
  <2> QED
    BY <2>3, <2>4, <2>5
<1>4. ASSUME NEW w \in Waves, OthersKept(w), LineKept(w), wave[w].state \notin {"none", "collecting"},
             wave'[w].state # "none", Bound(w), enrolled' = enrolled,
             control'.tail = control.tail, control'.collecting \in {0, control.collecting},
             wave'[w].frozen = wave[w].frozen \/ wave[w].frozen = NoRevision,
             wave[w].pred # 0 => wave'[w].predFrozen \in {wave[w].predFrozen, wave[wave[w].pred].frozen}
      PROVE  ChainInv'
  <2>1. Numbered' /\ PredBound'
    BY <1>4, OneRowLine
  <2>2. OpenCollects'
    BY <1>4, StillCollects
  <2>3. FrozenBound'
    BY <1>2, <1>4
  <2> QED
    BY <2>1, <2>2, <2>3
<1>5. ASSUME NEW w \in Waves, PromoteSuccessor(w)
      PROVE  ChainInv'
  <2>1. /\ OthersKept(w) /\ LineKept(w) /\ wave[w].state = "waiting_predecessor"
        /\ wave'[w].state = "processing_pending" /\ wave'[w].frozen = wave[w].frozen
        /\ wave'[w].predFrozen = wave[wave[w].pred].frozen
        /\ UNCHANGED <<enrolled, control>>
    BY <1>5, PromoteMove
  <2>2. Bound(w)
    BY <2>1 DEF Bound, FrozenBound, Frozen
  <2> QED
    BY <1>4, <2>1, <2>2
<1>6. ASSUME EvaluateHold \/ EvaluateFreeze
      PROVE  ChainInv'
  <2> DEFINE w == scan.wave
  <2>1. /\ w \in Waves /\ wave[w].state \in Barrier /\ LineKept(w) /\ OthersKept(w)
        /\ wave'[w].predFrozen = wave[w].predFrozen
        /\ \/ /\ wave'[w].state = "processing" /\ wave'[w].frozen = wave[w].frozen
           \/ /\ wave'[w].state = "ready" /\ wave'[w].frozen.path = "vision"
        /\ control'.tail = control.tail /\ control'.collecting \in {0, control.collecting}
        /\ UNCHANGED enrolled
    BY <1>6, EvaluationMove DEF Detaches
  <2> HIDE DEF w
  <2>2. wave[w].frozen = NoRevision
    BY <2>1 DEF FrozenBound, Frozen, Barrier
  <2>3. Bound(w)
    BY <2>1, <2>2 DEF Bound, Frozen
  <2> QED
    BY <1>4, <2>1, <2>2, <2>3 DEF Barrier
<1>7. ASSUME NEW w \in Waves, CompleteEmpty(w)
      PROVE  ChainInv'
  <2>1. /\ wave[w].state \in Barrier /\ LineKept(w) /\ OthersKept(w)
        /\ wave'[w].state = "complete" /\ wave'[w].frozen.path = "no_work"
        /\ wave'[w].predFrozen = wave[w].predFrozen
        /\ control'.tail = control.tail /\ control'.collecting \in {0, control.collecting}
        /\ UNCHANGED enrolled
    BY <1>7, EmptyMove DEF Detaches
  <2>2. wave[w].frozen = NoRevision
    BY <2>1 DEF FrozenBound, Frozen, Barrier
  <2>3. Bound(w)
    BY <2>1, <2>2 DEF Bound, Frozen
  <2> QED
    BY <1>4, <2>1, <2>2, <2>3 DEF Barrier
<1>8. ASSUME NEW w \in Waves, CommitAssignment(w) \/ CompleteIndexing(w)
      PROVE  ChainInv'
  <2>1. /\ wave[w].state \in {"ready", "indexing"} /\ wave'[w].state \in {"indexing", "complete"}
        /\ LineKept(w) /\ OthersKept(w)
        /\ wave'[w].predFrozen = wave[w].predFrozen /\ wave'[w].frozen = wave[w].frozen
        /\ UNCHANGED <<enrolled, control>>
    BY <1>8, AssignMove
  <2>2. Bound(w)
    BY <2>1 DEF Bound, FrozenBound, Frozen
  <2> QED
    BY <1>4, <2>1, <2>2
<1> QED
  BY <1>3, <1>5, <1>6, <1>7, <1>8 DEF Moves

(* The chain invariant is inductive, relative to the types and the scans. *)
LEMMA NextChain == IInv /\ ChainInv /\ [Next]_vars => ChainInv'
<1> SUFFICES ASSUME IInv, ChainInv, [Next]_vars PROVE ChainInv'
  OBVIOUS
<1>1. TypeInv'
  BY NextTypes DEF IInv
<1>2. CASE \E s \in Sessions : Opens(s)
  BY <1>2, OpensChain
<1>3. CASE ~ \E s \in Sessions : Opens(s)
  BY <1>1, <1>3, OnlyMoves, QuietChain, MovesChain
<1> QED
  BY <1>2, <1>3

(* The empty library is a line. *)
LEMMA InitChain == Init => ChainInv
<1> SUFFICES ASSUME Init PROVE ChainInv
  OBVIOUS
<1>1. Numbered
  BY NumbersAssumption DEF Init, Numbered, NoWave, Waves
<1> QED
  BY <1>1 DEF Init, ChainInv, OpenCollects, FrozenBound, PredBound, NoWave, NoSession, Frozen

(* Waves are numbered as they are created, only a collecting wave has open
   sessions, and a wave has a frozen revision exactly once it is frozen. *)
THEOREM ChainInvariant == Spec => [](IInv /\ ChainInv)
<1>1. Init => IInv /\ ChainInv
  BY InitIInv, InitChain
<1>2. IInv /\ ChainInv /\ [Next]_vars => (IInv /\ ChainInv)'
  BY NextIInv, NextChain
<1> QED
  BY <1>1, <1>2, PTL DEF Spec

(* Waves form one line: no predecessor is shared, the tail has no successor,
   only the tail collects, and a wave is bound to its predecessor's revision. *)
THEOREM WavesFormOneLine == Spec => []LinearChain
<1>1. ASSUME IInv, ChainInv PROVE LinearChain
  <2>1. control.tail \in Nat /\ \A w \in Waves : w \in Nat \ {0}
    <3>1. control.tail \in Waves \cup {0}
      BY <1>1 DEF IInv, TypeInv, TypeOK
    <3> QED
      BY <3>1, NumbersAssumption DEF Waves
  <2>2. ASSUME NEW v \in Waves, NEW w \in Waves, v # w,
               wave[v].state # "none", wave[w].state # "none"
        PROVE  wave[v].pred # wave[w].pred
    BY <1>1, <2>1, <2>2 DEF ChainInv, Numbered
  <2>3. ASSUME control.tail # 0, NEW w \in Waves
        PROVE  wave[w].pred # control.tail
    <3>1. CASE wave[w].state = "none"
      BY <1>1, <2>3, <3>1, PredInWaves
    <3>2. CASE wave[w].state # "none"
      BY <1>1, <2>1, <3>2 DEF ChainInv, Numbered
    <3> QED
      BY <3>1, <3>2
  <2> QED
    BY <1>1, <2>2, <2>3 DEF ChainInv, Numbered, PredBound, LinearChain
<1> QED
  BY <1>1, ChainInvariant, PTL

-----------------------------------------------------------------------------
(* Vision releases. *)

VisionInv == EpochsPast /\ VisionReleaseCurrent

(* A wave whose epoch and outbox are left alone and that does not enter the
   barrier or intake keeps its release. *)
LEMMA NextVision == IInv /\ ChainInv /\ VisionInv /\ [Next]_vars => VisionInv'
<1> SUFFICES ASSUME IInv, ChainInv, VisionInv, [Next]_vars PROVE VisionInv'
  OBVIOUS
<1>1. TypeInv'
  BY NextTypes DEF IInv
<1> DEFINE Released(w) ==
             /\ \A e \in visionOut'[w] : e <= wave'[w].epoch
             /\ wave'[w].state \in Barrier =>
                   wave'[w].vision = wave'[w].epoch /\ wave'[w].epoch \in visionOut'[w]
             /\ wave'[w].state \in {"collecting", "waiting_predecessor"} =>
                   wave'[w].epoch \notin visionOut'[w]
<1> SUFFICES \A w \in Waves : Released(w)
  BY DEF VisionInv, EpochsPast, VisionReleaseCurrent
<1>2. ASSUME NEW w \in Waves, RowKept(w), visionOut'[w] = visionOut[w]
      PROVE  Released(w)
  BY <1>2 DEF RowKept, VisionInv, EpochsPast, VisionReleaseCurrent
<1>3. \A w \in Waves : /\ wave[w].epoch \in Nat /\ visionOut[w] \subseteq Nat
                       /\ \A e \in visionOut[w] : e <= wave[w].epoch
  BY DEF IInv, TypeInv, TypeOK, WaveRow, VisionInv, EpochsPast
<1>4. ASSUME NEW w \in Waves, OthersKept(w), Released(w),
             \A v \in Waves \ {w} : visionOut'[v] = visionOut[v]
      PROVE  \A v \in Waves : Released(v)
  BY <1>2, <1>4 DEF OthersKept
<1>5. ASSUME NEW w \in Waves, OthersKept(w), LineKept(w), wave'[w].vision = wave[w].epoch,
             wave'[w].state = "processing_pending",
             visionOut' = [visionOut EXCEPT ![w] = @ \cup {wave[w].epoch}]
      PROVE  \A v \in Waves : Released(v)
  <2>1. visionOut'[w] = visionOut[w] \cup {wave[w].epoch} /\ wave'[w].epoch = wave[w].epoch
    BY <1>5 DEF IInv, TypeInv, TypeOK, LineKept
  <2>2. Released(w)
    BY <1>3, <1>5, <2>1
  <2> HIDE DEF Released
  <2> QED
    BY <1>4, <1>5, <2>2 DEF IInv, TypeInv, TypeOK
<1> HIDE DEF Released
<1>6. ASSUME Quiet
      PROVE  \A w \in Waves : Released(w)
  BY <1>2, <1>6 DEF Quiet
<1>7. ASSUME NEW s \in Sessions, Opens(s)
      PROVE  \A w \in Waves : Released(w)
  <2>1. Numbered
    BY DEF ChainInv
  <2>2. PICK w \in Waves : /\ wave'[w].state = "collecting" /\ wave'[w].epoch = wave[w].epoch + 1
                           /\ OthersKept(w) /\ UNCHANGED visionOut
    BY <1>7, <2>1, OpensMove
  <2>3. Released(w)
    BY <1>3, <2>2 DEF Released, Barrier
  <2> QED
    BY <1>4, <2>2, <2>3
<1>8. ASSUME NEW s \in Sessions, Ends(s)
      PROVE  \A w \in Waves : Released(w)
  <2> DEFINE w == session[s].wave
  <2>1. /\ w \in Waves /\ OthersKept(w) /\ LineKept(w)
        /\ \/ wave'[w].state \in {"collecting", "waiting_predecessor"} /\ UNCHANGED visionOut
           \/ /\ wave'[w].state = "processing_pending" /\ wave'[w].vision = wave[w].epoch
              /\ visionOut' = [visionOut EXCEPT ![w] = @ \cup {wave[w].epoch}]
    BY <1>1, <1>8, EndsMove
  <2>2. wave[w].state = "collecting"
    BY <1>8 DEF Ends, ChainInv, OpenCollects
  <2> HIDE DEF w
  <2>3. CASE wave'[w].state \in {"collecting", "waiting_predecessor"} /\ UNCHANGED visionOut
    <3>1. Released(w)
      BY <1>3, <2>1, <2>2, <2>3 DEF Released, Barrier, LineKept, VisionInv, VisionReleaseCurrent
    <3> QED
      BY <1>4, <2>1, <2>3, <3>1
  <2> QED
    BY <1>5, <2>1, <2>3
<1>9. ASSUME NEW w \in Waves, PromoteSuccessor(w)
      PROVE  \A v \in Waves : Released(v)
  BY <1>5, <1>9, PromoteMove
<1>10. ASSUME NEW w \in Waves, OthersKept(w), LineKept(w), UNCHANGED visionOut,
              \/ wave'[w].state \in Frozen
              \/ /\ wave[w].state \in Barrier /\ wave'[w].state = "processing"
                 /\ wave'[w].vision = wave[w].vision
       PROVE  \A v \in Waves : Released(v)
  <2>1. Released(w)
    BY <1>3, <1>10 DEF Released, Barrier, Frozen, LineKept, VisionInv, VisionReleaseCurrent
  <2> QED
    BY <1>4, <1>10, <2>1
<1>11. ASSUME EvaluateHold \/ EvaluateFreeze
       PROVE  \A v \in Waves : Released(v)
  BY <1>10, <1>11, EvaluationMove DEF Frozen
<1>12. ASSUME NEW w \in Waves, CompleteEmpty(w)
       PROVE  \A v \in Waves : Released(v)
  BY <1>10, <1>12, EmptyMove DEF Frozen
<1>13. ASSUME NEW w \in Waves, CommitAssignment(w) \/ CompleteIndexing(w)
       PROVE  \A v \in Waves : Released(v)
  BY <1>10, <1>13, AssignMove DEF Frozen
<1> QED
  BY <1>6, <1>7, <1>8, <1>9, <1>11, <1>12, <1>13, OnlyMoves DEF Moves

(* A wave behind the barrier has exactly its current epoch's release pending, and
   the outbox row of a release still to come does not exist yet. *)
THEOREM ReleasesAreCurrent == Spec => []VisionReleaseCurrent
<1>1. Init => VisionInv
  BY DEF Init, VisionInv, EpochsPast, VisionReleaseCurrent, NoWave, Barrier
<1>2. IInv /\ ChainInv /\ VisionInv /\ [Next]_vars => VisionInv'
  BY NextVision
<1>3. VisionInv => VisionReleaseCurrent
  BY DEF VisionInv
<1> QED
  BY <1>1, <1>2, <1>3, ChainInvariant, PTL DEF Spec

-----------------------------------------------------------------------------
(* Completion. *)

(* What was published stays published. *)
LEMMA NeverUnpublished ==
    ASSUME IInv, ChainInv, [Next]_vars, NEW w \in Waves
    PROVE  /\ wave[w].state = "complete" => wave'[w].state = "complete"
           /\ wave[w].state = "indexing" => wave'[w].state \in {"indexing", "complete"}
<1> DEFINE Stays == /\ wave[w].state = "complete" => wave'[w].state = "complete"
                    /\ wave[w].state = "indexing" => wave'[w].state \in {"indexing", "complete"}
<1> SUFFICES Stays
  OBVIOUS
<1>1. TypeInv' /\ Numbered
  BY NextTypes DEF IInv, ChainInv
<1>2. ASSUME NEW v \in Waves, OthersKept(v), wave[v].state \notin {"indexing", "complete"}
      PROVE  Stays
  BY <1>2 DEF OthersKept, RowKept
<1>3. ASSUME NEW s \in Sessions, Opens(s)
      PROVE  Stays
  <2>1. PICK v \in Waves : wave[v].state \notin Frozen /\ OthersKept(v)
    BY <1>1, <1>3, OpensMove
  <2> QED
    BY <1>2, <2>1 DEF Frozen
<1>4. ASSUME NEW s \in Sessions, Ends(s)
      PROVE  Stays
  <2>1. session[s].wave \in Waves /\ OthersKept(session[s].wave)
    BY <1>1, <1>4, EndsMove
  <2>2. wave[session[s].wave].state = "collecting"
    BY <1>4 DEF Ends, ChainInv, OpenCollects
  <2> QED
    BY <1>2, <2>1, <2>2
<1>5. ASSUME NEW v \in Waves, PromoteSuccessor(v)
      PROVE  Stays
  BY <1>2, <1>5, PromoteMove
<1>6. ASSUME EvaluateHold \/ EvaluateFreeze
      PROVE  Stays
  BY <1>2, <1>6, EvaluationMove DEF Barrier
<1>7. ASSUME NEW v \in Waves, CompleteEmpty(v)
      PROVE  Stays
  BY <1>2, <1>7, EmptyMove DEF Barrier
<1>8. ASSUME NEW v \in Waves, CommitAssignment(v) \/ CompleteIndexing(v)
      PROVE  Stays
  BY <1>8, AssignMove DEF OthersKept, RowKept
<1>9. Quiet => Stays
  BY DEF Quiet, RowKept
<1> QED
  BY <1>3, <1>4, <1>5, <1>6, <1>7, <1>8, <1>9, OnlyMoves DEF Moves

(* A justification stays one. *)
LEMMA StaysJustified ==
    ASSUME IInv, ChainInv, [Next]_vars, NEW src \in Sources, Justified(src)
    PROVE  Justified(src)'
<1>1. PICK v \in Waves : /\ wave[v].state = "complete" /\ wave[v].frozen.path = "vision"
                         /\ src \in SettledMembers(v)
  BY DEF Justified
<1>2. FrozenKept(v)
  BY <1>1, NextKeepsFrozen DEF Frozen
<1>3. wave'[v].state = "complete"
  BY <1>1, NeverUnpublished
<1> QED
  BY <1>1, <1>2, <1>3 DEF Justified, FrozenKept, SettledMembers

(* What the probe reads off a marker is true of the wave it names. *)
LEMMA MarkersJustify ==
    ASSUME TypeOK, Markers, NEW src \in Sources, PublishedByComplete(src)
    PROVE  Justified(src)
<1>1. published[src] \in Waves
  BY DEF TypeOK, PublishedByComplete
<1> QED
  BY <1>1 DEF Markers, PublishedByComplete, Justified

(* A wave gets its receipt in the transaction that completes it. *)
LEMMA NextReceipts ==
    ASSUME IInv, ChainInv, Receipts, [Next]_vars
    PROVE  Receipts'
<1>1. TypeInv' /\ Numbered
  BY NextTypes DEF IInv, ChainInv
<1> DEFINE Receipt(w) ==
             /\ wave'[w].state = "complete" <=> completion'[w] # NoRevision
             /\ completion'[w] \in {NoRevision, wave'[w].frozen}
<1> SUFFICES \A w \in Waves : Receipt(w)
  BY DEF Receipts
<1>2. ASSUME NEW w \in Waves, RowKept(w), completion'[w] = completion[w]
      PROVE  Receipt(w)
  BY <1>2 DEF RowKept, Receipts
<1>3. ASSUME NEW w \in Waves, OthersKept(w), UNCHANGED completion,
             wave[w].state # "complete", wave'[w].state # "complete"
      PROVE  \A v \in Waves : Receipt(v)
  <2>1. completion[w] = NoRevision
    BY <1>3 DEF Receipts
  <2>2. Receipt(w)
    BY <1>3, <2>1
  <2> HIDE DEF Receipt
  <2> QED
    BY <1>2, <1>3, <2>2 DEF OthersKept
<1>4. ASSUME NEW w \in Waves, OthersKept(w), wave'[w].state = "complete",
             wave'[w].frozen.path # "none",
             completion' = [completion EXCEPT ![w] = wave'[w].frozen]
      PROVE  \A v \in Waves : Receipt(v)
  <2>1. completion'[w] = wave'[w].frozen /\ \A v \in Waves \ {w} : completion'[v] = completion[v]
    BY <1>4 DEF IInv, TypeInv, TypeOK
  <2>2. Receipt(w)
    BY <1>4, <2>1 DEF NoRevision
  <2> HIDE DEF Receipt
  <2> QED
    BY <1>2, <1>4, <2>1, <2>2 DEF OthersKept
<1> HIDE DEF Receipt
<1>5. ASSUME NEW s \in Sessions, Opens(s)
      PROVE  \A v \in Waves : Receipt(v)
  <2>1. PICK w \in Waves : /\ wave[w].state \notin Frozen /\ wave'[w].state = "collecting"
                           /\ OthersKept(w) /\ UNCHANGED completion
    BY <1>1, <1>5, OpensMove
  <2> QED
    BY <1>3, <2>1 DEF Frozen
<1>6. ASSUME NEW s \in Sessions, Ends(s)
      PROVE  \A v \in Waves : Receipt(v)
  <2>1. /\ session[s].wave \in Waves /\ OthersKept(session[s].wave) /\ UNCHANGED completion
        /\ wave'[session[s].wave].state # "complete"
    BY <1>1, <1>6, EndsMove
  <2>2. wave[session[s].wave].state = "collecting"
    BY <1>6 DEF Ends, ChainInv, OpenCollects
  <2> QED
    BY <1>3, <2>1, <2>2
<1>7. ASSUME NEW w \in Waves, PromoteSuccessor(w)
      PROVE  \A v \in Waves : Receipt(v)
  BY <1>3, <1>7, PromoteMove
<1>8. ASSUME EvaluateHold \/ EvaluateFreeze
      PROVE  \A v \in Waves : Receipt(v)
  <2>1. /\ scan.wave \in Waves /\ OthersKept(scan.wave) /\ UNCHANGED completion
        /\ wave[scan.wave].state \in Barrier
        /\ wave'[scan.wave].state # "complete"
    BY <1>8, EvaluationMove
  <2> QED
    BY <1>3, <2>1 DEF Barrier
<1>9. ASSUME NEW w \in Waves, CompleteEmpty(w)
      PROVE  \A v \in Waves : Receipt(v)
  BY <1>4, <1>9, EmptyMove
<1>10. ASSUME NEW w \in Waves, CommitAssignment(w) \/ CompleteIndexing(w)
       PROVE  \A v \in Waves : Receipt(v)
  <2>1. wave[w].state \in {"ready", "indexing"} => wave[w].frozen.path = "vision"
    BY DEF ChainInv, FrozenBound
  <2> QED
    BY <1>3, <1>4, <1>10, <2>1, AssignMove
<1>11. Quiet => \A v \in Waves : Receipt(v)
  BY <1>2 DEF Quiet
<1> QED
  BY <1>5, <1>6, <1>7, <1>8, <1>9, <1>10, <1>11, OnlyMoves DEF Moves

(* Only record_publication_members writes markers. *)
LEMMA PublishedKept ==
    ASSUME [Next]_vars, ~ \E w \in Waves : RecordPublicationMembers(w)
    PROVE  UNCHANGED published
<1>1. ASSUME NEW s \in Sessions, Intake(s) \/ Cancellation(s) \/ Time(s)
      PROVE  UNCHANGED published
  BY <1>1 DEF Intake, OpenSession, Register, AdmitFinalize, ResolveMany, Close, CloseAs,
     Cancellation, SealExpired, FenceDiscard, AbandonPage, CloseAbandoned,
     Time, LeaseLapses, FinalizeLeaseLapses, DrainEnds
<1>2. ASSUME NEW w \in Waves, BarrierStep(w) \/ Publication(w)
      PROVE  UNCHANGED published
  BY <1>2 DEF BarrierStep, PromoteSuccessor, CommitObservations, Observe, Settle,
     EvaluateRead, Publication, ProbeImpossible, ProbeSavePage, CompleteEmpty,
     CommitAssignment, CompleteIndexing
<1>3. ASSUME Evaluation \/ EvaluateCrash \/ Enroll \/ UNCHANGED vars
      PROVE  UNCHANGED published
  BY <1>3 DEF Evaluation, EvaluateSavePage, EvaluateHold, EvaluateFreeze, EvaluateCrash,
     Enroll, vars
<1> QED
  BY <1>1, <1>2, <1>3 DEF Next

(* A marker is written by a wave that has the photo settled. *)
LEMMA NextMarkers ==
    ASSUME IInv, ChainInv, Markers, [Next]_vars
    PROVE  Markers'
<1> SUFFICES ASSUME NEW src \in Sources, published'[src] # 0
             PROVE  /\ wave'[published'[src]].state \in {"indexing", "complete"}
                    /\ wave'[published'[src]].frozen.path = "vision"
                    /\ evidence'[published'[src]][MemberKey(src)].state = "settled"
  BY DEF Markers, SettledMembers
<1> DEFINE Marks(w) == /\ wave[w].state \in {"indexing", "complete"}
                       /\ wave[w].frozen.path = "vision"
                       /\ src \in SettledMembers(w)
<1>1. published'[src] \in Waves /\ Marks(published'[src])
  <2>1. CASE published'[src] = published[src]
    BY <2>1 DEF IInv, TypeInv, TypeOK, Markers
  <2>2. CASE published'[src] # published[src]
    <3>1. PICK w \in Waves : RecordPublicationMembers(w)
      BY <2>2, PublishedKept
    <3>2. published'[src] = w /\ src \in SettledMembers(w)
      BY <2>2, <3>1 DEF RecordPublicationMembers
    <3>3. wave[w].state = "indexing" /\ wave[w].frozen.path = "vision"
      BY <3>1 DEF RecordPublicationMembers, ChainInv, FrozenBound
    <3> QED
      BY <3>2, <3>3
  <2> QED
    BY <2>1, <2>2
<1>2. FrozenKept(published'[src])
  BY <1>1, NextKeepsFrozen DEF Frozen
<1>3. wave'[published'[src]].state \in {"indexing", "complete"}
  BY <1>1, NeverUnpublished
<1> QED
  BY <1>1, <1>2, <1>3 DEF FrozenKept, SettledMembers

(* What a page of the no-work probe accepted, behind what was accepted before. *)
LEMMA ProbedPage ==
    ASSUME IInv, Markers, ProbeInv, NEW w \in Waves, NEW page, NEW rest,
           Probing(w, rest, page), \A k \in page : Repeats(w, k)
    PROVE  /\ Cardinality(page) = MaxPage =>
                 RepeatsOnly(w, 1..LastOf(page, probe[w].after))
           /\ Cardinality(page) < MaxPage => RepeatsOnly(w, Keys)
<1> DEFINE N == NSources + NSessions
           before == probe[w].after
<1>1. N \in Nat /\ Keys = 1..N
  BY BoundsAreNat DEF Keys
<1>2. before \in 0..N
  BY <1>1 DEF IInv, TypeInv, TypeOK, Probe
<1>3. /\ rest = {k \in Present(w) : k > before}
      /\ rest \in SUBSET (1..N) /\ page \in SUBSET (1..N) /\ IsPage(page, rest, MaxPage)
  BY <1>1 DEF Present, Probing
<1>4. ASSUME NEW src \in Sources, evidence[w][MemberKey(src)].kind = "member",
             MemberKey(src) <= before \/ MemberKey(src) \in page
      PROVE  ~ evidence[w][MemberKey(src)].needs /\ Justified(src)
  <2>1. MemberKey(src) \in 1..N /\ MemberKey(src) = src
    BY <1>1, BoundsAreNat DEF MemberKey
  <2>2. CASE MemberKey(src) <= before
    <3>1. MemberKey(src) \in 1..before
      BY <1>2, <2>1, <2>2
    <3> QED
      BY <1>4, <3>1 DEF ProbeInv, RepeatsOnly
  <2>3. CASE MemberKey(src) \in page
    <3>1. ~ evidence[w][MemberKey(src)].needs /\ PublishedByComplete(src)
      BY <1>4, <2>1, <2>3 DEF Repeats
    <3> QED
      BY <3>1, MarkersJustify DEF IInv, TypeInv
  <2> QED
    BY <1>4, <2>2, <2>3
<1>5. ASSUME NEW src \in Sources, evidence[w][MemberKey(src)].kind = "member",
             ~ (MemberKey(src) <= before)
      PROVE  MemberKey(src) \in rest
  <2>1. MemberKey(src) \in 1..N
    BY <1>1, BoundsAreNat
  <2> QED
    BY <1>1, <1>2, <1>3, <1>5, <2>1 DEF Present, Absent
<1> HIDE DEF N, before
<1>6. ASSUME Cardinality(page) = MaxPage
      PROVE  RepeatsOnly(w, 1..LastOf(page, before))
  <2>1. page # {} /\ \A j \in rest, k \in page : j < k => j \in page
    <3>1. ~ Cardinality(page) < MaxPage
      BY <1>6, NumbersAssumption
    <3> QED
      BY <1>1, <1>3, <3>1, PageOfRest
  <2>2. LastOf(page, before) \in page
    BY <1>1, <1>2, <1>3, <2>1, LastOfPage
  <2>3. ASSUME NEW src \in Sources, MemberKey(src) \in 1..LastOf(page, before),
               evidence[w][MemberKey(src)].kind = "member"
        PROVE  MemberKey(src) <= before \/ MemberKey(src) \in page
    <3>1. LastOf(page, before) \in Nat /\ MemberKey(src) \in Nat /\ MemberKey(src) <= LastOf(page, before)
      BY <1>1, <1>3, <2>2, <2>3
    <3>2. MemberKey(src) = LastOf(page, before) \/ MemberKey(src) < LastOf(page, before)
      BY <3>1
    <3> QED
      BY <1>5, <2>1, <2>2, <2>3, <3>2
  <2> QED
    BY <1>4, <2>3 DEF RepeatsOnly
<1>7. ASSUME Cardinality(page) < MaxPage
      PROVE  RepeatsOnly(w, Keys)
  <2>1. page = rest
    BY <1>1, <1>3, <1>7, PageOfRest
  <2> QED
    BY <1>4, <1>5, <2>1 DEF RepeatsOnly
<1> QED
  BY <1>6, <1>7 DEF before

(* A step restarts a probe, continues it, or leaves it and what it has read. *)
LEMMA ProbeSteps ==
    ASSUME IInv, [Next]_vars, NEW w \in Waves
    PROVE  \/ probe'[w].after = 0
           \/ ProbeSavePage(w)
           \/ /\ probe'[w] = probe[w]
              /\ \A k \in Keys : /\ evidence'[w][k].kind = evidence[w][k].kind
                                 /\ evidence'[w][k].needs = evidence[w][k].needs
<1> DEFINE Kept == /\ probe'[w] = probe[w]
                   /\ \A k \in Keys : /\ evidence'[w][k].kind = evidence[w][k].kind
                                      /\ evidence'[w][k].needs = evidence[w][k].needs
           Goal == probe'[w].after = 0 \/ ProbeSavePage(w) \/ Kept
<1> SUFFICES Goal
  OBVIOUS
<1>1. ASSUME Commit PROVE Goal
  BY <1>1, CommitScans
<1>2. ASSUME UNCHANGED <<probe, evidence>> PROVE Goal
  BY <1>2
<1>3. ASSUME NEW v \in Waves, NEW seen \in Observations(v), CommitObservations(v, seen)
      PROVE  Goal
  <2>1. UNCHANGED probe /\ evidence' = [evidence EXCEPT ![v] = Observed(v, seen)]
    BY <1>3 DEF CommitObservations
  <2>2. \A k \in Keys : /\ Observed(v, seen)[k].kind = evidence[v][k].kind
                        /\ Observed(v, seen)[k].needs = evidence[v][k].needs
    BY DEF Observed, IInv, TypeInv, TypeOK, Manifest, EvidenceRow
  <2>3. evidence'[w] = IF v = w THEN Observed(v, seen) ELSE evidence[w]
    BY <2>1 DEF IInv, TypeInv, TypeOK
  <2> QED
    BY <2>1, <2>2, <2>3
<1>4. ASSUME NEW v \in Waves, ProbeImpossible(v)
      PROVE  Goal
  <2>1. probe' = [probe EXCEPT ![v] = NoProbe] /\ UNCHANGED evidence
    BY <1>4 DEF ProbeImpossible
  <2>2. CASE v = w
    BY <2>1, <2>2 DEF NoProbe, IInv, TypeInv, TypeOK
  <2>3. CASE v # w
    BY <2>1, <2>3 DEF IInv, TypeInv, TypeOK
  <2> QED
    BY <2>2, <2>3
<1>5. ASSUME NEW v \in Waves, ProbeSavePage(v)
      PROVE  Goal
  <2>1. v # w => UNCHANGED evidence /\ probe'[w] = probe[w]
    BY <1>5 DEF ProbeSavePage, IInv, TypeInv, TypeOK
  <2> QED
    BY <1>5, <2>1
<1> HIDE DEF Goal
<1>6. ASSUME NEW s \in Sessions, Intake(s) \/ Cancellation(s) \/ Time(s)
      PROVE  Goal
  <2>1. Intake(s) => Commit
    BY DEF Intake, OpenSession, Register, AdmitFinalize, ResolveMany, Close, CloseAs
  <2>2. Cancellation(s) => Commit \/ UNCHANGED <<probe, evidence>>
    BY DEF Cancellation, SealExpired, FenceDiscard, AbandonPage, CloseAbandoned, CloseAs
  <2>3. Time(s) => UNCHANGED <<probe, evidence>>
    BY DEF Time, LeaseLapses, FinalizeLeaseLapses, DrainEnds
  <2> QED
    BY <1>1, <1>2, <1>6, <2>1, <2>2, <2>3
<1>7. ASSUME NEW v \in Waves, BarrierStep(v) \/ Publication(v)
      PROVE  Goal
  <2>1. ASSUME NEW seen \in Observations(v), Observe(v, seen)
        PROVE  Goal
    BY <1>1, <2>1 DEF Observe
  <2>2. ASSUME BarrierStep(v), ~ \E seen \in Observations(v) : CommitObservations(v, seen) \/ Observe(v, seen)
        PROVE  Goal
    BY <1>1, <1>2, <2>2 DEF BarrierStep, PromoteSuccessor, Settle, EvaluateRead
  <2>3. ASSUME CompleteEmpty(v) \/ CommitAssignment(v) \/ CompleteIndexing(v)
        PROVE  Goal
    BY <1>1, <2>3 DEF CompleteEmpty, CommitAssignment, CompleteIndexing
  <2>4. ASSUME RecordPublicationMembers(v)
        PROVE  Goal
    BY <1>2, <2>4 DEF RecordPublicationMembers
  <2> QED
    BY <1>3, <1>4, <1>5, <1>7, <2>1, <2>2, <2>3, <2>4 DEF Publication
<1>8. ASSUME Evaluation \/ EvaluateCrash \/ Enroll \/ UNCHANGED vars
      PROVE  Goal
  BY <1>1, <1>2, <1>8 DEF Evaluation, EvaluateSavePage, EvaluateHold, EvaluateFreeze,
     EvaluateCrash, Enroll, vars
<1> QED
  BY <1>6, <1>7, <1>8 DEF Next

(* Only a completion without work binds a no-work revision. *)
LEMMA NoWorkBinds ==
    ASSUME IInv, ChainInv, [Next]_vars, NEW w \in Waves,
           wave[w].state \notin Frozen, wave'[w].frozen.path = "no_work"
    PROVE  CompleteEmpty(w)
<1>1. wave[w].frozen = NoRevision
  BY DEF ChainInv, FrozenBound
<1>2. ChainInv'
  BY NextChain
<1>3. wave'[w].state \in Frozen
  BY <1>2 DEF ChainInv, FrozenBound, NoRevision
<1>4. FreezesNow(w)
  BY <1>3, NextThawed DEF StaysThawed
<1>5. EvaluateFreeze /\ scan.wave = w => wave'[w].state = "ready"
  BY FreezeSaw
<1> QED
  BY <1>2, <1>4, <1>5 DEF FreezesNow, ChainInv, FrozenBound

(* A probe passes only what is published and stays so. *)
LEMMA NextProbe ==
    ASSUME IInv, ChainInv, Markers, ProbeInv, [Next]_vars
    PROVE  ProbeInv'
<1>1. ASSUME NEW w \in Waves, NEW src \in Sources, NEW keys,
             RepeatsOnly(w, keys), MemberKey(src) \in keys,
             evidence'[w][MemberKey(src)].kind = "member",
             evidence'[w][MemberKey(src)].kind = evidence[w][MemberKey(src)].kind,
             evidence'[w][MemberKey(src)].needs = evidence[w][MemberKey(src)].needs
      PROVE  ~ evidence'[w][MemberKey(src)].needs /\ Justified(src)'
  <2>1. ~ evidence[w][MemberKey(src)].needs /\ Justified(src)
    BY <1>1 DEF RepeatsOnly
  <2> QED
    BY <1>1, <2>1, StaysJustified
<1>2. ASSUME NEW w \in Waves, NEW src \in Sources, MemberKey(src) \in 1..probe'[w].after,
             evidence'[w][MemberKey(src)].kind = "member"
      PROVE  ~ evidence'[w][MemberKey(src)].needs /\ Justified(src)'
  <2>1. MemberKey(src) \in Keys
    BY BoundsAreNat
  <2>2. CASE probe'[w].after = 0
    BY <1>2, <2>2
  <2>3. CASE ProbeSavePage(w)
    <3> DEFINE rest == {k \in Present(w) : k > probe[w].after}
    <3>1. PICK page \in SUBSET rest :
            /\ Probing(w, rest, page)
            /\ \A k \in page : Repeats(w, k)
            /\ Cardinality(page) = MaxPage
            /\ probe' = [probe EXCEPT ![w] = [after |-> LastOf(page, probe[w].after),
                                              seen |-> probe[w].seen \cup page]]
      BY <2>3 DEF ProbeSavePage
    <3>2. UNCHANGED evidence /\ probe'[w].after = LastOf(page, probe[w].after)
      BY <2>3, <3>1 DEF ProbeSavePage, IInv, TypeInv, TypeOK
    <3>3. RepeatsOnly(w, 1..probe'[w].after)
      BY <3>1, <3>2, ProbedPage
    <3> QED
      BY <1>1, <1>2, <3>2, <3>3
  <2>4. CASE /\ probe'[w] = probe[w]
             /\ \A k \in Keys : /\ evidence'[w][k].kind = evidence[w][k].kind
                                /\ evidence'[w][k].needs = evidence[w][k].needs
    <3>1. RepeatsOnly(w, 1..probe'[w].after)
      BY <2>4 DEF ProbeInv
    <3> QED
      BY <1>1, <1>2, <2>1, <2>4, <3>1
  <2> QED
    BY <2>2, <2>3, <2>4, ProbeSteps
<1>3. ASSUME NEW w \in Waves, wave'[w].frozen.path = "no_work", NEW src \in Sources,
             evidence'[w][MemberKey(src)].kind = "member"
      PROVE  ~ evidence'[w][MemberKey(src)].needs /\ Justified(src)'
  <2>1. MemberKey(src) \in Keys
    BY BoundsAreNat
  <2>2. RepeatsOnly(w, Keys) /\ evidence'[w] = evidence[w]
    <3>1. CASE wave[w].state \in Frozen
      <4>1. FrozenKept(w)
        BY <3>1, NextKeepsFrozen
      <4> QED
        BY <1>3, <4>1 DEF FrozenKept, ProbeInv
    <3>2. CASE wave[w].state \notin Frozen
      <4>1. CompleteEmpty(w)
        BY <1>3, <3>2, NoWorkBinds
      <4> DEFINE rest == {k \in Present(w) : k > probe[w].after}
      <4>2. PICK page \in SUBSET rest : /\ Probing(w, rest, page)
                                        /\ \A k \in page : Repeats(w, k)
                                        /\ Cardinality(page) < MaxPage
        BY <4>1 DEF CompleteEmpty
      <4>3. RepeatsOnly(w, Keys)
        BY <4>2, ProbedPage
      <4> QED
        BY <4>1, <4>3 DEF CompleteEmpty
    <3> QED
      BY <3>1, <3>2
  <2> QED
    BY <1>1, <1>3, <2>1, <2>2
<1> QED
  BY <1>2, <1>3 DEF ProbeInv, RepeatsOnly, Justified, SettledMembers

(* A complete wave has its receipt, and one completed without work only repeats
   photos some complete wave took through Vision. *)
THEOREM CompletionsAreJustified == Spec => []CompletionJustified
<1>1. Init => CompletionInv
  <2> SUFFICES ASSUME Init PROVE CompletionInv
    OBVIOUS
  <2>1. Receipts /\ Markers
    BY DEF Init, Receipts, Markers, NoWave
  <2>2. ProbeInv
    BY DEF Init, ProbeInv, RepeatsOnly, NoProbe, NoWave, NoRevision
  <2> QED
    BY <2>1, <2>2 DEF CompletionInv
<1>2. IInv /\ ChainInv /\ CompletionInv /\ [Next]_vars => CompletionInv'
  BY NextReceipts, NextMarkers, NextProbe DEF CompletionInv
<1>3. CompletionInv => CompletionJustified
  <2> SUFFICES ASSUME CompletionInv, NEW w \in Waves, wave[w].frozen.path = "no_work",
                      NEW src \in Sources, evidence[w][MemberKey(src)].kind = "member"
               PROVE  ~ evidence[w][MemberKey(src)].needs /\ Justified(src)
    BY DEF CompletionInv, Receipts, CompletionJustified
  <2> QED
    BY BoundsAreNat DEF CompletionInv, ProbeInv, RepeatsOnly
<1> QED
  BY <1>1, <1>2, <1>3, ChainInvariant, PTL DEF Spec

-----------------------------------------------------------------------------
(* The photos of a wave. *)

Members(w) == {src \in Sources : evidence[w][MemberKey(src)].kind = "member"}

MembersKept == \A w \in Waves : Members(w)' = Members(w)

(* An open session brings its wave photos; no wave is started or moved by it. *)
Gathers(s) ==
    /\ session[s].state = "open"
    /\ \A w \in Waves :
        /\ w = session[s].wave => \E new \in SUBSET Sources :
              /\ Members(w)' = Members(w) \cup new /\ new \cap Members(w) = {}
              /\ wave'[w].members = wave[w].members + Cardinality(new)
        /\ w # session[s].wave => Members(w)' = Members(w) /\ wave'[w] = wave[w]
        /\ wave'[w].state = wave[w].state /\ wave'[w].sessions = wave[w].sessions
    /\ UNCHANGED enrolled

(* No photo becomes a member or is upgraded to need its projection. *)
RowsStay ==
    \A w \in Waves, src \in Sources :
        /\ evidence'[w][MemberKey(src)].kind = evidence[w][MemberKey(src)].kind
        /\ evidence'[w][MemberKey(src)].needs = evidence[w][MemberKey(src)].needs
        /\ evidence[w][MemberKey(src)].kind # "member" =>
              evidence'[w][MemberKey(src)] = evidence[w][MemberKey(src)]

(* Rows that keep their kind keep the photos of their wave. *)
LEMMA StayKept == RowsStay => MembersKept
BY DEF RowsStay, MembersKept, Members

(* Writing the row of a session touches no member. *)
LEMMA OneSessionEvidence ==
    ASSUME IInv, NEW w \in Waves, NEW s \in Sessions, NEW state,
           evidence' = [evidence EXCEPT ![w][SessionKey(s)] = SessionEvidence(state)]
    PROVE  RowsStay
<1> SUFFICES ASSUME NEW v \in Waves, NEW src \in Sources
             PROVE  evidence'[v][MemberKey(src)] = evidence[v][MemberKey(src)]
  BY DEF RowsStay
<1>1. MemberKey(src) # SessionKey(s)
  BY KeysApart, BoundsAreNat DEF Keys
<1> QED
  BY <1>1, BoundsAreNat DEF IInv, TypeInv, TypeOK, Manifest

(* A resolution brings photos to the wave of its session alone. *)
LEMMA ResolveGathers ==
    ASSUME IInv, NEW s \in Sessions, NEW page \in Pages,
           NEW binding \in [page -> Bindings], ResolveMany(s, binding)
    PROVE  Gathers(s)
<1>0. PICK w : w = session[s].wave
  OBVIOUS
<1> DEFINE admitted == Admitted(Reserved(s, page), binding)
           projected == Projected(Reserved(s, page), binding)
           rows == WithMembers(evidence[w], admitted, projected)
           new == {src \in admitted : evidence[w][MemberKey(src)] = Absent}
<1>1. DOMAIN binding = page /\ page \subseteq Items
  BY DEF Pages
<1>2. evidence' = [evidence EXCEPT ![w] = rows] /\ session[s].state = "open" /\ UNCHANGED enrolled
  BY <1>0, <1>1 DEF ResolveMany
<1>3. admitted \subseteq Sources
  BY <1>1 DEF Admitted, Reserved, Bindings, Admitting
<1>4. w \in Waves
  BY <1>0, <1>2, OpenSessionsWave DEF IInv
<1>5. wave' = [wave EXCEPT ![w].members = @ + Cardinality(new)]
  BY <1>0, <1>1 DEF ResolveMany
<1>6. \A v \in Waves : wave'[v].state = wave[v].state /\ wave'[v].sessions = wave[v].sessions
  BY <1>5 DEF IInv, TypeInv, TypeOK, WaveRow
<1>7. ASSUME NEW src \in Sources
      PROVE  rows[MemberKey(src)].kind = IF src \in new THEN "member"
                                         ELSE evidence[w][MemberKey(src)].kind
  <2> DEFINE k == MemberKey(src)
  <2>1. k \in Keys /\ k = src /\ evidence[w][k] \in EvidenceRow
    BY <1>4, BoundsAreNat DEF MemberKey, IInv, TypeInv, TypeOK, Manifest
  <2>2. k \in {MemberKey(x) : x \in admitted} <=> src \in admitted
    BY DEF MemberKey
  <2>3. rows[k] = IF src \notin admitted THEN evidence[w][k]
                  ELSE IF evidence[w][k] = Absent THEN Member("pending", k \in projected)
                  ELSE [evidence[w][k] EXCEPT !.needs = @ \/ k \in projected]
    BY <2>1, <2>2 DEF WithMembers
  <2> HIDE DEF rows, admitted, projected
  <2>4. Member("pending", k \in projected).kind = "member"
    BY DEF Member
  <2>5. [evidence[w][k] EXCEPT !.needs = @ \/ k \in projected].kind = evidence[w][k].kind
    BY <2>1 DEF EvidenceRow
  <2> QED
    BY <2>1, <2>3, <2>4, <2>5
<1> HIDE DEF rows, admitted, projected
<1>8. Members(w)' = Members(w) \cup new
  <2>1. evidence'[w] = rows
    BY <1>2, <1>4 DEF IInv, TypeInv, TypeOK
  <2>2. Members(w)' = {src \in Sources : rows[MemberKey(src)].kind = "member"}
    BY <2>1 DEF Members
  <2> QED
    BY <1>3, <1>7, <2>2 DEF Members
<1>9. \A v \in Waves \ {w} : Members(v)' = Members(v) /\ wave'[v] = wave[v]
  BY <1>2, <1>4, <1>5 DEF Members, IInv, TypeInv, TypeOK
<1>10. wave'[w].members = wave[w].members + Cardinality(new)
  BY <1>4, <1>5 DEF IInv, TypeInv, TypeOK, WaveRow
<1>11. new \in SUBSET Sources /\ new \cap Members(w) = {}
  BY <1>3 DEF Members, Absent
<1> HIDE DEF new
<1> QED
  BY <1>0, <1>2, <1>6, <1>8, <1>9, <1>10, <1>11 DEF Gathers

Resolves(s) == \E page \in Pages : \E binding \in [page -> Bindings] : ResolveMany(s, binding)

(* Only resolving items changes which photos a wave has. *)
LEMMA OnlyResolving ==
    ASSUME IInv, [Next]_vars, ~ \E s \in Sessions : Resolves(s)
    PROVE  RowsStay
<1> DEFINE Goal == RowsStay
<1> SUFFICES Goal
  OBVIOUS
<1>1. ASSUME UNCHANGED evidence PROVE Goal
  BY <1>1 DEF RowsStay
<1>2. ASSUME NEW s \in Sessions, NEW state, session[s].state = "open", CloseAs(s, state)
      PROVE  Goal
  <2>1. evidence' = [evidence EXCEPT ![session[s].wave][SessionKey(s)] = SessionEvidence(state)]
    BY <1>2 DEF CloseAs
  <2> QED
    BY <1>2, <2>1, OneSessionEvidence, OpenSessionsWave DEF IInv
<1>3. ASSUME NEW s \in Sessions, Intake(s)
      PROVE  Goal
  <2>1. ASSUME NEW declared \in Declarations, OpenSession(s, declared)
        PROVE  Goal
    <3>1. PICK w \in Waves :
            evidence' = [evidence EXCEPT ![w][SessionKey(s)] = SessionEvidence("open")]
      BY <2>1 DEF OpenSession
    <3> QED
      BY <3>1, OneSessionEvidence
  <2>3. ASSUME Close(s)
        PROVE  Goal
    BY <1>2, <2>3 DEF Close, Complete
  <2>4. ASSUME NEW page \in Pages, Register(s, page)
        PROVE  Goal
    BY <1>1, <2>4 DEF Register
  <2>5. ASSUME NEW i \in Items, AdmitFinalize(s, i)
        PROVE  Goal
    BY <1>1, <2>5 DEF AdmitFinalize
  <2> QED
    BY <1>3, <2>1, <2>3, <2>4, <2>5 DEF Intake, Resolves
<1>4. ASSUME NEW s \in Sessions, Cancellation(s) \/ Time(s)
      PROVE  Goal
  <2>1. CloseAbandoned(s) => Goal
    BY <1>2 DEF CloseAbandoned
  <2> QED
    BY <1>1, <1>4, <2>1 DEF Cancellation, SealExpired, FenceDiscard, AbandonPage,
       Time, LeaseLapses, FinalizeLeaseLapses, DrainEnds
<1>5. ASSUME NEW w \in Waves, BarrierStep(w)
      PROVE  Goal
  <2>1. ASSUME NEW seen \in Observations(w), CommitObservations(w, seen) \/ Observe(w, seen)
        PROVE  Goal
    <3>1. evidence' = [evidence EXCEPT ![w] = Observed(w, seen)]
      BY <2>1 DEF CommitObservations, Observe
    <3>2. \A k \in Keys : /\ Observed(w, seen)[k].kind = evidence[w][k].kind
                          /\ Observed(w, seen)[k].needs = evidence[w][k].needs
      BY DEF Observed, IInv, TypeInv, TypeOK, Manifest, EvidenceRow
    <3>3. \A v \in Waves : evidence'[v] = IF v = w THEN Observed(w, seen) ELSE evidence[v]
      BY <3>1 DEF IInv, TypeInv, TypeOK
    <3>4. ASSUME NEW x \in Sources, evidence[w][MemberKey(x)].kind # "member"
          PROVE  Observed(w, seen)[MemberKey(x)] = evidence[w][MemberKey(x)]
      <4>1. MemberKey(x) \notin DOMAIN seen
        BY <3>4 DEF Observations, MemberKey
      <4> QED
        BY <4>1, BoundsAreNat DEF Observed
    <3> QED
      BY <3>2, <3>3, <3>4, BoundsAreNat DEF RowsStay
  <2>2. ASSUME NEW src \in Sources, NEW outcome \in Terminal, Settle(w, src, outcome)
        PROVE  Goal
    <3> DEFINE k == MemberKey(src)
    <3>1. evidence' = [evidence EXCEPT ![w] = [evidence[w] EXCEPT ![k] =
                                                  [evidence[w][k] EXCEPT !.state = outcome]]]
      BY <2>2 DEF Settle
    <3>2. \A v \in Waves : evidence[v] \in [Keys -> EvidenceRow]
      BY DEF IInv, TypeInv, TypeOK, Manifest
    <3>3. /\ [evidence[w][k] EXCEPT !.state = outcome].kind = evidence[w][k].kind
          /\ [evidence[w][k] EXCEPT !.state = outcome].needs = evidence[w][k].needs
      BY <3>2, BoundsAreNat DEF EvidenceRow
    <3> HIDE DEF k
    <3>4. ASSUME NEW v \in Waves, NEW j \in Keys
          PROVE  /\ evidence'[v][j].kind = evidence[v][j].kind
                 /\ evidence'[v][j].needs = evidence[v][j].needs
                 /\ v # w \/ j # k => evidence'[v][j] = evidence[v][j]
      <4>1. evidence'[v] = IF v = w THEN [evidence[w] EXCEPT ![k] = [evidence[w][k] EXCEPT !.state = outcome]]
                           ELSE evidence[v]
        BY <3>1 DEF IInv, TypeInv, TypeOK
      <4> QED
        BY <3>2, <3>3, <4>1
    <3>5. evidence[w][k].kind = "member"
      BY <2>2 DEF Settle, k
    <3> QED
      BY <3>4, <3>5, BoundsAreNat DEF RowsStay
  <2> QED
    BY <1>1, <1>5, <2>1, <2>2 DEF BarrierStep, PromoteSuccessor, EvaluateRead
<1>6. ASSUME NEW w \in Waves, Publication(w)
      PROVE  Goal
  BY <1>1, <1>6 DEF Publication, ProbeImpossible, ProbeSavePage, CompleteEmpty,
     CommitAssignment, RecordPublicationMembers, CompleteIndexing
<1>7. ASSUME Evaluation \/ EvaluateCrash \/ Enroll \/ UNCHANGED vars
      PROVE  Goal
  BY <1>1, <1>7 DEF Evaluation, EvaluateSavePage, EvaluateHold, EvaluateFreeze,
     EvaluateCrash, Enroll, vars
<1> HIDE DEF Goal
<1> QED
  BY <1>3, <1>4, <1>5, <1>6, <1>7 DEF Next

(* The photos of a wave change only while a session brings some. *)
LEMMA PhotosMove ==
    ASSUME IInv, [Next]_vars
    PROVE  MembersKept \/ \E s \in Sessions : Gathers(s)
BY OnlyResolving, ResolveGathers, StayKept DEF Resolves

-----------------------------------------------------------------------------
(* The protocol implements the chain. *)

(* A wave nobody started has no photos. *)
UnusedEmpty == \A w \in Waves : wave[w].state = "none" => Members(w) = {}

LineInv == IInv /\ ChainInv /\ UnusedEmpty

(* What WaveChain sees of the protocol. *)
Phase == [w \in Waves |-> IF enrolled THEN PhaseOf(wave[w].state) ELSE "none"]
Photos == [w \in Waves |-> {src \in Sources : enrolled /\ evidence[w][MemberKey(src)].kind = "member"}]

(* The phase of each state. *)
LEMMA PhaseOfStates ==
    /\ PhaseOf("none") = "none"
    /\ PhaseOf("collecting") = "gathering"
    /\ PhaseOf("waiting_predecessor") = "sealed"
    /\ \A state \in Barrier : PhaseOf(state) = "vision"
    /\ PhaseOf("processing_pending") = "vision" /\ PhaseOf("processing") = "vision"
    /\ PhaseOf("ready") = "frozen"
    /\ PhaseOf("indexing") = "indexing"
    /\ PhaseOf("complete") = "published"
BY DEF PhaseOf, Barrier

(* A wave in use has a phase of the chain. *)
LEMMA PhasesOfStates ==
    /\ \A state \in WaveStates \ {"none"} : PhaseOf(state) \in Chain!Phases \ {"none"}
    /\ \A state \in Frozen : PhaseOf(state) \in {"frozen", "indexing", "published"}
BY PhaseOfStates DEF WaveStates, Frozen, Barrier, Chain!Phases

(* A wave once started stays so. *)
LEMMA NextUnused ==
    ASSUME LineInv, [Next]_vars
    PROVE  UnusedEmpty'
<1> SUFFICES ASSUME NEW w \in Waves, wave'[w].state = "none" PROVE Members(w)' = {}
  BY DEF UnusedEmpty, Members
<1>1. control.tail <= control'.tail
  <2> control.tail \in Nat /\ control'.tail \in Nat
    <3>1. TypeOK /\ TypeOK'
      BY NextTypes DEF LineInv, IInv, TypeInv
    <3>2. control.tail \in Waves \cup {0} /\ control'.tail \in Waves \cup {0}
      BY <3>1 DEF TypeOK
    <3> QED
      BY <3>2, NumbersAssumption DEF Waves
  <2>1. TypeInv' /\ Numbered
    BY NextTypes DEF LineInv, IInv, ChainInv
  <2>2. ASSUME NEW s \in Sessions, Opens(s)
        PROVE  control'.tail \in {control.tail, control.tail + 1}
    BY <2>1, <2>2, OpensMove DEF LineInv
  <2>3. ASSUME ~ \E s \in Sessions : Opens(s), Moves
        PROVE  control'.tail = control.tail
    BY <2>1, <2>3, EndsMove, PromoteMove, EvaluationMove, EmptyMove, AssignMove
    DEF LineInv, Moves, Detaches
  <2> QED
    BY <2>2, <2>3, OnlyMoves DEF LineInv, Quiet
<1>2. wave[w].state = "none"
  <2>1. Numbered /\ Numbered'
    BY NextChain DEF LineInv, ChainInv
  <2>2. control.tail \in Nat /\ control'.tail \in Nat /\ w \in Nat
    <3>1. TypeOK /\ TypeOK'
      BY NextTypes DEF LineInv, IInv, TypeInv
    <3>2. control.tail \in Waves \cup {0} /\ control'.tail \in Waves \cup {0}
      BY <3>1 DEF TypeOK
    <3> QED
      BY <3>2, NumbersAssumption DEF Waves
  <2> QED
    BY <1>1, <2>1, <2>2 DEF Numbered
<1>3. Members(w) = {}
  BY <1>2 DEF LineInv, UnusedEmpty
<1>4. ASSUME NEW s \in Sessions, Gathers(s)
      PROVE  w # session[s].wave
  BY <1>2, <1>4, OpenSessionsWave DEF Gathers, LineInv, IInv
<1> QED
  BY <1>3, <1>4, PhotosMove DEF LineInv, MembersKept, Gathers

(* What the refinement rests on holds in every state. *)
LEMMA LineInvariant == Spec => []LineInv
<1>1. Init => LineInv
  <2> SUFFICES ASSUME Init PROVE UnusedEmpty
    BY InitIInv, InitChain DEF LineInv
  <2> QED
    BY BoundsAreNat DEF Init, UnusedEmpty, Members, NoRows, Absent
<1>2. LineInv /\ [Next]_vars => LineInv'
  BY NextIInv, NextChain, NextUnused DEF LineInv
<1> QED
  BY <1>1, <1>2, PTL DEF Spec

(* Moving one wave of an enrolled library moves its phase. *)
LEMMA PhaseMove ==
    ASSUME enrolled, enrolled', NEW w \in Waves, OthersKept(w)
    PROVE  Phase' = [Phase EXCEPT ![w] = PhaseOf(wave'[w].state)]
BY DEF Phase, OthersKept, RowKept

(* What WaveChain sees of the photos stays when they do. *)
LEMMA PhotosKept ==
    ASSUME MembersKept, enrolled' = enrolled
    PROVE  Photos' = Photos
BY DEF Photos, MembersKept, Members

(* Before the library is enrolled WaveChain sees nothing. *)
LEMMA NothingSeen ==
    /\ ~ enrolled => /\ Phase = [w \in Waves |-> "none"] /\ Photos = [w \in Waves |-> {}]
    /\ (~ enrolled)' => /\ Phase' = [w \in Waves |-> "none"] /\ Photos' = [w \in Waves |-> {}]
BY DEF Phase, Photos

(* A wave of an enrolled library that moves, with no photo moved, moves in
   WaveChain. *)
LEMMA AbstractMove ==
    ASSUME enrolled, enrolled' = enrolled, MembersKept, NEW w \in Waves, OthersKept(w)
    PROVE  Chain!Move(w, PhaseOf(wave[w].state), PhaseOf(wave'[w].state))
<1>1. enrolled'
  BY Zenon
<1>2. Phase[w] = PhaseOf(wave[w].state) /\ Phase' = [Phase EXCEPT ![w] = PhaseOf(wave'[w].state)]
  BY <1>1, PhaseMove DEF Phase
<1>3. Photos' = Photos
  BY PhotosKept
<1> QED
  BY <1>2, <1>3 DEF Phase, Photos, Chain!Move

(* The wave before w, where w is not the first. *)
LEMMA AbstractBefore ==
    ASSUME LineInv, enrolled, NEW w \in Waves, NEW allowed,
           \/ w = 1
           \/ (w - 1 \in Waves /\ PhaseOf(wave[w - 1].state) \in allowed)
    PROVE  Chain!Before(w, allowed)
BY DEF Chain!Before

(* Nothing but the row of w moves, and its phase does not either. *)
LEMMA AbstractStutter ==
    ASSUME enrolled' = enrolled, MembersKept, NEW w \in Waves, OthersKept(w),
           PhaseOf(wave'[w].state) = PhaseOf(wave[w].state)
    PROVE  Phase' = Phase /\ Photos' = Photos
BY PhotosKept DEF Phase, OthersKept, RowKept

(* Every transaction is a step of the chain or leaves it alone. *)
LEMMA ChainStep ==
    ASSUME LineInv, [Next]_vars
    PROVE  (Phase' = Phase /\ Photos' = Photos) \/ Chain!Next
<1> DEFINE Stutter == Phase' = Phase /\ Photos' = Photos
<1> HIDE DEF Stutter
<1> SUFFICES Stutter \/ Chain!Next
  BY DEF Stutter
<1>1. /\ IInv /\ TypeInv' /\ ChainInv /\ Numbered /\ TypeOK
      /\ \A w \in Waves : wave[w] \in WaveRow
  BY NextTypes DEF LineInv, IInv, ChainInv, TypeInv, TypeOK
<1>2. ASSUME NEW s \in Sessions, Gathers(s)
      PROVE  Stutter \/ Chain!Next
  <2>1. PICK w \in Waves : w = session[s].wave /\ wave[w].state = "collecting"
    BY <1>1, <1>2, OpenSessionsWave DEF Gathers, IInv, ChainInv, OpenCollects
  <2>2. PICK new \in SUBSET Sources : Members(w)' = Members(w) \cup new
    BY <1>2, <2>1 DEF Gathers
  <2>3. \A v \in Waves \ {w} : Members(v)' = Members(v)
    BY <1>2, <2>1 DEF Gathers
  <2>4. Phase' = Phase
    BY <1>2 DEF Gathers, Phase
  <2>5. CASE ~ enrolled
    <3>1. Photos = [v \in Waves |-> {}]
      BY <2>5, NothingSeen
    <3>2. (~ enrolled)'
      BY <1>2, <2>5 DEF Gathers
    <3>3. Photos' = [v \in Waves |-> {}]
      BY <3>2, NothingSeen
    <3> QED
      BY <2>4, <3>1, <3>3 DEF Stutter
  <2>6. CASE enrolled
    <3>1. enrolled'
      BY <1>2, <2>6, Zenon DEF Gathers
    <3>2. Phase[w] = "gathering"
      BY <2>1, <2>6, PhaseOfStates DEF Phase
    <3>3. Photos' = [Photos EXCEPT ![w] = @ \cup new]
      <4>1. Photos = [v \in Waves |-> Members(v)]
        BY <2>6 DEF Photos, Members
      <4>2. Photos' = [v \in Waves |-> Members(v)']
        BY <3>1 DEF Photos, Members
      <4> QED
        BY <2>2, <2>3, <4>1, <4>2
    <3>4. Chain!Gather(w)
      BY <2>4, <3>2, <3>3 DEF Chain!Gather, Phase, Photos
    <3> QED
      BY <3>4 DEF Chain!Next, Waves, Chain!Waves
  <2> QED
    BY <2>5, <2>6
<1>3. ASSUME MembersKept, Quiet
      PROVE  Stutter
  <2>1. CASE enrolled' = enrolled
    BY <1>3, <2>1, PhotosKept DEF Stutter, Phase, Quiet, RowKept
  <2>2. CASE control.tail = 0
    <3>1. \A w \in Waves : wave[w].state = "none" /\ Members(w) = {}
      BY <1>1, <2>2 DEF Numbered, LineInv, UnusedEmpty, Waves
    <3>2. Phase = [w \in Waves |-> "none"] /\ Photos = [w \in Waves |-> {}]
      BY <3>1, PhaseOfStates DEF Phase, Photos, Members
    <3>3. \A w \in Waves : wave'[w].state = "none" /\ Members(w)' = {}
      BY <1>3, <3>1 DEF Quiet, RowKept, MembersKept
    <3>4. Phase' = [w \in Waves |-> "none"] /\ Photos' = [w \in Waves |-> {}]
      BY <3>3, PhaseOfStates DEF Phase, Photos, Members
    <3> QED
      BY <3>2, <3>4 DEF Stutter
  <2> QED
    BY <1>3, <2>1, <2>2 DEF Quiet
<1>4. ASSUME ~ enrolled, enrolled' = enrolled
      PROVE  Stutter
  <2>1. (~ enrolled)'
    BY <1>4
  <2> QED
    BY <1>4, <2>1, NothingSeen DEF Stutter
<1>5. ASSUME MembersKept, enrolled, NEW s \in Sessions, Opens(s)
      PROVE  Stutter \/ Chain!Next
  <2>1. PICK w \in Waves :
          /\ \/ w = control.tail /\ control.collecting = w
             \/ w = control.tail + 1 /\ wave[w] = NoWave
          /\ wave'[w].state = "collecting" /\ OthersKept(w) /\ enrolled' = enrolled
    BY <1>1, <1>5, OpensMove
  <2>2. CASE control.collecting = w
    <3>1. wave[w].state = "collecting"
      BY <1>1, <1>5, <2>2, NumbersAssumption DEF ChainInv, OpenCollects, Waves
    <3> QED
      BY <1>5, <2>1, <3>1, AbstractStutter DEF Stutter
  <2>3. CASE w = control.tail + 1 /\ wave[w] = NoWave
    <3>1. Chain!Move(w, "none", "gathering")
      BY <1>5, <2>1, <2>3, AbstractMove, PhaseOfStates DEF NoWave
    <3>2. w = 1 \/ (w - 1 \in Waves /\ PhaseOf(wave[w - 1].state) \in Chain!Phases \ {"none"})
      <4>1. w - 1 = control.tail /\ (w = 1 \/ w - 1 \in Waves)
        <5>1. control.tail \in Waves \cup {0}
          BY <1>1 DEF TypeOK
        <5> QED
          BY <2>3, <5>1, NumbersAssumption DEF Waves
      <4>2. w # 1 => wave[w - 1].state \in WaveStates \ {"none"}
        BY <1>1, <4>1 DEF Numbered, WaveRow, Waves
      <4> QED
        BY <4>1, <4>2, PhasesOfStates
    <3>3. Chain!Before(w, Chain!Phases \ {"none"})
      BY <1>5, <3>2, AbstractBefore
    <3> QED
      BY <3>1, <3>3 DEF Chain!Next, Chain!Start, Waves, Chain!Waves
  <2> QED
    BY <2>1, <2>2, <2>3
<1>6. ASSUME MembersKept, enrolled, NEW s \in Sessions, Ends(s)
      PROVE  Stutter \/ Chain!Next
  <2>1. PICK w \in Waves :
          /\ w = session[s].wave /\ OthersKept(w) /\ enrolled' = enrolled
          /\ \/ wave'[w].state = "collecting"
             \/ wave'[w].state = "waiting_predecessor" /\ wave[w].pred # 0
             \/ wave'[w].state = "processing_pending" /\ wave[w].pred = 0
    BY <1>1, <1>6, EndsMove
  <2>2. wave[w].state = "collecting"
    BY <1>6, <2>1 DEF Ends, LineInv, ChainInv, OpenCollects
  <2>3. wave[w].pred = 0 <=> w = 1
    BY <1>1, <2>2 DEF Numbered, Waves
  <2>4. Chain!Move(w, "gathering", PhaseOf(wave'[w].state))
    BY <1>6, <2>1, <2>2, AbstractMove, PhaseOfStates
  <2>5. CASE wave'[w].state = "collecting"
    BY <1>6, <2>1, <2>2, <2>5, AbstractStutter DEF Stutter
  <2>6. CASE wave'[w].state # "collecting"
    <3>1. PhaseOf(wave'[w].state) = IF w = 1 THEN "vision" ELSE "sealed"
      BY <2>1, <2>3, <2>6, PhaseOfStates
    <3> QED
      BY <2>4, <3>1 DEF Chain!Next, Chain!Seal, Waves, Chain!Waves
  <2> QED
    BY <2>5, <2>6
<1>7. ASSUME MembersKept, enrolled, NEW w \in Waves, PromoteSuccessor(w)
      PROVE  Chain!Next
  <2>1. /\ wave[w].state = "waiting_predecessor" /\ wave[w].pred \in Waves
        /\ wave[wave[w].pred].state \in Frozen
        /\ wave'[w].state = "processing_pending" /\ OthersKept(w) /\ enrolled' = enrolled
    BY <1>1, <1>7, PromoteMove
  <2>2. wave[w].pred = w - 1
    BY <1>1, <2>1 DEF Numbered
  <2>3. Chain!Move(w, "sealed", "vision")
    BY <1>7, <2>1, AbstractMove, PhaseOfStates
  <2>4. Chain!Before(w, {"frozen", "indexing", "published"})
    BY <1>7, <2>1, <2>2, AbstractBefore, PhasesOfStates
  <2> QED
    BY <2>3, <2>4 DEF Chain!Next, Chain!EnterVision, Waves, Chain!Waves
<1>8. ASSUME MembersKept, enrolled, EvaluateHold \/ EvaluateFreeze
      PROVE  Stutter \/ Chain!Next
  <2>1. PICK w \in Waves :
          /\ wave[w].state \in Barrier /\ OthersKept(w) /\ enrolled' = enrolled
          /\ wave'[w].state \in {"processing", "ready"}
    BY <1>1, <1>8, EvaluationMove
  <2>2. CASE wave'[w].state = "processing"
    BY <1>8, <2>1, <2>2, AbstractStutter, PhaseOfStates DEF Stutter
  <2>3. CASE wave'[w].state = "ready"
    <3>1. Chain!Move(w, "vision", "frozen")
      BY <1>8, <2>1, <2>3, AbstractMove, PhaseOfStates
    <3> QED
      BY <3>1 DEF Chain!Next, Chain!Freeze, Waves, Chain!Waves
  <2> QED
    BY <2>1, <2>2, <2>3
<1>9. ASSUME enrolled, NEW w \in Waves, PredecessorPublished(w), wave[w].state # "none"
      PROVE  Chain!Before(w, {"published"})
  <2>1. wave[w].pred = w - 1 /\ wave[w].pred \in Waves \cup {0}
    BY <1>1, <1>9, PredInWaves DEF Numbered
  <2>2. CASE w - 1 = 0
    <3>1. w = 1
      BY <2>2 DEF Waves
    <3> QED
      BY <1>9, <3>1, AbstractBefore
  <2>3. CASE w - 1 # 0
    <3>1. w - 1 \in Waves /\ wave[w - 1].state = "complete"
      BY <1>9, <2>1, <2>3 DEF PredecessorPublished, PredecessorCompletion
    <3> QED
      BY <1>9, <3>1, AbstractBefore, PhaseOfStates
  <2> QED
    BY <2>2, <2>3
<1>10. ASSUME MembersKept, enrolled, NEW w \in Waves, CompleteEmpty(w)
       PROVE  Chain!Next
  <2>1. /\ wave[w].state \in Barrier /\ PredecessorPublished(w)
        /\ wave'[w].state = "complete" /\ OthersKept(w) /\ enrolled' = enrolled
    BY <1>1, <1>10, EmptyMove
  <2>2. Chain!Move(w, "vision", "published")
    BY <1>10, <2>1, AbstractMove, PhaseOfStates
  <2>3. Chain!Before(w, {"published"})
    BY <1>9, <1>10, <2>1 DEF Barrier
  <2> QED
    BY <2>2, <2>3 DEF Chain!Next, Chain!PublishNothing, Waves, Chain!Waves
<1>11. ASSUME MembersKept, enrolled, NEW w \in Waves, CommitAssignment(w) \/ CompleteIndexing(w)
       PROVE  Chain!Next
  <2>1. /\ \/ wave[w].state = "ready" /\ wave'[w].state = "indexing" /\ PredecessorPublished(w)
           \/ wave[w].state = "indexing" /\ wave'[w].state = "complete"
        /\ OthersKept(w) /\ enrolled' = enrolled
    BY <1>1, <1>11, AssignMove
  <2>2. CASE wave[w].state = "ready" /\ wave'[w].state = "indexing" /\ PredecessorPublished(w)
    <3>1. Chain!Move(w, "frozen", "indexing")
      BY <1>11, <2>1, <2>2, AbstractMove, PhaseOfStates
    <3>2. Chain!Before(w, {"published"})
      BY <1>9, <1>11, <2>2
    <3> QED
      BY <3>1, <3>2 DEF Chain!Next, Chain!Assign, Waves, Chain!Waves
  <2>3. CASE wave[w].state = "indexing" /\ wave'[w].state = "complete"
    <3>1. Chain!Move(w, "indexing", "published")
      BY <1>11, <2>1, <2>3, AbstractMove, PhaseOfStates
    <3> QED
      BY <3>1 DEF Chain!Next, Chain!Publish, Waves, Chain!Waves
  <2> QED
    BY <2>1, <2>2, <2>3
<1>12. ASSUME MembersKept, enrolled, Moves
       PROVE  Stutter \/ Chain!Next
  BY <1>5, <1>6, <1>7, <1>8, <1>10, <1>11, <1>12 DEF Moves
<1>13. ASSUME ~ enrolled, Moves
       PROVE  Stutter
  <2>1. enrolled' = enrolled
    BY <1>1, <1>13, OpensMove, EndsMove, PromoteMove, EvaluationMove, EmptyMove, AssignMove
    DEF Moves
  <2> QED
    BY <1>4, <1>13, <2>1
<1> QED
  BY <1>1, <1>2, <1>3, <1>12, <1>13, PhotosMove, OnlyMoves

(* Every behaviour of the protocol is one of the chain of waves: once the library
   is enrolled, each transaction starts, fills, seals, freezes or publishes one
   wave in the order WaveChain allows, or leaves the chain alone. *)
THEOREM ImplementsChain == Spec => ChainSpec
<1>1. Init => Chain!Init
  BY NothingSeen, Zenon DEF Init, Chain!Init, Phase, Photos, Waves, Chain!Waves
<1>2. LineInv /\ [Next]_vars => [Chain!Next]_Chain!vars
  BY ChainStep DEF Chain!vars, Phase, Photos
<1> QED
  BY <1>1, <1>2, LineInvariant, PTL DEF Spec, ChainSpec, Chain!Spec
=============================================================================
