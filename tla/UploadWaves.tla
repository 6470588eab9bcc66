---------------------------- MODULE UploadWaves ----------------------------
(***************************************************************************)
(* The upload-wave protocol of one library: intake sessions join a         *)
(* collecting wave, a closed wave is frozen by a paged barrier scan, and    *)
(* frozen waves are assigned, indexed and completed in chain order.         *)
(*                                                                         *)
(* Every row of the protocol lives in one Azure Table partition.  A        *)
(* transaction compares the ETag of each row it rewrites and commits or     *)
(* fails as a whole, so one committed transaction is one action.  Whatever  *)
(* spans several transactions in the code (the barrier scan, abandonment,   *)
(* the no-work probe) is several actions here, and the one read whose rows  *)
(* its own commit does not compare (a manifest page) is an action apart     *)
(* from that commit.                                                       *)
(*                                                                         *)
(* Abstractions.  A retried or replayed call that finds its result already  *)
(* committed changes nothing and has no action.  Random identifiers are     *)
(* numbered: the n-th wave created is wave n, and a photo revision is the   *)
(* rank of its digest, which is the order pages return it in.  A digest is  *)
(* the value it digests.  Clocks are reduced to what is compared with them: *)
(* a lease is live until an environment step lets it lapse.                 *)
(***************************************************************************)
EXTENDS Integers, FiniteSets

CONSTANTS NSessions,        \* sessions a browser may open; also bounds the waves
          NItems,           \* manifest items of a session
          Declarations,     \* declared item counts a session may open with
          NSources,         \* photo revisions items can resolve to
          MaxPage,          \* MAX_PAGE: rows of a page, items of a resolution
          RegisterMaxPage,  \* REGISTER_MAX_PAGE: items of one registration
          Leaving,          \* sessions whose browser may stop or go silent
          Finalizing,       \* sessions whose uploads take a finalize lease
          MaxDisturb        \* bound on what disturb counts

ASSUME NumbersAssumption ==
    /\ NSessions \in Nat \ {0}
    /\ NItems \in Nat \ {0}
    /\ NSources \in Nat \ {0}
    /\ MaxPage \in Nat \ {0}
    /\ RegisterMaxPage \in Nat \ {0}
    /\ MaxDisturb \in Nat

ASSUME SessionsAssumption ==
    /\ Declarations \subseteq 0..NItems
    /\ Leaving \subseteq 1..NSessions
    /\ Finalizing \subseteq 1..NSessions

Sessions == 1..NSessions
Waves    == 1..NSessions
Items    == 1..NItems
Sources  == 1..NSources

(* RowKeys under the prefix e!<wave>!: members (m!) sort before sessions (s!). *)
Keys == 1..(NSources + NSessions)
MemberKey(src) == src
SessionKey(s)  == NSources + s

(* "cancelled" stands for "failed" too: no guard tells them apart. *)
Outcomes == {"accepted", "duplicate", "cancelled"}
Admitting == {"accepted", "duplicate"}
Frozen == {"ready", "indexing", "complete"}
Barrier == {"processing_pending", "processing"}
WaveStates == {"none", "collecting", "waiting_predecessor"} \cup Barrier \cup Frozen
Terminal == {"deleted", "failed_exhausted"}

(* A resolution: the outcome and, when it admits a photo, its revision. *)
Bindings == [outcome: Admitting, src: Sources] \cup
            [outcome: Outcomes \ Admitting, src: {0}]

ItemRow == [outcome: Outcomes \cup {"none", "reserved"}, src: Sources \cup {0},
            fin: {"no", "live", "lapsed"}]
NoItem == [outcome |-> "none", src |-> 0, fin |-> "no"]

SessionRow == [state: {"none", "open", "closed", "abandoned", "absent"},
               wave: Waves \cup {0}, declared: 0..NItems,
               registered: Nat, resolved: Nat,
               lease: {"none", "live", "lapsed"},
               abandoning: BOOLEAN, drain: {"none", "running", "over"},
               cursor: Items \cup {0}, scanned: BOOLEAN]
NoSession == [state |-> "none", wave |-> 0, declared |-> 0, registered |-> 0,
              resolved |-> 0, lease |-> "none", abandoning |-> FALSE,
              drain |-> "none", cursor |-> 0, scanned |-> FALSE]

(* Evidence rows: a member carries its outcome, a session its state. *)
EvidenceRow == [kind: {"none", "member", "session"},
                state: {"none", "open", "closed", "abandoned",
                        "pending", "settled"} \cup Terminal,
                needs: BOOLEAN]
Absent == [kind |-> "none", state |-> "none", needs |-> FALSE]
Member(outcome, needs) == [kind |-> "member", state |-> outcome, needs |-> needs]
SessionEvidence(state) == [kind |-> "session", state |-> state, needs |-> FALSE]

Manifest == [Keys -> EvidenceRow]
NoRows == [k \in Keys |-> Absent]

(* frozenRevision: the digest of what the scan accumulated. *)
Revision == [path: {"none", "vision", "no_work"}, epoch: Nat, rows: Manifest]
NoRevision == [path |-> "none", epoch |-> 0, rows |-> NoRows]

WaveRow == [state: WaveStates, pred: Waves \cup {0}, predFrozen: Revision,
            open: Nat, sessions: Nat, members: Nat, epoch: Nat,
            vision: Nat, frozen: Revision, noWorkImpossible: BOOLEAN]
NoWave == [state |-> "none", pred |-> 0, predFrozen |-> NoRevision, open |-> 0,
           sessions |-> 0, members |-> 0, epoch |-> 0, vision |-> 0,
           frozen |-> NoRevision, noWorkImpossible |-> FALSE]

(* A saved scan position: the last key consumed and what has been read. *)
Accumulator == [after: Keys \cup {0}, rows: Manifest]
NoAccumulator == [after |-> 0, rows |-> NoRows]
Probe == [after: Keys \cup {0}, seen: SUBSET Keys]
NoProbe == [after |-> 0, seen |-> {}]

(* An evaluation between reading its page and committing it. *)
Scan == [wave: Waves \cup {0}, acc: Accumulator, finished: BOOLEAN]
NoScan == [wave |-> 0, acc |-> NoAccumulator, finished |-> FALSE]

VARIABLES
    enrolled,    \* the policy row exists: the live protocol owns the library
    control,     \* the control row: collectingWaveId and tailWaveId (0 is '')
    wave,        \* wave rows
    session,     \* session rows
    item,        \* item rows of each session
    evidence,    \* the e!<wave>! rows: members and session evidence
    evaluation,  \* wave.evaluation, the saved barrier scan
    probe,       \* wave.noWorkProbe, the saved no-work scan
    scan,        \* the evaluation in flight
    visionOut,   \* intake epochs with a shadow-vision! outbox row, per wave
    clusterOut,  \* inputRevision of the shadow-cluster! outbox row, per wave
    completion,  \* frozenRevision of the completion! receipt, per wave
    published,   \* waveId of the published-source! marker, per source (0: none)
    disturb      \* retractions, repeated admissions, overwritten deletions and
                 \* lost evaluations so far

vars == <<enrolled, control, wave, session, item, evidence, evaluation, probe,
          scan, visionOut, clusterOut, completion, published, disturb>>

Init ==
    /\ enrolled = FALSE
    /\ control = [collecting |-> 0, tail |-> 0]
    /\ wave = [w \in Waves |-> NoWave]
    /\ session = [s \in Sessions |-> NoSession]
    /\ item = [s \in Sessions |-> [i \in Items |-> NoItem]]
    /\ evidence = [w \in Waves |-> NoRows]
    /\ evaluation = [w \in Waves |-> NoAccumulator]
    /\ probe = [w \in Waves |-> NoProbe]
    /\ scan = NoScan
    /\ visionOut = [w \in Waves |-> {}]
    /\ clusterOut = [w \in Waves |-> NoRevision]
    /\ completion = [w \in Waves |-> NoRevision]
    /\ published = [src \in Sources |-> 0]
    /\ disturb = 0

(* enroll_new: before anything was admitted, and for good. *)
Enroll ==
    /\ ~ enrolled
    /\ control.tail = 0
    /\ enrolled' = TRUE
    /\ UNCHANGED <<control, wave, session, item, evidence, evaluation, probe,
                   scan, visionOut, clusterOut, completion, published, disturb>>

-----------------------------------------------------------------------------
(* Effects shared by the transactions. *)

(* _commit: a new control.revision strands every saved accumulator (the next
   read of one finds another revision and starts over), and rewriting the
   control row fails the commit of an evaluation already in flight. *)
Commit ==
    /\ evaluation' = [w \in Waves |-> NoAccumulator]
    /\ probe' = [w \in Waves |-> NoProbe]
    /\ scan' = NoScan

(* _commit(advance=False): control is still compared and rewritten. *)
CommitKeepingRevision == scan' = NoScan

Extended(row) == IF row.lease = "none" THEN "none" ELSE "live"

(* upload_session_lease.active; the variant forgets the abandonment fence. *)
ActiveWhileAbandoning(row) == row.state = "open" /\ row.lease # "lapsed"

Active(row) ==
    /\ row.state = "open"
    /\ ~ row.abandoning
    /\ row.lease # "lapsed"

(* commit_observations compares the wave row but not the control row: it clears
   the wave's own scan, and its write fails a commit in flight on that wave.
   The variant leaves both alone. *)
RestartNothing(w) == UNCHANGED <<evaluation, scan>>

RestartScan(w) ==
    /\ evaluation' = [evaluation EXCEPT ![w] = NoAccumulator]
    /\ scan' = IF scan.wave = w THEN NoScan ELSE scan

(* _page: at most size rows, in key order; a short page is the whole rest. *)
IsPage(page, rest, size) ==
    \/ /\ Cardinality(rest) < size
       /\ page = rest
    \/ /\ page \subseteq rest
       /\ Cardinality(page) = size
       /\ \A j \in rest, k \in page : j < k => j \in page

LastOf(page, before) ==
    IF page = {} THEN before
    ELSE CHOOSE k \in page : \A j \in page : j <= k

Present(w) == {k \in Keys : evidence[w][k] # Absent}

(* _predecessor_completion and predecessor_published *)
PredecessorCompletion(w) ==
    LET p == wave[w].pred IN
    /\ p # 0
    /\ wave[p].state = "complete"
    /\ completion[p] # NoRevision
    /\ completion[p] = wave[p].frozen
    /\ wave[w].predFrozen \in {NoRevision, completion[p]}

PredecessorPublished(w) == wave[w].pred = 0 \/ PredecessorCompletion(w)

-----------------------------------------------------------------------------
(* Intake. *)

(* The wave a new session joins: the collecting one, or a fresh identifier. *)
Joins(w) ==
    IF control.collecting # 0 THEN w = control.collecting
    ELSE /\ wave[w].state = "none"
         /\ \A v \in 1..(w - 1) : wave[v].state # "none"

FreshWave ==
    [NoWave EXCEPT
        !.pred = control.tail,
        !.predFrozen = IF control.tail = 0 THEN NoRevision
                       ELSE wave[control.tail].frozen]

(* The variant reopens a wave without a new intake epoch. *)
ReopenedInEpoch(row) ==
    [row EXCEPT !.state = "collecting", !.open = @ + 1, !.sessions = @ + 1,
                !.vision = 0, !.noWorkImpossible = FALSE]

Reopened(row) ==
    [row EXCEPT !.state = "collecting", !.open = @ + 1, !.sessions = @ + 1,
                !.epoch = @ + 1, !.vision = 0, !.noWorkImpossible = FALSE]

(* The variant leaves the tail of the chain where it was. *)
CollectingOnly(w) == [control EXCEPT !.collecting = w]

CollectingTail(w) == [control EXCEPT !.collecting = w, !.tail = w]

OpenSession(s, declared) ==
    /\ session[s].state = "none"
    /\ \E w \in Waves :
        /\ Joins(w)
        /\ wave[w].state # "ready"
        /\ wave' = [wave EXCEPT ![w] =
                       Reopened(IF wave[w].state = "none" THEN FreshWave
                                ELSE wave[w])]
        /\ session' = [session EXCEPT ![s] =
                          [NoSession EXCEPT !.state = "open", !.wave = w,
                                            !.declared = declared,
                                            !.lease = IF enrolled THEN "live" ELSE "none"]]
        /\ evidence' = [evidence EXCEPT ![w][SessionKey(s)] = SessionEvidence("open")]
        /\ control' = CollectingTail(w)
    /\ Commit
    /\ UNCHANGED <<enrolled, item, visionOut, clusterOut, completion, published,
                   disturb>>

Register(s, page) ==
    LET new == {i \in page : item[s][i].outcome = "none"} IN
    /\ Cardinality(page) <= RegisterMaxPage
    /\ new # {}
    /\ Active(session[s])
    /\ session[s].registered + Cardinality(new) <= session[s].declared
    /\ item' = [item EXCEPT ![s] =
                   [i \in Items |-> IF i \in new
                                    THEN [NoItem EXCEPT !.outcome = "reserved"]
                                    ELSE @[i]]]
    /\ session' = [session EXCEPT ![s] =
                      [session[s] EXCEPT !.registered = @ + Cardinality(new),
                                         !.lease = Extended(session[s])]]
    /\ Commit
    /\ UNCHANGED <<enrolled, control, wave, evidence, visionOut, clusterOut,
                   completion, published, disturb>>

(* validate_admission(finalizing=True): the request may write the source while
   its lease lasts.  A resolved item is admitted again whatever its session's
   state is, and then the session's lease is extended all the same. *)
AdmitFinalize(s, i) ==
    LET repeated == item[s][i].fin # "no" \/ session[s].state # "open" IN
    /\ s \in Finalizing
    /\ item[s][i].outcome \notin {"none", "cancelled"}
    /\ Active(session[s]) \/ item[s][i].outcome # "reserved"
    /\ repeated => disturb < MaxDisturb
    /\ IF session[s].state = "open"
       THEN /\ item' = [item EXCEPT ![s][i].fin = "live"]
            /\ session' = [session EXCEPT ![s].lease = Extended(session[s])]
       ELSE UNCHANGED <<item, session>>
    /\ disturb' = IF repeated THEN disturb + 1 ELSE disturb
    /\ Commit
    /\ UNCHANGED <<enrolled, control, wave, evidence, visionOut, clusterOut,
                   completion, published>>

(* The items of a page that still await an outcome; the variant counts a
   replayed item again. *)
ReservedOrResolved(s, page) == {i \in page : item[s][i].outcome # "none"}

Reserved(s, page) == {i \in page : item[s][i].outcome = "reserved"}

(* What resolving the items of pending by binding does to a wave's evidence. *)
Admitted(pending, binding) ==
    {binding[i].src : i \in {j \in pending : binding[j].outcome \in Admitting}}

Projected(pending, binding) ==
    {binding[i].src : i \in {j \in pending : binding[j].outcome = "accepted"}}

(* An admitted revision becomes a member once, and is upgraded if a later item
   needs its projection; the variant forgets the upgrade. *)
WithNewMembers(rows, admitted, projected) ==
    [k \in Keys |->
        IF k \in {MemberKey(src) : src \in admitted} /\ rows[k] = Absent
        THEN Member("pending", k \in projected) ELSE rows[k]]

WithMembers(rows, admitted, projected) ==
    [k \in Keys |->
        IF k \notin {MemberKey(src) : src \in admitted} THEN rows[k]
        ELSE IF rows[k] = Absent THEN Member("pending", k \in projected)
        ELSE [rows[k] EXCEPT !.needs = @ \/ k \in projected]]

ResolveMany(s, binding) ==
    LET page == DOMAIN binding
        pending == Reserved(s, page)
        w == session[s].wave
        admitted == Admitted(pending, binding)
    IN
    /\ Cardinality(page) <= MaxPage
    /\ \A i \in page \ pending :
          binding[i] = [outcome |-> item[s][i].outcome, src |-> item[s][i].src]
    /\ pending # {}
    /\ session[s].state = "open"
    /\ item' = [item EXCEPT ![s] =
                   [i \in Items |->
                       IF i \in pending
                       THEN [item[s][i] EXCEPT !.outcome = binding[i].outcome,
                                               !.src = binding[i].src]
                       ELSE item[s][i]]]
    /\ evidence' = [evidence EXCEPT ![w] =
                       WithMembers(evidence[w], admitted, Projected(pending, binding))]
    /\ wave' = [wave EXCEPT ![w].members =
                   @ + Cardinality({src \in admitted :
                                       evidence[w][MemberKey(src)] = Absent})]
    /\ session' = [session EXCEPT ![s] =
                      [session[s] EXCEPT
                          !.resolved = @ + Cardinality(pending),
                          !.lease = IF session[s].abandoning THEN @
                                    ELSE Extended(session[s])]]
    /\ Commit
    /\ UNCHANGED <<enrolled, control, visionOut, clusterOut, completion,
                   published, disturb>>

(* Nothing compares the times of a closed session with a clock any more. *)
Stopped(row) == [row EXCEPT !.lease = "none", !.drain = "none"]

(* The variant of Detached keeps a sealed wave as the collecting one. *)
KeptCollecting(w, left) == control

Detached(w, left) ==
    IF enrolled /\ left = 0 /\ control.collecting = w
    THEN [control EXCEPT !.collecting = 0] ELSE control

(* close: the transaction both of an ordinary close and of an abandonment. *)
CloseAs(s, state) ==
    LET w == session[s].wave
        left == wave[w].open - 1
        next == IF left # 0 THEN "collecting"
                ELSE IF wave[w].pred # 0 THEN "waiting_predecessor"
                ELSE "processing_pending"
    IN
    /\ next = "processing_pending" => wave[w].epoch \notin visionOut[w]
    /\ session' = [session EXCEPT ![s] = [Stopped(session[s]) EXCEPT !.state = state]]
    /\ item' = [item EXCEPT ![s] = [i \in Items |-> [item[s][i] EXCEPT !.fin = "no"]]]
    /\ wave' = [wave EXCEPT ![w] =
                   [wave[w] EXCEPT !.open = left, !.state = next,
                                   !.vision = IF next = "processing_pending"
                                              THEN wave[w].epoch ELSE @]]
    /\ visionOut' = [visionOut EXCEPT ![w] =
                        IF next = "processing_pending"
                        THEN @ \cup {wave[w].epoch} ELSE @]
    /\ evidence' = [evidence EXCEPT ![w][SessionKey(s)] = SessionEvidence(state)]
    /\ control' = Detached(w, left)
    /\ Commit
    /\ UNCHANGED <<enrolled, clusterOut, completion, published, disturb>>

(* The variant closes a session again that is closed already. *)
CompleteTwice(s) ==
    /\ session[s].state # "none"
    /\ session[s].registered = session[s].declared
    /\ session[s].resolved = session[s].declared
    /\ session[s].wave # 0

Complete(s) ==
    /\ session[s].state = "open"
    /\ session[s].registered = session[s].declared
    /\ session[s].resolved = session[s].declared

Close(s) ==
    /\ Complete(s)
    /\ CloseAs(s, "closed")

-----------------------------------------------------------------------------
(* Expiry, discard and abandonment: the live routes only. *)

SealExpired(s) ==
    /\ enrolled
    /\ session[s].state = "open"
    /\ session[s].lease = "lapsed"
    /\ ~ session[s].abandoning
    /\ session' = [session EXCEPT ![s].abandoning = TRUE, ![s].drain = "running"]
    /\ control' = IF control.collecting = session[s].wave
                  THEN [control EXCEPT !.collecting = 0] ELSE control
    /\ Commit
    /\ UNCHANGED <<enrolled, wave, item, evidence, visionOut, clusterOut,
                   completion, published, disturb>>

(* fence_discard compares the session row alone, never the control row. *)
FenceDiscard(s) ==
    /\ enrolled
    /\ s \in Leaving
    /\ \/ /\ session[s].state = "none"
          /\ session' = [session EXCEPT ![s].state = "absent"]
       \/ /\ session[s].state = "open"
          /\ ~ session[s].abandoning
          /\ session' = [session EXCEPT ![s].abandoning = TRUE,
                                        ![s].drain = "running"]
    /\ UNCHANGED <<enrolled, control, wave, item, evidence, evaluation, probe,
                   scan, visionOut, clusterOut, completion, published, disturb>>

(* No finalization admitted before the discard can still be writing one of these
   reservations, or it has had its grace; the variant waits for any finalization
   ever admitted. *)
NeverAdmitted(s, reserved) == \A i \in reserved : item[s][i].fin = "no"

Drained(s, reserved) ==
    session[s].drain = "over" \/ \A i \in reserved : item[s][i].fin # "live"

(* One page of abandon: cancel its reservations unless a finalization that was
   admitted earlier may still be writing.  Once scanned, a further page is empty. *)
AbandonPage(s) ==
    LET rest == {i \in Items : i > session[s].cursor /\ item[s][i].outcome # "none"}
    IN
    /\ enrolled
    /\ s \in Leaving
    /\ session[s].state = "open"
    /\ ~ session[s].scanned
    /\ \E page \in SUBSET rest :
        LET reserved == Reserved(s, page) IN
        /\ IsPage(page, rest, MaxPage)
        /\ Drained(s, reserved)
        /\ item' = [item EXCEPT ![s] =
                       [i \in Items |-> IF i \in reserved
                                        THEN [item[s][i] EXCEPT !.outcome = "cancelled"]
                                        ELSE item[s][i]]]
        /\ session' = [session EXCEPT ![s] =
                          [session[s] EXCEPT
                              !.abandoning = TRUE,
                              !.cursor = LastOf(page, @),
                              !.scanned = Cardinality(page) < MaxPage,
                              !.resolved = @ + Cardinality(reserved)]]
    /\ Commit
    /\ UNCHANGED <<enrolled, control, wave, evidence, visionOut, clusterOut,
                   completion, published, disturb>>

(* The close that ends abandon, in a transaction of its own. *)
CloseAbandoned(s) ==
    /\ enrolled
    /\ session[s].state = "open"
    /\ session[s].scanned
    /\ session[s].resolved = session[s].registered
    /\ CloseAs(s, "abandoned")

-----------------------------------------------------------------------------
(* The barrier. *)

(* Durable evidence that p has left Vision: its frozen manifest's cluster
   release or, on the no-work path, its completion; the variant knows only
   the former. *)
ClusterReleased(w) == clusterOut[wave[w].pred] = wave[wave[w].pred].frozen

VisionExited(w) ==
    \/ clusterOut[wave[w].pred] = wave[wave[w].pred].frozen
    \/ PredecessorCompletion(w)

PromoteSuccessor(w) ==
    LET p == wave[w].pred IN
    /\ wave[w].state = "waiting_predecessor"
    /\ p # 0
    /\ wave[p].state \in Frozen
    /\ wave[p].frozen # NoRevision
    /\ wave[w].predFrozen \in {NoRevision, wave[p].frozen}
    /\ VisionExited(w)
    /\ wave[w].epoch \notin visionOut[w]
    /\ wave' = [wave EXCEPT ![w] =
                   [wave[w] EXCEPT !.state = "processing_pending",
                                   !.predFrozen = wave[p].frozen,
                                   !.vision = wave[w].epoch]]
    /\ visionOut' = [visionOut EXCEPT ![w] = @ \cup {wave[w].epoch}]
    /\ Commit
    /\ UNCHANGED <<enrolled, control, session, item, evidence, clusterOut,
                   completion, published, disturb>>

(* What an observation leaves alone: a verified terminal settlement. *)
Observed(w, seen) ==
    [k \in Keys |->
        IF k \in DOMAIN seen /\ evidence[w][k].state \notin Terminal
        THEN [evidence[w][k] EXCEPT !.state = seen[k]]
        ELSE evidence[w][k]]

Retracts(w, seen) ==
    \E k \in DOMAIN seen : evidence[w][k].state = "settled" /\ seen[k] = "pending"

(* commit_observations: the live path. *)
CommitObservations(w, seen) ==
    /\ enrolled
    /\ wave[w].state \notin Frozen
    /\ evidence[w] # Observed(w, seen)
    /\ Retracts(w, seen) => disturb < MaxDisturb
    /\ evidence' = [evidence EXCEPT ![w] = Observed(w, seen)]
    /\ RestartScan(w)
    /\ disturb' = IF Retracts(w, seen) THEN disturb + 1 ELSE disturb
    /\ UNCHANGED <<enrolled, control, wave, session, item, probe, visionOut,
                   clusterOut, completion, published>>

(* observe: the shadow path, one member, through the control row.  Without a
   settlement proof a deletion seen here is one more "settled". *)
Observe(w, seen) ==
    /\ ~ enrolled
    /\ wave[w].state \notin Frozen
    /\ evidence[w] # Observed(w, seen)
    /\ Retracts(w, seen) => disturb < MaxDisturb
    /\ evidence' = [evidence EXCEPT ![w] = Observed(w, seen)]
    /\ disturb' = IF Retracts(w, seen) THEN disturb + 1 ELSE disturb
    /\ Commit
    /\ UNCHANGED <<enrolled, control, wave, session, item, visionOut,
                   clusterOut, completion, published>>

(* A confirmed deletion settles members of waves still in intake as well; the
   variant lets it into a frozen wave. *)
SettleAnywhere(w, outcome) == outcome = "deleted" \/ wave[w].state \in Barrier

Settleable(w, outcome) ==
    \/ wave[w].state \in Barrier
    \/ outcome = "deleted" /\ wave[w].state \in {"collecting", "waiting_predecessor"}

(* settle: failed_exhausted stands for every outcome that is not a deletion.  A
   worker that looked before the deletion may settle a deleted source again. *)
Settle(w, src, outcome) ==
    LET overwrites == evidence[w][MemberKey(src)].state = "deleted" IN
    /\ enrolled
    /\ evidence[w][MemberKey(src)].kind = "member"
    /\ evidence[w][MemberKey(src)].state # outcome
    /\ overwrites => disturb < MaxDisturb
    /\ Settleable(w, outcome)
    /\ evidence' = [evidence EXCEPT ![w][MemberKey(src)].state = outcome]
    /\ disturb' = IF overwrites THEN disturb + 1 ELSE disturb
    /\ Commit
    /\ UNCHANGED <<enrolled, control, wave, session, item, visionOut,
                   clusterOut, completion, published>>

(* evaluate, up to its commit: one manifest page read behind the saved scan. *)
EvaluateRead(w) ==
    LET rest == {k \in Present(w) : k > evaluation[w].after} IN
    /\ scan.wave = 0
    /\ wave[w].state \in Barrier
    /\ \E page \in SUBSET rest :
        /\ IsPage(page, rest, MaxPage)
        /\ scan' = [wave |-> w,
                    acc |-> [after |-> LastOf(page, evaluation[w].after),
                             rows |-> [k \in Keys |->
                                          IF k \in page THEN evidence[w][k]
                                          ELSE evaluation[w].rows[k]]],
                    finished |-> Cardinality(page) < MaxPage]
    /\ UNCHANGED <<enrolled, control, wave, session, item, evidence, evaluation,
                   probe, visionOut, clusterOut, completion, published,
                   disturb>>

(* The worker holding the page in memory is lost. *)
EvaluateCrash ==
    /\ scan.wave # 0
    /\ disturb < MaxDisturb
    /\ scan' = NoScan
    /\ disturb' = disturb + 1
    /\ UNCHANGED <<enrolled, control, wave, session, item, evidence, evaluation,
                   probe, visionOut, clusterOut, completion, published>>

RowsOfKind(rows, kind) == {k \in Keys : rows[k].kind = kind}

(* A final page whose rows disagree with the cached counts commits nothing. *)
CountsAgree(w, rows) ==
    /\ Cardinality(RowsOfKind(rows, "member")) = wave[w].members
    /\ Cardinality(RowsOfKind(rows, "session")) = wave[w].sessions

(* A session row that is not closed, or a member that is not settled. *)
Outstanding(rows) == {k \in Keys : rows[k].state \in {"open", "pending"}}

EvaluateSavePage ==
    /\ scan.wave # 0
    /\ ~ scan.finished
    /\ evaluation' = [evaluation EXCEPT ![scan.wave] = scan.acc]
    /\ CommitKeepingRevision
    /\ UNCHANGED <<enrolled, control, wave, session, item, evidence, probe,
                   visionOut, clusterOut, completion, published, disturb>>

EvaluateHold ==
    LET w == scan.wave IN
    /\ w # 0
    /\ scan.finished
    /\ CountsAgree(w, scan.acc.rows)
    /\ Outstanding(scan.acc.rows) # {}
    /\ wave' = [wave EXCEPT ![w].state = "processing"]
    /\ evaluation' = [evaluation EXCEPT ![w] = NoAccumulator]
    /\ CommitKeepingRevision
    /\ UNCHANGED <<enrolled, control, session, item, evidence, probe, visionOut,
                   clusterOut, completion, published, disturb>>

EvaluateFreeze ==
    LET w == scan.wave
        revision == [path |-> "vision", epoch |-> wave[w].epoch,
                     rows |-> scan.acc.rows]
    IN
    /\ w # 0
    /\ scan.finished
    /\ CountsAgree(w, scan.acc.rows)
    /\ Outstanding(scan.acc.rows) = {}
    /\ clusterOut[w] = NoRevision
    /\ wave' = [wave EXCEPT ![w] = [wave[w] EXCEPT !.state = "ready",
                                                    !.frozen = revision]]
    /\ clusterOut' = [clusterOut EXCEPT ![w] = revision]
    /\ control' = IF control.collecting = w
                  THEN [control EXCEPT !.collecting = 0] ELSE control
    /\ Commit
    /\ UNCHANGED <<enrolled, session, item, evidence, visionOut, completion,
                   published, disturb>>

-----------------------------------------------------------------------------
(* The no-work fast path: a wave that only repeats published photos. *)

PublishedByComplete(src) ==
    published[src] # 0 /\ wave[published[src]].state = "complete"

Probing(w, rest, page) ==
    /\ wave[w].state \in Barrier
    /\ ~ wave[w].noWorkImpossible
    /\ PredecessorPublished(w)
    /\ rest = {k \in Present(w) : k > probe[w].after}
    /\ page \subseteq rest
    /\ IsPage(page, rest, MaxPage)

(* A row the no-work path accepts: a session that ended, or a repetition of a
   photo whose publication is complete; the variant does not ask for one. *)
RepeatsAnything(w, k) == evidence[w][k].state # "open" /\ ~ evidence[w][k].needs

Repeats(w, k) ==
    IF evidence[w][k].kind = "session"
    THEN evidence[w][k].state \in {"closed", "abandoned"}
    ELSE ~ evidence[w][k].needs /\ PublishedByComplete(k)

(* The first row of the page that is no repetition ends the probe; only a
   member that needs its own projection rules the fast path out for good. *)
ProbeImpossible(w) ==
    LET rest == {k \in Present(w) : k > probe[w].after} IN
    \E page \in SUBSET rest :
        /\ Probing(w, rest, page)
        /\ \E k \in page :
            /\ evidence[w][k].needs
            /\ \A j \in page : j < k => Repeats(w, j)
        /\ wave' = [wave EXCEPT ![w].noWorkImpossible = TRUE]
        /\ probe' = [probe EXCEPT ![w] = NoProbe]
        /\ CommitKeepingRevision
        /\ UNCHANGED <<enrolled, control, session, item, evidence, evaluation,
                       visionOut, clusterOut, completion, published, disturb>>

ProbeSavePage(w) ==
    LET rest == {k \in Present(w) : k > probe[w].after} IN
    \E page \in SUBSET rest :
        /\ Probing(w, rest, page)
        /\ \A k \in page : Repeats(w, k)
        /\ Cardinality(page) = MaxPage
        /\ probe' = [probe EXCEPT ![w] =
                        [after |-> LastOf(page, @.after), seen |-> @.seen \cup page]]
        /\ CommitKeepingRevision
        /\ UNCHANGED <<enrolled, control, wave, session, item, evidence,
                       evaluation, visionOut, clusterOut, completion, published,
                       disturb>>

(* What the witness digest stands for: which rows were seen, not their outcome. *)
Witness(w, seen) ==
    [k \in Keys |-> IF k \in seen
                    THEN [evidence[w][k] EXCEPT
                             !.state = IF evidence[w][k].kind = "member"
                                       THEN "none" ELSE @]
                    ELSE Absent]

CompleteEmpty(w) ==
    LET rest == {k \in Present(w) : k > probe[w].after} IN
    \E page \in SUBSET rest :
        LET seen == probe[w].seen \cup page
            revision == [path |-> "no_work", epoch |-> 0, rows |-> Witness(w, seen)]
        IN
        /\ Probing(w, rest, page)
        /\ \A k \in page : Repeats(w, k)
        /\ Cardinality(page) < MaxPage
        /\ CountsAgree(w, revision.rows)
        /\ completion[w] = NoRevision
        /\ wave' = [wave EXCEPT ![w] = [wave[w] EXCEPT !.state = "complete",
                                                       !.frozen = revision]]
        /\ completion' = [completion EXCEPT ![w] = revision]
        /\ control' = IF control.collecting = w
                      THEN [control EXCEPT !.collecting = 0] ELSE control
        /\ Commit
        /\ UNCHANGED <<enrolled, session, item, evidence, visionOut, clusterOut,
                       published, disturb>>

-----------------------------------------------------------------------------
(* Assignment and publication of a frozen wave. *)

CommitAssignment(w) ==
    /\ wave[w].state = "ready"
    /\ PredecessorPublished(w)
    /\ wave' = [wave EXCEPT ![w].state = "indexing"]
    /\ Commit
    /\ UNCHANGED <<enrolled, control, session, item, evidence, visionOut,
                   clusterOut, completion, published, disturb>>

SettledMembers(w) == {src \in Sources : evidence[w][MemberKey(src)].state = "settled"}

(* record_publication_members: markers do not count before w is complete, so
   its pages are one step. *)
RecordPublicationMembers(w) ==
    /\ wave[w].state = "indexing"
    /\ \E src \in SettledMembers(w) : published[src] # w
    /\ published' = [src \in Sources |-> IF src \in SettledMembers(w) THEN w
                                         ELSE published[src]]
    /\ CommitKeepingRevision
    /\ UNCHANGED <<enrolled, control, wave, session, item, evidence, evaluation,
                   probe, visionOut, clusterOut, completion, disturb>>

(* The index stage commits completion only after it has marked every member. *)
CompleteIndexing(w) ==
    /\ wave[w].state = "indexing"
    /\ \A src \in SettledMembers(w) : published[src] = w
    /\ completion[w] = NoRevision
    /\ wave' = [wave EXCEPT ![w].state = "complete"]
    /\ completion' = [completion EXCEPT ![w] = wave[w].frozen]
    /\ Commit
    /\ UNCHANGED <<enrolled, control, session, item, evidence, visionOut,
                   clusterOut, published, disturb>>

-----------------------------------------------------------------------------
(* The passage of time.  A heartbeat (renew) keeps a live lease live. *)

LeaseLapses(s) ==
    /\ s \in Leaving
    /\ session[s].state = "open"
    /\ session[s].lease = "live"
    /\ session' = [session EXCEPT ![s].lease = "lapsed"]
    /\ UNCHANGED <<enrolled, control, wave, item, evidence, evaluation, probe,
                   scan, visionOut, clusterOut, completion, published, disturb>>

FinalizeLeaseLapses(s, i) ==
    /\ session[s].state = "open"
    /\ item[s][i].fin = "live"
    /\ item' = [item EXCEPT ![s][i].fin = "lapsed"]
    /\ UNCHANGED <<enrolled, control, wave, session, evidence, evaluation,
                   probe, scan, visionOut, clusterOut, completion, published,
                   disturb>>

(* FINALIZE_DISCARD_GRACE_SECONDS have passed since discardRequestedAt. *)
DrainEnds(s) ==
    /\ session[s].state = "open"
    /\ session[s].drain = "running"
    /\ session' = [session EXCEPT ![s].drain = "over"]
    /\ UNCHANGED <<enrolled, control, wave, item, evidence, evaluation, probe,
                   scan, visionOut, clusterOut, completion, published, disturb>>

-----------------------------------------------------------------------------
Pages == {page \in SUBSET Items : page # {}}

Observations(w) ==
    UNION {[keys -> {"pending", "settled"}] :
              keys \in SUBSET {MemberKey(src) : src \in {x \in Sources :
                                   evidence[w][MemberKey(x)].kind = "member"}}}

Intake(s) ==
    \/ \E declared \in Declarations : OpenSession(s, declared)
    \/ \E page \in Pages : Register(s, page)
    \/ \E i \in Items : AdmitFinalize(s, i)
    \/ \E page \in Pages : \E binding \in [page -> Bindings] :
           ResolveMany(s, binding)
    \/ Close(s)

Cancellation(s) ==
    \/ SealExpired(s)
    \/ FenceDiscard(s)
    \/ AbandonPage(s)
    \/ CloseAbandoned(s)

BarrierStep(w) ==
    \/ PromoteSuccessor(w)
    \/ \E seen \in Observations(w) : CommitObservations(w, seen) \/ Observe(w, seen)
    \/ \E src \in Sources, outcome \in Terminal : Settle(w, src, outcome)
    \/ EvaluateRead(w)

Evaluation == EvaluateSavePage \/ EvaluateHold \/ EvaluateFreeze

Publication(w) ==
    \/ ProbeImpossible(w)
    \/ ProbeSavePage(w)
    \/ CompleteEmpty(w)
    \/ CommitAssignment(w)
    \/ RecordPublicationMembers(w)
    \/ CompleteIndexing(w)

Time(s) ==
    \/ LeaseLapses(s)
    \/ \E i \in Items : FinalizeLeaseLapses(s, i)
    \/ DrainEnds(s)

Next ==
    \/ Enroll
    \/ \E s \in Sessions : Intake(s) \/ Cancellation(s) \/ Time(s)
    \/ \E w \in Waves : BarrierStep(w) \/ Publication(w)
    \/ Evaluation
    \/ EvaluateCrash

Spec == Init /\ [][Next]_vars

(* What keeps a wave moving: a browser that stays finishes what it selected, a
   silent one is found by the user traffic that reconciles sessions, and the
   recovery sweeps re-drive every stage. *)
SettlePending(w, src) ==
    /\ evidence[w][MemberKey(src)].state = "pending"
    /\ Settle(w, src, "failed_exhausted")

Fairness ==
    /\ \A s \in Sessions :
        /\ WF_vars(LeaseLapses(s))
        /\ WF_vars(DrainEnds(s))
        /\ WF_vars(SealExpired(s))
        /\ WF_vars(session[s].abandoning /\ AbandonPage(s))
        /\ WF_vars(CloseAbandoned(s))
    /\ \A s \in Sessions \ Leaving :
        /\ WF_vars(\E page \in Pages : Register(s, page))
        /\ WF_vars(\E page \in Pages : \E binding \in [page -> Bindings] :
                      ResolveMany(s, binding))
        /\ WF_vars(Close(s))
    /\ \A w \in Waves :
        /\ WF_vars(PromoteSuccessor(w))
        /\ \A src \in Sources : WF_vars(SettlePending(w, src))
        /\ WF_vars(EvaluateRead(w))
        /\ WF_vars(CommitAssignment(w))
        /\ WF_vars(RecordPublicationMembers(w))
        /\ WF_vars(CompleteIndexing(w))
    /\ WF_vars(Evaluation)

FairSpec == Spec /\ Fairness

-----------------------------------------------------------------------------
(* Every row has the fields and the values the code writes into it. *)
TypeOK ==
    /\ enrolled \in BOOLEAN
    /\ control \in [collecting: Waves \cup {0}, tail: Waves \cup {0}]
    /\ wave \in [Waves -> WaveRow]
    /\ session \in [Sessions -> SessionRow]
    /\ item \in [Sessions -> [Items -> ItemRow]]
    /\ evidence \in [Waves -> Manifest]
    /\ evaluation \in [Waves -> Accumulator]
    /\ probe \in [Waves -> Probe]
    /\ scan \in Scan
    /\ visionOut \in [Waves -> SUBSET Nat]
    /\ clusterOut \in [Waves -> Revision]
    /\ completion \in [Waves -> Revision]
    /\ published \in [Sources -> Waves \cup {0}]
    /\ disturb \in 0..MaxDisturb

(* The counters that decide closing and freezing are the number of rows they
   count: registeredCount and resolvedCount of a session, openSessions,
   sessionCount and memberCount of a wave.  evaluate refuses a manifest whose
   rows and counts disagree, so a drift would wedge the wave for good. *)
CountsMatchRows ==
    /\ \A s \in Sessions :
        /\ session[s].registered
              = Cardinality({i \in Items : item[s][i].outcome # "none"})
        /\ session[s].resolved
              = Cardinality({i \in Items : item[s][i].outcome \in Outcomes})
        /\ session[s].registered <= session[s].declared
    /\ \A w \in Waves :
        /\ wave[w].open = Cardinality({s \in Sessions : session[s].wave = w
                                                   /\ session[s].state = "open"})
        /\ wave[w].sessions = Cardinality({s \in Sessions : session[s].wave = w})
        /\ wave[w].members = Cardinality(RowsOfKind(evidence[w], "member"))

(* A paged scan never mixes two versions of the evidence: however intake,
   settlements and observations land between its pages, what a saved or running
   scan has accumulated is the evidence up to its last key as it stands now, and
   a finished scan holds all of it. *)
Prefix(acc, rows) ==
    \A k \in Keys : acc.rows[k] = IF k <= acc.after THEN rows[k] ELSE Absent

ScansExact ==
    /\ \A w \in Waves : Prefix(evaluation[w], evidence[w])
    /\ scan.wave # 0 =>
        /\ Prefix(scan.acc, evidence[scan.wave])
        /\ scan.finished => scan.acc.rows = evidence[scan.wave]

(* A frozen manifest is the whole truth: what the paged scan digested is the
   evidence as it stands, nothing in it is unsettled, and no session of the
   wave is still open, however intake, settlement and scan pages interleave. *)
FrozenManifestExact ==
    \A w \in Waves : wave[w].frozen.path = "vision" =>
        /\ wave[w].frozen.rows = evidence[w]
        /\ Outstanding(evidence[w]) = {}
        /\ clusterOut[w] = wave[w].frozen
        /\ \A s \in Sessions : session[s].wave = w => session[s].state # "open"

(* No accepted photo is lost: a resolved item's revision is a member of its
   session's wave, one that needs projection if the item was accepted, and
   every member was brought by such an item. *)
AdmittedAreMembers ==
    /\ \A s \in Sessions, i \in Items : item[s][i].outcome \in Admitting =>
        LET row == evidence[session[s].wave][MemberKey(item[s][i].src)] IN
        row.kind = "member" /\ (item[s][i].outcome = "accepted" => row.needs)
    /\ \A w \in Waves, src \in Sources : evidence[w][MemberKey(src)].kind = "member" =>
        \E s \in Sessions, i \in Items :
            /\ session[s].wave = w
            /\ item[s][i].outcome \in Admitting
            /\ item[s][i].src = src

(* Waves form one line: no predecessor is shared, the tail has no successor,
   and only the tail collects, so two selections never fork the library; the
   predecessor revision a wave is bound to is the one its predecessor has. *)
LinearChain ==
    /\ \A v, w \in Waves : v # w /\ wave[v].state # "none" /\ wave[w].state # "none"
                            => wave[v].pred # wave[w].pred
    /\ control.tail # 0 => \A w \in Waves : wave[w].pred # control.tail
    /\ control.collecting \in {0, control.tail}
    /\ \A w \in Waves : wave[w].pred # 0 => wave[w].predFrozen \in {NoRevision, wave[wave[w].pred].frozen}

(* A wave behind the barrier has exactly its current epoch's release pending,
   and the outbox row of a release still to come does not exist yet, so the
   create in close or promote_successor cannot collide. *)
VisionReleaseCurrent ==
    \A w \in Waves :
        /\ wave[w].state \in Barrier =>
              wave[w].vision = wave[w].epoch /\ wave[w].epoch \in visionOut[w]
        /\ wave[w].state \in {"collecting", "waiting_predecessor"} =>
              wave[w].epoch \notin visionOut[w]

(* A wave completed without work only repeats photos that a complete wave, one
   that did go through Vision, published; a complete wave's receipt names its
   frozen revision.  (The published-source! marker alone would not do: a later
   wave that contains the photo again takes it over before it completes.) *)
Justified(src) ==
    \E v \in Waves : wave[v].state = "complete" /\ wave[v].frozen.path = "vision"
                        /\ src \in SettledMembers(v)
CompletionJustified ==
    \A w \in Waves :
        /\ (wave[w].state = "complete") = (completion[w] # NoRevision)
        /\ completion[w] \in {NoRevision, wave[w].frozen}
        /\ wave[w].frozen.path = "no_work" =>
            \A src \in Sources : evidence[w][MemberKey(src)].kind = "member" =>
                ~ evidence[w][MemberKey(src)].needs /\ Justified(src)

(* wave_no_work.py:29 says "markers are immutable and idempotent": the first wave
   that publishes a photo keeps its marker. *)
MarkersImmutable ==
    [][\A src \in Sources : published[src] # 0 => published'[src] = published[src]]_vars

(* A frozen wave never changes again: neither its revision nor the evidence
   under it, and it never returns to intake or to the barrier. *)
FrozenIsFinal ==
    [][\A w \in Waves : wave[w].state \in Frozen =>
          /\ wave'[w].state \in Frozen
          /\ wave'[w].frozen = wave[w].frozen
          /\ evidence'[w] = evidence[w]]_vars

(* What was stopped stays stopped: an abandoning or finished session admits no
   further item, is never active again, and a resolved item is never rebound;
   a discard that outran its own open leaves a tombstone no open can revive. *)
StoppedStaysStopped ==
    [][\A s \in Sessions :
        /\ session[s].abandoning =>
              session'[s].abandoning /\ session'[s].registered = session[s].registered
        /\ session[s].state \in {"closed", "abandoned", "absent"} =>
              session'[s].state = session[s].state /\ session'[s].wave = session[s].wave
        /\ \A i \in Items : item[s][i].outcome \in Outcomes =>
              /\ item'[s][i].outcome = item[s][i].outcome
              /\ item'[s][i].src = item[s][i].src]_vars

(* An abandoning session ends: no reservation, admitted finalization or page
   boundary keeps its abandonment from finishing. *)
AbandonedSessionsEnd ==
    \A s \in Sessions : session[s].abandoning ~> session[s].state # "open"

(* Every wave that took a session completes, whether its browsers stay or go:
   no expiry, abandonment, barrier scan or predecessor wait is left without a
   step that ends it. *)
WavesComplete ==
    \A w \in Waves :
        enrolled /\ wave[w].state = "collecting" ~> wave[w].state = "complete"
=============================================================================
