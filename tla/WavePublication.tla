---------------------------- MODULE WavePublication ----------------------------
(***************************************************************************)
(* How a frozen wave becomes complete: the cluster stage captures which     *)
(* indexes must be published and binds that set to the wave; the index      *)
(* stage prepares the members, publishes every index, writes a receipt for  *)
(* each, marks the members and completes the wave.  Deliveries of a stage   *)
(* compete for its execution lease, crash and are repeated.                 *)
(*                                                                         *)
(* Abstractions.  One wave; the assignment pass that precedes the capture   *)
(* is left out, its receipt does not change.  An obligation is its scope.   *)
(* A published index is a version of its serving alias, with the pages of   *)
(* members whose metadata it was built from and the versions it read of the *)
(* indexes it depends on.  A step ends with the check() that precedes the   *)
(* next one, so a worker that loses its lease then takes one step more; a   *)
(* transaction carries the ETag that check() read, so that it fails only if *)
(* the lease row was claimed by another.  A renewal postpones the expiry.   *)
(* The rows of the ledger never move back, so that reading them one by one  *)
(* and reading them at once give the same answer when it is "complete".     *)
(***************************************************************************)
EXTENDS Naturals, FiniteSets

CONSTANTS Workers, Nobody,
          Scopes,          \* ACCEPTED_SCOPES
          Prerequisites,   \* PREREQUISITES, for every scope
          Optional,        \* scopes a deployment may or may not require
          NPages,          \* pages of members
          MaxDisturb       \* bound on crashes, stalls, foreign builds, deployments

NoScope == "none"

ASSUME PublicationAssumption ==
    /\ Nobody \notin Workers /\ IsFiniteSet(Scopes) /\ Optional \subseteq Scopes
    /\ NoScope \notin Scopes
    /\ NPages \in Nat \ {0} /\ MaxDisturb \in Nat
    /\ Prerequisites \in [Scopes -> SUBSET (Scopes \ Optional)]
    /\ \E rank \in [Scopes -> 1..Cardinality(Scopes)] :
           \A s \in Scopes : \A p \in Prerequisites[s] : rank[p] < rank[s]

VARIABLES
    wave,      \* state of the wave and the required set bound to it
    manifest,  \* the captured required set
    receipt,   \* each obligation's row
    proof,     \* each obligation's recorded publication, an immutable copy
    alias,     \* the serving index of each scope
    prepared,  \* pages of members whose metadata is projected
    marked,    \* pages of members whose publication is recorded
    lease,     \* the execution lease row of each stage
    catalog,   \* holder of the library's catalog lease
    offered,   \* SCOPES of the code that runs
    job,       \* what each worker is doing
    disturb

vars == <<wave, manifest, receipt, proof, alias, prepared, marked, lease, catalog,
          offered, job, disturb>>
ledgerVars == <<manifest, receipt, proof>>
indexVars == <<alias, prepared, marked>>

Stages == {"cluster", "index"}
Pages == 1..NPages
None == {NoScope}               \* no set captured: not a set of scopes
Sets == {Scopes, Scopes \ Optional}
NoIndex == [version |-> 0, pages |-> {}, read |-> [s \in Scopes |-> 0]]
Indexes == [version: Nat, pages: SUBSET Pages, read: [Scopes -> Nat]]
Absent == 0                     \* receipt rows: absent, pending, or the version
Pending == 1                    \* they name; versions start at 2
LeaseRows == [owner: Workers \cup {Nobody}, live: BOOLEAN, done: BOOLEAN,
              phase: {"prepare", "publish", "members"}, after: 0..NPages]
Steps == {"idle", "capture", "rows", "commit", "verify", "prepare", "prepared", "publish",
          "pinned", "uploaded", "copied", "returned", "received", "members", "mark",
          "marked", "complete", "finish", "leaving"}
Idle == [pc |-> "idle", stage |-> "cluster", after |-> 0, todo |-> {}, scope |-> NoScope, copy |-> NoIndex]
Jobs == [pc: Steps, stage: Stages, after: 0..NPages, todo: SUBSET Scopes,
         scope: Scopes \cup {NoScope}, copy: Indexes]

TypeOK ==
    /\ wave \in [state: {"ready", "indexing", "complete"}, bound: Sets \cup {None}]
    /\ manifest \in Sets \cup {None} /\ receipt \in [Scopes -> Nat]
    /\ proof \in [Scopes -> Indexes] /\ alias \in [Scopes -> Indexes]
    /\ prepared \subseteq Pages /\ marked \subseteq Pages
    /\ lease \in [Stages -> LeaseRows] /\ catalog \in Workers \cup {Nobody}
    /\ offered \in Sets /\ job \in [Workers -> Jobs] /\ disturb \in 0..MaxDisturb

Init ==
    /\ wave = [state |-> "ready", bound |-> None] /\ manifest = None
    /\ receipt = [s \in Scopes |-> Absent] /\ proof = [s \in Scopes |-> NoIndex]
    /\ alias = [s \in Scopes |-> [NoIndex EXCEPT !.version = 1]]
    /\ prepared = {} /\ marked = {}
    /\ lease = [t \in Stages |-> [owner |-> Nobody, live |-> FALSE, done |-> FALSE,
                                  phase |-> "prepare", after |-> 0]]
    /\ catalog = Nobody /\ offered \in Sets
    /\ job = [w \in Workers |-> Idle] /\ disturb = 0

-----------------------------------------------------------------------------
Stage(w) == job[w].stage
Named(w) == lease[Stage(w)].owner = w
Eligible(t) == wave.state = IF t = "cluster" THEN "ready" ELSE "indexing"

(* _execution_check: the release is current and its lease is this worker's.   *)
Checked(w) == Named(w) /\ lease[Stage(w)].live /\ Eligible(Stage(w))

(* Goes on after a check that may fail; Goto is a step with no check.         *)
Goto(w, step) == job' = [job EXCEPT ![w].pc = step]
Proceed(w, update) ==
    job' = [job EXCEPT ![w] = IF Checked(w) THEN update ELSE [@ EXCEPT !.pc = "leaving"]]
At(w, step) == [job[w] EXCEPT !.pc = step]

(* checkpoint: needs the lease alive, and says where the next delivery starts. *)
Alive(w) == Named(w) /\ lease[Stage(w)].live
Save(w, phase, after, update) ==
    IF Alive(w)
    THEN /\ lease' = [lease EXCEPT !["index"].phase = phase, !["index"].after = after]
         /\ Proceed(w, update)
    ELSE UNCHANGED lease /\ Goto(w, "leaving")
Disturbed == disturb < MaxDisturb /\ disturb' = disturb + 1

Valid(s) == receipt[s] > Pending
Unsatisfied == {s \in wave.bound : ~Valid(s)}
NoPrerequisites(s) == TRUE
Ready(s) == \A p \in Prerequisites[s] : Valid(p)
LedgerComplete == manifest # None /\ Unsatisfied = {}

-----------------------------------------------------------------------------
(* A delivery of the stage finds its release current and no live owner.  The  *)
(* index stage runs inside the library's catalog lease.                       *)
Claim(w, t) ==
    /\ job[w].pc = "idle" /\ Eligible(t) /\ ~lease[t].live /\ ~lease[t].done
    /\ IF t = "index" THEN catalog = Nobody /\ catalog' = w ELSE UNCHANGED catalog
    /\ lease' = [lease EXCEPT ![t].owner = w, ![t].live = TRUE]
    /\ job' = [job EXCEPT ![w] = [Idle EXCEPT !.stage = t,
                                      !.pc = IF t = "cluster" THEN "capture" ELSE "verify"]]
    /\ UNCHANGED <<wave, ledgerVars, indexVars, offered, disturb>>

(* record_required: the whole set is captured once, before any row of it.     *)
CapturedAgain == offered
Captured == IF manifest = None THEN offered ELSE manifest
NeverCaptured == manifest = None
SameCapture == Captured = offered
Capture(w) ==
    /\ job[w].pc = "capture"
    /\ manifest' = Captured
    /\ IF SameCapture THEN Goto(w, "rows") ELSE Goto(w, "leaving")
    /\ UNCHANGED <<wave, receipt, proof, indexVars, lease, catalog, offered, disturb>>

Missing == {s \in manifest : receipt[s] = Absent}
CreateRow(w) ==
    /\ job[w].pc = "rows"
    /\ IF Missing = {} THEN Goto(w, "commit") /\ UNCHANGED receipt
       ELSE /\ \E s \in Missing : receipt' = [receipt EXCEPT ![s] = Pending]
            /\ UNCHANGED job
    /\ UNCHANGED <<wave, manifest, proof, indexVars, lease, catalog, offered, disturb>>

(* commit_assignment: the set is bound and the index stage released together. *)
CommitAssignment(w) ==
    /\ job[w].pc = "commit"
    /\ IF Named(w) /\ wave.state = "ready"
       THEN wave' = [state |-> "indexing", bound |-> manifest] /\ Goto(w, "finish")
       ELSE UNCHANGED wave /\ Goto(w, "leaving")
    /\ UNCHANGED <<ledgerVars, indexVars, lease, catalog, offered, disturb>>

-----------------------------------------------------------------------------
(* run_index_release.  What earlier deliveries recorded is verified first; a  *)
(* delivery resumes at the saved phase, and skips preparation and publishing  *)
(* when every receipt is there.                                               *)
Resumed ==
    IF LedgerComplete THEN IF lease["index"].phase = "members" THEN "mark" ELSE "members"
    ELSE IF lease["index"].phase = "prepare" THEN "prepare" ELSE "publish"
Verify(w) ==
    /\ job[w].pc = "verify"
    /\ IF manifest = wave.bound /\ \A s \in manifest : Valid(s) => receipt[s] = proof[s].version
       THEN Proceed(w, [At(w, Resumed) EXCEPT !.after = lease["index"].after, !.todo = Unsatisfied])
       ELSE Goto(w, "leaving")
    /\ UNCHANGED <<wave, ledgerVars, indexVars, lease, catalog, offered, disturb>>

(* A page shorter than MAX_PAGE is the last one.                              *)
FullPagesOnly(w) == FALSE
LastPage(w) == job[w].after = NPages
CursorAhead(w) == job[w].after + 1
Cursor(w) == job[w].after

(* prepare_page: the metadata of a page of members, then its cursor.          *)
PreparePage(w) ==
    /\ job[w].pc = "prepare"
    /\ prepared' = prepared \cup {job[w].after + 1}
    /\ Proceed(w, [At(w, "prepared") EXCEPT !.after = @ + 1])
    /\ UNCHANGED <<wave, ledgerVars, alias, marked, lease, catalog, offered, disturb>>

SavePrepared(w) ==
    /\ job[w].pc = "prepared"
    /\ IF LastPage(w)
       THEN Save(w, "publish", 0, [At(w, "publish") EXCEPT !.todo = Unsatisfied])
       ELSE \E step \in {"prepare", "leaving"} : Save(w, "prepare", Cursor(w), At(w, step))
    /\ UNCHANGED <<wave, ledgerVars, indexVars, catalog, offered, disturb>>

(* The next obligation.  A publication that is recorded already is verified   *)
(* and returned; otherwise the serving alias is pinned.                       *)
Recorded(s) == proof[s] # NoIndex
Pick(w, s) ==
    /\ job[w].pc = "publish" /\ s \in job[w].todo /\ Ready(s)
    /\ IF Recorded(s)
       THEN Proceed(w, [At(w, "returned") EXCEPT !.scope = s, !.copy = proof[s]])
       ELSE IF catalog = w
       THEN Proceed(w, [At(w, "pinned") EXCEPT !.scope = s, !.copy = alias[s]])
       ELSE Goto(w, "leaving")
    /\ UNCHANGED <<wave, ledgerVars, indexVars, lease, catalog, offered, disturb>>

Stuck(w) ==
    /\ job[w].pc = "publish" /\ job[w].todo # {} /\ \A s \in job[w].todo : ~Ready(s)
    /\ Goto(w, "leaving")
    /\ UNCHANGED <<wave, ledgerVars, indexVars, lease, catalog, offered, disturb>>

(* A build reads the metadata and the serving indexes it depends on.          *)
Built(s) == [version |-> alias[s].version + 1, pages |-> prepared,
             read |-> [p \in Scopes |-> IF p \in Prerequisites[s] THEN alias[p].version ELSE 0]]

(* The build, uploaded over the version that was pinned and no other.         *)
Upload(w) ==
    LET s == job[w].scope IN
    /\ job[w].pc = "pinned"
    /\ IF alias[s] = job[w].copy
       THEN /\ alias' = [alias EXCEPT ![s] = Built(s)]
            /\ Proceed(w, [At(w, "uploaded") EXCEPT !.copy = Built(s)])
       ELSE UNCHANGED alias /\ Goto(w, "leaving")
    /\ UNCHANGED <<wave, ledgerVars, prepared, marked, lease, catalog, offered, disturb>>

(* _copy: the alias must still be what was uploaded.                          *)
Copy(w) ==
    /\ job[w].pc = "uploaded"
    /\ IF alias[job[w].scope] = job[w].copy THEN Proceed(w, At(w, "copied")) ELSE Goto(w, "leaving")
    /\ UNCHANGED <<wave, ledgerVars, indexVars, lease, catalog, offered, disturb>>

(* commit: the proof is created once, in a transaction of the stage's owner.  *)
MayAlwaysBind(w) == TRUE
MayBind(w) == Named(w) /\ ~Recorded(job[w].scope)
Bind(w) ==
    LET s == job[w].scope IN
    /\ job[w].pc = "copied"
    /\ IF MayBind(w)
       THEN /\ proof' = [proof EXCEPT ![s] = job[w].copy]
            /\ Proceed(w, At(w, "returned"))
       ELSE UNCHANGED proof /\ Goto(w, "leaving")
    /\ UNCHANGED <<wave, manifest, receipt, indexVars, lease, catalog, offered, disturb>>

(* record_receipt: not a transaction of the owner; a satisfied row stays.     *)
RecordReceipt(w) ==
    LET s == job[w].scope IN
    /\ job[w].pc = "returned"
    /\ IF Ready(s) /\ receipt[s] \in {Pending, job[w].copy.version}
       THEN /\ receipt' = [receipt EXCEPT ![s] = job[w].copy.version]
            /\ job' = [job EXCEPT ![w] = [At(w, "received") EXCEPT !.todo = @ \ {s}, !.scope = NoScope, !.copy = NoIndex]]
       ELSE UNCHANGED receipt /\ Goto(w, "leaving")
    /\ UNCHANGED <<wave, manifest, proof, indexVars, lease, catalog, offered, disturb>>

(* The scope is checkpointed; the delivery may yield when more remain.        *)
SavePublished(w) ==
    /\ job[w].pc = "received"
    /\ \E step \in IF job[w].todo = {} THEN {"members"} ELSE {"publish", "leaving"} :
           Save(w, "publish", 0, At(w, step))
    /\ UNCHANGED <<wave, ledgerVars, indexVars, catalog, offered, disturb>>

(* record_publication_members: the cursor is saved after its page commits.    *)
StartMembers(w) ==
    /\ job[w].pc = "members"
    /\ IF LedgerComplete
       THEN Save(w, "members", 0, [At(w, "mark") EXCEPT !.after = 0])
       ELSE UNCHANGED lease /\ Goto(w, "leaving")
    /\ UNCHANGED <<wave, ledgerVars, indexVars, catalog, offered, disturb>>

MarkPage(w) ==
    /\ job[w].pc = "mark"
    /\ IF LastPage(w) THEN Proceed(w, At(w, "complete")) /\ UNCHANGED marked
       ELSE IF Named(w)
       THEN /\ marked' = marked \cup {job[w].after + 1}
            /\ job' = [job EXCEPT ![w] = [At(w, "marked") EXCEPT !.after = @ + 1]]
       ELSE UNCHANGED marked /\ Goto(w, "leaving")
    /\ UNCHANGED <<wave, ledgerVars, alias, prepared, lease, catalog, offered, disturb>>

SaveMarked(w) ==
    /\ job[w].pc = "marked"
    /\ \E step \in {"mark", "leaving"} : Save(w, "members", Cursor(w), At(w, step))
    /\ UNCHANGED <<wave, ledgerVars, indexVars, catalog, offered, disturb>>

(* complete_indexing: every receipt is read again, and the set compared.      *)
CompleteIndexing(w) ==
    /\ job[w].pc = "complete"
    /\ IF Named(w) /\ LedgerComplete /\ wave.state = "indexing" /\ manifest = wave.bound
       THEN wave' = [wave EXCEPT !.state = "complete"] /\ Goto(w, "finish")
       ELSE UNCHANGED wave /\ Goto(w, "leaving")
    /\ UNCHANGED <<ledgerVars, indexVars, lease, catalog, offered, disturb>>

(* leases.complete, after the wave moved on; it does not ask for the release. *)
Finish(w) ==
    /\ job[w].pc = "finish"
    /\ IF Alive(w)
       THEN lease' = [lease EXCEPT ![Stage(w)].owner = Nobody, ![Stage(w)].live = FALSE, ![Stage(w)].done = TRUE]
       ELSE UNCHANGED lease
    /\ Goto(w, "leaving")
    /\ UNCHANGED <<wave, ledgerVars, indexVars, catalog, offered, disturb>>

(* finally: only this attempt's lease is released, and the catalog lease.     *)
Free(w) == catalog' = IF catalog = w THEN Nobody ELSE catalog
Leave(w) ==
    /\ job[w].pc = "leaving"
    /\ IF Named(w)
       THEN lease' = [lease EXCEPT ![Stage(w)].owner = Nobody, ![Stage(w)].live = FALSE]
       ELSE UNCHANGED lease
    /\ Free(w)
    /\ job' = [job EXCEPT ![w] = Idle]
    /\ UNCHANGED <<wave, ledgerVars, indexVars, offered, disturb>>

-----------------------------------------------------------------------------
(* A worker dies; its leases stay until they lapse.                           *)
Crash(w) ==
    /\ job[w].pc # "idle" /\ Disturbed
    /\ job' = [job EXCEPT ![w] = Idle]
    /\ UNCHANGED <<wave, ledgerVars, indexVars, lease, catalog, offered>>

(* A lease lapses: under a worker that stalls, or after one that died.        *)
Working(w, t) == w # Nobody /\ job[w].pc # "idle" /\ Stage(w) = t
LeaseLapses(t) ==
    /\ lease[t].live /\ lease' = [lease EXCEPT ![t].live = FALSE]
    /\ IF Working(lease[t].owner, t) THEN Disturbed ELSE UNCHANGED disturb
    /\ UNCHANGED <<wave, ledgerVars, indexVars, catalog, offered, job>>

CatalogLapses ==
    /\ catalog # Nobody /\ catalog' = Nobody
    /\ IF Working(catalog, "index") THEN Disturbed ELSE UNCHANGED disturb
    /\ UNCHANGED <<wave, ledgerVars, indexVars, lease, offered, job>>

(* Another builder of the library publishes over a serving alias.             *)
Overwrite(s) ==
    /\ catalog = Nobody /\ Disturbed
    /\ alias' = [alias EXCEPT ![s] = Built(s)]
    /\ UNCHANGED <<wave, ledgerVars, prepared, marked, lease, catalog, offered, job>>

(* A deployment changes which scopes new waves require.                       *)
Deploy(set) ==
    /\ set # offered /\ Disturbed /\ offered' = set
    /\ UNCHANGED <<wave, ledgerVars, indexVars, lease, catalog, job>>

-----------------------------------------------------------------------------
Step(w) ==
    \/ (\E t \in Stages : Claim(w, t))
    \/ Capture(w) \/ CreateRow(w) \/ CommitAssignment(w)
    \/ Verify(w) \/ PreparePage(w) \/ SavePrepared(w)
    \/ (\E s \in Scopes : Pick(w, s)) \/ Upload(w) \/ Copy(w) \/ Bind(w)
    \/ RecordReceipt(w) \/ SavePublished(w)
    \/ StartMembers(w) \/ MarkPage(w) \/ SaveMarked(w) \/ CompleteIndexing(w)
    \/ Finish(w) \/ Leave(w)

Next ==
    \/ \E w \in Workers : Step(w) \/ Crash(w)
    \/ \E t \in Stages : LeaseLapses(t)
    \/ CatalogLapses
    \/ \E s \in Scopes : Overwrite(s)
    \/ \E set \in Sets : Deploy(set)

Spec == Init /\ [][Next]_vars

(* The queue repeats a delivery that is not acknowledged, a worker that does  *)
(* not crash goes on, and the lease of one that did expires.                  *)
FairSpec ==
    /\ Spec
    /\ \A w \in Workers : WF_vars(Step(w))
    /\ \A t \in Stages : WF_vars(LeaseLapses(t) /\ ~Working(lease[t].owner, t))
    /\ WF_vars(CatalogLapses /\ ~Working(catalog, "index"))

-----------------------------------------------------------------------------
(* A wave is complete only when every index of the set that was captured for  *)
(* it has a published generation that was built from the metadata of all its  *)
(* members, and all its members are marked: crashes lose no page and no       *)
(* scope.                                                                     *)
CompletionCovers ==
    wave.state = "complete" =>
        /\ wave.bound = manifest /\ marked = Pages
        /\ \A s \in manifest : Valid(s) /\ proof[s].pages = Pages

(* A receipt names the one immutable generation recorded for its obligation,  *)
(* whoever wrote it: "conflicting receipt" cannot happen.                     *)
ReceiptsMatchProofs ==
    \A s \in Scopes : Valid(s) => receipt[s] = proof[s].version

(* A recorded generation was built from generations of its prerequisites no   *)
(* older than the ones their receipts name.                                   *)
BuiltInOrder ==
    \A s \in Scopes : Recorded(s) =>
        \A p \in Prerequisites[s] : Valid(p) /\ proof[s].read[p] >= proof[p].version

(* The captured set, the bound set, the receipts and the proofs are written   *)
(* once.                                                                      *)
WrittenOnce ==
    [][/\ manifest # None => manifest' = manifest
       /\ wave.bound # None => wave'.bound = wave.bound
       /\ \A s \in Scopes : Valid(s) => receipt'[s] = receipt[s]
       /\ \A s \in Scopes : Recorded(s) => proof'[s] = proof[s]]_vars

(* A wave becomes complete, unless a deployment changed the required scopes   *)
(* after they were captured and before they were bound.                       *)
Stranded == wave.state = "ready" /\ manifest \notin {None, offered}
WaveCompletes == <>(wave.state = "complete" \/ Stranded)
=============================================================================
