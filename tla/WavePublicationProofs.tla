------------------------- MODULE WavePublicationProofs -------------------------
(***************************************************************************)
(* What WavePublication promises, proved for every set of workers and       *)
(* scopes, every number of pages and every number of disturbances.          *)
(*                                                                         *)
(* The argument.  Nothing in the ledger is taken back: the captured set,    *)
(* the bound set, a satisfied receipt and a recorded proof are written      *)
(* once, metadata and marks are only added, versions only grow (Kept).  So  *)
(* what a worker found out at one step is still true when it acts on it     *)
(* many steps later, whoever else ran in between and whether or not it      *)
(* still holds its lease; PublicationInv says what each step has found out. *)
(* The saved phase and cursor of the index stage carry the same facts from  *)
(* a delivery that crashed to the one that resumes.                         *)
(***************************************************************************)
EXTENDS WavePublication, WellFoundedInduction, TLAPS

(* The steps of the index stage between its claim and its end.                *)
IndexSteps == {"verify", "prepare", "prepared", "publish", "pinned", "uploaded", "copied",
               "returned", "received", "members", "mark", "marked", "complete"}
PublishSteps == {"publish", "pinned", "uploaded", "copied", "returned", "received"}
ScopeSteps == {"pinned", "uploaded", "copied", "returned"}

LedgerDone == wave.state # "ready" /\ LedgerComplete

(* The wave is bound to the captured set from the moment indexing starts.     *)
BoundInv ==
    IF wave.state = "ready" THEN wave.bound = None
    ELSE manifest # None /\ wave.bound = manifest

(* A recorded publication has all members, and its alias is no older; none    *)
(* has a version that could be read as an absent or a pending receipt.        *)
ProofInv ==
    \A s \in Scopes :
        /\ alias[s].version > 0
        /\ Recorded(s) => proof[s].pages = Pages /\ proof[s].version \in 2..alias[s].version

(* What the lease row says was done is done.                                  *)
LeaseInv ==
    LET row == lease["index"] IN
    /\ row.phase = "prepare" => row.after < NPages /\ 1..row.after \subseteq prepared
    /\ row.phase = "publish" => prepared = Pages
    /\ row.phase = "members" => LedgerDone /\ 1..row.after \subseteq marked

(* An upload that may still be recorded: all members, prerequisites no older  *)
(* than their proofs, and the alias at least as new as it.                    *)
UploadOK(s, copy) ==
    /\ copy.pages = Pages /\ copy.version \in 2..alias[s].version
    /\ \A p \in Prerequisites[s] : copy.read[p] >= proof[p].version

(* What a worker at each step has found out.                                  *)
JobOK(j) ==
    /\ j.pc \in {"rows", "commit"} => manifest # None
    /\ j.pc \in IndexSteps => wave.state # "ready"
    /\ j.pc = "prepare" => j.after < NPages
    /\ j.pc \in {"prepare", "prepared"} => 1..j.after \subseteq prepared
    /\ j.pc \in PublishSteps => prepared = Pages /\ Unsatisfied \subseteq j.todo
    /\ j.pc \in ScopeSteps => j.scope \in Scopes /\ Ready(j.scope)
    /\ j.pc \in {"uploaded", "copied"} => UploadOK(j.scope, j.copy)
    /\ j.pc = "returned" => Recorded(j.scope) /\ j.copy = proof[j.scope]
    /\ j.pc \in {"mark", "marked"} => LedgerDone /\ 1..j.after \subseteq marked
    /\ j.pc = "complete" => marked = Pages
JobInv == \A w \in Workers : JobOK(job[w])

(* A complete wave has every receipt and every mark.                          *)
CompleteInv == wave.state = "complete" => marked = Pages /\ LedgerComplete

PublicationInv ==
    /\ TypeOK /\ BoundInv /\ ReceiptsMatchProofs /\ ProofInv /\ BuiltInOrder
    /\ LeaseInv /\ JobInv /\ CompleteInv

-----------------------------------------------------------------------------
(* A worker goes on, leaves, or saves its position: the job and lease tables  *)
(* keep their types.                                                          *)
LEMMA ProceedTypes ==
    ASSUME TypeOK, NEW w \in Workers, NEW update \in Jobs, Proceed(w, update)
    PROVE  job' \in [Workers -> Jobs]
  <1>1. [job[w] EXCEPT !.pc = "leaving"] \in Jobs
    BY DEF TypeOK, Jobs, Steps
  <1>. QED  BY <1>1 DEF TypeOK, Proceed

(* Moving on to a step keeps a job typed. *)
LEMMA GotoTypes ==
    ASSUME TypeOK, NEW w \in Workers, NEW step \in Steps
    PROVE  /\ At(w, step) \in Jobs
           /\ Goto(w, step) => job' \in [Workers -> Jobs]
  <1>1. [job[w] EXCEPT !.pc = step] \in Jobs
    BY DEF TypeOK, Jobs
  <1>2. ASSUME Goto(w, step)  PROVE job' \in [Workers -> Jobs]
    <2>1. job' = [job EXCEPT ![w] = [job[w] EXCEPT !.pc = step]]
      BY <1>2 DEF Goto, TypeOK
    <2>. QED  BY <1>1, <2>1 DEF TypeOK
  <1>. QED  BY <1>1, <1>2 DEF At

(* So does saving a position. *)
LEMMA SaveTypes ==
    ASSUME TypeOK, NEW w \in Workers, NEW update \in Jobs, NEW after \in 0..NPages,
           NEW phase \in {"prepare", "publish", "members"}, Save(w, phase, after, update)
    PROVE  job' \in [Workers -> Jobs] /\ lease' \in [Stages -> LeaseRows]
  <1>1. CASE Alive(w)
    <2>1. lease' = [lease EXCEPT !["index"].phase = phase, !["index"].after = after]
      BY <1>1 DEF Save
    <2>2. lease' \in [Stages -> LeaseRows]
      BY <2>1 DEF TypeOK, Stages, LeaseRows
    <2>. QED  BY <1>1, <2>2, ProceedTypes DEF Save
  <1>2. CASE ~Alive(w)
    BY <1>2, GotoTypes DEF Save, TypeOK, Steps
  <1>. QED  BY <1>1, <1>2

(* The rows a worker starts from are typed. *)
LEMMA IdleTypes ==
    /\ NoIndex \in Indexes
    /\ \A t \in Stages, step \in Steps : [Idle EXCEPT !.stage = t, !.pc = step] \in Jobs
    /\ Idle \in Jobs
  <1>1. NoIndex \in Indexes
    BY DEF NoIndex, Indexes
  <1>2. 0 \in 0..NPages
    BY PublicationAssumption
  <1>3. Idle \in Jobs
    BY <1>1, <1>2 DEF Idle, Jobs, Stages, Steps
  <1>4. ASSUME NEW t \in Stages, NEW step \in Steps
        PROVE  [Idle EXCEPT !.stage = t, !.pc = step] \in Jobs
    BY <1>3 DEF Jobs
  <1>. QED  BY <1>1, <1>3, <1>4

(* What a build produces is an index. *)
LEMMA BuiltTypes ==
    ASSUME TypeOK, NEW s \in Scopes
    PROVE  Built(s) \in Indexes
  BY DEF TypeOK, Built, Indexes

(* The required sets are sets of scopes, and "no set" is not one of them.     *)
LEMMA SetsAreScopes ==
    /\ \A set \in Sets : set \subseteq Scopes
    /\ None \notin Sets
    /\ \A s \in Scopes, set \in Sets : Prerequisites[s] \subseteq set /\ Prerequisites[s] \subseteq Scopes
  BY PublicationAssumption DEF Sets, None

(* The steps of the cluster stage and the lease keep the types.               *)
LEMMA ClusterTypes ==
    ASSUME PublicationInv, NEW w \in Workers,
           \/ \E t \in Stages : Claim(w, t)
           \/ Capture(w) \/ CreateRow(w) \/ CommitAssignment(w) \/ Finish(w) \/ Leave(w)
    PROVE  TypeOK'
  <1>. USE DEF ledgerVars, indexVars
  <1>. TypeOK
    BY DEF PublicationInv
  <1>1. ASSUME NEW t \in Stages, Claim(w, t)  PROVE TypeOK'
    <2>1. job' \in [Workers -> Jobs]
      <3>1. PICK step \in Steps : job' = [job EXCEPT ![w] = [Idle EXCEPT !.stage = t, !.pc = step]]
        BY <1>1 DEF Claim, Steps
      <3>. QED  BY <3>1, IdleTypes DEF TypeOK
    <2>2. lease' \in [Stages -> LeaseRows]
      BY <1>1 DEF Claim, TypeOK, LeaseRows
    <2>. QED  BY <1>1, <2>1, <2>2 DEF Claim, TypeOK
  <1>2. CASE Capture(w)
    <2>1. job' \in [Workers -> Jobs]
      BY <1>2, GotoTypes DEF Capture, Steps
    <2>. QED  BY <1>2, <2>1 DEF Capture, Captured, TypeOK
  <1>3. CASE CreateRow(w)
    <2>1. job' \in [Workers -> Jobs]
      BY <1>3, GotoTypes DEF CreateRow, Steps, TypeOK
    <2>2. receipt' \in [Scopes -> Nat]
      BY <1>3 DEF CreateRow, TypeOK, Pending
    <2>. QED  BY <1>3, <2>1, <2>2 DEF CreateRow, TypeOK
  <1>4. CASE CommitAssignment(w)
    <2>1. job' \in [Workers -> Jobs]
      BY <1>4, GotoTypes DEF CommitAssignment, Steps
    <2>. QED  BY <1>4, <2>1 DEF CommitAssignment, TypeOK
  <1>5. CASE Finish(w)
    <2>1. job' \in [Workers -> Jobs]
      BY <1>5, GotoTypes DEF Finish, Steps
    <2>2. lease' \in [Stages -> LeaseRows]
      BY <1>5 DEF Finish, TypeOK, LeaseRows
    <2>. QED  BY <1>5, <2>1, <2>2 DEF Finish, TypeOK
  <1>6. CASE Leave(w)
    <2>1. job' \in [Workers -> Jobs]
      BY <1>6, IdleTypes DEF Leave, TypeOK
    <2>2. lease' \in [Stages -> LeaseRows]
      BY <1>6 DEF Leave, TypeOK, LeaseRows
    <2>. QED  BY <1>6, <2>1, <2>2 DEF Leave, Free, TypeOK
  <1>. QED  BY <1>1, <1>2, <1>3, <1>4, <1>5, <1>6

(* What a worker of the index stage knows of the set it publishes.            *)
LEMMA IndexKnows ==
    ASSUME PublicationInv, NEW w \in Workers, job[w].pc \in IndexSteps
    PROVE  /\ wave.state # "ready" /\ manifest \in Sets /\ wave.bound = manifest
           /\ Unsatisfied \in SUBSET Scopes
  <1>1. wave.state # "ready"
    BY DEF PublicationInv, JobInv, JobOK
  <1>2. manifest \in Sets /\ wave.bound = manifest
    BY <1>1 DEF PublicationInv, BoundInv, TypeOK
  <1>. QED  BY <1>1, <1>2, SetsAreScopes DEF Unsatisfied

(* The steps of the index stage before it publishes keep the types.           *)
LEMMA PrepareTypes ==
    ASSUME PublicationInv, NEW w \in Workers,
           Verify(w) \/ PreparePage(w) \/ SavePrepared(w)
    PROVE  TypeOK'
  <1>. USE DEF ledgerVars, indexVars
  <1>. TypeOK /\ JobOK(job[w])
    BY DEF PublicationInv, JobInv
  <1>. job[w].after \in 0..NPages /\ job[w] \in Jobs /\ NPages \in Nat \ {0}
    BY PublicationAssumption DEF TypeOK, Jobs
  <1>1. CASE Verify(w)
    <2>. DEFINE update == [At(w, Resumed) EXCEPT !.after = lease["index"].after, !.todo = Unsatisfied]
    <2>1. update \in Jobs
      <3>1. lease["index"].after \in 0..NPages
        BY DEF TypeOK, Stages, LeaseRows
      <3>2. Unsatisfied \in SUBSET Scopes
        BY <1>1, IndexKnows DEF Verify, IndexSteps
      <3>3. Resumed \in Steps
        BY DEF Resumed, Steps
      <3>4. At(w, Resumed) \in Jobs
        BY <3>3, GotoTypes
      <3>. QED  BY <3>1, <3>2, <3>4 DEF Jobs
    <2>2. job' \in [Workers -> Jobs]
      <3>1. Proceed(w, update) \/ Goto(w, "leaving")
        BY <1>1 DEF Verify
      <3>. QED  BY <2>1, <3>1, ProceedTypes, GotoTypes DEF Steps
    <2>. QED  BY <1>1, <2>2 DEF Verify, TypeOK
  <1>2. CASE PreparePage(w)
    <2>1. job[w].after + 1 \in Pages /\ job[w].after + 1 \in 0..NPages
      BY <1>2 DEF PreparePage, JobOK, Pages
    <2>. DEFINE update == [At(w, "prepared") EXCEPT !.after = @ + 1]
    <2>2. update \in Jobs
      <3>1. At(w, "prepared") \in Jobs
        BY GotoTypes DEF Steps
      <3>2. At(w, "prepared").after = job[w].after
        BY DEF At, Jobs
      <3>. QED  BY <2>1, <3>1, <3>2 DEF Jobs
    <2>3. Proceed(w, update)
      BY <1>2 DEF PreparePage
    <2>4. job' \in [Workers -> Jobs]
      BY <2>2, <2>3, ProceedTypes
    <2>. QED  BY <1>2, <2>1, <2>4 DEF PreparePage, TypeOK
  <1>3. CASE SavePrepared(w)
    <2>1. Unsatisfied \in SUBSET Scopes
      BY <1>3, IndexKnows DEF SavePrepared, IndexSteps
    <2>2. [At(w, "publish") EXCEPT !.todo = Unsatisfied] \in Jobs
      <3>1. At(w, "publish") \in Jobs
        BY GotoTypes DEF Steps
      <3>. QED  BY <2>1, <3>1 DEF Jobs
    <2>3. \A step \in {"prepare", "leaving"} : At(w, step) \in Jobs
      BY GotoTypes DEF Steps
    <2>4. job' \in [Workers -> Jobs] /\ lease' \in [Stages -> LeaseRows]
      BY <1>3, <2>2, <2>3, SaveTypes DEF SavePrepared, Cursor
    <2>. QED  BY <1>3, <2>4 DEF SavePrepared, TypeOK
  <1>. QED  BY <1>1, <1>2, <1>3

(* The steps that publish one scope keep the types.                           *)
LEMMA PublishTypes ==
    ASSUME PublicationInv, NEW w \in Workers,
           \/ \E s \in Scopes : Pick(w, s)
           \/ Stuck(w) \/ Upload(w) \/ Copy(w) \/ Bind(w) \/ RecordReceipt(w) \/ SavePublished(w)
    PROVE  TypeOK'
  <1>. USE DEF ledgerVars, indexVars
  <1>. TypeOK /\ JobOK(job[w])
    BY DEF PublicationInv, JobInv
  <1>. job[w] \in Jobs
    BY DEF TypeOK
  <1>a. Goto(w, "leaving") => job' \in [Workers -> Jobs]
    BY GotoTypes DEF Steps
  <1>b. 0 \in 0..NPages
    BY PublicationAssumption
  <1>1. ASSUME NEW s \in Scopes, Pick(w, s)  PROVE TypeOK'
    <2>1. ASSUME NEW step \in {"returned", "pinned"}, NEW copy \in Indexes
          PROVE  [At(w, step) EXCEPT !.scope = s, !.copy = copy] \in Jobs
      <3>1. At(w, step) \in Jobs
        BY GotoTypes DEF Steps
      <3>. QED  BY <3>1 DEF Jobs
    <2>2. proof[s] \in Indexes /\ alias[s] \in Indexes
      BY DEF TypeOK
    <2>3. job' \in [Workers -> Jobs]
      BY <1>1, <1>a, <2>1, <2>2, ProceedTypes DEF Pick
    <2>. QED  BY <1>1, <2>3 DEF Pick, TypeOK
  <1>2. CASE Stuck(w)
    BY <1>2, <1>a DEF Stuck, TypeOK
  <1>3. CASE Upload(w)
    <2>1. job[w].scope \in Scopes
      BY <1>3 DEF Upload, JobOK, ScopeSteps
    <2>2. Built(job[w].scope) \in Indexes
      BY <2>1, BuiltTypes
    <2>3. [At(w, "uploaded") EXCEPT !.copy = Built(job[w].scope)] \in Jobs
      <3>1. At(w, "uploaded") \in Jobs
        BY GotoTypes DEF Steps
      <3>. QED  BY <2>2, <3>1 DEF Jobs
    <2>4. job' \in [Workers -> Jobs]
      BY <1>3, <1>a, <2>3, ProceedTypes DEF Upload
    <2>5. alias' \in [Scopes -> Indexes]
      BY <1>3, <2>2 DEF Upload, TypeOK
    <2>. QED  BY <1>3, <2>4, <2>5 DEF Upload, TypeOK
  <1>4. CASE Copy(w)
    <2>1. job' \in [Workers -> Jobs]
      BY <1>4, <1>a, GotoTypes, ProceedTypes DEF Copy, Steps
    <2>. QED  BY <1>4, <2>1 DEF Copy, TypeOK
  <1>5. CASE Bind(w)
    <2>1. job' \in [Workers -> Jobs]
      BY <1>5, <1>a, GotoTypes, ProceedTypes DEF Bind, Steps
    <2>2. proof' \in [Scopes -> Indexes]
      BY <1>5 DEF Bind, TypeOK, Jobs
    <2>. QED  BY <1>5, <2>1, <2>2 DEF Bind, TypeOK
  <1>6. CASE RecordReceipt(w)
    <2>1. [At(w, "received") EXCEPT !.todo = @ \ {job[w].scope}, !.scope = NoScope, !.copy = NoIndex] \in Jobs
      <3>1. At(w, "received") \in Jobs
        BY GotoTypes DEF Steps
      <3>. QED  BY <3>1, IdleTypes DEF Jobs
    <2>2. job' \in [Workers -> Jobs]
      BY <1>6, <1>a, <2>1 DEF RecordReceipt, TypeOK
    <2>3. receipt' \in [Scopes -> Nat]
      BY <1>6 DEF RecordReceipt, TypeOK, Jobs, Indexes
    <2>. QED  BY <1>6, <2>2, <2>3 DEF RecordReceipt, TypeOK
  <1>7. CASE SavePublished(w)
    <2>1. \A step \in {"members", "publish", "leaving"} : At(w, step) \in Jobs
      BY GotoTypes DEF Steps
    <2>2. job' \in [Workers -> Jobs] /\ lease' \in [Stages -> LeaseRows]
      BY <1>7, <1>b, <2>1, SaveTypes DEF SavePublished
    <2>. QED  BY <1>7, <2>2 DEF SavePublished, TypeOK
  <1>. QED  BY <1>1, <1>2, <1>3, <1>4, <1>5, <1>6, <1>7

(* The steps that mark the members and complete the wave keep the types.      *)
LEMMA MembersTypes ==
    ASSUME PublicationInv, NEW w \in Workers,
           StartMembers(w) \/ MarkPage(w) \/ SaveMarked(w) \/ CompleteIndexing(w)
    PROVE  TypeOK'
  <1>. USE DEF ledgerVars, indexVars
  <1>. TypeOK
    BY DEF PublicationInv
  <1>. job[w] \in Jobs /\ job[w].after \in 0..NPages /\ NPages \in Nat \ {0}
    BY PublicationAssumption DEF TypeOK, Jobs
  <1>a. Goto(w, "leaving") => job' \in [Workers -> Jobs]
    BY GotoTypes DEF Steps
  <1>1. CASE StartMembers(w)
    <2>1. [At(w, "mark") EXCEPT !.after = 0] \in Jobs
      <3>1. At(w, "mark") \in Jobs
        BY GotoTypes DEF Steps
      <3>. QED  BY <3>1 DEF Jobs
    <2>2. 0 \in 0..NPages
      OBVIOUS
    <2>3. job' \in [Workers -> Jobs] /\ lease' \in [Stages -> LeaseRows]
      BY <1>1, <1>a, <2>1, <2>2, SaveTypes DEF StartMembers, TypeOK
    <2>. QED  BY <1>1, <2>3 DEF StartMembers, TypeOK
  <1>2. CASE MarkPage(w)
    <2>1. CASE LastPage(w)
      <3>1. job' \in [Workers -> Jobs]
        BY <1>2, <2>1, GotoTypes, ProceedTypes DEF MarkPage, Steps
      <3>. QED  BY <1>2, <2>1, <3>1 DEF MarkPage, TypeOK
    <2>2. CASE ~LastPage(w)
      <3>1. job[w].after + 1 \in Pages /\ job[w].after + 1 \in 0..NPages
        BY <2>2 DEF LastPage, Pages
      <3>2. [At(w, "marked") EXCEPT !.after = @ + 1] \in Jobs
        <4>1. At(w, "marked") \in Jobs
          BY GotoTypes DEF Steps
        <4>2. At(w, "marked").after = job[w].after
          BY DEF At, Jobs
        <4>. QED  BY <3>1, <4>1, <4>2 DEF Jobs
      <3>3. job' \in [Workers -> Jobs]
        BY <1>2, <1>a, <2>2, <3>2 DEF MarkPage, TypeOK
      <3>. QED  BY <1>2, <2>2, <3>1, <3>3 DEF MarkPage, TypeOK
    <2>. QED  BY <2>1, <2>2
  <1>3. CASE SaveMarked(w)
    <2>1. \A step \in {"mark", "leaving"} : At(w, step) \in Jobs
      BY GotoTypes DEF Steps
    <2>2. job' \in [Workers -> Jobs] /\ lease' \in [Stages -> LeaseRows]
      BY <1>3, <2>1, SaveTypes DEF SaveMarked, Cursor
    <2>. QED  BY <1>3, <2>2 DEF SaveMarked, TypeOK
  <1>4. CASE CompleteIndexing(w)
    <2>1. job' \in [Workers -> Jobs]
      BY <1>4, <1>a, GotoTypes DEF CompleteIndexing, Steps
    <2>. QED  BY <1>4, <2>1 DEF CompleteIndexing, TypeOK
  <1>. QED  BY <1>1, <1>2, <1>3, <1>4

(* What is not a worker's own step: its death, lapsing leases, other builders *)
(* and deployments.                                                           *)
Disturbance ==
    \/ \E w \in Workers : Crash(w)
    \/ \E t \in Stages : LeaseLapses(t)
    \/ CatalogLapses
    \/ \E s \in Scopes : Overwrite(s)
    \/ \E set \in Sets : Deploy(set)

(* Crashes, lapses and deployments keep the types. *)
LEMMA DisturbanceTypes ==
    ASSUME PublicationInv, Disturbance
    PROVE  TypeOK'
  <1>. USE DEF ledgerVars, indexVars
  <1>. TypeOK
    BY DEF PublicationInv
  <1>a. Disturbed \/ UNCHANGED disturb => disturb' \in 0..MaxDisturb
    BY PublicationAssumption DEF Disturbed, TypeOK
  <1>1. ASSUME NEW w \in Workers, Crash(w)  PROVE TypeOK'
    <2>1. job' \in [Workers -> Jobs]
      BY <1>1, IdleTypes DEF Crash, TypeOK
    <2>. QED  BY <1>1, <1>a, <2>1 DEF Crash, TypeOK
  <1>2. ASSUME NEW t \in Stages, LeaseLapses(t)  PROVE TypeOK'
    <2>1. lease' \in [Stages -> LeaseRows]
      BY <1>2 DEF LeaseLapses, TypeOK, LeaseRows
    <2>. QED  BY <1>2, <1>a, <2>1 DEF LeaseLapses, TypeOK
  <1>3. CASE CatalogLapses
    BY <1>3, <1>a DEF CatalogLapses, TypeOK
  <1>4. ASSUME NEW s \in Scopes, Overwrite(s)  PROVE TypeOK'
    <2>1. alias' \in [Scopes -> Indexes]
      BY <1>4, BuiltTypes DEF Overwrite, TypeOK
    <2>. QED  BY <1>4, <1>a, <2>1 DEF Overwrite, TypeOK
  <1>5. ASSUME NEW set \in Sets, Deploy(set)  PROVE TypeOK'
    BY <1>5, <1>a DEF Deploy, TypeOK
  <1>. QED  BY <1>1, <1>2, <1>3, <1>4, <1>5 DEF Disturbance

(* Every step keeps the types. *)
LEMMA TypeStep ==
    ASSUME PublicationInv, [Next]_vars
    PROVE  TypeOK'
  <1>1. ASSUME NEW w \in Workers, Step(w)  PROVE TypeOK'
    BY <1>1, ClusterTypes, PrepareTypes, PublishTypes, MembersTypes DEF Step
  <1>2. CASE UNCHANGED vars
    BY <1>2 DEF PublicationInv, TypeOK, vars
  <1>. QED  BY <1>1, <1>2, DisturbanceTypes DEF Next, Disturbance

-----------------------------------------------------------------------------
(* What no step takes back.                                                   *)
Kept ==
    /\ wave.state # "ready" => wave'.state # "ready" /\ wave'.bound = wave.bound
    /\ manifest # None => manifest' = manifest
    /\ \A s \in Scopes : Valid(s) => receipt'[s] = receipt[s]
    /\ \A s \in Scopes : Recorded(s) => proof'[s] = proof[s]
    /\ \A s \in Scopes : alias[s].version <= alias'[s].version
    /\ prepared \subseteq prepared' /\ marked \subseteq marked'

(* No step takes back what is bound, proved, recorded or marked. *)
LEMMA Monotone ==
    ASSUME PublicationInv, [Next]_vars
    PROVE  Kept
  <1>. USE DEF ledgerVars, indexVars
  <1>. TypeOK
    BY DEF PublicationInv
  <1>. DEFINE Newer == \A s \in Scopes : alias[s].version <= alias'[s].version
  <1>a. UNCHANGED alias => Newer
    BY DEF TypeOK, Indexes
  <1>b. ASSUME NEW s \in Scopes, alias' = [alias EXCEPT ![s] = Built(s)]  PROVE Newer
    BY <1>b DEF TypeOK, Indexes, Built
  <1>c. (UNCHANGED <<wave, ledgerVars, prepared, marked>> /\ Newer) => Kept
    BY DEF Kept
  <1>1. ASSUME NEW w \in Workers, Step(w)  PROVE Kept
    <2>. JobOK(job[w])
      BY DEF PublicationInv, JobInv
    <2>1. CASE \E t \in Stages : Claim(w, t)
      BY <1>a, <1>c, <2>1 DEF Claim
    <2>2. CASE Capture(w)
      BY <1>a, <2>2 DEF Capture, Captured, Kept
    <2>3. CASE CreateRow(w)
      <3>1. \A s \in Scopes : Valid(s) => receipt'[s] = receipt[s]
        BY <2>3 DEF CreateRow, Missing, Valid, Absent, Pending, TypeOK
      <3>. QED  BY <1>a, <2>3, <3>1 DEF CreateRow, Kept
    <2>4. CASE CommitAssignment(w)
      BY <1>a, <2>4 DEF CommitAssignment, Kept
    <2>5. CASE Verify(w)
      BY <1>a, <1>c, <2>5 DEF Verify
    <2>6. CASE PreparePage(w)
      BY <1>a, <2>6 DEF PreparePage, Kept
    <2>7. CASE SavePrepared(w)
      BY <1>a, <1>c, <2>7 DEF SavePrepared
    <2>8. CASE \E s \in Scopes : Pick(w, s)
      BY <1>a, <1>c, <2>8 DEF Pick
    <2>9. CASE Upload(w)
      <3>1. job[w].scope \in Scopes
        BY <2>9 DEF Upload, JobOK, ScopeSteps
      <3>. QED  BY <1>a, <1>b, <1>c, <2>9, <3>1 DEF Upload
    <2>10. CASE Copy(w)
      BY <1>a, <1>c, <2>10 DEF Copy
    <2>11. CASE Bind(w)
      <3>1. \A s \in Scopes : Recorded(s) => proof'[s] = proof[s]
        BY <2>11 DEF Bind, MayBind, Recorded, TypeOK
      <3>. QED  BY <1>a, <2>11, <3>1 DEF Bind, Kept
    <2>12. CASE RecordReceipt(w)
      <3>1. \A s \in Scopes : Valid(s) => receipt'[s] = receipt[s]
        BY <2>12 DEF RecordReceipt, Valid, Pending, TypeOK
      <3>. QED  BY <1>a, <2>12, <3>1 DEF RecordReceipt, Kept
    <2>13. CASE SavePublished(w)
      BY <1>a, <1>c, <2>13 DEF SavePublished
    <2>14. CASE StartMembers(w)
      BY <1>a, <1>c, <2>14 DEF StartMembers
    <2>15. CASE MarkPage(w)
      BY <1>a, <2>15 DEF MarkPage, Kept
    <2>16. CASE SaveMarked(w)
      BY <1>a, <1>c, <2>16 DEF SaveMarked
    <2>17. CASE CompleteIndexing(w)
      BY <1>a, <2>17 DEF CompleteIndexing, Kept, TypeOK
    <2>18. CASE Finish(w)
      BY <1>a, <1>c, <2>18 DEF Finish
    <2>19. CASE Leave(w)
      BY <1>a, <1>c, <2>19 DEF Leave
    <2>. QED  BY <1>1, <2>1, <2>2, <2>3, <2>4, <2>5, <2>6, <2>7, <2>8, <2>9, <2>10, <2>11,
                 <2>12, <2>13, <2>14, <2>15, <2>16, <2>17, <2>18, <2>19 DEF Step
  <1>2. CASE Disturbance
    <2>1. ASSUME NEW s \in Scopes, Overwrite(s)  PROVE Kept
      BY <1>b, <1>c, <2>1 DEF Overwrite
    <2>. QED  BY <1>a, <1>c, <1>2, <2>1 DEF Disturbance, Crash, LeaseLapses, CatalogLapses, Deploy
  <1>3. CASE UNCHANGED vars
    BY <1>a, <1>c, <1>3 DEF vars
  <1>. QED  BY <1>1, <1>2, <1>3 DEF Next, Disturbance

(* A satisfied receipt has a recorded proof.                                  *)
LEMMA ValidRecorded ==
    ASSUME PublicationInv, NEW s \in Scopes, Valid(s)
    PROVE  Recorded(s) /\ receipt[s] = proof[s].version
  BY DEF PublicationInv, ReceiptsMatchProofs, Valid, Recorded, NoIndex, Pending, TypeOK

(* A satisfied receipt, a ready scope and a complete ledger stay so.          *)
LEMMA StaysValid ==
    ASSUME PublicationInv, Kept
    PROVE  /\ \A s \in Scopes : Valid(s) => Valid(s)' /\ proof'[s] = proof[s]
           /\ \A s \in Scopes : Ready(s) => Ready(s)'
           /\ wave.state # "ready" => Unsatisfied' \subseteq Unsatisfied
           /\ LedgerDone => LedgerDone'
  <1>1. \A s \in Scopes : Valid(s) => Valid(s)' /\ proof'[s] = proof[s]
    BY ValidRecorded DEF Kept, Valid
  <1>2. \A s \in Scopes : Ready(s) => Ready(s)'
    BY <1>1, PublicationAssumption DEF Ready
  <1>3. wave.state # "ready" => wave.bound \subseteq Scopes /\ wave'.bound = wave.bound
    BY SetsAreScopes DEF PublicationInv, BoundInv, TypeOK, Kept
  <1>4. wave.state # "ready" => Unsatisfied' \subseteq Unsatisfied
    BY <1>1, <1>3 DEF Unsatisfied
  <1>5. LedgerDone => LedgerDone'
    BY <1>4 DEF LedgerDone, LedgerComplete, Kept
  <1>. QED  BY <1>1, <1>2, <1>4, <1>5

(* The set of a wave that is being indexed is the captured one.               *)
LEMMA BoundStep ==
    ASSUME PublicationInv, [Next]_vars
    PROVE  BoundInv'
  <1>. USE DEF ledgerVars, indexVars
  <1>. TypeOK /\ BoundInv /\ JobInv
    BY DEF PublicationInv
  <1>1. CASE UNCHANGED <<wave, manifest>>
    BY <1>1 DEF BoundInv
  <1>2. ASSUME NEW w \in Workers, Capture(w)  PROVE BoundInv'
    BY <1>2 DEF Capture, Captured, BoundInv
  <1>3. ASSUME NEW w \in Workers, CommitAssignment(w)  PROVE BoundInv'
    <2>1. manifest # None
      BY <1>3 DEF CommitAssignment, JobInv, JobOK
    <2>. QED  BY <1>3, <2>1 DEF CommitAssignment, BoundInv
  <1>4. ASSUME NEW w \in Workers, CompleteIndexing(w)  PROVE BoundInv'
    BY <1>4 DEF CompleteIndexing, BoundInv, TypeOK
  <1>5. ASSUME NEW w \in Workers, Step(w)
        PROVE  \/ UNCHANGED <<wave, manifest>>
               \/ Capture(w) \/ CommitAssignment(w) \/ CompleteIndexing(w)
    BY <1>5 DEF Step, Claim, CreateRow, Verify, PreparePage, SavePrepared, Pick, Upload, Copy, Bind,
                RecordReceipt, SavePublished, StartMembers, MarkPage, SaveMarked, Finish, Leave
  <1>6. Disturbance \/ UNCHANGED vars => UNCHANGED <<wave, manifest>>
    BY DEF Disturbance, Crash, LeaseLapses, CatalogLapses, Overwrite, Deploy, vars
  <1>. QED  BY <1>1, <1>2, <1>3, <1>4, <1>5, <1>6 DEF Next, Disturbance

(* What a step may write into a receipt or a proof.                           *)
LEMMA LedgerStep ==
    ASSUME PublicationInv, [Next]_vars, NEW s \in Scopes
    PROVE  /\ \/ receipt'[s] = receipt[s] \/ receipt'[s] = Pending
              \/ (Recorded(s) /\ receipt'[s] = proof[s].version)
           /\ proof'[s] = proof[s] \/ (Ready(s) /\ UploadOK(s, proof'[s]))
  <1>. USE DEF ledgerVars, indexVars
  <1>. TypeOK /\ JobInv
    BY DEF PublicationInv
  <1>1. CASE UNCHANGED <<receipt, proof>>
    BY <1>1
  <1>2. ASSUME NEW w \in Workers, CreateRow(w)
        PROVE  UNCHANGED proof /\ (receipt'[s] = receipt[s] \/ receipt'[s] = Pending)
    BY <1>2 DEF CreateRow, TypeOK
  <1>3. ASSUME NEW w \in Workers, RecordReceipt(w)
        PROVE  UNCHANGED proof /\ (receipt'[s] = receipt[s] \/ (Recorded(s) /\ receipt'[s] = proof[s].version))
    <2>1. Recorded(job[w].scope) /\ job[w].copy = proof[job[w].scope]
      BY <1>3 DEF RecordReceipt, JobInv, JobOK
    <2>. QED  BY <1>3, <2>1 DEF RecordReceipt, TypeOK
  <1>4. ASSUME NEW w \in Workers, Bind(w)
        PROVE  UNCHANGED receipt /\ (proof'[s] = proof[s] \/ (Ready(s) /\ UploadOK(s, proof'[s])))
    <2>1. Ready(job[w].scope) /\ UploadOK(job[w].scope, job[w].copy)
      BY <1>4 DEF Bind, JobInv, JobOK, ScopeSteps
    <2>. QED  BY <1>4, <2>1 DEF Bind, TypeOK
  <1>5. ASSUME NEW w \in Workers, Step(w)
        PROVE  UNCHANGED <<receipt, proof>> \/ CreateRow(w) \/ RecordReceipt(w) \/ Bind(w)
    BY <1>5 DEF Step, Claim, Capture, CommitAssignment, Verify, PreparePage, SavePrepared, Pick, Upload,
                Copy, SavePublished, StartMembers, MarkPage, SaveMarked, CompleteIndexing, Finish, Leave
  <1>6. Disturbance \/ UNCHANGED vars => UNCHANGED <<receipt, proof>>
    BY DEF Disturbance, Crash, LeaseLapses, CatalogLapses, Overwrite, Deploy, vars
  <1>. QED  BY <1>1, <1>2, <1>3, <1>4, <1>5, <1>6 DEF Next, Disturbance

(* The receipts and the proofs stay as the invariant says.                    *)
LEMMA LedgerInvStep ==
    ASSUME PublicationInv, [Next]_vars
    PROVE  ReceiptsMatchProofs' /\ ProofInv' /\ BuiltInOrder'
  <1>. Kept /\ TypeOK /\ TypeOK' /\ ReceiptsMatchProofs /\ ProofInv /\ BuiltInOrder
    BY Monotone, TypeStep DEF PublicationInv
  <1>1. ReceiptsMatchProofs'
    <2>1. SUFFICES ASSUME NEW s \in Scopes, receipt'[s] > Pending
                   PROVE  receipt'[s] = proof'[s].version
      BY DEF ReceiptsMatchProofs, Valid
    <2>2. CASE receipt'[s] = receipt[s]
      <3>1. Valid(s)
        BY <2>1, <2>2 DEF Valid
      <3>. QED  BY <2>2, <3>1, ValidRecorded, StaysValid
    <2>3. CASE Recorded(s) /\ receipt'[s] = proof[s].version
      BY <2>3 DEF Kept
    <2>. QED  BY <2>1, <2>2, <2>3, LedgerStep DEF Pending
  <1>2. ASSUME NEW s \in Scopes
        PROVE  /\ alias'[s].version > 0
               /\ (proof'[s] # NoIndex => proof'[s].pages = Pages /\ proof'[s].version \in 2..alias'[s].version)
    <2>1. /\ alias[s].version \in Nat /\ alias'[s].version \in Nat
          /\ proof'[s].version \in Nat /\ alias[s].version <= alias'[s].version
          /\ alias[s].version > 0
      BY DEF TypeOK, Indexes, Kept, ProofInv
    <2>2. CASE proof'[s] = proof[s]
      BY <2>1, <2>2 DEF ProofInv, Recorded
    <2>3. CASE UploadOK(s, proof'[s])
      BY <2>1, <2>3 DEF UploadOK
    <2>. QED  BY <2>2, <2>3, LedgerStep
  <1>3. ASSUME NEW s \in Scopes, NEW p \in Prerequisites[s], proof'[s] # NoIndex
        PROVE  Valid(p)' /\ proof'[s].read[p] >= proof'[p].version
    <2>. p \in Scopes
      BY PublicationAssumption
    <2>1. CASE proof'[s] = proof[s]
      <3>1. Valid(p) /\ proof[s].read[p] >= proof[p].version
        BY <1>3, <2>1 DEF BuiltInOrder, Recorded
      <3>. QED  BY <2>1, <3>1, StaysValid
    <2>2. CASE Ready(s) /\ UploadOK(s, proof'[s])
      <3>1. Valid(p) /\ proof'[s].read[p] >= proof[p].version
        BY <2>2 DEF Ready, UploadOK
      <3>. QED  BY <3>1, StaysValid
    <2>. QED  BY <2>1, <2>2, LedgerStep
  <1>. QED  BY <1>1, <1>2, <1>3 DEF ProofInv, BuiltInOrder, Recorded

(* What is found out once stays true of a job that does not move.             *)
LEMMA JobStays ==
    ASSUME PublicationInv, [Next]_vars, NEW w \in Workers, job'[w] = job[w]
    PROVE  JobOK(job[w])'
  <1>. Kept /\ TypeOK /\ TypeOK' /\ JobOK(job[w])
    BY Monotone, TypeStep DEF PublicationInv, JobInv
  <1>1. prepared = Pages => prepared' = Pages
    BY DEF Kept, TypeOK
  <1>2. marked = Pages => marked' = Pages
    BY DEF Kept, TypeOK
  <1>3. ASSUME NEW s \in Scopes, Recorded(s)  PROVE Recorded(s)' /\ proof'[s] = proof[s]
    BY <1>3 DEF Kept, Recorded
  <1>4. ASSUME NEW s \in Scopes, Ready(s), NEW copy, UploadOK(s, copy)  PROVE UploadOK(s, copy)'
    <2>1. \A p \in Prerequisites[s] : p \in Scopes /\ proof'[p] = proof[p]
      BY <1>4, StaysValid, PublicationAssumption DEF Ready
    <2>2. alias[s].version \in Nat /\ alias'[s].version \in Nat /\ alias[s].version <= alias'[s].version
      BY DEF TypeOK, Indexes, Kept
    <2>. QED  BY <1>4, <2>1, <2>2 DEF UploadOK
  <1>5. job'[w].pc \in {"uploaded", "copied"} => UploadOK(job[w].scope, job[w].copy)'
    BY <1>4 DEF JobOK, ScopeSteps
  <1>6. job'[w].pc \in ScopeSteps => job'[w].scope \in Scopes /\ Ready(job[w].scope)'
    BY StaysValid DEF JobOK
  <1>7. job'[w].pc = "returned" => Recorded(job[w].scope)' /\ job'[w].copy = proof'[job'[w].scope]
    BY <1>3 DEF JobOK, ScopeSteps
  <1>8. job'[w].pc \in PublishSteps => prepared' = Pages /\ Unsatisfied' \subseteq job'[w].todo
    BY <1>1, StaysValid DEF JobOK, PublishSteps, IndexSteps
  <1>9. job'[w].pc \in {"mark", "marked"} => LedgerDone' /\ 1..job'[w].after \subseteq marked'
    BY StaysValid DEF JobOK, Kept
  <1>10. /\ job'[w].pc \in {"rows", "commit"} => manifest' # None
         /\ job'[w].pc \in IndexSteps => wave'.state # "ready"
         /\ job'[w].pc = "prepare" => job'[w].after < NPages
         /\ job'[w].pc \in {"prepare", "prepared"} => 1..job'[w].after \subseteq prepared'
         /\ job'[w].pc = "complete" => marked' = Pages
    BY <1>2 DEF JobOK, Kept
  <1>. QED  BY <1>5, <1>6, <1>7, <1>8, <1>9, <1>10 DEF JobOK

(* These steps claim nothing.                                                 *)
LEMMA Leaves ==
    ASSUME NEW w \in Workers, job'[w].pc \in {"idle", "capture", "finish", "leaving"}
    PROVE  JobOK(job[w])'
  BY DEF JobOK, IndexSteps, PublishSteps, ScopeSteps

(* The saved position stays right when no step moves it, and a step that      *)
(* saves one saves what the worker has found out.                             *)
SamePosition ==
    lease'["index"].phase = lease["index"].phase /\ lease'["index"].after = lease["index"].after

(* A step that saves no position keeps the saved one right. *)
LEMMA PositionStays ==
    ASSUME PublicationInv, [Next]_vars, SamePosition
    PROVE  LeaseInv'
  <1>. Kept /\ TypeOK' /\ LeaseInv
    BY Monotone, TypeStep DEF PublicationInv
  <1>1. prepared = Pages => prepared' = Pages
    BY DEF Kept, TypeOK
  <1>2. lease'["index"].phase = "members" => LedgerDone'
    BY StaysValid DEF SamePosition, LeaseInv
  <1>3. 1..lease["index"].after \subseteq prepared => 1..lease'["index"].after \subseteq prepared'
    BY DEF SamePosition, Kept
  <1>4. 1..lease["index"].after \subseteq marked => 1..lease'["index"].after \subseteq marked'
    BY DEF SamePosition, Kept
  <1>. QED  BY <1>1, <1>2, <1>3, <1>4 DEF SamePosition, LeaseInv

(* A save leaves the position it saved, or a worker without its lease. *)
LEMMA Saved ==
    ASSUME PublicationInv, NEW w \in Workers, NEW phase, NEW after, NEW update,
           Save(w, phase, after, update)
    PROVE  /\ SamePosition \/ (lease'["index"].phase = phase /\ lease'["index"].after = after)
           /\ job'[w] = update \/ job'[w].pc = "leaving"
  <1>. TypeOK /\ job[w] \in Jobs /\ lease["index"] \in LeaseRows
    BY DEF PublicationInv, TypeOK, Stages
  <1>1. SamePosition \/ (lease'["index"].phase = phase /\ lease'["index"].after = after)
    BY DEF Save, TypeOK, SamePosition, Stages, LeaseRows
  <1>2. job'[w] = update \/ job'[w].pc = "leaving"
    BY DEF Save, Proceed, Goto, TypeOK, Jobs
  <1>. QED  BY <1>1, <1>2

(* A worker proceeds as told or leaves. *)
LEMMA Proceeded ==
    ASSUME TypeOK, NEW w \in Workers, NEW update, Proceed(w, update)
    PROVE  job'[w] = update \/ job'[w].pc = "leaving"
  BY DEF Proceed, TypeOK, Jobs

(* A worker that moves on changes nothing but its step. *)
LEMMA Went ==
    ASSUME TypeOK, NEW w \in Workers, NEW step, Goto(w, step)
    PROVE  job'[w] = [job[w] EXCEPT !.pc = step] /\ job'[w].pc = step
  BY DEF Goto, TypeOK, Jobs

(* Moving on keeps what the worker has found out. *)
LEMMA JobFields ==
    ASSUME TypeOK, NEW w \in Workers, NEW step
    PROVE  /\ At(w, step).pc = step /\ At(w, step).after = job[w].after
           /\ At(w, step).todo = job[w].todo /\ At(w, step).scope = job[w].scope
           /\ At(w, step).copy = job[w].copy
  BY DEF At, TypeOK, Jobs

(* Steps of the cluster stage, and of the end of either.                      *)
LEMMA ClusterJobs ==
    ASSUME PublicationInv, [Next]_vars, NEW w \in Workers,
           \/ \E t \in Stages : Claim(w, t)
           \/ Capture(w) \/ CreateRow(w) \/ CommitAssignment(w) \/ Finish(w) \/ Leave(w)
    PROVE  JobOK(job[w])' /\ LeaseInv'
  <1>. USE DEF ledgerVars, indexVars
  <1>. TypeOK /\ BoundInv /\ JobOK(job[w]) /\ Kept
    BY Monotone DEF PublicationInv, JobInv
  <1>1. ASSUME NEW t \in Stages, Claim(w, t)  PROVE JobOK(job[w])' /\ SamePosition
    <2>1. SamePosition
      BY <1>1 DEF Claim, SamePosition, TypeOK, Stages, LeaseRows
    <2>2. CASE t = "cluster"
      <3>1. job'[w].pc = "capture"
        BY <1>1, <2>2 DEF Claim, TypeOK, Idle
      <3>. QED  BY <2>1, <3>1, Leaves
    <2>3. CASE t = "index"
      <3>1. job'[w].pc = "verify" /\ wave.state # "ready" /\ wave'.state # "ready"
        BY <1>1, <2>3 DEF Claim, TypeOK, Idle, Eligible
      <3>2. JobOK(job[w])'
        BY <3>1 DEF JobOK, IndexSteps, PublishSteps, ScopeSteps
      <3>. QED  BY <2>1, <3>2
    <2>. QED  BY <2>2, <2>3 DEF Stages
  <1>2. CASE Capture(w)
    <2>1. manifest' # None
      BY <1>2, SetsAreScopes DEF Capture, Captured, TypeOK
    <2>2. job'[w].pc \in {"rows", "leaving"}
      BY <1>2, Went DEF Capture
    <2>3. JobOK(job[w])'
      BY <2>1, <2>2 DEF JobOK, IndexSteps, PublishSteps, ScopeSteps
    <2>. QED  BY <1>2, <2>3, PositionStays DEF Capture, SamePosition
  <1>3. CASE CreateRow(w)
    <2>1. manifest' # None
      BY <1>3 DEF CreateRow, JobOK
    <2>2. job'[w].pc \in {"rows", "commit"}
      BY <1>3, Went DEF CreateRow
    <2>3. JobOK(job[w])'
      BY <2>1, <2>2 DEF JobOK, IndexSteps, PublishSteps, ScopeSteps
    <2>. QED  BY <1>3, <2>3, PositionStays DEF CreateRow, SamePosition
  <1>4. CASE CommitAssignment(w)
    <2>1. job'[w].pc \in {"finish", "leaving"}
      BY <1>4, Went DEF CommitAssignment
    <2>. QED  BY <1>4, <2>1, Leaves, PositionStays DEF CommitAssignment, SamePosition
  <1>5. CASE Finish(w)
    <2>1. job'[w].pc = "leaving"
      BY <1>5, Went DEF Finish
    <2>2. SamePosition
      BY <1>5 DEF Finish, SamePosition, TypeOK, Stages, LeaseRows
    <2>. QED  BY <2>1, <2>2, Leaves, PositionStays
  <1>6. CASE Leave(w)
    <2>1. job'[w].pc = "idle"
      BY <1>6 DEF Leave, TypeOK, Idle
    <2>2. SamePosition
      BY <1>6 DEF Leave, SamePosition, TypeOK, Stages, LeaseRows
    <2>. QED  BY <2>1, <2>2, Leaves, PositionStays
  <1>. QED  BY <1>1, <1>2, <1>3, <1>4, <1>5, <1>6, PositionStays

(* Resuming and preparing: the saved cursor and the worker's own agree with   *)
(* the pages that are projected.                                              *)
LEMMA PrepareJobs ==
    ASSUME PublicationInv, [Next]_vars, NEW w \in Workers,
           Verify(w) \/ PreparePage(w) \/ SavePrepared(w)
    PROVE  JobOK(job[w])' /\ LeaseInv'
  <1>. USE DEF ledgerVars, indexVars
  <1>. TypeOK /\ LeaseInv /\ JobOK(job[w]) /\ Kept /\ TypeOK'
    BY Monotone, TypeStep DEF PublicationInv, JobInv
  <1>. job[w].after \in 0..NPages /\ job[w] \in Jobs /\ NPages \in Nat \ {0}
    BY PublicationAssumption DEF TypeOK, Jobs
  <1>1. CASE Verify(w)
    <2>. DEFINE update == [At(w, Resumed) EXCEPT !.after = lease["index"].after, !.todo = Unsatisfied]
    <2>0. LeaseInv'
      BY <1>1, PositionStays DEF Verify, SamePosition
    <2>1. wave.state # "ready"
      BY <1>1, IndexKnows DEF Verify, IndexSteps
    <2>2. CASE job'[w].pc = "leaving"
      BY <2>0, <2>2, Leaves
    <2>3. CASE job'[w] = update
      <3>1. /\ job'[w].pc = Resumed /\ job'[w].after = lease["index"].after
            /\ job'[w].todo = Unsatisfied
        BY <2>3 DEF At, TypeOK, Jobs
      <3>2. UNCHANGED <<prepared, marked, wave, manifest, receipt>>
        BY <1>1 DEF Verify
      <3>3. Unsatisfied' = Unsatisfied /\ LedgerDone' = LedgerDone
        BY <3>2 DEF Unsatisfied, LedgerDone, LedgerComplete, Valid
      <3>4. lease["index"].phase \in {"prepare", "publish", "members"}
        BY DEF TypeOK, Stages, LeaseRows
      <3>5. CASE LedgerComplete
        <4>1. Resumed \in {"mark", "members"}
              /\ (Resumed = "mark" => LedgerDone /\ 1..lease["index"].after \subseteq marked)
          BY <3>5 DEF Resumed, LeaseInv
        <4>2. JobOK(job[w])'
          BY <2>1, <3>1, <3>2, <3>3, <4>1 DEF JobOK, IndexSteps, PublishSteps, ScopeSteps
        <4>. QED  BY <2>0, <4>2
      <3>6. CASE ~LedgerComplete
        <4>1. \/ /\ Resumed = "prepare" /\ lease["index"].after < NPages
                 /\ 1..lease["index"].after \subseteq prepared
              \/ Resumed = "publish" /\ prepared = Pages
          BY <3>4, <3>6 DEF Resumed, LeaseInv, LedgerDone
        <4>2. JobOK(job[w])'
          BY <2>1, <3>1, <3>2, <3>3, <4>1 DEF JobOK, IndexSteps, PublishSteps, ScopeSteps
        <4>. QED  BY <2>0, <4>2
      <3>. QED  BY <3>5, <3>6
    <2>4. Proceed(w, update) \/ Goto(w, "leaving")
      BY <1>1 DEF Verify
    <2>. QED  BY <2>2, <2>3, <2>4, Proceeded, Went
  <1>2. CASE PreparePage(w)
    <2>0. LeaseInv'
      BY <1>2, PositionStays DEF PreparePage, SamePosition
    <2>1. 1..(job[w].after + 1) \subseteq prepared'
      BY <1>2 DEF PreparePage, JobOK
    <2>2. CASE job'[w] = [At(w, "prepared") EXCEPT !.after = @ + 1]
      <3>1. job'[w].pc = "prepared" /\ job'[w].after = job[w].after + 1
        BY <2>2 DEF At, TypeOK, Jobs
      <3>2. wave'.state # "ready"
        BY <1>2 DEF PreparePage, JobOK, IndexSteps, Kept
      <3>3. JobOK(job[w])'
        BY <2>1, <3>1, <3>2 DEF JobOK, IndexSteps, PublishSteps, ScopeSteps
      <3>. QED  BY <2>0, <3>3
    <2>. QED  BY <1>2, <2>0, <2>2, Proceeded, Leaves DEF PreparePage
  <1>3. CASE SavePrepared(w)
    <2>1. 1..job[w].after \subseteq prepared /\ wave.state # "ready"
      BY <1>3 DEF SavePrepared, JobOK, IndexSteps
    <2>2. UNCHANGED <<prepared, marked, wave, manifest, receipt>>
      BY <1>3 DEF SavePrepared
    <2>3. CASE LastPage(w)
      <3>1. prepared = Pages
        BY <2>1, <2>3 DEF LastPage, Pages, TypeOK
      <3>. DEFINE update == [At(w, "publish") EXCEPT !.todo = Unsatisfied]
      <3>2. Save(w, "publish", 0, update)
        BY <1>3, <2>3 DEF SavePrepared
      <3>3. SamePosition \/ (lease'["index"].phase = "publish" /\ lease'["index"].after = 0)
        BY <3>2, Saved
      <3>4. LeaseInv'
        BY <2>2, <3>1, <3>3, PositionStays DEF LeaseInv
      <3>5. update.pc = "publish" /\ update.todo = Unsatisfied
        BY DEF At, TypeOK, Jobs
      <3>6. Unsatisfied' = Unsatisfied
        BY <2>2 DEF Unsatisfied, Valid
      <3>7. ASSUME job'[w] = update  PROVE JobOK(job[w])'
        BY <2>1, <2>2, <3>1, <3>5, <3>6, <3>7 DEF JobOK, IndexSteps, PublishSteps, ScopeSteps
      <3>. QED  BY <3>2, <3>4, <3>7, Saved, Leaves
    <2>4. ASSUME ~LastPage(w), NEW step \in {"prepare", "leaving"},
                 Save(w, "prepare", job[w].after, At(w, step))
          PROVE  JobOK(job[w])' /\ LeaseInv'
      <3>1. job[w].after < NPages
        BY <2>4 DEF LastPage
      <3>2. SamePosition \/ (lease'["index"].phase = "prepare" /\ lease'["index"].after = job[w].after)
        BY <2>4, Saved
      <3>3. LeaseInv'
        BY <2>1, <2>2, <3>1, <3>2, PositionStays DEF LeaseInv
      <3>4. ASSUME job'[w] = At(w, step)  PROVE JobOK(job[w])'
        <4>1. job'[w].pc = step /\ job'[w].after = job[w].after
          BY <3>4, JobFields
        <4>. QED  BY <2>1, <2>2, <2>4, <3>1, <4>1 DEF JobOK, IndexSteps, PublishSteps, ScopeSteps
      <3>. QED  BY <2>4, <3>3, <3>4, Saved, Leaves
    <2>. QED  BY <1>3, <2>3, <2>4 DEF SavePrepared, Cursor
  <1>. QED  BY <1>1, <1>2, <1>3

(* Publishing one scope: what is picked, uploaded and recorded has all        *)
(* members and prerequisites no older than the ones their receipts name.      *)
LEMMA PublishJobs ==
    ASSUME PublicationInv, [Next]_vars, NEW w \in Workers,
           \/ \E s \in Scopes : Pick(w, s)
           \/ Upload(w) \/ Copy(w) \/ Bind(w) \/ RecordReceipt(w) \/ SavePublished(w)
    PROVE  JobOK(job[w])' /\ LeaseInv'
  <1>. USE DEF ledgerVars, indexVars
  <1>. TypeOK /\ ProofInv /\ JobOK(job[w]) /\ Kept /\ TypeOK'
    BY Monotone, TypeStep DEF PublicationInv, JobInv
  <1>. job[w] \in Jobs
    BY DEF TypeOK
  (* Whatever the step, the worker keeps what it knew.                        *)
  <1>a. job[w].pc \in PublishSteps =>
            /\ wave'.state # "ready" /\ prepared' = Pages
            /\ Unsatisfied \subseteq job[w].todo /\ Unsatisfied' \subseteq Unsatisfied
    BY StaysValid DEF JobOK, IndexSteps, PublishSteps, Kept, TypeOK
  <1>b. job[w].pc \in ScopeSteps =>
            /\ job[w].scope \in Scopes /\ Ready(job[w].scope)
            /\ \A p \in Prerequisites[job[w].scope] : p \in Scopes /\ Valid(p)' /\ proof'[p] = proof[p]
    <2>1. SUFFICES ASSUME job[w].pc \in ScopeSteps
                   PROVE  \A p \in Prerequisites[job[w].scope] :
                              p \in Scopes /\ Valid(p)' /\ proof'[p] = proof[p]
      BY DEF JobOK
    <2>2. job[w].scope \in Scopes /\ Ready(job[w].scope)
      BY <2>1 DEF JobOK
    <2>. QED  BY <2>2, StaysValid, PublicationAssumption DEF Ready
  <1>1. ASSUME NEW s \in Scopes, Pick(w, s)  PROVE JobOK(job[w])' /\ LeaseInv'
    <2>0. LeaseInv'
      BY <1>1, PositionStays DEF Pick, SamePosition
    <2>1. Ready(s)' /\ UNCHANGED <<proof, wave, receipt>>
      BY <1>1, StaysValid DEF Pick
    <2>2. CASE Recorded(s) /\ job'[w] = [At(w, "returned") EXCEPT !.scope = s, !.copy = proof[s]]
      <3>1. /\ job'[w].pc = "returned" /\ job'[w].scope = s /\ job'[w].copy = proof[s]
            /\ job'[w].todo = job[w].todo
        BY <2>2 DEF At, Jobs
      <3>2. JobOK(job[w])'
        BY <1>1, <1>a, <2>1, <2>2, <3>1 DEF Pick, JobOK, IndexSteps, PublishSteps, ScopeSteps, Recorded
      <3>. QED  BY <2>0, <3>2
    <2>3. CASE job'[w] = [At(w, "pinned") EXCEPT !.scope = s, !.copy = alias[s]]
      <3>1. job'[w].pc = "pinned" /\ job'[w].scope = s /\ job'[w].todo = job[w].todo
        BY <2>3 DEF At, Jobs
      <3>2. JobOK(job[w])'
        BY <1>1, <1>a, <2>1, <3>1 DEF Pick, JobOK, IndexSteps, PublishSteps, ScopeSteps
      <3>. QED  BY <2>0, <3>2
    <2>. QED  BY <1>1, <2>0, <2>2, <2>3, Proceeded, Went, Leaves DEF Pick
  <1>2. CASE Upload(w)
    <2>. DEFINE s == job[w].scope
    <2>0. LeaseInv'
      BY <1>2, PositionStays DEF Upload, SamePosition
    <2>1. s \in Scopes /\ prepared = Pages
      BY <1>2, <1>b DEF Upload, JobOK, ScopeSteps, PublishSteps
    <2>2. ASSUME alias' = [alias EXCEPT ![s] = Built(s)],
                 job'[w] = [At(w, "uploaded") EXCEPT !.copy = Built(s)]
          PROVE  JobOK(job[w])'
      <3>1. /\ job'[w].pc = "uploaded" /\ job'[w].scope = s /\ job'[w].copy = Built(s)
            /\ job'[w].todo = job[w].todo
        BY <2>2 DEF At, Jobs
      <3>2. \A p \in Prerequisites[s] : Built(s).read[p] >= proof'[p].version
        <4>1. SUFFICES ASSUME NEW p \in Prerequisites[s]  PROVE alias[p].version >= proof'[p].version
          BY <1>2, <1>b DEF Built, Upload, ScopeSteps
        <4>2. p \in Scopes /\ proof'[p] = proof[p] /\ Recorded(p)
          BY <1>2, <1>b, ValidRecorded DEF Upload, ScopeSteps, Ready
        <4>. QED  BY <4>2 DEF ProofInv, TypeOK, Indexes
      <3>3. Built(s).pages = Pages /\ Built(s).version \in 2..alias'[s].version
        BY <2>1, <2>2 DEF Built, ProofInv, TypeOK, Indexes
      <3>4. UploadOK(job[w].scope, job[w].copy)'
        BY <3>1, <3>2, <3>3 DEF UploadOK
      <3>. QED  BY <1>2, <1>a, <1>b, <3>1, <3>4 DEF Upload, JobOK, IndexSteps, PublishSteps, ScopeSteps, Ready, Valid
    <2>. QED  BY <1>2, <2>0, <2>2, Proceeded, Went, Leaves DEF Upload
  <1>3. CASE Copy(w)
    <2>0. LeaseInv'
      BY <1>3, PositionStays DEF Copy, SamePosition
    <2>1. ASSUME job'[w] = At(w, "copied")  PROVE JobOK(job[w])'
      <3>1. /\ job'[w].pc = "copied" /\ job'[w].scope = job[w].scope
            /\ job'[w].copy = job[w].copy /\ job'[w].todo = job[w].todo
        BY <2>1, JobFields
      <3>2. UploadOK(job[w].scope, job[w].copy)'
        BY <1>3, <3>1 DEF Copy, JobOK, UploadOK
      <3>. QED  BY <1>3, <1>a, <1>b, <3>1, <3>2 DEF Copy, JobOK, IndexSteps, PublishSteps, ScopeSteps, Ready, Valid
    <2>. QED  BY <1>3, <2>0, <2>1, Proceeded, Went, Leaves DEF Copy
  <1>4. CASE Bind(w)
    <2>. DEFINE s == job[w].scope
    <2>0. LeaseInv'
      BY <1>4, PositionStays DEF Bind, SamePosition
    <2>1. ASSUME job'[w] = At(w, "returned"), proof' = [proof EXCEPT ![s] = job[w].copy]
          PROVE  JobOK(job[w])'
      <3>1. /\ job'[w].pc = "returned" /\ job'[w].scope = s
            /\ job'[w].copy = job[w].copy /\ job'[w].todo = job[w].todo
        BY <2>1, JobFields
      <3>2. proof'[s] = job[w].copy
        BY <1>4, <1>b, <2>1 DEF Bind, ScopeSteps, TypeOK
      <3>3. job[w].copy # NoIndex
        BY <1>4 DEF Bind, JobOK, UploadOK, NoIndex, TypeOK, Indexes
      <3>. QED  BY <1>4, <1>a, <1>b, <3>1, <3>2, <3>3
             DEF Bind, JobOK, IndexSteps, PublishSteps, ScopeSteps, Ready, Valid, Recorded
    <2>. QED  BY <1>4, <2>0, <2>1, Proceeded, Went, Leaves DEF Bind
  <1>5. CASE RecordReceipt(w)
    <2>. DEFINE s == job[w].scope
    <2>0. LeaseInv'
      BY <1>5, PositionStays DEF RecordReceipt, SamePosition
    <2>1. ASSUME receipt' = [receipt EXCEPT ![s] = job[w].copy.version],
                 job'[w] = [At(w, "received") EXCEPT !.todo = @ \ {s}, !.scope = NoScope, !.copy = NoIndex]
          PROVE  JobOK(job[w])'
      <3>1. job'[w].pc = "received" /\ job'[w].todo = job[w].todo \ {s}
        BY <2>1 DEF At, Jobs
      <3>2. receipt'[s] = proof[s].version /\ proof[s].version > Pending
        BY <1>5, <1>b, <2>1 DEF RecordReceipt, JobOK, ScopeSteps, ProofInv, Pending, TypeOK, Indexes
      <3>3. s \notin Unsatisfied'
        BY <3>2 DEF Unsatisfied, Valid
      <3>. QED  BY <1>5, <1>a, <3>1, <3>3 DEF RecordReceipt, JobOK, IndexSteps, PublishSteps, ScopeSteps
    <2>2. \/ job'[w].pc = "leaving"
          \/ /\ receipt' = [receipt EXCEPT ![s] = job[w].copy.version]
             /\ job'[w] = [At(w, "received") EXCEPT !.todo = @ \ {s}, !.scope = NoScope, !.copy = NoIndex]
      BY <1>5, Went DEF RecordReceipt, TypeOK
    <2>. QED  BY <2>0, <2>1, <2>2, Leaves
  <1>6. CASE SavePublished(w)
    <2>1. ASSUME NEW step \in {"members", "publish", "leaving"}, Save(w, "publish", 0, At(w, step))
          PROVE  JobOK(job[w])' /\ LeaseInv'
      <3>1. SamePosition \/ (lease'["index"].phase = "publish" /\ lease'["index"].after = 0)
        BY <2>1, Saved
      <3>2. LeaseInv'
        BY <1>6, <1>a, <3>1, PositionStays DEF LeaseInv, SavePublished, PublishSteps
      <3>3. ASSUME job'[w] = At(w, step)  PROVE JobOK(job[w])'
        <4>1. job'[w].pc = step /\ job'[w].todo = job[w].todo
          BY <3>3, JobFields
        <4>. QED  BY <1>6, <1>a, <2>1, <4>1 DEF SavePublished, JobOK, IndexSteps, PublishSteps, ScopeSteps
      <3>. QED  BY <2>1, <3>2, <3>3, Saved, Leaves
    <2>. QED  BY <1>6, <2>1 DEF SavePublished
  <1>. QED  BY <1>1, <1>2, <1>3, <1>4, <1>5, <1>6

(* Marking the members: the cursor counts marked pages, and marking starts    *)
(* and ends with the ledger complete.                                         *)
LEMMA MembersJobs ==
    ASSUME PublicationInv, [Next]_vars, NEW w \in Workers,
           StartMembers(w) \/ MarkPage(w) \/ SaveMarked(w) \/ CompleteIndexing(w)
    PROVE  JobOK(job[w])' /\ LeaseInv'
  <1>. USE DEF ledgerVars, indexVars
  <1>. TypeOK /\ JobOK(job[w]) /\ Kept /\ TypeOK'
    BY Monotone, TypeStep DEF PublicationInv, JobInv
  <1>. job[w].after \in 0..NPages /\ job[w] \in Jobs /\ NPages \in Nat \ {0}
    BY PublicationAssumption DEF TypeOK, Jobs
  <1>a. /\ job[w].pc \in IndexSteps => wave.state # "ready" /\ wave'.state # "ready"
        /\ LedgerDone => LedgerDone'
    BY StaysValid DEF JobOK, Kept
  <1>1. CASE StartMembers(w)
    <2>1. CASE LedgerComplete
      <3>. DEFINE update == [At(w, "mark") EXCEPT !.after = 0]
      <3>1. Save(w, "members", 0, update)
        BY <1>1, <2>1 DEF StartMembers
      <3>2. LedgerDone'
        BY <1>1, <1>a, <2>1 DEF StartMembers, LedgerDone, IndexSteps
      <3>3. SamePosition \/ (lease'["index"].phase = "members" /\ lease'["index"].after = 0)
        BY <3>1, Saved
      <3>4. LeaseInv'
        BY <3>2, <3>3, PositionStays DEF LeaseInv
      <3>5. ASSUME job'[w] = update  PROVE JobOK(job[w])'
        <4>1. job'[w].pc = "mark" /\ job'[w].after = 0
          BY <3>5 DEF At, Jobs
        <4>. QED  BY <1>1, <1>a, <3>2, <4>1 DEF StartMembers, JobOK, IndexSteps, PublishSteps, ScopeSteps
      <3>. QED  BY <3>1, <3>4, <3>5, Saved, Leaves
    <2>2. CASE ~LedgerComplete
      BY <1>1, <2>2, Went, Leaves, PositionStays DEF StartMembers, SamePosition
    <2>. QED  BY <2>1, <2>2
  <1>2. CASE MarkPage(w)
    <2>0. LeaseInv'
      BY <1>2, PositionStays DEF MarkPage, SamePosition
    <2>1. LedgerDone' /\ 1..job[w].after \subseteq marked
      BY <1>2, <1>a DEF MarkPage, JobOK
    <2>2. ASSUME LastPage(w), job'[w] = At(w, "complete")  PROVE JobOK(job[w])'
      <3>1. job'[w].pc = "complete"
        BY <2>2, JobFields
      <3>2. marked' = Pages
        BY <2>1, <2>2 DEF LastPage, Pages, TypeOK, Kept
      <3>. QED  BY <1>2, <1>a, <3>1, <3>2 DEF MarkPage, JobOK, IndexSteps, PublishSteps, ScopeSteps
    <2>3. ASSUME marked' = marked \cup {job[w].after + 1},
                 job'[w] = [At(w, "marked") EXCEPT !.after = @ + 1]
          PROVE  JobOK(job[w])'
      <3>1. job'[w].pc = "marked" /\ job'[w].after = job[w].after + 1
        BY <2>3 DEF At, Jobs
      <3>2. 1..(job[w].after + 1) \subseteq marked'
        BY <2>1, <2>3
      <3>. QED  BY <1>2, <1>a, <2>1, <3>1, <3>2 DEF MarkPage, JobOK, IndexSteps, PublishSteps, ScopeSteps
    <2>4. \/ job'[w].pc = "leaving"
          \/ LastPage(w) /\ job'[w] = At(w, "complete")
          \/ /\ marked' = marked \cup {job[w].after + 1}
             /\ job'[w] = [At(w, "marked") EXCEPT !.after = @ + 1]
      BY <1>2, Proceeded, Went DEF MarkPage, TypeOK
    <2>. QED  BY <2>0, <2>2, <2>3, <2>4, Leaves
  <1>3. CASE SaveMarked(w)
    <2>1. LedgerDone' /\ 1..job[w].after \subseteq marked /\ UNCHANGED marked
      BY <1>3, <1>a DEF SaveMarked, JobOK
    <2>2. ASSUME NEW step \in {"mark", "leaving"}, Save(w, "members", job[w].after, At(w, step))
          PROVE  JobOK(job[w])' /\ LeaseInv'
      <3>1. SamePosition \/ (lease'["index"].phase = "members" /\ lease'["index"].after = job[w].after)
        BY <2>2, Saved
      <3>2. LeaseInv'
        BY <2>1, <3>1, PositionStays DEF LeaseInv
      <3>3. ASSUME job'[w] = At(w, step)  PROVE JobOK(job[w])'
        <4>1. job'[w].pc = step /\ job'[w].after = job[w].after
          BY <3>3, JobFields
        <4>. QED  BY <1>3, <1>a, <2>1, <2>2, <4>1 DEF SaveMarked, JobOK, IndexSteps, PublishSteps, ScopeSteps
      <3>. QED  BY <2>2, <3>2, <3>3, Saved, Leaves
    <2>. QED  BY <1>3, <2>2 DEF SaveMarked, Cursor
  <1>4. CASE CompleteIndexing(w)
    <2>1. job'[w].pc \in {"finish", "leaving"}
      BY <1>4, Went DEF CompleteIndexing
    <2>. QED  BY <1>4, <2>1, Leaves, PositionStays DEF CompleteIndexing, SamePosition
  <1>. QED  BY <1>1, <1>2, <1>3, <1>4

(* The strengthened invariant is inductive.                                   *)
LEMMA PublicationInit == Init => PublicationInv
  <1>. SUFFICES ASSUME Init  PROVE PublicationInv
    OBVIOUS
  <1>. NPages \in Nat \ {0} /\ MaxDisturb \in Nat /\ 0 \in 0..NPages
    BY PublicationAssumption
  <1>1. TypeOK
    <2>1. [NoIndex EXCEPT !.version = 1] \in Indexes
      BY DEF NoIndex, Indexes
    <2>2. alias \in [Scopes -> Indexes] /\ proof \in [Scopes -> Indexes]
      BY <2>1, IdleTypes DEF Init
    <2>3. job \in [Workers -> Jobs]
      BY IdleTypes DEF Init
    <2>4. lease \in [Stages -> LeaseRows]
      BY DEF Init, LeaseRows
    <2>5. receipt \in [Scopes -> Nat] /\ manifest = None /\ disturb \in 0..MaxDisturb
      BY DEF Init, Absent
    <2>. QED  BY <2>2, <2>3, <2>4, <2>5 DEF Init, TypeOK
  <1>2. BoundInv /\ ReceiptsMatchProofs /\ BuiltInOrder
    BY DEF Init, BoundInv, ReceiptsMatchProofs, Valid, Absent, Pending, BuiltInOrder, Recorded
  <1>3. ProofInv
    <2>1. \A s \in Scopes : alias[s].version = 1
      BY DEF Init, NoIndex
    <2>. QED  BY <2>1 DEF Init, ProofInv, Recorded
  <1>4. LeaseInv
    <2>1. lease["index"].phase = "prepare" /\ lease["index"].after = 0
      BY DEF Init, Stages
    <2>. QED  BY <2>1 DEF LeaseInv
  <1>5. JobInv
    BY DEF Init, JobInv, JobOK, Idle, IndexSteps, PublishSteps, ScopeSteps
  <1>6. CompleteInv
    BY DEF Init, CompleteInv
  <1>. QED  BY <1>1, <1>2, <1>3, <1>4, <1>5, <1>6 DEF PublicationInv

(* Every step keeps what workers and the saved position claim. *)
LEMMA JobLeaseStep ==
    ASSUME PublicationInv, [Next]_vars
    PROVE  JobInv' /\ LeaseInv'
  <1>. USE DEF ledgerVars, indexVars
  <1>. TypeOK
    BY DEF PublicationInv
  <1>1. ASSUME NEW w \in Workers, Step(w)  PROVE JobInv' /\ LeaseInv'
    <2>1. JobOK(job[w])' /\ LeaseInv'
      BY <1>1, ClusterJobs, PrepareJobs, PublishJobs, MembersJobs DEF Step
    <2>2. ASSUME NEW v \in Workers, v # w  PROVE job'[v] = job[v]
      BY <1>1, <2>2 DEF TypeOK, Step, Claim, Capture, CreateRow, CommitAssignment, Verify, PreparePage,
            SavePrepared, Pick, Upload, Copy, Bind, RecordReceipt, SavePublished, StartMembers, MarkPage,
            SaveMarked, CompleteIndexing, Finish, Leave, Goto, Proceed, Save
    <2>. QED  BY <2>1, <2>2, JobStays DEF JobInv
  <1>2. ASSUME NEW w \in Workers, Crash(w)  PROVE JobInv' /\ LeaseInv'
    <2>1. LeaseInv'
      BY <1>2, PositionStays DEF Crash, SamePosition
    <2>2. job'[w].pc = "idle"
      BY <1>2 DEF Crash, TypeOK, Idle
    <2>3. \A v \in Workers : v # w => job'[v] = job[v]
      BY <1>2 DEF Crash, TypeOK
    <2>. QED  BY <2>1, <2>2, <2>3, Leaves, JobStays DEF JobInv
  <1>3. CASE UNCHANGED job /\ SamePosition
    BY <1>3, JobStays, PositionStays DEF JobInv
  <1>4. ASSUME NEW t \in Stages, LeaseLapses(t)  PROVE UNCHANGED job /\ SamePosition
    BY <1>4 DEF LeaseLapses, SamePosition, TypeOK, Stages, LeaseRows
  <1>5. CatalogLapses \/ (\E s \in Scopes : Overwrite(s)) \/ (\E set \in Sets : Deploy(set)) \/ UNCHANGED vars
            => UNCHANGED job /\ SamePosition
    BY DEF CatalogLapses, Overwrite, Deploy, vars, SamePosition
  <1>. QED  BY <1>1, <1>2, <1>3, <1>4, <1>5 DEF Next

(* A wave completes only over what the index lease recorded. *)
LEMMA CompleteStep ==
    ASSUME PublicationInv, [Next]_vars
    PROVE  CompleteInv'
  <1>. USE DEF ledgerVars, indexVars
  <1>. TypeOK /\ TypeOK' /\ Kept /\ JobInv /\ CompleteInv
    BY Monotone, TypeStep DEF PublicationInv
  <1>1. CASE wave.state = "complete"
    <2>1. marked' = Pages
      BY <1>1 DEF CompleteInv, Kept, TypeOK
    <2>2. LedgerComplete'
      BY <1>1, StaysValid DEF CompleteInv, LedgerDone
    <2>. QED  BY <2>1, <2>2 DEF CompleteInv
  <1>2. CASE wave'.state # "complete"
    BY <1>2 DEF CompleteInv
  <1>3. ASSUME NEW w \in Workers, CompleteIndexing(w), wave'.state = "complete", wave.state # "complete"
        PROVE  CompleteInv'
    <2>1. marked = Pages /\ LedgerDone
      BY <1>3 DEF CompleteIndexing, JobInv, JobOK, LedgerDone
    <2>. QED  BY <1>3, <2>1, StaysValid DEF CompleteIndexing, CompleteInv, LedgerDone
  <1>4. ASSUME NEW w \in Workers, Step(w)
        PROVE  UNCHANGED wave \/ CommitAssignment(w) \/ CompleteIndexing(w)
    BY <1>4 DEF Step, Claim, Capture, CreateRow, Verify, PreparePage, SavePrepared, Pick,
                Upload, Copy, Bind, RecordReceipt, SavePublished, StartMembers, MarkPage, SaveMarked, Finish, Leave
  <1>6. ASSUME NEW w \in Workers, CommitAssignment(w)
        PROVE  UNCHANGED wave \/ wave'.state = "indexing"
    BY <1>6 DEF CommitAssignment
  <1>5. Disturbance \/ UNCHANGED vars => UNCHANGED wave
    BY DEF Disturbance, Crash, LeaseLapses, CatalogLapses, Overwrite, Deploy, vars
  <1>. QED  BY <1>1, <1>2, <1>3, <1>4, <1>5, <1>6 DEF Next, Disturbance

-----------------------------------------------------------------------------
(* PublicationInv is an inductive invariant of the specification.             *)
THEOREM PublicationInvariant == Spec => []PublicationInv
  <1>1. Init => PublicationInv
    BY PublicationInit
  <1>2. PublicationInv /\ [Next]_vars => PublicationInv'
    BY TypeStep, BoundStep, LedgerInvStep, JobLeaseStep, CompleteStep DEF PublicationInv
  <1>. QED  BY <1>1, <1>2, PTL DEF Spec

(* The variables of the publication protocol keep their types.                *)
THEOREM PublicationTypes == Spec => []TypeOK
  BY PublicationInvariant, PTL DEF PublicationInv

(* A receipt names the one generation recorded for its obligation, whoever    *)
(* wrote it and however many deliveries raced.                                *)
THEOREM ReceiptsNameProofs == Spec => []ReceiptsMatchProofs
  BY PublicationInvariant, PTL DEF PublicationInv

(* A recorded generation read its prerequisites at generations no older than  *)
(* the ones their receipts name, for every prerequisite graph.                *)
THEOREM PublishedInOrder == Spec => []BuiltInOrder
  BY PublicationInvariant, PTL DEF PublicationInv

(* complete_indexing completes the wave only when every index of the captured *)
(* set has a receipt, is built from all pages of members and every page is    *)
(* marked.                                                                    *)
THEOREM CompletionIsCovered == Spec => []CompletionCovers
  <1>1. PublicationInv => CompletionCovers
    <2>1. SUFFICES ASSUME PublicationInv, wave.state = "complete"  PROVE CompletionCovers
      BY DEF CompletionCovers
    <2>2. wave.bound = manifest /\ manifest # None /\ marked = Pages /\ Unsatisfied = {}
      BY <2>1 DEF PublicationInv, BoundInv, CompleteInv, LedgerComplete
    <2>3. manifest \subseteq Scopes
      BY <2>1, <2>2, SetsAreScopes DEF PublicationInv, TypeOK
    <2>4. ASSUME NEW s \in manifest  PROVE Valid(s) /\ proof[s].pages = Pages
      <3>1. s \in Scopes /\ Valid(s)
        BY <2>2, <2>3 DEF Unsatisfied
      <3>. QED  BY <2>1, <3>1, ValidRecorded DEF PublicationInv, ProofInv
    <2>. QED  BY <2>2, <2>4 DEF CompletionCovers
  <1>. QED  BY <1>1, PublicationInvariant, PTL

(* No step rewrites the captured set, the bound set, a satisfied receipt or a *)
(* recorded proof.                                                            *)
THEOREM LedgerWrittenOnce == Spec => WrittenOnce
  <1>1. PublicationInv /\ [Next]_vars =>
            [/\ manifest # None => manifest' = manifest
             /\ wave.bound # None => wave'.bound = wave.bound
             /\ \A s \in Scopes : Valid(s) => receipt'[s] = receipt[s]
             /\ \A s \in Scopes : Recorded(s) => proof'[s] = proof[s]]_vars
    <2>1. SUFFICES ASSUME PublicationInv, [Next]_vars
                   PROVE  /\ manifest # None => manifest' = manifest
                          /\ wave.bound # None => wave'.bound = wave.bound
                          /\ \A s \in Scopes : Valid(s) => receipt'[s] = receipt[s]
                          /\ \A s \in Scopes : Recorded(s) => proof'[s] = proof[s]
      OBVIOUS
    <2>2. wave.bound # None => wave.state # "ready"
      BY <2>1 DEF PublicationInv, BoundInv
    <2>. QED  BY <2>1, <2>2, Monotone DEF Kept
  <1>. QED  BY <1>1, PublicationInvariant, PTL DEF Spec, WrittenOnce

(* A worker that still has obligations to publish always finds one whose      *)
(* prerequisites are published: run_index_release's "no ready obligation"     *)
(* exit (Stuck) is never taken, for every acyclic prerequisite graph.         *)
CanAdvance ==
    \A w \in Workers : job[w].pc = "publish" /\ job[w].todo # {} => \E s \in job[w].todo : Ready(s)

(* The "no ready obligation" exit of run_index_release is unreachable. *)
THEOREM NeverStuck == Spec => []CanAdvance
  <1>1. ASSUME PublicationInv, NEW w \in Workers, job[w].pc = "publish", job[w].todo # {}
        PROVE  \E s \in job[w].todo : Ready(s)
    <2>. DEFINE todo == job[w].todo
    <2>1. todo \subseteq Scopes /\ Unsatisfied \subseteq todo /\ wave.bound = manifest /\ manifest \in Sets
      BY <1>1, IndexKnows DEF PublicationInv, JobInv, JobOK, TypeOK, Jobs, PublishSteps, IndexSteps
    <2>2. PICK rank \in [Scopes -> 1..Cardinality(Scopes)] :
              \A s \in Scopes : \A p \in Prerequisites[s] : rank[p] < rank[s]
      BY PublicationAssumption
    <2>3. PICK s \in todo : \A p \in todo : ~(rank[p] < rank[s])
      <3>. DEFINE ranks == {rank[s] : s \in todo}
      <3>1. ranks \subseteq Nat /\ ranks # {}
        BY <1>1, <2>1, <2>2
      <3>2. \E n \in ranks : \A m \in ranks : ~(<<m, n>> \in OpToRel(<, Nat))
        BY <3>1, WFMin, NatLessThanWellFounded
      <3>3. \E n \in ranks : \A m \in ranks : ~(m < n)
        BY <3>1, <3>2 DEF OpToRel
      <3>. QED  BY <3>3
    <2>4. ASSUME NEW p \in Prerequisites[s]  PROVE Valid(p)
      <3>1. p \in Scopes /\ p \notin todo /\ p \in wave.bound
        BY <2>1, <2>2, <2>3, SetsAreScopes
      <3>. QED  BY <2>1, <3>1 DEF Unsatisfied
    <2>. QED  BY <2>4 DEF Ready
  <1>2. PublicationInv => CanAdvance
    BY <1>1 DEF CanAdvance
  <1>. QED  BY <1>2, PublicationInvariant, PTL
=============================================================================
