--------------------------- MODULE IndexCoverage ---------------------------
(***************************************************************************)
(* The coverage ledger of one automatic artifact of one library: source    *)
(* writers reserve before they write and advance the revision after, and a *)
(* builder certifies the revision it captured idle, by compare-and-swap,   *)
(* after it published.  An operator may fence the library, prove that its  *)
(* writers stopped and reset the ledger.                                   *)
(*                                                                         *)
(* Abstractions.  A source row is its version and the artifact the version *)
(* of each row it was built from.  A fresh revision or ETag of the control *)
(* row is the next number of its ETag; a dirty row's ETag is the revision  *)
(* of the transaction that upserted it; a manifest's sourceVersion is the  *)
(* ETag it was committed under, so two builds never share one.  A          *)
(* reservation row is named by its writer, who crashes with it.            *)
(* The work intent keeps whether a request moved its revision since it was *)
(* claimed: IndexIntents models the row.  lock is the library's catalog    *)
(* lease; a check of it and the storage call it guards are two steps.  A   *)
(* stalled builder has outlived its lease and its claim, unknowingly.      *)
(* A dirty touch is the conditional one of the vector, tag and lexical    *)
(* indexes.                                                                *)
(***************************************************************************)
EXTENDS Integers, FiniteSets

CONSTANTS Ids,          \* source rows the artifact is built from
          WriteSets,    \* the rows one write call may touch together
          Writers,      \* source writers of the library
          Builders,     \* index workers
          Operator, Nobody,
          Page,         \* ids one transaction holds beside the control row
          Limit,        \* LIMIT: dirty rows one capture holds
          MaxWrites, MaxDisturb, MaxStalls, MaxFences, MaxLost   \* bounds

ASSUME CoverageAssumption ==
    /\ IsFiniteSet(Ids) /\ WriteSets \subseteq SUBSET Ids \ {{}}
    /\ Nobody \notin Builders /\ Operator \notin Builders /\ Nobody # Operator
    /\ Page \in Nat \ {0} /\ Limit \in Nat
    /\ {MaxWrites, MaxDisturb, MaxStalls, MaxFences, MaxLost} \subseteq Nat

VARIABLES
    source,    \* version of each source row
    control,   \* the !coverage row
    dirty,     \* revision of each id- row, 0 when there is none
    res,       \* writers whose res- row is stored
    manifest,  \* the artifact's pointer and what it points to
    intent,    \* the WorkStore row of the scope
    lock,      \* holder of the catalog lease
    fence,     \* the operator's quiescence row
    writer,    \* each source write in progress
    build,     \* each build in progress
    touch,     \* the manifest a dirty touch has read
    spent      \* what the bounds count

vars == <<source, control, dirty, res, manifest, intent, lock, fence, writer, build, touch, spent>>

Versions == [Ids -> Nat]
Control == [rev: Nat, etag: Nat, active: Nat, full: BOOLEAN, base: Nat, covered: Nat]
Manifest == [etag: Nat, ver: Nat, rows: Versions]
Intent == [state: {"none", "pending"}, owner: Builders \cup {Nobody}, moved: BOOLEAN]
Fence == {"none", "armed", "proven", "resetting"}

WriteSteps == {"idle", "schedule", "begin", "page", "fence", "write", "finish", "again", "reschedule", "dead"}
Write == [pc: WriteSteps, left: SUBSET Ids, ids: SUBSET Ids,
          unsure: BOOLEAN, wave: BOOLEAN, ok: BOOLEAN]
NoWrite == [pc |-> "idle", left |-> {}, ids |-> {}, unsure |-> FALSE, wave |-> FALSE, ok |-> FALSE]

BuildSteps == {"idle", "lock", "control", "rows", "open", "read", "commit", "base", "cas",
               "acking", "drain", "drained", "finish", "defer"}
Build == [pc: BuildSteps, cap: Control, ids: Versions, more: BOOLEAN,
          full: BOOLEAN, prev: Nat, tag: Nat, rows: Versions, todo: SUBSET Ids, base: Nat]
Blank == [i \in Ids |-> 0]
NoControl == [rev |-> 0, etag |-> 0, active |-> 0, full |-> FALSE, base |-> 0, covered |-> 0]
NoBuild == [pc |-> "idle", cap |-> NoControl, ids |-> Blank, more |-> FALSE,
            full |-> FALSE, prev |-> 0, tag |-> 0, rows |-> Blank, todo |-> {}, base |-> 0]
NoTouch == [open |-> FALSE, seen |-> [etag |-> 0, ver |-> 0, rows |-> Blank]]
Bounds == [writes: Nat, disturb: Nat, stalls: Nat, fences: Nat, lost: Nat]

TypeOK ==
    /\ source \in Versions /\ control \in Control /\ dirty \in Versions
    /\ res \subseteq Writers /\ manifest \in Manifest /\ intent \in Intent
    /\ lock \in Builders \cup {Operator, Nobody} /\ fence \in Fence
    /\ writer \in [Writers -> Write] /\ build \in [Builders -> Build]
    /\ touch \in [open: BOOLEAN, seen: Manifest] /\ spent \in Bounds

Init ==
    /\ source = Blank
    /\ control = [NoControl EXCEPT !.rev = 1, !.etag = 1, !.full = TRUE]
    /\ dirty = Blank
    /\ res = {}
    /\ manifest = NoTouch.seen
    /\ intent = [state |-> "none", owner |-> Nobody, moved |-> FALSE]
    /\ lock = Nobody
    /\ fence = "none"
    /\ writer = [w \in Writers |-> NoWrite]
    /\ build = [b \in Builders |-> NoBuild]
    /\ touch = NoTouch
    /\ spent = [writes |-> 0, disturb |-> 0, stalls |-> 0, fences |-> 0, lost |-> 0]

(***************************************************************************)
(* The ledger's operations.                                                *)
(***************************************************************************)
(* One transaction: the row advances to a fresh revision with the changes,
   and the ids of the page are dirty at that revision. *)
Change(row, ids) ==
    LET next == control.etag + 1
    IN  /\ control' = [row EXCEPT !.rev = next, !.etag = next]
        /\ dirty' = [i \in Ids |-> IF i \in ids THEN next ELSE dirty[i]]

Dirty(rows) == {i \in Ids : rows[i] # 0}
Pages(ids) == {p \in SUBSET ids : Cardinality(p) = Page \/ (p = ids /\ Cardinality(p) < Page)}
Captures == {s \in SUBSET Dirty(dirty) :
                Cardinality(s) = Limit \/ (s = Dirty(dirty) /\ Cardinality(s) < Limit)}
Rows(ids) == [i \in Ids |-> IF i \in ids THEN dirty[i] ELSE 0]

(* Fault: a begin that applies its change on every page. *)
ReservedPerPage(row, w, first) == [row EXCEPT !.active = @ + 1, !.full = @ \/ writer[w].unsure]

(* What a begin changes, on its first page only; what a finish changes. *)
Reserved(row, w, first) ==
    IF first THEN [row EXCEPT !.active = @ + 1, !.full = @ \/ writer[w].unsure] ELSE row
Released(row, w) == [row EXCEPT !.active = @ - 1, !.full = @ \/ ~writer[w].ok]

(* WorkStore.request: a fresh revision, which a live claim is not of. *)
Requested == [intent EXCEPT !.state = "pending", !.moved = TRUE]
Disturb == spent.disturb < MaxDisturb /\ spent' = [spent EXCEPT !.disturb = @ + 1]

(* A transaction is stored but answered 5xx, so the table client sends it again
   and meets the ETag of its own commit. *)
LoseReply ==
    /\ spent.disturb < MaxDisturb /\ spent.lost < MaxLost
    /\ spent' = [spent EXCEPT !.disturb = @ + 1, !.lost = @ + 1]

(***************************************************************************)
(* Source writers: SourceTable's write, and the scopes that share one      *)
(* reservation over the writes of a wave.                                  *)
(***************************************************************************)
writerVars == <<source, control, dirty, res, intent, writer>>
builderVars == <<manifest, lock, build>>
operatorVars == <<fence, touch>>

(* Admission, and what the write declares: exactly the rows it will touch, or
   what it saw of them and that it cannot be sure.  A wave-owned write drops
   its ids and schedules nothing. *)
StartWrite(w) ==
    /\ writer[w].pc = "idle" /\ fence = "none" /\ spent.writes < MaxWrites
    /\ \E ids \in WriteSets \cup {{}}, unsure, wave \in BOOLEAN :
         /\ ids # {} \/ unsure
         /\ wave => unsure /\ ids = {}
         /\ writer' = [writer EXCEPT ![w] = [NoWrite EXCEPT
                !.pc = IF wave THEN "begin" ELSE "schedule",
                !.left = ids, !.ids = IF unsure THEN {} ELSE ids, !.unsure = unsure, !.wave = wave]]
    /\ spent' = [spent EXCEPT !.writes = @ + 1]
    /\ UNCHANGED <<source, control, dirty, res, intent, builderVars, operatorVars>>

Schedule(w) ==
    /\ writer[w].pc = "schedule"
    /\ intent' = Requested
    /\ writer' = [writer EXCEPT ![w].pc = "begin"]
    /\ UNCHANGED <<source, control, dirty, res, builderVars, operatorVars, spent>>

(* The first page carries the reservation; every page advances the revision. *)
Begin(w) ==
    /\ writer[w].pc = "begin"
    /\ \E page \in Pages(writer[w].left) :
         /\ Change(Reserved(control, w, TRUE), page)
         /\ writer' = [writer EXCEPT ![w].left = @ \ page,
                ![w].pc = IF writer[w].left = page THEN "fence" ELSE "page"]
    /\ res' = res \cup {w}
    /\ UNCHANGED <<source, intent, builderVars, operatorVars, spent>>

BeginPage(w) ==
    /\ writer[w].pc = "page"
    /\ \E page \in Pages(writer[w].left) :
         /\ Change(Reserved(control, w, FALSE), page)
         /\ writer' = [writer EXCEPT ![w].left = @ \ page,
                ![w].pc = IF writer[w].left = page THEN "fence" ELSE "page"]
    /\ UNCHANGED <<source, res, intent, builderVars, operatorVars, spent>>

(* _change reads the row again and applies the whole change once more. *)
BeginResent(w) ==
    /\ writer[w].pc = "begin" /\ LoseReply
    /\ \E page \in Pages(writer[w].left) : Change(Reserved(control, w, TRUE), page)
    /\ res' = res \cup {w}
    /\ UNCHANGED <<source, intent, writer, builderVars, operatorVars>>

(* The final fence check precedes the source write. *)
CheckFence(w) ==
    /\ writer[w].pc = "fence"
    /\ writer' = [writer EXCEPT ![w].pc = IF fence = "none" THEN "write" ELSE "finish", ![w].ok = FALSE]
    /\ UNCHANGED <<source, control, dirty, res, intent, builderVars, operatorVars, spent>>

(* A declared write touches what it declared; one that was unsure may have
   found other rows, of owners that changed since its pre-read. *)
Wrote(w) ==
    \E rows \in (IF writer[w].unsure THEN WriteSets ELSE {writer[w].ids}) :
        source' = [i \in Ids |-> IF i \in rows THEN source[i] + 1 ELSE source[i]]

WriteSource(w) ==
    /\ writer[w].pc = "write"
    /\ Wrote(w)
    /\ writer' = [writer EXCEPT ![w].pc = "finish", ![w].ok = TRUE]
    /\ UNCHANGED <<control, dirty, res, intent, builderVars, operatorVars, spent>>

(* The call raised; the write may have been committed all the same. *)
FailSource(w) ==
    /\ writer[w].pc = "write" /\ Disturb
    /\ Wrote(w) \/ source' = source
    /\ writer' = [writer EXCEPT ![w].pc = "finish", ![w].ok = FALSE]
    /\ UNCHANGED <<control, dirty, res, intent, builderVars, operatorVars>>

(* A coalesced scope writes again under the reservation it holds. *)
WriteMore(w) ==
    /\ writer[w].pc = "finish" /\ writer[w].wave /\ writer[w].ok
    /\ spent.writes < MaxWrites /\ fence = "none"
    /\ spent' = [spent EXCEPT !.writes = @ + 1]
    /\ writer' = [writer EXCEPT ![w].pc = "fence"]
    /\ UNCHANGED <<source, control, dirty, res, intent, builderVars, operatorVars>>

(* complete refuses to take from a count that is not there: the finish raises
   and leaves its row. *)
Balanced == control.active > 0

(* The reservation row and the count go in one transaction. *)
Finish(w) ==
    /\ writer[w].pc = "finish"
    /\ IF Balanced THEN Change(Released(control, w), {}) /\ res' = res \ {w}
       ELSE UNCHANGED <<control, dirty, res>>
    /\ writer' = [writer EXCEPT ![w] = IF @.wave THEN NoWrite ELSE [NoWrite EXCEPT !.pc = "reschedule"]]
    /\ UNCHANGED <<source, intent, builderVars, operatorVars, spent>>

(* The reservation row is gone, so the whole batch is refused as not found, and
   finish counts down without it: whose count that is, it does not know. *)
FinishResent(w) ==
    /\ writer[w].pc = "finish" /\ Balanced /\ LoseReply
    /\ Change(Released(control, w), {})
    /\ res' = res \ {w}
    /\ writer' = [writer EXCEPT ![w].pc = "again"]
    /\ UNCHANGED <<source, intent, builderVars, operatorVars>>

FinishAgain(w) ==
    /\ writer[w].pc = "again"
    /\ IF Balanced THEN Change(Released(control, w), {}) ELSE UNCHANGED <<control, dirty>>
    /\ writer' = [writer EXCEPT ![w] = IF @.wave THEN NoWrite ELSE [NoWrite EXCEPT !.pc = "reschedule"]]
    /\ UNCHANGED <<source, res, intent, builderVars, operatorVars, spent>>

Reschedule(w) ==
    /\ writer[w].pc = "reschedule"
    /\ intent' = Requested
    /\ writer' = [writer EXCEPT ![w] = NoWrite]
    /\ UNCHANGED <<source, control, dirty, res, builderVars, operatorVars, spent>>

(* SIGKILL, or a begin whose later page failed: what is stored stays. *)
KillWriter(w) ==
    /\ writer[w].pc \notin {"idle", "dead"} /\ Disturb
    /\ writer' = [writer EXCEPT ![w] = [NoWrite EXCEPT !.pc = "dead"]]
    /\ UNCHANGED <<source, control, dirty, res, intent, builderVars, operatorVars>>

WriterStep(w) ==
    \/ Schedule(w) \/ Begin(w) \/ BeginPage(w) \/ CheckFence(w) \/ WriteSource(w)
    \/ Finish(w) \/ FinishAgain(w) \/ Reschedule(w)

(* wave_pending: a guarded wave is still publishing. *)
WavePending == \E w \in Writers : writer[w].wave

(***************************************************************************)
(* Builders: one maintenance delivery, run() under the catalog lease.      *)
(***************************************************************************)
At(b, pc) == build[b].pc = pc
Go(b, pc) == build' = [build EXCEPT ![b].pc = pc]
ledgerVars == <<source, control, dirty, res>>

(* Leaving run() releases the lease; leaving the delivery releases the claim. *)
Unlocked(b) == IF lock = b THEN Nobody ELSE lock
Disowned(b) == IF intent.owner = b THEN [intent EXCEPT !.owner = Nobody] ELSE intent
GiveUp(b) ==
    /\ build' = [build EXCEPT ![b] = NoBuild]
    /\ lock' = Unlocked(b)
    /\ intent' = Disowned(b)

Claim(b) ==
    /\ build[b].pc = "idle" /\ intent.state = "pending" /\ intent.owner = Nobody
    /\ intent' = [intent EXCEPT !.owner = b, !.moved = FALSE]
    /\ build' = [build EXCEPT ![b] = [NoBuild EXCEPT !.pc = "lock"]]
    /\ UNCHANGED <<ledgerVars, manifest, lock, operatorVars, writer, spent>>

Lock(b) ==
    /\ At(b, "lock") /\ lock = Nobody
    /\ IF fence # "none" \/ WavePending
       THEN GiveUp(b)
       ELSE lock' = b /\ Go(b, "control") /\ UNCHANGED intent
    /\ UNCHANGED <<ledgerVars, manifest, operatorVars, writer, spent>>

(* Fault: reservations that time out. *)
NeverBusy == FALSE

(* A source writer is between its begin and its finish, or died there. *)
Busy == control.active > 0

CaptureControl(b) ==
    /\ At(b, "control")
    /\ IF Busy
       THEN GiveUp(b)
       ELSE build' = [build EXCEPT ![b].pc = "rows", ![b].cap = control] /\ UNCHANGED <<lock, intent>>
    /\ UNCHANGED <<ledgerVars, manifest, operatorVars, writer, spent>>

(* check(): the control row is the version that was captured. *)
Unchanged(b) == control.etag = build[b].cap.etag /\ ~Busy

(* The dirty rows, at most LIMIT of them, and what to do about them: a full
   build unless the pointer is the certified base, nothing if it covers the
   revision and no row is dirty. *)
CaptureDirty(b) ==
    LET cap == build[b].cap
    IN  /\ At(b, "rows")
        /\ \E ids \in Captures :
             LET more == ids # Dirty(dirty)
                 full == cap.full \/ manifest.ver = 0 \/ manifest.ver # cap.base \/ more
             IN  IF ~full /\ ids = {} /\ cap.covered = cap.rev
                 THEN Go(b, "finish") /\ UNCHANGED <<lock, intent>>
                 ELSE IF Unchanged(b)
                 THEN /\ build' = [build EXCEPT ![b].pc = "open", ![b].ids = Rows(ids),
                            ![b].more = more, ![b].full = full, ![b].prev = manifest.ver]
                      /\ UNCHANGED <<lock, intent>>
                 ELSE GiveUp(b)
        /\ UNCHANGED <<ledgerVars, manifest, operatorVars, writer, spent>>

(* The manifest's ETag is captured before any source row is read.  A full
   build reads every row, an incremental one re-reads the captured ids over
   the base it requires the manifest still to be at. *)
Open(b) ==
    /\ At(b, "open")
    /\ IF ~build[b].full /\ manifest.ver # build[b].prev
       THEN Go(b, "defer")
       ELSE build' = [build EXCEPT ![b].pc = "read", ![b].tag = manifest.etag,
                ![b].rows = IF build[b].full THEN Blank ELSE manifest.rows,
                ![b].todo = IF build[b].full THEN Ids ELSE Dirty(build[b].ids)]
    /\ UNCHANGED <<ledgerVars, manifest, lock, intent, operatorVars, writer, spent>>

ReadRow(b) ==
    /\ At(b, "read")
    /\ \E i \in build[b].todo :
         build' = [build EXCEPT ![b].rows[i] = source[i], ![b].todo = @ \ {i}]
    /\ UNCHANGED <<ledgerVars, manifest, lock, intent, operatorVars, writer, spent>>

(* A failed read or upload: the strict refresh returns None. *)
FailRefresh(b) ==
    /\ At(b, "read") /\ Disturb
    /\ Go(b, "defer")
    /\ UNCHANGED <<ledgerVars, manifest, lock, intent, operatorVars, writer>>

(* The guarded publisher checks the lease before the upload and after it. *)
Publish(b) ==
    /\ At(b, "read") /\ build[b].todo = {}
    /\ Go(b, IF lock = b THEN "commit" ELSE "defer")
    /\ UNCHANGED <<ledgerVars, manifest, lock, intent, operatorVars, writer, spent>>

Commit(b) ==
    /\ At(b, "commit")
    /\ LET next == manifest.etag + 1
           won  == manifest.etag = build[b].tag
       IN  /\ manifest' = IF won THEN [etag |-> next, ver |-> next, rows |-> build[b].rows] ELSE manifest
           /\ Go(b, IF won /\ lock = b THEN "base" ELSE "defer")
    /\ UNCHANGED <<ledgerVars, lock, intent, operatorVars, writer, spent>>

(* None from the refresh: the next attempt is a full build. *)
Defer(b) ==
    /\ At(b, "defer")
    /\ Change([control EXCEPT !.full = TRUE], {})
    /\ GiveUp(b)
    /\ UNCHANGED <<source, res, manifest, operatorVars, writer, spent>>

(* run() reads the base back from the manifest; certify checks the lease and
   the captured version again. *)
ReadBase(b) ==
    /\ At(b, "base")
    /\ IF Unchanged(b) /\ lock = b
       THEN build' = [build EXCEPT ![b].pc = "cas", ![b].base = manifest.ver] /\ UNCHANGED <<lock, intent>>
       ELSE GiveUp(b)
    /\ UNCHANGED <<ledgerVars, manifest, operatorVars, writer, spent>>

(* Then, if the lease is still held, a capture that held every dirty row
   acknowledges those versions; a truncated one drains the partition while the
   revision stays its own. *)
Certify(b) ==
    /\ At(b, "cas")
    /\ IF control.etag = build[b].cap.etag
       THEN control' = [build[b].cap EXCEPT !.etag = @ + 1, !.full = FALSE,
                             !.base = build[b].base, !.covered = build[b].cap.rev]
       ELSE UNCHANGED control
    /\ IF control.etag = build[b].cap.etag /\ lock = b
       THEN Go(b, IF build[b].more THEN "drain" ELSE "acking") /\ UNCHANGED <<lock, intent>>
       ELSE GiveUp(b)
    /\ UNCHANGED <<source, dirty, res, manifest, operatorVars, writer, spent>>

(* Resent, the conditional update meets its own ETag and is taken for a lost race. *)
CertifyResent(b) ==
    /\ At(b, "cas") /\ control.etag = build[b].cap.etag /\ LoseReply
    /\ control' = [build[b].cap EXCEPT !.etag = @ + 1, !.full = FALSE,
                         !.base = build[b].base, !.covered = build[b].cap.rev]
    /\ GiveUp(b)
    /\ UNCHANGED <<source, dirty, res, manifest, operatorVars, writer>>

Drain(b) ==
    /\ At(b, "drain")
    /\ \E ids \in Captures :
         build' = [build EXCEPT ![b].pc = "drained", ![b].ids = Rows(ids), ![b].more = ids # Dirty(dirty)]
    /\ UNCHANGED <<ledgerVars, manifest, lock, intent, operatorVars, writer, spent>>

DrainCheck(b) ==
    /\ At(b, "drained")
    /\ IF control.rev # build[b].cap.rev \/ Busy THEN Go(b, "finish") /\ UNCHANGED <<lock, intent>>
       ELSE IF lock = b THEN Go(b, "acking") /\ UNCHANGED <<lock, intent>>
       ELSE GiveUp(b)
    /\ UNCHANGED <<ledgerVars, manifest, operatorVars, writer, spent>>

(* Fault: dirty rows cleared by key. *)
AcknowledgedByKey(b, i) == build[b].ids[i] # 0

(* Each delete is conditional on the version that was captured. *)
Acknowledged(b, i) == dirty[i] = build[b].ids[i]

DeleteDirty(b) ==
    /\ At(b, "acking")
    /\ dirty' = [i \in Ids |-> IF Acknowledged(b, i) THEN 0 ELSE dirty[i]]
    /\ Go(b, IF build[b].more THEN "drain" ELSE "finish")
    /\ UNCHANGED <<source, control, res, manifest, lock, intent, operatorVars, writer, spent>>

(* WorkStore.finish: only a live claim deletes the row, and only if no request
   moved it on. *)
FinishBuild(b) ==
    /\ At(b, "finish")
    /\ lock' = Unlocked(b)
    /\ intent' = IF intent.owner # b THEN intent
                 ELSE IF intent.moved THEN [intent EXCEPT !.owner = Nobody]
                 ELSE [state |-> "none", owner |-> Nobody, moved |-> FALSE]
    /\ build' = [build EXCEPT ![b] = NoBuild]
    /\ UNCHANGED <<ledgerVars, manifest, operatorVars, writer, spent>>

(* Paused past its leases, the builder carries on where it was. *)
Stall(b) ==
    /\ build[b].pc # "idle" /\ (lock = b \/ intent.owner = b)
    /\ spent.stalls < MaxStalls /\ spent' = [spent EXCEPT !.stalls = @ + 1]
    /\ lock' = Unlocked(b) /\ intent' = Disowned(b)
    /\ UNCHANGED <<ledgerVars, manifest, build, operatorVars, writer>>

KillBuilder(b) ==
    /\ build[b].pc # "idle" /\ Disturb
    /\ GiveUp(b)
    /\ UNCHANGED <<ledgerVars, manifest, operatorVars, writer>>

BuildStep(b) ==
    \/ Claim(b) \/ Lock(b) \/ CaptureControl(b) \/ CaptureDirty(b) \/ Open(b)
    \/ ReadRow(b) \/ Publish(b) \/ Commit(b) \/ Defer(b) \/ ReadBase(b)
    \/ Certify(b) \/ Drain(b) \/ DrainCheck(b) \/ DeleteDirty(b) \/ FinishBuild(b)

(***************************************************************************)
(* Dirty touches, the periodic recovery and the operator.                  *)
(***************************************************************************)
(* A touch marks the manifest dirty and keeps its base; it reads it first. *)
ReadTouch ==
    /\ ~touch.open /\ manifest.ver # 0 /\ Disturb
    /\ touch' = [open |-> TRUE, seen |-> manifest]
    /\ UNCHANGED <<ledgerVars, manifest, intent, lock, fence, writer, build>>

(* Fault: the touch writes over whatever manifest is stored by now. *)
WriteTouchOver ==
    /\ touch.open
    /\ manifest' = [touch.seen EXCEPT !.etag = manifest.etag + 1]
    /\ touch' = NoTouch
    /\ UNCHANGED <<ledgerVars, intent, lock, fence, writer, build, spent>>

(* Conditional on the manifest it read. *)
WriteTouch ==
    /\ touch.open
    /\ manifest' = IF manifest.etag # touch.seen.etag THEN manifest
                   ELSE [touch.seen EXCEPT !.etag = manifest.etag + 1]
    /\ touch' = NoTouch
    /\ UNCHANGED <<ledgerVars, intent, lock, fence, writer, build, spent>>

(* Fault: recovery that looks only at libraries needing a full build. *)
BehindFully == control.full

(* Coverage behind its revision gets its intent back, if it has none. *)
Behind == control.covered # control.rev

Recover ==
    /\ Behind /\ ~WavePending /\ intent.state = "none"
    /\ intent' = Requested
    /\ UNCHANGED <<ledgerVars, manifest, lock, operatorVars, writer, build, spent>>

ArmFence ==
    /\ fence = "none" /\ spent.fences < MaxFences
    /\ spent' = [spent EXCEPT !.fences = @ + 1]
    /\ fence' = "armed"
    /\ UNCHANGED <<ledgerVars, manifest, intent, lock, touch, writer, build>>

(* The operator's word that every writer stopped; the catalog lease and the
   live maintenance claims are checked. *)
Prove ==
    /\ fence = "armed" /\ lock = Nobody /\ intent.owner = Nobody
    /\ \A w \in Writers : writer[w].pc \in {"idle", "dead"}
    /\ fence' = "proven"
    /\ UNCHANGED <<ledgerVars, manifest, intent, lock, touch, writer, build, spent>>

(* The rebuild intent is stored before coverage is reset. *)
RecoverReservations ==
    /\ fence = "proven" /\ lock = Nobody /\ intent.owner = Nobody /\ spent.fences < MaxFences
    /\ spent' = [spent EXCEPT !.fences = @ + 1]
    /\ intent' = Requested
    /\ res' = {}
    /\ lock' = Operator
    /\ fence' = "resetting"
    /\ UNCHANGED <<source, control, dirty, manifest, touch, writer, build>>

ResetCoverage ==
    /\ fence = "resetting"
    /\ Change([control EXCEPT !.active = 0, !.full = TRUE, !.base = 0, !.covered = 0], {})
    /\ lock' = Nobody
    /\ fence' = "proven"
    /\ UNCHANGED <<source, res, manifest, intent, touch, writer, build, spent>>

KillOperator ==
    /\ fence = "resetting" /\ Disturb
    /\ lock' = Nobody
    /\ fence' = "proven"
    /\ UNCHANGED <<ledgerVars, manifest, intent, touch, writer, build>>

Resume ==
    /\ fence = "proven" /\ lock = Nobody /\ intent.owner = Nobody
    /\ fence' = "none"
    /\ UNCHANGED <<ledgerVars, manifest, intent, lock, touch, writer, build, spent>>

Next ==
    \/ \E w \in Writers : WriterStep(w) \/ StartWrite(w) \/ FailSource(w) \/ WriteMore(w) \/ KillWriter(w)
                            \/ BeginResent(w) \/ FinishResent(w)
    \/ \E b \in Builders : BuildStep(b) \/ FailRefresh(b) \/ CertifyResent(b) \/ Stall(b) \/ KillBuilder(b)
    \/ ReadTouch \/ WriteTouch \/ Recover
    \/ ArmFence \/ Prove \/ RecoverReservations \/ ResetCoverage \/ KillOperator \/ Resume

Spec == Init /\ [][Next]_vars

(* Writers and builders run their calls to the end, and the recovery timer
   keeps firing; nobody has to write, touch, fence or fail. *)
FairSpec ==
    /\ Spec
    /\ \A w \in Writers : WF_vars(WriterStep(w))
    /\ \A b \in Builders : WF_vars(BuildStep(b))
    /\ WF_vars(Recover)

(***************************************************************************)
(* Properties.                                                             *)
(***************************************************************************)
Trusted == ~control.full /\ control.base # 0 /\ manifest.ver = control.base

(* A base the next build may merge over represents every source row, except
   rows whose dirty version is still recorded: no build that lost a race,
   however late its steps land, acknowledges a version it did not read. *)
CertifiedBaseCovers ==
    Trusted => \A i \in Ids : manifest.rows[i] = source[i] \/ dirty[i] # 0

(* Coverage is certified only while no reservation is open, its writer alive
   or dead: a paused writer never becomes invisible. *)
CertifiedWhileIdle ==
    [][control'.base # control.base /\ control'.base # 0 =>
        res = {} /\ \A w \in Writers : writer[w].pc \notin {"page", "fence", "write", "finish"}]_vars

(* The counter that capture and certify read is the number of reservation rows,
   whatever pages, failures and crashes interleave, as long as no transaction is
   sent twice; only an operator's reset, which deletes the rows first and may die
   before it reaches the counter, leaves it above, never below.  (A fence that was
   used to reset has been spent twice.) *)
ActiveIsReservations ==
    spent.lost = 0 => /\ control.active >= Cardinality(res)
                      /\ control.active = Cardinality(res) \/ spent.fences > 1

(* Once writers and operator are quiet and no orphan holds the ledger, the
   artifact becomes certified at the current revision and equal to its source. *)
Quiet == fence = "none" /\ control.active = 0 /\ \A w \in Writers : writer[w].pc \in {"idle", "dead"}
Synced == Trusted /\ control.covered = control.rev /\ manifest.rows = source
Converges == <>[]Quiet => <>[]Synced
=============================================================================
