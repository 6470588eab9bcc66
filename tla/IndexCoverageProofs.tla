------------------------- MODULE IndexCoverageProofs -------------------------
(***************************************************************************)
(* What IndexCoverage promises of one artifact, proved for every set of     *)
(* rows, writers and builders, every page and capture limit, and every      *)
(* number of writes, faults, stalls, fences and lost replies.               *)
(*                                                                         *)
(* The argument.  Every transaction of the ledger gives the control row an  *)
(* ETag no builder has seen (VersionInv), so a row that still has the ETag  *)
(* a builder captured is the row it captured, which was idle (CaptureInv).  *)
(* The count of an idle row is zero, and it is never below the number of    *)
(* reservation rows (Visible) unless the reply to a finish is lost: hence   *)
(* nobody is writing while a base is certified, or between the capture and  *)
(* its certification.  That gives a build the source it read as one         *)
(* snapshot (OpenInv, ReadInv), which the lease and the manifest's ETag     *)
(* carry to the manifest (BaseInv) and the compare-and-swap to the ledger   *)
(* (CasInv).  A dirty row is acknowledged at the version that was captured  *)
(* idle, and a later writer gives the row another (DeclaredInv), so what is *)
(* forgotten is in every manifest that is trusted (DrainInv, AckInv).       *)
(***************************************************************************)
EXTENDS IndexCoverage, FiniteSetTheorems, TLAPS

(* The values the actions store are typed.                                    *)
LEMMA Zeroes == Blank \in Versions /\ NoControl \in Control /\ NoTouch.seen \in Manifest
  BY DEF Blank, Versions, NoControl, Control, NoTouch, Manifest

LEMMA ControlValues ==
    /\ \A c \in Control, n \in Nat : [c EXCEPT !.rev = n, !.etag = n] \in Control
    /\ \A c \in Control, n \in Nat, f \in BOOLEAN : [c EXCEPT !.active = n, !.full = f] \in Control
    /\ \A c \in Control, f \in BOOLEAN : [c EXCEPT !.full = f] \in Control
    /\ \A c \in Control : [c EXCEPT !.active = 0, !.full = TRUE, !.base = 0, !.covered = 0] \in Control
    /\ \A c \in Control, e, n, v \in Nat :
          [c EXCEPT !.etag = e, !.full = FALSE, !.base = n, !.covered = v] \in Control
  BY DEF Control

LEMMA WriteValues ==
    /\ NoWrite \in Write
    /\ \A q \in Write, pc \in WriteSteps : [q EXCEPT !.pc = pc] \in Write
    /\ \A q \in Write, pc \in WriteSteps, f \in BOOLEAN : [q EXCEPT !.pc = pc, !.ok = f] \in Write
    /\ \A q \in Write, pc \in WriteSteps, s \in SUBSET Ids : [q EXCEPT !.left = s, !.pc = pc] \in Write
    /\ \A pc \in WriteSteps, s, t \in SUBSET Ids, f, g \in BOOLEAN :
          [NoWrite EXCEPT !.pc = pc, !.left = s, !.ids = t, !.unsure = f, !.wave = g] \in Write
  <1>1. NoWrite \in Write
    BY DEF NoWrite, Write, WriteSteps
  <1>. HIDE DEF WriteSteps
  <1>2. \A q \in Write, pc \in WriteSteps : [q EXCEPT !.pc = pc] \in Write
    BY DEF Write
  <1>3. \A q \in Write, pc \in WriteSteps, f \in BOOLEAN : [q EXCEPT !.pc = pc, !.ok = f] \in Write
    BY DEF Write
  <1>4. \A q \in Write, pc \in WriteSteps, s \in SUBSET Ids : [q EXCEPT !.left = s, !.pc = pc] \in Write
    BY DEF Write
  <1>5. \A pc \in WriteSteps, s, t \in SUBSET Ids, f, g \in BOOLEAN :
          [NoWrite EXCEPT !.pc = pc, !.left = s, !.ids = t, !.unsure = f, !.wave = g] \in Write
    BY <1>1 DEF Write
  <1>. QED
    BY <1>1, <1>2, <1>3, <1>4, <1>5

LEMMA WriteStepNames == {"idle", "schedule", "begin", "page", "fence", "write", "finish", "again",
                         "reschedule", "dead"} \subseteq WriteSteps
  BY DEF WriteSteps

LEMMA BuildStepNames == {"idle", "lock", "control", "rows", "open", "read", "commit", "base", "cas",
                         "acking", "drain", "drained", "finish", "defer"} \subseteq BuildSteps
  BY DEF BuildSteps

LEMMA BuildValues ==
    /\ NoBuild \in Build
    /\ \A q \in Build, pc \in BuildSteps : [q EXCEPT !.pc = pc] \in Build
    /\ \A q \in Build, pc \in BuildSteps, c \in Control : [q EXCEPT !.pc = pc, !.cap = c] \in Build
    /\ \A q \in Build, pc \in BuildSteps, v \in Versions, f, g \in BOOLEAN, n \in Nat :
          [q EXCEPT !.pc = pc, !.ids = v, !.more = f, !.full = g, !.prev = n] \in Build
    /\ \A q \in Build, pc \in BuildSteps, n \in Nat, v \in Versions, s \in SUBSET Ids :
          [q EXCEPT !.pc = pc, !.tag = n, !.rows = v, !.todo = s] \in Build
    /\ \A q \in Build, v \in Versions, s \in SUBSET Ids : [q EXCEPT !.rows = v, !.todo = s] \in Build
    /\ \A q \in Build, pc \in BuildSteps, n \in Nat : [q EXCEPT !.pc = pc, !.base = n] \in Build
    /\ \A q \in Build, pc \in BuildSteps, v \in Versions, f \in BOOLEAN :
          [q EXCEPT !.pc = pc, !.ids = v, !.more = f] \in Build
  <1>1. NoBuild \in Build
    BY Zeroes, BuildStepNames DEF NoBuild, Build
  <1>2. \A q \in Build, pc \in BuildSteps : [q EXCEPT !.pc = pc] \in Build
    BY DEF Build
  <1>3. \A q \in Build, pc \in BuildSteps, c \in Control : [q EXCEPT !.pc = pc, !.cap = c] \in Build
    BY DEF Build
  <1>4. \A q \in Build, pc \in BuildSteps, v \in Versions, f, g \in BOOLEAN, n \in Nat :
          [q EXCEPT !.pc = pc, !.ids = v, !.more = f, !.full = g, !.prev = n] \in Build
    BY DEF Build
  <1>5. \A q \in Build, pc \in BuildSteps, n \in Nat, v \in Versions, s \in SUBSET Ids :
          [q EXCEPT !.pc = pc, !.tag = n, !.rows = v, !.todo = s] \in Build
    BY DEF Build
  <1>6. \A q \in Build, v \in Versions, s \in SUBSET Ids : [q EXCEPT !.rows = v, !.todo = s] \in Build
    BY DEF Build
  <1>7. \A q \in Build, pc \in BuildSteps, n \in Nat : [q EXCEPT !.pc = pc, !.base = n] \in Build
    BY DEF Build
  <1>8. \A q \in Build, pc \in BuildSteps, v \in Versions, f \in BOOLEAN :
          [q EXCEPT !.pc = pc, !.ids = v, !.more = f] \in Build
    BY DEF Build
  <1>. QED
    BY <1>1, <1>2, <1>3, <1>4, <1>5, <1>6, <1>7, <1>8

LEMMA BoundValues ==
    ASSUME NEW s \in Bounds
    PROVE  /\ [s EXCEPT !.writes = @ + 1] \in Bounds /\ [s EXCEPT !.stalls = @ + 1] \in Bounds
           /\ [s EXCEPT !.fences = @ + 1] \in Bounds /\ [s EXCEPT !.disturb = @ + 1] \in Bounds
           /\ [s EXCEPT !.disturb = @ + 1, !.lost = @ + 1] \in Bounds
  <1>1. /\ s.writes + 1 \in Nat /\ s.stalls + 1 \in Nat /\ s.fences + 1 \in Nat
        /\ s.disturb + 1 \in Nat /\ s.lost + 1 \in Nat
    BY DEF Bounds
  <1>2. [s EXCEPT !.writes = @ + 1] \in Bounds
    BY <1>1 DEF Bounds
  <1>3. [s EXCEPT !.stalls = @ + 1] \in Bounds
    BY <1>1 DEF Bounds
  <1>4. [s EXCEPT !.fences = @ + 1] \in Bounds
    BY <1>1 DEF Bounds
  <1>5. [s EXCEPT !.disturb = @ + 1] \in Bounds
    BY <1>1 DEF Bounds
  <1>6. [s EXCEPT !.disturb = @ + 1, !.lost = @ + 1] \in Bounds
    BY <1>1 DEF Bounds
  <1>. QED
    BY <1>2, <1>3, <1>4, <1>5, <1>6

(* One transaction of the ledger.                                             *)
LEMMA ChangeTypes ==
    ASSUME TypeOK, NEW row \in Control, NEW ids, Change(row, ids)
    PROVE  control' \in Control /\ dirty' \in Versions
  <1>1. control.etag + 1 \in Nat
    BY DEF TypeOK, Control
  <1>2. control' = [row EXCEPT !.rev = control.etag + 1, !.etag = control.etag + 1]
    BY DEF Change
  <1>3. control' \in Control
    BY <1>1, <1>2, ControlValues
  <1>4. dirty' \in Versions
    BY <1>1 DEF Change, Versions, TypeOK
  <1>. QED
    BY <1>3, <1>4

LEMMA CountTypes ==
    ASSUME TypeOK, NEW w \in Writers
    PROVE  /\ Reserved(control, w, TRUE) \in Control /\ Reserved(control, w, FALSE) \in Control
           /\ Balanced => Released(control, w) \in Control
  <1>1. (control.full \/ writer[w].unsure) \in BOOLEAN /\ (control.full \/ ~writer[w].ok) \in BOOLEAN
    OBVIOUS
  <1>2. control.active + 1 \in Nat /\ (Balanced => control.active - 1 \in Nat)
    BY DEF TypeOK, Control, Balanced
  <1>3. Reserved(control, w, TRUE) \in Control
    BY <1>1, <1>2, ControlValues DEF Reserved, TypeOK
  <1>4. Reserved(control, w, FALSE) \in Control
    BY DEF Reserved, TypeOK
  <1>5. Balanced => Released(control, w) \in Control
    BY <1>1, <1>2, ControlValues DEF Released, TypeOK
  <1>. QED
    BY <1>3, <1>4, <1>5

LEMMA CaptureTypes ==
    ASSUME TypeOK, NEW ids PROVE Rows(ids) \in Versions
  BY DEF TypeOK, Rows, Versions

(* A release of the lease and of the claim leaves well-typed rows.            *)
LEMMA ReleaseTypes ==
    ASSUME TypeOK, NEW b \in Builders
    PROVE  /\ Unlocked(b) \in Builders \cup {Operator, Nobody} /\ Disowned(b) \in Intent
           /\ Requested \in Intent
           /\ GiveUp(b) => /\ build' \in [Builders -> Build] /\ intent' \in Intent
                           /\ lock' \in Builders \cup {Operator, Nobody}
  <1>1. Unlocked(b) \in Builders \cup {Operator, Nobody}
    BY DEF Unlocked, TypeOK
  <1>2. Disowned(b) \in Intent /\ Requested \in Intent
    BY DEF Disowned, Requested, TypeOK, Intent
  <1>. QED
    BY <1>1, <1>2, BuildValues DEF GiveUp, TypeOK

LEMMA RequestTypes == ASSUME TypeOK PROVE Requested \in Intent
  BY DEF Requested, TypeOK, Intent

LEMMA GoTypes ==
    ASSUME TypeOK, NEW b \in Builders, NEW pc \in BuildSteps, Go(b, pc)
    PROVE  build' \in [Builders -> Build]
  BY BuildValues DEF Go, TypeOK

(* A write that is over, or dead.                                             *)
LEMMA FinishedTypes ==
    ASSUME TypeOK, NEW w \in Writers
    PROVE  [writer EXCEPT ![w] = IF @.wave THEN NoWrite ELSE [NoWrite EXCEPT !.pc = "reschedule"]]
              \in [Writers -> Write]
  BY WriteValues, WriteStepNames DEF TypeOK

LEMMA KilledTypes ==
    ASSUME TypeOK, NEW w \in Writers
    PROVE  [writer EXCEPT ![w] = [NoWrite EXCEPT !.pc = "dead"]] \in [Writers -> Write]
  <1>1. [NoWrite EXCEPT !.pc = "dead"] \in Write
    BY WriteValues, WriteStepNames
  <1>. QED
    BY <1>1 DEF TypeOK

LEMMA WriterMoves ==
    ASSUME TypeOK, NEW w \in Writers, NEW pc \in WriteSteps
    PROVE  /\ [writer EXCEPT ![w].pc = pc] \in [Writers -> Write]
           /\ \A f \in BOOLEAN : [writer EXCEPT ![w].pc = pc, ![w].ok = f] \in [Writers -> Write]
  BY WriteValues DEF TypeOK

LEMMA SpentTypes ==
    ASSUME TypeOK
    PROVE  /\ Disturb => spent' \in Bounds
           /\ LoseReply => spent' \in Bounds
           /\ [spent EXCEPT !.writes = @ + 1] \in Bounds
  BY BoundValues DEF TypeOK, Disturb, LoseReply

(* What a capture decides, with the ids it holds.                             *)
Verdict(b, ids) ==
    LET cap == build[b].cap
        more == ids # Dirty(dirty)
        full == cap.full \/ manifest.ver = 0 \/ manifest.ver # cap.base \/ more
    IN  IF ~full /\ ids = {} /\ cap.covered = cap.rev
        THEN Go(b, "finish") /\ UNCHANGED <<lock, intent>>
        ELSE IF Unchanged(b)
        THEN /\ build' = [build EXCEPT ![b].pc = "open", ![b].ids = Rows(ids),
                   ![b].more = more, ![b].full = full, ![b].prev = manifest.ver]
             /\ UNCHANGED <<lock, intent>>
        ELSE GiveUp(b)

LEMMA WroteTypes ==
    ASSUME TypeOK, NEW w \in Writers, Wrote(w) PROVE source' \in Versions
  BY DEF Wrote, TypeOK, Versions

LEMMA TypeStep == TypeOK /\ Next => TypeOK'
  <1>. SUFFICES ASSUME TypeOK, Next PROVE TypeOK'
    OBVIOUS
  <1>1. \A w \in Writers : StartWrite(w) => TypeOK'
    <2>. SUFFICES ASSUME NEW w \in Writers, StartWrite(w) PROVE TypeOK'
      OBVIOUS
    <2>1. PICK ids \in WriteSets \cup {{}}, unsure \in BOOLEAN, wave \in BOOLEAN :
            writer' = [writer EXCEPT ![w] = [NoWrite EXCEPT
                !.pc = IF wave THEN "begin" ELSE "schedule",
                !.left = ids, !.ids = IF unsure THEN {} ELSE ids, !.unsure = unsure, !.wave = wave]]
      BY DEF StartWrite
    <2>2. ids \in SUBSET Ids /\ (IF unsure THEN {} ELSE ids) \in SUBSET Ids
      BY CoverageAssumption
    <2>3. (IF wave THEN "begin" ELSE "schedule") \in WriteSteps
      BY WriteStepNames
    <2>4. writer' \in [Writers -> Write]
      BY <2>1, <2>2, <2>3, WriteValues DEF TypeOK
    <2>5. spent' \in Bounds
      BY BoundValues DEF StartWrite, TypeOK
    <2>. QED
      BY <2>4, <2>5 DEF StartWrite, TypeOK, builderVars, operatorVars
  <1>2. \A w \in Writers : Schedule(w) => TypeOK'
    <2>. SUFFICES ASSUME NEW w \in Writers, Schedule(w) PROVE TypeOK'
      OBVIOUS
    <2>1. writer' \in [Writers -> Write]
      BY WriterMoves, WriteStepNames DEF Schedule, TypeOK
    <2>. QED
      BY <2>1, RequestTypes DEF Schedule, TypeOK, builderVars, operatorVars
  <1>3. \A w \in Writers : Begin(w) => TypeOK'
    <2>. SUFFICES ASSUME NEW w \in Writers, Begin(w) PROVE TypeOK'
      OBVIOUS
    <2>1. PICK page \in Pages(writer[w].left) :
            /\ Change(Reserved(control, w, TRUE), page)
            /\ writer' = [writer EXCEPT ![w].left = @ \ page,
                 ![w].pc = IF writer[w].left = page THEN "fence" ELSE "page"]
      BY DEF Begin
    <2>2. control' \in Control /\ dirty' \in Versions
      BY <2>1, CountTypes, ChangeTypes
    <2>3. (IF writer[w].left = page THEN "fence" ELSE "page") \in WriteSteps
      BY WriteStepNames
    <2>4. writer[w] \in Write /\ writer[w].left \ page \in SUBSET Ids
      BY DEF TypeOK, Write
    <2>5. writer' \in [Writers -> Write]
      BY <2>1, <2>3, <2>4, WriteValues DEF TypeOK
    <2>. QED
      BY <2>2, <2>5 DEF Begin, TypeOK, builderVars, operatorVars
  <1>4. \A w \in Writers : BeginPage(w) => TypeOK'
    <2>. SUFFICES ASSUME NEW w \in Writers, BeginPage(w) PROVE TypeOK'
      OBVIOUS
    <2>1. PICK page \in Pages(writer[w].left) :
            /\ Change(Reserved(control, w, FALSE), page)
            /\ writer' = [writer EXCEPT ![w].left = @ \ page,
                 ![w].pc = IF writer[w].left = page THEN "fence" ELSE "page"]
      BY DEF BeginPage
    <2>2. control' \in Control /\ dirty' \in Versions
      BY <2>1, CountTypes, ChangeTypes
    <2>3. (IF writer[w].left = page THEN "fence" ELSE "page") \in WriteSteps
      BY WriteStepNames
    <2>4. writer[w] \in Write /\ writer[w].left \ page \in SUBSET Ids
      BY DEF TypeOK, Write
    <2>5. writer' \in [Writers -> Write]
      BY <2>1, <2>3, <2>4, WriteValues DEF TypeOK
    <2>. QED
      BY <2>2, <2>5 DEF BeginPage, TypeOK, builderVars, operatorVars
  <1>5. \A w \in Writers : BeginResent(w) => TypeOK'
    <2>. SUFFICES ASSUME NEW w \in Writers, BeginResent(w) PROVE TypeOK'
      OBVIOUS
    <2>1. PICK page \in Pages(writer[w].left) : Change(Reserved(control, w, TRUE), page)
      BY DEF BeginResent
    <2>2. control' \in Control /\ dirty' \in Versions
      BY <2>1, CountTypes, ChangeTypes
    <2>3. spent' \in Bounds
      BY BoundValues DEF BeginResent, LoseReply, TypeOK
    <2>. QED
      BY <2>2, <2>3 DEF BeginResent, TypeOK, builderVars, operatorVars
  <1>6. \A w \in Writers : CheckFence(w) => TypeOK'
    <2>. SUFFICES ASSUME NEW w \in Writers, CheckFence(w) PROVE TypeOK'
      OBVIOUS
    <2>1. (IF fence = "none" THEN "write" ELSE "finish") \in WriteSteps
      BY WriteStepNames
    <2>2. writer' \in [Writers -> Write]
      BY <2>1, WriteValues DEF CheckFence, TypeOK
    <2>. QED
      BY <2>2 DEF CheckFence, TypeOK, builderVars, operatorVars
  <1>7. \A w \in Writers : WriteSource(w) => TypeOK'
    <2>. SUFFICES ASSUME NEW w \in Writers, WriteSource(w) PROVE TypeOK'
      OBVIOUS
    <2>1. writer' \in [Writers -> Write]
      BY WriterMoves, WriteStepNames DEF WriteSource, TypeOK
    <2>2. source' \in Versions
      BY WroteTypes DEF WriteSource, TypeOK, writerVars
    <2>. QED
      BY <2>1, <2>2, WroteTypes DEF WriteSource, TypeOK, builderVars, operatorVars
  <1>8. \A w \in Writers : FailSource(w) => TypeOK'
    <2>. SUFFICES ASSUME NEW w \in Writers, FailSource(w) PROVE TypeOK'
      OBVIOUS
    <2>1. writer' \in [Writers -> Write]
      BY WriterMoves, WriteStepNames DEF FailSource, TypeOK
    <2>2. source' \in Versions
      BY WroteTypes DEF FailSource, TypeOK, writerVars
    <2>. QED
      BY <2>1, <2>2, WroteTypes, SpentTypes DEF FailSource, TypeOK, builderVars, operatorVars
  <1>9. \A w \in Writers : WriteMore(w) => TypeOK'
    <2>. SUFFICES ASSUME NEW w \in Writers, WriteMore(w) PROVE TypeOK'
      OBVIOUS
    <2>1. writer' \in [Writers -> Write]
      BY WriterMoves, WriteStepNames DEF WriteMore, TypeOK
    <2>. QED
      BY <2>1, SpentTypes DEF WriteMore, TypeOK, builderVars, operatorVars
  <1>10. \A w \in Writers : Finish(w) => TypeOK'
    <2>. SUFFICES ASSUME NEW w \in Writers, Finish(w) PROVE TypeOK'
      OBVIOUS
    <2>1. control' \in Control /\ dirty' \in Versions
      BY CountTypes, ChangeTypes DEF Finish, TypeOK
    <2>2. writer' \in [Writers -> Write]
      BY FinishedTypes DEF Finish, TypeOK
    <2>3. res' \subseteq Writers /\ spent' \in Bounds
      BY BoundValues DEF Finish, LoseReply, TypeOK
    <2>. QED
      BY <2>1, <2>2, <2>3 DEF Finish, TypeOK, builderVars, operatorVars
  <1>11. \A w \in Writers : FinishResent(w) => TypeOK'
    <2>. SUFFICES ASSUME NEW w \in Writers, FinishResent(w) PROVE TypeOK'
      OBVIOUS
    <2>1. control' \in Control /\ dirty' \in Versions
      BY CountTypes, ChangeTypes DEF FinishResent, TypeOK
    <2>2. writer' \in [Writers -> Write]
      BY WriteValues, WriteStepNames DEF FinishResent, TypeOK
    <2>3. res' \subseteq Writers /\ spent' \in Bounds
      BY BoundValues DEF FinishResent, LoseReply, TypeOK
    <2>. QED
      BY <2>1, <2>2, <2>3 DEF FinishResent, TypeOK, builderVars, operatorVars
  <1>12. \A w \in Writers : FinishAgain(w) => TypeOK'
    <2>. SUFFICES ASSUME NEW w \in Writers, FinishAgain(w) PROVE TypeOK'
      OBVIOUS
    <2>1. control' \in Control /\ dirty' \in Versions
      BY CountTypes, ChangeTypes DEF FinishAgain, TypeOK
    <2>2. writer' \in [Writers -> Write]
      BY FinishedTypes DEF FinishAgain, TypeOK
    <2>3. res' \subseteq Writers /\ spent' \in Bounds
      BY BoundValues DEF FinishAgain, LoseReply, TypeOK
    <2>. QED
      BY <2>1, <2>2, <2>3 DEF FinishAgain, TypeOK, builderVars, operatorVars
  <1>13. \A w \in Writers : Reschedule(w) => TypeOK'
    <2>. SUFFICES ASSUME NEW w \in Writers, Reschedule(w) PROVE TypeOK'
      OBVIOUS
    <2>1. writer' \in [Writers -> Write]
      BY WriteValues, WriteStepNames DEF Reschedule, TypeOK
    <2>. QED
      BY <2>1, RequestTypes DEF Reschedule, TypeOK, builderVars, operatorVars
  <1>14. \A w \in Writers : KillWriter(w) => TypeOK'
    <2>. SUFFICES ASSUME NEW w \in Writers, KillWriter(w) PROVE TypeOK'
      OBVIOUS
    <2>1. writer' \in [Writers -> Write]
      BY KilledTypes, WriteStepNames DEF KillWriter, TypeOK
    <2>. QED
      BY <2>1, SpentTypes DEF KillWriter, TypeOK, builderVars, operatorVars
  <1>15. \A b \in Builders : Claim(b) => TypeOK'
    <2>. SUFFICES ASSUME NEW b \in Builders, Claim(b) PROVE TypeOK'
      OBVIOUS
    <2>1. [NoBuild EXCEPT !.pc = "lock"] \in Build
      BY BuildValues, BuildStepNames
    <2>2. build' \in [Builders -> Build]
      BY <2>1 DEF Claim, TypeOK
    <2>3. intent' \in Intent
      BY DEF Claim, TypeOK, Intent
    <2>. QED
      BY <2>2, <2>3 DEF Claim, TypeOK, ledgerVars, operatorVars
  <1>16. \A b \in Builders : Lock(b) => TypeOK'
    <2>. SUFFICES ASSUME NEW b \in Builders, Lock(b) PROVE TypeOK'
      OBVIOUS
    <2>1. /\ build' \in [Builders -> Build] /\ intent' \in Intent
          /\ lock' \in Builders \cup {Operator, Nobody}
      BY ReleaseTypes, GoTypes, BuildStepNames DEF Lock, TypeOK
    <2>. QED
      BY <2>1 DEF Lock, TypeOK, ledgerVars, operatorVars
  <1>17. \A b \in Builders : CaptureControl(b) => TypeOK'
    <2>. SUFFICES ASSUME NEW b \in Builders, CaptureControl(b) PROVE TypeOK'
      OBVIOUS
    <2>1. [build[b] EXCEPT !.pc = "rows", !.cap = control] \in Build
      BY BuildValues, BuildStepNames DEF TypeOK
    <2>2. CASE GiveUp(b)
      BY <2>2, ReleaseTypes DEF CaptureControl, TypeOK, ledgerVars, operatorVars
    <2>3. CASE build' = [build EXCEPT ![b].pc = "rows", ![b].cap = control] /\ UNCHANGED <<lock, intent>>
      <3>1. build' \in [Builders -> Build]
        BY <2>1, <2>3 DEF TypeOK
      <3>. QED
        BY <2>3, <3>1 DEF CaptureControl, TypeOK, ledgerVars, operatorVars
    <2>. QED
      BY <2>2, <2>3 DEF CaptureControl
  <1>18. \A b \in Builders : CaptureDirty(b) => TypeOK'
    <2>. SUFFICES ASSUME NEW b \in Builders, CaptureDirty(b) PROVE TypeOK'
      OBVIOUS
    <2>1. CASE GiveUp(b)
      BY <2>1, ReleaseTypes DEF CaptureDirty, TypeOK, ledgerVars, operatorVars
    <2>2. CASE Go(b, "finish") /\ UNCHANGED <<lock, intent>>
      BY <2>2, GoTypes, BuildStepNames DEF CaptureDirty, TypeOK, ledgerVars, operatorVars
    <2>3. PICK ids \in Captures : Verdict(b, ids)
      BY DEF CaptureDirty, Verdict
    <2>. DEFINE more == ids # Dirty(dirty)
                full == build[b].cap.full \/ manifest.ver = 0 \/ manifest.ver # build[b].cap.base \/ more
    <2>4. CASE /\ build' = [build EXCEPT ![b].pc = "open", ![b].ids = Rows(ids),
                            ![b].more = more, ![b].full = full, ![b].prev = manifest.ver]
               /\ UNCHANGED <<lock, intent>>
      <3>1. more \in BOOLEAN /\ full \in BOOLEAN
        OBVIOUS
      <3>2. manifest.ver \in Nat /\ Rows(ids) \in Versions
        BY CaptureTypes DEF TypeOK, Manifest
      <3>. HIDE DEF more, full
      <3>3. build' \in [Builders -> Build]
        BY <2>4, <3>1, <3>2, BuildValues, BuildStepNames DEF TypeOK
      <3>. QED
        BY <2>4, <3>3 DEF CaptureDirty, TypeOK, ledgerVars, operatorVars
    <2>. QED
      BY <2>1, <2>2, <2>3, <2>4 DEF Verdict
  <1>19. \A b \in Builders : Open(b) => TypeOK'
    <2>. SUFFICES ASSUME NEW b \in Builders, Open(b) PROVE TypeOK'
      OBVIOUS
    <2>1. manifest.etag \in Nat /\ manifest.rows \in Versions /\ Dirty(build[b].ids) \in SUBSET Ids
      BY DEF TypeOK, Manifest, Dirty
    <2>2. (IF build[b].full THEN Blank ELSE manifest.rows) \in Versions
      BY <2>1, Zeroes
    <2>3. (IF build[b].full THEN Ids ELSE Dirty(build[b].ids)) \in SUBSET Ids
      BY <2>1
    <2>4. build[b] \in Build /\ "read" \in BuildSteps /\ "defer" \in BuildSteps
      BY BuildStepNames DEF TypeOK
    <2>5. [build[b] EXCEPT !.pc = "read", !.tag = manifest.etag,
             !.rows = IF build[b].full THEN Blank ELSE manifest.rows,
             !.todo = IF build[b].full THEN Ids ELSE Dirty(build[b].ids)] \in Build
      BY <2>1, <2>2, <2>3, <2>4, BuildValues
    <2>6. build' \in [Builders -> Build]
      BY <2>4, <2>5, GoTypes DEF Open, TypeOK
    <2>. QED
      BY <2>6 DEF Open, TypeOK, ledgerVars, operatorVars
  <1>20. \A b \in Builders : ReadRow(b) => TypeOK'
    <2>. SUFFICES ASSUME NEW b \in Builders, ReadRow(b) PROVE TypeOK'
      OBVIOUS
    <2>1. PICK i \in build[b].todo :
            build' = [build EXCEPT ![b].rows[i] = source[i], ![b].todo = @ \ {i}]
      BY DEF ReadRow
    <2>2. build[b] \in Build /\ i \in Ids /\ source[i] \in Nat
      BY DEF TypeOK, Build, Versions
    <2>3. /\ [build[b].rows EXCEPT ![i] = source[i]] \in Versions
          /\ build[b].todo \ {i} \in SUBSET Ids
      BY <2>2 DEF Build, Versions
    <2>4. [build[b] EXCEPT !.rows = [build[b].rows EXCEPT ![i] = source[i]], !.todo = build[b].todo \ {i}] \in Build
      BY <2>2, <2>3, BuildValues
    <2>5. build' = [build EXCEPT ![b] =
            [build[b] EXCEPT !.rows = [build[b].rows EXCEPT ![i] = source[i]], !.todo = build[b].todo \ {i}]]
      BY <2>1, <2>2 DEF TypeOK, Build
    <2>6. build' \in [Builders -> Build]
      BY <2>4, <2>5 DEF TypeOK
    <2>. QED
      BY <2>6 DEF ReadRow, TypeOK, ledgerVars, operatorVars
  <1>21. \A b \in Builders : FailRefresh(b) => TypeOK'
    BY GoTypes, BuildStepNames, BoundValues
      DEF FailRefresh, Disturb, TypeOK, writerVars, builderVars, operatorVars, ledgerVars
  <1>22. \A b \in Builders : Publish(b) => TypeOK'
    BY GoTypes, BuildStepNames
      DEF Publish, TypeOK, writerVars, builderVars, operatorVars, ledgerVars
  <1>23. \A b \in Builders : Commit(b) => TypeOK'
    <2>. SUFFICES ASSUME NEW b \in Builders, Commit(b) PROVE TypeOK'
      OBVIOUS
    <2>1. /\ manifest.etag + 1 \in Nat
          /\ build[b].rows \in Versions
      BY DEF TypeOK, Manifest, Build
    <2>2. [etag |-> manifest.etag + 1, ver |-> manifest.etag + 1, rows |-> build[b].rows] \in Manifest
      BY <2>1 DEF Manifest
    <2>3. manifest' \in Manifest
      BY <2>2 DEF Commit, TypeOK
    <2>4. build' \in [Builders -> Build]
      BY GoTypes, BuildStepNames DEF Commit
    <2>. QED
      BY <2>3, <2>4 DEF Commit, TypeOK, ledgerVars, operatorVars
  <1>24. \A b \in Builders : Defer(b) => TypeOK'
    <2>. SUFFICES ASSUME NEW b \in Builders, Defer(b) PROVE TypeOK'
      OBVIOUS
    <2>1. control' \in Control /\ dirty' \in Versions
      BY ControlValues, ChangeTypes DEF Defer, TypeOK
    <2>. QED
      BY <2>1, ReleaseTypes DEF Defer, TypeOK, operatorVars
  <1>25. \A b \in Builders : ReadBase(b) => TypeOK'
    <2>. SUFFICES ASSUME NEW b \in Builders, ReadBase(b) PROVE TypeOK'
      OBVIOUS
    <2>1. [build[b] EXCEPT !.pc = "cas", !.base = manifest.ver] \in Build
      BY BuildValues, BuildStepNames DEF TypeOK, Manifest
    <2>2. CASE GiveUp(b)
      BY <2>2, ReleaseTypes DEF ReadBase, TypeOK, ledgerVars, operatorVars
    <2>3. CASE build' = [build EXCEPT ![b].pc = "cas", ![b].base = manifest.ver] /\ UNCHANGED <<lock, intent>>
      <3>1. build' \in [Builders -> Build]
        BY <2>1, <2>3 DEF TypeOK
      <3>. QED
        BY <2>3, <3>1 DEF ReadBase, TypeOK, ledgerVars, operatorVars
    <2>. QED
      BY <2>2, <2>3 DEF ReadBase
  <1>26. \A b \in Builders : Certify(b) => TypeOK'
    <2>. SUFFICES ASSUME NEW b \in Builders, Certify(b) PROVE TypeOK'
      OBVIOUS
    <2>1. /\ build[b].cap \in Control /\ build[b].cap.etag + 1 \in Nat
          /\ build[b].base \in Nat /\ build[b].cap.rev \in Nat
      BY DEF TypeOK, Build, Control
    <2>2. [build[b].cap EXCEPT !.etag = build[b].cap.etag + 1, !.full = FALSE,
             !.base = build[b].base, !.covered = build[b].cap.rev] \in Control
      BY <2>1, ControlValues
    <2>3. control' \in Control
      BY <2>1, <2>2 DEF Certify, TypeOK, Control
    <2>4. /\ build' \in [Builders -> Build] /\ intent' \in Intent
          /\ lock' \in Builders \cup {Operator, Nobody} /\ spent' \in Bounds
      BY ReleaseTypes, GoTypes, BuildStepNames, BoundValues DEF Certify, LoseReply, TypeOK
    <2>. QED
      BY <2>3, <2>4 DEF Certify, TypeOK, operatorVars
  <1>27. \A b \in Builders : CertifyResent(b) => TypeOK'
    <2>. SUFFICES ASSUME NEW b \in Builders, CertifyResent(b) PROVE TypeOK'
      OBVIOUS
    <2>1. /\ build[b].cap \in Control /\ build[b].cap.etag + 1 \in Nat
          /\ build[b].base \in Nat /\ build[b].cap.rev \in Nat
      BY DEF TypeOK, Build, Control
    <2>2. [build[b].cap EXCEPT !.etag = build[b].cap.etag + 1, !.full = FALSE,
             !.base = build[b].base, !.covered = build[b].cap.rev] \in Control
      BY <2>1, ControlValues
    <2>3. control' \in Control
      BY <2>1, <2>2 DEF CertifyResent, TypeOK, Control
    <2>4. /\ build' \in [Builders -> Build] /\ intent' \in Intent
          /\ lock' \in Builders \cup {Operator, Nobody} /\ spent' \in Bounds
      BY ReleaseTypes, GoTypes, BuildStepNames, BoundValues DEF CertifyResent, LoseReply, TypeOK
    <2>. QED
      BY <2>3, <2>4 DEF CertifyResent, TypeOK, operatorVars
  <1>28. \A b \in Builders : Drain(b) => TypeOK'
    <2>. SUFFICES ASSUME NEW b \in Builders, Drain(b) PROVE TypeOK'
      OBVIOUS
    <2>1. PICK ids \in Captures :
            build' = [build EXCEPT ![b].pc = "drained", ![b].ids = Rows(ids), ![b].more = ids # Dirty(dirty)]
      BY DEF Drain
    <2>2. (ids # Dirty(dirty)) \in BOOLEAN /\ Rows(ids) \in Versions
      BY CaptureTypes
    <2>3. build' \in [Builders -> Build]
      BY <2>1, <2>2, BuildValues, BuildStepNames DEF TypeOK
    <2>. QED
      BY <2>3 DEF Drain, TypeOK, ledgerVars, operatorVars
  <1>29. \A b \in Builders : DrainCheck(b) => TypeOK'
    <2>. SUFFICES ASSUME NEW b \in Builders, DrainCheck(b) PROVE TypeOK'
      OBVIOUS
    <2>1. /\ build' \in [Builders -> Build] /\ intent' \in Intent
          /\ lock' \in Builders \cup {Operator, Nobody}
      BY ReleaseTypes, GoTypes, BuildStepNames DEF DrainCheck, TypeOK
    <2>. QED
      BY <2>1 DEF DrainCheck, TypeOK, ledgerVars, operatorVars
  <1>30. \A b \in Builders : DeleteDirty(b) => TypeOK'
    <2>. SUFFICES ASSUME NEW b \in Builders, DeleteDirty(b) PROVE TypeOK'
      OBVIOUS
    <2>1. dirty' \in Versions
      BY DEF DeleteDirty, TypeOK, Versions
    <2>2. build' \in [Builders -> Build]
      BY GoTypes, BuildStepNames DEF DeleteDirty
    <2>. QED
      BY <2>1, <2>2 DEF DeleteDirty, TypeOK, operatorVars
  <1>31. \A b \in Builders : FinishBuild(b) => TypeOK'
    <2>. SUFFICES ASSUME NEW b \in Builders, FinishBuild(b) PROVE TypeOK'
      OBVIOUS
    <2>1. build' \in [Builders -> Build]
      BY BuildValues DEF FinishBuild, TypeOK
    <2>2. intent' \in Intent
      BY DEF FinishBuild, TypeOK, Intent
    <2>3. lock' \in Builders \cup {Operator, Nobody}
      BY ReleaseTypes DEF FinishBuild
    <2>. QED
      BY <2>1, <2>2, <2>3 DEF FinishBuild, TypeOK, ledgerVars, operatorVars
  <1>32. \A b \in Builders : Stall(b) => TypeOK'
    BY ReleaseTypes, BoundValues
      DEF Stall, TypeOK, writerVars, builderVars, operatorVars, ledgerVars
  <1>33. \A b \in Builders : KillBuilder(b) => TypeOK'
    BY ReleaseTypes, BoundValues
      DEF KillBuilder, Disturb, TypeOK, writerVars, builderVars, operatorVars, ledgerVars
  <1>34. ReadTouch => TypeOK'
    <2>. SUFFICES ASSUME ReadTouch PROVE TypeOK'
      OBVIOUS
    <2>1. touch' \in [open: BOOLEAN, seen: Manifest] /\ spent' \in Bounds
      BY SpentTypes DEF ReadTouch, TypeOK
    <2>. QED
      BY <2>1 DEF ReadTouch, TypeOK, ledgerVars
  <1>35. WriteTouch => TypeOK'
    <2>. SUFFICES ASSUME WriteTouch PROVE TypeOK'
      OBVIOUS
    <2>1. touch.seen \in Manifest /\ manifest.etag + 1 \in Nat
      BY DEF TypeOK, Manifest
    <2>2. [touch.seen EXCEPT !.etag = manifest.etag + 1] \in Manifest
      BY <2>1 DEF Manifest
    <2>3. NoTouch \in [open: BOOLEAN, seen: Manifest]
      BY Zeroes DEF NoTouch
    <2>. QED
      BY <2>2, <2>3 DEF WriteTouch, TypeOK, ledgerVars
  <1>36. Recover => TypeOK'
    BY RequestTypes DEF Recover, TypeOK, writerVars, builderVars, operatorVars, ledgerVars
  <1>37. ArmFence => TypeOK'
    BY BoundValues DEF ArmFence, Fence, TypeOK, writerVars, builderVars, operatorVars, ledgerVars
  <1>38. Prove => TypeOK'
    BY DEF Prove, Fence, TypeOK, writerVars, builderVars, operatorVars, ledgerVars
  <1>39. RecoverReservations => TypeOK'
    BY RequestTypes, BoundValues
      DEF RecoverReservations, Fence, TypeOK, writerVars, builderVars, operatorVars, ledgerVars
  <1>40. ResetCoverage => TypeOK'
    <2>. SUFFICES ASSUME ResetCoverage PROVE TypeOK'
      OBVIOUS
    <2>1. control' \in Control /\ dirty' \in Versions
      BY ControlValues, ChangeTypes DEF ResetCoverage, TypeOK
    <2>. QED
      BY <2>1 DEF ResetCoverage, TypeOK, Fence
  <1>41. KillOperator => TypeOK'
    BY BoundValues
      DEF KillOperator, Disturb, Fence, TypeOK, writerVars, builderVars, operatorVars,
        ledgerVars
  <1>42. Resume => TypeOK'
    BY DEF Resume, Fence, TypeOK, writerVars, builderVars, operatorVars, ledgerVars
  <1>. QED
    BY <1>1, <1>2, <1>3, <1>4, <1>5, <1>6, <1>7, <1>8, <1>9, <1>10, <1>11, <1>12, <1>13, <1>14,
      <1>15, <1>16, <1>17, <1>18, <1>19, <1>20, <1>21, <1>22, <1>23, <1>24, <1>25, <1>26,
      <1>27, <1>28, <1>29, <1>30, <1>31, <1>32, <1>33, <1>34, <1>35, <1>36, <1>37, <1>38,
      <1>39, <1>40, <1>41, <1>42
    DEF Next, WriterStep, BuildStep

LEMMA TypeInit == Init => TypeOK
  <1>. SUFFICES ASSUME Init PROVE TypeOK
    OBVIOUS
  <1>1. NoWrite \in Write /\ NoBuild \in Build
    BY WriteValues, BuildValues
  <1>2. control \in Control
    BY DEF Init, NoControl, Control
  <1>3. intent \in Intent /\ fence \in Fence /\ spent \in Bounds
    BY DEF Init, Intent, Fence, Bounds
  <1>4. touch \in [open: BOOLEAN, seen: Manifest]
    BY Zeroes DEF Init, NoTouch
  <1>. QED
    BY <1>1, <1>2, <1>3, <1>4, Zeroes DEF Init, TypeOK

(* Every reachable state of the ledger is well typed; in particular the       *)
(* reservation counter never runs below zero, because complete refuses to.     *)
THEOREM CoverageTypes == Spec => []TypeOK
  <1>1. TypeOK /\ [Next]_vars => TypeOK'
    <2>1. TypeOK /\ UNCHANGED vars => TypeOK'
      BY DEF TypeOK, vars
    <2>. QED
      BY <2>1, TypeStep
  <1>. QED
    BY <1>1, TypeInit, PTL DEF Spec
-----------------------------------------------------------------------------
(* Reservations.  A writer holds one from its begin to its finish. *)
Holding == {"page", "fence", "write", "finish"}
Holders == {w \in Writers : writer[w].pc \in Holding}

(* Every holder has its row, and a row is a holder's, or was left behind. *)
HoldersListed == Holders \subseteq res
RowsLeft == spent.lost = 0 =>
    /\ \A w \in res : writer[w].pc \in Holding \cup {"dead"}
    /\ \A w \in Writers : writer[w].pc # "again"

(* Behind a proven fence no writer is left, and a reset has deleted the rows. *)
FencedOut ==
    /\ fence \in {"proven", "resetting"} => \A w \in Writers : writer[w].pc \in {"idle", "dead"}
    /\ fence = "resetting" => res = {} /\ spent.fences > 1
    /\ fence = "proven" => spent.fences > 0
    /\ fence = "armed" => spent.fences > 0

(* Visible is what capture and certify rely on: no row goes uncounted. *)
Visible == control.active >= Cardinality(res)

ReservationInv == IsFiniteSet(res) /\ HoldersListed /\ RowsLeft /\ FencedOut /\ ActiveIsReservations

-----------------------------------------------------------------------------
(* Versions. *)
(* Nothing a builder holds is of a version still to come ... *)
Past(b) ==
    /\ build[b].cap.etag <= control.etag /\ build[b].cap.rev <= control.etag
    /\ build[b].cap.base <= manifest.etag
    /\ \A i \in Ids : build[b].ids[i] <= control.etag
    /\ build[b].prev <= manifest.etag /\ build[b].tag <= manifest.etag /\ build[b].base <= manifest.etag

(* ... nor is anything stored. *)
VersionInv ==
    /\ control.rev <= control.etag /\ control.base <= manifest.etag /\ manifest.ver <= manifest.etag
    /\ \A i \in Ids : dirty[i] <= control.etag
    /\ \A b \in Builders : Past(b)
    /\ touch.seen.etag <= manifest.etag
    /\ touch.open /\ touch.seen.etag = manifest.etag => touch.seen = manifest

(* A builder that has captured the ledger and not yet left it. *)
Captured(b) == build[b].pc \in
    {"rows", "open", "read", "commit", "base", "cas", "acking", "drain", "drained"}

(* What it captured was idle; the row it captured is the one with its ETag, and
   has been idle as long as the revision is the one it captured. *)
CaptureInv == \A b \in Builders : Captured(b) =>
    /\ build[b].cap.active = 0
    /\ build[b].cap.etag = control.etag => build[b].cap = control
    /\ build[b].cap.rev = control.rev => control.active = 0

-----------------------------------------------------------------------------
(* Contents. *)
(* What a writer has declared, page by page. *)
Declared(w) == IF writer[w].pc \in Holding THEN writer[w].ids \ writer[w].left ELSE {}

(* Nothing is declared before the begin, everything after its last page. *)
Shape(w) ==
    /\ writer[w].pc \in {"schedule", "begin"} => writer[w].ids \subseteq writer[w].left
    /\ writer[w].pc \in {"fence", "write", "finish"} => writer[w].left = {}

(* The rows it will touch are dirty, or the next build is a full one; and no
   builder is about to acknowledge them. *)
DeclaredInv ==
    /\ \A w \in Writers : Shape(w)
    /\ \A w \in Holders : ~writer[w].unsure => \A i \in Declared(w) : dirty[i] # 0
    /\ \A w \in Holders : writer[w].unsure => control.full
    /\ \A w \in Writers : \A b \in Builders : build[b].pc = "acking" =>
         \A i \in Declared(w) : build[b].ids[i] # 0 => dirty[i] # build[b].ids[i]

Current(b) == build[b].cap.etag = control.etag

(* How far an incremental build has the source in hand ... *)
OpenInv == \A b \in Builders :
    build[b].pc = "open" /\ ~build[b].full /\ Current(b) /\ manifest.ver = build[b].prev
        => \A i \in Ids : manifest.rows[i] = source[i] \/ build[b].ids[i] # 0
(* ... and any build, row by row, ... *)
ReadInv == \A b \in Builders :
    build[b].pc \in {"read", "commit"} /\ Current(b)
        => \A i \in Ids : build[b].rows[i] = source[i] \/ (build[b].pc = "read" /\ i \in build[b].todo)
(* ... and the manifest it committed, which no other builder replaces while it
   has the lease. *)
BaseInv == \A b \in Builders :
    build[b].pc = "base" /\ lock = b =>
        /\ Current(b) => manifest.rows = source
        /\ \A c \in Builders : build[c].pc = "commit" => build[c].tag < manifest.etag
CasInv == \A b \in Builders :
    build[b].pc = "cas" /\ Current(b) /\ manifest.ver = build[b].base => manifest.rows = source
(* What it acknowledges is in every manifest that is trusted. *)
DrainInv == \A b \in Builders :
    build[b].pc \in {"acking", "drain", "drained"} /\ control.rev = build[b].cap.rev /\ Trusted
        => manifest.rows = source
AckInv == \A b \in Builders :
    build[b].pc = "acking" /\ Trusted
        => \A i \in Ids : build[b].ids[i] # 0 /\ dirty[i] = build[b].ids[i]
                            => manifest.rows[i] = source[i]

ContentInv == OpenInv /\ ReadInv /\ BaseInv /\ CasInv /\ DrainInv /\ AckInv /\ CertifiedBaseCovers

-----------------------------------------------------------------------------
(* What a step does to a build, to the ledger and to the manifest.            *)

(* The steps that move a build on, all of them its own.                       *)
Acts(b) ==
    \/ Claim(b) \/ Lock(b) \/ CaptureControl(b) \/ CaptureDirty(b) \/ Open(b) \/ ReadRow(b)
    \/ FailRefresh(b) \/ Publish(b) \/ Commit(b) \/ Defer(b) \/ ReadBase(b) \/ Certify(b)
    \/ CertifyResent(b) \/ Drain(b) \/ DrainCheck(b) \/ DeleteDirty(b) \/ FinishBuild(b)
    \/ KillBuilder(b)

LEMMA BuildMoves ==
    ASSUME TypeOK, Next, NEW c \in Builders
    PROVE  build'[c] = build[c] \/ Acts(c)
  <1>1. ASSUME NEW w \in Writers, StartWrite(w) PROVE build'[c] = build[c]
    BY <1>1 DEF StartWrite, builderVars, operatorVars
  <1>2. ASSUME NEW w \in Writers, Schedule(w) PROVE build'[c] = build[c]
    BY <1>2 DEF Schedule, builderVars, operatorVars
  <1>3. ASSUME NEW w \in Writers, Begin(w) PROVE build'[c] = build[c]
    BY <1>3 DEF Begin, builderVars, operatorVars
  <1>4. ASSUME NEW w \in Writers, BeginPage(w) PROVE build'[c] = build[c]
    BY <1>4 DEF BeginPage, builderVars, operatorVars
  <1>5. ASSUME NEW w \in Writers, BeginResent(w) PROVE build'[c] = build[c]
    BY <1>5 DEF BeginResent, builderVars, operatorVars
  <1>6. ASSUME NEW w \in Writers, CheckFence(w) PROVE build'[c] = build[c]
    BY <1>6 DEF CheckFence, builderVars, operatorVars
  <1>7. ASSUME NEW w \in Writers, WriteSource(w) PROVE build'[c] = build[c]
    BY <1>7 DEF WriteSource, builderVars, operatorVars
  <1>8. ASSUME NEW w \in Writers, FailSource(w) PROVE build'[c] = build[c]
    BY <1>8 DEF FailSource, builderVars, operatorVars
  <1>9. ASSUME NEW w \in Writers, WriteMore(w) PROVE build'[c] = build[c]
    BY <1>9 DEF WriteMore, builderVars, operatorVars
  <1>10. ASSUME NEW w \in Writers, Finish(w) PROVE build'[c] = build[c]
    BY <1>10 DEF Finish, builderVars, operatorVars
  <1>11. ASSUME NEW w \in Writers, FinishResent(w) PROVE build'[c] = build[c]
    BY <1>11 DEF FinishResent, builderVars, operatorVars
  <1>12. ASSUME NEW w \in Writers, FinishAgain(w) PROVE build'[c] = build[c]
    BY <1>12 DEF FinishAgain, builderVars, operatorVars
  <1>13. ASSUME NEW w \in Writers, Reschedule(w) PROVE build'[c] = build[c]
    BY <1>13 DEF Reschedule, builderVars, operatorVars
  <1>14. ASSUME NEW w \in Writers, KillWriter(w) PROVE build'[c] = build[c]
    BY <1>14 DEF KillWriter, builderVars, operatorVars
  <1>15. ASSUME ReadTouch PROVE build'[c] = build[c]
    BY <1>15 DEF ReadTouch, builderVars, operatorVars
  <1>16. ASSUME WriteTouch PROVE build'[c] = build[c]
    BY <1>16 DEF WriteTouch, builderVars, operatorVars
  <1>17. ASSUME Recover PROVE build'[c] = build[c]
    BY <1>17 DEF Recover, builderVars, operatorVars
  <1>18. ASSUME ArmFence PROVE build'[c] = build[c]
    BY <1>18 DEF ArmFence, builderVars, operatorVars
  <1>19. ASSUME Prove PROVE build'[c] = build[c]
    BY <1>19 DEF Prove, builderVars, operatorVars
  <1>20. ASSUME RecoverReservations PROVE build'[c] = build[c]
    BY <1>20 DEF RecoverReservations, builderVars, operatorVars
  <1>21. ASSUME ResetCoverage PROVE build'[c] = build[c]
    BY <1>21 DEF ResetCoverage, builderVars, operatorVars
  <1>22. ASSUME KillOperator PROVE build'[c] = build[c]
    BY <1>22 DEF KillOperator, builderVars, operatorVars
  <1>23. ASSUME Resume PROVE build'[c] = build[c]
    BY <1>23 DEF Resume, builderVars, operatorVars
  <1>24. ASSUME NEW b \in Builders, Claim(b) PROVE build'[c] = build[c] \/ b = c
    BY <1>24 DEF Claim, GiveUp, Go, TypeOK
  <1>25. ASSUME NEW b \in Builders, Lock(b) PROVE build'[c] = build[c] \/ b = c
    BY <1>25 DEF Lock, GiveUp, Go, TypeOK
  <1>26. ASSUME NEW b \in Builders, CaptureControl(b) PROVE build'[c] = build[c] \/ b = c
    BY <1>26 DEF CaptureControl, GiveUp, Go, TypeOK
  <1>27. ASSUME NEW b \in Builders, CaptureDirty(b) PROVE build'[c] = build[c] \/ b = c
    BY <1>27 DEF CaptureDirty, GiveUp, Go, TypeOK
  <1>28. ASSUME NEW b \in Builders, Open(b) PROVE build'[c] = build[c] \/ b = c
    BY <1>28 DEF Open, GiveUp, Go, TypeOK
  <1>29. ASSUME NEW b \in Builders, ReadRow(b) PROVE build'[c] = build[c] \/ b = c
    BY <1>29 DEF ReadRow, GiveUp, Go, TypeOK
  <1>30. ASSUME NEW b \in Builders, FailRefresh(b) PROVE build'[c] = build[c] \/ b = c
    BY <1>30 DEF FailRefresh, GiveUp, Go, TypeOK
  <1>31. ASSUME NEW b \in Builders, Publish(b) PROVE build'[c] = build[c] \/ b = c
    BY <1>31 DEF Publish, GiveUp, Go, TypeOK
  <1>32. ASSUME NEW b \in Builders, Commit(b) PROVE build'[c] = build[c] \/ b = c
    BY <1>32 DEF Commit, GiveUp, Go, TypeOK
  <1>33. ASSUME NEW b \in Builders, Defer(b) PROVE build'[c] = build[c] \/ b = c
    BY <1>33 DEF Defer, GiveUp, Go, TypeOK
  <1>34. ASSUME NEW b \in Builders, ReadBase(b) PROVE build'[c] = build[c] \/ b = c
    BY <1>34 DEF ReadBase, GiveUp, Go, TypeOK
  <1>35. ASSUME NEW b \in Builders, Certify(b) PROVE build'[c] = build[c] \/ b = c
    BY <1>35 DEF Certify, GiveUp, Go, TypeOK
  <1>36. ASSUME NEW b \in Builders, CertifyResent(b) PROVE build'[c] = build[c] \/ b = c
    BY <1>36 DEF CertifyResent, GiveUp, Go, TypeOK
  <1>37. ASSUME NEW b \in Builders, Drain(b) PROVE build'[c] = build[c] \/ b = c
    BY <1>37 DEF Drain, GiveUp, Go, TypeOK
  <1>38. ASSUME NEW b \in Builders, DrainCheck(b) PROVE build'[c] = build[c] \/ b = c
    BY <1>38 DEF DrainCheck, GiveUp, Go, TypeOK
  <1>39. ASSUME NEW b \in Builders, DeleteDirty(b) PROVE build'[c] = build[c] \/ b = c
    BY <1>39 DEF DeleteDirty, GiveUp, Go, TypeOK
  <1>40. ASSUME NEW b \in Builders, FinishBuild(b) PROVE build'[c] = build[c] \/ b = c
    BY <1>40 DEF FinishBuild, GiveUp, Go, TypeOK
  <1>41. ASSUME NEW b \in Builders, Stall(b) PROVE build'[c] = build[c]
    BY <1>41 DEF Stall
  <1>42. ASSUME NEW b \in Builders, KillBuilder(b) PROVE build'[c] = build[c] \/ b = c
    BY <1>42 DEF KillBuilder, GiveUp, Go, TypeOK
  <1>. QED
    BY <1>1, <1>2, <1>3, <1>4, <1>5, <1>6, <1>7, <1>8, <1>9, <1>10, <1>11, <1>12, <1>13, <1>14,
      <1>15, <1>16, <1>17, <1>18, <1>19, <1>20, <1>21, <1>22, <1>23, <1>24, <1>25, <1>26,
      <1>27, <1>28, <1>29, <1>30, <1>31, <1>32, <1>33, <1>34, <1>35, <1>36, <1>37, <1>38,
      <1>39, <1>40, <1>41, <1>42
    DEF Next, WriterStep, BuildStep, Acts

(* A capture is of the idle ledger as it stands, and is kept until the build  *)
(* is over.                                                                   *)
Kept(c) == Captured(c) /\ build'[c].cap = build[c].cap
Fresh(c) == control.active = 0 /\ build'[c].cap = control /\ control' = control

LEMMA CaptureMoves ==
    ASSUME TypeOK, Next, NEW c \in Builders, Captured(c)'
    PROVE  Kept(c) \/ Fresh(c)
  <1>. USE DEF Captured, Kept, Fresh
  <1>1. CASE build'[c] = build[c]
    BY <1>1
  <1>2. CASE Claim(c)
    BY <1>2 DEF Claim, GiveUp, Go, At, NoBuild, TypeOK, Build
  <1>3. CASE Lock(c)
    BY <1>3 DEF Lock, GiveUp, Go, At, NoBuild, TypeOK, Build
  <1>4. CASE CaptureControl(c)
    <2>1. CASE Busy
      BY <1>4, <2>1 DEF CaptureControl, GiveUp, NoBuild, TypeOK
    <2>2. CASE ~Busy
      <3>1. build' = [build EXCEPT ![c].pc = "rows", ![c].cap = control] /\ control' = control
        BY <1>4, <2>2 DEF CaptureControl, ledgerVars
      <3>2. build'[c].cap = control
        BY <3>1 DEF TypeOK, Build
      <3>3. control.active = 0
        BY <2>2 DEF Busy, TypeOK, Control
      <3>. QED
        BY <3>1, <3>2, <3>3
    <2>. QED
      BY <2>1, <2>2
  <1>5. CASE CaptureDirty(c)
    BY <1>5 DEF CaptureDirty, GiveUp, Go, At, NoBuild, TypeOK, Build
  <1>6. CASE Open(c)
    BY <1>6 DEF Open, GiveUp, Go, At, NoBuild, TypeOK, Build
  <1>7. CASE ReadRow(c)
    BY <1>7 DEF ReadRow, At, TypeOK, Build
  <1>8. CASE FailRefresh(c)
    BY <1>8 DEF FailRefresh, GiveUp, Go, At, NoBuild, TypeOK, Build
  <1>9. CASE Publish(c)
    BY <1>9 DEF Publish, GiveUp, Go, At, NoBuild, TypeOK, Build
  <1>10. CASE Commit(c)
    BY <1>10 DEF Commit, GiveUp, Go, At, NoBuild, TypeOK, Build
  <1>11. CASE Defer(c)
    BY <1>11 DEF Defer, GiveUp, Go, At, NoBuild, TypeOK, Build
  <1>12. CASE ReadBase(c)
    BY <1>12 DEF ReadBase, GiveUp, Go, At, NoBuild, TypeOK, Build
  <1>13. CASE Certify(c)
    BY <1>13 DEF Certify, GiveUp, Go, At, NoBuild, TypeOK, Build
  <1>14. CASE CertifyResent(c)
    BY <1>14 DEF CertifyResent, GiveUp, Go, At, NoBuild, TypeOK, Build
  <1>15. CASE Drain(c)
    BY <1>15 DEF Drain, GiveUp, Go, At, NoBuild, TypeOK, Build
  <1>16. CASE DrainCheck(c)
    BY <1>16 DEF DrainCheck, GiveUp, Go, At, NoBuild, TypeOK, Build
  <1>17. CASE DeleteDirty(c)
    BY <1>17 DEF DeleteDirty, GiveUp, Go, At, NoBuild, TypeOK, Build
  <1>18. CASE FinishBuild(c)
    BY <1>18 DEF FinishBuild, GiveUp, Go, At, NoBuild, TypeOK, Build
  <1>19. CASE KillBuilder(c)
    BY <1>19 DEF KillBuilder, GiveUp, Go, At, NoBuild, TypeOK, Build
  <1>. QED
    BY BuildMoves,
      <1>1, <1>2, <1>3, <1>4, <1>5, <1>6, <1>7, <1>8, <1>9, <1>10, <1>11, <1>12, <1>13, <1>14,
      <1>15, <1>16, <1>17, <1>18, <1>19
    DEF Acts

(* A build takes what it holds from the rows that are stored.                 *)
Loads(c) ==
    /\ build'[c].cap \in {build[c].cap, control, NoControl}
    /\ \A i \in Ids : build'[c].ids[i] \in {build[c].ids[i], dirty[i], 0}
    /\ build'[c].prev \in {build[c].prev, manifest.ver, 0}
    /\ build'[c].tag \in {build[c].tag, manifest.etag, 0}
    /\ build'[c].base \in {build[c].base, manifest.ver, 0}

LEMMA GivenUp ==
    ASSUME TypeOK, NEW c \in Builders, build' = [build EXCEPT ![c] = NoBuild]
    PROVE  Loads(c)
  <1>1. build'[c] = NoBuild
    BY DEF TypeOK
  <1>. QED
    BY <1>1 DEF Loads, NoBuild, Blank

LEMMA GoneOn ==
    ASSUME TypeOK, NEW c \in Builders, NEW pc, Go(c, pc)
    PROVE  Loads(c)
  BY DEF Loads, Go, TypeOK, Build

LEMMA LoadMoves ==
    ASSUME TypeOK, Next, NEW c \in Builders
    PROVE  Loads(c)
  <1>1. CASE build'[c] = build[c]
    BY <1>1 DEF Loads
  <1>2. CASE Claim(c)
    BY <1>2, GivenUp, GoneOn DEF Claim, GiveUp, Loads, NoBuild, Blank, TypeOK, Build
  <1>3. CASE Lock(c)
    BY <1>3, GivenUp, GoneOn DEF Lock, GiveUp
  <1>4. CASE CaptureControl(c)
    BY <1>4, GivenUp, GoneOn DEF CaptureControl, GiveUp, Loads, TypeOK, Build
  <1>5. CASE CaptureDirty(c)
    <2>1. CASE GiveUp(c) \/ Go(c, "finish")
      BY <2>1, GivenUp, GoneOn DEF GiveUp
    <2>2. PICK ids \in Captures : Verdict(c, ids)
      BY <1>5 DEF CaptureDirty, Verdict
    <2>3. CASE \E more, full :
                 build' = [build EXCEPT ![c].pc = "open", ![c].ids = Rows(ids),
                            ![c].more = more, ![c].full = full, ![c].prev = manifest.ver]
      <3>1. /\ build'[c].ids = Rows(ids) /\ build'[c].cap = build[c].cap /\ build'[c].prev = manifest.ver
            /\ build'[c].tag = build[c].tag /\ build'[c].base = build[c].base
        BY <2>3 DEF TypeOK, Build
      <3>. QED
        BY <3>1 DEF Loads, Rows
    <2>. QED
      BY <2>1, <2>2, <2>3 DEF Verdict
  <1>6. CASE Open(c)
    BY <1>6, GivenUp, GoneOn DEF Open, GiveUp, Loads, TypeOK, Build
  <1>7. CASE ReadRow(c)
    BY <1>7 DEF ReadRow, Loads, TypeOK, Build
  <1>8. CASE FailRefresh(c)
    BY <1>8, GivenUp, GoneOn DEF FailRefresh, GiveUp
  <1>9. CASE Publish(c)
    BY <1>9, GivenUp, GoneOn DEF Publish, GiveUp
  <1>10. CASE Commit(c)
    BY <1>10, GivenUp, GoneOn DEF Commit, GiveUp
  <1>11. CASE Defer(c)
    BY <1>11, GivenUp, GoneOn DEF Defer, GiveUp
  <1>12. CASE ReadBase(c)
    BY <1>12, GivenUp, GoneOn DEF ReadBase, GiveUp, Loads, TypeOK, Build
  <1>13. CASE Certify(c)
    BY <1>13, GivenUp, GoneOn DEF Certify, GiveUp
  <1>14. CASE CertifyResent(c)
    BY <1>14, GivenUp, GoneOn DEF CertifyResent, GiveUp
  <1>15. CASE Drain(c)
    <2>1. PICK ids \in Captures :
            build' = [build EXCEPT ![c].pc = "drained", ![c].ids = Rows(ids), ![c].more = ids # Dirty(dirty)]
      BY <1>15 DEF Drain
    <2>2. /\ build'[c].ids = Rows(ids) /\ build'[c].cap = build[c].cap /\ build'[c].prev = build[c].prev
          /\ build'[c].tag = build[c].tag /\ build'[c].base = build[c].base
      BY <2>1 DEF TypeOK, Build
    <2>. QED
      BY <2>2 DEF Loads, Rows
  <1>16. CASE DrainCheck(c)
    BY <1>16, GivenUp, GoneOn DEF DrainCheck, GiveUp
  <1>17. CASE DeleteDirty(c)
    BY <1>17, GivenUp, GoneOn DEF DeleteDirty, GiveUp
  <1>18. CASE FinishBuild(c)
    BY <1>18, GivenUp, GoneOn DEF FinishBuild, GiveUp
  <1>19. CASE KillBuilder(c)
    BY <1>19, GivenUp, GoneOn DEF KillBuilder, GiveUp
  <1>. QED
    BY BuildMoves,
      <1>1, <1>2, <1>3, <1>4, <1>5, <1>6, <1>7, <1>8, <1>9, <1>10, <1>11, <1>12, <1>13, <1>14,
      <1>15, <1>16, <1>17, <1>18, <1>19
    DEF Acts

(* The ledger advances by one transaction ...                                 *)
Advanced ==
    /\ control'.etag = control.etag + 1 /\ control'.rev = control.etag + 1
    /\ control'.base \in {control.base, 0}
    /\ control.full => control'.full
    /\ \A i \in Ids : dirty'[i] \in {dirty[i], control.etag + 1}
    /\ UNCHANGED <<source, manifest, touch>>
(* ... is certified as it was captured ...                                    *)
Certifies(b) ==
    /\ build[b].pc = "cas" /\ control = build[b].cap
    /\ control' = [control EXCEPT !.etag = @ + 1, !.full = FALSE, !.base = build[b].base,
                      !.covered = control.rev]
    /\ UNCHANGED <<source, dirty, manifest, touch>>
(* ... or keeps its row while dirty rows are acknowledged.                     *)
Still ==
    /\ control' = control
    /\ \A i \in Ids : dirty'[i] # dirty[i] =>
         dirty'[i] = 0 /\ \E b \in Builders : build[b].pc = "acking" /\ dirty[i] = build[b].ids[i]

LEMMA ChangeAdvances ==
    ASSUME TypeOK, NEW row \in Control, NEW ids, Change(row, ids), row.base \in {control.base, 0},
           control.full => row.full, UNCHANGED <<source, manifest, touch>>
    PROVE  Advanced
  <1>1. control' = [row EXCEPT !.rev = control.etag + 1, !.etag = control.etag + 1]
    BY DEF Change
  <1>2. /\ control'.etag = control.etag + 1 /\ control'.rev = control.etag + 1
        /\ control'.base = row.base /\ control'.full = row.full
    BY <1>1 DEF Control
  <1>3. \A i \in Ids : dirty'[i] \in {dirty[i], control.etag + 1}
    BY DEF Change
  <1>. QED
    BY <1>2, <1>3 DEF Advanced

LEMMA CountKeeps ==
    ASSUME TypeOK, NEW w \in Writers
    PROVE  /\ Reserved(control, w, TRUE).base = control.base
           /\ control.full => Reserved(control, w, TRUE).full
           /\ Released(control, w).base = control.base
           /\ control.full => Released(control, w).full
           /\ Reserved(control, w, FALSE) = control
           /\ Reserved(control, w, TRUE).active = control.active + 1
           /\ Released(control, w).active = control.active - 1
           /\ writer[w].unsure => Reserved(control, w, TRUE).full
  <1>1. control = [rev |-> control.rev, etag |-> control.etag, active |-> control.active, full |-> control.full,
                   base |-> control.base, covered |-> control.covered]
    BY DEF TypeOK, Control
  <1>. QED
    BY <1>1 DEF Reserved, Released

LEMMA LedgerMoves ==
    ASSUME TypeOK, CaptureInv, Next
    PROVE  Advanced \/ (\E b \in Builders : Certifies(b)) \/ Still
  <1>1. ASSUME NEW w \in Writers, StartWrite(w) PROVE Still
    BY <1>1 DEF StartWrite, Still, writerVars, builderVars, operatorVars, ledgerVars
  <1>2. ASSUME NEW w \in Writers, Schedule(w) PROVE Still
    BY <1>2 DEF Schedule, Still, writerVars, builderVars, operatorVars, ledgerVars
  <1>3. ASSUME NEW w \in Writers, Begin(w) PROVE Advanced
    <2>1. PICK page \in Pages(writer[w].left) : Change(Reserved(control, w, TRUE), page)
      BY <1>3 DEF Begin
    <2>2. UNCHANGED <<source, manifest, touch>>
      BY <1>3 DEF Begin, builderVars, operatorVars
    <2>3. /\ Reserved(control, w, TRUE) \in Control /\ Reserved(control, w, TRUE).base = control.base
          /\ control.full => Reserved(control, w, TRUE).full
      BY CountKeeps, CountTypes
    <2>. QED
      BY <2>1, <2>2, <2>3, ChangeAdvances
  <1>4. ASSUME NEW w \in Writers, BeginPage(w) PROVE Advanced
    <2>1. PICK page \in Pages(writer[w].left) : Change(Reserved(control, w, FALSE), page)
      BY <1>4 DEF BeginPage
    <2>2. UNCHANGED <<source, manifest, touch>>
      BY <1>4 DEF BeginPage, builderVars, operatorVars
    <2>3. /\ Reserved(control, w, FALSE) \in Control /\ Reserved(control, w, FALSE).base = control.base
          /\ control.full => Reserved(control, w, FALSE).full
      BY CountKeeps, CountTypes
    <2>. QED
      BY <2>1, <2>2, <2>3, ChangeAdvances
  <1>5. ASSUME NEW w \in Writers, BeginResent(w) PROVE Advanced
    <2>1. PICK page \in Pages(writer[w].left) : Change(Reserved(control, w, TRUE), page)
      BY <1>5 DEF BeginResent
    <2>2. UNCHANGED <<source, manifest, touch>>
      BY <1>5 DEF BeginResent, builderVars, operatorVars
    <2>3. /\ Reserved(control, w, TRUE) \in Control /\ Reserved(control, w, TRUE).base = control.base
          /\ control.full => Reserved(control, w, TRUE).full
      BY CountKeeps, CountTypes
    <2>. QED
      BY <2>1, <2>2, <2>3, ChangeAdvances
  <1>6. ASSUME NEW w \in Writers, CheckFence(w) PROVE Still
    BY <1>6 DEF CheckFence, Still, writerVars, builderVars, operatorVars, ledgerVars
  <1>7. ASSUME NEW w \in Writers, WriteSource(w) PROVE Still
    BY <1>7 DEF WriteSource, Still, writerVars, builderVars, operatorVars, ledgerVars
  <1>8. ASSUME NEW w \in Writers, FailSource(w) PROVE Still
    BY <1>8 DEF FailSource, Still, writerVars, builderVars, operatorVars, ledgerVars
  <1>9. ASSUME NEW w \in Writers, WriteMore(w) PROVE Still
    BY <1>9 DEF WriteMore, Still, writerVars, builderVars, operatorVars, ledgerVars
  <1>10. ASSUME NEW w \in Writers, Finish(w) PROVE Advanced \/ Still
    <2>1. CASE Balanced
      BY <1>10, <2>1, ChangeAdvances, CountKeeps, CountTypes DEF Finish, builderVars, operatorVars
    <2>. QED
      BY <1>10, <2>1 DEF Finish, Still
  <1>11. ASSUME NEW w \in Writers, FinishResent(w) PROVE Advanced \/ Still
    <2>1. CASE Balanced
      BY <1>11, <2>1, ChangeAdvances, CountKeeps, CountTypes
        DEF FinishResent, builderVars, operatorVars
    <2>. QED
      BY <1>11, <2>1 DEF FinishResent, Still
  <1>12. ASSUME NEW w \in Writers, FinishAgain(w) PROVE Advanced \/ Still
    <2>1. CASE Balanced
      BY <1>12, <2>1, ChangeAdvances, CountKeeps, CountTypes
        DEF FinishAgain, builderVars, operatorVars
    <2>. QED
      BY <1>12, <2>1 DEF FinishAgain, Still
  <1>13. ASSUME NEW w \in Writers, Reschedule(w) PROVE Still
    BY <1>13 DEF Reschedule, Still, writerVars, builderVars, operatorVars, ledgerVars
  <1>14. ASSUME NEW w \in Writers, KillWriter(w) PROVE Still
    BY <1>14 DEF KillWriter, Still, writerVars, builderVars, operatorVars, ledgerVars
  <1>15. ASSUME NEW b \in Builders, Claim(b) PROVE Still
    BY <1>15 DEF Claim, Still, writerVars, builderVars, operatorVars, ledgerVars
  <1>16. ASSUME NEW b \in Builders, Lock(b) PROVE Still
    BY <1>16 DEF Lock, Still, writerVars, builderVars, operatorVars, ledgerVars
  <1>17. ASSUME NEW b \in Builders, CaptureControl(b) PROVE Still
    BY <1>17 DEF CaptureControl, Still, writerVars, builderVars, operatorVars, ledgerVars
  <1>18. ASSUME NEW b \in Builders, CaptureDirty(b) PROVE Still
    BY <1>18 DEF CaptureDirty, Still, writerVars, builderVars, operatorVars, ledgerVars
  <1>19. ASSUME NEW b \in Builders, Open(b) PROVE Still
    BY <1>19 DEF Open, Still, writerVars, builderVars, operatorVars, ledgerVars
  <1>20. ASSUME NEW b \in Builders, ReadRow(b) PROVE Still
    BY <1>20 DEF ReadRow, Still, writerVars, builderVars, operatorVars, ledgerVars
  <1>21. ASSUME NEW b \in Builders, FailRefresh(b) PROVE Still
    BY <1>21 DEF FailRefresh, Still, writerVars, builderVars, operatorVars, ledgerVars
  <1>22. ASSUME NEW b \in Builders, Publish(b) PROVE Still
    BY <1>22 DEF Publish, Still, writerVars, builderVars, operatorVars, ledgerVars
  <1>23. ASSUME NEW b \in Builders, Commit(b) PROVE Still
    BY <1>23 DEF Commit, Still, writerVars, builderVars, operatorVars, ledgerVars
  <1>24. ASSUME NEW b \in Builders, Defer(b) PROVE Advanced
    <2>1. [control EXCEPT !.full = TRUE] \in Control
      BY ControlValues DEF TypeOK
    <2>2. [control EXCEPT !.full = TRUE].base = control.base /\ [control EXCEPT !.full = TRUE].full
      BY DEF TypeOK, Control
    <2>. QED
      BY <1>24, <2>1, <2>2, ChangeAdvances DEF Defer, operatorVars
  <1>25. ASSUME NEW b \in Builders, ReadBase(b) PROVE Still
    BY <1>25 DEF ReadBase, Still, writerVars, builderVars, operatorVars, ledgerVars
  <1>26. ASSUME NEW b \in Builders, Certify(b) PROVE Certifies(b) \/ Still
    <2>1. build[b].pc = "cas" /\ UNCHANGED <<source, dirty, manifest, touch>>
      BY <1>26 DEF Certify, At, operatorVars
    <2>2. CASE control.etag = build[b].cap.etag
      <3>1. build[b].cap = control
        BY <2>1, <2>2 DEF CaptureInv, Captured
      <3>. QED
        BY <1>26, <2>1, <2>2, <3>1 DEF Certify, Certifies
    <2>3. CASE control.etag # build[b].cap.etag
      BY <1>26, <2>1, <2>3 DEF Certify, Still
    <2>. QED
      BY <2>2, <2>3
  <1>27. ASSUME NEW b \in Builders, CertifyResent(b) PROVE Certifies(b) \/ Still
    <2>1. build[b].pc = "cas" /\ UNCHANGED <<source, dirty, manifest, touch>>
      BY <1>27 DEF CertifyResent, At, operatorVars
    <2>2. CASE control.etag = build[b].cap.etag
      <3>1. build[b].cap = control
        BY <2>1, <2>2 DEF CaptureInv, Captured
      <3>. QED
        BY <1>27, <2>1, <2>2, <3>1 DEF CertifyResent, Certifies
    <2>3. CASE control.etag # build[b].cap.etag
      BY <1>27, <2>1, <2>3 DEF CertifyResent, Still
    <2>. QED
      BY <2>2, <2>3
  <1>28. ASSUME NEW b \in Builders, Drain(b) PROVE Still
    BY <1>28 DEF Drain, Still, writerVars, builderVars, operatorVars, ledgerVars
  <1>29. ASSUME NEW b \in Builders, DrainCheck(b) PROVE Still
    BY <1>29 DEF DrainCheck, Still, writerVars, builderVars, operatorVars, ledgerVars
  <1>30. ASSUME NEW b \in Builders, DeleteDirty(b) PROVE Still
    BY <1>30 DEF DeleteDirty, Acknowledged, At, Still, TypeOK, Versions
  <1>31. ASSUME NEW b \in Builders, FinishBuild(b) PROVE Still
    BY <1>31 DEF FinishBuild, Still, writerVars, builderVars, operatorVars, ledgerVars
  <1>32. ASSUME NEW b \in Builders, Stall(b) PROVE Still
    BY <1>32 DEF Stall, Still, writerVars, builderVars, operatorVars, ledgerVars
  <1>33. ASSUME NEW b \in Builders, KillBuilder(b) PROVE Still
    BY <1>33 DEF KillBuilder, Still, writerVars, builderVars, operatorVars, ledgerVars
  <1>34. ASSUME ReadTouch PROVE Still
    BY <1>34 DEF ReadTouch, Still, writerVars, builderVars, operatorVars, ledgerVars
  <1>35. ASSUME WriteTouch PROVE Still
    BY <1>35 DEF WriteTouch, Still, writerVars, builderVars, operatorVars, ledgerVars
  <1>36. ASSUME Recover PROVE Still
    BY <1>36 DEF Recover, Still, writerVars, builderVars, operatorVars, ledgerVars
  <1>37. ASSUME ArmFence PROVE Still
    BY <1>37 DEF ArmFence, Still, writerVars, builderVars, operatorVars, ledgerVars
  <1>38. ASSUME Prove PROVE Still
    BY <1>38 DEF Prove, Still, writerVars, builderVars, operatorVars, ledgerVars
  <1>39. ASSUME RecoverReservations PROVE Still
    BY <1>39 DEF RecoverReservations, Still, writerVars, builderVars, operatorVars, ledgerVars
  <1>40. ASSUME ResetCoverage PROVE Advanced
    <2>. DEFINE row == [control EXCEPT !.active = 0, !.full = TRUE, !.base = 0, !.covered = 0]
    <2>1. row \in Control /\ row.base \in {control.base, 0} /\ row.full
      BY DEF TypeOK, Control
    <2>2. Change(row, {})
      BY <1>40 DEF ResetCoverage, TypeOK, Control
    <2>. QED
      BY <1>40, <2>1, <2>2, ChangeAdvances DEF ResetCoverage, operatorVars
  <1>41. ASSUME KillOperator PROVE Still
    BY <1>41 DEF KillOperator, Still, writerVars, builderVars, operatorVars, ledgerVars
  <1>42. ASSUME Resume PROVE Still
    BY <1>42 DEF Resume, Still, writerVars, builderVars, operatorVars, ledgerVars
  <1>. QED
    BY <1>1, <1>2, <1>3, <1>4, <1>5, <1>6, <1>7, <1>8, <1>9, <1>10, <1>11, <1>12, <1>13, <1>14,
      <1>15, <1>16, <1>17, <1>18, <1>19, <1>20, <1>21, <1>22, <1>23, <1>24, <1>25, <1>26,
      <1>27, <1>28, <1>29, <1>30, <1>31, <1>32, <1>33, <1>34, <1>35, <1>36, <1>37, <1>38,
      <1>39, <1>40, <1>41, <1>42
    DEF Next, WriterStep, BuildStep

(* The manifest is replaced by a build that read its ETag, or marked.         *)
Replaced == \E b \in Builders :
    /\ Commit(b) /\ manifest.etag = build[b].tag
    /\ manifest' = [etag |-> manifest.etag + 1, ver |-> manifest.etag + 1, rows |-> build[b].rows]
Marked ==
    /\ manifest' = [manifest EXCEPT !.etag = @ + 1]
    /\ touch' = NoTouch /\ UNCHANGED <<ledgerVars, build, lock>>

LEMMA ManifestMoves ==
    ASSUME TypeOK, VersionInv, Next
    PROVE  manifest' = manifest \/ Replaced \/ Marked
  <1>1. ASSUME NEW w \in Writers, StartWrite(w) PROVE manifest' = manifest
    BY <1>1 DEF StartWrite, writerVars, builderVars, operatorVars, ledgerVars
  <1>2. ASSUME NEW w \in Writers, Schedule(w) PROVE manifest' = manifest
    BY <1>2 DEF Schedule, writerVars, builderVars, operatorVars, ledgerVars
  <1>3. ASSUME NEW w \in Writers, Begin(w) PROVE manifest' = manifest
    BY <1>3 DEF Begin, writerVars, builderVars, operatorVars, ledgerVars
  <1>4. ASSUME NEW w \in Writers, BeginPage(w) PROVE manifest' = manifest
    BY <1>4 DEF BeginPage, writerVars, builderVars, operatorVars, ledgerVars
  <1>5. ASSUME NEW w \in Writers, BeginResent(w) PROVE manifest' = manifest
    BY <1>5 DEF BeginResent, writerVars, builderVars, operatorVars, ledgerVars
  <1>6. ASSUME NEW w \in Writers, CheckFence(w) PROVE manifest' = manifest
    BY <1>6 DEF CheckFence, writerVars, builderVars, operatorVars, ledgerVars
  <1>7. ASSUME NEW w \in Writers, WriteSource(w) PROVE manifest' = manifest
    BY <1>7 DEF WriteSource, writerVars, builderVars, operatorVars, ledgerVars
  <1>8. ASSUME NEW w \in Writers, FailSource(w) PROVE manifest' = manifest
    BY <1>8 DEF FailSource, writerVars, builderVars, operatorVars, ledgerVars
  <1>9. ASSUME NEW w \in Writers, WriteMore(w) PROVE manifest' = manifest
    BY <1>9 DEF WriteMore, writerVars, builderVars, operatorVars, ledgerVars
  <1>10. ASSUME NEW w \in Writers, Finish(w) PROVE manifest' = manifest
    BY <1>10 DEF Finish, writerVars, builderVars, operatorVars, ledgerVars
  <1>11. ASSUME NEW w \in Writers, FinishResent(w) PROVE manifest' = manifest
    BY <1>11 DEF FinishResent, writerVars, builderVars, operatorVars, ledgerVars
  <1>12. ASSUME NEW w \in Writers, FinishAgain(w) PROVE manifest' = manifest
    BY <1>12 DEF FinishAgain, writerVars, builderVars, operatorVars, ledgerVars
  <1>13. ASSUME NEW w \in Writers, Reschedule(w) PROVE manifest' = manifest
    BY <1>13 DEF Reschedule, writerVars, builderVars, operatorVars, ledgerVars
  <1>14. ASSUME NEW w \in Writers, KillWriter(w) PROVE manifest' = manifest
    BY <1>14 DEF KillWriter, writerVars, builderVars, operatorVars, ledgerVars
  <1>15. ASSUME NEW b \in Builders, Claim(b) PROVE manifest' = manifest
    BY <1>15 DEF Claim, writerVars, builderVars, operatorVars, ledgerVars
  <1>16. ASSUME NEW b \in Builders, Lock(b) PROVE manifest' = manifest
    BY <1>16 DEF Lock, writerVars, builderVars, operatorVars, ledgerVars
  <1>17. ASSUME NEW b \in Builders, CaptureControl(b) PROVE manifest' = manifest
    BY <1>17 DEF CaptureControl, writerVars, builderVars, operatorVars, ledgerVars
  <1>18. ASSUME NEW b \in Builders, CaptureDirty(b) PROVE manifest' = manifest
    BY <1>18 DEF CaptureDirty, writerVars, builderVars, operatorVars, ledgerVars
  <1>19. ASSUME NEW b \in Builders, Open(b) PROVE manifest' = manifest
    BY <1>19 DEF Open, writerVars, builderVars, operatorVars, ledgerVars
  <1>20. ASSUME NEW b \in Builders, ReadRow(b) PROVE manifest' = manifest
    BY <1>20 DEF ReadRow, writerVars, builderVars, operatorVars, ledgerVars
  <1>21. ASSUME NEW b \in Builders, FailRefresh(b) PROVE manifest' = manifest
    BY <1>21 DEF FailRefresh, writerVars, builderVars, operatorVars, ledgerVars
  <1>22. ASSUME NEW b \in Builders, Publish(b) PROVE manifest' = manifest
    BY <1>22 DEF Publish, writerVars, builderVars, operatorVars, ledgerVars
  <1>23. ASSUME NEW b \in Builders, Commit(b) PROVE manifest' = manifest \/ Replaced
    BY <1>23 DEF Commit, Replaced
  <1>24. ASSUME NEW b \in Builders, Defer(b) PROVE manifest' = manifest
    BY <1>24 DEF Defer, writerVars, builderVars, operatorVars, ledgerVars
  <1>25. ASSUME NEW b \in Builders, ReadBase(b) PROVE manifest' = manifest
    BY <1>25 DEF ReadBase, writerVars, builderVars, operatorVars, ledgerVars
  <1>26. ASSUME NEW b \in Builders, Certify(b) PROVE manifest' = manifest
    BY <1>26 DEF Certify, writerVars, builderVars, operatorVars, ledgerVars
  <1>27. ASSUME NEW b \in Builders, CertifyResent(b) PROVE manifest' = manifest
    BY <1>27 DEF CertifyResent, writerVars, builderVars, operatorVars, ledgerVars
  <1>28. ASSUME NEW b \in Builders, Drain(b) PROVE manifest' = manifest
    BY <1>28 DEF Drain, writerVars, builderVars, operatorVars, ledgerVars
  <1>29. ASSUME NEW b \in Builders, DrainCheck(b) PROVE manifest' = manifest
    BY <1>29 DEF DrainCheck, writerVars, builderVars, operatorVars, ledgerVars
  <1>30. ASSUME NEW b \in Builders, DeleteDirty(b) PROVE manifest' = manifest
    BY <1>30 DEF DeleteDirty, writerVars, builderVars, operatorVars, ledgerVars
  <1>31. ASSUME NEW b \in Builders, FinishBuild(b) PROVE manifest' = manifest
    BY <1>31 DEF FinishBuild, writerVars, builderVars, operatorVars, ledgerVars
  <1>32. ASSUME NEW b \in Builders, Stall(b) PROVE manifest' = manifest
    BY <1>32 DEF Stall, writerVars, builderVars, operatorVars, ledgerVars
  <1>33. ASSUME NEW b \in Builders, KillBuilder(b) PROVE manifest' = manifest
    BY <1>33 DEF KillBuilder, writerVars, builderVars, operatorVars, ledgerVars
  <1>34. ASSUME ReadTouch PROVE manifest' = manifest
    BY <1>34 DEF ReadTouch, writerVars, builderVars, operatorVars, ledgerVars
  <1>35. ASSUME WriteTouch PROVE manifest' = manifest \/ Marked
    BY <1>35 DEF WriteTouch, Marked, VersionInv
  <1>36. ASSUME Recover PROVE manifest' = manifest
    BY <1>36 DEF Recover, writerVars, builderVars, operatorVars, ledgerVars
  <1>37. ASSUME ArmFence PROVE manifest' = manifest
    BY <1>37 DEF ArmFence, writerVars, builderVars, operatorVars, ledgerVars
  <1>38. ASSUME Prove PROVE manifest' = manifest
    BY <1>38 DEF Prove, writerVars, builderVars, operatorVars, ledgerVars
  <1>39. ASSUME RecoverReservations PROVE manifest' = manifest
    BY <1>39 DEF RecoverReservations, writerVars, builderVars, operatorVars, ledgerVars
  <1>40. ASSUME ResetCoverage PROVE manifest' = manifest
    BY <1>40 DEF ResetCoverage, writerVars, builderVars, operatorVars, ledgerVars
  <1>41. ASSUME KillOperator PROVE manifest' = manifest
    BY <1>41 DEF KillOperator, writerVars, builderVars, operatorVars, ledgerVars
  <1>42. ASSUME Resume PROVE manifest' = manifest
    BY <1>42 DEF Resume, writerVars, builderVars, operatorVars, ledgerVars
  <1>. QED
    BY <1>1, <1>2, <1>3, <1>4, <1>5, <1>6, <1>7, <1>8, <1>9, <1>10, <1>11, <1>12, <1>13, <1>14,
      <1>15, <1>16, <1>17, <1>18, <1>19, <1>20, <1>21, <1>22, <1>23, <1>24, <1>25, <1>26,
      <1>27, <1>28, <1>29, <1>30, <1>31, <1>32, <1>33, <1>34, <1>35, <1>36, <1>37, <1>38,
      <1>39, <1>40, <1>41, <1>42
    DEF Next, WriterStep, BuildStep

LEMMA TouchMoves ==
    ASSUME TypeOK, Next
    PROVE  \/ touch' = touch \/ touch' = NoTouch
           \/ touch' = [open |-> TRUE, seen |-> manifest] /\ manifest' = manifest
  <1>1. ASSUME NEW w \in Writers, StartWrite(w) PROVE touch' = touch
    BY <1>1 DEF StartWrite, writerVars, builderVars, operatorVars, ledgerVars
  <1>2. ASSUME NEW w \in Writers, Schedule(w) PROVE touch' = touch
    BY <1>2 DEF Schedule, writerVars, builderVars, operatorVars, ledgerVars
  <1>3. ASSUME NEW w \in Writers, Begin(w) PROVE touch' = touch
    BY <1>3 DEF Begin, writerVars, builderVars, operatorVars, ledgerVars
  <1>4. ASSUME NEW w \in Writers, BeginPage(w) PROVE touch' = touch
    BY <1>4 DEF BeginPage, writerVars, builderVars, operatorVars, ledgerVars
  <1>5. ASSUME NEW w \in Writers, BeginResent(w) PROVE touch' = touch
    BY <1>5 DEF BeginResent, writerVars, builderVars, operatorVars, ledgerVars
  <1>6. ASSUME NEW w \in Writers, CheckFence(w) PROVE touch' = touch
    BY <1>6 DEF CheckFence, writerVars, builderVars, operatorVars, ledgerVars
  <1>7. ASSUME NEW w \in Writers, WriteSource(w) PROVE touch' = touch
    BY <1>7 DEF WriteSource, writerVars, builderVars, operatorVars, ledgerVars
  <1>8. ASSUME NEW w \in Writers, FailSource(w) PROVE touch' = touch
    BY <1>8 DEF FailSource, writerVars, builderVars, operatorVars, ledgerVars
  <1>9. ASSUME NEW w \in Writers, WriteMore(w) PROVE touch' = touch
    BY <1>9 DEF WriteMore, writerVars, builderVars, operatorVars, ledgerVars
  <1>10. ASSUME NEW w \in Writers, Finish(w) PROVE touch' = touch
    BY <1>10 DEF Finish, writerVars, builderVars, operatorVars, ledgerVars
  <1>11. ASSUME NEW w \in Writers, FinishResent(w) PROVE touch' = touch
    BY <1>11 DEF FinishResent, writerVars, builderVars, operatorVars, ledgerVars
  <1>12. ASSUME NEW w \in Writers, FinishAgain(w) PROVE touch' = touch
    BY <1>12 DEF FinishAgain, writerVars, builderVars, operatorVars, ledgerVars
  <1>13. ASSUME NEW w \in Writers, Reschedule(w) PROVE touch' = touch
    BY <1>13 DEF Reschedule, writerVars, builderVars, operatorVars, ledgerVars
  <1>14. ASSUME NEW w \in Writers, KillWriter(w) PROVE touch' = touch
    BY <1>14 DEF KillWriter, writerVars, builderVars, operatorVars, ledgerVars
  <1>15. ASSUME NEW b \in Builders, Claim(b) PROVE touch' = touch
    BY <1>15 DEF Claim, writerVars, builderVars, operatorVars, ledgerVars
  <1>16. ASSUME NEW b \in Builders, Lock(b) PROVE touch' = touch
    BY <1>16 DEF Lock, writerVars, builderVars, operatorVars, ledgerVars
  <1>17. ASSUME NEW b \in Builders, CaptureControl(b) PROVE touch' = touch
    BY <1>17 DEF CaptureControl, writerVars, builderVars, operatorVars, ledgerVars
  <1>18. ASSUME NEW b \in Builders, CaptureDirty(b) PROVE touch' = touch
    BY <1>18 DEF CaptureDirty, writerVars, builderVars, operatorVars, ledgerVars
  <1>19. ASSUME NEW b \in Builders, Open(b) PROVE touch' = touch
    BY <1>19 DEF Open, writerVars, builderVars, operatorVars, ledgerVars
  <1>20. ASSUME NEW b \in Builders, ReadRow(b) PROVE touch' = touch
    BY <1>20 DEF ReadRow, writerVars, builderVars, operatorVars, ledgerVars
  <1>21. ASSUME NEW b \in Builders, FailRefresh(b) PROVE touch' = touch
    BY <1>21 DEF FailRefresh, writerVars, builderVars, operatorVars, ledgerVars
  <1>22. ASSUME NEW b \in Builders, Publish(b) PROVE touch' = touch
    BY <1>22 DEF Publish, writerVars, builderVars, operatorVars, ledgerVars
  <1>23. ASSUME NEW b \in Builders, Commit(b) PROVE touch' = touch
    BY <1>23 DEF Commit, writerVars, builderVars, operatorVars, ledgerVars
  <1>24. ASSUME NEW b \in Builders, Defer(b) PROVE touch' = touch
    BY <1>24 DEF Defer, writerVars, builderVars, operatorVars, ledgerVars
  <1>25. ASSUME NEW b \in Builders, ReadBase(b) PROVE touch' = touch
    BY <1>25 DEF ReadBase, writerVars, builderVars, operatorVars, ledgerVars
  <1>26. ASSUME NEW b \in Builders, Certify(b) PROVE touch' = touch
    BY <1>26 DEF Certify, writerVars, builderVars, operatorVars, ledgerVars
  <1>27. ASSUME NEW b \in Builders, CertifyResent(b) PROVE touch' = touch
    BY <1>27 DEF CertifyResent, writerVars, builderVars, operatorVars, ledgerVars
  <1>28. ASSUME NEW b \in Builders, Drain(b) PROVE touch' = touch
    BY <1>28 DEF Drain, writerVars, builderVars, operatorVars, ledgerVars
  <1>29. ASSUME NEW b \in Builders, DrainCheck(b) PROVE touch' = touch
    BY <1>29 DEF DrainCheck, writerVars, builderVars, operatorVars, ledgerVars
  <1>30. ASSUME NEW b \in Builders, DeleteDirty(b) PROVE touch' = touch
    BY <1>30 DEF DeleteDirty, writerVars, builderVars, operatorVars, ledgerVars
  <1>31. ASSUME NEW b \in Builders, FinishBuild(b) PROVE touch' = touch
    BY <1>31 DEF FinishBuild, writerVars, builderVars, operatorVars, ledgerVars
  <1>32. ASSUME NEW b \in Builders, Stall(b) PROVE touch' = touch
    BY <1>32 DEF Stall, writerVars, builderVars, operatorVars, ledgerVars
  <1>33. ASSUME NEW b \in Builders, KillBuilder(b) PROVE touch' = touch
    BY <1>33 DEF KillBuilder, writerVars, builderVars, operatorVars, ledgerVars
  <1>34. ASSUME ReadTouch PROVE touch' = [open |-> TRUE, seen |-> manifest] /\ manifest' = manifest
    BY <1>34 DEF ReadTouch
  <1>35. ASSUME WriteTouch PROVE touch' = NoTouch
    BY <1>35 DEF WriteTouch
  <1>36. ASSUME Recover PROVE touch' = touch
    BY <1>36 DEF Recover, writerVars, builderVars, operatorVars, ledgerVars
  <1>37. ASSUME ArmFence PROVE touch' = touch
    BY <1>37 DEF ArmFence, writerVars, builderVars, operatorVars, ledgerVars
  <1>38. ASSUME Prove PROVE touch' = touch
    BY <1>38 DEF Prove, writerVars, builderVars, operatorVars, ledgerVars
  <1>39. ASSUME RecoverReservations PROVE touch' = touch
    BY <1>39 DEF RecoverReservations, writerVars, builderVars, operatorVars, ledgerVars
  <1>40. ASSUME ResetCoverage PROVE touch' = touch
    BY <1>40 DEF ResetCoverage, writerVars, builderVars, operatorVars, ledgerVars
  <1>41. ASSUME KillOperator PROVE touch' = touch
    BY <1>41 DEF KillOperator, writerVars, builderVars, operatorVars, ledgerVars
  <1>42. ASSUME Resume PROVE touch' = touch
    BY <1>42 DEF Resume, writerVars, builderVars, operatorVars, ledgerVars
  <1>. QED
    BY <1>1, <1>2, <1>3, <1>4, <1>5, <1>6, <1>7, <1>8, <1>9, <1>10, <1>11, <1>12, <1>13, <1>14,
      <1>15, <1>16, <1>17, <1>18, <1>19, <1>20, <1>21, <1>22, <1>23, <1>24, <1>25, <1>26,
      <1>27, <1>28, <1>29, <1>30, <1>31, <1>32, <1>33, <1>34, <1>35, <1>36, <1>37, <1>38,
      <1>39, <1>40, <1>41, <1>42
    DEF Next, WriterStep, BuildStep

(* Versions only grow, and what is held is never ahead of what is stored.      *)
LEMMA Numbers ==
    ASSUME TypeOK
    PROVE  /\ control.etag \in Nat /\ control.rev \in Nat /\ control.base \in Nat
           /\ manifest.etag \in Nat /\ manifest.ver \in Nat
           /\ touch.seen.etag \in Nat
           /\ \A i \in Ids : dirty[i] \in Nat
           /\ \A b \in Builders :
                 /\ build[b].cap.etag \in Nat /\ build[b].cap.rev \in Nat /\ build[b].cap.base \in Nat
                 /\ \A i \in Ids : build[b].ids[i] \in Nat
                 /\ build[b].prev \in Nat /\ build[b].tag \in Nat /\ build[b].base \in Nat
  BY DEF TypeOK, Control, Manifest, Versions, Build

LEMMA EtagsGrow ==
    ASSUME TypeOK, TypeOK', VersionInv, CaptureInv, Next
    PROVE  control'.etag >= control.etag /\ manifest'.etag >= manifest.etag
  <1>1. control'.etag >= control.etag
    <2>1. CASE Advanced
      BY <2>1, Numbers DEF Advanced
    <2>2. CASE \E b \in Builders : Certifies(b)
      <3>1. control'.etag = control.etag + 1
        BY <2>2 DEF Certifies, TypeOK, Control
      <3>. QED
        BY <3>1, Numbers
    <2>3. CASE Still
      BY <2>3, Numbers DEF Still
    <2>. QED
      BY <2>1, <2>2, <2>3, LedgerMoves
  <1>2. manifest'.etag >= manifest.etag
    <2>1. CASE manifest' = manifest
      BY <2>1, Numbers
    <2>2. CASE Replaced
      BY <2>2, Numbers DEF Replaced
    <2>3. CASE Marked
      <3>1. manifest'.etag = manifest.etag + 1
        BY <2>3 DEF Marked, TypeOK, Manifest
      <3>. QED
        BY <3>1, Numbers
    <2>. QED
      BY <2>1, <2>2, <2>3, ManifestMoves
  <1>. QED
    BY <1>1, <1>2

LEMMA LedgerVersions ==
    ASSUME TypeOK, VersionInv, CaptureInv, Next
    PROVE  /\ control'.rev <= control'.etag /\ control'.base <= manifest.etag
           /\ \A i \in Ids : dirty'[i] <= control'.etag
  <1>. USE Numbers DEF VersionInv
  <1>1. CASE Advanced
    BY <1>1 DEF Advanced
  <1>2. ASSUME NEW b \in Builders, Certifies(b)
        PROVE  /\ control'.rev <= control'.etag /\ control'.base <= manifest.etag
               /\ \A i \in Ids : dirty'[i] <= control'.etag
    <2>1. /\ control'.etag = control.etag + 1 /\ control'.rev = control.rev
          /\ control'.base = build[b].base /\ dirty' = dirty
      BY <1>2 DEF Certifies, TypeOK, Control
    <2>2. build[b].base <= manifest.etag
      BY DEF Past
    <2>. QED
      BY <2>1, <2>2
  <1>3. CASE Still
    BY <1>3 DEF Still
  <1>. QED
    BY <1>1, <1>2, <1>3, LedgerMoves

LEMMA VersionStep == TypeOK /\ TypeOK' /\ VersionInv /\ CaptureInv /\ Next => VersionInv'
  <1>. SUFFICES ASSUME TypeOK, TypeOK', VersionInv, CaptureInv, Next PROVE VersionInv'
    OBVIOUS
  <1>1. control'.etag >= control.etag /\ manifest'.etag >= manifest.etag
    BY EtagsGrow
  <1>2. /\ control'.etag \in Nat /\ manifest'.etag \in Nat /\ control'.base \in Nat
    BY DEF TypeOK, Control, Manifest
  <1>3. /\ control'.rev <= control'.etag /\ control'.base <= manifest'.etag
        /\ \A i \in Ids : dirty'[i] <= control'.etag
    BY <1>1, <1>2, LedgerVersions, Numbers
  <1>4. manifest'.ver <= manifest'.etag
    <2>1. CASE Marked
      <3>1. manifest'.etag = manifest.etag + 1 /\ manifest'.ver = manifest.ver
        BY <2>1 DEF Marked, TypeOK, Manifest
      <3>. QED
        BY <3>1, Numbers DEF VersionInv
    <2>2. CASE Replaced
      BY <2>2, Numbers DEF Replaced
    <2>. QED
      BY <2>1, <2>2, ManifestMoves DEF VersionInv
  <1>5. \A b \in Builders : Past(b)'
    <2>. SUFFICES ASSUME NEW b \in Builders PROVE Past(b)'
      OBVIOUS
    <2>1. Past(b) /\ Loads(b)
      BY LoadMoves DEF VersionInv
    <2>2. control.rev <= control.etag /\ control.base <= manifest.etag /\ manifest.ver <= manifest.etag
      BY DEF VersionInv
    <2>3. /\ build'[b].cap.etag <= control'.etag /\ build'[b].cap.rev <= control'.etag
          /\ build'[b].cap.base <= manifest'.etag
      <3>1. CASE build'[b].cap = build[b].cap
        BY <3>1, <2>1, <1>1, <1>2, Numbers DEF Past
      <3>2. CASE build'[b].cap = control
        BY <3>2, <2>2, <1>1, <1>2, Numbers
      <3>3. CASE build'[b].cap = NoControl
        BY <3>3, <1>2 DEF NoControl
      <3>. QED
        BY <2>1, <3>1, <3>2, <3>3 DEF Loads
    <2>4. \A i \in Ids : build'[b].ids[i] <= control'.etag
      BY <2>1, <1>1, <1>2, Numbers DEF Past, Loads, VersionInv
    <2>5. build'[b].prev <= manifest'.etag /\ build'[b].tag <= manifest'.etag /\ build'[b].base <= manifest'.etag
      BY <2>1, <2>2, <1>1, <1>2, Numbers DEF Past, Loads
    <2>. QED
      BY <2>3, <2>4, <2>5 DEF Past
  <1>6. /\ touch'.seen.etag <= manifest'.etag
        /\ touch'.open /\ touch'.seen.etag = manifest'.etag => touch'.seen = manifest'
    <2>1. CASE touch' = NoTouch
      BY <2>1, <1>2 DEF NoTouch
    <2>2. CASE touch' = [open |-> TRUE, seen |-> manifest] /\ manifest' = manifest
      BY <2>2, Numbers
    <2>3. CASE touch' = touch
      <3>1. CASE manifest' = manifest
        BY <2>3, <3>1 DEF VersionInv
      <3>2. CASE manifest'.etag = manifest.etag + 1
        BY <2>3, <3>2, Numbers DEF VersionInv
      <3>3. Marked \/ Replaced => manifest'.etag = manifest.etag + 1
        BY DEF Marked, Replaced, TypeOK, Manifest
      <3>. QED
        BY <3>1, <3>2, <3>3, ManifestMoves
    <2>. QED
      BY <2>1, <2>2, <2>3, TouchMoves
  <1>. QED
    BY <1>3, <1>4, <1>5, <1>6 DEF VersionInv

LEMMA CaptureStep == TypeOK /\ VersionInv /\ CaptureInv /\ Next => CaptureInv'
  <1>. SUFFICES ASSUME TypeOK, VersionInv, CaptureInv, Next, NEW c \in Builders, Captured(c)'
                PROVE  /\ build'[c].cap.active = 0
                       /\ build'[c].cap.etag = control'.etag => build'[c].cap = control'
                       /\ build'[c].cap.rev = control'.rev => control'.active = 0
    BY DEF CaptureInv
  <1>1. CASE Fresh(c)
    BY <1>1 DEF Fresh
  <1>2. CASE Kept(c)
    <2>. DEFINE cap == build[c].cap
    <2>1. /\ build'[c].cap = cap /\ cap.active = 0
          /\ cap.etag = control.etag => cap = control
          /\ cap.rev = control.rev => control.active = 0
      BY <1>2 DEF Kept, CaptureInv
    <2>2. cap.etag <= control.etag /\ cap.rev <= control.etag /\ cap.etag \in Nat /\ cap.rev \in Nat
          /\ control.etag \in Nat
      BY Numbers DEF VersionInv, Past
    <2>3. CASE Advanced
      BY <2>1, <2>2, <2>3 DEF Advanced
    <2>4. ASSUME NEW b \in Builders, Certifies(b)
          PROVE  cap.etag # control'.etag /\ (cap.rev = control'.rev => control'.active = 0)
      <3>1. control'.etag = control.etag + 1 /\ control'.rev = control.rev /\ control'.active = control.active
        BY <2>4 DEF Certifies, TypeOK, Control
      <3>. QED
        BY <2>1, <2>2, <3>1
    <2>5. CASE Still
      BY <2>1, <2>5 DEF Still
    <2>. QED
      BY <2>1, <2>3, <2>4, <2>5, LedgerMoves
  <1>. QED
    BY <1>1, <1>2, CaptureMoves

-----------------------------------------------------------------------------
(* Reservations and their counter.                                            *)

(* The steps that touch a reservation row or the counter.                     *)
Counts ==
    \/ \E w \in Writers : Begin(w) \/ BeginResent(w) \/ Finish(w) \/ FinishResent(w) \/ FinishAgain(w)
    \/ RecoverReservations \/ ResetCoverage

(* All other steps leave them alone, and move no writer into a reservation or *)
(* out of one alive.                                                          *)
Steady ==
    /\ res' = res /\ control'.active = control.active
    /\ spent'.lost >= spent.lost /\ spent'.fences >= spent.fences
    /\ \A w \in Writers :
         /\ writer'[w].pc \in Holding => writer[w].pc \in Holding
         /\ writer[w].pc \in Holding \cup {"dead"} => writer'[w].pc \in Holding \cup {"dead"}
         /\ writer'[w].pc = "again" => writer[w].pc = "again"

LEMMA SpentGrows ==
    ASSUME TypeOK
    PROVE  /\ spent' = spent \/ Disturb \/ LoseReply => spent'.lost >= spent.lost /\ spent'.fences >= spent.fences
           /\ LoseReply => spent'.lost # 0
           /\ spent.lost \in Nat /\ spent.fences \in Nat
           /\ \A n \in Nat : [spent EXCEPT !.writes = n].lost >= spent.lost
                              /\ [spent EXCEPT !.writes = n].fences >= spent.fences
                              /\ [spent EXCEPT !.stalls = n].lost >= spent.lost
                              /\ [spent EXCEPT !.stalls = n].fences >= spent.fences
           /\ LET s == [spent EXCEPT !.fences = @ + 1]
              IN  s.lost = spent.lost /\ s.fences = spent.fences + 1
           /\ spent.writes + 1 \in Nat /\ spent.stalls + 1 \in Nat
  <1>1. /\ spent \in [writes: Nat, disturb: Nat, stalls: Nat, fences: Nat, lost: Nat]
        /\ spent.lost \in Nat /\ spent.fences \in Nat
    BY DEF TypeOK, Bounds
  <1>2. Disturb => spent'.lost = spent.lost /\ spent'.fences = spent.fences
    BY <1>1 DEF Disturb
  <1>3. LoseReply => spent'.lost = spent.lost + 1 /\ spent'.fences = spent.fences
    BY <1>1 DEF LoseReply
  <1>4. spent' = spent \/ Disturb \/ LoseReply => spent'.lost >= spent.lost /\ spent'.fences >= spent.fences
    BY <1>1, <1>2, <1>3
  <1>5. LoseReply => spent'.lost # 0
    BY <1>1, <1>3
  <1>6. \A n \in Nat : /\ [spent EXCEPT !.writes = n].lost = spent.lost
                      /\ [spent EXCEPT !.writes = n].fences = spent.fences
                      /\ [spent EXCEPT !.stalls = n].lost = spent.lost
                      /\ [spent EXCEPT !.stalls = n].fences = spent.fences
    BY <1>1
  <1>7. LET s == [spent EXCEPT !.fences = @ + 1]
        IN  s.lost = spent.lost /\ s.fences = spent.fences + 1
    BY <1>1
  <1>8. spent.writes + 1 \in Nat /\ spent.stalls + 1 \in Nat
    BY <1>1
  <1>. QED
    BY <1>1, <1>4, <1>5, <1>6, <1>7, <1>8

LEMMA ChangeActive ==
    ASSUME NEW row \in Control, NEW ids, Change(row, ids)
    PROVE  control'.active = row.active
  BY DEF Change, Control

LEMMA SteadySteps ==
    ASSUME TypeOK, CaptureInv, Next PROVE Counts \/ Steady
  <1>. USE DEF Steady
  <1>1. ASSUME NEW w \in Writers, StartWrite(w) PROVE Steady
    <2>1. res' = res /\ control' = control
      BY <1>1 DEF StartWrite
    <2>2. spent'.lost >= spent.lost /\ spent'.fences >= spent.fences
      BY <1>1, SpentGrows DEF StartWrite
    <2>3. \A v \in Writers : v # w => writer'[v] = writer[v]
      BY <1>1 DEF StartWrite, TypeOK
    <2>4. /\ writer'[w].pc \in Holding => writer[w].pc \in Holding
          /\ writer[w].pc \in Holding \cup {"dead"} => writer'[w].pc \in Holding \cup {"dead"}
          /\ writer'[w].pc # "again"
      BY <1>1 DEF StartWrite, NoWrite, TypeOK, Write, Holding
    <2>. QED
      BY <2>1, <2>2, <2>3, <2>4
  <1>2. ASSUME NEW w \in Writers, Schedule(w) PROVE Steady
    <2>1. res' = res /\ control' = control
      BY <1>2 DEF Schedule
    <2>2. spent'.lost >= spent.lost /\ spent'.fences >= spent.fences
      BY <1>2, SpentGrows DEF Schedule
    <2>3. \A v \in Writers : v # w => writer'[v] = writer[v]
      BY <1>2 DEF Schedule, TypeOK
    <2>4. /\ writer'[w].pc \in Holding => writer[w].pc \in Holding
          /\ writer[w].pc \in Holding \cup {"dead"} => writer'[w].pc \in Holding \cup {"dead"}
          /\ writer'[w].pc # "again"
      BY <1>2 DEF Schedule, NoWrite, TypeOK, Write, Holding
    <2>. QED
      BY <2>1, <2>2, <2>3, <2>4
  <1>3. ASSUME NEW w \in Writers, BeginPage(w) PROVE Steady
    <2>1. PICK page \in Pages(writer[w].left) :
            /\ Change(Reserved(control, w, FALSE), page)
            /\ writer' = [writer EXCEPT ![w].left = @ \ page,
                 ![w].pc = IF writer[w].left = page THEN "fence" ELSE "page"]
      BY <1>3 DEF BeginPage
    <2>2. control'.active = control.active
      BY <2>1, CountKeeps, CountTypes, ChangeActive
    <2>3. \A v \in Writers :
            /\ v # w => writer'[v] = writer[v]
            /\ v = w => writer'[v].pc \in {"fence", "page"}
      BY <2>1 DEF TypeOK, Write
    <2>4. writer[w].pc = "page" /\ res' = res /\ spent' = spent
      BY <1>3 DEF BeginPage
    <2>. QED
      BY <2>2, <2>3, <2>4, SpentGrows DEF Holding
  <1>4. ASSUME NEW w \in Writers, CheckFence(w) PROVE Steady
    <2>1. res' = res /\ control' = control
      BY <1>4 DEF CheckFence
    <2>2. spent'.lost >= spent.lost /\ spent'.fences >= spent.fences
      BY <1>4, SpentGrows DEF CheckFence
    <2>3. \A v \in Writers : v # w => writer'[v] = writer[v]
      BY <1>4 DEF CheckFence, TypeOK
    <2>4. /\ writer'[w].pc \in Holding => writer[w].pc \in Holding
          /\ writer[w].pc \in Holding \cup {"dead"} => writer'[w].pc \in Holding \cup {"dead"}
          /\ writer'[w].pc # "again"
      BY <1>4 DEF CheckFence, NoWrite, TypeOK, Write, Holding
    <2>. QED
      BY <2>1, <2>2, <2>3, <2>4
  <1>5. ASSUME NEW w \in Writers, WriteSource(w) PROVE Steady
    <2>1. res' = res /\ control' = control
      BY <1>5 DEF WriteSource
    <2>2. spent'.lost >= spent.lost /\ spent'.fences >= spent.fences
      BY <1>5, SpentGrows DEF WriteSource
    <2>3. \A v \in Writers : v # w => writer'[v] = writer[v]
      BY <1>5 DEF WriteSource, TypeOK
    <2>4. /\ writer'[w].pc \in Holding => writer[w].pc \in Holding
          /\ writer[w].pc \in Holding \cup {"dead"} => writer'[w].pc \in Holding \cup {"dead"}
          /\ writer'[w].pc # "again"
      BY <1>5 DEF WriteSource, NoWrite, TypeOK, Write, Holding
    <2>. QED
      BY <2>1, <2>2, <2>3, <2>4
  <1>6. ASSUME NEW w \in Writers, FailSource(w) PROVE Steady
    <2>1. res' = res /\ control' = control
      BY <1>6 DEF FailSource
    <2>2. spent'.lost >= spent.lost /\ spent'.fences >= spent.fences
      BY <1>6, SpentGrows DEF FailSource
    <2>3. \A v \in Writers : v # w => writer'[v] = writer[v]
      BY <1>6 DEF FailSource, TypeOK
    <2>4. /\ writer'[w].pc \in Holding => writer[w].pc \in Holding
          /\ writer[w].pc \in Holding \cup {"dead"} => writer'[w].pc \in Holding \cup {"dead"}
          /\ writer'[w].pc # "again"
      BY <1>6 DEF FailSource, NoWrite, TypeOK, Write, Holding
    <2>. QED
      BY <2>1, <2>2, <2>3, <2>4
  <1>7. ASSUME NEW w \in Writers, WriteMore(w) PROVE Steady
    <2>1. res' = res /\ control' = control
      BY <1>7 DEF WriteMore
    <2>2. spent'.lost >= spent.lost /\ spent'.fences >= spent.fences
      BY <1>7, SpentGrows DEF WriteMore
    <2>3. \A v \in Writers : v # w => writer'[v] = writer[v]
      BY <1>7 DEF WriteMore, TypeOK
    <2>4. /\ writer'[w].pc \in Holding => writer[w].pc \in Holding
          /\ writer[w].pc \in Holding \cup {"dead"} => writer'[w].pc \in Holding \cup {"dead"}
          /\ writer'[w].pc # "again"
      BY <1>7 DEF WriteMore, NoWrite, TypeOK, Write, Holding
    <2>. QED
      BY <2>1, <2>2, <2>3, <2>4
  <1>8. ASSUME NEW w \in Writers, Reschedule(w) PROVE Steady
    <2>1. res' = res /\ control' = control
      BY <1>8 DEF Reschedule
    <2>2. spent'.lost >= spent.lost /\ spent'.fences >= spent.fences
      BY <1>8, SpentGrows DEF Reschedule
    <2>3. \A v \in Writers : v # w => writer'[v] = writer[v]
      BY <1>8 DEF Reschedule, TypeOK
    <2>4. /\ writer'[w].pc \in Holding => writer[w].pc \in Holding
          /\ writer[w].pc \in Holding \cup {"dead"} => writer'[w].pc \in Holding \cup {"dead"}
          /\ writer'[w].pc # "again"
      BY <1>8 DEF Reschedule, NoWrite, TypeOK, Write, Holding
    <2>. QED
      BY <2>1, <2>2, <2>3, <2>4
  <1>9. ASSUME NEW w \in Writers, KillWriter(w) PROVE Steady
    <2>1. res' = res /\ control' = control
      BY <1>9 DEF KillWriter
    <2>2. spent'.lost >= spent.lost /\ spent'.fences >= spent.fences
      BY <1>9, SpentGrows DEF KillWriter
    <2>3. \A v \in Writers : v # w => writer'[v] = writer[v]
      BY <1>9 DEF KillWriter, TypeOK
    <2>4. /\ writer'[w].pc \in Holding => writer[w].pc \in Holding
          /\ writer[w].pc \in Holding \cup {"dead"} => writer'[w].pc \in Holding \cup {"dead"}
          /\ writer'[w].pc # "again"
      BY <1>9 DEF KillWriter, NoWrite, TypeOK, Write, Holding
    <2>. QED
      BY <2>1, <2>2, <2>3, <2>4
  <1>10. ASSUME NEW b \in Builders, Claim(b) PROVE Steady
    <2>1. UNCHANGED <<res, control, writer>>
      BY <1>10 DEF Claim, writerVars, builderVars, operatorVars, ledgerVars
    <2>2. spent'.lost >= spent.lost /\ spent'.fences >= spent.fences
      BY <1>10, SpentGrows DEF Claim
    <2>. QED
      BY <2>1, <2>2
  <1>11. ASSUME NEW b \in Builders, Lock(b) PROVE Steady
    <2>1. UNCHANGED <<res, control, writer>>
      BY <1>11 DEF Lock, writerVars, builderVars, operatorVars, ledgerVars
    <2>2. spent'.lost >= spent.lost /\ spent'.fences >= spent.fences
      BY <1>11, SpentGrows DEF Lock
    <2>. QED
      BY <2>1, <2>2
  <1>12. ASSUME NEW b \in Builders, CaptureControl(b) PROVE Steady
    <2>1. UNCHANGED <<res, control, writer>>
      BY <1>12 DEF CaptureControl, writerVars, builderVars, operatorVars, ledgerVars
    <2>2. spent'.lost >= spent.lost /\ spent'.fences >= spent.fences
      BY <1>12, SpentGrows DEF CaptureControl
    <2>. QED
      BY <2>1, <2>2
  <1>13. ASSUME NEW b \in Builders, CaptureDirty(b) PROVE Steady
    <2>1. UNCHANGED <<res, control, writer>>
      BY <1>13 DEF CaptureDirty, writerVars, builderVars, operatorVars, ledgerVars
    <2>2. spent'.lost >= spent.lost /\ spent'.fences >= spent.fences
      BY <1>13, SpentGrows DEF CaptureDirty
    <2>. QED
      BY <2>1, <2>2
  <1>14. ASSUME NEW b \in Builders, Open(b) PROVE Steady
    <2>1. UNCHANGED <<res, control, writer>>
      BY <1>14 DEF Open, writerVars, builderVars, operatorVars, ledgerVars
    <2>2. spent'.lost >= spent.lost /\ spent'.fences >= spent.fences
      BY <1>14, SpentGrows DEF Open
    <2>. QED
      BY <2>1, <2>2
  <1>15. ASSUME NEW b \in Builders, ReadRow(b) PROVE Steady
    <2>1. UNCHANGED <<res, control, writer>>
      BY <1>15 DEF ReadRow, writerVars, builderVars, operatorVars, ledgerVars
    <2>2. spent'.lost >= spent.lost /\ spent'.fences >= spent.fences
      BY <1>15, SpentGrows DEF ReadRow
    <2>. QED
      BY <2>1, <2>2
  <1>16. ASSUME NEW b \in Builders, FailRefresh(b) PROVE Steady
    <2>1. UNCHANGED <<res, control, writer>>
      BY <1>16 DEF FailRefresh, writerVars, builderVars, operatorVars, ledgerVars
    <2>2. spent'.lost >= spent.lost /\ spent'.fences >= spent.fences
      BY <1>16, SpentGrows DEF FailRefresh
    <2>. QED
      BY <2>1, <2>2
  <1>17. ASSUME NEW b \in Builders, Publish(b) PROVE Steady
    <2>1. UNCHANGED <<res, control, writer>>
      BY <1>17 DEF Publish, writerVars, builderVars, operatorVars, ledgerVars
    <2>2. spent'.lost >= spent.lost /\ spent'.fences >= spent.fences
      BY <1>17, SpentGrows DEF Publish
    <2>. QED
      BY <2>1, <2>2
  <1>18. ASSUME NEW b \in Builders, Commit(b) PROVE Steady
    <2>1. UNCHANGED <<res, control, writer>>
      BY <1>18 DEF Commit, writerVars, builderVars, operatorVars, ledgerVars
    <2>2. spent'.lost >= spent.lost /\ spent'.fences >= spent.fences
      BY <1>18, SpentGrows DEF Commit
    <2>. QED
      BY <2>1, <2>2
  <1>19. ASSUME NEW b \in Builders, Defer(b) PROVE Steady
    <2>1. UNCHANGED <<res, writer, spent>>
      BY <1>19 DEF Defer
    <2>2. [control EXCEPT !.full = TRUE] \in Control /\ [control EXCEPT !.full = TRUE].active = control.active
      BY DEF TypeOK, Control
    <2>. QED
      BY <1>19, <2>1, <2>2, ChangeActive, SpentGrows DEF Defer
  <1>20. ASSUME NEW b \in Builders, ReadBase(b) PROVE Steady
    <2>1. UNCHANGED <<res, control, writer>>
      BY <1>20 DEF ReadBase, writerVars, builderVars, operatorVars, ledgerVars
    <2>2. spent'.lost >= spent.lost /\ spent'.fences >= spent.fences
      BY <1>20, SpentGrows DEF ReadBase
    <2>. QED
      BY <2>1, <2>2
  <1>21. ASSUME NEW b \in Builders, Certify(b) PROVE Steady
    <2>1. UNCHANGED <<res, writer>>
      BY <1>21 DEF Certify
    <2>2. spent'.lost >= spent.lost /\ spent'.fences >= spent.fences
      BY <1>21, SpentGrows DEF Certify
    <2>3. control'.active = control.active
      <3>1. build[b].cap \in Control /\ At(b, "cas")
        BY <1>21 DEF Certify, TypeOK, Build
      <3>2. build[b].cap.etag = control.etag => build[b].cap = control
        BY <3>1 DEF CaptureInv, Captured, At
      <3>. QED
        BY <1>21, <3>1, <3>2 DEF Certify, Control
    <2>. QED
      BY <2>1, <2>2, <2>3
  <1>22. ASSUME NEW b \in Builders, CertifyResent(b) PROVE Steady
    <2>1. UNCHANGED <<res, writer>>
      BY <1>22 DEF CertifyResent
    <2>2. spent'.lost >= spent.lost /\ spent'.fences >= spent.fences
      BY <1>22, SpentGrows DEF CertifyResent
    <2>3. control'.active = control.active
      <3>1. build[b].cap \in Control /\ At(b, "cas")
        BY <1>22 DEF CertifyResent, TypeOK, Build
      <3>2. build[b].cap.etag = control.etag => build[b].cap = control
        BY <3>1 DEF CaptureInv, Captured, At
      <3>. QED
        BY <1>22, <3>1, <3>2 DEF CertifyResent, Control
    <2>. QED
      BY <2>1, <2>2, <2>3
  <1>23. ASSUME NEW b \in Builders, Drain(b) PROVE Steady
    <2>1. UNCHANGED <<res, control, writer>>
      BY <1>23 DEF Drain, writerVars, builderVars, operatorVars, ledgerVars
    <2>2. spent'.lost >= spent.lost /\ spent'.fences >= spent.fences
      BY <1>23, SpentGrows DEF Drain
    <2>. QED
      BY <2>1, <2>2
  <1>24. ASSUME NEW b \in Builders, DrainCheck(b) PROVE Steady
    <2>1. UNCHANGED <<res, control, writer>>
      BY <1>24 DEF DrainCheck, writerVars, builderVars, operatorVars, ledgerVars
    <2>2. spent'.lost >= spent.lost /\ spent'.fences >= spent.fences
      BY <1>24, SpentGrows DEF DrainCheck
    <2>. QED
      BY <2>1, <2>2
  <1>25. ASSUME NEW b \in Builders, DeleteDirty(b) PROVE Steady
    <2>1. UNCHANGED <<res, control, writer>>
      BY <1>25 DEF DeleteDirty, writerVars, builderVars, operatorVars, ledgerVars
    <2>2. spent'.lost >= spent.lost /\ spent'.fences >= spent.fences
      BY <1>25, SpentGrows DEF DeleteDirty
    <2>. QED
      BY <2>1, <2>2
  <1>26. ASSUME NEW b \in Builders, FinishBuild(b) PROVE Steady
    <2>1. UNCHANGED <<res, control, writer>>
      BY <1>26 DEF FinishBuild, writerVars, builderVars, operatorVars, ledgerVars
    <2>2. spent'.lost >= spent.lost /\ spent'.fences >= spent.fences
      BY <1>26, SpentGrows DEF FinishBuild
    <2>. QED
      BY <2>1, <2>2
  <1>27. ASSUME NEW b \in Builders, Stall(b) PROVE Steady
    <2>1. UNCHANGED <<res, control, writer>>
      BY <1>27 DEF Stall, writerVars, builderVars, operatorVars, ledgerVars
    <2>2. spent'.lost >= spent.lost /\ spent'.fences >= spent.fences
      BY <1>27, SpentGrows DEF Stall
    <2>. QED
      BY <2>1, <2>2
  <1>28. ASSUME NEW b \in Builders, KillBuilder(b) PROVE Steady
    <2>1. UNCHANGED <<res, control, writer>>
      BY <1>28 DEF KillBuilder, writerVars, builderVars, operatorVars, ledgerVars
    <2>2. spent'.lost >= spent.lost /\ spent'.fences >= spent.fences
      BY <1>28, SpentGrows DEF KillBuilder
    <2>. QED
      BY <2>1, <2>2
  <1>29. ASSUME ReadTouch PROVE Steady
    <2>1. UNCHANGED <<res, control, writer>>
      BY <1>29 DEF ReadTouch, writerVars, builderVars, operatorVars, ledgerVars
    <2>2. spent'.lost >= spent.lost /\ spent'.fences >= spent.fences
      BY <1>29, SpentGrows DEF ReadTouch
    <2>. QED
      BY <2>1, <2>2
  <1>30. ASSUME WriteTouch PROVE Steady
    <2>1. UNCHANGED <<res, control, writer>>
      BY <1>30 DEF WriteTouch, writerVars, builderVars, operatorVars, ledgerVars
    <2>2. spent'.lost >= spent.lost /\ spent'.fences >= spent.fences
      BY <1>30, SpentGrows DEF WriteTouch
    <2>. QED
      BY <2>1, <2>2
  <1>31. ASSUME Recover PROVE Steady
    <2>1. UNCHANGED <<res, control, writer>>
      BY <1>31 DEF Recover, writerVars, builderVars, operatorVars, ledgerVars
    <2>2. spent'.lost >= spent.lost /\ spent'.fences >= spent.fences
      BY <1>31, SpentGrows DEF Recover
    <2>. QED
      BY <2>1, <2>2
  <1>32. ASSUME ArmFence PROVE Steady
    <2>1. UNCHANGED <<res, control, writer>>
      BY <1>32 DEF ArmFence, writerVars, builderVars, operatorVars, ledgerVars
    <2>2. spent'.lost >= spent.lost /\ spent'.fences >= spent.fences
      BY <1>32, SpentGrows DEF ArmFence
    <2>. QED
      BY <2>1, <2>2
  <1>33. ASSUME Prove PROVE Steady
    <2>1. UNCHANGED <<res, control, writer>>
      BY <1>33 DEF Prove, writerVars, builderVars, operatorVars, ledgerVars
    <2>2. spent'.lost >= spent.lost /\ spent'.fences >= spent.fences
      BY <1>33, SpentGrows DEF Prove
    <2>. QED
      BY <2>1, <2>2
  <1>34. ASSUME KillOperator PROVE Steady
    <2>1. UNCHANGED <<res, control, writer>>
      BY <1>34 DEF KillOperator, writerVars, builderVars, operatorVars, ledgerVars
    <2>2. spent'.lost >= spent.lost /\ spent'.fences >= spent.fences
      BY <1>34, SpentGrows DEF KillOperator
    <2>. QED
      BY <2>1, <2>2
  <1>35. ASSUME Resume PROVE Steady
    <2>1. UNCHANGED <<res, control, writer>>
      BY <1>35 DEF Resume, writerVars, builderVars, operatorVars, ledgerVars
    <2>2. spent'.lost >= spent.lost /\ spent'.fences >= spent.fences
      BY <1>35, SpentGrows DEF Resume
    <2>. QED
      BY <2>1, <2>2
  <1>. QED
    BY <1>1, <1>2, <1>3, <1>4, <1>5, <1>6, <1>7, <1>8, <1>9, <1>10, <1>11, <1>12, <1>13, <1>14,
      <1>15, <1>16, <1>17, <1>18, <1>19, <1>20, <1>21, <1>22, <1>23, <1>24, <1>25, <1>26,
      <1>27, <1>28, <1>29, <1>30, <1>31, <1>32, <1>33, <1>34, <1>35
    DEF Next, WriterStep, BuildStep, Counts

LEMMA SpentStep ==
    ASSUME TypeOK, TypeOK', CaptureInv, Next
    PROVE  spent'.fences >= spent.fences /\ spent'.fences \in Nat /\ spent.fences \in Nat
  <1>1. spent'.fences \in Nat /\ spent.fences \in Nat
    BY DEF TypeOK, Bounds
  <1>2. CASE Steady
    BY <1>1, <1>2 DEF Steady
  <1>3. ASSUME NEW w \in Writers, Begin(w) \/ BeginResent(w) \/ Finish(w) \/ FinishResent(w) \/ FinishAgain(w)
        PROVE  spent'.fences >= spent.fences
    <2>1. spent' = spent \/ LoseReply
      BY <1>3 DEF Begin, BeginResent, Finish, FinishResent, FinishAgain
    <2>. QED
      BY <2>1, SpentGrows
  <1>4. CASE RecoverReservations
    <2>1. spent'.fences = spent.fences + 1
      BY <1>4, SpentGrows DEF RecoverReservations
    <2>. QED
      BY <1>1, <2>1
  <1>5. CASE ResetCoverage
    BY <1>1, <1>5 DEF ResetCoverage
  <1>. QED
    BY <1>1, <1>2, <1>3, <1>4, <1>5, SteadySteps DEF Counts

(* A proven fence has no writer behind it.                                    *)
Out == \A w \in Writers : writer[w].pc \in {"idle", "dead"}
Fenced == fence' = fence /\ (Out => res' = res /\ writer' = writer)

LEMMA FenceStep == TypeOK /\ TypeOK' /\ CaptureInv /\ FencedOut /\ Next => FencedOut'
  <1>. SUFFICES ASSUME TypeOK, TypeOK', CaptureInv, FencedOut, Next PROVE FencedOut'
    OBVIOUS
  <1>1. ASSUME NEW w \in Writers, StartWrite(w) PROVE FencedOut'
    BY <1>1, SpentStep, SpentGrows
      DEF StartWrite, FencedOut, writerVars, builderVars, operatorVars, ledgerVars
  <1>2. ASSUME NEW w \in Writers, Schedule(w) PROVE Fenced
    BY <1>2 DEF Schedule, Fenced, Out, operatorVars
  <1>3. ASSUME NEW w \in Writers, Begin(w) PROVE Fenced
    BY <1>3 DEF Begin, Fenced, Out, operatorVars
  <1>4. ASSUME NEW w \in Writers, BeginPage(w) PROVE Fenced
    BY <1>4 DEF BeginPage, Fenced, Out, operatorVars
  <1>5. ASSUME NEW w \in Writers, BeginResent(w) PROVE Fenced
    BY <1>5 DEF BeginResent, Fenced, Out, operatorVars
  <1>6. ASSUME NEW w \in Writers, CheckFence(w) PROVE Fenced
    BY <1>6 DEF CheckFence, Fenced, Out, operatorVars
  <1>7. ASSUME NEW w \in Writers, WriteSource(w) PROVE Fenced
    BY <1>7 DEF WriteSource, Fenced, Out, operatorVars
  <1>8. ASSUME NEW w \in Writers, FailSource(w) PROVE Fenced
    BY <1>8 DEF FailSource, Fenced, Out, operatorVars
  <1>9. ASSUME NEW w \in Writers, WriteMore(w) PROVE Fenced
    BY <1>9 DEF WriteMore, Fenced, Out, operatorVars
  <1>10. ASSUME NEW w \in Writers, Finish(w) PROVE Fenced
    BY <1>10 DEF Finish, Fenced, Out, operatorVars
  <1>11. ASSUME NEW w \in Writers, FinishResent(w) PROVE Fenced
    BY <1>11 DEF FinishResent, Fenced, Out, operatorVars
  <1>12. ASSUME NEW w \in Writers, FinishAgain(w) PROVE Fenced
    BY <1>12 DEF FinishAgain, Fenced, Out, operatorVars
  <1>13. ASSUME NEW w \in Writers, Reschedule(w) PROVE Fenced
    BY <1>13 DEF Reschedule, Fenced, Out, operatorVars
  <1>14. ASSUME NEW w \in Writers, KillWriter(w) PROVE Fenced
    BY <1>14 DEF KillWriter, Fenced, Out, operatorVars
  <1>15. ASSUME NEW b \in Builders, Claim(b) PROVE Fenced
    BY <1>15 DEF Claim, Fenced, writerVars, builderVars, operatorVars, ledgerVars
  <1>16. ASSUME NEW b \in Builders, Lock(b) PROVE Fenced
    BY <1>16 DEF Lock, Fenced, writerVars, builderVars, operatorVars, ledgerVars
  <1>17. ASSUME NEW b \in Builders, CaptureControl(b) PROVE Fenced
    BY <1>17 DEF CaptureControl, Fenced, writerVars, builderVars, operatorVars, ledgerVars
  <1>18. ASSUME NEW b \in Builders, CaptureDirty(b) PROVE Fenced
    BY <1>18 DEF CaptureDirty, Fenced, writerVars, builderVars, operatorVars, ledgerVars
  <1>19. ASSUME NEW b \in Builders, Open(b) PROVE Fenced
    BY <1>19 DEF Open, Fenced, writerVars, builderVars, operatorVars, ledgerVars
  <1>20. ASSUME NEW b \in Builders, ReadRow(b) PROVE Fenced
    BY <1>20 DEF ReadRow, Fenced, writerVars, builderVars, operatorVars, ledgerVars
  <1>21. ASSUME NEW b \in Builders, FailRefresh(b) PROVE Fenced
    BY <1>21 DEF FailRefresh, Fenced, writerVars, builderVars, operatorVars, ledgerVars
  <1>22. ASSUME NEW b \in Builders, Publish(b) PROVE Fenced
    BY <1>22 DEF Publish, Fenced, writerVars, builderVars, operatorVars, ledgerVars
  <1>23. ASSUME NEW b \in Builders, Commit(b) PROVE Fenced
    BY <1>23 DEF Commit, Fenced, writerVars, builderVars, operatorVars, ledgerVars
  <1>24. ASSUME NEW b \in Builders, Defer(b) PROVE Fenced
    BY <1>24 DEF Defer, Fenced, writerVars, builderVars, operatorVars, ledgerVars
  <1>25. ASSUME NEW b \in Builders, ReadBase(b) PROVE Fenced
    BY <1>25 DEF ReadBase, Fenced, writerVars, builderVars, operatorVars, ledgerVars
  <1>26. ASSUME NEW b \in Builders, Certify(b) PROVE Fenced
    BY <1>26 DEF Certify, Fenced, writerVars, builderVars, operatorVars, ledgerVars
  <1>27. ASSUME NEW b \in Builders, CertifyResent(b) PROVE Fenced
    BY <1>27 DEF CertifyResent, Fenced, writerVars, builderVars, operatorVars, ledgerVars
  <1>28. ASSUME NEW b \in Builders, Drain(b) PROVE Fenced
    BY <1>28 DEF Drain, Fenced, writerVars, builderVars, operatorVars, ledgerVars
  <1>29. ASSUME NEW b \in Builders, DrainCheck(b) PROVE Fenced
    BY <1>29 DEF DrainCheck, Fenced, writerVars, builderVars, operatorVars, ledgerVars
  <1>30. ASSUME NEW b \in Builders, DeleteDirty(b) PROVE Fenced
    BY <1>30 DEF DeleteDirty, Fenced, writerVars, builderVars, operatorVars, ledgerVars
  <1>31. ASSUME NEW b \in Builders, FinishBuild(b) PROVE Fenced
    BY <1>31 DEF FinishBuild, Fenced, writerVars, builderVars, operatorVars, ledgerVars
  <1>32. ASSUME NEW b \in Builders, Stall(b) PROVE Fenced
    BY <1>32 DEF Stall, Fenced, writerVars, builderVars, operatorVars, ledgerVars
  <1>33. ASSUME NEW b \in Builders, KillBuilder(b) PROVE Fenced
    BY <1>33 DEF KillBuilder, Fenced, writerVars, builderVars, operatorVars, ledgerVars
  <1>34. ASSUME ReadTouch PROVE Fenced
    BY <1>34 DEF ReadTouch, Fenced, writerVars, builderVars, operatorVars, ledgerVars
  <1>35. ASSUME WriteTouch PROVE Fenced
    BY <1>35 DEF WriteTouch, Fenced, writerVars, builderVars, operatorVars, ledgerVars
  <1>36. ASSUME Recover PROVE Fenced
    BY <1>36 DEF Recover, Fenced, writerVars, builderVars, operatorVars, ledgerVars
  <1>37. ASSUME ArmFence PROVE FencedOut'
    BY <1>37, SpentStep, SpentGrows
      DEF ArmFence, FencedOut, writerVars, builderVars, operatorVars, ledgerVars
  <1>38. ASSUME Prove PROVE FencedOut'
    BY <1>38, SpentStep, SpentGrows
      DEF Prove, FencedOut, writerVars, builderVars, operatorVars, ledgerVars
  <1>39. ASSUME RecoverReservations PROVE FencedOut'
    BY <1>39, SpentStep, SpentGrows
      DEF RecoverReservations, FencedOut, writerVars, builderVars, operatorVars, ledgerVars
  <1>40. ASSUME ResetCoverage PROVE FencedOut'
    BY <1>40, SpentStep DEF ResetCoverage, FencedOut
  <1>41. ASSUME KillOperator PROVE FencedOut'
    BY <1>41, SpentStep, SpentGrows
      DEF KillOperator, FencedOut, writerVars, builderVars, operatorVars, ledgerVars
  <1>42. ASSUME Resume PROVE FencedOut'
    BY <1>42, SpentStep, SpentGrows
      DEF Resume, FencedOut, writerVars, builderVars, operatorVars, ledgerVars
  <1>43. CASE Fenced
    BY <1>43, SpentStep DEF Fenced, FencedOut, Out
  <1>. QED
    BY <1>1, <1>2, <1>3, <1>4, <1>5, <1>6, <1>7, <1>8, <1>9, <1>10, <1>11, <1>12, <1>13, <1>14,
      <1>15, <1>16, <1>17, <1>18, <1>19, <1>20, <1>21, <1>22, <1>23, <1>24, <1>25, <1>26,
      <1>27, <1>28, <1>29, <1>30, <1>31, <1>32, <1>33, <1>34, <1>35, <1>36, <1>37, <1>38,
      <1>39, <1>40, <1>41, <1>42, <1>43
    DEF Next, WriterStep, BuildStep

(* One row more, or one row less.                                             *)
LEMMA RowCounts ==
    ASSUME IsFiniteSet(res), NEW w
    PROVE  /\ IsFiniteSet(res \cup {w}) /\ IsFiniteSet(res \ {w}) /\ IsFiniteSet({})
           /\ Cardinality(res) \in Nat /\ Cardinality({}) = 0
           /\ Cardinality(res \cup {w}) <= Cardinality(res) + 1
           /\ w \notin res => Cardinality(res \cup {w}) = Cardinality(res) + 1
           /\ w \in res => Cardinality(res) >= 1 /\ Cardinality(res \ {w}) = Cardinality(res) - 1
  <1>1. Cardinality(res) \in Nat
    BY FS_CardinalityType
  <1>2. IsFiniteSet(res \cup {w}) /\ Cardinality(res \cup {w}) = IF w \in res THEN Cardinality(res) ELSE Cardinality(res) + 1
    BY FS_AddElement
  <1>3. IsFiniteSet(res \ {w}) /\ Cardinality(res \ {w}) = IF w \in res THEN Cardinality(res) - 1 ELSE Cardinality(res)
    BY FS_RemoveElement
  <1>4. IsFiniteSet({}) /\ Cardinality({}) = 0
    BY FS_EmptySet
  <1>5. w \in res => Cardinality(res) >= 1
    BY <1>1, FS_EmptySet
  <1>. QED
    BY <1>1, <1>2, <1>3, <1>4, <1>5

(* What a begin or a finish does to them.                                     *)
LEMMA TakesOne ==
    ASSUME TypeOK, NEW w \in Writers, Begin(w) \/ BeginResent(w)
    PROVE  /\ res' = res \cup {w} /\ control'.active = control.active + 1 /\ writer[w].pc = "begin"
           /\ spent'.fences = spent.fences /\ fence' = fence
  <1>1. PICK page \in Pages(writer[w].left) : Change(Reserved(control, w, TRUE), page)
    BY DEF Begin, BeginResent
  <1>2. control'.active = control.active + 1
    BY <1>1, ChangeActive, CountKeeps, CountTypes
  <1>3. spent'.fences = spent.fences
    BY DEF Begin, BeginResent, LoseReply, TypeOK, Bounds
  <1>. QED
    BY <1>2, <1>3 DEF Begin, BeginResent, operatorVars

LEMMA ReturnsOne ==
    ASSUME TypeOK, NEW w \in Writers, Finish(w) \/ FinishResent(w), Balanced
    PROVE  res' = res \ {w} /\ control'.active = control.active - 1
  <1>1. Change(Released(control, w), {}) /\ res' = res \ {w}
    BY DEF Finish, FinishResent
  <1>. QED
    BY <1>1, ChangeActive, CountKeeps, CountTypes

LEMMA ResetsAll ==
    ASSUME TypeOK, ResetCoverage
    PROVE  res' = res /\ control'.active = 0 /\ UNCHANGED <<writer, spent>> /\ fence = "resetting"
  <1>. DEFINE row == [control EXCEPT !.active = 0, !.full = TRUE, !.base = 0, !.covered = 0]
  <1>1. Change(row, {}) /\ row \in Control /\ row.active = 0
    BY ControlValues DEF ResetCoverage, TypeOK, Control
  <1>. QED
    BY <1>1, ChangeActive DEF ResetCoverage

(* Where the writers of a counting step stand.                                *)
LEMMA HolderMoves ==
    ASSUME TypeOK, NEW w \in Writers
    PROVE  /\ Begin(w) => writer'[w].pc \in Holding /\ \A v \in Writers : v # w => writer'[v] = writer[v]
           /\ BeginResent(w) => writer' = writer
           /\ FinishResent(w) => writer'[w].pc = "again" /\ \A v \in Writers : v # w => writer'[v] = writer[v]
           /\ Finish(w) \/ FinishAgain(w) =>
                 /\ writer'[w].pc \in {"idle", "reschedule"}
                 /\ \A v \in Writers : v # w => writer'[v] = writer[v]
  <1>1. Begin(w) => writer'[w].pc \in Holding /\ \A v \in Writers : v # w => writer'[v] = writer[v]
    <2>. SUFFICES ASSUME Begin(w) PROVE writer'[w].pc \in Holding /\ \A v \in Writers : v # w => writer'[v] = writer[v]
      OBVIOUS
    <2>1. PICK page \in Pages(writer[w].left) :
            writer' = [writer EXCEPT ![w].left = @ \ page,
                 ![w].pc = IF writer[w].left = page THEN "fence" ELSE "page"]
      BY DEF Begin
    <2>. QED
      BY <2>1 DEF TypeOK, Write, Holding
  <1>2. BeginResent(w) => writer' = writer
    BY DEF BeginResent
  <1>3. FinishResent(w) => writer'[w].pc = "again" /\ \A v \in Writers : v # w => writer'[v] = writer[v]
    BY DEF FinishResent, TypeOK, Write
  <1>4. Finish(w) \/ FinishAgain(w) =>
                 /\ writer'[w].pc \in {"idle", "reschedule"}
                 /\ \A v \in Writers : v # w => writer'[v] = writer[v]
    BY DEF Finish, FinishAgain, TypeOK, NoWrite
  <1>. QED
    BY <1>1, <1>2, <1>3, <1>4

LEMMA ReservationStep ==
    TypeOK /\ TypeOK' /\ CaptureInv /\ ReservationInv /\ Next => ReservationInv'
  <1>. SUFFICES ASSUME TypeOK, TypeOK', CaptureInv, ReservationInv, Next PROVE ReservationInv'
    OBVIOUS
  <1>1. FencedOut'
    BY FenceStep DEF ReservationInv
  <1>. DEFINE n == Cardinality(res)
  <1>20. /\ n \in Nat /\ control.active \in Nat /\ control'.active \in Nat
        /\ spent.fences \in Nat /\ spent'.fences \in Nat /\ spent'.fences >= spent.fences
    BY RowCounts, SpentStep DEF ReservationInv, TypeOK, Control
  <1>21. /\ spent.lost = 0 => control.active >= n /\ (control.active = n \/ spent.fences > 1)
        /\ IsFiniteSet(res)
    BY DEF ReservationInv, ActiveIsReservations
  <1>2. CASE Steady
    <2>1. IsFiniteSet(res') /\ HoldersListed'
      BY <1>2 DEF Steady, ReservationInv, HoldersListed, Holders
    <2>2. RowsLeft' /\ ActiveIsReservations'
      <3>. SUFFICES ASSUME spent'.lost = 0 PROVE RowsLeft' /\ ActiveIsReservations'
        BY DEF RowsLeft, ActiveIsReservations
      <3>1. spent.lost = 0
        BY <1>2, SpentGrows DEF Steady
      <3>2. RowsLeft'
        BY <1>2, <3>1 DEF Steady, ReservationInv, RowsLeft, TypeOK
      <3>3. ActiveIsReservations'
        BY <1>2, <3>1, <1>20, <1>21 DEF Steady, ActiveIsReservations
      <3>. QED
        BY <3>2, <3>3
    <2>. QED
      BY <1>1, <2>1, <2>2 DEF ReservationInv
  <1>3. ASSUME NEW w \in Writers, Begin(w) PROVE ReservationInv'
    <2>1. /\ res' = res \cup {w} /\ control'.active = control.active + 1 /\ writer[w].pc = "begin"
          /\ spent' = spent
      BY <1>3, TakesOne DEF Begin
    <2>2. writer'[w].pc \in Holding /\ \A v \in Writers : v # w => writer'[v] = writer[v]
      BY <1>3, HolderMoves
    <2>3. IsFiniteSet(res') /\ HoldersListed' /\ RowsLeft'
      BY <2>1, <2>2, RowCounts DEF ReservationInv, HoldersListed, Holders, RowsLeft, Holding, TypeOK
    <2>4. ActiveIsReservations'
      <3>1. spent.lost = 0 => w \notin res
        BY <2>1 DEF ReservationInv, RowsLeft, Holding
      <3>2. spent.lost = 0 => Cardinality(res') = n + 1
        BY <2>1, <3>1, <1>21, RowCounts
      <3>. QED
        BY <2>1, <3>2, <1>20, <1>21 DEF ActiveIsReservations
    <2>. QED
      BY <1>1, <2>3, <2>4 DEF ReservationInv
  <1>4. ASSUME NEW w \in Writers, BeginResent(w) PROVE ReservationInv'
    <2>1. res' = res \cup {w} /\ writer' = writer /\ spent'.lost # 0
      BY <1>4, TakesOne, HolderMoves, SpentGrows DEF BeginResent
    <2>. QED
      BY <1>1, <2>1, RowCounts
        DEF ReservationInv, HoldersListed, Holders, RowsLeft, ActiveIsReservations
  <1>5. ASSUME NEW w \in Writers, Finish(w) PROVE ReservationInv'
    <2>1. /\ writer'[w].pc \in {"idle", "reschedule"} /\ \A v \in Writers : v # w => writer'[v] = writer[v]
          /\ writer[w].pc = "finish" /\ spent' = spent
      BY <1>5, HolderMoves DEF Finish
    <2>2. w \in res
      BY <2>1 DEF ReservationInv, HoldersListed, Holders, Holding
    <2>3. CASE Balanced
      <3>1. res' = res \ {w} /\ control'.active = control.active - 1
        BY <1>5, <2>3, ReturnsOne
      <3>2. IsFiniteSet(res') /\ HoldersListed' /\ RowsLeft'
        BY <2>1, <3>1, RowCounts
          DEF ReservationInv, HoldersListed, Holders, RowsLeft, Holding, TypeOK
      <3>3. ActiveIsReservations'
        <4>1. Cardinality(res') = n - 1
          BY <2>2, <3>1, <1>21, RowCounts
        <4>. QED
          BY <2>1, <3>1, <4>1, <1>20, <1>21 DEF ActiveIsReservations
      <3>. QED
        BY <1>1, <3>2, <3>3 DEF ReservationInv
    <2>4. CASE ~Balanced
      <3>1. control.active = 0 /\ res' = res
        BY <1>5, <2>4 DEF Finish, Balanced, TypeOK, Control
      <3>2. spent.lost # 0
        <4>1. n >= 1
          BY <2>2, <1>21, RowCounts
        <4>. QED
          BY <3>1, <4>1, <1>20, <1>21
      <3>3. HoldersListed'
        BY <2>1, <3>1 DEF ReservationInv, HoldersListed, Holders, Holding
      <3>. QED
        BY <1>1, <2>1, <3>1, <3>2, <3>3 DEF ReservationInv, RowsLeft, ActiveIsReservations
    <2>. QED
      BY <2>3, <2>4
  <1>6. ASSUME NEW w \in Writers, FinishResent(w) PROVE ReservationInv'
    <2>1. /\ res' = res \ {w} /\ writer'[w].pc = "again" /\ spent'.lost # 0
          /\ \A v \in Writers : v # w => writer'[v] = writer[v]
      BY <1>6, ReturnsOne, HolderMoves, SpentGrows DEF FinishResent
    <2>. QED
      BY <1>1, <2>1, RowCounts
        DEF ReservationInv, HoldersListed, Holders, Holding, RowsLeft, ActiveIsReservations
  <1>7. ASSUME NEW w \in Writers, FinishAgain(w) PROVE ReservationInv'
    <2>1. /\ writer'[w].pc \in {"idle", "reschedule"} /\ \A v \in Writers : v # w => writer'[v] = writer[v]
          /\ writer[w].pc = "again" /\ UNCHANGED <<spent, res>>
      BY <1>7, HolderMoves DEF FinishAgain
    <2>2. spent.lost # 0
      BY <2>1 DEF ReservationInv, RowsLeft
    <2>. QED
      BY <1>1, <2>1, <2>2
        DEF ReservationInv, HoldersListed, Holders, Holding, RowsLeft, ActiveIsReservations
  <1>8. CASE RecoverReservations
    <2>1. /\ res' = {} /\ writer' = writer /\ control' = control /\ fence = "proven"
          /\ spent'.lost = spent.lost /\ spent'.fences = spent.fences + 1
      BY <1>8, SpentGrows DEF RecoverReservations
    <2>2. Holders' = {} /\ spent'.fences > 1
      BY <2>1, SpentGrows DEF ReservationInv, FencedOut, Holders, Holding
    <2>3. HoldersListed' /\ RowsLeft' /\ IsFiniteSet(res')
      BY <2>1, <2>2, RowCounts DEF ReservationInv, HoldersListed, RowsLeft
    <2>4. ActiveIsReservations'
      <3>1. Cardinality(res') = 0
        BY <2>1, FS_EmptySet
      <3>. QED
        BY <2>1, <2>2, <3>1, <1>20 DEF ActiveIsReservations
    <2>. QED
      BY <1>1, <2>3, <2>4 DEF ReservationInv
  <1>9. CASE ResetCoverage
    <2>1. res' = res /\ control'.active = 0 /\ UNCHANGED <<writer, spent>> /\ res = {}
      BY <1>9, ResetsAll DEF ReservationInv, FencedOut
    <2>. QED
      BY <1>1, <2>1, FS_EmptySet
        DEF ReservationInv, HoldersListed, Holders, RowsLeft, ActiveIsReservations
  <1>. QED
    BY <1>2, <1>3, <1>4, <1>5, <1>6, <1>7, <1>8, <1>9, SteadySteps DEF Counts

(* As long as no finish is sent twice, no reservation is invisible.           *)
Settled == \A w \in Writers : writer[w].pc # "again"

LEMMA VisibleStep ==
    ASSUME TypeOK, CaptureInv, ReservationInv, Visible, Settled, Next,
           \A w \in Writers : ~FinishResent(w)
    PROVE  Visible' /\ Settled'
  <1>. USE DEF Visible
  <1>0. control.active \in Nat /\ Cardinality(res) \in Nat
    BY FS_CardinalityType DEF TypeOK, Control, ReservationInv
  <1>1. CASE Steady
    BY <1>1 DEF Steady, Settled
  <1>2. ASSUME NEW w \in Writers, Begin(w) \/ BeginResent(w) PROVE Visible' /\ Settled'
    <2>1. Visible'
      <3>1. res' = res \cup {w} /\ control'.active = control.active + 1
        BY <1>2, TakesOne
      <3>2. Cardinality(res \cup {w}) <= Cardinality(res) + 1 /\ Cardinality(res \cup {w}) \in Nat
        BY RowCounts, FS_CardinalityType DEF ReservationInv
      <3>. QED
        BY <1>0, <3>1, <3>2
    <2>2. Settled'
      BY <1>2, HolderMoves DEF Settled, Holding
    <2>. QED
      BY <2>1, <2>2
  <1>3. ASSUME NEW w \in Writers, Finish(w) PROVE Visible' /\ Settled'
    <2>1. w \in res
      BY <1>3 DEF Finish, ReservationInv, HoldersListed, Holders, Holding
    <2>2. Visible'
      <3>1. CASE Balanced
        <4>1. res' = res \ {w} /\ control'.active = control.active - 1
          BY <1>3, <3>1, ReturnsOne
        <4>2. Cardinality(res \ {w}) = Cardinality(res) - 1
          BY <2>1, RowCounts DEF ReservationInv
        <4>. QED
          BY <1>0, <4>1, <4>2
      <3>2. CASE ~Balanced
        BY <1>3, <3>2 DEF Finish
      <3>. QED
        BY <3>1, <3>2
    <2>3. Settled'
      BY <1>3, HolderMoves DEF Settled
    <2>. QED
      BY <2>2, <2>3
  <1>4. ASSUME NEW w \in Writers, FinishAgain(w) PROVE FALSE
    BY <1>4 DEF FinishAgain, Settled
  <1>5. CASE RecoverReservations
    <2>1. res' = {} /\ UNCHANGED <<writer, control>>
      BY <1>5 DEF RecoverReservations
    <2>. QED
      BY <1>0, <2>1, FS_EmptySet DEF Settled
  <1>6. CASE ResetCoverage
    BY <1>6, ResetsAll, FS_EmptySet DEF ReservationInv, FencedOut, Settled
  <1>. QED
    BY <1>1, <1>2, <1>3, <1>4, <1>5, <1>6, SteadySteps DEF Counts

-----------------------------------------------------------------------------
(* The ledger of itself, whatever replies are lost.                           *)
LedgerInv == TypeOK /\ VersionInv /\ CaptureInv /\ ReservationInv

LEMMA LedgerInit == Init => LedgerInv /\ Visible /\ Settled
  <1>. SUFFICES ASSUME Init PROVE LedgerInv /\ Visible /\ Settled
    OBVIOUS
  <1>1. TypeOK
    BY TypeInit
  <1>2. \A b \in Builders : build[b] = NoBuild
    BY DEF Init
  <1>3. control.rev = 1 /\ control.etag = 1 /\ control.active = 0 /\ control.base = 0
    BY DEF Init, NoControl
  <1>4. VersionInv
    BY <1>2, <1>3 DEF Init, VersionInv, Past, NoBuild, NoControl, NoTouch, Blank
  <1>5. CaptureInv
    BY <1>2 DEF CaptureInv, Captured, NoBuild
  <1>6. \A w \in Writers : writer[w].pc = "idle"
    BY DEF Init, NoWrite
  <1>7. IsFiniteSet(res) /\ Cardinality(res) = 0
    BY FS_EmptySet DEF Init
  <1>8. ReservationInv
    BY <1>3, <1>6, <1>7
    DEF Init, ReservationInv, HoldersListed, Holders, Holding, RowsLeft, FencedOut, ActiveIsReservations
  <1>. QED
    BY <1>1, <1>3, <1>4, <1>5, <1>6, <1>7, <1>8 DEF LedgerInv, Visible, Settled

LEMMA LedgerStep == LedgerInv /\ [Next]_vars => LedgerInv'
  <1>1. LedgerInv /\ Next => LedgerInv'
    BY TypeStep, VersionStep, CaptureStep, ReservationStep DEF LedgerInv
  <1>2. LedgerInv /\ UNCHANGED vars => LedgerInv'
    BY DEF LedgerInv, TypeOK, VersionInv, Past, CaptureInv, Captured, ReservationInv, HoldersListed,
      Holders, RowsLeft, FencedOut, ActiveIsReservations, vars
  <1>. QED
    BY <1>1, <1>2

(* The reservation counter is the number of reservation rows, for every       *)
(* number of writers, pages and fences, as long as no transaction of the      *)
(* ledger is sent twice; an operator who dies between deleting the rows and   *)
(* resetting the counter leaves it above them, never below.                   *)
THEOREM RowsAreCounted == Spec => []ActiveIsReservations
  <1>1. LedgerInv => ActiveIsReservations
    BY DEF LedgerInv, ReservationInv
  <1>. QED
    BY <1>1, LedgerInit, LedgerStep, PTL DEF Spec

(* The hypothesis of what follows: any reply may be lost but that of a        *)
(* finish, whose repetition takes a count that may be another writer's.       *)
FinishAnswered == [][\A w \in Writers : ~FinishResent(w)]_vars

(* With no reply lost at all it holds, so it is what the runs assume.         *)
LEMMA AllAnswered == ASSUME MaxLost = 0 PROVE Spec => FinishAnswered
  <1>1. TypeOK /\ [Next]_vars => [\A w \in Writers : ~FinishResent(w)]_vars
    <2>. SUFFICES ASSUME TypeOK, NEW w \in Writers, FinishResent(w) PROVE FALSE
      OBVIOUS
    <2>1. spent.lost \in Nat
      BY DEF TypeOK, Bounds
    <2>. QED
      BY <2>1 DEF FinishResent, LoseReply
  <1>. QED
    BY <1>1, CoverageTypes, PTL DEF Spec, FinishAnswered

LEMMA VisibleKept ==
    LedgerInv /\ Visible /\ Settled /\ [Next]_vars /\ [\A w \in Writers : ~FinishResent(w)]_vars
        => Visible' /\ Settled'
  <1>1. LedgerInv /\ Visible /\ Settled /\ UNCHANGED vars => Visible' /\ Settled'
    BY DEF Visible, Settled, vars
  <1>. QED
    BY <1>1, VisibleStep DEF LedgerInv

(* When the counter is zero, no row is left and nobody is writing.            *)
LEMMA IdleLedger ==
    ASSUME LedgerInv, Visible, control.active = 0
    PROVE  res = {} /\ Holders = {}
  <1>1. Cardinality(res) \in Nat /\ IsFiniteSet(res)
    BY FS_CardinalityType DEF LedgerInv, ReservationInv
  <1>2. Cardinality(res) = 0
    BY <1>1 DEF Visible
  <1>3. res = {}
    BY <1>1, <1>2, FS_EmptySet
  <1>. QED
    BY <1>3 DEF LedgerInv, ReservationInv, HoldersListed

(* What certifies captured the ledger idle, and certifies it so.              *)
LEMMA CertifiesIdle ==
    ASSUME LedgerInv, Visible, NEW b \in Builders, Certifies(b)
    PROVE  control.active = 0 /\ res = {} /\ Holders = {}
  <1>1. control.active = 0
    BY DEF LedgerInv, CaptureInv, Captured, Certifies
  <1>. QED
    BY <1>1, IdleLedger

(* A base is certified only while no reservation is open: the compare-and-    *)
(* swap on the row that was captured idle is enough, because every begin and  *)
(* finish moves the row's ETag.                                               *)
THEOREM CertifiedIsIdle == Spec /\ FinishAnswered => CertifiedWhileIdle
  <1>. DEFINE Idle == LedgerInv /\ Visible /\ Settled
              Step == control'.base # control.base /\ control'.base # 0 =>
                          res = {} /\ \A w \in Writers : writer[w].pc \notin {"page", "fence", "write", "finish"}
  <1>1. Init => Idle
    BY LedgerInit
  <1>2. Idle /\ [Next]_vars /\ [\A w \in Writers : ~FinishResent(w)]_vars => Idle'
    BY LedgerStep, VisibleKept
  <1>3. Idle /\ [Next]_vars => [Step]_vars
    <2>. SUFFICES ASSUME Idle, Next PROVE Step
      BY DEF vars
    <2>1. CASE Advanced
      BY <2>1 DEF Advanced
    <2>2. ASSUME NEW b \in Builders, Certifies(b) PROVE Step
      BY <2>2, CertifiesIdle DEF Holders, Holding
    <2>3. CASE Still
      BY <2>3 DEF Still
    <2>. QED
      BY <2>1, <2>2, <2>3, LedgerMoves DEF LedgerInv
  <1>. QED
    BY <1>1, <1>2, <1>3, PTL DEF Spec, FinishAnswered, CertifiedWhileIdle

-----------------------------------------------------------------------------
(* What a step declares, and where a build goes.                              *)

(* The steps that move a writer, all of them its own.                         *)
Works(w) ==
    \/ StartWrite(w) \/ Schedule(w) \/ Begin(w) \/ BeginPage(w) \/ CheckFence(w)
    \/ WriteSource(w) \/ FailSource(w) \/ WriteMore(w) \/ Finish(w) \/ FinishResent(w)
    \/ FinishAgain(w) \/ Reschedule(w) \/ KillWriter(w)

LEMMA WorkMoves ==
    ASSUME TypeOK, Next, NEW w \in Writers
    PROVE  writer'[w] = writer[w] \/ Works(w)
  <1>1. ASSUME NEW v \in Writers, StartWrite(v) PROVE writer'[w] = writer[w] \/ v = w
    BY <1>1 DEF StartWrite, TypeOK
  <1>2. ASSUME NEW v \in Writers, Schedule(v) PROVE writer'[w] = writer[w] \/ v = w
    BY <1>2 DEF Schedule, TypeOK
  <1>3. ASSUME NEW v \in Writers, Begin(v) PROVE writer'[w] = writer[w] \/ v = w
    BY <1>3 DEF Begin, TypeOK
  <1>4. ASSUME NEW v \in Writers, BeginPage(v) PROVE writer'[w] = writer[w] \/ v = w
    BY <1>4 DEF BeginPage, TypeOK
  <1>5. ASSUME NEW v \in Writers, BeginResent(v) PROVE writer'[w] = writer[w]
    BY <1>5 DEF BeginResent
  <1>6. ASSUME NEW v \in Writers, CheckFence(v) PROVE writer'[w] = writer[w] \/ v = w
    BY <1>6 DEF CheckFence, TypeOK
  <1>7. ASSUME NEW v \in Writers, WriteSource(v) PROVE writer'[w] = writer[w] \/ v = w
    BY <1>7 DEF WriteSource, TypeOK
  <1>8. ASSUME NEW v \in Writers, FailSource(v) PROVE writer'[w] = writer[w] \/ v = w
    BY <1>8 DEF FailSource, TypeOK
  <1>9. ASSUME NEW v \in Writers, WriteMore(v) PROVE writer'[w] = writer[w] \/ v = w
    BY <1>9 DEF WriteMore, TypeOK
  <1>10. ASSUME NEW v \in Writers, Finish(v) PROVE writer'[w] = writer[w] \/ v = w
    BY <1>10 DEF Finish, TypeOK
  <1>11. ASSUME NEW v \in Writers, FinishResent(v) PROVE writer'[w] = writer[w] \/ v = w
    BY <1>11 DEF FinishResent, TypeOK
  <1>12. ASSUME NEW v \in Writers, FinishAgain(v) PROVE writer'[w] = writer[w] \/ v = w
    BY <1>12 DEF FinishAgain, TypeOK
  <1>13. ASSUME NEW v \in Writers, Reschedule(v) PROVE writer'[w] = writer[w] \/ v = w
    BY <1>13 DEF Reschedule, TypeOK
  <1>14. ASSUME NEW v \in Writers, KillWriter(v) PROVE writer'[w] = writer[w] \/ v = w
    BY <1>14 DEF KillWriter, TypeOK
  <1>15. ASSUME NEW b \in Builders, Claim(b) PROVE writer' = writer
    BY <1>15 DEF Claim
  <1>16. ASSUME NEW b \in Builders, Lock(b) PROVE writer' = writer
    BY <1>16 DEF Lock
  <1>17. ASSUME NEW b \in Builders, CaptureControl(b) PROVE writer' = writer
    BY <1>17 DEF CaptureControl
  <1>18. ASSUME NEW b \in Builders, CaptureDirty(b) PROVE writer' = writer
    BY <1>18 DEF CaptureDirty
  <1>19. ASSUME NEW b \in Builders, Open(b) PROVE writer' = writer
    BY <1>19 DEF Open
  <1>20. ASSUME NEW b \in Builders, ReadRow(b) PROVE writer' = writer
    BY <1>20 DEF ReadRow
  <1>21. ASSUME NEW b \in Builders, FailRefresh(b) PROVE writer' = writer
    BY <1>21 DEF FailRefresh
  <1>22. ASSUME NEW b \in Builders, Publish(b) PROVE writer' = writer
    BY <1>22 DEF Publish
  <1>23. ASSUME NEW b \in Builders, Commit(b) PROVE writer' = writer
    BY <1>23 DEF Commit
  <1>24. ASSUME NEW b \in Builders, Defer(b) PROVE writer' = writer
    BY <1>24 DEF Defer
  <1>25. ASSUME NEW b \in Builders, ReadBase(b) PROVE writer' = writer
    BY <1>25 DEF ReadBase
  <1>26. ASSUME NEW b \in Builders, Certify(b) PROVE writer' = writer
    BY <1>26 DEF Certify
  <1>27. ASSUME NEW b \in Builders, CertifyResent(b) PROVE writer' = writer
    BY <1>27 DEF CertifyResent
  <1>28. ASSUME NEW b \in Builders, Drain(b) PROVE writer' = writer
    BY <1>28 DEF Drain
  <1>29. ASSUME NEW b \in Builders, DrainCheck(b) PROVE writer' = writer
    BY <1>29 DEF DrainCheck
  <1>30. ASSUME NEW b \in Builders, DeleteDirty(b) PROVE writer' = writer
    BY <1>30 DEF DeleteDirty
  <1>31. ASSUME NEW b \in Builders, FinishBuild(b) PROVE writer' = writer
    BY <1>31 DEF FinishBuild
  <1>32. ASSUME NEW b \in Builders, Stall(b) PROVE writer' = writer
    BY <1>32 DEF Stall
  <1>33. ASSUME NEW b \in Builders, KillBuilder(b) PROVE writer' = writer
    BY <1>33 DEF KillBuilder
  <1>34. ASSUME ReadTouch PROVE writer' = writer
    BY <1>34 DEF ReadTouch
  <1>35. ASSUME WriteTouch PROVE writer' = writer
    BY <1>35 DEF WriteTouch
  <1>36. ASSUME Recover PROVE writer' = writer
    BY <1>36 DEF Recover
  <1>37. ASSUME ArmFence PROVE writer' = writer
    BY <1>37 DEF ArmFence
  <1>38. ASSUME Prove PROVE writer' = writer
    BY <1>38 DEF Prove
  <1>39. ASSUME RecoverReservations PROVE writer' = writer
    BY <1>39 DEF RecoverReservations
  <1>40. ASSUME ResetCoverage PROVE writer' = writer
    BY <1>40 DEF ResetCoverage
  <1>41. ASSUME KillOperator PROVE writer' = writer
    BY <1>41 DEF KillOperator
  <1>42. ASSUME Resume PROVE writer' = writer
    BY <1>42 DEF Resume
  <1>. QED
    BY <1>1, <1>2, <1>3, <1>4, <1>5, <1>6, <1>7, <1>8, <1>9, <1>10, <1>11, <1>12, <1>13, <1>14,
      <1>15, <1>16, <1>17, <1>18, <1>19, <1>20, <1>21, <1>22, <1>23, <1>24, <1>25, <1>26,
      <1>27, <1>28, <1>29, <1>30, <1>31, <1>32, <1>33, <1>34, <1>35, <1>36, <1>37, <1>38,
      <1>39, <1>40, <1>41, <1>42
    DEF Next, WriterStep, BuildStep, Works

(* What a writer has declared grows only by rows this step makes dirty.       *)
Declares(w) ==
    /\ writer'[w].unsure = writer[w].unsure
    /\ writer[w].pc \in Holding \/ (writer[w].unsure => control'.full)
    /\ \A i \in Declared(w)' : i \in Declared(w) \/ dirty'[i] = control.etag + 1

LEMMA DeclareMoves ==
    ASSUME TypeOK, TypeOK', Next, NEW w \in Writers, Shape(w)
    PROVE  Shape(w)' /\ (writer'[w].pc \in Holding => Declares(w))
  <1>. USE DEF Shape, Declares, Declared, Holding
  <1>0. writer[w] \in Write /\ writer'[w] \in Write
    BY DEF TypeOK
  <1>1. CASE writer'[w] = writer[w]
    BY <1>1
  <1>2. CASE StartWrite(w)
    <2>1. PICK ids \in WriteSets \cup {{}}, unsure \in BOOLEAN, wave \in BOOLEAN :
            writer' = [writer EXCEPT ![w] = [NoWrite EXCEPT
                !.pc = IF wave THEN "begin" ELSE "schedule",
                !.left = ids, !.ids = IF unsure THEN {} ELSE ids, !.unsure = unsure, !.wave = wave]]
      BY <1>2 DEF StartWrite
    <2>2. writer'[w] = [NoWrite EXCEPT
                !.pc = IF wave THEN "begin" ELSE "schedule",
                !.left = ids, !.ids = IF unsure THEN {} ELSE ids, !.unsure = unsure, !.wave = wave]
      BY <2>1 DEF TypeOK
    <2>3. writer'[w].pc \in {"begin", "schedule"}
      BY <2>2 DEF NoWrite
    <2>4. writer'[w].ids \subseteq writer'[w].left
      BY <2>2 DEF NoWrite
    <2>. QED
      BY <2>3, <2>4
  <1>3. CASE Schedule(w)
    BY <1>3, <1>0 DEF Schedule, NoWrite, TypeOK, Write
  <1>4. CASE Begin(w)
    <2>1. PICK page \in Pages(writer[w].left) :
            /\ Change(Reserved(control, w, TRUE), page)
            /\ writer' = [writer EXCEPT ![w].left = @ \ page,
                 ![w].pc = IF writer[w].left = page THEN "fence" ELSE "page"]
      BY <1>4 DEF Begin
    <2>2. /\ writer'[w].left = writer[w].left \ page /\ writer'[w].ids = writer[w].ids
          /\ writer'[w].unsure = writer[w].unsure
          /\ writer'[w].pc = IF writer[w].left = page THEN "fence" ELSE "page"
      BY <2>1, <1>0 DEF TypeOK, Write
    <2>3. \A i \in page : dirty'[i] = control.etag + 1
      BY <2>1, <1>0 DEF Pages, Change, Write
    <2>4. Shape(w)'
      BY <2>2
    <2>5. \A i \in Declared(w)' : i \in Declared(w) \/ dirty'[i] = control.etag + 1
      BY <1>4, <2>2, <2>3 DEF Begin
    <2>6. writer[w].unsure => control'.full
      <3>1. control' = [Reserved(control, w, TRUE) EXCEPT !.rev = control.etag + 1, !.etag = control.etag + 1]
        BY <2>1 DEF Change
      <3>2. Reserved(control, w, TRUE) \in Control
        BY CountTypes
      <3>3. control'.full = Reserved(control, w, TRUE).full
        BY <3>1, <3>2 DEF Control
      <3>. QED
        BY <3>3, CountKeeps
    <2>. QED
      BY <2>2, <2>4, <2>5, <2>6
  <1>5. CASE BeginPage(w)
    <2>1. PICK page \in Pages(writer[w].left) :
            /\ Change(Reserved(control, w, FALSE), page)
            /\ writer' = [writer EXCEPT ![w].left = @ \ page,
                 ![w].pc = IF writer[w].left = page THEN "fence" ELSE "page"]
      BY <1>5 DEF BeginPage
    <2>2. /\ writer'[w].left = writer[w].left \ page /\ writer'[w].ids = writer[w].ids
          /\ writer'[w].unsure = writer[w].unsure
          /\ writer'[w].pc = IF writer[w].left = page THEN "fence" ELSE "page"
      BY <2>1, <1>0 DEF TypeOK, Write
    <2>3. \A i \in page : dirty'[i] = control.etag + 1
      BY <2>1, <1>0 DEF Pages, Change, Write
    <2>4. Shape(w)'
      BY <2>2
    <2>5. \A i \in Declared(w)' : i \in Declared(w) \/ dirty'[i] = control.etag + 1
      BY <1>5, <2>2, <2>3 DEF BeginPage
    <2>6. writer[w].pc \in Holding
      BY <1>5 DEF BeginPage
    <2>. QED
      BY <2>2, <2>4, <2>5, <2>6
  <1>6. CASE CheckFence(w)
    BY <1>6, <1>0 DEF CheckFence, NoWrite, TypeOK, Write
  <1>7. CASE WriteSource(w)
    BY <1>7, <1>0 DEF WriteSource, NoWrite, TypeOK, Write
  <1>8. CASE FailSource(w)
    BY <1>8, <1>0 DEF FailSource, NoWrite, TypeOK, Write
  <1>9. CASE WriteMore(w)
    BY <1>9, <1>0 DEF WriteMore, NoWrite, TypeOK, Write
  <1>10. CASE Finish(w)
    BY <1>10, <1>0 DEF Finish, NoWrite, TypeOK, Write
  <1>11. CASE FinishResent(w)
    BY <1>11, <1>0 DEF FinishResent, NoWrite, TypeOK, Write
  <1>12. CASE FinishAgain(w)
    BY <1>12, <1>0 DEF FinishAgain, NoWrite, TypeOK, Write
  <1>13. CASE Reschedule(w)
    BY <1>13, <1>0 DEF Reschedule, NoWrite, TypeOK, Write
  <1>14. CASE KillWriter(w)
    BY <1>14, <1>0 DEF KillWriter, NoWrite, TypeOK, Write
  <1>. QED
    BY WorkMoves,
      <1>1, <1>2, <1>3, <1>4, <1>5, <1>6, <1>7, <1>8, <1>9, <1>10, <1>11, <1>12, <1>13, <1>14
    DEF Works

(* Which step a build owes each stage to.                                     *)
LEMMA StageMoves ==
    ASSUME TypeOK, Next, NEW c \in Builders, build'[c] # build[c]
    PROVE  /\ build'[c].pc = "open" => CaptureDirty(c)
           /\ build'[c].pc = "read" => Open(c) \/ ReadRow(c)
           /\ build'[c].pc = "commit" => Publish(c)
           /\ build'[c].pc = "base" => Commit(c)
           /\ build'[c].pc = "cas" => ReadBase(c)
           /\ build'[c].pc = "acking" => Certify(c) \/ DrainCheck(c)
           /\ build'[c].pc = "drain" => Certify(c) \/ DeleteDirty(c)
           /\ build'[c].pc = "drained" => Drain(c)
  <1>0. build[c] \in Build /\ build \in [Builders -> Build]
    BY DEF TypeOK
  <1>1. Claim(c) => build'[c].pc \in {"lock"}
    BY <1>0 DEF Claim, GiveUp, Go, At, NoBuild, Build
  <1>2. Lock(c) => build'[c].pc \in {"idle", "control"}
    BY <1>0 DEF Lock, GiveUp, Go, At, NoBuild, Build
  <1>3. CaptureControl(c) => build'[c].pc \in {"idle", "rows"}
    BY <1>0 DEF CaptureControl, GiveUp, Go, At, NoBuild, Build
  <1>4. CaptureDirty(c) => build'[c].pc \in {"finish", "open", "idle"}
    <2>. SUFFICES ASSUME CaptureDirty(c) PROVE build'[c].pc \in {"finish", "open", "idle"}
      OBVIOUS
    <2>1. PICK ids \in Captures : Verdict(c, ids)
      BY DEF CaptureDirty, Verdict
    <2>. QED
      BY <2>1, <1>0 DEF Verdict, GiveUp, Go, NoBuild, Build
  <1>5. Open(c) => build'[c].pc \in {"defer", "read"}
    BY <1>0 DEF Open, GiveUp, Go, At, NoBuild, Build
  <1>6. ReadRow(c) => build'[c].pc \in {"read"}
    BY <1>0 DEF ReadRow, GiveUp, Go, At, NoBuild, Build
  <1>7. FailRefresh(c) => build'[c].pc \in {"defer"}
    BY <1>0 DEF FailRefresh, GiveUp, Go, At, NoBuild, Build
  <1>8. Publish(c) => build'[c].pc \in {"commit", "defer"}
    BY <1>0 DEF Publish, GiveUp, Go, At, NoBuild, Build
  <1>9. Commit(c) => build'[c].pc \in {"base", "defer"}
    BY <1>0 DEF Commit, GiveUp, Go, At, NoBuild, Build
  <1>10. Defer(c) => build'[c].pc \in {"idle"}
    BY <1>0 DEF Defer, GiveUp, Go, At, NoBuild, Build
  <1>11. ReadBase(c) => build'[c].pc \in {"cas", "idle"}
    BY <1>0 DEF ReadBase, GiveUp, Go, At, NoBuild, Build
  <1>12. Certify(c) => build'[c].pc \in {"drain", "acking", "idle"}
    BY <1>0 DEF Certify, GiveUp, Go, At, NoBuild, Build
  <1>13. CertifyResent(c) => build'[c].pc \in {"idle"}
    BY <1>0 DEF CertifyResent, GiveUp, Go, At, NoBuild, Build
  <1>14. Drain(c) => build'[c].pc \in {"drained"}
    BY <1>0 DEF Drain, GiveUp, Go, At, NoBuild, Build
  <1>15. DrainCheck(c) => build'[c].pc \in {"finish", "acking", "idle"}
    BY <1>0 DEF DrainCheck, GiveUp, Go, At, NoBuild, Build
  <1>16. DeleteDirty(c) => build'[c].pc \in {"drain", "finish"}
    BY <1>0 DEF DeleteDirty, GiveUp, Go, At, NoBuild, Build
  <1>17. FinishBuild(c) => build'[c].pc \in {"idle"}
    BY <1>0 DEF FinishBuild, GiveUp, Go, At, NoBuild, Build
  <1>18. KillBuilder(c) => build'[c].pc \in {"idle"}
    BY <1>0 DEF KillBuilder, GiveUp, Go, At, NoBuild, Build
  <1>. QED
    BY BuildMoves,
      <1>1, <1>2, <1>3, <1>4, <1>5, <1>6, <1>7, <1>8, <1>9, <1>10, <1>11, <1>12, <1>13, <1>14,
      <1>15, <1>16, <1>17, <1>18
    DEF Acts

(* The lease is taken at one place only.                                      *)
LEMMA LockMoves ==
    ASSUME TypeOK, Next, NEW c \in Builders, lock' = c
    PROVE  lock = c \/ build'[c].pc = "control"
  <1>0. c # Nobody /\ c # Operator
    BY CoverageAssumption
  <1>1. ASSUME NEW w \in Writers, StartWrite(w) PROVE lock = c
    BY <1>1 DEF StartWrite, builderVars
  <1>2. ASSUME NEW w \in Writers, Schedule(w) PROVE lock = c
    BY <1>2 DEF Schedule, builderVars
  <1>3. ASSUME NEW w \in Writers, Begin(w) PROVE lock = c
    BY <1>3 DEF Begin, builderVars
  <1>4. ASSUME NEW w \in Writers, BeginPage(w) PROVE lock = c
    BY <1>4 DEF BeginPage, builderVars
  <1>5. ASSUME NEW w \in Writers, BeginResent(w) PROVE lock = c
    BY <1>5 DEF BeginResent, builderVars
  <1>6. ASSUME NEW w \in Writers, CheckFence(w) PROVE lock = c
    BY <1>6 DEF CheckFence, builderVars
  <1>7. ASSUME NEW w \in Writers, WriteSource(w) PROVE lock = c
    BY <1>7 DEF WriteSource, builderVars
  <1>8. ASSUME NEW w \in Writers, FailSource(w) PROVE lock = c
    BY <1>8 DEF FailSource, builderVars
  <1>9. ASSUME NEW w \in Writers, WriteMore(w) PROVE lock = c
    BY <1>9 DEF WriteMore, builderVars
  <1>10. ASSUME NEW w \in Writers, Finish(w) PROVE lock = c
    BY <1>10 DEF Finish, builderVars
  <1>11. ASSUME NEW w \in Writers, FinishResent(w) PROVE lock = c
    BY <1>11 DEF FinishResent, builderVars
  <1>12. ASSUME NEW w \in Writers, FinishAgain(w) PROVE lock = c
    BY <1>12 DEF FinishAgain, builderVars
  <1>13. ASSUME NEW w \in Writers, Reschedule(w) PROVE lock = c
    BY <1>13 DEF Reschedule, builderVars
  <1>14. ASSUME NEW w \in Writers, KillWriter(w) PROVE lock = c
    BY <1>14 DEF KillWriter, builderVars
  <1>15. ASSUME NEW b \in Builders, Claim(b) PROVE lock = c
    BY <1>15, <1>0 DEF Claim, GiveUp, Unlocked
  <1>16. ASSUME NEW b \in Builders, Lock(b) PROVE lock = c \/ build'[c].pc = "control"
    BY <1>16, <1>0 DEF Lock, GiveUp, Unlocked, Go, TypeOK, Build
  <1>17. ASSUME NEW b \in Builders, CaptureControl(b) PROVE lock = c
    BY <1>17, <1>0 DEF CaptureControl, GiveUp, Unlocked
  <1>18. ASSUME NEW b \in Builders, CaptureDirty(b) PROVE lock = c
    <2>1. PICK ids \in Captures : Verdict(b, ids)
      BY <1>18 DEF CaptureDirty, Verdict
    <2>. QED
      BY <2>1, <1>0 DEF Verdict, GiveUp, Unlocked
  <1>19. ASSUME NEW b \in Builders, Open(b) PROVE lock = c
    BY <1>19, <1>0 DEF Open, GiveUp, Unlocked
  <1>20. ASSUME NEW b \in Builders, ReadRow(b) PROVE lock = c
    BY <1>20, <1>0 DEF ReadRow, GiveUp, Unlocked
  <1>21. ASSUME NEW b \in Builders, FailRefresh(b) PROVE lock = c
    BY <1>21, <1>0 DEF FailRefresh, GiveUp, Unlocked
  <1>22. ASSUME NEW b \in Builders, Publish(b) PROVE lock = c
    BY <1>22, <1>0 DEF Publish, GiveUp, Unlocked
  <1>23. ASSUME NEW b \in Builders, Commit(b) PROVE lock = c
    BY <1>23, <1>0 DEF Commit, GiveUp, Unlocked
  <1>24. ASSUME NEW b \in Builders, Defer(b) PROVE lock = c
    BY <1>24, <1>0 DEF Defer, GiveUp, Unlocked
  <1>25. ASSUME NEW b \in Builders, ReadBase(b) PROVE lock = c
    BY <1>25, <1>0 DEF ReadBase, GiveUp, Unlocked
  <1>26. ASSUME NEW b \in Builders, Certify(b) PROVE lock = c
    BY <1>26, <1>0 DEF Certify, GiveUp, Unlocked
  <1>27. ASSUME NEW b \in Builders, CertifyResent(b) PROVE lock = c
    BY <1>27, <1>0 DEF CertifyResent, GiveUp, Unlocked
  <1>28. ASSUME NEW b \in Builders, Drain(b) PROVE lock = c
    BY <1>28, <1>0 DEF Drain, GiveUp, Unlocked
  <1>29. ASSUME NEW b \in Builders, DrainCheck(b) PROVE lock = c
    BY <1>29, <1>0 DEF DrainCheck, GiveUp, Unlocked
  <1>30. ASSUME NEW b \in Builders, DeleteDirty(b) PROVE lock = c
    BY <1>30, <1>0 DEF DeleteDirty, GiveUp, Unlocked
  <1>31. ASSUME NEW b \in Builders, FinishBuild(b) PROVE lock = c
    BY <1>31, <1>0 DEF FinishBuild, GiveUp, Unlocked
  <1>32. ASSUME NEW b \in Builders, Stall(b) PROVE lock = c
    BY <1>32, <1>0 DEF Stall, GiveUp, Unlocked
  <1>33. ASSUME NEW b \in Builders, KillBuilder(b) PROVE lock = c
    BY <1>33, <1>0 DEF KillBuilder, GiveUp, Unlocked
  <1>34. ASSUME ReadTouch PROVE lock = c
    BY <1>34, <1>0 DEF ReadTouch, builderVars
  <1>35. ASSUME WriteTouch PROVE lock = c
    BY <1>35, <1>0 DEF WriteTouch, builderVars
  <1>36. ASSUME Recover PROVE lock = c
    BY <1>36, <1>0 DEF Recover, builderVars
  <1>37. ASSUME ArmFence PROVE lock = c
    BY <1>37, <1>0 DEF ArmFence, builderVars
  <1>38. ASSUME Prove PROVE lock = c
    BY <1>38, <1>0 DEF Prove, builderVars
  <1>39. ASSUME RecoverReservations PROVE lock = c
    BY <1>39, <1>0 DEF RecoverReservations, builderVars
  <1>40. ASSUME ResetCoverage PROVE lock = c
    BY <1>40, <1>0 DEF ResetCoverage, builderVars
  <1>41. ASSUME KillOperator PROVE lock = c
    BY <1>41, <1>0 DEF KillOperator, builderVars
  <1>42. ASSUME Resume PROVE lock = c
    BY <1>42, <1>0 DEF Resume, builderVars
  <1>. QED
    BY <1>1, <1>2, <1>3, <1>4, <1>5, <1>6, <1>7, <1>8, <1>9, <1>10, <1>11, <1>12, <1>13, <1>14,
      <1>15, <1>16, <1>17, <1>18, <1>19, <1>20, <1>21, <1>22, <1>23, <1>24, <1>25, <1>26,
      <1>27, <1>28, <1>29, <1>30, <1>31, <1>32, <1>33, <1>34, <1>35, <1>36, <1>37, <1>38,
      <1>39, <1>40, <1>41, <1>42
    DEF Next, WriterStep, BuildStep

(* The source is written by a holder, where it declared it or was unsure.     *)
Written(w) ==
    /\ writer[w].pc = "write" /\ UNCHANGED <<control, dirty, manifest, lock, build>>
    /\ \A i \in Ids : source'[i] # source[i] => writer[w].unsure \/ i \in Declared(w)

LEMMA WroteRows ==
    ASSUME TypeOK, NEW w \in Writers, Shape(w), writer[w].pc = "write", Wrote(w), NEW i \in Ids,
           source'[i] # source[i]
    PROVE  writer[w].unsure \/ i \in Declared(w)
  <1>1. CASE writer[w].unsure
    BY <1>1
  <1>2. CASE ~writer[w].unsure
    <2>1. source'[i] = IF i \in writer[w].ids THEN source[i] + 1 ELSE source[i]
      BY <1>2 DEF Wrote
    <2>. QED
      BY <2>1 DEF Shape, Declared, Holding
  <1>. QED
    BY <1>1, <1>2

LEMMA SourceMoves ==
    ASSUME TypeOK, \A w \in Writers : Shape(w), Next
    PROVE  source' = source \/ \E w \in Writers : Written(w)
  <1>1. ASSUME NEW w \in Writers, StartWrite(w) PROVE source' = source
    BY <1>1 DEF StartWrite
  <1>2. ASSUME NEW w \in Writers, Schedule(w) PROVE source' = source
    BY <1>2 DEF Schedule
  <1>3. ASSUME NEW w \in Writers, Begin(w) PROVE source' = source
    BY <1>3 DEF Begin
  <1>4. ASSUME NEW w \in Writers, BeginPage(w) PROVE source' = source
    BY <1>4 DEF BeginPage
  <1>5. ASSUME NEW w \in Writers, BeginResent(w) PROVE source' = source
    BY <1>5 DEF BeginResent
  <1>6. ASSUME NEW w \in Writers, CheckFence(w) PROVE source' = source
    BY <1>6 DEF CheckFence
  <1>7. ASSUME NEW w \in Writers, WriteSource(w) PROVE source' = source \/ Written(w)
    BY <1>7, WroteRows DEF WriteSource, Written, builderVars
  <1>8. ASSUME NEW w \in Writers, FailSource(w) PROVE source' = source \/ Written(w)
    BY <1>8, WroteRows DEF FailSource, Written, builderVars
  <1>9. ASSUME NEW w \in Writers, WriteMore(w) PROVE source' = source
    BY <1>9 DEF WriteMore
  <1>10. ASSUME NEW w \in Writers, Finish(w) PROVE source' = source
    BY <1>10 DEF Finish
  <1>11. ASSUME NEW w \in Writers, FinishResent(w) PROVE source' = source
    BY <1>11 DEF FinishResent
  <1>12. ASSUME NEW w \in Writers, FinishAgain(w) PROVE source' = source
    BY <1>12 DEF FinishAgain
  <1>13. ASSUME NEW w \in Writers, Reschedule(w) PROVE source' = source
    BY <1>13 DEF Reschedule
  <1>14. ASSUME NEW w \in Writers, KillWriter(w) PROVE source' = source
    BY <1>14 DEF KillWriter
  <1>15. ASSUME NEW b \in Builders, Claim(b) PROVE source' = source
    BY <1>15 DEF Claim, ledgerVars
  <1>16. ASSUME NEW b \in Builders, Lock(b) PROVE source' = source
    BY <1>16 DEF Lock, ledgerVars
  <1>17. ASSUME NEW b \in Builders, CaptureControl(b) PROVE source' = source
    BY <1>17 DEF CaptureControl, ledgerVars
  <1>18. ASSUME NEW b \in Builders, CaptureDirty(b) PROVE source' = source
    BY <1>18 DEF CaptureDirty, ledgerVars
  <1>19. ASSUME NEW b \in Builders, Open(b) PROVE source' = source
    BY <1>19 DEF Open, ledgerVars
  <1>20. ASSUME NEW b \in Builders, ReadRow(b) PROVE source' = source
    BY <1>20 DEF ReadRow, ledgerVars
  <1>21. ASSUME NEW b \in Builders, FailRefresh(b) PROVE source' = source
    BY <1>21 DEF FailRefresh, ledgerVars
  <1>22. ASSUME NEW b \in Builders, Publish(b) PROVE source' = source
    BY <1>22 DEF Publish, ledgerVars
  <1>23. ASSUME NEW b \in Builders, Commit(b) PROVE source' = source
    BY <1>23 DEF Commit, ledgerVars
  <1>24. ASSUME NEW b \in Builders, Defer(b) PROVE source' = source
    BY <1>24 DEF Defer, ledgerVars
  <1>25. ASSUME NEW b \in Builders, ReadBase(b) PROVE source' = source
    BY <1>25 DEF ReadBase, ledgerVars
  <1>26. ASSUME NEW b \in Builders, Certify(b) PROVE source' = source
    BY <1>26 DEF Certify, ledgerVars
  <1>27. ASSUME NEW b \in Builders, CertifyResent(b) PROVE source' = source
    BY <1>27 DEF CertifyResent, ledgerVars
  <1>28. ASSUME NEW b \in Builders, Drain(b) PROVE source' = source
    BY <1>28 DEF Drain, ledgerVars
  <1>29. ASSUME NEW b \in Builders, DrainCheck(b) PROVE source' = source
    BY <1>29 DEF DrainCheck, ledgerVars
  <1>30. ASSUME NEW b \in Builders, DeleteDirty(b) PROVE source' = source
    BY <1>30 DEF DeleteDirty, ledgerVars
  <1>31. ASSUME NEW b \in Builders, FinishBuild(b) PROVE source' = source
    BY <1>31 DEF FinishBuild, ledgerVars
  <1>32. ASSUME NEW b \in Builders, Stall(b) PROVE source' = source
    BY <1>32 DEF Stall, ledgerVars
  <1>33. ASSUME NEW b \in Builders, KillBuilder(b) PROVE source' = source
    BY <1>33 DEF KillBuilder, ledgerVars
  <1>34. ASSUME ReadTouch PROVE source' = source
    BY <1>34 DEF ReadTouch, ledgerVars
  <1>35. ASSUME WriteTouch PROVE source' = source
    BY <1>35 DEF WriteTouch, ledgerVars
  <1>36. ASSUME Recover PROVE source' = source
    BY <1>36 DEF Recover, ledgerVars
  <1>37. ASSUME ArmFence PROVE source' = source
    BY <1>37 DEF ArmFence, ledgerVars
  <1>38. ASSUME Prove PROVE source' = source
    BY <1>38 DEF Prove, ledgerVars
  <1>39. ASSUME RecoverReservations PROVE source' = source
    BY <1>39 DEF RecoverReservations, ledgerVars
  <1>40. ASSUME ResetCoverage PROVE source' = source
    BY <1>40 DEF ResetCoverage, ledgerVars
  <1>41. ASSUME KillOperator PROVE source' = source
    BY <1>41 DEF KillOperator, ledgerVars
  <1>42. ASSUME Resume PROVE source' = source
    BY <1>42 DEF Resume, ledgerVars
  <1>. QED
    BY <1>1, <1>2, <1>3, <1>4, <1>5, <1>6, <1>7, <1>8, <1>9, <1>10, <1>11, <1>12, <1>13, <1>14,
      <1>15, <1>16, <1>17, <1>18, <1>19, <1>20, <1>21, <1>22, <1>23, <1>24, <1>25, <1>26,
      <1>27, <1>28, <1>29, <1>30, <1>31, <1>32, <1>33, <1>34, <1>35, <1>36, <1>37, <1>38,
      <1>39, <1>40, <1>41, <1>42
    DEF Next, WriterStep, BuildStep

-----------------------------------------------------------------------------
(* What the contents rest on.                                                 *)
CoverInv == LedgerInv /\ Visible /\ Settled /\ DeclaredInv /\ ContentInv

LEMMA CoverFacts ==
    ASSUME CoverInv
    PROVE  /\ TypeOK /\ VersionInv /\ CaptureInv /\ LedgerInv /\ Visible
           /\ \A w \in Writers : Shape(w)
           /\ \A b \in Builders : Past(b)
  BY DEF CoverInv, LedgerInv, DeclaredInv, VersionInv

(* A declared row is a holder's, and is dirty unless the holder was unsure.   *)
LEMMA DeclaredRows ==
    ASSUME CoverInv, NEW w \in Writers, NEW i \in Declared(w)
    PROVE  w \in Holders /\ i \in Ids /\ (writer[w].unsure \/ dirty[i] # 0)
  <1>1. w \in Holders
    BY DEF Declared, Holders
  <1>2. i \in Ids
    BY CoverFacts DEF Declared, TypeOK, Write
  <1>. QED
    BY <1>1, <1>2 DEF CoverInv, DeclaredInv

(* What is certified was idle, so nobody declares or writes meanwhile.        *)
LEMMA NobodyWrites ==
    ASSUME CoverInv, Next, control.active = 0
    PROVE  Holders = {} /\ source' = source
  <1>1. Holders = {}
    BY IdleLedger, CoverFacts
  <1>2. ASSUME NEW w \in Writers, Written(w) PROVE FALSE
    BY <1>1, <1>2 DEF Written, Holders, Holding
  <1>. QED
    BY <1>1, <1>2, SourceMoves, CoverFacts

(* A capture that is still the ledger's was the ledger's before the step, and *)
(* neither the ledger row nor the source has moved.                           *)
LEMMA CurrentStays ==
    ASSUME CoverInv, Next, NEW b \in Builders, Captured(b), build'[b].cap = build[b].cap, Current(b)'
    PROVE  Current(b) /\ control' = control /\ source' = source /\ control = build[b].cap
  <1>1. build[b].cap.etag <= control.etag /\ control.etag \in Nat /\ build[b].cap.etag \in Nat
    BY CoverFacts, Numbers DEF Past
  <1>2. ~ (control'.etag = control.etag + 1)
    BY <1>1 DEF Current
  <1>3. control' = control
    <2>1. ASSUME NEW c \in Builders, Certifies(c) PROVE control'.etag = control.etag + 1
      BY <2>1, CoverFacts DEF Certifies, TypeOK, Control
    <2>. QED
      BY <1>2, <2>1, LedgerMoves, CoverFacts DEF Advanced, Still
  <1>4. Current(b)
    BY <1>3 DEF Current
  <1>5. control = build[b].cap /\ control.active = 0
    BY <1>4, CoverFacts DEF Current, CaptureInv
  <1>. QED
    BY <1>3, <1>4, <1>5, NobodyWrites

(* Likewise for a capture whose revision is still the ledger's.               *)
LEMMA RevStays ==
    ASSUME CoverInv, Next, NEW b \in Builders, Captured(b), build'[b].cap = build[b].cap,
           control'.rev = build[b].cap.rev
    PROVE  control.rev = build[b].cap.rev /\ source' = source
  <1>1. build[b].cap.rev <= control.etag /\ control.etag \in Nat /\ build[b].cap.rev \in Nat
    BY CoverFacts, Numbers DEF Past
  <1>2. control'.rev # control.etag + 1
    BY <1>1
  <1>3. control'.rev = control.rev
    <2>1. ASSUME NEW c \in Builders, Certifies(c) PROVE control'.rev = control.rev
      BY <2>1, CoverFacts DEF Certifies, TypeOK, Control
    <2>. QED
      BY <1>2, <2>1, LedgerMoves, CoverFacts DEF Advanced, Still
  <1>4. control.active = 0
    BY <1>3, CoverFacts DEF CaptureInv
  <1>. QED
    BY <1>3, <1>4, NobodyWrites

(* A manifest that is trusted was so before the step, with the same rows, or  *)
(* is certified by it and holds every source row.                             *)
Entrusted ==
    /\ manifest.rows = source /\ UNCHANGED <<source, dirty, manifest>>

LEMMA CertifiesAll ==
    ASSUME CoverInv, NEW b \in Builders, Certifies(b), Trusted'
    PROVE  Entrusted
  <1>1. control'.base = build[b].base /\ manifest' = manifest
    BY CoverFacts DEF Certifies, TypeOK, Control
  <1>2. manifest.ver = build[b].base
    BY <1>1 DEF Trusted
  <1>3. build[b].pc = "cas" /\ Current(b)
    BY DEF Certifies, Current
  <1>4. manifest.rows = source
    BY <1>2, <1>3 DEF CoverInv, ContentInv, CasInv
  <1>. QED
    BY <1>4 DEF Certifies, Entrusted

LEMMA TrustMoves ==
    ASSUME CoverInv, Next, Trusted'
    PROVE  Entrusted \/ (Trusted /\ manifest'.rows = manifest.rows)
  <1>1. /\ manifest.etag \in Nat /\ control.base <= manifest.etag /\ manifest.ver \in Nat /\ control.base \in Nat
        /\ manifest \in Manifest
    BY CoverFacts, Numbers DEF VersionInv, TypeOK
  <1>2. CASE Advanced
    BY <1>2 DEF Advanced, Trusted
  <1>3. ASSUME NEW b \in Builders, Certifies(b) PROVE Entrusted
    BY <1>3, CertifiesAll
  <1>4. CASE Still
    <2>1. CASE manifest' = manifest
      BY <1>4, <2>1 DEF Still, Trusted
    <2>2. CASE Replaced
      BY <1>1, <1>4, <2>2 DEF Still, Trusted, Replaced
    <2>3. CASE Marked
      BY <1>1, <1>4, <2>3 DEF Still, Trusted, Marked, Manifest
    <2>. QED
      BY <2>1, <2>2, <2>3, ManifestMoves, CoverFacts
  <1>. QED
    BY <1>2, <1>3, <1>4, LedgerMoves, CoverFacts

(* A dirty row keeps its version, takes a new one, or is acknowledged at the  *)
(* version a build captured.                                                  *)
LEMMA DirtyMoves ==
    ASSUME CoverInv, Next, NEW i \in Ids
    PROVE  \/ dirty'[i] = dirty[i]
           \/ dirty'[i] = control.etag + 1
           \/ /\ dirty'[i] = 0 /\ dirty[i] # 0
              /\ \E b \in Builders : build[b].pc = "acking" /\ dirty[i] = build[b].ids[i]
  BY LedgerMoves, CoverFacts DEF Advanced, Certifies, Still

-----------------------------------------------------------------------------
(* Each part of the invariant is kept.                                        *)
LEMMA AckEnters ==
    ASSUME CoverInv, Next, NEW b \in Builders, build'[b].pc = "acking"
    PROVE  build'[b] = build[b] \/ (control.active = 0 /\ writer' = writer)
  <1>1. ASSUME Certify(b), build'[b].pc = "acking" PROVE control.active = 0 /\ writer' = writer
    <2>1. control.etag = build[b].cap.etag
      BY <1>1, CoverFacts DEF Certify, GiveUp, NoBuild, TypeOK
    <2>2. Captured(b)
      BY <1>1 DEF Certify, At, Captured
    <2>. QED
      BY <1>1, <2>1, <2>2, CoverFacts DEF Certify, CaptureInv
  <1>2. ASSUME DrainCheck(b), build'[b].pc = "acking" PROVE control.active = 0 /\ writer' = writer
    <2>1. ~Busy
      BY <1>2, CoverFacts DEF DrainCheck, Go, GiveUp, NoBuild, TypeOK, Build
    <2>. QED
      BY <1>2, <2>1, CoverFacts DEF DrainCheck, Busy, TypeOK, Control
  <1>. QED
    BY <1>1, <1>2, StageMoves, CoverFacts

LEMMA DeclaredStep ==
    ASSUME CoverInv, TypeOK', Next
    PROVE  DeclaredInv'
  <1>0. control.etag \in Nat /\ \A i \in Ids : dirty[i] \in Nat
    BY CoverFacts, Numbers
  <1>1. \A w \in Writers : Shape(w)' /\ (writer'[w].pc \in Holding => Declares(w))
    BY DeclareMoves, CoverFacts
  <1>2. ASSUME NEW w \in Writers, NEW i \in Declared(w)'
        PROVE  i \in Ids /\ writer'[w].pc \in Holding /\ Declares(w)
    BY <1>1, <1>2 DEF Declared, TypeOK, Write
  <1>3. ASSUME NEW w \in Writers, ~writer'[w].unsure, NEW i \in Declared(w)' PROVE dirty'[i] # 0
    <2>1. i \in Ids /\ Declares(w)
      BY <1>2
    <2>2. CASE dirty'[i] = control.etag + 1
      BY <2>2, <1>0
    <2>3. CASE i \in Declared(w)
      <3>1. dirty[i] # 0
        BY <1>3, <2>1, <2>3, DeclaredRows DEF Declares
      <3>2. ASSUME NEW b \in Builders, build[b].pc = "acking", dirty[i] = build[b].ids[i] PROVE FALSE
        BY <2>3, <3>1, <3>2 DEF CoverInv, DeclaredInv
      <3>. QED
        BY <2>1, <1>0, <3>1, <3>2, DirtyMoves
    <2>. QED
      BY <2>1, <2>2, <2>3 DEF Declares
  <1>4. ASSUME NEW w \in Writers, writer'[w].pc \in Holding, writer'[w].unsure PROVE control'.full
    <2>1. Declares(w)
      BY <1>1, <1>4
    <2>2. CASE writer[w].pc \in Holding
      <3>1. w \in Holders /\ control.full
        BY <1>4, <2>1, <2>2 DEF Declares, Holders, CoverInv, DeclaredInv
      <3>2. ASSUME NEW b \in Builders, Certifies(b) PROVE FALSE
        BY <3>1, <3>2, CertifiesIdle, CoverFacts
      <3>. QED
        BY <3>1, <3>2, LedgerMoves, CoverFacts DEF Advanced, Still
    <2>. QED
      BY <1>4, <2>1, <2>2 DEF Declares
  <1>5. ASSUME NEW w \in Writers, NEW b \in Builders, build'[b].pc = "acking", NEW i \in Declared(w)',
               build'[b].ids[i] # 0
        PROVE  dirty'[i] # build'[b].ids[i]
    <2>1. i \in Ids /\ Declares(w) /\ writer'[w].pc \in Holding
      BY <1>2
    <2>2. build'[b] = build[b]
      <3>1. CASE control.active = 0 /\ writer' = writer
        <4>1. w \in Holders
          BY <2>1, <3>1 DEF Holders
        <4>. QED
          BY <3>1, <4>1, IdleLedger, CoverFacts
      <3>. QED
        BY <1>5, <3>1, AckEnters
    <2>3. build[b].ids[i] <= control.etag /\ build[b].ids[i] \in Nat
      BY <2>1, CoverFacts, Numbers DEF Past
    <2>4. CASE dirty'[i] = control.etag + 1
      BY <2>2, <2>3, <2>4, <1>0
    <2>5. CASE i \in Declared(w)
      <3>1. dirty[i] # build[b].ids[i]
        BY <1>5, <2>2, <2>5 DEF CoverInv, DeclaredInv
      <3>. QED
        BY <1>5, <2>1, <2>2, <2>4, <3>1, DirtyMoves
    <2>. QED
      BY <2>1, <2>4, <2>5 DEF Declares
  <1>. QED
    BY <1>1, <1>3, <1>4, <1>5 DEF DeclaredInv, Holders

(* An incremental build starts from a trusted manifest and holds every dirty  *)
(* row of it.                                                                 *)
LEMMA OpenStep == ASSUME CoverInv, TypeOK', Next PROVE OpenInv'
  <1>. SUFFICES ASSUME NEW b \in Builders, build'[b].pc = "open", ~build'[b].full, Current(b)',
                       manifest'.ver = build'[b].prev, NEW i \in Ids
                PROVE  manifest'.rows[i] = source'[i] \/ build'[b].ids[i] # 0
    BY DEF OpenInv
  <1>1. CASE build'[b] = build[b]
    <2>1. Current(b) /\ source' = source
      BY <1>1, CurrentStays DEF Captured
    <2>2. build[b].prev <= manifest.etag /\ manifest.etag \in Nat /\ build[b].prev \in Nat
      BY CoverFacts, Numbers DEF Past
    <2>3. manifest'.rows = manifest.rows /\ manifest'.ver = manifest.ver
      <3>1. ~Replaced
        BY <1>1, <2>2 DEF Replaced
      <3>. QED
        BY <3>1, ManifestMoves, CoverFacts DEF Marked, TypeOK, Manifest
    <2>. QED
      BY <1>1, <2>1, <2>3 DEF CoverInv, ContentInv, OpenInv
  <1>2. CASE CaptureDirty(b)
    <2>1. PICK ids \in Captures : Verdict(b, ids)
      BY <1>2 DEF CaptureDirty, Verdict
    <2>. DEFINE more == ids # Dirty(dirty)
                full == build[b].cap.full \/ manifest.ver = 0 \/ manifest.ver # build[b].cap.base \/ more
    <2>2. /\ Unchanged(b)
          /\ build' = [build EXCEPT ![b].pc = "open", ![b].ids = Rows(ids),
                   ![b].more = more, ![b].full = full, ![b].prev = manifest.ver]
      <3>1. build'[b].pc \notin {"idle", "finish"}
        OBVIOUS
      <3>2. ~GiveUp(b) /\ ~Go(b, "finish")
        BY <3>1, CoverFacts DEF GiveUp, Go, NoBuild, TypeOK, Build
      <3>. QED
        BY <2>1, <3>2 DEF Verdict
    <2>3. build'[b].full = full /\ build'[b].ids = Rows(ids)
      BY <2>2, CoverFacts DEF TypeOK, Build
    <2>4. UNCHANGED <<source, control, dirty, manifest>> /\ Captured(b)
      BY <1>2 DEF CaptureDirty, ledgerVars, At, Captured
    <2>5. control = build[b].cap
      BY <2>2, <2>4, CoverFacts DEF Unchanged, CaptureInv
    <2>6. Trusted /\ ids = Dirty(dirty)
      BY <2>3, <2>5 DEF Trusted
    <2>7. manifest.rows[i] = source[i] \/ dirty[i] # 0
      BY <2>6 DEF CoverInv, ContentInv, CertifiedBaseCovers
    <2>8. dirty[i] # 0 => build'[b].ids[i] = dirty[i]
      BY <2>3, <2>6 DEF Rows, Dirty
    <2>. QED
      BY <2>4, <2>7, <2>8
  <1>. QED
    BY <1>1, <1>2, StageMoves, CoverFacts

(* What a build has read of the ledger's current revision is the source.      *)
LEMMA ReadStep == ASSUME CoverInv, TypeOK', Next PROVE ReadInv'
  <1>. SUFFICES ASSUME NEW b \in Builders, build'[b].pc \in {"read", "commit"}, Current(b)', NEW i \in Ids
                PROVE  build'[b].rows[i] = source'[i] \/ (build'[b].pc = "read" /\ i \in build'[b].todo)
    BY DEF ReadInv
  <1>0. build \in [Builders -> Build] /\ build[b] \in Build
    BY CoverFacts DEF TypeOK
  <1>1. CASE build'[b] = build[b]
    <2>1. Current(b) /\ source' = source
      BY <1>1, CurrentStays DEF Captured
    <2>. QED
      BY <1>1, <2>1 DEF CoverInv, ContentInv, ReadInv
  <1>2. CASE Open(b)
    <2>1. /\ build[b].full \/ manifest.ver = build[b].prev
          /\ build' = [build EXCEPT ![b].pc = "read", ![b].tag = manifest.etag,
                ![b].rows = IF build[b].full THEN Blank ELSE manifest.rows,
                ![b].todo = IF build[b].full THEN Ids ELSE Dirty(build[b].ids)]
      BY <1>0, <1>2 DEF Open, Go, Build
    <2>2. /\ build'[b].pc = "read" /\ build'[b].cap = build[b].cap
          /\ build'[b].rows = IF build[b].full THEN Blank ELSE manifest.rows
          /\ build'[b].todo = IF build[b].full THEN Ids ELSE Dirty(build[b].ids)
      BY <1>0, <2>1 DEF Build
    <2>3. UNCHANGED <<source, control>> /\ build[b].pc = "open"
      BY <1>2 DEF Open, ledgerVars, At
    <2>4. Current(b)
      BY <2>2, <2>3 DEF Current
    <2>5. ~build[b].full => manifest.rows[i] = source[i] \/ build[b].ids[i] # 0
      BY <2>1, <2>3, <2>4 DEF CoverInv, ContentInv, OpenInv
    <2>. QED
      BY <2>2, <2>3, <2>5 DEF Dirty
  <1>3. CASE ReadRow(b)
    <2>1. PICK j \in build[b].todo :
            build' = [build EXCEPT ![b].rows[j] = source[j], ![b].todo = @ \ {j}]
      BY <1>3 DEF ReadRow
    <2>2. /\ build'[b].pc = build[b].pc /\ build'[b].cap = build[b].cap
          /\ build'[b].rows = [build[b].rows EXCEPT ![j] = source[j]]
          /\ build'[b].todo = build[b].todo \ {j}
      BY <1>0, <2>1 DEF Build
    <2>3. UNCHANGED <<source, control>> /\ build[b].pc = "read" /\ build[b].rows \in Versions
      BY <1>0, <1>3 DEF ReadRow, ledgerVars, At, Build
    <2>4. build[b].rows[i] = source[i] \/ i \in build[b].todo
      BY <2>2, <2>3 DEF CoverInv, ContentInv, ReadInv, Current
    <2>. QED
      BY <2>2, <2>3, <2>4 DEF Versions
  <1>4. CASE Publish(b)
    <2>1. /\ build'[b].cap = build[b].cap /\ build'[b].rows = build[b].rows
          /\ UNCHANGED <<source, control>> /\ build[b].pc = "read" /\ build[b].todo = {}
      BY <1>0, <1>4 DEF Publish, Go, ledgerVars, At, Build
    <2>. QED
      BY <2>1 DEF CoverInv, ContentInv, ReadInv, Current
  <1>. QED
    BY <1>1, <1>2, <1>3, <1>4, StageMoves, CoverFacts

(* What the holder of the lease has committed nobody replaces: whoever could  *)
(* still commit read an older manifest.                                       *)
LEMMA BaseStep == ASSUME CoverInv, TypeOK', Next PROVE BaseInv'
  <1>. SUFFICES ASSUME NEW b \in Builders, build'[b].pc = "base", lock' = b
                PROVE  /\ Current(b)' => manifest'.rows = source'
                       /\ \A c \in Builders : build'[c].pc = "commit" => build'[c].tag < manifest'.etag
    BY DEF BaseInv
  <1>0. build \in [Builders -> Build] /\ source \in Versions /\ manifest \in Manifest /\ manifest.etag \in Nat
    BY CoverFacts, Numbers DEF TypeOK
  <1>1. lock = b
    BY LockMoves, CoverFacts
  <1>2. \A c \in Builders : build'[c].pc = "commit" => build'[c] = build[c]
    <2>. SUFFICES ASSUME NEW c \in Builders, build'[c].pc = "commit", Publish(c) PROVE FALSE
      BY StageMoves, CoverFacts
    <2>1. lock = c
      BY <1>0 DEF Publish, Go, Build
    <2>. QED
      BY <1>1, <2>1
  <1>3. \A c \in Builders : build[c].tag \in Nat /\ build[c].tag <= manifest.etag
    BY CoverFacts, Numbers DEF Past
  <1>4. CASE build'[b] = build[b]
    <2>1. \A c \in Builders : build[c].pc = "commit" => build[c].tag < manifest.etag
      BY <1>1, <1>4 DEF CoverInv, ContentInv, BaseInv
    <2>2. ~Replaced
      BY <1>0, <1>3, <2>1 DEF Replaced, Commit, At
    <2>3. manifest'.rows = manifest.rows /\ manifest'.etag \in Nat /\ manifest'.etag >= manifest.etag
      BY <1>0, <2>2, ManifestMoves, CoverFacts DEF Marked, Manifest
    <2>4. Current(b)' => manifest'.rows = source'
      BY <1>1, <1>4, <2>3, CurrentStays DEF Captured, CoverInv, ContentInv, BaseInv
    <2>. QED
      BY <1>0, <1>2, <1>3, <2>1, <2>3, <2>4
  <1>5. CASE Commit(b)
    <2>1. build[b].pc = "commit" /\ UNCHANGED <<source, control>> /\ build'[b].cap = build[b].cap
      BY <1>0, <1>5 DEF Commit, Go, ledgerVars, At, Build
    <2>2. manifest' = [etag |-> manifest.etag + 1, ver |-> manifest.etag + 1, rows |-> build[b].rows]
      BY <1>0, <1>5 DEF Commit, Go, Build
    <2>3. ASSUME Current(b)' PROVE manifest'.rows = source'
      <3>1. Current(b)
        BY <2>1, <2>3 DEF Current
      <3>2. \A i \in Ids : build[b].rows[i] = source[i]
        BY <2>1, <3>1 DEF CoverInv, ContentInv, ReadInv
      <3>3. build[b].rows \in [Ids -> Nat] /\ source \in [Ids -> Nat]
        BY <1>0 DEF Build, Versions
      <3>4. build[b].rows = source
        BY <3>2, <3>3
      <3>. QED
        BY <2>1, <2>2, <3>4
    <2>4. manifest'.etag = manifest.etag + 1
      BY <2>2
    <2>. QED
      BY <1>0, <1>2, <1>3, <2>3, <2>4
  <1>. QED
    BY <1>4, <1>5, StageMoves, CoverFacts

(* The base that is about to be certified is that manifest.                   *)
LEMMA CasStep == ASSUME CoverInv, TypeOK', Next PROVE CasInv'
  <1>. SUFFICES ASSUME NEW b \in Builders, build'[b].pc = "cas", Current(b)', manifest'.ver = build'[b].base
                PROVE  manifest'.rows = source'
    BY DEF CasInv
  <1>0. build \in [Builders -> Build]
    BY CoverFacts DEF TypeOK
  <1>1. CASE build'[b] = build[b]
    <2>1. Current(b) /\ source' = source
      BY <1>1, CurrentStays DEF Captured
    <2>2. build[b].base <= manifest.etag /\ manifest.etag \in Nat /\ build[b].base \in Nat
      BY CoverFacts, Numbers DEF Past
    <2>3. ~Replaced
      BY <1>1, <2>2 DEF Replaced
    <2>4. manifest'.rows = manifest.rows /\ manifest'.ver = manifest.ver
      BY <2>3, ManifestMoves, CoverFacts DEF Marked, TypeOK, Manifest
    <2>. QED
      BY <1>1, <2>1, <2>4 DEF CoverInv, ContentInv, CasInv
  <1>2. CASE ReadBase(b)
    <2>1. Unchanged(b) /\ lock = b
      BY <1>0, <1>2 DEF ReadBase, GiveUp, NoBuild
    <2>2. Current(b) /\ build[b].pc = "base" /\ UNCHANGED <<source, manifest>>
      BY <1>2, <2>1 DEF ReadBase, Unchanged, Current, At, ledgerVars
    <2>. QED
      BY <2>1, <2>2 DEF CoverInv, ContentInv, BaseInv
  <1>. QED
    BY <1>1, <1>2, StageMoves, CoverFacts

(* A build acknowledges, or drains, only while its capture is the revision.   *)
LEMMA CertifyEnters ==
    ASSUME CoverInv, NEW b \in Builders, Certify(b), build'[b].pc # "idle"
    PROVE  Certifies(b)
  <1>1. control.etag = build[b].cap.etag /\ build[b].pc = "cas"
    BY CoverFacts DEF Certify, GiveUp, NoBuild, At, TypeOK
  <1>2. build[b].cap = control
    BY <1>1, CoverFacts DEF CaptureInv, Captured
  <1>. QED
    BY <1>1, <1>2 DEF Certify, Certifies, operatorVars

LEMMA DrainStep == ASSUME CoverInv, TypeOK', Next PROVE DrainInv'
  <1>. SUFFICES ASSUME NEW b \in Builders, build'[b].pc \in {"acking", "drain", "drained"},
                       control'.rev = build'[b].cap.rev, Trusted'
                PROVE  manifest'.rows = source'
    BY DEF DrainInv
  <1>0. build \in [Builders -> Build] /\ build[b] \in Build
    BY CoverFacts DEF TypeOK
  <1>1. CASE Certify(b)
    BY <1>1, CertifyEnters, CertifiesAll DEF Entrusted
  <1>2. CASE build[b].pc \in {"acking", "drain", "drained"} /\ build'[b].cap = build[b].cap
    <2>1. control.rev = build[b].cap.rev /\ source' = source
      BY <1>2, RevStays DEF Captured
    <2>. QED
      BY <1>2, <2>1, TrustMoves DEF Entrusted, CoverInv, ContentInv, DrainInv
  <1>3. CASE DrainCheck(b) \/ DeleteDirty(b) \/ Drain(b)
    <2>1. build[b].pc \in {"acking", "drain", "drained"}
      BY <1>3 DEF DrainCheck, DeleteDirty, Drain, At
    <2>2. build'[b].cap = build[b].cap
      <3>1. DrainCheck(b) => build'[b].cap = build[b].cap
        BY <1>0 DEF DrainCheck, Go, GiveUp, NoBuild, Build
      <3>2. DeleteDirty(b) => build'[b].cap = build[b].cap
        BY <1>0 DEF DeleteDirty, Go, Build
      <3>3. Drain(b) => build'[b].cap = build[b].cap
        BY <1>0 DEF Drain, Build
      <3>. QED
        BY <1>3, <3>1, <3>2, <3>3
    <2>. QED
      BY <1>2, <2>1, <2>2
  <1>. QED
    BY <1>1, <1>2, <1>3, StageMoves, CoverFacts

(* A trusted manifest stays right where the rows are about to be forgotten:   *)
(* a writer that comes to such a row has given it a version of its own.       *)
LEMMA TrustedRows ==
    ASSUME CoverInv, Next, Trusted, NEW i \in Ids, source'[i] # source[i]
    PROVE  \E w \in Writers : i \in Declared(w) /\ dirty[i] # 0 /\ dirty' = dirty
  <1>1. PICK w \in Writers : Written(w)
    BY SourceMoves, CoverFacts
  <1>2. w \in Holders
    BY <1>1 DEF Written, Holders, Holding
  <1>3. ~writer[w].unsure
    BY <1>2 DEF Trusted, CoverInv, DeclaredInv
  <1>. QED
    BY <1>1, <1>3, DeclaredRows DEF Written

LEMMA AckStep == ASSUME CoverInv, TypeOK', Next PROVE AckInv'
  <1>. SUFFICES ASSUME NEW b \in Builders, build'[b].pc = "acking", Trusted', NEW i \in Ids,
                       build'[b].ids[i] # 0, dirty'[i] = build'[b].ids[i]
                PROVE  manifest'.rows[i] = source'[i]
    BY DEF AckInv
  <1>1. CASE Certify(b)
    BY <1>1, CertifyEnters, CertifiesAll DEF Entrusted
  <1>2. CASE DrainCheck(b)
    <2>1. /\ control.rev = build[b].cap.rev /\ build[b].pc = "drained"
          /\ UNCHANGED <<source, control, manifest>>
      BY <1>2, CoverFacts DEF DrainCheck, Go, GiveUp, NoBuild, ledgerVars, At, TypeOK, Build
    <2>2. Trusted
      BY <2>1 DEF Trusted
    <2>. QED
      BY <2>1, <2>2 DEF CoverInv, ContentInv, DrainInv
  <1>3. CASE build'[b] = build[b]
    <2>1. build[b].ids[i] <= control.etag /\ build[b].ids[i] \in Nat /\ control.etag \in Nat
      BY CoverFacts, Numbers DEF Past
    <2>2. dirty[i] = build[b].ids[i]
      BY <1>3, <2>1, DirtyMoves
    <2>3. CASE Entrusted
      BY <2>3 DEF Entrusted
    <2>4. CASE Trusted /\ manifest'.rows = manifest.rows
      <3>1. manifest.rows[i] = source[i]
        BY <1>3, <2>2, <2>4 DEF CoverInv, ContentInv, AckInv
      <3>2. source'[i] = source[i]
        <4>. SUFFICES ASSUME source'[i] # source[i] PROVE FALSE
          OBVIOUS
        <4>1. PICK w \in Writers : i \in Declared(w)
          BY <2>4, TrustedRows
        <4>. QED
          BY <1>3, <2>2, <4>1 DEF CoverInv, DeclaredInv
      <3>. QED
        BY <2>4, <3>1, <3>2
    <2>. QED
      BY <2>3, <2>4, TrustMoves
  <1>. QED
    BY <1>1, <1>2, <1>3, StageMoves, CoverFacts

LEMMA BaseCovered == ASSUME CoverInv, TypeOK', Next PROVE CertifiedBaseCovers'
  <1>. SUFFICES ASSUME Trusted', NEW i \in Ids PROVE manifest'.rows[i] = source'[i] \/ dirty'[i] # 0
    BY DEF CertifiedBaseCovers
  <1>1. CASE Entrusted
    BY <1>1 DEF Entrusted
  <1>2. CASE Trusted /\ manifest'.rows = manifest.rows
    <2>1. CASE source'[i] # source[i]
      BY <1>2, <2>1, TrustedRows
    <2>2. CASE source'[i] = source[i]
      <3>1. manifest.rows[i] = source[i] \/ dirty[i] # 0
        BY <1>2 DEF CoverInv, ContentInv, CertifiedBaseCovers
      <3>2. control.etag + 1 # 0
        BY CoverFacts, Numbers
      <3>3. ASSUME NEW b \in Builders, build[b].pc = "acking", dirty[i] = build[b].ids[i], dirty[i] # 0
            PROVE  manifest.rows[i] = source[i]
        BY <1>2, <3>3 DEF CoverInv, ContentInv, AckInv
      <3>. QED
        BY <1>2, <2>2, <3>1, <3>2, <3>3, DirtyMoves
    <2>. QED
      BY <2>1, <2>2
  <1>. QED
    BY <1>1, <1>2, TrustMoves

-----------------------------------------------------------------------------
(* Together.                                                                  *)
LEMMA CoverInit == Init => CoverInv
  <1>. SUFFICES ASSUME Init PROVE CoverInv
    OBVIOUS
  <1>1. LedgerInv /\ Visible /\ Settled
    BY LedgerInit
  <1>2. \A w \in Writers : writer[w] = NoWrite
    BY DEF Init
  <1>3. \A b \in Builders : build[b].pc = "idle"
    BY DEF Init, NoBuild
  <1>4. DeclaredInv
    BY <1>2, <1>3 DEF DeclaredInv, Shape, Declared, Holders, Holding, NoWrite
  <1>5. ~Trusted
    BY DEF Init, Trusted, NoControl
  <1>6. ContentInv
    BY <1>3, <1>5
      DEF ContentInv, OpenInv, ReadInv, BaseInv, CasInv, DrainInv, AckInv, CertifiedBaseCovers
  <1>. QED
    BY <1>1, <1>4, <1>6 DEF CoverInv

LEMMA CoverStep ==
    CoverInv /\ [Next]_vars /\ [\A w \in Writers : ~FinishResent(w)]_vars => CoverInv'
  <1>1. ASSUME CoverInv, Next, \A w \in Writers : ~FinishResent(w) PROVE CoverInv'
    <2>1. LedgerInv' /\ Visible' /\ Settled'
      BY <1>1, LedgerStep, VisibleKept DEF CoverInv
    <2>2. TypeOK'
      BY <2>1 DEF LedgerInv
    <2>3. DeclaredInv'
      BY <1>1, <2>2, DeclaredStep
    <2>4. ContentInv'
      BY <1>1, <2>2, OpenStep, ReadStep, BaseStep, CasStep, DrainStep, AckStep, BaseCovered
        DEF ContentInv
    <2>. QED
      BY <2>1, <2>3, <2>4 DEF CoverInv
  <1>2. ASSUME CoverInv, UNCHANGED vars PROVE CoverInv'
    <2>1. LedgerInv' /\ Visible' /\ Settled'
      BY <1>2, LedgerStep DEF CoverInv, Visible, Settled, vars
    <2>2. DeclaredInv'
      BY <1>2 DEF CoverInv, DeclaredInv, Shape, Declared, Holders, vars
    <2>3. ContentInv'
      BY <1>2 DEF CoverInv, ContentInv, OpenInv, ReadInv, BaseInv, CasInv, DrainInv, AckInv,
        CertifiedBaseCovers, Trusted, Current, vars
    <2>. QED
      BY <2>1, <2>2, <2>3 DEF CoverInv
  <1>3. [\A w \in Writers : ~FinishResent(w)]_vars /\ ~UNCHANGED vars => \A w \in Writers : ~FinishResent(w)
    OBVIOUS
  <1>. QED
    BY <1>1, <1>2, <1>3

(* A base that the next build may merge over holds every source row as it is, *)
(* but for rows whose dirty version is recorded: for every number of writers, *)
(* builders, rows, pages and capture limits, whatever stalls, crashes, lost   *)
(* leases, dirty touches and operator resets interleave.                      *)
THEOREM TrustedBaseIsRight == Spec /\ FinishAnswered => []CertifiedBaseCovers
  <1>1. CoverInv => CertifiedBaseCovers
    BY DEF CoverInv, ContentInv
  <1>. QED
    BY <1>1, CoverInit, CoverStep, PTL DEF Spec, FinishAnswered

=============================================================================
