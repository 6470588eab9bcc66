------------------------- MODULE UploadSessionProofs -------------------------
(***************************************************************************)
(* What UploadSession promises of one session, proved for every set of      *)
(* requests and replicas that may run at once and every number of requests  *)
(* and faults.                                                              *)
(*                                                                         *)
(* The argument.  A session only moves on: once taken it stays so, once     *)
(* over it stays over, and then its outbox stays relayed (Onward).  So what *)
(* a request or a visit read is still true when it acts on it, however long *)
(* that takes and whoever died in between, and SessionInv says what each    *)
(* step has read.  An entry is removed only by a request that handed a      *)
(* finished session on and by a visit that settles one: nothing is owed     *)
(* then (EntryStays), and nothing comes to be owed later except by an open  *)
(* whose entry was tracked first (DebtsGrow).  A write that was checked     *)
(* before the fence keeps its item: a stop waits for the finalize lease, or *)
(* behind a fence for its grace, and neither ends during the write          *)
(* (HeldStays).                                                             *)
(***************************************************************************)
EXTENDS UploadSession, TLAPS

(* A session that was opened, one that has ended or never will be opened, and
   what is still owed.                                                        *)
Taken == session.state \in {"open", "closed", "abandoned"}
Over == session.state \in {"closed", "abandoned", "absent"}
Owes == Open \/ outbox = "kept" \/ (session.lapsed /\ notice = "none")

(* Only a session that was opened has an item or a release.                   *)
ItemsTaken == item.outcome # "none" => Taken
QuietBefore == ~Taken => outbox = "none"
(* The finalization that a write was checked under: still held, and a fence
   that came after the check leaves it its grace.                             *)
Held ==
    /\ item.outcome \in {"reserved", "accepted"}
    /\ item.outcome = "reserved" => item.lease # "none" /\ (session.fenced => grace)

(* What a request and a visit know at each step.                              *)
RequestKnows(h) ==
    /\ At(h, "write") /\ ~handler[h].late => Held
    /\ At(h, "reread") => Taken
    /\ At(h, "create") /\ session.state = "none" => entry.there
    /\ At(h, "drive") => Ended
    /\ At(h, "finish") => Ended /\ outbox # "kept"
VisitKnows(r) ==
    /\ (Visiting(r, "claim") \/ Visiting(r, "seal")) /\ ~replica[r].absent => session.state # "none"
    /\ Visiting(r, "drive") => Over
    /\ Visiting(r, "settle") => Over /\ outbox # "kept"
RequestsKnow == \A h \in Handlers : RequestKnows(h)
VisitsKnow == \A r \in Replicas : VisitKnows(r)

(* The inductive invariant.                                                   *)
SessionInv == TypeOK /\ ItemsTaken /\ QuietBefore /\ RequestsKnow /\ VisitsKnow /\ NothingUnlisted

-----------------------------------------------------------------------------

(* The count of requests and faults stays a number.                            *)
LEMMA SpendTypes == ASSUME TypeOK, Spend PROVE spent' \in Nat
  BY DEF TypeOK, Spend

(* The values a request, a visit, the session and the entry take are typed.   *)
LEMMA RequestValues ==
    /\ NoRequest \in Requests
    /\ \A pc \in RequestSteps : [NoRequest EXCEPT !.pc = pc] \in Requests
    /\ \A pc \in RequestSteps, rev \in Nat, by \in Closers :
          [NoRequest EXCEPT !.pc = pc, !.rev = rev, !.by = by] \in Requests
    /\ \A q \in Requests, pc \in RequestSteps, rev \in Nat, by \in Closers, late \in BOOLEAN,
          saw \in States \cup Photos :
          /\ [q EXCEPT !.pc = pc] \in Requests
          /\ [q EXCEPT !.pc = pc, !.late = late] \in Requests
          /\ [q EXCEPT !.pc = pc, !.saw = saw] \in Requests
          /\ [q EXCEPT !.pc = pc, !.rev = rev, !.by = by] \in Requests
          /\ [q EXCEPT !.pc = pc, !.rev = rev] \in Requests
          /\ [q EXCEPT !.rev = rev, !.pc = pc] \in Requests
  <1>1. NoRequest \in Requests
    BY DEF NoRequest, Requests, RequestSteps, Closers, States
  <1>2. ASSUME NEW q \in Requests, NEW pc \in RequestSteps, NEW rev \in Nat, NEW by \in Closers,
               NEW late \in BOOLEAN, NEW saw \in States \cup Photos
        PROVE  /\ [q EXCEPT !.pc = pc] \in Requests
               /\ [q EXCEPT !.pc = pc, !.late = late] \in Requests
               /\ [q EXCEPT !.pc = pc, !.saw = saw] \in Requests
               /\ [q EXCEPT !.pc = pc, !.rev = rev, !.by = by] \in Requests
               /\ [q EXCEPT !.pc = pc, !.rev = rev] \in Requests
               /\ [q EXCEPT !.rev = rev, !.pc = pc] \in Requests
    BY DEF Requests
  <1>3. \A pc \in RequestSteps : [NoRequest EXCEPT !.pc = pc] \in Requests
    BY <1>1 DEF Requests
  <1>4. \A pc \in RequestSteps, rev \in Nat, by \in Closers :
            [NoRequest EXCEPT !.pc = pc, !.rev = rev, !.by = by] \in Requests
    BY <1>1 DEF Requests
  <1>. QED  BY <1>1, <1>2, <1>3, <1>4

(* So are those of a visit.                                                    *)
LEMMA VisitValues ==
    /\ NoVisit \in Visits
    /\ \A pc \in VisitSteps, rev \in Nat :
          /\ [NoVisit EXCEPT !.pc = pc] \in Visits
          /\ [NoVisit EXCEPT !.pc = pc, !.rev = rev] \in Visits
    /\ \A v \in Visits, pc \in VisitSteps, absent \in BOOLEAN :
          /\ [v EXCEPT !.pc = pc] \in Visits
          /\ [v EXCEPT !.pc = pc, !.absent = absent] \in Visits
  <1>1. NoVisit \in Visits
    BY DEF NoVisit, Visits, VisitSteps
  <1>. QED  BY <1>1 DEF Visits

(* The updates of the session row keep its type.                               *)
LEMMA SessionValues ==
    ASSUME NEW s \in Sessions
    PROVE  /\ s.rev \in Nat
           /\ [s EXCEPT !.rev = @ + 1] \in Sessions
           /\ [s EXCEPT !.stopping = TRUE] \in Sessions
           /\ [s EXCEPT !.stopping = TRUE, !.rev = @ + 1] \in Sessions
           /\ [s EXCEPT !.stopping = TRUE, !.fenced = TRUE] \in Sessions
           /\ [s EXCEPT !.stopping = TRUE, !.fenced = TRUE, !.lapsed = TRUE] \in Sessions
           /\ [s EXCEPT !.state = "open", !.rev = 1] \in Sessions
           /\ [s EXCEPT !.state = "absent", !.fenced = TRUE] \in Sessions
           /\ \A state \in States, by \in Closers : [s EXCEPT !.state = state, !.by = by] \in Sessions
  <1>1. "open" \in States /\ "absent" \in States
    BY DEF States
  <1>2. ASSUME NEW state \in States, NEW by \in Closers
        PROVE  [s EXCEPT !.state = state, !.by = by] \in Sessions
    BY DEF Sessions
  <1>3. s.rev \in Nat /\ s.rev + 1 \in Nat
    BY DEF Sessions
  <1>6. \A n \in Nat : /\ [s EXCEPT !.rev = n] \in Sessions
                       /\ [s EXCEPT !.stopping = TRUE, !.rev = n] \in Sessions
    BY DEF Sessions
  <1>4. /\ [s EXCEPT !.stopping = TRUE] \in Sessions
        /\ [s EXCEPT !.stopping = TRUE, !.fenced = TRUE] \in Sessions
        /\ [s EXCEPT !.stopping = TRUE, !.fenced = TRUE, !.lapsed = TRUE] \in Sessions
    BY DEF Sessions
  <1>5. /\ [s EXCEPT !.state = "open", !.rev = 1] \in Sessions
        /\ [s EXCEPT !.state = "absent", !.fenced = TRUE] \in Sessions
    BY <1>1 DEF Sessions
  <1>. QED  BY <1>2, <1>3, <1>4, <1>5, <1>6

(* The updates of the directory entry keep its type.                           *)
LEMMA EntryValues ==
    ASSUME NEW e \in Entries, NEW r \in Replicas
    PROVE  /\ [e EXCEPT !.young = FALSE] \in Entries
           /\ [e EXCEPT !.live = FALSE] \in Entries
           /\ [e EXCEPT !.token = r, !.live = TRUE] \in Entries
           /\ [e EXCEPT !.token = Nobody, !.live = FALSE] \in Entries
  BY DEF Entries

(* An absent entry and one just tracked are entries.                           *)
LEMMA FreshEntries ==
    /\ NoEntry \in Entries
    /\ [NoEntry EXCEPT !.there = TRUE] \in Entries
    /\ [NoEntry EXCEPT !.there = TRUE, !.young = TRUE] \in Entries
  BY DEF NoEntry, Entries

(* A request that answers, hands on or goes on leaves the table typed.         *)
LEMMA HandlerTypes ==
    ASSUME TypeOK, NEW h \in Handlers
    PROVE  /\ handler[h] \in Requests
           /\ \A q \in Requests : [handler EXCEPT ![h] = q] \in [Handlers -> Requests]
           /\ \A q \in Requests : Become(h, q) => handler' \in [Handlers -> Requests]
           /\ Answer(h) => handler' \in [Handlers -> Requests]
           /\ HandOn(h) => handler' \in [Handlers -> Requests]
           /\ \A pc \in RequestSteps : Go(h, pc) => handler' \in [Handlers -> Requests]
  <1>1. "drive" \in RequestSteps
    BY DEF RequestSteps
  <1>2. \A q \in Requests : [handler EXCEPT ![h] = q] \in [Handlers -> Requests]
    BY DEF TypeOK
  <1>3. handler[h] \in Requests
    BY DEF TypeOK
  <1>4. ASSUME NEW pc \in RequestSteps, Go(h, pc)  PROVE handler' \in [Handlers -> Requests]
    <2>1. handler' = [handler EXCEPT ![h] = [handler[h] EXCEPT !.pc = pc]]
      BY <1>4 DEF Go, TypeOK
    <2>2. [handler[h] EXCEPT !.pc = pc] \in Requests
      BY <1>3 DEF Requests
    <2>. QED  BY <1>2, <2>1, <2>2
  <1>. QED  BY <1>1, <1>2, <1>3, <1>4, RequestValues DEF Become, Answer, HandOn

(* So does a visit that leaves or moves.                                       *)
LEMMA ReplicaTypes ==
    ASSUME TypeOK, NEW r \in Replicas
    PROVE  /\ replica[r] \in Visits
           /\ \A v \in Visits : [replica EXCEPT ![r] = v] \in [Replicas -> Visits]
           /\ Leave(r) => replica' \in [Replicas -> Visits]
           /\ \A pc \in VisitSteps : Move(r, pc) => replica' \in [Replicas -> Visits]
           /\ \A pc \in VisitSteps : StopAt(r, pc) /\ session' \in Sessions => replica' \in [Replicas -> Visits]
  <1>2. \A v \in Visits : [replica EXCEPT ![r] = v] \in [Replicas -> Visits]
    BY DEF TypeOK
  <1>3. replica[r] \in Visits
    BY DEF TypeOK
  <1>4. session' \in Sessions => session'.rev \in Nat
    BY SessionValues
  <1>. QED  BY <1>2, <1>3, <1>4, VisitValues DEF Leave, Move, StopAt

(* So does a request that keeps what it read.                                  *)
LEMMA HandlerUpdates ==
    ASSUME TypeOK, NEW h \in Handlers, NEW pc \in RequestSteps
    PROVE  /\ \A late \in BOOLEAN : [handler EXCEPT ![h].pc = pc, ![h].late = late] \in [Handlers -> Requests]
           /\ \A saw \in States \cup Photos :
                 [handler EXCEPT ![h].pc = pc, ![h].saw = saw] \in [Handlers -> Requests]
           /\ \A rev \in Nat :
                 /\ [handler EXCEPT ![h].pc = pc, ![h].rev = rev] \in [Handlers -> Requests]
                 /\ [handler EXCEPT ![h].rev = rev, ![h].pc = pc] \in [Handlers -> Requests]
                 /\ \A by \in Closers :
                       [handler EXCEPT ![h].pc = pc, ![h].rev = rev, ![h].by = by] \in [Handlers -> Requests]
  <1>1. \A late \in BOOLEAN : [handler EXCEPT ![h].pc = pc, ![h].late = late] \in [Handlers -> Requests]
    BY DEF TypeOK, Requests
  <1>2. ASSUME NEW saw \in States \cup Photos
        PROVE  [handler EXCEPT ![h].pc = pc, ![h].saw = saw] \in [Handlers -> Requests]
    BY DEF TypeOK, Requests
  <1>3. ASSUME NEW rev \in Nat
        PROVE  /\ [handler EXCEPT ![h].pc = pc, ![h].rev = rev] \in [Handlers -> Requests]
               /\ [handler EXCEPT ![h].rev = rev, ![h].pc = pc] \in [Handlers -> Requests]
    BY DEF TypeOK, Requests
  <1>4. ASSUME NEW rev \in Nat, NEW by \in Closers
        PROVE  [handler EXCEPT ![h].pc = pc, ![h].rev = rev, ![h].by = by] \in [Handlers -> Requests]
    BY DEF TypeOK, Requests
  <1>. QED  BY <1>1, <1>2, <1>3, <1>4

(* The values a request reads from the rows are those its fields hold.         *)
LEMMA RowValues ==
    ASSUME TypeOK
    PROVE  /\ session.state \in States \cup Photos /\ photo \in States \cup Photos
           /\ session.fenced \in BOOLEAN /\ session.rev \in Nat
           /\ \A h \in Handlers : handler[h].by \in Closers
  <1>1. \A h \in Handlers : handler[h].by \in Closers
    BY HandlerTypes DEF Requests
  <1>2. session.state \in States /\ session.fenced \in BOOLEAN /\ session.rev \in Nat
    BY DEF TypeOK, Sessions
  <1>. QED  BY <1>1, <1>2 DEF TypeOK

(* The steps, closers and states the actions name.                             *)
LEMMA Names ==
    /\ {"idle", "track", "reseal", "create", "reread", "read", "check", "write", "resolve",
        "close", "page", "clean", "delete", "end", "drive", "finish"} \subseteq RequestSteps
    /\ {"idle", "claim", "seal", "page", "end", "drive", "settle", "release"} \subseteq VisitSteps
    /\ {"auto", "browser", "abandon"} \subseteq Closers /\ {"closed", "abandoned"} \subseteq States
  BY DEF RequestSteps, VisitSteps, Closers, States

(* The end of a resolution keeps the table typed.                              *)
LEMMA ResolvedTypes ==
    ASSUME TypeOK, session' \in Sessions, NEW h \in Handlers, CloseResolved(h)
    PROVE  handler' \in [Handlers -> Requests]
  <1>1. session'.rev \in Nat
    BY SessionValues
  <1>. QED  BY <1>1, HandlerTypes, RequestValues DEF CloseResolved, Become, RequestSteps, Closers

(* Every step keeps every row and table typed.                                 *)
LEMMA TypeStep == TypeOK /\ [Next]_vars => TypeOK'
  <1>. SUFFICES ASSUME TypeOK, [Next]_vars PROVE TypeOK'
    OBVIOUS
  <1>. USE DEF rowVars, directoryVars, worldVars
  <1>1. ASSUME Register  PROVE TypeOK'
    <2>1. item' \in Items
      BY <1>1 DEF Register, Items, TypeOK
    <2>2. session' \in Sessions
      BY <1>1, SessionValues DEF Register, TypeOK
    <2>. QED  BY <1>1, <2>1, <2>2 DEF Register, TypeOK
  <1>2. ASSUME InitUpload  PROVE TypeOK'
    <2>1. item' \in Items
      BY <1>2 DEF InitUpload, Items, TypeOK
    <2>2. photo' \in Photos
      BY <1>2 DEF InitUpload, Photos
    <2>. QED  BY <1>2, <2>1, <2>2 DEF InitUpload, TypeOK
  <1>3. ASSUME Acknowledge  PROVE TypeOK'
    BY <1>3 DEF Acknowledge, TypeOK
  <1>4. ASSUME LeaseLapses  PROVE TypeOK'
    BY <1>4 DEF LeaseLapses, TypeOK
  <1>5. ASSUME GraceEnds  PROVE TypeOK'
    BY <1>5 DEF GraceEnds, TypeOK
  <1>6. ASSUME FinalizeLeaseRuns  PROVE TypeOK'
    <2>1. item' \in Items
      BY <1>6 DEF FinalizeLeaseRuns, Items, TypeOK
    <2>. QED  BY <1>6, <2>1 DEF FinalizeLeaseRuns, TypeOK
  <1>7. ASSUME EntryAges  PROVE TypeOK'
    <2>1. entry' \in Entries
      BY <1>7 DEF EntryAges, Entries, TypeOK
    <2>. QED  BY <1>7, <2>1 DEF EntryAges, TypeOK
  <1>8. ASSUME ClaimLapses  PROVE TypeOK'
    <2>1. entry' \in Entries
      BY <1>8 DEF ClaimLapses, Entries, TypeOK
    <2>2. spent' \in Nat
      BY <1>8, SpendTypes DEF ClaimLapses, TypeOK
    <2>. QED  BY <1>8, <2>1, <2>2 DEF ClaimLapses, TypeOK
  <1>9. ASSUME Pause  PROVE TypeOK'
    <2>1. spent' \in Nat
      BY <1>9, SpendTypes DEF Pause
    <2>. QED  BY <1>9, <2>1 DEF Pause, TypeOK
  <1>10. ASSUME Resume  PROVE TypeOK'
    BY <1>10 DEF Resume, TypeOK
  <1>11. ASSUME NEW h \in Handlers, OpenRead(h)  PROVE TypeOK'
    <2>1. handler' \in [Handlers -> Requests]
      BY <1>11, Names, RowValues, HandlerUpdates DEF OpenRead
    <2>2. spent' \in Nat
      BY <1>11, SpendTypes DEF OpenRead, Begin
    <2>. QED  BY <1>11, <2>1, <2>2 DEF OpenRead, TypeOK
  <1>12. ASSUME NEW h \in Handlers, OpenTrack(h)  PROVE TypeOK'
    <2>1. handler' \in [Handlers -> Requests]
      BY <1>12, HandlerTypes, RequestValues DEF OpenTrack, RequestSteps, Become
    <2>2. entry' \in Entries
      BY <1>12, FreshEntries DEF OpenTrack, Track, TypeOK
    <2>3. current' \subseteq Replicas
      BY <1>12 DEF OpenTrack, Track, TypeOK
    <2>. QED  BY <1>12, <2>1, <2>2, <2>3 DEF OpenTrack, TypeOK
  <1>13. ASSUME NEW h \in Handlers, OpenReseal(h)  PROVE TypeOK'
    <2>1. handler' \in [Handlers -> Requests]
      BY <1>13, HandlerTypes DEF OpenReseal, RequestSteps
    <2>2. session' \in Sessions
      BY <1>13, SessionValues DEF OpenReseal, SealExpired, TypeOK
    <2>3. grace' \in BOOLEAN
      BY <1>13 DEF OpenReseal, SealExpired, TypeOK
    <2>. QED  BY <1>13, <2>1, <2>2, <2>3 DEF OpenReseal, TypeOK
  <1>14. ASSUME NEW h \in Handlers, OpenSession(h)  PROVE TypeOK'
    <2>1. handler' \in [Handlers -> Requests]
      BY <1>14, HandlerTypes DEF OpenSession, RequestSteps
    <2>2. session' \in Sessions
      BY <1>14, SessionValues DEF OpenSession, TypeOK
    <2>3. lease' \in BOOLEAN
      BY <1>14 DEF OpenSession, TypeOK
    <2>. QED  BY <1>14, <2>1, <2>2, <2>3 DEF OpenSession, TypeOK
  <1>15. ASSUME NEW h \in Handlers, Admit(h)  PROVE TypeOK'
    <2>1. handler' \in [Handlers -> Requests]
      BY <1>15, HandlerTypes DEF Admit, RequestSteps
    <2>2. item' \in Items
      BY <1>15 DEF Admit, Items, TypeOK
    <2>3. lease' \in BOOLEAN
      BY <1>15 DEF Admit, TypeOK
    <2>4. spent' \in Nat
      BY <1>15, SpendTypes DEF Admit, Begin
    <2>. QED  BY <1>15, <2>1, <2>2, <2>3, <2>4 DEF Admit, TypeOK
  <1>16. ASSUME NEW h \in Handlers, ReadPhoto(h)  PROVE TypeOK'
    <2>1. handler' \in [Handlers -> Requests]
      <3>1. CASE Checked
        <4>1. handler' = [handler EXCEPT ![h].pc = "check", ![h].saw = photo]
          BY <1>16, <3>1 DEF ReadPhoto
        <4>. QED  BY <4>1, Names, RowValues, HandlerUpdates
      <3>2. CASE ~Checked
        BY <1>16, <3>2, HandlerTypes DEF ReadPhoto
      <3>. QED  BY <3>1, <3>2
    <2>. QED  BY <1>16, <2>1 DEF ReadPhoto, TypeOK
  <1>17. ASSUME NEW h \in Handlers, CheckFinalization(h)  PROVE TypeOK'
    <2>1. handler' \in [Handlers -> Requests]
      <3>1. CASE Checked
        <4>1. handler' = [handler EXCEPT ![h].pc = "write", ![h].late = session.fenced]
          BY <1>17, <3>1 DEF CheckFinalization
        <4>. QED  BY <4>1, Names, RowValues, HandlerUpdates
      <3>2. CASE ~Checked
        BY <1>17, <3>2, HandlerTypes DEF CheckFinalization
      <3>. QED  BY <3>1, <3>2
    <2>. QED  BY <1>17, <2>1 DEF CheckFinalization, TypeOK
  <1>18. ASSUME NEW h \in Handlers, WritePhoto(h)  PROVE TypeOK'
    <2>1. handler' \in [Handlers -> Requests]
      BY <1>18, HandlerTypes, RequestValues DEF WritePhoto, RequestSteps, Become
    <2>2. photo' \in Photos
      BY <1>18 DEF WritePhoto, Photos, TypeOK
    <2>. QED  BY <1>18, <2>1, <2>2 DEF WritePhoto, TypeOK
  <1>19. ASSUME NEW h \in Handlers, ResolveSource(h)  PROVE TypeOK'
    <2>1. session' \in Sessions
      BY <1>19, SessionValues DEF ResolveSource, Accept, TypeOK
    <2>2. item' \in Items
      BY <1>19 DEF ResolveSource, Items, Accept, TypeOK
    <2>3. lease' \in BOOLEAN
      BY <1>19 DEF ResolveSource, Accept, TypeOK
    <2>4. handler' \in [Handlers -> Requests]
      BY <1>19, <2>1, ResolvedTypes, HandlerTypes DEF ResolveSource
    <2>. QED  BY <1>19, <2>1, <2>2, <2>3, <2>4 DEF ResolveSource, TypeOK
  <1>20. ASSUME NEW h \in Handlers, Reread(h)  PROVE TypeOK'
    <2>1. session' \in Sessions
      BY <1>20 DEF Reread, TypeOK, rowVars
    <2>2. handler' \in [Handlers -> Requests]
      BY <1>20, <2>1, ResolvedTypes DEF Reread
    <2>. QED  BY <1>20, <2>1, <2>2 DEF Reread, TypeOK
  <1>21. ASSUME NEW h \in Handlers, RequestClose(h)  PROVE TypeOK'
    <2>1. handler' \in [Handlers -> Requests]
      BY <1>21, Names, RowValues, HandlerUpdates DEF RequestClose
    <2>2. spent' \in Nat
      BY <1>21, SpendTypes DEF RequestClose, Begin
    <2>. QED  BY <1>21, <2>1, <2>2 DEF RequestClose, TypeOK
  <1>22. ASSUME NEW h \in Handlers, CloseIntake(h)  PROVE TypeOK'
    <2>1. handler' \in [Handlers -> Requests]
      BY <1>22, HandlerTypes DEF CloseIntake
    <2>2. session' \in Sessions
      <3>1. [session EXCEPT !.state = "closed", !.by = handler[h].by] \in Sessions
        BY Names, RowValues, SessionValues DEF TypeOK
      <3>. QED  BY <1>22, <3>1 DEF CloseIntake, CloseAs, TypeOK
    <2>3. outbox' \in {"none", "kept", "sent"}
      BY <1>22 DEF CloseIntake, TypeOK, CloseAs
    <2>. QED  BY <1>22, <2>1, <2>2, <2>3 DEF CloseIntake, TypeOK
  <1>23. ASSUME NEW h \in Handlers, RequestStop(h)  PROVE TypeOK'
    <2>1. handler' \in [Handlers -> Requests]
      <3>1. [handler EXCEPT ![h].pc = "page", ![h].rev = session.rev] \in [Handlers -> Requests]
        BY Names, RowValues, HandlerUpdates
      <3>. QED  BY <1>23, <3>1 DEF RequestStop, TypeOK
    <2>2. session' \in Sessions
      BY <1>23, SessionValues DEF RequestStop, Tombstone, TypeOK
    <2>3. grace' \in BOOLEAN
      BY <1>23 DEF RequestStop, TypeOK
    <2>4. spent' \in Nat
      BY <1>23, SpendTypes DEF RequestStop, Begin
    <2>. QED  BY <1>23, <2>1, <2>2, <2>3, <2>4 DEF RequestStop, TypeOK
  <1>24. ASSUME NEW h \in Handlers, StopPage(h)  PROVE TypeOK'
    <2>1. session' \in Sessions
      BY <1>24, SessionValues DEF StopPage, AbandonPage, TypeOK
    <2>2. item' \in Items
      BY <1>24 DEF StopPage, AbandonPage, Items, TypeOK
    <2>3. handler' \in [Handlers -> Requests]
      <3>1. session'.rev \in Nat
        BY <2>1, SessionValues
      <3>2. \A pc \in {"clean", "end"} :
                [handler EXCEPT ![h].rev = session'.rev, ![h].pc = pc] \in [Handlers -> Requests]
        BY <3>1, Names, HandlerUpdates
      <3>3. [handler EXCEPT ![h].rev = session'.rev, ![h].pc = IF item.outcome = "reserved" THEN "clean" ELSE "end"]
              \in [Handlers -> Requests]
        BY <3>2
      <3>. QED  BY <1>24, <3>3, HandlerTypes DEF StopPage
    <2>. QED  BY <1>24, <2>1, <2>2, <2>3 DEF StopPage, TypeOK
  <1>25. ASSUME NEW h \in Handlers, CleanRead(h)  PROVE TypeOK'
    <2>1. handler' \in [Handlers -> Requests]
      BY <1>25, HandlerTypes DEF CleanRead, RequestSteps
    <2>. QED  BY <1>25, <2>1 DEF CleanRead, TypeOK
  <1>26. ASSUME NEW h \in Handlers, CleanDelete(h)  PROVE TypeOK'
    <2>1. handler' \in [Handlers -> Requests]
      BY <1>26, HandlerTypes DEF CleanDelete, RequestSteps
    <2>2. photo' \in Photos
      BY <1>26 DEF CleanDelete, Photos
    <2>. QED  BY <1>26, <2>1, <2>2 DEF CleanDelete, TypeOK
  <1>27. ASSUME NEW h \in Handlers, StopClose(h)  PROVE TypeOK'
    <2>1. handler' \in [Handlers -> Requests]
      BY <1>27, HandlerTypes DEF StopClose
    <2>2. session' \in Sessions
      BY <1>27, SessionValues DEF StopClose, CloseAs, States, Closers, TypeOK
    <2>3. outbox' \in {"none", "kept", "sent"}
      BY <1>27 DEF StopClose, TypeOK, CloseAs
    <2>. QED  BY <1>27, <2>1, <2>2, <2>3 DEF StopClose, TypeOK
  <1>28. ASSUME NEW h \in Handlers, Drive(h)  PROVE TypeOK'
    <2>1. handler' \in [Handlers -> Requests]
      BY <1>28, HandlerTypes DEF Drive, RequestSteps
    <2>2. outbox' \in {"none", "kept", "sent"}
      BY <1>28 DEF Drive, TypeOK, Relay
    <2>. QED  BY <1>28, <2>1, <2>2 DEF Drive, TypeOK
  <1>29. ASSUME NEW h \in Handlers, Finish(h)  PROVE TypeOK'
    <2>1. handler' \in [Handlers -> Requests]
      BY <1>29, HandlerTypes DEF Finish
    <2>2. entry' \in Entries
      BY <1>29, FreshEntries DEF Finish, TypeOK
    <2>3. current' \subseteq Replicas
      BY <1>29 DEF Finish, TypeOK
    <2>. QED  BY <1>29, <2>1, <2>2, <2>3 DEF Finish, TypeOK
  <1>30. ASSUME NEW h \in Handlers, RequestDies(h)  PROVE TypeOK'
    <2>1. handler' \in [Handlers -> Requests]
      BY <1>30, HandlerTypes DEF RequestDies
    <2>2. spent' \in Nat
      BY <1>30, SpendTypes DEF RequestDies
    <2>. QED  BY <1>30, <2>1, <2>2 DEF RequestDies, TypeOK
  <1>31. ASSUME NEW r \in Replicas, Visit(r)  PROVE TypeOK'
    <2>1. replica' \in [Replicas -> Visits]
      BY <1>31, ReplicaTypes, VisitValues DEF Visit, VisitSteps
    <2>2. current' \subseteq Replicas
      BY <1>31 DEF Visit, TypeOK
    <2>. QED  BY <1>31, <2>1, <2>2 DEF Visit, TypeOK
  <1>32. ASSUME NEW r \in Replicas, Claim(r)  PROVE TypeOK'
    <2>1. replica' \in [Replicas -> Visits]
      <3>1. [replica EXCEPT ![r].pc = "seal"] \in [Replicas -> Visits]
        BY Names DEF TypeOK, Visits
      <3>. QED  BY <1>32, <3>1, ReplicaTypes DEF Claim
    <2>2. entry' \in Entries
      <3>1. [entry EXCEPT !.token = r, !.live = TRUE] \in Entries
        BY EntryValues DEF TypeOK
      <3>. QED  BY <1>32, <3>1 DEF Claim, TypeOK
    <2>3. current' \subseteq Replicas
      BY <1>32 DEF Claim, TypeOK
    <2>. QED  BY <1>32, <2>1, <2>2, <2>3 DEF Claim, TypeOK
  <1>33. ASSUME NEW r \in Replicas, Seal(r)  PROVE TypeOK'
    <2>1. session' \in Sessions
      BY <1>33, SessionValues DEF Seal, Tombstone, SealExpired, TypeOK
    <2>2. grace' \in BOOLEAN
      BY <1>33 DEF Seal, SealExpired, TypeOK
    <2>3. replica' \in [Replicas -> Visits]
      BY <1>33, <2>1, ReplicaTypes DEF Seal, VisitSteps
    <2>. QED  BY <1>33, <2>1, <2>2, <2>3 DEF Seal, TypeOK
  <1>34. ASSUME NEW r \in Replicas, VisitPage(r)  PROVE TypeOK'
    <2>1. session' \in Sessions
      BY <1>34, SessionValues DEF VisitPage, AbandonPage, TypeOK
    <2>2. item' \in Items
      BY <1>34 DEF VisitPage, AbandonPage, Items, TypeOK
    <2>3. replica' \in [Replicas -> Visits]
      BY <1>34, <2>1, ReplicaTypes DEF VisitPage, VisitSteps
    <2>. QED  BY <1>34, <2>1, <2>2, <2>3 DEF VisitPage, TypeOK
  <1>35. ASSUME NEW r \in Replicas, VisitClose(r)  PROVE TypeOK'
    <2>1. session' \in Sessions
      BY <1>35, SessionValues DEF VisitClose, CloseAs, States, Closers, TypeOK
    <2>2. outbox' \in {"none", "kept", "sent"}
      BY <1>35 DEF VisitClose, TypeOK, CloseAs
    <2>3. replica' \in [Replicas -> Visits]
      BY <1>35, ReplicaTypes DEF VisitClose, VisitSteps
    <2>. QED  BY <1>35, <2>1, <2>2, <2>3 DEF VisitClose, TypeOK
  <1>36. ASSUME NEW r \in Replicas, VisitDrive(r)  PROVE TypeOK'
    <2>1. outbox' \in {"none", "kept", "sent"}
      BY <1>36 DEF VisitDrive, TypeOK, Relay
    <2>2. replica' \in [Replicas -> Visits]
      BY <1>36, ReplicaTypes DEF VisitDrive, VisitSteps
    <2>. QED  BY <1>36, <2>1, <2>2 DEF VisitDrive, TypeOK
  <1>37. ASSUME NEW r \in Replicas, Settle(r)  PROVE TypeOK'
    <2>1. replica' \in [Replicas -> Visits]
      BY <1>37, ReplicaTypes DEF Settle, VisitSteps
    <2>2. entry' \in Entries
      BY <1>37, FreshEntries DEF Settle, TypeOK
    <2>3. current' \subseteq Replicas
      BY <1>37 DEF Settle, TypeOK
    <2>4. notice' \in {"none", "unread", "read"}
      BY <1>37 DEF Settle, TypeOK
    <2>. QED  BY <1>37, <2>1, <2>2, <2>3, <2>4 DEF Settle, TypeOK
  <1>38. ASSUME NEW r \in Replicas, Release(r)  PROVE TypeOK'
    <2>1. replica' \in [Replicas -> Visits]
      BY <1>38, ReplicaTypes DEF Release, VisitSteps
    <2>2. entry' \in Entries
      BY <1>38, EntryValues DEF Release, TypeOK
    <2>3. current' \subseteq Replicas
      BY <1>38 DEF Release, TypeOK
    <2>. QED  BY <1>38, <2>1, <2>2, <2>3 DEF Release, TypeOK
  <1>39. ASSUME NEW r \in Replicas, VisitDies(r)  PROVE TypeOK'
    <2>1. replica' \in [Replicas -> Visits]
      BY <1>39, ReplicaTypes DEF VisitDies, VisitSteps
    <2>2. current' \subseteq Replicas
      BY <1>39 DEF VisitDies, TypeOK
    <2>3. spent' \in Nat
      BY <1>39, SpendTypes DEF VisitDies
    <2>. QED  BY <1>39, <2>1, <2>2, <2>3 DEF VisitDies, TypeOK
  <1>40. ASSUME NEW r \in Replicas, HandoffFails(r)  PROVE TypeOK'
    <2>1. replica' \in [Replicas -> Visits]
      BY <1>40, ReplicaTypes DEF HandoffFails, VisitSteps
    <2>2. spent' \in Nat
      BY <1>40, SpendTypes DEF HandoffFails
    <2>. QED  BY <1>40, <2>1, <2>2 DEF HandoffFails, TypeOK
  <1>41. CASE UNCHANGED vars
    BY <1>41 DEF vars, TypeOK
  <1>. QED
    BY <1>1, <1>2, <1>3, <1>4, <1>5, <1>6, <1>7, <1>8, <1>9, <1>10, <1>11, <1>12, <1>13, <1>14,
        <1>15, <1>16, <1>17, <1>18, <1>19, <1>20, <1>21, <1>22, <1>23, <1>24, <1>25, <1>26,
        <1>27, <1>28, <1>29, <1>30, <1>31, <1>32, <1>33, <1>34, <1>35, <1>36, <1>37, <1>38,
        <1>39, <1>40, <1>41
      DEF Next, Request, Reconcile, Time

-----------------------------------------------------------------------------
(* No step takes a session back.                                              *)
Onward ==
    /\ session.state # "none" => session'.state # "none"
    /\ Taken => Taken'
    /\ Ended => Ended' /\ (outbox # "kept" => outbox' # "kept")
    /\ Over => Over' /\ (outbox # "kept" => outbox' # "kept")
    /\ ItemsTaken => ItemsTaken'
    /\ QuietBefore => QuietBefore'

(* Every step moves the session on.                                            *)
LEMMA OnwardStep == ASSUME TypeOK, [Next]_vars PROVE Onward
  <1>0. session.state \in States /\ session.rev \in Nat
    BY DEF TypeOK, Sessions
  <1>. USE DEF rowVars, directoryVars, worldVars, Onward, Taken, Ended, Over, ItemsTaken, QuietBefore
  <1>1. ASSUME Register  PROVE Onward
    BY <1>0, <1>1 DEF Register, Active, Open, Sessions, Items, TypeOK
  <1>2. ASSUME InitUpload  PROVE Onward
    BY <1>0, <1>2 DEF InitUpload, Active, Open, Items, TypeOK
  <1>3. ASSUME FinalizeLeaseRuns  PROVE Onward
    BY <1>0, <1>3 DEF FinalizeLeaseRuns, TypeOK, Items
  <1>4. ASSUME NEW h \in Handlers, OpenReseal(h)  PROVE Onward
    BY <1>0, <1>4 DEF OpenReseal, SealExpired, Open, TypeOK, Sessions
  <1>5. ASSUME NEW h \in Handlers, OpenSession(h)  PROVE Onward
    BY <1>0, <1>5 DEF OpenSession, TypeOK, Sessions
  <1>6. ASSUME NEW h \in Handlers, Admit(h)  PROVE Onward
    BY <1>0, <1>6 DEF Admit, TypeOK, Items
  <1>7. ASSUME NEW h \in Handlers, ResolveSource(h)  PROVE Onward
    BY <1>0, <1>7 DEF ResolveSource, Accept, Open, TypeOK, Sessions, Items
  <1>8. ASSUME NEW h \in Handlers, CloseIntake(h)  PROVE Onward
    BY <1>0, <1>8 DEF CloseIntake, CloseAs, Open, TypeOK, Sessions
  <1>9. ASSUME NEW h \in Handlers, RequestStop(h)  PROVE Onward
    BY <1>0, <1>9 DEF RequestStop, Tombstone, Open, TypeOK, Sessions
  <1>10. ASSUME NEW h \in Handlers, StopPage(h)  PROVE Onward
    BY <1>0, <1>10 DEF StopPage, CanPage, AbandonPage, Open, TypeOK, Sessions, Items
  <1>11. ASSUME NEW h \in Handlers, StopClose(h)  PROVE Onward
    BY <1>0, <1>11 DEF StopClose, CloseAs, Open, TypeOK, Sessions
  <1>12. ASSUME NEW h \in Handlers, Drive(h)  PROVE Onward
    BY <1>0, <1>12 DEF Drive, Relay
  <1>13. ASSUME NEW r \in Replicas, Seal(r)  PROVE Onward
    BY <1>0, <1>13 DEF Seal, Tombstone, SealExpired, Open, TypeOK, Sessions
  <1>14. ASSUME NEW r \in Replicas, VisitPage(r)  PROVE Onward
    BY <1>0, <1>14 DEF VisitPage, CanPage, AbandonPage, Open, TypeOK, Sessions, Items
  <1>15. ASSUME NEW r \in Replicas, VisitClose(r)  PROVE Onward
    BY <1>0, <1>15 DEF VisitClose, CloseAs, Open, TypeOK, Sessions
  <1>16. ASSUME NEW r \in Replicas, VisitDrive(r)  PROVE Onward
    BY <1>0, <1>16 DEF VisitDrive, Relay
  <1>17. ASSUME Acknowledge \/ LeaseLapses \/ GraceEnds \/ EntryAges \/ ClaimLapses \/ Pause \/
               Resume \/ UNCHANGED vars
        PROVE  Onward
    BY <1>0, <1>17
    DEF Acknowledge, LeaseLapses, GraceEnds, EntryAges, ClaimLapses, Pause, Resume, vars
  <1>18. ASSUME NEW h \in Handlers, OpenRead(h) \/ OpenTrack(h) \/ ReadPhoto(h) \/ CheckFinalization(h) \/
               WritePhoto(h) \/ Reread(h) \/ RequestClose(h) \/ CleanRead(h) \/
               CleanDelete(h) \/ Finish(h) \/ RequestDies(h)
        PROVE  Onward
    BY <1>0, <1>18
    DEF OpenRead, OpenTrack, ReadPhoto, CheckFinalization, WritePhoto, Reread, RequestClose,
           CleanRead, CleanDelete, Finish, RequestDies
  <1>19. ASSUME NEW r \in Replicas, Visit(r) \/ Claim(r) \/ Settle(r) \/ Release(r) \/ VisitDies(r) \/
               HandoffFails(r)
        PROVE  Onward
    BY <1>0, <1>19
    DEF Visit, Claim, Settle, Release, VisitDies, HandoffFails
  <1>. QED
    BY <1>1, <1>2, <1>3, <1>4, <1>5, <1>6, <1>7, <1>8, <1>9, <1>10, <1>11, <1>12, <1>13, <1>14,
       <1>15, <1>16, <1>17, <1>18, <1>19 DEF Next, Request, Reconcile, Time

(* An entry leaves the directory only when nothing is owed.                   *)
Listed == entry'.there \/ (Over /\ ~Owes')
(* No step removes the entry of a session that owes anything.                  *)
LEMMA EntryStays == ASSUME SessionInv, [Next]_vars, entry.there PROVE Listed
  <1>. USE DEF rowVars, directoryVars, worldVars, Listed
  <1>1. ASSUME EntryAges  PROVE Listed
    BY <1>1 DEF EntryAges, SessionInv, TypeOK, Entries
  <1>2. ASSUME ClaimLapses  PROVE Listed
    BY <1>2 DEF ClaimLapses, SessionInv, TypeOK, Entries
  <1>3. ASSUME NEW h \in Handlers, OpenTrack(h)  PROVE Listed
    BY <1>3 DEF OpenTrack, Track
  <1>4. ASSUME NEW h \in Handlers, Finish(h)  PROVE Listed
    BY <1>4
      DEF Finish, SessionInv, RequestsKnow, RequestKnows, At, Ended, Over, Owes, Open, Answer,
        Become
  <1>5. ASSUME NEW r \in Replicas, Claim(r)  PROVE Listed
    BY <1>5 DEF Claim, SessionInv, TypeOK, Entries
  <1>6. ASSUME NEW r \in Replicas, Settle(r)  PROVE Listed
    BY <1>6 DEF Settle, SessionInv, VisitsKnow, VisitKnows, Visiting, Over, Owes, Open, TypeOK
  <1>7. ASSUME NEW r \in Replicas, Release(r)  PROVE Listed
    BY <1>7 DEF Release, SessionInv, TypeOK, Entries
  <1>8. ASSUME Register \/ InitUpload \/ Acknowledge \/ LeaseLapses \/ GraceEnds \/
               FinalizeLeaseRuns \/ Pause \/ Resume \/ UNCHANGED vars
        PROVE  Listed
    BY <1>8
    DEF Register, InitUpload, Acknowledge, LeaseLapses, GraceEnds, FinalizeLeaseRuns, Pause,
           Resume, vars
  <1>9. ASSUME NEW h \in Handlers, OpenRead(h) \/ OpenReseal(h) \/ OpenSession(h) \/ Admit(h) \/ ReadPhoto(h) \/
               CheckFinalization(h) \/ WritePhoto(h) \/ ResolveSource(h) \/ Reread(h) \/
               RequestClose(h) \/ CloseIntake(h) \/ RequestStop(h) \/ StopPage(h) \/
               CleanRead(h) \/ CleanDelete(h) \/ StopClose(h) \/ Drive(h) \/ RequestDies(h)
        PROVE  Listed
    BY <1>9
    DEF OpenRead, OpenReseal, OpenSession, Admit, ReadPhoto, CheckFinalization, WritePhoto,
           ResolveSource, Reread, RequestClose, CloseIntake, RequestStop, StopPage, CleanRead,
           CleanDelete, StopClose, Drive, RequestDies
  <1>10. ASSUME NEW r \in Replicas, Visit(r) \/ Seal(r) \/ VisitPage(r) \/ VisitClose(r) \/ VisitDrive(r) \/
               VisitDies(r) \/ HandoffFails(r)
        PROVE  Listed
    BY <1>10
    DEF Visit, Seal, VisitPage, VisitClose, VisitDrive, VisitDies, HandoffFails
  <1>. QED
    BY <1>1, <1>2, <1>3, <1>4, <1>5, <1>6, <1>7, <1>8, <1>9,
       <1>10 DEF Next, Request, Reconcile, Time

(* What is owed comes from what was owed, or from an open that is listed.     *)
Owing == Owes' => Owes \/ (\E h \in Handlers : At(h, "create") /\ session.state = "none")
(* No step but a tracked open makes a session owe again.                       *)
LEMMA DebtsGrow == ASSUME TypeOK, [Next]_vars PROVE Owing
  <1>0. session.state \in States /\ session.rev \in Nat
    BY DEF TypeOK, Sessions
  <1>. USE DEF rowVars, directoryVars, worldVars, Owing, Owes, Open
  <1>1. ASSUME Register  PROVE Owing
    BY <1>0, <1>1 DEF Register, Active, TypeOK, Sessions
  <1>2. ASSUME NEW h \in Handlers, OpenReseal(h)  PROVE Owing
    BY <1>0, <1>2 DEF OpenReseal, SealExpired, TypeOK, Sessions
  <1>3. ASSUME NEW h \in Handlers, OpenSession(h)  PROVE Owing
    BY <1>0, <1>3 DEF OpenSession, TypeOK, Sessions, At
  <1>4. ASSUME NEW h \in Handlers, ResolveSource(h)  PROVE Owing
    BY <1>0, <1>4 DEF ResolveSource, Accept, TypeOK, Sessions
  <1>5. ASSUME NEW h \in Handlers, CloseIntake(h)  PROVE Owing
    BY <1>0, <1>5 DEF CloseIntake, CloseAs, TypeOK, Sessions
  <1>6. ASSUME NEW h \in Handlers, RequestStop(h)  PROVE Owing
    BY <1>0, <1>6 DEF RequestStop, Tombstone, TypeOK, Sessions
  <1>7. ASSUME NEW h \in Handlers, StopPage(h)  PROVE Owing
    BY <1>0, <1>7 DEF StopPage, CanPage, AbandonPage, TypeOK, Sessions
  <1>8. ASSUME NEW h \in Handlers, StopClose(h)  PROVE Owing
    BY <1>0, <1>8 DEF StopClose, CloseAs, TypeOK, Sessions
  <1>9. ASSUME NEW h \in Handlers, Drive(h)  PROVE Owing
    BY <1>0, <1>9 DEF Drive, Relay
  <1>10. ASSUME NEW r \in Replicas, Seal(r)  PROVE Owing
    BY <1>0, <1>10 DEF Seal, Tombstone, SealExpired, TypeOK, Sessions
  <1>11. ASSUME NEW r \in Replicas, VisitPage(r)  PROVE Owing
    BY <1>0, <1>11 DEF VisitPage, CanPage, AbandonPage, TypeOK, Sessions
  <1>12. ASSUME NEW r \in Replicas, VisitClose(r)  PROVE Owing
    BY <1>0, <1>12 DEF VisitClose, CloseAs, TypeOK, Sessions
  <1>13. ASSUME NEW r \in Replicas, VisitDrive(r)  PROVE Owing
    BY <1>0, <1>13 DEF VisitDrive, Relay
  <1>14. ASSUME InitUpload \/ Acknowledge \/ LeaseLapses \/ GraceEnds \/ FinalizeLeaseRuns \/
               EntryAges \/ ClaimLapses \/ Pause \/ Resume \/ UNCHANGED vars
        PROVE  Owing
    BY <1>0, <1>14
    DEF InitUpload, Acknowledge, LeaseLapses, GraceEnds, FinalizeLeaseRuns, EntryAges,
           ClaimLapses, Pause, Resume, vars
  <1>15. ASSUME NEW h \in Handlers, OpenRead(h) \/ OpenTrack(h) \/ Admit(h) \/ ReadPhoto(h) \/
               CheckFinalization(h) \/ WritePhoto(h) \/ Reread(h) \/ RequestClose(h) \/
               CleanRead(h) \/ CleanDelete(h) \/ Finish(h) \/ RequestDies(h)
        PROVE  Owing
    BY <1>0, <1>15
    DEF OpenRead, OpenTrack, Admit, ReadPhoto, CheckFinalization, WritePhoto, Reread,
           RequestClose, CleanRead, CleanDelete, Finish, RequestDies
  <1>16. ASSUME NEW r \in Replicas, Visit(r) \/ Claim(r) \/ Settle(r) \/ Release(r) \/ VisitDies(r) \/
               HandoffFails(r)
        PROVE  Owing
    BY <1>0, <1>16
    DEF Visit, Claim, Settle, Release, VisitDies, HandoffFails
  <1>. QED
    BY <1>1, <1>2, <1>3, <1>4, <1>5, <1>6, <1>7, <1>8, <1>9, <1>10, <1>11, <1>12, <1>13, <1>14,
       <1>15, <1>16 DEF Next, Request, Reconcile, Time

(* No step takes the finalization from a write that was checked before the fence. *)
LEMMA HeldStays ==
    ASSUME SessionInv, [Next]_vars, NEW g \in Handlers, At(g, "write"), ~handler[g].late, Held
    PROVE  Held'
  <1>. USE DEF rowVars, directoryVars, worldVars, Held
  <1>0. /\ session.state \in States /\ session.fenced \in BOOLEAN /\ item.outcome # "none" /\ session.state # "none"
        /\ TypeOK
    BY DEF SessionInv, TypeOK, Sessions, ItemsTaken, Taken
  <1>1. ASSUME Register  PROVE Held'
    BY <1>0, <1>1 DEF Register, Items, TypeOK, Sessions
  <1>2. ASSUME InitUpload  PROVE Held'
    BY <1>0, <1>2 DEF InitUpload, Items, TypeOK
  <1>3. ASSUME GraceEnds  PROVE Held'
    BY <1>0, <1>3 DEF GraceEnds, Writing
  <1>4. ASSUME FinalizeLeaseRuns  PROVE Held'
    BY <1>0, <1>4 DEF FinalizeLeaseRuns, Items, TypeOK, Writing
  <1>5. ASSUME NEW h \in Handlers, OpenReseal(h)  PROVE Held'
    BY <1>0, <1>5 DEF OpenReseal, SealExpired, TypeOK, Sessions
  <1>6. ASSUME NEW h \in Handlers, OpenSession(h)  PROVE Held'
    BY <1>0, <1>6 DEF OpenSession, TypeOK, Sessions
  <1>7. ASSUME NEW h \in Handlers, Admit(h)  PROVE Held'
    BY <1>0, <1>7 DEF Admit, TypeOK, Items
  <1>8. ASSUME NEW h \in Handlers, ResolveSource(h)  PROVE Held'
    BY <1>0, <1>8 DEF ResolveSource, Accept, TypeOK, Sessions, Items
  <1>9. ASSUME NEW h \in Handlers, CloseIntake(h)  PROVE Held'
    BY <1>0, <1>9 DEF CloseIntake, CloseAs, TypeOK, Sessions
  <1>10. ASSUME NEW h \in Handlers, RequestStop(h)  PROVE Held'
    BY <1>0, <1>10 DEF RequestStop, Tombstone, TypeOK, Sessions
  <1>11. ASSUME NEW h \in Handlers, StopPage(h)  PROVE Held'
    BY <1>0, <1>11 DEF StopPage, CanPage, AbandonPage, Blocked, TypeOK, Sessions, Items
  <1>12. ASSUME NEW h \in Handlers, StopClose(h)  PROVE Held'
    BY <1>0, <1>12 DEF StopClose, CloseAs, TypeOK, Sessions
  <1>13. ASSUME NEW r \in Replicas, Seal(r)  PROVE Held'
    BY <1>0, <1>13 DEF Seal, Tombstone, SealExpired, TypeOK, Sessions
  <1>14. ASSUME NEW r \in Replicas, VisitPage(r)  PROVE Held'
    BY <1>0, <1>14 DEF VisitPage, CanPage, AbandonPage, Blocked, TypeOK, Sessions, Items
  <1>15. ASSUME NEW r \in Replicas, VisitClose(r)  PROVE Held'
    BY <1>0, <1>15 DEF VisitClose, CloseAs, TypeOK, Sessions
  <1>16. ASSUME Acknowledge \/ LeaseLapses \/ EntryAges \/ ClaimLapses \/ Pause \/ Resume \/
               UNCHANGED vars
        PROVE  Held'
    BY <1>0, <1>16
    DEF Acknowledge, LeaseLapses, EntryAges, ClaimLapses, Pause, Resume, vars
  <1>17. ASSUME NEW h \in Handlers, OpenRead(h) \/ OpenTrack(h) \/ ReadPhoto(h) \/ CheckFinalization(h) \/
               WritePhoto(h) \/ Reread(h) \/ RequestClose(h) \/ CleanRead(h) \/
               CleanDelete(h) \/ Drive(h) \/ Finish(h) \/ RequestDies(h)
        PROVE  Held'
    BY <1>0, <1>17
    DEF OpenRead, OpenTrack, ReadPhoto, CheckFinalization, WritePhoto, Reread, RequestClose,
           CleanRead, CleanDelete, Drive, Finish, RequestDies
  <1>18. ASSUME NEW r \in Replicas, Visit(r) \/ Claim(r) \/ VisitDrive(r) \/ Settle(r) \/ Release(r) \/
               VisitDies(r) \/ HandoffFails(r)
        PROVE  Held'
    BY <1>0, <1>18
    DEF Visit, Claim, VisitDrive, Settle, Release, VisitDies, HandoffFails
  <1>. QED
    BY <1>1, <1>2, <1>3, <1>4, <1>5, <1>6, <1>7, <1>8, <1>9, <1>10, <1>11, <1>12, <1>13, <1>14,
       <1>15, <1>16, <1>17, <1>18 DEF Next, Request, Reconcile, Time

(* A request moves to a step of its own, the others stay where they are.      *)
Alone(h) == \A g \in Handlers \ {h} : handler'[g] = handler[g]
(* The step a request moves to.                                               *)
LEMMA RequestMoves ==
    ASSUME TypeOK, NEW h \in Handlers
    PROVE  /\ Answer(h) => handler'[h].pc = "idle" /\ Alone(h)
           /\ HandOn(h) => handler'[h].pc = "drive" /\ Alone(h)
           /\ \A pc : Go(h, pc) => handler'[h].pc = pc /\ Alone(h)
           /\ \A q : Become(h, q) => handler'[h] = q /\ Alone(h)
           /\ \A q : handler' = [handler EXCEPT ![h] = q] => handler'[h] = q /\ Alone(h)
  <1>1. ASSUME NEW pc, Go(h, pc)  PROVE handler'[h].pc = pc /\ Alone(h)
    BY <1>1 DEF TypeOK, Requests, Go, Alone
  <1>2. ASSUME NEW q, handler' = [handler EXCEPT ![h] = q]  PROVE handler'[h] = q /\ Alone(h)
    BY <1>2 DEF TypeOK, Alone
  <1>3. [NoRequest EXCEPT !.pc = "drive"].pc = "drive" /\ NoRequest.pc = "idle"
    BY DEF NoRequest
  <1>4. ASSUME NEW q, Become(h, q)  PROVE handler'[h] = q /\ Alone(h)
    BY <1>2, <1>4 DEF Become
  <1>. QED  BY <1>1, <1>2, <1>3, <1>4 DEF Answer, HandOn

(* The step a visit moves to.                                                  *)
LEMMA VisitMoves ==
    ASSUME TypeOK, NEW r \in Replicas
    PROVE  /\ Leave(r) => replica'[r].pc = "idle"
           /\ \A pc : Move(r, pc) => replica'[r].pc = pc
           /\ \A pc : StopAt(r, pc) => replica'[r].pc = pc
           /\ \A pc : Leave(r) \/ Move(r, pc) \/ StopAt(r, pc) => \A q \in Replicas \ {r} : replica'[q] = replica[q]
  <1>1. ASSUME Leave(r)  PROVE replica'[r].pc = "idle" /\ \A q \in Replicas \ {r} : replica'[q] = replica[q]
    BY <1>1 DEF TypeOK, Leave, NoVisit
  <1>2. ASSUME NEW pc, Move(r, pc)  PROVE replica'[r].pc = pc /\ \A q \in Replicas \ {r} : replica'[q] = replica[q]
    BY <1>2 DEF TypeOK, Move, NoVisit
  <1>3. ASSUME NEW pc, StopAt(r, pc)  PROVE replica'[r].pc = pc /\ \A q \in Replicas \ {r} : replica'[q] = replica[q]
    BY <1>3 DEF TypeOK, StopAt, NoVisit
  <1>. QED  BY <1>1, <1>2, <1>3

(* A resolution ends in a close, or hands on what is not open.                 *)
LEMMA ResolvedMoves ==
    ASSUME TypeOK, NEW h \in Handlers, CloseResolved(h)
    PROVE  /\ Alone(h) /\ handler'[h].pc \in {"close", "drive"}
           /\ handler'[h].pc = "drive" => session'.state # "open"
  <1>1. CASE session'.state = "open"
    <2>1. Become(h, [NoRequest EXCEPT !.pc = "close", !.rev = session'.rev, !.by = "auto"])
      BY <1>1 DEF CloseResolved
    <2>2. [NoRequest EXCEPT !.pc = "close", !.rev = session'.rev, !.by = "auto"].pc = "close"
      BY DEF NoRequest
    <2>. QED  BY <2>1, <2>2, RequestMoves
  <1>2. CASE session'.state # "open"
    BY <1>2, RequestMoves DEF CloseResolved
  <1>. QED  BY <1>1, <1>2

(* A close sets the state it names.                                            *)
LEMMA Closes ==
    ASSUME TypeOK
    PROVE  \A state, by : CloseAs(state, by) => session'.state = state
  BY DEF TypeOK, Sessions, CloseAs

(* A stop goes on with the revision it read.                                   *)
LEMMA RevisionMoves ==
    ASSUME TypeOK, NEW h \in Handlers, NEW rev, NEW pc, handler' = [handler EXCEPT ![h].rev = rev, ![h].pc = pc]
    PROVE  Alone(h) /\ handler'[h].pc = pc
  BY DEF TypeOK, Requests, Alone

(* What a request knows outlives the steps of the others. *)
LEMMA RequestStays ==
    ASSUME SessionInv, [Next]_vars, NEW g \in Handlers, handler'[g] = handler[g]
    PROVE  RequestKnows(g)'
  <1>1. Onward
    BY OnwardStep DEF SessionInv
  <1>2. RequestKnows(g)
    BY DEF SessionInv, RequestsKnow
  <1>3. entry.there => Listed
    BY EntryStays
  <1>4. (At(g, "create") /\ session.state = "none" => entry.there)' \/ ~At(g, "create")
    BY <1>1, <1>2, <1>3 DEF Onward, RequestKnows, At, Listed, Over
  <1>5. (At(g, "write") /\ ~handler[g].late => Held)'
    <2>1. CASE At(g, "write") /\ ~handler[g].late
      BY <1>2, <2>1, HeldStays DEF RequestKnows
    <2>2. CASE ~At(g, "write") \/ handler[g].late
      BY <2>2 DEF At
    <2>. QED  BY <2>1, <2>2
  <1>. QED  BY <1>1, <1>2, <1>4, <1>5 DEF Onward, RequestKnows, At

(* So does what a visit knows.                                                 *)
LEMMA VisitStays ==
    ASSUME SessionInv, [Next]_vars, NEW r \in Replicas, replica'[r] = replica[r]
    PROVE  VisitKnows(r)'
  <1>1. Onward
    BY OnwardStep DEF SessionInv
  <1>2. VisitKnows(r)
    BY DEF SessionInv, VisitsKnow
  <1>. QED  BY <1>1, <1>2 DEF Onward, VisitKnows, Visiting

(* It is enough to look at the request that moves.                             *)
LEMMA RequestsKnowMore ==
    ASSUME SessionInv, [Next]_vars, NEW h \in Handlers, Alone(h), RequestKnows(h)'
    PROVE  RequestsKnow'
  BY RequestStays DEF RequestsKnow, Alone

(* Every step leaves every request with what its own step needs.               *)
LEMMA RequestStep == ASSUME SessionInv, [Next]_vars PROVE RequestsKnow'
  <1>. USE DEF rowVars, directoryVars, worldVars
  <1>0. TypeOK /\ Onward /\ ItemsTaken /\ QuietBefore /\ session.state \in States
    BY OnwardStep DEF SessionInv, TypeOK, Sessions
  <1>00. ASSUME handler' = handler  PROVE RequestsKnow'
    BY <1>00, RequestStays DEF RequestsKnow
  <1>1. ASSUME NEW h \in Handlers, OpenRead(h)  PROVE RequestsKnow'
    <2>1. Alone(h) /\ handler'[h].pc \in {"track"}
      BY <1>0, <1>1, RequestMoves DEF OpenRead, TypeOK, Requests, Alone
    <2>3. RequestKnows(h)'
      BY <2>1 DEF RequestKnows, At
    <2>. QED  BY <2>1, <2>3, RequestsKnowMore
  <1>2. ASSUME NEW h \in Handlers, OpenTrack(h)  PROVE RequestsKnow'
    <2>0. [NoRequest EXCEPT !.pc = IF handler[h].saw = "open" THEN "reseal" ELSE "create"].pc \in {"reseal", "create"}
      BY DEF NoRequest
    <2>1. Alone(h) /\ handler'[h].pc \in {"reseal", "create"}
      BY <1>0, <1>2, <2>0, RequestMoves DEF OpenTrack
    <2>2. entry'.there
      BY <1>2 DEF OpenTrack, Track, NoEntry
    <2>3. RequestKnows(h)'
      BY <2>1, <2>2 DEF RequestKnows, At
    <2>. QED  BY <2>1, <2>3, RequestsKnowMore
  <1>3. ASSUME NEW h \in Handlers, OpenReseal(h)  PROVE RequestsKnow'
    <2>1. Alone(h) /\ handler'[h].pc \in {"idle"}
      BY <1>0, <1>3, RequestMoves DEF OpenReseal
    <2>3. RequestKnows(h)'
      BY <2>1 DEF RequestKnows, At
    <2>. QED  BY <2>1, <2>3, RequestsKnowMore
  <1>4. ASSUME NEW h \in Handlers, OpenSession(h)  PROVE RequestsKnow'
    <2>1. Alone(h) /\ handler'[h].pc \in {"idle"}
      BY <1>0, <1>4, RequestMoves DEF OpenSession
    <2>3. RequestKnows(h)'
      BY <2>1 DEF RequestKnows, At
    <2>. QED  BY <2>1, <2>3, RequestsKnowMore
  <1>5. ASSUME NEW h \in Handlers, Admit(h)  PROVE RequestsKnow'
    <2>1. Alone(h) /\ handler'[h].pc \in {"reread", "read"}
      BY <1>0, <1>5, RequestMoves DEF Admit
    <2>2. Taken'
      BY <1>0, <1>5 DEF Admit, ItemsTaken, Taken
    <2>3. RequestKnows(h)'
      BY <2>1, <2>2 DEF RequestKnows, At
    <2>. QED  BY <2>1, <2>3, RequestsKnowMore
  <1>6. ASSUME NEW h \in Handlers, ReadPhoto(h)  PROVE RequestsKnow'
    <2>1. Alone(h) /\ handler'[h].pc \in {"check", "idle"}
      BY <1>0, <1>6, RequestMoves DEF ReadPhoto, TypeOK, Requests, Alone
    <2>3. RequestKnows(h)'
      BY <2>1 DEF RequestKnows, At
    <2>. QED  BY <2>1, <2>3, RequestsKnowMore
  <1>7. ASSUME NEW h \in Handlers, CheckFinalization(h)  PROVE RequestsKnow'
    <2>1. Alone(h) /\ handler'[h].pc \in {"write", "idle"}
      BY <1>0, <1>7, RequestMoves DEF CheckFinalization, TypeOK, Requests, Alone
    <2>2. handler'[h].pc = "write" /\ ~(handler'[h]).late => Held'
      BY <1>0, <1>7, RequestMoves DEF CheckFinalization, Checked, Held, TypeOK, Requests
    <2>3. RequestKnows(h)'
      BY <2>1, <2>2 DEF RequestKnows, At
    <2>. QED  BY <2>1, <2>3, RequestsKnowMore
  <1>8. ASSUME NEW h \in Handlers, WritePhoto(h)  PROVE RequestsKnow'
    <2>1. Alone(h) /\ handler'[h].pc \in {"resolve", "idle"}
      BY <1>0, <1>8, RequestMoves DEF WritePhoto, Become, NoRequest
    <2>3. RequestKnows(h)'
      BY <2>1 DEF RequestKnows, At
    <2>. QED  BY <2>1, <2>3, RequestsKnowMore
  <1>9. ASSUME NEW h \in Handlers, ResolveSource(h)  PROVE RequestsKnow'
    <2>1. Alone(h) /\ handler'[h].pc \in {"close", "drive", "idle"}
      BY <1>0, <1>9, RequestMoves, ResolvedMoves DEF ResolveSource
    <2>2. handler'[h].pc = "drive" => Ended'
      BY <1>0, <1>9, <2>1, ResolvedMoves, RequestMoves
        DEF ResolveSource, SessionInv, RequestsKnow, RequestKnows, ItemsTaken, Accept, Taken,
          Ended, Open, Onward, At
    <2>3. RequestKnows(h)'
      BY <2>1, <2>2 DEF RequestKnows, At
    <2>. QED  BY <2>1, <2>3, RequestsKnowMore
  <1>10. ASSUME NEW h \in Handlers, Reread(h)  PROVE RequestsKnow'
    <2>1. Alone(h) /\ handler'[h].pc \in {"close", "drive"}
      BY <1>0, <1>10, RequestMoves, ResolvedMoves DEF Reread
    <2>2. handler'[h].pc = "drive" => Ended'
      BY <1>0, <1>10, <2>1, ResolvedMoves, RequestMoves
        DEF Reread, SessionInv, RequestsKnow, RequestKnows, ItemsTaken, Accept, Taken, Ended,
          Open, Onward, At
    <2>3. RequestKnows(h)'
      BY <2>1, <2>2 DEF RequestKnows, At
    <2>. QED  BY <2>1, <2>3, RequestsKnowMore
  <1>11. ASSUME NEW h \in Handlers, RequestClose(h)  PROVE RequestsKnow'
    <2>1. Alone(h) /\ handler'[h].pc \in {"close"}
      BY <1>0, <1>11, RequestMoves DEF RequestClose, TypeOK, Requests, Alone
    <2>3. RequestKnows(h)'
      BY <2>1 DEF RequestKnows, At
    <2>. QED  BY <2>1, <2>3, RequestsKnowMore
  <1>12. ASSUME NEW h \in Handlers, CloseIntake(h)  PROVE RequestsKnow'
    <2>1. Alone(h) /\ handler'[h].pc \in {"drive", "idle"}
      BY <1>0, <1>12, RequestMoves DEF CloseIntake
    <2>2. handler'[h].pc = "drive" => Ended'
      BY <1>0, <1>12, <2>1, Closes, RequestMoves DEF CloseIntake, Ended, Replays
    <2>3. RequestKnows(h)'
      BY <2>1, <2>2 DEF RequestKnows, At
    <2>. QED  BY <2>1, <2>3, RequestsKnowMore
  <1>13. ASSUME NEW h \in Handlers, RequestStop(h)  PROVE RequestsKnow'
    <2>0. handler' = handler \/ handler' = [handler EXCEPT ![h].pc = "page", ![h].rev = session.rev]
      BY <1>13 DEF RequestStop
    <2>1. Alone(h) /\ handler'[h].pc \in {"idle", "page"}
      BY <1>0, <1>13, <2>0 DEF RequestStop, Begin, At, TypeOK, Requests, Alone
    <2>3. RequestKnows(h)'
      BY <2>1 DEF RequestKnows, At
    <2>. QED  BY <2>1, <2>3, RequestsKnowMore
  <1>14. ASSUME NEW h \in Handlers, StopPage(h)  PROVE RequestsKnow'
    <2>1. Alone(h) /\ handler'[h].pc \in {"clean", "end", "drive", "idle"}
      BY <1>0, <1>14, RequestMoves, RevisionMoves DEF StopPage
    <2>2. handler'[h].pc = "drive" => Ended'
      BY <1>0, <1>14, <2>1, Closes, RequestMoves, RevisionMoves DEF StopPage, Ended
    <2>3. RequestKnows(h)'
      BY <2>1, <2>2 DEF RequestKnows, At
    <2>. QED  BY <2>1, <2>3, RequestsKnowMore
  <1>15. ASSUME NEW h \in Handlers, CleanRead(h)  PROVE RequestsKnow'
    <2>1. Alone(h) /\ handler'[h].pc \in {"delete", "end"}
      BY <1>0, <1>15, RequestMoves DEF CleanRead
    <2>3. RequestKnows(h)'
      BY <2>1 DEF RequestKnows, At
    <2>. QED  BY <2>1, <2>3, RequestsKnowMore
  <1>16. ASSUME NEW h \in Handlers, CleanDelete(h)  PROVE RequestsKnow'
    <2>1. Alone(h) /\ handler'[h].pc \in {"end"}
      BY <1>0, <1>16, RequestMoves DEF CleanDelete
    <2>3. RequestKnows(h)'
      BY <2>1 DEF RequestKnows, At
    <2>. QED  BY <2>1, <2>3, RequestsKnowMore
  <1>17. ASSUME NEW h \in Handlers, StopClose(h)  PROVE RequestsKnow'
    <2>1. Alone(h) /\ handler'[h].pc \in {"drive", "idle"}
      BY <1>0, <1>17, RequestMoves DEF StopClose
    <2>2. handler'[h].pc = "drive" => Ended'
      BY <1>0, <1>17, <2>1, Closes, RequestMoves DEF StopClose, Ended, Replays
    <2>3. RequestKnows(h)'
      BY <2>1, <2>2 DEF RequestKnows, At
    <2>. QED  BY <2>1, <2>3, RequestsKnowMore
  <1>18. ASSUME NEW h \in Handlers, Drive(h)  PROVE RequestsKnow'
    <2>1. Alone(h) /\ handler'[h].pc \in {"finish", "idle"}
      BY <1>0, <1>18, RequestMoves DEF Drive
    <2>2. handler'[h].pc = "finish" => Ended' /\ outbox' # "kept"
      BY <1>0, <1>18, RequestMoves
        DEF Drive, Relay, Ended, At, SessionInv, RequestsKnow, RequestKnows
    <2>3. RequestKnows(h)'
      BY <2>1, <2>2 DEF RequestKnows, At
    <2>. QED  BY <2>1, <2>3, RequestsKnowMore
  <1>19. ASSUME NEW h \in Handlers, Finish(h)  PROVE RequestsKnow'
    <2>1. Alone(h) /\ handler'[h].pc \in {"idle"}
      BY <1>0, <1>19, RequestMoves DEF Finish
    <2>3. RequestKnows(h)'
      BY <2>1 DEF RequestKnows, At
    <2>. QED  BY <2>1, <2>3, RequestsKnowMore
  <1>20. ASSUME NEW h \in Handlers, RequestDies(h)  PROVE RequestsKnow'
    <2>1. Alone(h) /\ handler'[h].pc \in {"idle"}
      BY <1>0, <1>20, RequestMoves DEF RequestDies
    <2>3. RequestKnows(h)'
      BY <2>1 DEF RequestKnows, At
    <2>. QED  BY <2>1, <2>3, RequestsKnowMore
  <1>21. ASSUME Register \/ InitUpload \/ Acknowledge \/ LeaseLapses \/ GraceEnds \/
               FinalizeLeaseRuns \/ EntryAges \/ ClaimLapses \/ Pause \/ Resume \/
               UNCHANGED vars
        PROVE  RequestsKnow'
    BY <1>00, <1>21
    DEF Register, InitUpload, Acknowledge, LeaseLapses, GraceEnds, FinalizeLeaseRuns,
           EntryAges, ClaimLapses, Pause, Resume, vars
  <1>22. ASSUME NEW r \in Replicas, Visit(r) \/ Claim(r) \/ Seal(r) \/ VisitPage(r) \/ VisitClose(r) \/
               VisitDrive(r) \/ Settle(r) \/ Release(r) \/ VisitDies(r) \/ HandoffFails(r)
        PROVE  RequestsKnow'
    BY <1>00, <1>22
    DEF Visit, Claim, Seal, VisitPage, VisitClose, VisitDrive, Settle, Release, VisitDies,
           HandoffFails
  <1>. QED
    BY <1>1, <1>2, <1>3, <1>4, <1>5, <1>6, <1>7, <1>8, <1>9, <1>10, <1>11, <1>12, <1>13, <1>14,
       <1>15, <1>16, <1>17, <1>18, <1>19, <1>20, <1>21, <1>22 DEF Next, Request, Reconcile, Time

(* It is enough to look at the visit that moves.                               *)
LEMMA VisitsKnowMore ==
    ASSUME SessionInv, [Next]_vars, NEW r \in Replicas, \A q \in Replicas \ {r} : replica'[q] = replica[q],
           VisitKnows(r)'
    PROVE  VisitsKnow'
  BY VisitStays DEF VisitsKnow

(* Every step leaves every visit with what its own step needs.                 *)
LEMMA VisitStep == ASSUME SessionInv, [Next]_vars PROVE VisitsKnow'
  <1>. USE DEF rowVars, directoryVars, worldVars
  <1>0. TypeOK /\ Onward /\ QuietBefore /\ session.state \in States
    BY OnwardStep DEF SessionInv, TypeOK, Sessions
  <1>00. ASSUME replica' = replica  PROVE VisitsKnow'
    BY <1>00, VisitStays DEF VisitsKnow
  <1>000. \A r \in Replicas : VisitKnows(r)
    BY DEF SessionInv, VisitsKnow
  <1>1. ASSUME NEW r \in Replicas, Visit(r)  PROVE VisitsKnow'
    <2>1. /\ replica'[r].pc \in {"claim"}
          /\ \A q \in Replicas \ {r} : replica'[q] = replica[q]
      BY <1>0, <1>1, VisitMoves DEF Visit, TypeOK, Visits
    <2>2. ~(replica'[r]).absent => (session.state # "none")'
      BY <1>0, <1>1 DEF Visit, TypeOK, Visits
    <2>3. VisitKnows(r)'
      BY <2>1, <2>2 DEF VisitKnows, Visiting
    <2>. QED  BY <2>1, <2>3, VisitsKnowMore
  <1>2. ASSUME NEW r \in Replicas, Claim(r)  PROVE VisitsKnow'
    <2>1. /\ replica'[r].pc \in {"seal", "idle"}
          /\ \A q \in Replicas \ {r} : replica'[q] = replica[q]
      BY <1>0, <1>2, VisitMoves DEF Claim, TypeOK, Visits
    <2>2. replica'[r].pc = "seal" /\ ~(replica'[r]).absent => (session.state # "none")'
      BY <1>0, <1>000, <1>2, <2>1, VisitMoves DEF Claim, TypeOK, Visits, VisitKnows, Visiting
    <2>3. VisitKnows(r)'
      BY <2>1, <2>2 DEF VisitKnows, Visiting
    <2>. QED  BY <2>1, <2>3, VisitsKnowMore
  <1>3. ASSUME NEW r \in Replicas, Seal(r)  PROVE VisitsKnow'
    <2>1. /\ replica'[r].pc \in {"page", "release", "drive"}
          /\ \A q \in Replicas \ {r} : replica'[q] = replica[q]
      BY <1>0, <1>3, VisitMoves DEF Seal
    <2>2. replica'[r].pc = "drive" => Over'
      <3>1. CASE replica[r].absent /\ session.state = "none"
        BY <1>3, <3>1 DEF Seal, Tombstone, Over, TypeOK, Sessions, SessionInv
      <3>2. CASE ~(replica[r].absent /\ session.state = "none")
        <4>1. session.state # "none" /\ session'.state = session.state
          BY <1>0, <1>000, <1>3, <3>2 DEF Seal, SealExpired, VisitKnows, Visiting, TypeOK, Sessions
        <4>2. replica'[r].pc = "drive" => session'.state # "open"
          BY <1>0, <1>3, VisitMoves DEF Seal
        <4>. QED  BY <1>0, <4>1, <4>2 DEF Over, States
      <3>. QED  BY <3>1, <3>2
    <2>3. VisitKnows(r)'
      BY <2>1, <2>2 DEF VisitKnows, Visiting
    <2>. QED  BY <2>1, <2>3, VisitsKnowMore
  <1>4. ASSUME NEW r \in Replicas, VisitPage(r)  PROVE VisitsKnow'
    <2>1. /\ replica'[r].pc \in {"end", "drive", "release"}
          /\ \A q \in Replicas \ {r} : replica'[q] = replica[q]
      BY <1>0, <1>4, VisitMoves DEF VisitPage
    <2>2. replica'[r].pc = "drive" => Over'
      BY <1>0, <1>4, VisitMoves DEF VisitPage, Ended, Over
    <2>3. VisitKnows(r)'
      BY <2>1, <2>2 DEF VisitKnows, Visiting
    <2>. QED  BY <2>1, <2>3, VisitsKnowMore
  <1>5. ASSUME NEW r \in Replicas, VisitClose(r)  PROVE VisitsKnow'
    <2>1. /\ replica'[r].pc \in {"drive", "release"}
          /\ \A q \in Replicas \ {r} : replica'[q] = replica[q]
      BY <1>0, <1>5, VisitMoves DEF VisitClose
    <2>2. replica'[r].pc = "drive" => Over'
      BY <1>0, <1>5, VisitMoves, Closes DEF VisitClose, Replays, Ended, Over
    <2>3. VisitKnows(r)'
      BY <2>1, <2>2 DEF VisitKnows, Visiting
    <2>. QED  BY <2>1, <2>3, VisitsKnowMore
  <1>6. ASSUME NEW r \in Replicas, VisitDrive(r)  PROVE VisitsKnow'
    <2>1. /\ replica'[r].pc \in {"settle", "release"}
          /\ \A q \in Replicas \ {r} : replica'[q] = replica[q]
      BY <1>0, <1>6, VisitMoves DEF VisitDrive
    <2>2. replica'[r].pc = "settle" => Over' /\ outbox' # "kept"
      BY <1>0, <1>000, <1>6, VisitMoves
        DEF VisitDrive, Relay, Over, QuietBefore, Taken, VisitKnows, Visiting
    <2>3. VisitKnows(r)'
      BY <2>1, <2>2 DEF VisitKnows, Visiting
    <2>. QED  BY <2>1, <2>3, VisitsKnowMore
  <1>7. ASSUME NEW r \in Replicas, Settle(r)  PROVE VisitsKnow'
    <2>1. /\ replica'[r].pc \in {"idle", "release"}
          /\ \A q \in Replicas \ {r} : replica'[q] = replica[q]
      BY <1>0, <1>7, VisitMoves DEF Settle
    <2>3. VisitKnows(r)'
      BY <2>1 DEF VisitKnows, Visiting
    <2>. QED  BY <2>1, <2>3, VisitsKnowMore
  <1>8. ASSUME NEW r \in Replicas, Release(r)  PROVE VisitsKnow'
    <2>1. /\ replica'[r].pc \in {"idle", "release"}
          /\ \A q \in Replicas \ {r} : replica'[q] = replica[q]
      BY <1>0, <1>8, VisitMoves DEF Release
    <2>3. VisitKnows(r)'
      BY <2>1 DEF VisitKnows, Visiting
    <2>. QED  BY <2>1, <2>3, VisitsKnowMore
  <1>9. ASSUME NEW r \in Replicas, VisitDies(r)  PROVE VisitsKnow'
    <2>1. /\ replica'[r].pc \in {"idle", "release"}
          /\ \A q \in Replicas \ {r} : replica'[q] = replica[q]
      BY <1>0, <1>9, VisitMoves DEF VisitDies
    <2>3. VisitKnows(r)'
      BY <2>1 DEF VisitKnows, Visiting
    <2>. QED  BY <2>1, <2>3, VisitsKnowMore
  <1>10. ASSUME NEW r \in Replicas, HandoffFails(r)  PROVE VisitsKnow'
    <2>1. /\ replica'[r].pc \in {"idle", "release"}
          /\ \A q \in Replicas \ {r} : replica'[q] = replica[q]
      BY <1>0, <1>10, VisitMoves DEF HandoffFails
    <2>3. VisitKnows(r)'
      BY <2>1 DEF VisitKnows, Visiting
    <2>. QED  BY <2>1, <2>3, VisitsKnowMore
  <1>11. ASSUME Register \/ InitUpload \/ Acknowledge \/ LeaseLapses \/ GraceEnds \/
               FinalizeLeaseRuns \/ EntryAges \/ ClaimLapses \/ Pause \/ Resume \/
               UNCHANGED vars
        PROVE  VisitsKnow'
    BY <1>00, <1>11
    DEF Register, InitUpload, Acknowledge, LeaseLapses, GraceEnds, FinalizeLeaseRuns,
           EntryAges, ClaimLapses, Pause, Resume, vars
  <1>12. ASSUME NEW h \in Handlers, OpenRead(h) \/ OpenTrack(h) \/ OpenReseal(h) \/ OpenSession(h) \/ Admit(h) \/
               ReadPhoto(h) \/ CheckFinalization(h) \/ WritePhoto(h) \/ ResolveSource(h) \/
               Reread(h) \/ RequestClose(h) \/ CloseIntake(h) \/ RequestStop(h) \/
               StopPage(h) \/ CleanRead(h) \/ CleanDelete(h) \/ StopClose(h) \/ Drive(h) \/
               Finish(h) \/ RequestDies(h)
        PROVE  VisitsKnow'
    BY <1>00, <1>12
    DEF OpenRead, OpenTrack, OpenReseal, OpenSession, Admit, ReadPhoto, CheckFinalization,
           WritePhoto, ResolveSource, Reread, RequestClose, CloseIntake, RequestStop, StopPage,
           CleanRead, CleanDelete, StopClose, Drive, Finish, RequestDies
  <1>. QED
    BY <1>1, <1>2, <1>3, <1>4, <1>5, <1>6, <1>7, <1>8, <1>9, <1>10, <1>11,
       <1>12 DEF Next, Request, Reconcile, Time

(* Every step leaves what is owed listed.                                      *)
LEMMA ListedStep == ASSUME SessionInv, [Next]_vars PROVE NothingUnlisted'
  <1>1. SUFFICES ASSUME Owes'  PROVE entry'.there
    BY DEF NothingUnlisted, Owes, Open
  <1>2. Owing
    BY DebtsGrow DEF SessionInv
  <1>3. entry.there
    BY <1>1, <1>2 DEF Owing, SessionInv, NothingUnlisted, Owes, RequestsKnow, RequestKnows
  <1>. QED  BY <1>1, <1>3, EntryStays DEF Listed

(* An initial state satisfies the invariant.                                   *)
LEMMA SessionInit == Init => SessionInv
  <1>. SUFFICES ASSUME Init  PROVE SessionInv
    OBVIOUS
  <1>1. TypeOK
    <2>0. NoSession \in Sessions
      BY DEF NoSession, Sessions, States, Closers
    <2>00. [NoSession EXCEPT !.state = "open", !.rev = 2] \in Sessions
      BY <2>0 DEF Sessions, States
    <2>1. session \in Sessions
      BY <2>0, <2>00 DEF Init
    <2>2. item \in Items /\ photo \in Photos
      BY DEF Init, Items, Photos
    <2>3. entry \in Entries
      BY FreshEntries DEF Init
    <2>4. handler \in [Handlers -> Requests] /\ replica \in [Replicas -> Visits]
      BY RequestValues, VisitValues DEF Init
    <2>. QED  BY <2>1, <2>2, <2>3, <2>4 DEF TypeOK, Init
  <1>2. RequestsKnow /\ VisitsKnow
    BY DEF Init, RequestsKnow, RequestKnows, VisitsKnow, VisitKnows, At, Visiting, NoRequest,
        NoVisit
  <1>3. ItemsTaken /\ QuietBefore /\ NothingUnlisted
    <2>1. CASE session = NoSession /\ item = [outcome |-> "none", lease |-> "none"]
      BY <2>1 DEF Init, ItemsTaken, QuietBefore, NothingUnlisted, Taken, Open, NoSession
    <2>2. CASE session = [NoSession EXCEPT !.state = "open", !.rev = 2] /\ entry = [NoEntry EXCEPT !.there = TRUE]
      <3>1. session.state = "open" /\ entry.there
        BY <2>2 DEF NoSession, NoEntry
      <3>. QED  BY <3>1 DEF ItemsTaken, QuietBefore, NothingUnlisted, Taken
    <2>. QED  BY <2>1, <2>2 DEF Init
  <1>. QED  BY <1>1, <1>2, <1>3 DEF SessionInv

(* The inductive invariant holds: what every request and every visit has read
   is still true when it acts, however late (upload_session_registry.py's
   reconcile_one, upload_session_lease.py and the upload routes).             *)
THEOREM SessionInvariant == Spec => []SessionInv
  <1>1. SessionInv /\ [Next]_vars => SessionInv'
    BY TypeStep, OnwardStep, RequestStep, VisitStep, ListedStep DEF SessionInv, Onward
  <1>. QED  BY <1>1, SessionInit, PTL DEF Spec

(* Every reachable state is well typed.                                        *)
THEOREM SessionTypes == Spec => []TypeOK
  BY SessionInvariant, PTL DEF SessionInv

(* An intake that is open, a release that was not relayed and an expiry nobody
   was told of have an entry in the directory, whichever requests and visits
   raced or died: what forgets an entry (finish, settle) knows nothing is owed. *)
THEOREM NothingGoesUnlisted == Spec => []NothingUnlisted
  BY SessionInvariant, PTL DEF SessionInv

(* No step makes a notice that was read unread. *)
LEMMA NoticeStays == ASSUME TypeOK, [Next]_vars, notice = "read" PROVE notice' = "read"
  <1>. USE DEF rowVars, directoryVars, worldVars
  <1>1. ASSUME Acknowledge  PROVE notice' = "read"
    BY <1>1 DEF Acknowledge, TypeOK
  <1>2. ASSUME NEW r \in Replicas, Settle(r)  PROVE notice' = "read"
    BY <1>2 DEF Settle, TypeOK
  <1>3. ASSUME Register \/ InitUpload \/ LeaseLapses \/ GraceEnds \/ FinalizeLeaseRuns \/
               EntryAges \/ ClaimLapses \/ Pause \/ Resume \/ UNCHANGED vars
        PROVE  notice' = "read"
    BY <1>3
    DEF Register, InitUpload, LeaseLapses, GraceEnds, FinalizeLeaseRuns, EntryAges,
           ClaimLapses, Pause, Resume, vars
  <1>4. ASSUME NEW h \in Handlers, OpenRead(h) \/ OpenTrack(h) \/ OpenReseal(h) \/ OpenSession(h) \/ Admit(h) \/
               ReadPhoto(h) \/ CheckFinalization(h) \/ WritePhoto(h) \/ ResolveSource(h) \/
               Reread(h) \/ RequestClose(h) \/ CloseIntake(h) \/ RequestStop(h) \/
               StopPage(h) \/ CleanRead(h) \/ CleanDelete(h) \/ StopClose(h) \/ Drive(h) \/
               Finish(h) \/ RequestDies(h)
        PROVE  notice' = "read"
    BY <1>4
    DEF OpenRead, OpenTrack, OpenReseal, OpenSession, Admit, ReadPhoto, CheckFinalization,
           WritePhoto, ResolveSource, Reread, RequestClose, CloseIntake, RequestStop, StopPage,
           CleanRead, CleanDelete, StopClose, Drive, Finish, RequestDies
  <1>5. ASSUME NEW r \in Replicas, Visit(r) \/ Claim(r) \/ Seal(r) \/ VisitPage(r) \/ VisitClose(r) \/
               VisitDrive(r) \/ Release(r) \/ VisitDies(r) \/ HandoffFails(r)
        PROVE  notice' = "read"
    BY <1>5
    DEF Visit, Claim, Seal, VisitPage, VisitClose, VisitDrive, Release, VisitDies,
           HandoffFails
  <1>. QED
    BY <1>1, <1>2, <1>3, <1>4, <1>5 DEF Next, Request, Reconcile, Time

(* A notice that was read stays read, however late the entry is tracked and
   settled again.                                                             *)
THEOREM NoticesAreOnce == Spec => NoticeOnce
  <1>1. TypeOK /\ [Next]_vars => [notice = "read" => notice' = "read"]_vars
    BY NoticeStays
  <1>. QED  BY <1>1, SessionTypes, PTL DEF Spec, NoticeOnce

(* A photo becomes active by the write of a finalization only. *)
Drained == \E h \in Writing : handler[h].late /\ handler'[h].pc # "write"
(* A photo that becomes active after its item was cancelled was written by a
   finalization checked after the fence.                                      *)
LEMMA OnlyWrites ==
    ASSUME SessionInv, [Next]_vars, photo # "active", photo' = "active", item.outcome = "cancelled"
    PROVE  Drained
  <1>. USE DEF rowVars, directoryVars, worldVars
  <1>1. ASSUME NEW h \in Handlers, WritePhoto(h)  PROVE Drained
    <2>1. At(h, "write")
      BY <1>1 DEF WritePhoto
    <2>2. handler[h].late
      BY <2>1 DEF SessionInv, RequestsKnow, RequestKnows, Held
    <2>3. [NoRequest EXCEPT !.pc = "resolve"].pc # "write" /\ NoRequest.pc # "write"
      BY DEF NoRequest
    <2>4. handler'[h].pc # "write"
      BY <1>1, <2>3, RequestMoves DEF WritePhoto, Answer, SessionInv
    <2>. QED  BY <2>1, <2>2, <2>4 DEF Drained, Writing
  <1>2. ASSUME NEW h \in Handlers, CleanDelete(h)  PROVE Drained
    BY <1>2 DEF CleanDelete
  <1>3. ASSUME Register \/ InitUpload \/ Acknowledge \/ LeaseLapses \/ GraceEnds \/
               FinalizeLeaseRuns \/ EntryAges \/ ClaimLapses \/ Pause \/ Resume \/
               UNCHANGED vars
        PROVE  Drained
    BY <1>3
    DEF Register, InitUpload, Acknowledge, LeaseLapses, GraceEnds, FinalizeLeaseRuns,
           EntryAges, ClaimLapses, Pause, Resume, vars
  <1>4. ASSUME NEW h \in Handlers, OpenRead(h) \/ OpenTrack(h) \/ OpenReseal(h) \/ OpenSession(h) \/ Admit(h) \/
               ReadPhoto(h) \/ CheckFinalization(h) \/ ResolveSource(h) \/ Reread(h) \/
               RequestClose(h) \/ CloseIntake(h) \/ RequestStop(h) \/ StopPage(h) \/
               CleanRead(h) \/ StopClose(h) \/ Drive(h) \/ Finish(h) \/ RequestDies(h)
        PROVE  Drained
    BY <1>4
    DEF OpenRead, OpenTrack, OpenReseal, OpenSession, Admit, ReadPhoto, CheckFinalization,
           ResolveSource, Reread, RequestClose, CloseIntake, RequestStop, StopPage, CleanRead,
           StopClose, Drive, Finish, RequestDies
  <1>5. ASSUME NEW r \in Replicas, Visit(r) \/ Claim(r) \/ Seal(r) \/ VisitPage(r) \/ VisitClose(r) \/
               VisitDrive(r) \/ Settle(r) \/ Release(r) \/ VisitDies(r) \/ HandoffFails(r)
        PROVE  Drained
    BY <1>5
    DEF Visit, Claim, Seal, VisitPage, VisitClose, VisitDrive, Settle, Release, VisitDies,
           HandoffFails
  <1>. QED
    BY <1>1, <1>2, <1>3, <1>4, <1>5 DEF Next, Request, Reconcile, Time

(* The drain window of a stop holds: a write checked before the fence, or in a
   session stopped without one, never finds its item cancelled.               *)
THEOREM DrainWindow == Spec => DrainWindowHolds
  <1>1. SessionInv /\ [Next]_vars =>
          [photo # "active" /\ photo' = "active" /\ item.outcome = "cancelled" =>
              \E h \in Writing : handler[h].late /\ handler'[h].pc # "write"]_vars
    BY OnlyWrites DEF Drained
  <1>. QED  BY <1>1, SessionInvariant, PTL DEF Spec, DrainWindowHolds
=============================================================================
