---------------------------- MODULE UploadSession ----------------------------
(***************************************************************************)
(* The life of one upload session of one photo, as the upload role's        *)
(* request handlers, the core role's replicas and time see it: its entry in *)
(* the session directory, the session and item rows, the photo's metadata   *)
(* row and the notice left for the user.                                    *)
(*                                                                          *)
(* Abstractions.  A read and a conditional write that the code retries are  *)
(* one step; where what was read is used later they are two.  A stored time *)
(* is what the code asks of it: the intake lease, the grace after a fence   *)
(* and a claim are running or over, a finalize lease has 60 seconds left,   *)
(* fewer, or none.  An ETag of the entry is the set of replicas whose read  *)
(* of it is still current.  A heartbeat is the absence of a lapse.  Waves   *)
(* are UploadWaves: here the session is the only one of its wave, so its    *)
(* close leaves a release to relay.  The survey's cursor is its fairness:   *)
(* an entry is visited again and again.  Left out: the pause, collection and*)
(* cleanup fences, which only refuse, the other outcomes an item is resolved*)
(* with, a finalize lease that runs out after the resolution, the removal of*)
(* old notices, a session that resumes another, and the survey that adopts  *)
(* sessions older than the directory.  /upload/init is one step.            *)
(***************************************************************************)
EXTENDS Naturals

CONSTANTS Handlers,    \* requests of the upload role that may run at once
          Replicas,    \* core replicas
          Nobody,
          MaxSpent     \* opens, finalizations, closes and stops that are sent, and what
                       \* dies, outlives its claim, fails to hand over or is paused

ASSUME SessionAssumption ==
    /\ Nobody \notin Replicas
    /\ MaxSpent \in Nat

VARIABLES
    session,   \* the wave session row
    lease,     \* leaseExpiresAt is in the future
    grace,     \* FINALIZE_DISCARD_GRACE_SECONDS since the fence are not over
    item,      \* the item reservation and its finalize lease
    photo,     \* the metadata row: pending since init, active once finalized
    outbox,    \* the release the session's close left to relay
    entry,     \* the directory entry
    current,   \* replicas whose read of the entry is its stored version
    notice,    \* the notice row
    handler, replica,
    enabled,   \* execution_enabled
    spent      \* what the bound counts

vars == <<session, lease, grace, item, photo, outbox, entry, current, notice,
          handler, replica, enabled, spent>>
rowVars == <<session, lease, grace, item, photo, outbox>>
directoryVars == <<entry, current, notice>>
worldVars == <<enabled, spent>>

States == {"none", "open", "closed", "abandoned", "absent"}
Closers == {"nobody", "auto", "browser", "abandon"}
Sessions == [state: States, stopping: BOOLEAN, fenced: BOOLEAN, lapsed: BOOLEAN,
             rev: Nat, by: Closers]
NoSession == [state |-> "none", stopping |-> FALSE, fenced |-> FALSE,
              lapsed |-> FALSE, rev |-> 0, by |-> "nobody"]
Items == [outcome: {"none", "reserved", "accepted", "cancelled"},
          lease: {"none", "short", "live"}]
Photos == {"none", "pending", "active"}
Entries == [there: BOOLEAN, token: Replicas \cup {Nobody}, live: BOOLEAN, young: BOOLEAN]
NoEntry == [there |-> FALSE, token |-> Nobody, live |-> FALSE, young |-> FALSE]
RequestSteps == {"idle", "track", "reseal", "create", "reread", "read", "check", "write",
                 "resolve", "close", "page", "clean", "delete", "end", "drive", "finish"}
Requests == [pc: RequestSteps, rev: Nat, by: Closers, saw: States \cup Photos, late: BOOLEAN]
NoRequest == [pc |-> "idle", rev |-> 0, by |-> "nobody", saw |-> "none", late |-> FALSE]
VisitSteps == {"idle", "claim", "seal", "page", "end", "drive", "settle", "release"}
Visits == [pc: VisitSteps, rev: Nat, absent: BOOLEAN]
NoVisit == [pc |-> "idle", rev |-> 0, absent |-> FALSE]

TypeOK ==
    /\ session \in Sessions /\ item \in Items /\ photo \in Photos
    /\ lease \in BOOLEAN /\ grace \in BOOLEAN
    /\ outbox \in {"none", "kept", "sent"}
    /\ entry \in Entries /\ current \subseteq Replicas
    /\ notice \in {"none", "unread", "read"}
    /\ handler \in [Handlers -> Requests] /\ replica \in [Replicas -> Visits]
    /\ enabled \in BOOLEAN
    /\ spent \in Nat

(* Either nothing was sent yet, or an intake is under way: tracked, opened,
   registered and initialized by requests that have ended.                    *)
Init ==
    /\ \/ /\ session = NoSession /\ lease = FALSE /\ entry = NoEntry
          /\ item = [outcome |-> "none", lease |-> "none"] /\ photo = "none"
       \/ /\ session = [NoSession EXCEPT !.state = "open", !.rev = 2] /\ lease = TRUE
          /\ entry = [NoEntry EXCEPT !.there = TRUE]
          /\ item = [outcome |-> "reserved", lease |-> "live"] /\ photo = "pending"
    /\ grace = FALSE /\ outbox = "none" /\ current = {} /\ notice = "none"
    /\ handler = [h \in Handlers |-> NoRequest]
    /\ replica = [r \in Replicas |-> NoVisit]
    /\ enabled = TRUE /\ spent = 0

-----------------------------------------------------------------------------
Open == session.state = "open"
Ended == session.state \in {"closed", "abandoned"}
Active == Open /\ ~session.stopping /\ lease
At(h, pc) == handler[h].pc = pc
Go(h, pc) == handler' = [handler EXCEPT ![h].pc = pc]
Become(h, request) == handler' = [handler EXCEPT ![h] = request]
HandOn(h) == Become(h, [NoRequest EXCEPT !.pc = "drive"])
Answer(h) == Become(h, NoRequest)
Visiting(r, pc) == replica[r].pc = pc
Move(r, pc) == replica' = [replica EXCEPT ![r] = [NoVisit EXCEPT !.pc = pc]]
StopAt(r, pc) == replica' = [replica EXCEPT ![r] = [NoVisit EXCEPT !.pc = pc, !.rev = session'.rev]]
Leave(r) == replica' = [replica EXCEPT ![r] = NoVisit]
Spend == spent < MaxSpent /\ spent' = spent + 1

(* An entry that is already there is left as it is.                          *)
Track ==
    IF entry.there THEN UNCHANGED <<entry, current>>
    ELSE entry' = [NoEntry EXCEPT !.there = TRUE, !.young = TRUE] /\ current' = {}

(* The expiry fence: it starts the stop of an intake nobody renewed.         *)
SealExpired ==
    IF Open /\ ~session.stopping /\ ~lease
    THEN /\ session' = [session EXCEPT !.stopping = TRUE, !.fenced = TRUE, !.lapsed = TRUE]
         /\ grace' = TRUE
    ELSE UNCHANGED <<session, grace>>

Tombstone == session' = [session EXCEPT !.state = "absent", !.fenced = TRUE]

(* Fault: a close that names its state after the request that asked for it.    *)
CloseAsAsked(state, by) ==
    /\ session' = [session EXCEPT !.state = by, !.by = by]
    /\ outbox' = "kept"

(* The close of a session releases its wave.                                  *)
CloseAs(state, by) ==
    /\ session' = [session EXCEPT !.state = state, !.by = by]
    /\ outbox' = "kept"

Relay == outbox' = IF outbox = "kept" THEN "sent" ELSE outbox

-----------------------------------------------------------------------------
(* Requests of the browser: each starts on an idle handler.                  *)
Begin(h) == At(h, "idle") /\ Spend

(* Opening reads the session first; an ended one is only answered.           *)
OpenRead(h) ==
    /\ Begin(h) /\ session.state \in {"none", "open"}
    /\ handler' = [handler EXCEPT ![h].pc = "track", ![h].saw = session.state]
    /\ UNCHANGED <<rowVars, directoryVars, replica, enabled>>

OpenTrack(h) ==
    /\ At(h, "track")
    /\ Track
    /\ Become(h, [NoRequest EXCEPT !.pc = IF handler[h].saw = "open" THEN "reseal" ELSE "create"])
    /\ UNCHANGED <<rowVars, notice, replica, worldVars>>

OpenReseal(h) ==
    /\ At(h, "reseal")
    /\ SealExpired /\ Answer(h)
    /\ UNCHANGED <<lease, item, photo, outbox, directoryVars, replica, worldVars>>

OpenSession(h) ==
    /\ At(h, "create")
    /\ IF session.state = "none"
       THEN /\ session' = [session EXCEPT !.state = "open", !.rev = 1]
            /\ lease' = TRUE
       ELSE UNCHANGED <<session, lease>>
    /\ Answer(h)
    /\ UNCHANGED <<grace, item, photo, outbox, directoryVars, replica, worldVars>>

Register ==
    /\ Active /\ item.outcome = "none"
    /\ item' = [item EXCEPT !.outcome = "reserved"]
    /\ session' = [session EXCEPT !.rev = @ + 1]
    /\ UNCHANGED <<lease, grace, photo, outbox, directoryVars, handler, replica, worldVars>>

(* /upload/init reserves the finalize lease and the photo's pending row.      *)
InitUpload ==
    /\ Active /\ item.outcome = "reserved" /\ photo = "none"
    /\ item' = [item EXCEPT !.lease = "live"]
    /\ photo' = "pending"
    /\ UNCHANGED <<session, lease, grace, outbox, directoryVars, handler, replica, worldVars>>

(* /upload/finalize: admission renews a finalize lease that runs low, and the
   session's lease with it; an item that is resolved is only replayed.        *)
Admit(h) ==
    /\ Begin(h)
    /\ item.outcome = "accepted" \/ (item.outcome = "reserved" /\ Active)
    /\ item' = [item EXCEPT !.lease = "live"]
    /\ lease' \in IF item.lease = "live" THEN {lease, TRUE} ELSE {TRUE}
    /\ Go(h, IF item.outcome = "accepted" THEN "reread" ELSE "read")
    /\ UNCHANGED <<session, grace, photo, outbox, directoryVars, replica, enabled>>

(* The last check before a source write: the finalize lease outlives it, and
   the item was not cancelled.  It does not ask whether the intake stops.     *)
Checked == item.lease = "live" /\ item.outcome \in {"reserved", "accepted"}

ReadPhoto(h) ==
    /\ At(h, "read")
    /\ IF Checked THEN handler' = [handler EXCEPT ![h].pc = "check", ![h].saw = photo]
       ELSE Answer(h)
    /\ UNCHANGED <<rowVars, directoryVars, replica, worldVars>>

CheckFinalization(h) ==
    /\ At(h, "check")
    /\ IF Checked THEN handler' = [handler EXCEPT ![h].pc = "write", ![h].late = session.fenced]
       ELSE Answer(h)
    /\ UNCHANGED <<rowVars, directoryVars, replica, worldVars>>

(* Conditional on the row that was read, one attempt of 30 seconds.           *)
WritePhoto(h) ==
    /\ At(h, "write")
    /\ IF photo = handler[h].saw THEN photo' = "active" /\ Become(h, [NoRequest EXCEPT !.pc = "resolve"])
       ELSE Answer(h) /\ UNCHANGED photo
    /\ UNCHANGED <<session, lease, grace, item, outbox, directoryVars, replica, worldVars>>

(* A stopping session still takes the item, and lets its lease be.            *)
Accept ==
    /\ photo = "active" /\ item.outcome = "reserved" /\ Open
    /\ item' = [item EXCEPT !.outcome = "accepted"]
    /\ session' = [session EXCEPT !.rev = @ + 1]
    /\ lease' = (lease \/ ~session.stopping)

(* close_resolved_intake: every item is resolved, so what is open closes.     *)
CloseResolved(h) ==
    IF session'.state = "open"
    THEN Become(h, [NoRequest EXCEPT !.pc = "close", !.rev = session'.rev, !.by = "auto"])
    ELSE HandOn(h)

ResolveSource(h) ==
    /\ At(h, "resolve")
    /\ \/ Accept /\ CloseResolved(h)
       \/ /\ photo = "active" /\ item.outcome = "accepted"
          /\ UNCHANGED <<session, lease, item>> /\ CloseResolved(h)
       \/ /\ photo # "active" \/ item.outcome = "cancelled" \/ (item.outcome = "reserved" /\ ~Open)
          /\ Answer(h) /\ UNCHANGED <<session, lease, item>>
    /\ UNCHANGED <<grace, photo, outbox, directoryVars, replica, worldVars>>

Reread(h) ==
    /\ At(h, "reread")
    /\ UNCHANGED <<rowVars, directoryVars, replica, worldVars>>
    /\ CloseResolved(h)

RequestClose(h) ==
    /\ Begin(h) /\ (Open \/ Ended)
    /\ handler' = [handler EXCEPT ![h].pc = "close", ![h].rev = session.rev, ![h].by = "browser"]
    /\ UNCHANGED <<rowVars, directoryVars, replica, enabled>>

(* A close that was done by the same request, or automatically, is a replay.  *)
Replays(by, rev) ==
    /\ Ended /\ session.rev = rev
    /\ session.by = by \/ (session.by = "auto" /\ by # "abandon")

CloseIntake(h) ==
    /\ At(h, "close")
    /\ \/ /\ Open /\ session.rev = handler[h].rev /\ item.outcome \in {"accepted", "cancelled"}
          /\ CloseAs("closed", handler[h].by) /\ HandOn(h)
       \/ /\ Replays(handler[h].by, handler[h].rev)
          /\ HandOn(h) /\ UNCHANGED <<session, outbox>>
       \/ /\ ~Replays(handler[h].by, handler[h].rev)
          /\ ~Open \/ session.rev # handler[h].rev \/ item.outcome \notin {"accepted", "cancelled"}
          /\ Answer(h) /\ UNCHANGED <<session, outbox>>
    /\ UNCHANGED <<lease, grace, item, photo, directoryVars, replica, worldVars>>

(* Stop: a discard fences the session first, or leaves a tombstone where an
   open has not committed; an abandon of the older form does not fence.       *)
RequestStop(h) ==
    /\ Begin(h)
    /\ \/ /\ session.state = "none" /\ Tombstone
          /\ UNCHANGED <<grace, handler>>
       \/ /\ Open /\ ~session.stopping
          /\ session' = [session EXCEPT !.stopping = TRUE, !.fenced = TRUE] /\ grace' = TRUE
          /\ handler' = [handler EXCEPT ![h].pc = "page", ![h].rev = session.rev]
       \/ /\ Open \/ Ended
          /\ handler' = [handler EXCEPT ![h].pc = "page", ![h].rev = session.rev]
          /\ UNCHANGED <<session, grace>>
    /\ UNCHANGED <<lease, item, photo, outbox, directoryVars, replica, enabled>>

(* Fault: a fence lets the stop go ahead at once.                             *)
BlockedUntilFenced == item.outcome = "reserved" /\ item.lease # "none" /\ ~session.fenced

(* A finalization in flight holds the stop up until its lease is over, or,
   behind a fence, until the grace is.                                        *)
Blocked ==
    /\ item.outcome = "reserved" /\ item.lease # "none"
    /\ ~session.fenced \/ grace

CanPage(rev) == Open /\ session.rev = rev /\ ~Blocked

(* The only page of reservations: what is still reserved is cancelled.        *)
AbandonPage ==
    IF item.outcome = "reserved"
    THEN /\ item' = [item EXCEPT !.outcome = "cancelled"]
         /\ session' = [session EXCEPT !.stopping = TRUE, !.rev = @ + 1]
    ELSE session' = [session EXCEPT !.stopping = TRUE] /\ UNCHANGED item

(* The revision is compared twice; an intake that ended between is handed on. *)
StopPage(h) ==
    /\ At(h, "page")
    /\ \/ /\ CanPage(handler[h].rev) /\ AbandonPage
          /\ handler' = [handler EXCEPT ![h].rev = session'.rev,
                            ![h].pc = IF item.outcome = "reserved" THEN "clean" ELSE "end"]
       \/ /\ Ended
          /\ HandOn(h) /\ UNCHANGED <<session, item>>
       \/ /\ session.rev # handler[h].rev \/ (Open /\ Blocked)
          /\ Answer(h) /\ UNCHANGED <<session, item>>
    /\ UNCHANGED <<lease, grace, photo, outbox, directoryVars, replica, worldVars>>

(* The tracking of a cancelled item: a row that was pending when it was read
   is deleted whatever it is by then.                                         *)
CleanRead(h) ==
    /\ At(h, "clean")
    /\ Go(h, IF photo = "pending" THEN "delete" ELSE "end")
    /\ UNCHANGED <<rowVars, directoryVars, replica, worldVars>>

CleanDelete(h) ==
    /\ At(h, "delete")
    /\ photo' = "none" /\ Go(h, "end")
    /\ UNCHANGED <<session, lease, grace, item, outbox, directoryVars, replica, worldVars>>

StopClose(h) ==
    /\ At(h, "end")
    /\ \/ /\ Open /\ session.rev = handler[h].rev
          /\ CloseAs("abandoned", "abandon") /\ HandOn(h)
       \/ /\ Replays("abandon", handler[h].rev)
          /\ HandOn(h) /\ UNCHANGED <<session, outbox>>
       \/ /\ session.rev # handler[h].rev \/ (Ended /\ session.by # "abandon")
          /\ Answer(h) /\ UNCHANGED <<session, outbox>>
    /\ UNCHANGED <<lease, grace, item, photo, directoryVars, replica, worldVars>>

(* Fault: the entry is forgotten although a paused handoff relayed nothing.    *)
DriveAnyway(h) ==
    /\ At(h, "drive")
    /\ IF enabled THEN Relay ELSE UNCHANGED outbox
    /\ Go(h, "finish")
    /\ UNCHANGED <<session, lease, grace, item, photo, directoryVars, replica, worldVars>>

(* The handoff; where execution is paused there is none, and no forgetting.   *)
Drive(h) ==
    /\ At(h, "drive")
    /\ IF enabled THEN Relay /\ Go(h, "finish") ELSE Answer(h) /\ UNCHANGED outbox
    /\ UNCHANGED <<session, lease, grace, item, photo, directoryVars, replica, worldVars>>

(* finish and forget: a session that lapsed keeps its entry for its notice.   *)
Finish(h) ==
    /\ At(h, "finish")
    /\ IF session.lapsed THEN UNCHANGED <<entry, current>> ELSE entry' = NoEntry /\ current' = {}
    /\ Answer(h)
    /\ UNCHANGED <<rowVars, notice, replica, worldVars>>

Request(h) ==
    \/ OpenRead(h) \/ OpenTrack(h) \/ OpenReseal(h) \/ OpenSession(h)
    \/ Admit(h) \/ ReadPhoto(h) \/ CheckFinalization(h) \/ WritePhoto(h)
    \/ ResolveSource(h) \/ Reread(h) \/ RequestClose(h) \/ CloseIntake(h)
    \/ RequestStop(h) \/ StopPage(h) \/ CleanRead(h) \/ CleanDelete(h) \/ StopClose(h)
    \/ Drive(h) \/ Finish(h)

-----------------------------------------------------------------------------
(* Fault: a claim is honoured for as long as it names an owner.                *)
VisitUnclaimed(r) ==
    /\ Visiting(r, "idle") /\ entry.there /\ entry.token = Nobody
    /\ ~Active /\ ~(session.state = "none" /\ entry.young)
    /\ current' = current \cup {r}
    /\ replica' = [replica EXCEPT ![r].pc = "claim", ![r].absent = session.state = "none"]
    /\ UNCHANGED <<rowVars, entry, notice, handler, worldVars>>

(* A visit of a replica reads the entry and its session; what it finds alive,
   or still being admitted, is left alone.                                    *)
Visit(r) ==
    /\ Visiting(r, "idle") /\ entry.there /\ ~entry.live
    /\ ~Active /\ ~(session.state = "none" /\ entry.young)
    /\ current' = current \cup {r}
    /\ replica' = [replica EXCEPT ![r].pc = "claim", ![r].absent = session.state = "none"]
    /\ UNCHANGED <<rowVars, entry, notice, handler, worldVars>>

Claim(r) ==
    /\ Visiting(r, "claim")
    /\ IF r \in current
       THEN /\ entry' = [entry EXCEPT !.token = r, !.live = TRUE]
            /\ current' = {r} /\ replica' = [replica EXCEPT ![r].pc = "seal"]
       ELSE Leave(r) /\ UNCHANGED <<entry, current>>
    /\ UNCHANGED <<rowVars, notice, handler, worldVars>>

(* The session itself decides: a renewal that came first keeps it alive.      *)
Seal(r) ==
    /\ Visiting(r, "seal")
    /\ IF replica[r].absent /\ session.state = "none" THEN Tombstone /\ UNCHANGED grace ELSE SealExpired
    /\ IF session'.state = "open" /\ session'.stopping THEN StopAt(r, "page")
       ELSE Move(r, IF session'.state = "open" THEN "release" ELSE "drive")
    /\ UNCHANGED <<lease, item, photo, outbox, directoryVars, handler, worldVars>>

VisitPage(r) ==
    /\ Visiting(r, "page")
    /\ \/ /\ CanPage(replica[r].rev) /\ AbandonPage
          /\ StopAt(r, "end")
       \/ /\ Ended
          /\ Move(r, "drive") /\ UNCHANGED <<session, item>>
       \/ /\ session.rev # replica[r].rev \/ (Open /\ Blocked)
          /\ Move(r, "release") /\ UNCHANGED <<session, item>>
    /\ UNCHANGED <<lease, grace, photo, outbox, directoryVars, handler, worldVars>>

VisitClose(r) ==
    /\ Visiting(r, "end")
    /\ \/ /\ Open /\ session.rev = replica[r].rev
          /\ CloseAs("abandoned", "abandon") /\ Move(r, "drive")
       \/ /\ Replays("abandon", replica[r].rev)
          /\ Move(r, "drive") /\ UNCHANGED <<session, outbox>>
       \/ /\ session.rev # replica[r].rev \/ (Ended /\ session.by # "abandon")
          /\ Move(r, "release") /\ UNCHANGED <<session, outbox>>
    /\ UNCHANGED <<lease, grace, item, photo, directoryVars, handler, worldVars>>

(* Settling hands the wave on; a tombstone has none, a pause keeps the entry. *)
VisitDrive(r) ==
    /\ Visiting(r, "drive")
    /\ \/ session.state = "absent" /\ Move(r, "settle") /\ UNCHANGED outbox
       \/ session.state # "absent" /\ enabled /\ Relay /\ Move(r, "settle")
       \/ session.state # "absent" /\ ~enabled /\ Move(r, "release") /\ UNCHANGED outbox
    /\ UNCHANGED <<session, lease, grace, item, photo, directoryVars, handler, worldVars>>

(* Fault: the notice is written over the one that is there.                    *)
SettleOver(r) ==
    /\ Visiting(r, "settle")
    /\ IF r \in current
       THEN /\ entry' = NoEntry /\ current' = {} /\ Leave(r)
            /\ notice' = IF session.lapsed THEN "unread" ELSE notice
       ELSE Move(r, "release") /\ UNCHANGED <<entry, current, notice>>
    /\ UNCHANGED <<rowVars, handler, worldVars>>

(* The notice and the removal of the entry are one transaction; a notice that
   was written before is left as it is, read or not.                          *)
Settle(r) ==
    /\ Visiting(r, "settle")
    /\ IF r \in current
       THEN /\ entry' = NoEntry /\ current' = {} /\ Leave(r)
            /\ notice' = IF session.lapsed /\ notice = "none" THEN "unread" ELSE notice
       ELSE Move(r, "release") /\ UNCHANGED <<entry, current, notice>>
    /\ UNCHANGED <<rowVars, handler, worldVars>>

(* Only its own claim is given back.                                          *)
Release(r) ==
    /\ Visiting(r, "release")
    /\ IF entry.token = r THEN entry' = [entry EXCEPT !.token = Nobody, !.live = FALSE] /\ current' = {}
       ELSE UNCHANGED entry /\ current' = current \ {r}
    /\ Leave(r)
    /\ UNCHANGED <<rowVars, notice, handler, worldVars>>

Reconcile(r) ==
    \/ Visit(r) \/ Claim(r) \/ Seal(r) \/ VisitPage(r) \/ VisitClose(r)
    \/ VisitDrive(r) \/ Settle(r) \/ Release(r)

Acknowledge ==
    /\ notice = "unread" /\ notice' = "read"
    /\ UNCHANGED <<rowVars, entry, current, handler, replica, worldVars>>

-----------------------------------------------------------------------------
(* Time.  A source write ends within 30 seconds of its check: before a lease
   that had 60 seconds is over, and before the grace of a later fence is.  This
   is an assumption: the code limits the write, not the time before it.       *)
Writing == {h \in Handlers : At(h, "write")}

LeaseLapses ==
    /\ Active /\ lease' = FALSE
    /\ UNCHANGED <<session, grace, item, photo, outbox, directoryVars, handler, replica, worldVars>>

GraceEnds ==
    /\ grace /\ Open /\ \A h \in Writing : handler[h].late
    /\ grace' = FALSE
    /\ UNCHANGED <<session, lease, item, photo, outbox, directoryVars, handler, replica, worldVars>>

FinalizeLeaseRuns ==
    /\ item.outcome = "reserved"
    /\ \/ item.lease = "live" /\ item' = [item EXCEPT !.lease = "short"]
       \/ item.lease = "short" /\ Writing = {} /\ item' = [item EXCEPT !.lease = "none"]
    /\ UNCHANGED <<session, lease, grace, photo, outbox, directoryVars, handler, replica, worldVars>>

EntryAges ==
    /\ entry.young /\ session.state = "none" /\ entry' = [entry EXCEPT !.young = FALSE]
    /\ UNCHANGED <<rowVars, current, notice, handler, replica, worldVars>>

Holding == entry.token # Nobody /\ replica[entry.token].pc \notin {"idle", "claim"}

ClaimLapses ==
    /\ entry.live /\ entry' = [entry EXCEPT !.live = FALSE]
    /\ IF Holding THEN Spend ELSE UNCHANGED spent
    /\ UNCHANGED <<rowVars, current, notice, handler, replica, enabled>>

Time == LeaseLapses \/ GraceEnds \/ FinalizeLeaseRuns \/ EntryAges \/ ClaimLapses

(* Spends and what the operator and the user do.                              *)
RequestDies(h) ==
    /\ ~At(h, "idle") /\ Spend /\ Answer(h)
    /\ UNCHANGED <<rowVars, directoryVars, replica, enabled>>

VisitDies(r) ==
    /\ ~Visiting(r, "idle") /\ Spend /\ Leave(r)
    /\ current' = current \ {r}
    /\ UNCHANGED <<rowVars, entry, notice, handler, enabled>>

HandoffFails(r) ==
    /\ Visiting(r, "drive") /\ session.state # "absent" /\ enabled
    /\ Spend /\ Move(r, "release")
    /\ UNCHANGED <<rowVars, directoryVars, handler, enabled>>

Pause ==
    /\ enabled /\ enabled' = FALSE /\ Spend
    /\ UNCHANGED <<rowVars, directoryVars, handler, replica>>

Resume ==
    /\ ~enabled /\ enabled' = TRUE
    /\ UNCHANGED <<rowVars, directoryVars, handler, replica, spent>>

Next ==
    \/ Register \/ InitUpload \/ Acknowledge \/ Time \/ Pause \/ Resume
    \/ \E h \in Handlers : Request(h) \/ RequestDies(h)
    \/ \E r \in Replicas : Reconcile(r) \/ VisitDies(r) \/ HandoffFails(r)

Spec == Init /\ [][Next]_vars

(* Requests end, entries are visited as long as somebody uses the library,
   time passes and a pause ends.  The browser owes nothing.                   *)
Fairness ==
    /\ \A h \in Handlers : WF_vars(~At(h, "idle") /\ Request(h))
    /\ \A r \in Replicas : WF_vars(Reconcile(r))
    /\ WF_vars(LeaseLapses) /\ WF_vars(GraceEnds) /\ WF_vars(FinalizeLeaseRuns)
    /\ WF_vars(EntryAges) /\ WF_vars(ClaimLapses) /\ WF_vars(Resume)

FairSpec == Spec /\ Fairness

-----------------------------------------------------------------------------
(* Whatever a session still owes, the directory knows of it: an intake that is
   open, a release that was not relayed, an expiry the user was not told of.  *)
NothingUnlisted ==
    Open \/ outbox = "kept" \/ (session.lapsed /\ notice = "none") => entry.there

(* The drain window holds: when a photo becomes active although its item was
   cancelled, the write was checked after the fence.  One checked before it,
   or in a session stopped without a fence, is never cut off.                 *)
DrainWindowHolds ==
    [][photo # "active" /\ photo' = "active" /\ item.outcome = "cancelled" =>
          \E h \in Writing : handler[h].late /\ handler'[h].pc # "write"]_vars

(* The user is told of an expiry once: however late an entry is tracked again
   and settled, a notice that was read is not renewed.                        *)
NoticeOnce == [][notice = "read" => notice' = "read"]_vars

(* A browser that sends no more is settled: the session ends, its release is
   relayed, an expiry is told, and the entry leaves the directory for good,
   whatever requests and replicas died on the way.                            *)
Discharged == ~entry.there /\ ~Open /\ outbox # "kept" /\ (session.lapsed => notice # "none")
Reconciled == <>[]Discharged
=============================================================================
