----------------------------- MODULE IndexIntents -----------------------------
(***************************************************************************)
(* One durable maintenance intent: the row of WorkStore, the queue         *)
(* messages that only wake its consumers, the edit that asks for work, the *)
(* index workers and the inline merger that claim it, the recovery sweep   *)
(* and the handoff of a finished upload wave.                              *)
(*                                                                         *)
(* Abstractions.  Every update of the row is a read and a conditional      *)
(* write, retried when the row moved: it is one step, and running out of   *)
(* the twelve retries is left out.  A stored time is what the code asks of *)
(* it: leaseUntil, wakeUntil and notBefore are in the future or not, and   *)
(* notBefore may also be 0.  An owner is the worker, which holds one claim *)
(* at a time; a reservation is its caller, and Nobody once nothing will    *)
(* compare it; a schedule id and a message id are the first number nothing *)
(* refers to.  Deliveries that are due differ in nothing and are counted;  *)
(* one that is taken comes back if it is kept.  Cancelling a due delivery  *)
(* whose row is gone is left out: it finds no row either.  gate is what the source *)
(* barriers say: a wave is pending, a reservation is active, or neither.   *)
(* A build publishes the changes that were marked when it claimed the      *)
(* row: it may read later ones too.                                        *)
(***************************************************************************)
EXTENDS Naturals, FiniteSets, FiniteSetsExt

CONSTANTS Consumers,    \* index workers: they take deliveries of the queue
          Mergers,      \* inline mergers of the core role, when it has them
          Sweeper,      \* the writer's notify, the sweep and the wave handoff
          Nobody,
          Guarded,      \* source barriers stop the builds of the scope
          Handles,      \* a send returns the handle of its delivery
          Delays,       \* whether a request comes with a coalescing delay
          MaxAttempts,  \* INDEX_BUILD_MAX_RETRIES
          MaxEdits, MaxAsks,
          MaxGates, MaxStalls, MaxLost, MaxFaults, MaxQueue   \* bounds

Workers == Consumers \cup Mergers
InlineMerge == Mergers # {}     \* INLINE_INDEX_MERGE, for a bounded scope

ASSUME IntentAssumption ==
    /\ IsFiniteSet(Workers) /\ Sweeper \notin Workers
    /\ Guarded \in BOOLEAN /\ (Guarded => ~InlineMerge) /\ Handles \in BOOLEAN /\ Delays \subseteq BOOLEAN
    /\ Nobody \notin Workers \cup {Sweeper}
    /\ {MaxAttempts, MaxEdits, MaxAsks, MaxGates, MaxStalls, MaxLost, MaxFaults,
     MaxQueue} \subseteq Nat

VARIABLES
    row,      \* the intent, NoRow when it is deleted
    rev,      \* the last revision a request stored
    ready,    \* due deliveries in the main queue
    deferred, \* messages in the deferred queue
    worker,   \* what each worker is doing
    call,     \* the notify or resume each caller is inside of
    edit,     \* the edit in progress: its step and whether it will advance
    inline,   \* an inline merge is submitted
    gate,     \* the source barriers of the library
    marked,   \* changes of the source, each marked before its request
    built,    \* the newest change a publication is known to contain
    mishaps,  \* claims of the row's revision that failed, crashed or lapsed
    spent     \* what the bounds count

vars == <<row, rev, ready, deferred, worker, call, edit, inline, gate, marked, built, mishaps, spent>>

Callers == Workers \cup {Sweeper}
Times == {"zero", "due", "later"}
Reasons == {"none", "barrier_wait", "wave_wait"}
NoRow == [rev |-> 0, failed |-> FALSE, owner |-> Nobody, lease |-> FALSE, wake |-> FALSE,
          notBefore |-> "zero", reservation |-> Nobody, receipt |-> 0,
          attempts |-> 0, attemptRev |-> 0, reason |-> "none", schedule |-> 0]
Rows == [rev: Nat, failed: BOOLEAN, owner: Workers \cup {Nobody}, lease: BOOLEAN,
         wake: BOOLEAN, notBefore: Times, reservation: Callers \cup {Nobody}, receipt: Nat,
         attempts: Nat, attemptRev: Nat, reason: Reasons, schedule: Nat]
(* stray: its sender never learned its handle, or its cancellation failed.    *)
Messages == [id: Nat, stray: BOOLEAN]
CallSteps == {"idle", "send", "record", "resend", "clear"}
NoCall == [pc |-> "idle", delayed |-> FALSE, previous |-> 0, sent |-> 0, rev |-> 0, schedule |-> 0]
Calls == [pc: CallSteps, delayed: BOOLEAN, previous: Nat, sent: Nat, rev: Nat, schedule: Nat]
WorkSteps == {"idle", "refused", "building", "built", "busy", "park", "yield",
              "recheck", "barrier", "renotify", "calling"}
Idle == [pc |-> "idle", rev |-> 0, attempt |-> 0, sees |-> 0, message |-> FALSE]
Works == [pc: WorkSteps, rev: Nat, attempt: Nat, sees: Nat, message: BOOLEAN]
EditSteps == {"idle", "marked", "metadata", "request"}

TypeOK ==
    /\ row \in Rows /\ rev \in Nat /\ ready \in Nat /\ deferred \subseteq Messages
    /\ worker \in [Workers -> Works] /\ call \in [Callers -> Calls]
    /\ edit \in [pc: EditSteps, advance: BOOLEAN] /\ inline \in BOOLEAN
    /\ gate \in {"clear", "reserved", "wave"} /\ {marked, built, mishaps} \subseteq Nat
    /\ spent \in [asks: Nat, gates: Nat, stalls: Nat, lost: Nat]

Init ==
    /\ row = NoRow /\ rev = 0 /\ ready = 0 /\ deferred = {} /\ gate = "clear"
    /\ worker = [w \in Workers |-> Idle] /\ call = [c \in Callers |-> NoCall]
    /\ edit = [pc |-> "idle", advance |-> FALSE] /\ inline = FALSE
    /\ marked = 0 /\ built = 0 /\ mishaps = 0
    /\ spent = [asks |-> 0, gates |-> 0, stalls |-> 0, lost |-> 0]

-----------------------------------------------------------------------------
Exists == row.rev # 0
Blocked == Guarded /\ gate # "clear"
WavePending == gate = "wave"
Waiting == row.reason = "wave_wait" /\ WavePending
Owns(w) == row.owner = w
Holds(w) == Owns(w) /\ row.lease
Faulty == spent.stalls + spent.lost < MaxFaults
Stall == Faulty /\ spent.stalls < MaxStalls /\ spent' = [spent EXCEPT !.stalls = @ + 1]
Lose == Faulty /\ spent.lost < MaxLost /\ spent' = [spent EXCEPT !.lost = @ + 1]
Contend == spent.gates < MaxGates /\ spent' = [spent EXCEPT !.gates = @ + 1]
Fresh(used) == CHOOSE n \in 1..(Cardinality(used) + 1) : n \notin used

(* Mishaps of the row's revision; the bound asks for no more than the budget. *)
Charge(r) == mishaps' = IF r = row.rev /\ mishaps < MaxAttempts THEN mishaps + 1 ELSE mishaps

(* request: the row a new revision is stored in.                              *)
Earlier(delay) ==
    LET target == IF delay THEN "later" ELSE "due" IN
    CASE ~Exists \/ row.lease \/ row.notBefore = "zero" -> target
      [] row.notBefore = "due" -> "due"
      [] OTHER -> target
NotBefore(delay) ==
    IF Exists /\ ~row.failed /\ row.reason # "none" /\ row.notBefore = "later"
    THEN "later" ELSE Earlier(delay)
Requested(delay) ==
    LET next == [row EXCEPT !.rev = rev + 1, !.failed = FALSE, !.notBefore = NotBefore(delay)] IN
    IF row.failed THEN [next EXCEPT !.owner = Nobody, !.lease = FALSE, !.wake = FALSE] ELSE next

Advance(delay) ==
    /\ row' = Requested(delay) /\ rev' = rev + 1 /\ mishaps' = 0

Request(advance, delay) ==
    IF Exists /\ ~advance THEN UNCHANGED <<row, rev, mishaps>> ELSE Advance(delay)

(* release: plain, behind a barrier, or behind a wave.                        *)
NotRefunded(next, r) == next
Refunded(next, r) ==
    IF row.rev = r /\ row.attempts > 0 THEN [next EXCEPT !.attempts = @ - 1] ELSE next
Released == [row EXCEPT !.owner = Nobody, !.lease = FALSE, !.wake = TRUE]
Schedules == {row.schedule} \cup {call[c].schedule : c \in Callers}
Deferred(r, reason) ==
    Refunded([Released EXCEPT !.wake = FALSE, !.reason = reason,
                 !.notBefore = IF reason = "barrier_wait" THEN "later" ELSE "zero",
                 !.schedule = Fresh(Schedules \ {0})], r)
Unclaimed == [row EXCEPT !.owner = Nobody, !.lease = FALSE, !.wake = FALSE]

(* The queues.                                                                *)
Ids == {m.id : m \in deferred} \cup {row.receipt}
          \cup {call[c].sent : c \in Callers} \cup {call[c].previous : c \in Callers}
Message(stray) == [id |-> Fresh(Ids \ {0}), stray |-> stray]

NotCancelled(id, fails) == deferred
(* Cancelling a receipt may fail: the message then stays in the queue.        *)
Cancelled(id, fails) ==
    IF fails THEN {[m EXCEPT !.stray = @ \/ m.id = id] : m \in deferred}
    ELSE {m \in deferred : m.id # id}

(* The end of a delivery: it is acknowledged, or kept and delivered again.    *)
Back(c, ack) ==
    ready' = IF c \in Workers /\ worker[c].message /\ ~ack THEN ready + 1 ELSE ready
Done(w, ack) == worker' = [worker EXCEPT ![w] = Idle] /\ Back(w, ack)
Goto(w, step) == worker' = [worker EXCEPT ![w].pc = step] /\ UNCHANGED ready
(* The end of a call, from a worker's delivery or from the sweeper's thread.  *)
Reply(c) ==
    /\ call' = [call EXCEPT ![c] = NoCall]
    /\ worker' = IF c \in Workers THEN [worker EXCEPT ![c] = Idle] ELSE worker

-----------------------------------------------------------------------------
(* Edits: the change is marked in the source before the intent is requested.  *)
Mark(kind) ==
    /\ edit.pc = "idle" /\ marked < MaxEdits
    /\ marked' = marked + 1
    /\ edit' = [pc |-> kind, advance |-> TRUE]
    /\ UNCHANGED <<row, rev, ready, deferred, worker, call, inline, gate, built, mishaps, spent>>

(* A metadata change advances the revision only of an intent being worked on. *)
LookAtLease ==
    /\ edit.pc = "metadata"
    /\ edit' = [pc |-> "request", advance |-> row.lease]
    /\ UNCHANGED <<row, rev, ready, deferred, worker, call, inline, gate, marked, built, mishaps, spent>>

Ask(delay) ==
    /\ edit.pc = "request"
    /\ Request(edit.advance, delay)
    /\ edit' = [pc |-> "idle", advance |-> FALSE]
    /\ inline' \in {inline, InlineMerge /\ ~delay}
    /\ UNCHANGED <<ready, deferred, worker, call, gate, marked, built, spent>>

(* The sweep asks again for what the source ledger says is uncovered; it      *)
(* leaves an intent that exists as it is.  A repair revives one given up.     *)
AskAgain ==
    /\ spent.asks < MaxAsks /\ spent' = [spent EXCEPT !.asks = @ + 1]
    /\ ~Exists \/ row.failed
    /\ Request(row.failed, FALSE)
    /\ UNCHANGED <<ready, deferred, worker, call, edit, inline, gate, marked, built>>

-----------------------------------------------------------------------------
(* notify: the wake-up is reserved, sent, and its receipt recorded.           *)
Notifiable == Exists /\ ~row.failed /\ ~row.lease /\ ~row.wake /\ ~Waiting
Reserve(c, head) ==
    LET delayed == head \/ row.notBefore = "later" IN
    /\ row' = [row EXCEPT !.wake = TRUE, !.reservation = IF delayed /\ Handles THEN c ELSE Nobody]
    /\ call' = [call EXCEPT ![c] = [NoCall EXCEPT !.pc = "send", !.delayed = delayed,
                                        !.previous = IF delayed THEN row.receipt ELSE 0]]

(* The writer's own notify, which may give an inline merge a head start, and  *)
(* the sweep's.                                                               *)
Sweep ==
    /\ call[Sweeper].pc = "idle" /\ Notifiable /\ ready + Cardinality(deferred) < MaxQueue
    /\ \E head \in {FALSE, inline} : Reserve(Sweeper, head)
    /\ UNCHANGED <<rev, ready, deferred, worker, edit, inline, gate, marked, built, mishaps, spent>>

(* The sweep passes over a row that waits for a wave, and reserves it so that *)
(* its next page holds other rows.                                            *)
SweepPasses ==
    /\ Exists /\ ~row.failed /\ ~row.lease /\ ~row.wake /\ Waiting
    /\ row' = [row EXCEPT !.wake = TRUE]
    /\ UNCHANGED <<rev, ready, deferred, worker, call, edit, inline, gate, marked, built, mishaps, spent>>

SendNow(c) ==
    /\ call[c].pc = "send" /\ ~call[c].delayed
    /\ ready' = ready + 1 /\ Reply(c)
    /\ UNCHANGED <<row, rev, deferred, edit, inline, gate, marked, built, mishaps, spent>>

SendLater(c) ==
    LET m == Message(~Handles) IN
    /\ call[c].pc = "send" /\ call[c].delayed
    /\ deferred' = deferred \cup {m}
    /\ IF Handles
       THEN call' = [call EXCEPT ![c].pc = "record", ![c].sent = m.id] /\ UNCHANGED worker
       ELSE Reply(c)
    /\ UNCHANGED <<row, rev, ready, edit, inline, gate, marked, built, mishaps, spent>>

(* The send raises; a delayed message may be in the queue all the same.       *)
SendFails(c) ==
    /\ call[c].pc \in {"send", "resend"} /\ Lose
    /\ IF call[c].delayed THEN deferred' \in {deferred, deferred \cup {Message(TRUE)}}
                          ELSE UNCHANGED deferred
    /\ Back(c, FALSE) /\ Reply(c)
    /\ UNCHANGED <<row, rev, edit, inline, gate, marked, built, mishaps>>

(* _record_wakeup *)
Superseded(c) == row.reservation # c /\ row.receipt \notin {0, call[c].previous}
RecordWakeup(c, fails) ==
    LET own == call[c].sent
        attach == Exists /\ ~Superseded(c) IN
    /\ call[c].pc = "record"
    /\ row' = IF attach THEN [row EXCEPT !.receipt = own, !.reservation = IF @ = c THEN Nobody ELSE @] ELSE row
    /\ deferred' = Cancelled(IF attach THEN row.receipt ELSE own, fails)
    /\ Reply(c)
    /\ UNCHANGED <<rev, ready, edit, inline, gate, marked, built, mishaps, spent>>

(* A due delayed message is copied to the main queue before it is deleted.    *)
Promote(m, keeps) ==
    /\ m \in deferred
    /\ IF keeps THEN Lose ELSE UNCHANGED spent
    /\ deferred' = (deferred \ {m}) \cup (IF keeps THEN {[m EXCEPT !.stray = TRUE]} ELSE {})
    /\ ready' = ready + 1
    /\ UNCHANGED <<row, rev, worker, call, edit, inline, gate, marked, built, mishaps>>

-----------------------------------------------------------------------------
(* resume_wave_waits: prepare the row, send, and clear the wait.              *)
Resumable == Exists /\ ~row.failed /\ row.reason = "wave_wait" /\ ~row.lease
Prepare(c) ==
    /\ row' = [row EXCEPT !.notBefore = "zero", !.wake = FALSE]
    /\ call' = [call EXCEPT ![c] = [NoCall EXCEPT !.pc = "resend", !.rev = row.rev,
                                        !.schedule = row.schedule]]

(* The handoff of a finished wave.                                            *)
Handoff ==
    /\ call[Sweeper].pc = "idle" /\ ~WavePending /\ Resumable /\ ready + Cardinality(deferred) < MaxQueue
    /\ Prepare(Sweeper)
    /\ UNCHANGED <<rev, ready, deferred, worker, edit, inline, gate, marked, built, mishaps, spent>>

Resend(c) ==
    /\ call[c].pc = "resend"
    /\ ready' = ready + 1
    /\ call' = [call EXCEPT ![c].pc = "clear"]
    /\ UNCHANGED <<row, rev, deferred, worker, edit, inline, gate, marked, built, mishaps, spent>>

ClearWait(c) ==
    /\ call[c].pc = "clear"
    /\ row' = IF Exists /\ row.rev = call[c].rev /\ row.reason = "wave_wait"
                   /\ row.schedule = call[c].schedule /\ ~row.lease
              THEN [row EXCEPT !.reason = "none", !.schedule = 0, !.wake = TRUE] ELSE row
    /\ Reply(c)
    /\ UNCHANGED <<rev, ready, deferred, edit, inline, gate, marked, built, mishaps, spent>>

-----------------------------------------------------------------------------
(* claim: None for a missing, failed, waiting or embargoed row.               *)
ClaimableBeforeWaiting ==
    Exists /\ ~row.failed /\ ~row.lease /\ row.reason = "none" /\ row.notBefore # "later"
Claimable == Exists /\ ~row.failed /\ ~row.lease /\ ~Waiting /\ row.notBefore # "later"
ClaimedBy(w) ==
    [row EXCEPT !.owner = w, !.lease = TRUE, !.wake = FALSE, !.reservation = Nobody, !.schedule = 0,
                !.attempts = IF row.attemptRev = row.rev THEN @ + 1 ELSE 1, !.attemptRev = row.rev]
Claim(w, message) ==
    /\ row' = ClaimedBy(w)
    /\ worker' = [worker EXCEPT ![w] =
           [pc |-> "building", rev |-> row.rev, attempt |-> row'.attempts, sees |-> marked, message |-> message]]

TakesNothing(w) == w \in Consumers /\ worker[w].pc = "idle" /\ ready' = ready - 1
Takes(w) == w \in Consumers /\ worker[w].pc = "idle" /\ ready > 0 /\ ready' = ready - 1

TakeClaim(w) ==
    /\ Takes(w) /\ Claimable
    /\ Claim(w, TRUE)
    /\ UNCHANGED <<rev, deferred, call, edit, inline, gate, marked, built, mishaps, spent>>

(* Nothing is left to do, the live owner covers it, or the wave it waits for  *)
(* will wake it: the delivery is acknowledged.                                *)
Embargoed == Exists /\ ~row.failed /\ ~row.lease /\ ~Waiting /\ row.notBefore = "later"
TakeObsolete(w) ==
    /\ Takes(w)
    /\ ~Claimable /\ (Embargoed => row.reason = "wave_wait")
    /\ UNCHANGED <<row, rev, deferred, worker, call, edit, inline, gate, marked, built, mishaps, spent>>

(* An early delivery asks for one delayed replacement.                        *)
TakeEarly(w) ==
    /\ Takes(w) /\ Embargoed /\ row.reason # "wave_wait"
    /\ worker' = [worker EXCEPT ![w] = [Idle EXCEPT !.pc = "refused", !.message = TRUE]]
    /\ UNCHANGED <<row, rev, deferred, call, edit, inline, gate, marked, built, mishaps, spent>>

(* The merger of the core role claims without a message.                      *)
InlineClaim(w) ==
    /\ w \in Mergers /\ inline /\ worker[w].pc = "idle" /\ inline' = FALSE
    /\ IF Claimable THEN Claim(w, FALSE) ELSE UNCHANGED <<row, worker>>
    /\ UNCHANGED <<rev, ready, deferred, call, edit, gate, marked, built, mishaps, spent>>

(* A worker's notify at the end of its delivery.  When nothing was sent, the  *)
(* delivery of a barrier is kept, an early one is kept while the embargo      *)
(* stands, and that of a finished claim is acknowledged.                      *)
NotifyAgain(w) ==
    /\ worker[w].pc \in {"refused", "barrier", "renotify"}
    /\ IF Notifiable
       THEN Reserve(w, FALSE) /\ Goto(w, "calling")
       ELSE /\ Done(w, CASE worker[w].pc = "barrier" -> FALSE
                         [] worker[w].pc = "refused" -> row.failed \/ row.notBefore # "later"
                         [] OTHER -> TRUE)
            /\ UNCHANGED <<row, call>>
    /\ UNCHANGED <<deferred, rev, edit, inline, gate, marked, built, mishaps, spent>>

-----------------------------------------------------------------------------
Exhausted(w) == worker[w].message /\ worker[w].attempt > MaxAttempts

BuildOk(w) ==
    /\ worker[w].pc = "building" /\ ~Exhausted(w)
    /\ ~Blocked
    /\ built' = Max({built, worker[w].sees})
    /\ Goto(w, "built")
    /\ UNCHANGED <<deferred, row, rev, call, edit, inline, gate, marked, mishaps, spent>>

(* A source barrier, or contention for the catalog lease.                     *)
BuildBusy(w) ==
    /\ worker[w].pc = "building" /\ worker[w].message
    /\ IF Blocked THEN UNCHANGED spent ELSE ~Exhausted(w) /\ Contend
    /\ Goto(w, "busy")
    /\ UNCHANGED <<deferred, row, rev, call, edit, inline, gate, marked, built, mishaps>>

(* The inline merger finds the change too large, or other work in its way.    *)
InlineDeclines(w) ==
    /\ worker[w].pc = "building" /\ ~worker[w].message
    /\ row' = IF Owns(w) THEN Refunded(Released, worker[w].rev) ELSE row
    /\ Done(w, TRUE)
    /\ UNCHANGED <<deferred, rev, call, edit, inline, gate, marked, built, mishaps, spent>>

(* The build raises.                                                          *)
BuildFails(w) ==
    /\ worker[w].pc = "building" /\ ~Exhausted(w)
    /\ row' = IF Owns(w) THEN Released ELSE row
    /\ Charge(worker[w].rev)
    /\ Done(w, FALSE)
    /\ UNCHANGED <<deferred, rev, call, edit, inline, gate, marked, built, spent>>

(* The budget is spent and no barrier explains it: a dead letter is written   *)
(* and the revision fails, unless an edit has advanced it.                    *)
GiveUp(w) ==
    /\ worker[w].pc = "building" /\ Exhausted(w) /\ ~Blocked
    /\ IF ~Holds(w) THEN row' = (IF Owns(w) THEN Released ELSE row) /\ Done(w, FALSE)
       ELSE IF row.rev # worker[w].rev THEN row' = Unclaimed /\ Goto(w, "renotify")
       ELSE row' = [Unclaimed EXCEPT !.failed = TRUE] /\ Done(w, TRUE)
    /\ UNCHANGED <<deferred, rev, call, edit, inline, gate, marked, built, mishaps, spent>>

AnyRevision(w) == TRUE
OwnRevision(w) == row.rev = worker[w].rev

(* finish: the row goes only if no edit advanced it since it was claimed.     *)
Finish(w, fails) ==
    /\ worker[w].pc = "built" /\ Holds(w) /\ OwnRevision(w)
    /\ row' = NoRow /\ mishaps' = 0
    /\ Done(w, TRUE)
    /\ deferred' = Cancelled(row.receipt, fails)
    /\ UNCHANGED <<rev, call, edit, inline, gate, marked, built, spent>>

FinishNewer(w) ==
    /\ worker[w].pc = "built" /\ Holds(w) /\ ~OwnRevision(w)
    /\ row' = Unclaimed
    /\ IF worker[w].message THEN Goto(w, "renotify") ELSE Done(w, TRUE)
    /\ UNCHANGED <<deferred, rev, call, edit, inline, gate, marked, built, mishaps, spent>>

FinishLost(w) ==
    /\ worker[w].pc = "built" /\ ~Holds(w)
    /\ row' = IF Owns(w) THEN Released ELSE row
    /\ Done(w, FALSE)
    /\ UNCHANGED <<deferred, rev, call, edit, inline, gate, marked, built, mishaps, spent>>

(* A busy source: what is read of the wave chooses how the claim is released, *)
(* and a wave that ended meanwhile is looked for after the release.           *)
ReadGate(w) ==
    /\ worker[w].pc = "busy"
    /\ Goto(w, IF WavePending THEN "park" ELSE "yield")
    /\ UNCHANGED <<deferred, row, rev, call, edit, inline, gate, marked, built, mishaps, spent>>

Park(w) ==
    /\ worker[w].pc = "park"
    /\ IF Owns(w) THEN row' = Deferred(worker[w].rev, "wave_wait") /\ Goto(w, "recheck")
                  ELSE UNCHANGED row /\ Done(w, FALSE)
    /\ UNCHANGED <<deferred, rev, call, edit, inline, gate, marked, built, mishaps, spent>>

Recheck(w) ==
    /\ worker[w].pc = "recheck"
    /\ IF ~WavePending /\ Resumable
       THEN Prepare(w) /\ Goto(w, "calling")
       ELSE Done(w, TRUE) /\ UNCHANGED <<row, call>>
    /\ UNCHANGED <<deferred, rev, edit, inline, gate, marked, built, mishaps, spent>>

Yield(w) ==
    /\ worker[w].pc = "yield"
    /\ IF Owns(w) THEN row' = Deferred(worker[w].rev, "barrier_wait") /\ Goto(w, "barrier")
                  ELSE UNCHANGED row /\ Done(w, FALSE)
    /\ UNCHANGED <<deferred, rev, call, edit, inline, gate, marked, built, mishaps, spent>>

-----------------------------------------------------------------------------
(* Time passes: an embargo ends, a reservation expires, a lease lapses.  The  *)
(* lease of a worker that still holds its claim lapses only when it stalls.   *)
EmbargoEnds ==
    /\ row.notBefore = "later" /\ row' = [row EXCEPT !.notBefore = "due"]
    /\ UNCHANGED <<rev, ready, deferred, worker, call, edit, inline, gate, marked, built, mishaps, spent>>

WakeExpires ==
    /\ row.wake /\ row' = [row EXCEPT !.wake = FALSE]
    /\ UNCHANGED <<rev, ready, deferred, worker, call, edit, inline, gate, marked, built, mishaps, spent>>

Working(w) == worker[w].pc \in {"building", "built", "busy", "park", "yield"}
LeaseLapses ==
    /\ row.lease /\ row' = [row EXCEPT !.lease = FALSE]
    /\ IF Working(row.owner) THEN Stall /\ Charge(worker[row.owner].rev) ELSE UNCHANGED <<mishaps, spent>>
    /\ UNCHANGED <<rev, ready, deferred, worker, call, edit, inline, gate, marked, built>>

(* A process dies inside of a delivery or a call.                             *)
Crash(c) ==
    /\ Stall
    /\ call[c].pc # "idle" \/ (c \in Workers /\ worker[c].pc # "idle")
    /\ deferred' = {[m EXCEPT !.stray = @ \/ m.id = call[c].sent] : m \in deferred}
    /\ Back(c, FALSE)
    /\ call' = [call EXCEPT ![c] = NoCall]
    /\ IF c \in Workers
       THEN /\ worker' = [worker EXCEPT ![c] = Idle]
            /\ IF Working(c) /\ Owns(c) THEN Charge(worker[c].rev) ELSE UNCHANGED mishaps
       ELSE UNCHANGED <<worker, mishaps>>
    /\ UNCHANGED <<row, rev, edit, inline, gate, marked, built>>

(* The source barriers rise and fall.                                         *)
GateRises(to) ==
    /\ gate = "clear" /\ to # "clear"
    /\ gate' = to /\ Contend
    /\ UNCHANGED <<row, rev, ready, deferred, worker, call, edit, inline, marked, built, mishaps>>
GateFalls ==
    /\ gate # "clear" /\ gate' = "clear"
    /\ UNCHANGED <<row, rev, ready, deferred, worker, call, edit, inline, marked, built, mishaps, spent>>

-----------------------------------------------------------------------------
CallStep(c) == SendNow(c) \/ SendLater(c) \/ Resend(c) \/ ClearWait(c)
               \/ (\E fails \in BOOLEAN : RecordWakeup(c, fails))
Take(w) == TakeClaim(w) \/ TakeObsolete(w) \/ TakeEarly(w)
Work(w) ==
    \/ BuildOk(w) \/ BuildFails(w) \/ InlineDeclines(w) \/ GiveUp(w)
    \/ (\E fails \in BOOLEAN : Finish(w, fails)) \/ FinishNewer(w) \/ FinishLost(w)
    \/ ReadGate(w) \/ Park(w) \/ Recheck(w) \/ Yield(w) \/ NotifyAgain(w)
Edits == Mark("request") \/ Mark("metadata") \/ LookAtLease \/ (\E delay \in Delays : Ask(delay))
Timers == EmbargoEnds \/ WakeExpires
Promotes == \E m \in deferred : Promote(m, FALSE)

Next ==
    \/ Edits \/ AskAgain
    \/ Sweep \/ SweepPasses \/ Handoff
    \/ Timers \/ LeaseLapses
    \/ Promotes \/ (\E m \in deferred : Promote(m, TRUE))
    \/ GateRises("reserved") \/ GateRises("wave") \/ GateFalls
    \/ \E c \in Callers : CallStep(c) \/ SendFails(c) \/ Crash(c)
    \/ \E w \in Workers : Take(w) \/ InlineClaim(w) \/ Work(w) \/ BuildBusy(w)

Spec == Init /\ [][Next]_vars

(* The sweep runs every minute, the queues redeliver what is not              *)
(* acknowledged, time passes, waves and reservations end, and a worker or a   *)
(* thread that does not crash goes on.                                        *)
FairSpec ==
    /\ Spec
    /\ WF_vars(LookAtLease \/ \E delay \in Delays : Ask(delay))
    /\ WF_vars(EmbargoEnds) /\ WF_vars(WakeExpires) /\ WF_vars(Promotes) /\ WF_vars(GateFalls)
    /\ WF_vars(LeaseLapses /\ ~Working(row.owner))
    /\ WF_vars(Sweep \/ CallStep(Sweeper))
    /\ \A w \in Workers : WF_vars(Take(w) \/ Work(w) \/ BuildBusy(w) \/ CallStep(w))

-----------------------------------------------------------------------------
(* The promise of index_work.py's opening lines: "completing an earlier       *)
(* revision cannot consume edits received during a run".                      *)
Promise == INSTANCE DurableIntent WITH
    asked <- IF edit.pc = "idle" THEN marked ELSE marked - 1,
    status <- IF ~Exists THEN "none" ELSE IF row.failed THEN "failed" ELSE "pending"
KeepsThePromise == Promise!IntentSpec

(* An intent is given up only after as many claims of that very revision      *)
(* failed, crashed or lapsed as the budget allows: waiting for a wave, a      *)
(* reservation or the catalog lease, and edits in between, cost nothing.      *)
FailedOnlyByMishaps == row.failed => mishaps >= MaxAttempts

(* Every delayed delivery that nobody lost track of is the row's receipt, or  *)
(* the call that sent it is about to record it: "instead of leaving an        *)
(* untracked wake behind".                                                    *)
DelayedWakesTracked ==
    \A m \in deferred : ~m.stray =>
        \/ Exists /\ row.receipt = m.id
        \/ \E c \in Callers : call[c].pc = "record" /\ call[c].sent = m.id

(* No edit and no handoff shortens a barrier's delay: once a claim was        *)
(* released to wait for a barrier, the next claim comes after the delay.  (A  *)
(* claim keeps the reason it was released for, so it says nothing by itself.) *)
EmbargoKept ==
    [][row.owner = Nobody /\ row.reason = "barrier_wait" /\ row.notBefore = "later" /\ ~row.failed
         => row' = NoRow \/ row'.notBefore = "later" \/ EmbargoEnds]_vars

(* Every edit's intent is built, or given up where it can be seen.            *)
EveryIntentSettles == (Exists /\ ~row.failed) ~> (~Exists \/ row.failed)
=============================================================================
