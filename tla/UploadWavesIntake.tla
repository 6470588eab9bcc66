------------------------- MODULE UploadWavesIntake -------------------------
(***************************************************************************)
(* What intake promises, for any number of sessions, items and photos and   *)
(* any page size: the cached counters are the number of rows they count, a  *)
(* resolved item's photo is a member of its session's wave and every member *)
(* came from such an item, and what was stopped stays stopped.              *)
(*                                                                         *)
(* The argument.  Four transactions touch an item's outcome or a session's  *)
(* counters: open_session, register, resolve_many and a page of abandon     *)
(* (ItemSteps).  Each moves a set of items from one outcome to another and   *)
(* adds its size to the counter of the set it moves them into; each item    *)
(* leaves "none" once and "reserved" once, so no size is added twice.  A    *)
(* member row is created by the transaction that binds its first item, and  *)
(* no later one takes its kind or its need of a projection away.            *)
(***************************************************************************)
EXTENDS UploadWavesChain

-----------------------------------------------------------------------------
(* The invariant. *)

Registered(s) == {i \in Items : item[s][i].outcome # "none"}
Resolved(s) == {i \in Items : item[s][i].outcome \in Outcomes}
SessionsOf(w) == {s \in Sessions : session[s].wave = w}

ItemsCounted ==
    \A s \in Sessions :
        /\ session[s].registered = Cardinality(Registered(s))
        /\ session[s].resolved = Cardinality(Resolved(s))
        /\ session[s].registered <= session[s].declared

RowsCounted ==
    \A w \in Waves :
        /\ wave[w].sessions = Cardinality(SessionsOf(w))
        /\ wave[w].members = Cardinality(Members(w))

(* A session that joined no wave has registered nothing. *)
FreshSessions == \A s \in Sessions : session[s].wave = 0 => session[s].registered = 0

(* A session's evidence row is no member. *)
SessionRowsApart ==
    \A w \in Waves, s \in Sessions : evidence[w][SessionKey(s)].kind # "member"

(* Nobody abandons a session that has not opened. *)
NeverStarted == \A s \in Sessions : session[s].state = "none" => ~ session[s].abandoning

CountInv ==
    ItemsCounted /\ RowsCounted /\ FreshSessions /\ SessionRowsApart /\ NeverStarted

-----------------------------------------------------------------------------
(* Which steps touch items and counters. *)

(* Every session keeps its place, its counters and its items' outcomes, and
   what was stopped stays so. *)
IntakeQuiet ==
    \A s \in Sessions :
        /\ session'[s].wave = session[s].wave
        /\ session'[s].registered = session[s].registered
        /\ session'[s].resolved = session[s].resolved
        /\ session'[s].declared = session[s].declared
        /\ session[s].abandoning => session'[s].abandoning
        /\ session[s].state \in {"closed", "abandoned", "absent"} =>
              session'[s].state = session[s].state
        /\ session'[s].state = "none" => session'[s] = session[s]
        /\ \A i \in Items : /\ item'[s][i].outcome = item[s][i].outcome
                            /\ item'[s][i].src = item[s][i].src

Registers(s) == \E page \in Pages : Register(s, page)

(* Rewriting one session row can be quiet. *)
LEMMA OneRowQuiet ==
    ASSUME TypeOK, NEW s \in Sessions, NEW row,
           session' = [session EXCEPT ![s] = row],
           row.wave = session[s].wave, row.registered = session[s].registered,
           row.resolved = session[s].resolved, row.declared = session[s].declared,
           session[s].abandoning => row.abandoning,
           session[s].state \in {"none", "open"}, row.state # "none",
           \A t \in Sessions, i \in Items : /\ item'[t][i].outcome = item[t][i].outcome
                                            /\ item'[t][i].src = item[t][i].src
    PROVE  IntakeQuiet
BY DEF TypeOK, IntakeQuiet

(* Moving a finalize lease touches no outcome. *)
LEMMA OneItemQuiet ==
    ASSUME TypeOK, NEW s \in Sessions, NEW i \in Items, NEW fin,
           item' = [item EXCEPT ![s][i].fin = fin]
    PROVE  \A t \in Sessions, j \in Items : /\ item'[t][j].outcome = item[t][j].outcome
                                            /\ item'[t][j].src = item[t][j].src
BY DEF TypeOK, ItemRow

(* Closing a session counts nothing. *)
LEMMA CloseQuiet ==
    ASSUME TypeOK, NEW s \in Sessions, NEW state, state # "none",
           session[s].state = "open", CloseAs(s, state)
    PROVE  IntakeQuiet
<1> DEFINE row == [Stopped(session[s]) EXCEPT !.state = state]
<1>1. session' = [session EXCEPT ![s] = row]
  BY DEF CloseAs
<1>2. item' = [item EXCEPT ![s] = [i \in Items |-> [item[s][i] EXCEPT !.fin = "no"]]]
  BY DEF CloseAs
<1>3. \A t \in Sessions, j \in Items : /\ item'[t][j].outcome = item[t][j].outcome
                                       /\ item'[t][j].src = item[t][j].src
  BY <1>2 DEF TypeOK, ItemRow
<1>4. session[s] \in SessionRow
  BY DEF TypeOK
<1>5. /\ row.wave = session[s].wave /\ row.registered = session[s].registered
      /\ row.resolved = session[s].resolved /\ row.declared = session[s].declared
      /\ row.abandoning = session[s].abandoning /\ row.state = state
  BY <1>4 DEF Stopped, SessionRow
<1> HIDE DEF row
<1> QED
  BY <1>1, <1>3, <1>5, OneRowQuiet

(* Only these four touch an item's outcome or a session's counters. *)
LEMMA ItemSteps ==
    ASSUME IInv, [Next]_vars,
           ~ \E s \in Sessions : Opens(s) \/ Registers(s) \/ Resolves(s) \/ AbandonPage(s)
    PROVE  IntakeQuiet
<1> TypeOK /\ (\A s \in Sessions : session[s] \in SessionRow)
  BY DEF IInv, TypeInv, TypeOK
<1>1. ASSUME UNCHANGED <<session, item>> PROVE IntakeQuiet
  BY <1>1 DEF IntakeQuiet
<1>2. ASSUME NEW s \in Sessions, Intake(s)
      PROVE  IntakeQuiet
  <2>1. ASSUME NEW i \in Items, AdmitFinalize(s, i)
        PROVE  IntakeQuiet
    <3>1. CASE session[s].state = "open"
      <4> DEFINE row == [session[s] EXCEPT !.lease = Extended(session[s])]
      <4>1. session' = [session EXCEPT ![s] = row] /\ item' = [item EXCEPT ![s][i].fin = "live"]
        BY <2>1, <3>1 DEF AdmitFinalize
      <4>2. /\ row.wave = session[s].wave /\ row.registered = session[s].registered
            /\ row.resolved = session[s].resolved /\ row.declared = session[s].declared
            /\ row.abandoning = session[s].abandoning /\ row.state = session[s].state
        BY DEF SessionRow
      <4> HIDE DEF row
      <4>3. \A t \in Sessions, j \in Items : /\ item'[t][j].outcome = item[t][j].outcome
                                             /\ item'[t][j].src = item[t][j].src
        BY <4>1, OneItemQuiet
      <4> QED
        BY <3>1, <4>1, <4>2, <4>3, OneRowQuiet
    <3>2. CASE session[s].state # "open"
      BY <1>1, <2>1, <3>2 DEF AdmitFinalize
    <3> QED
      BY <3>1, <3>2
  <2>2. ASSUME Close(s)
        PROVE  IntakeQuiet
    BY <2>2, CloseQuiet DEF Close, Complete
  <2> QED
    BY <1>2, <2>1, <2>2 DEF Intake, Opens, Registers, Resolves
<1>3. ASSUME NEW s \in Sessions, Cancellation(s)
      PROVE  IntakeQuiet
  <2>1. ASSUME SealExpired(s)
        PROVE  IntakeQuiet
    <3> DEFINE row == [session[s] EXCEPT !.abandoning = TRUE, !.drain = "running"]
    <3>1. session' = [session EXCEPT ![s] = row] /\ UNCHANGED item /\ session[s].state = "open"
      BY <2>1 DEF SealExpired
    <3>2. /\ row.wave = session[s].wave /\ row.registered = session[s].registered
          /\ row.resolved = session[s].resolved /\ row.declared = session[s].declared
          /\ row.abandoning /\ row.state = session[s].state
      BY DEF SessionRow
    <3> HIDE DEF row
    <3> QED
      BY <3>1, <3>2, OneRowQuiet
  <2>2. ASSUME FenceDiscard(s)
        PROVE  IntakeQuiet
    <3> DEFINE fenced == [session[s] EXCEPT !.abandoning = TRUE, !.drain = "running"]
               absent == [session[s] EXCEPT !.state = "absent"]
    <3>1. /\ UNCHANGED item
          /\ \/ session' = [session EXCEPT ![s] = fenced] /\ session[s].state = "open"
             \/ session' = [session EXCEPT ![s] = absent] /\ session[s].state = "none"
      BY <2>2 DEF FenceDiscard
    <3>2. /\ fenced.wave = session[s].wave /\ fenced.registered = session[s].registered
          /\ fenced.resolved = session[s].resolved /\ fenced.declared = session[s].declared
          /\ fenced.abandoning /\ fenced.state = session[s].state
      BY DEF SessionRow
    <3>3. /\ absent.wave = session[s].wave /\ absent.registered = session[s].registered
          /\ absent.resolved = session[s].resolved /\ absent.declared = session[s].declared
          /\ absent.abandoning = session[s].abandoning /\ absent.state = "absent"
      BY DEF SessionRow
    <3> HIDE DEF fenced, absent
    <3> QED
      BY <3>1, <3>2, <3>3, OneRowQuiet
  <2>3. ASSUME CloseAbandoned(s)
        PROVE  IntakeQuiet
    BY <2>3, CloseQuiet DEF CloseAbandoned
  <2> QED
    BY <1>3, <2>1, <2>2, <2>3 DEF Cancellation
<1>4. ASSUME NEW s \in Sessions, Time(s)
      PROVE  IntakeQuiet
  <2>1. ASSUME NEW i \in Items, FinalizeLeaseLapses(s, i)
        PROVE  IntakeQuiet
    BY <2>1, OneItemQuiet DEF FinalizeLeaseLapses, IntakeQuiet
  <2>2. ASSUME LeaseLapses(s) \/ DrainEnds(s)
        PROVE  IntakeQuiet
    <3> DEFINE lapsed == [session[s] EXCEPT !.lease = "lapsed"]
               over == [session[s] EXCEPT !.drain = "over"]
    <3>1. /\ UNCHANGED item /\ session[s].state = "open"
          /\ session' = [session EXCEPT ![s] = lapsed] \/ session' = [session EXCEPT ![s] = over]
      BY <2>2 DEF LeaseLapses, DrainEnds
    <3>2. /\ lapsed.wave = session[s].wave /\ lapsed.registered = session[s].registered
          /\ lapsed.resolved = session[s].resolved /\ lapsed.declared = session[s].declared
          /\ lapsed.abandoning = session[s].abandoning /\ lapsed.state = session[s].state
      BY DEF SessionRow
    <3>3. /\ over.wave = session[s].wave /\ over.registered = session[s].registered
          /\ over.resolved = session[s].resolved /\ over.declared = session[s].declared
          /\ over.abandoning = session[s].abandoning /\ over.state = session[s].state
      BY DEF SessionRow
    <3> HIDE DEF lapsed, over
    <3> QED
      BY <3>1, <3>2, <3>3, OneRowQuiet
  <2> QED
    BY <1>4, <2>1, <2>2 DEF Time
<1>5. ASSUME NEW w \in Waves, BarrierStep(w) \/ Publication(w)
      PROVE  IntakeQuiet
  BY <1>1, <1>5 DEF BarrierStep, PromoteSuccessor, CommitObservations, Observe, Settle,
     EvaluateRead, Publication, ProbeImpossible, ProbeSavePage, CompleteEmpty,
     CommitAssignment, RecordPublicationMembers, CompleteIndexing
<1>6. ASSUME Evaluation \/ EvaluateCrash \/ Enroll \/ UNCHANGED vars
      PROVE  IntakeQuiet
  BY <1>1, <1>6 DEF Evaluation, EvaluateSavePage, EvaluateHold, EvaluateFreeze,
     EvaluateCrash, Enroll, vars
<1> QED
  BY <1>2, <1>3, <1>4, <1>5, <1>6 DEF Next

-----------------------------------------------------------------------------
(* What those four do. *)

(* A set of reserved items gets its outcomes, and resolvedCount its size. *)
Decides(s, pending) ==
    /\ pending \in SUBSET Items
    /\ session[s].state = "open"
    /\ \A i \in pending : /\ item[s][i].outcome = "reserved"
                          /\ item'[s][i].outcome \in Outcomes
    /\ \A i \in Items \ pending : /\ item'[s][i].outcome = item[s][i].outcome
                                  /\ item'[s][i].src = item[s][i].src
    /\ \A t \in Sessions \ {s} : item'[t] = item[t] /\ session'[t] = session[t]
    /\ session'[s].state = session[s].state /\ session'[s].wave = session[s].wave
    /\ session'[s].registered = session[s].registered
    /\ session'[s].resolved = session[s].resolved + Cardinality(pending)
    /\ session'[s].declared = session[s].declared
    /\ session[s].abandoning => session'[s].abandoning

(* A page of abandon cancels its reservations. *)
LEMMA AbandonDecides ==
    ASSUME IInv, NEW s \in Sessions, AbandonPage(s)
    PROVE  \E pending : /\ Decides(s, pending)
                        /\ \A i \in pending : item'[s][i].outcome = "cancelled"
<1> TypeOK /\ session[s] \in SessionRow
  BY DEF IInv, TypeInv, TypeOK
<1> DEFINE rest == {i \in Items : i > session[s].cursor /\ item[s][i].outcome # "none"}
<1>1. PICK page \in SUBSET rest :
        /\ item' = [item EXCEPT ![s] =
                       [i \in Items |-> IF i \in Reserved(s, page)
                                        THEN [item[s][i] EXCEPT !.outcome = "cancelled"]
                                        ELSE item[s][i]]]
        /\ session' = [session EXCEPT ![s] =
                          [session[s] EXCEPT
                              !.abandoning = TRUE,
                              !.cursor = LastOf(page, session[s].cursor),
                              !.scanned = Cardinality(page) < MaxPage,
                              !.resolved = session[s].resolved + Cardinality(Reserved(s, page))]]
  BY DEF AbandonPage
<1> DEFINE pending == Reserved(s, page)
           row == [session[s] EXCEPT
                      !.abandoning = TRUE,
                      !.cursor = LastOf(page, session[s].cursor),
                      !.scanned = Cardinality(page) < MaxPage,
                      !.resolved = session[s].resolved + Cardinality(pending)]
<1>2. pending \in SUBSET Items /\ \A i \in pending : item[s][i].outcome = "reserved"
  BY DEF Reserved
<1>3. /\ row.state = session[s].state
      /\ row.wave = session[s].wave /\ row.registered = session[s].registered
      /\ row.resolved = session[s].resolved + Cardinality(pending)
      /\ row.declared = session[s].declared /\ row.abandoning
  BY DEF SessionRow
<1>4. session' = [session EXCEPT ![s] = row]
  BY <1>1
<1> HIDE DEF row
<1>5. session'[s] = row /\ \A t \in Sessions \ {s} : item'[t] = item[t] /\ session'[t] = session[t]
  BY <1>1, <1>4 DEF TypeOK
<1>6. \A i \in Items : item'[s][i] = IF i \in pending THEN [item[s][i] EXCEPT !.outcome = "cancelled"]
                                     ELSE item[s][i]
  BY <1>1 DEF TypeOK
<1> HIDE DEF pending
<1>7. ASSUME NEW i \in pending
      PROVE  item'[s][i].outcome = "cancelled"
  <2>1. i \in Items /\ item[s][i] \in ItemRow
    BY <1>2 DEF TypeOK
  <2>2. [item[s][i] EXCEPT !.outcome = "cancelled"].outcome = "cancelled"
    BY <2>1 DEF ItemRow
  <2> QED
    BY <1>6, <2>1, <2>2
<1>8. session[s].state = "open"
  BY DEF AbandonPage
<1>9. Decides(s, pending)
  BY <1>2, <1>3, <1>5, <1>6, <1>7, <1>8 DEF Decides, Outcomes
<1> QED
  BY <1>7, <1>9

(* resolve_many binds the reserved items of its page as it was asked. *)
LEMMA ResolveDecides ==
    ASSUME IInv, NEW s \in Sessions, NEW page \in Pages,
           NEW binding \in [page -> Bindings], ResolveMany(s, binding)
    PROVE  LET pending == Reserved(s, page) IN
           /\ Decides(s, pending)
           /\ pending \subseteq page
           /\ \A i \in pending : /\ item'[s][i].outcome = binding[i].outcome
                                 /\ item'[s][i].src = binding[i].src
<1> TypeOK /\ session[s] \in SessionRow
  BY DEF IInv, TypeInv, TypeOK
<1> DEFINE pending == Reserved(s, page)
           row == [session[s] EXCEPT
                      !.resolved = session[s].resolved + Cardinality(pending),
                      !.lease = IF session[s].abandoning THEN session[s].lease
                                ELSE Extended(session[s])]
<1>1. DOMAIN binding = page /\ page \subseteq Items
  BY DEF Pages
<1>2. /\ item' = [item EXCEPT ![s] =
                     [i \in Items |-> IF i \in pending
                                      THEN [item[s][i] EXCEPT !.outcome = binding[i].outcome,
                                                              !.src = binding[i].src]
                                      ELSE item[s][i]]]
      /\ session' = [session EXCEPT ![s] = row]
      /\ session[s].state = "open"
  BY <1>1 DEF ResolveMany
<1>3. /\ row.state = session[s].state
      /\ row.wave = session[s].wave /\ row.registered = session[s].registered
      /\ row.resolved = session[s].resolved + Cardinality(pending)
      /\ row.declared = session[s].declared /\ row.abandoning = session[s].abandoning
  BY DEF SessionRow
<1> HIDE DEF row
<1>4. pending \in SUBSET Items /\ pending \subseteq page /\ \A i \in pending : item[s][i].outcome = "reserved"
  BY <1>1 DEF Reserved
<1>5. session'[s] = row /\ \A t \in Sessions \ {s} : item'[t] = item[t] /\ session'[t] = session[t]
  BY <1>2 DEF TypeOK
<1>6. \A i \in Items : item'[s][i] = IF i \in pending
                                     THEN [item[s][i] EXCEPT !.outcome = binding[i].outcome,
                                                             !.src = binding[i].src]
                                     ELSE item[s][i]
  BY <1>2 DEF TypeOK
<1> HIDE DEF pending
<1>7. ASSUME NEW i \in pending
      PROVE  item'[s][i].outcome = binding[i].outcome /\ item'[s][i].src = binding[i].src
  <2>1. i \in Items /\ item[s][i] \in ItemRow
    BY <1>4 DEF TypeOK
  <2> DEFINE bound == [item[s][i] EXCEPT !.outcome = binding[i].outcome, !.src = binding[i].src]
  <2>2. bound.outcome = binding[i].outcome /\ bound.src = binding[i].src
    BY <2>1 DEF ItemRow
  <2>3. item'[s][i] = bound
    BY <1>6, <2>1
  <2> HIDE DEF bound
  <2> QED
    BY <2>2, <2>3
<1>8. \A i \in pending : binding[i].outcome \in Outcomes
  BY <1>4 DEF Bindings, Admitting, Outcomes
<1>9. Decides(s, pending)
  BY <1>2, <1>3, <1>4, <1>5, <1>6, <1>7, <1>8 DEF Decides
<1> QED
  BY <1>4, <1>7, <1>9 DEF pending

(* A set of new items is reserved, and registeredCount grows by its size. *)
Reserves(s, new) ==
    /\ new \in SUBSET Items
    /\ \A i \in new : /\ item[s][i].outcome = "none"
                      /\ item'[s][i].outcome = "reserved"
    /\ \A i \in Items \ new : /\ item'[s][i].outcome = item[s][i].outcome
                              /\ item'[s][i].src = item[s][i].src
    /\ session'[s].registered = session[s].registered + Cardinality(new)
    /\ session'[s].registered <= session[s].declared

LEMMA RegisterReserves ==
    ASSUME IInv, NEW s \in Sessions, Registers(s)
    PROVE  /\ \E new : Reserves(s, new)
           /\ \A t \in Sessions \ {s} : item'[t] = item[t] /\ session'[t] = session[t]
           /\ session[s].state = "open" /\ ~ session[s].abandoning
           /\ session'[s].state = session[s].state /\ session'[s].wave = session[s].wave
           /\ session'[s].resolved = session[s].resolved
           /\ session'[s].declared = session[s].declared
<1> TypeOK /\ session[s] \in SessionRow
  BY DEF IInv, TypeInv, TypeOK
<1>1. PICK page \in Pages : Register(s, page)
  BY DEF Registers
<1> DEFINE new == {i \in page : item[s][i].outcome = "none"}
           row == [session[s] EXCEPT !.registered = session[s].registered + Cardinality(new),
                                     !.lease = Extended(session[s])]
<1>2. /\ item' = [item EXCEPT ![s] =
                     [i \in Items |-> IF i \in new THEN [NoItem EXCEPT !.outcome = "reserved"]
                                      ELSE item[s][i]]]
      /\ session' = [session EXCEPT ![s] = row]
      /\ session[s].state = "open" /\ ~ session[s].abandoning
      /\ session[s].registered + Cardinality(new) <= session[s].declared
  BY <1>1 DEF Register, Active
<1>3. /\ row.state = session[s].state
      /\ row.wave = session[s].wave /\ row.resolved = session[s].resolved
      /\ row.registered = session[s].registered + Cardinality(new)
      /\ row.declared = session[s].declared
  BY DEF SessionRow
<1> HIDE DEF row
<1>4. new \in SUBSET Items /\ \A i \in new : item[s][i].outcome = "none"
  BY DEF Pages
<1>5. session'[s] = row /\ \A t \in Sessions \ {s} : item'[t] = item[t] /\ session'[t] = session[t]
  BY <1>2 DEF TypeOK
<1>6. \A i \in Items : item'[s][i] = IF i \in new THEN [NoItem EXCEPT !.outcome = "reserved"]
                                     ELSE item[s][i]
  BY <1>2 DEF TypeOK
<1>7. \A i \in new : item'[s][i].outcome = "reserved"
  BY <1>4, <1>6 DEF NoItem
<1> HIDE DEF new
<1>8. Reserves(s, new)
  BY <1>2, <1>3, <1>4, <1>5, <1>6, <1>7 DEF Reserves
<1> QED
  BY <1>2, <1>3, <1>5, <1>8

(* A session opens with nothing registered, and its wave counts it. *)
LEMMA OpensCounts ==
    ASSUME IInv, NEW s \in Sessions, Opens(s)
    PROVE  /\ session[s].state = "none" /\ session[s].wave = 0
           /\ UNCHANGED item
           /\ session'[s].state = "open"
           /\ session'[s].registered = 0 /\ session'[s].resolved = 0
           /\ session'[s].declared \in Nat
           /\ \A t \in Sessions \ {s} : session'[t] = session[t]
           /\ \E w \in Waves :
                 /\ session'[s].wave = w
                 /\ wave'[w].sessions = wave[w].sessions + 1
                 /\ wave'[w].members = wave[w].members
                 /\ \A v \in Waves \ {w} : wave'[v] = wave[v]
                 /\ evidence' = [evidence EXCEPT ![w][SessionKey(s)] = SessionEvidence("open")]
<1> TypeOK /\ UnusedWaves /\ SessionsPlaced
  BY DEF IInv, TypeInv
<1>1. PICK declared \in Declarations : OpenSession(s, declared)
  BY DEF Opens
<1>2. PICK w \in Waves :
        /\ wave' = [wave EXCEPT ![w] =
                       Reopened(IF wave[w].state = "none" THEN FreshWave ELSE wave[w])]
        /\ session' = [session EXCEPT ![s] =
                          [NoSession EXCEPT !.state = "open", !.wave = w,
                                            !.declared = declared,
                                            !.lease = IF enrolled THEN "live" ELSE "none"]]
        /\ evidence' = [evidence EXCEPT ![w][SessionKey(s)] = SessionEvidence("open")]
  BY <1>1 DEF OpenSession
<1> DEFINE base == IF wave[w].state = "none" THEN FreshWave ELSE wave[w]
<1>3. base \in WaveRow
  BY BlankRows DEF FreshWave, WaveRow, Waves, TypeOK
<1>4. base.sessions = wave[w].sessions /\ base.members = wave[w].members
  BY DEF UnusedWaves, FreshWave, NoWave
<1>5. wave' = [wave EXCEPT ![w] = Reopened(base)]
  BY <1>2
<1> HIDE DEF base
<1>6. Reopened(base).sessions = base.sessions + 1 /\ Reopened(base).members = base.members
  BY <1>3 DEF Reopened, WaveRow
<1>7. /\ wave'[w].sessions = wave[w].sessions + 1 /\ wave'[w].members = wave[w].members
      /\ \A v \in Waves \ {w} : wave'[v] = wave[v]
  BY <1>4, <1>5, <1>6 DEF TypeOK
<1>8. /\ session'[s].state = "open" /\ session'[s].wave = w
      /\ session'[s].registered = 0 /\ session'[s].resolved = 0
      /\ session'[s].declared = declared
      /\ \A t \in Sessions \ {s} : session'[t] = session[t]
  BY <1>2 DEF TypeOK, NoSession
<1>9. declared \in Nat
  BY SessionsAssumption, NumbersAssumption
<1>10. session[s].state = "none" /\ UNCHANGED item
  BY <1>1 DEF OpenSession
<1>11. session[s].wave = 0
  BY <1>10 DEF SessionsPlaced
<1> QED
  BY <1>2, <1>7, <1>8, <1>9, <1>10, <1>11

(* No other step changes sessionCount or memberCount. *)
LEMMA RowCountsKept ==
    ASSUME IInv, [Next]_vars, ~ \E s \in Sessions : Opens(s) \/ Resolves(s)
    PROVE  \A w \in Waves : /\ wave'[w].sessions = wave[w].sessions
                            /\ wave'[w].members = wave[w].members
<1> DEFINE Kept == \A w \in Waves : /\ wave'[w].sessions = wave[w].sessions
                                    /\ wave'[w].members = wave[w].members
<1> SUFFICES Kept
  OBVIOUS
<1> TypeOK /\ \A w \in Waves : wave[w] \in WaveRow
  BY DEF IInv, TypeInv, TypeOK
<1>1. ASSUME UNCHANGED wave PROVE Kept
  BY <1>1
<1>2. ASSUME NEW w \in Waves, NEW row, wave' = [wave EXCEPT ![w] = row],
             row.sessions = wave[w].sessions, row.members = wave[w].members
      PROVE  Kept
  BY <1>2 DEF TypeOK
<1> HIDE DEF Kept
<1>3. ASSUME NEW s \in Sessions, NEW state, session[s].state = "open", CloseAs(s, state)
      PROVE  Kept
  <2>0. PICK w \in Waves : w = session[s].wave
    BY <1>3, OpenSessionsWave DEF IInv
  <2>1. PICK left, next, vision :
          wave' = [wave EXCEPT ![w] = [wave[w] EXCEPT !.open = left, !.state = next, !.vision = vision]]
    BY <1>3, <2>0 DEF CloseAs
  <2> DEFINE row == [wave[w] EXCEPT !.open = left, !.state = next, !.vision = vision]
  <2>2. row.sessions = wave[w].sessions /\ row.members = wave[w].members
    BY DEF WaveRow
  <2>3. wave' = [wave EXCEPT ![w] = row]
    BY <2>1
  <2> HIDE DEF row
  <2> QED
    BY <1>2, <2>2, <2>3
<1>4. ASSUME NEW s \in Sessions, Intake(s) \/ Cancellation(s) \/ Time(s)
      PROVE  Kept
  <2>1. Close(s) \/ CloseAbandoned(s) => Kept
    BY <1>3 DEF Close, Complete, CloseAbandoned
  <2>2. (\E page \in Pages : Register(s, page)) => Kept
    BY <1>1 DEF Register
  <2>3. (\E i \in Items : AdmitFinalize(s, i)) => Kept
    BY <1>1 DEF AdmitFinalize
  <2>4. SealExpired(s) \/ FenceDiscard(s) \/ AbandonPage(s) \/ Time(s) => Kept
    BY <1>1 DEF SealExpired, FenceDiscard, AbandonPage, Time, LeaseLapses, FinalizeLeaseLapses, DrainEnds
  <2> QED
    BY <1>4, <2>1, <2>2, <2>3, <2>4 DEF Intake, Cancellation, Opens, Resolves
<1>5. ASSUME NEW w \in Waves, PromoteSuccessor(w)
      PROVE  Kept
  <2> DEFINE row == [wave[w] EXCEPT !.state = "processing_pending",
                                    !.predFrozen = wave[wave[w].pred].frozen,
                                    !.vision = wave[w].epoch]
  <2>1. wave' = [wave EXCEPT ![w] = row]
    BY <1>5 DEF PromoteSuccessor
  <2>2. row.sessions = wave[w].sessions /\ row.members = wave[w].members
    BY DEF WaveRow
  <2> HIDE DEF row
  <2> QED
    BY <1>2, <2>1, <2>2
<1>6. ASSUME NEW w \in Waves, NEW state, NEW frozen,
             \/ wave' = [wave EXCEPT ![w].state = state]
             \/ wave' = [wave EXCEPT ![w].noWorkImpossible = TRUE]
             \/ wave' = [wave EXCEPT ![w] = [wave[w] EXCEPT !.state = state, !.frozen = frozen]]
      PROVE  Kept
  <2> DEFINE moved == [wave[w] EXCEPT !.state = state]
             ruled == [wave[w] EXCEPT !.noWorkImpossible = TRUE]
             bound == [wave[w] EXCEPT !.state = state, !.frozen = frozen]
  <2>1. moved.sessions = wave[w].sessions /\ moved.members = wave[w].members
    BY DEF WaveRow
  <2>2. ruled.sessions = wave[w].sessions /\ ruled.members = wave[w].members
    BY DEF WaveRow
  <2>3. bound.sessions = wave[w].sessions /\ bound.members = wave[w].members
    BY DEF WaveRow
  <2>4. wave' = [wave EXCEPT ![w] = moved] \/ wave' = [wave EXCEPT ![w] = ruled]
           \/ wave' = [wave EXCEPT ![w] = bound]
    BY <1>6
  <2> HIDE DEF moved, ruled, bound
  <2> QED
    BY <1>2, <2>1, <2>2, <2>3, <2>4
<1>7. ASSUME NEW w \in Waves, BarrierStep(w) \/ Publication(w)
      PROVE  Kept
  <2>1. CASE CompleteEmpty(w)
    <3>1. PICK frozen : wave' = [wave EXCEPT ![w] = [wave[w] EXCEPT !.state = "complete", !.frozen = frozen]]
      BY <2>1 DEF CompleteEmpty
    <3> QED
      BY <1>6, <3>1
  <2>2. CASE CommitAssignment(w)
    BY <1>6, <2>2 DEF CommitAssignment
  <2>3. CASE CompleteIndexing(w)
    BY <1>6, <2>3 DEF CompleteIndexing
  <2>4. CASE ProbeImpossible(w)
    BY <1>6, <2>4 DEF ProbeImpossible
  <2>5. CASE ProbeSavePage(w) \/ RecordPublicationMembers(w)
    BY <1>1, <2>5 DEF ProbeSavePage, RecordPublicationMembers
  <2>6. CASE BarrierStep(w)
    BY <1>1, <1>5, <2>6 DEF BarrierStep, CommitObservations, Observe, Settle, EvaluateRead
  <2> QED
    BY <1>7, <2>1, <2>2, <2>3, <2>4, <2>5, <2>6 DEF Publication
<1>8. ASSUME EvaluateHold \/ EvaluateFreeze
      PROVE  Kept
  <2>1. PICK w \in Waves : w = scan.wave
    BY <1>8 DEF EvaluateHold, EvaluateFreeze, TypeOK, Scan
  <2>2. PICK state, frozen :
          \/ wave' = [wave EXCEPT ![w].state = state]
          \/ wave' = [wave EXCEPT ![w] = [wave[w] EXCEPT !.state = state, !.frozen = frozen]]
    BY <1>8, <2>1 DEF EvaluateHold, EvaluateFreeze
  <2> QED
    BY <1>6, <2>2
<1>9. ASSUME EvaluateSavePage \/ EvaluateCrash \/ Enroll \/ UNCHANGED vars
      PROVE  Kept
  BY <1>1, <1>9 DEF EvaluateSavePage, EvaluateCrash, Enroll, vars
<1> QED
  BY <1>4, <1>7, <1>8, <1>9 DEF Next, Evaluation

-----------------------------------------------------------------------------
(* The counters count. *)

(* Every step is one of these. *)
LEMMA FourSteps ==
    ASSUME IInv, [Next]_vars
    PROVE  \/ IntakeQuiet
           \/ \E s \in Sessions : Opens(s) \/ Registers(s) \/ \E pending : Decides(s, pending)
<1>1. ASSUME NEW s \in Sessions, Resolves(s)
      PROVE  \E pending : Decides(s, pending)
  <2>1. PICK page \in Pages : \E binding \in [page -> Bindings] : ResolveMany(s, binding)
    BY <1>1 DEF Resolves
  <2>2. PICK binding \in [page -> Bindings] : ResolveMany(s, binding)
    BY <2>1
  <2> QED
    BY <2>2, ResolveDecides
<1> QED
  BY <1>1, ItemSteps, AbandonDecides

(* Two disjoint sets of numbers count together as the sum of their sizes. *)
LEMMA DisjointCount ==
    ASSUME NEW N \in Nat, NEW S \in SUBSET (1..N), NEW T \in SUBSET (1..N), S \cap T = {}
    PROVE  /\ Cardinality(S \cup T) = Cardinality(S) + Cardinality(T)
           /\ Cardinality(S) \in Nat /\ Cardinality(T) \in Nat
<1>1. /\ IsFiniteSet(S) /\ IsFiniteSet(T)
      /\ Cardinality(S) \in Nat /\ Cardinality(T) \in Nat
  BY CountIsNat
<1>2. Cardinality(S \cup T) = Cardinality(S) + Cardinality(T) - Cardinality({})
  BY <1>1, FS_Union
<1> QED
  BY <1>1, <1>2, FS_EmptySet

(* The counters of a session stay those of its items. *)
LEMMA NextItemsCounted ==
    ASSUME IInv, ItemsCounted, FreshSessions, [Next]_vars
    PROVE  ItemsCounted'
<1> SUFFICES ASSUME NEW t \in Sessions
             PROVE  /\ session'[t].registered = Cardinality(Registered(t)')
                    /\ session'[t].resolved = Cardinality(Resolved(t)')
                    /\ session'[t].registered <= session'[t].declared
  BY DEF ItemsCounted, Registered, Resolved
<1> TypeOK /\ NItems \in Nat
  BY NumbersAssumption DEF IInv, TypeInv
<1>0. /\ session[t].registered = Cardinality(Registered(t))
      /\ session[t].resolved = Cardinality(Resolved(t))
      /\ session[t].registered <= session[t].declared
  BY DEF ItemsCounted
<1>1. CASE IntakeQuiet
  <2>1. Registered(t)' = Registered(t) /\ Resolved(t)' = Resolved(t)
    BY <1>1 DEF IntakeQuiet, Registered, Resolved
  <2> QED
    BY <1>0, <1>1, <2>1 DEF IntakeQuiet
<1>2. ASSUME NEW s \in Sessions, Registers(s)
      PROVE  /\ session'[t].registered = Cardinality(Registered(t)')
             /\ session'[t].resolved = Cardinality(Resolved(t)')
             /\ session'[t].registered <= session'[t].declared
  <2>1. CASE t = s
    <3>1. PICK new : Reserves(s, new)
      BY <1>2, RegisterReserves
    <3>2. /\ Registered(t)' = Registered(t) \cup new /\ Registered(t) \cap new = {}
          /\ Resolved(t)' = Resolved(t)
      BY <2>1, <3>1 DEF Reserves, Registered, Resolved, Outcomes
    <3>3. Registered(t) \in SUBSET (1..NItems) /\ new \in SUBSET (1..NItems)
      BY <3>1 DEF Reserves, Registered, Items
    <3>4. Cardinality(Registered(t) \cup new) = Cardinality(Registered(t)) + Cardinality(new)
      BY <3>2, <3>3, DisjointCount
    <3>5. session'[s].resolved = session[s].resolved /\ session'[s].declared = session[s].declared
      BY <1>2, RegisterReserves
    <3> QED
      BY <1>0, <2>1, <3>1, <3>2, <3>4, <3>5 DEF Reserves
  <2>2. CASE t # s
    <3>1. item'[t] = item[t] /\ session'[t] = session[t]
      BY <1>2, <2>2, RegisterReserves
    <3>2. Registered(t)' = Registered(t) /\ Resolved(t)' = Resolved(t)
      BY <3>1 DEF Registered, Resolved
    <3> QED
      BY <1>0, <3>1, <3>2
  <2> QED
    BY <2>1, <2>2
<1>3. ASSUME NEW s \in Sessions, NEW pending, Decides(s, pending)
      PROVE  /\ session'[t].registered = Cardinality(Registered(t)')
             /\ session'[t].resolved = Cardinality(Resolved(t)')
             /\ session'[t].registered <= session'[t].declared
  <2>1. CASE t = s
    <3>1. /\ pending \in SUBSET Items
          /\ \A i \in pending : item[s][i].outcome = "reserved" /\ item'[s][i].outcome \in Outcomes
          /\ \A i \in Items \ pending : item'[s][i].outcome = item[s][i].outcome
          /\ session'[s].registered = session[s].registered
          /\ session'[s].resolved = session[s].resolved + Cardinality(pending)
          /\ session'[s].declared = session[s].declared
      BY <1>3 DEF Decides
    <3>2. /\ Resolved(t)' = Resolved(t) \cup pending /\ Resolved(t) \cap pending = {}
          /\ Registered(t)' = Registered(t)
      BY <2>1, <3>1 DEF Registered, Resolved, Outcomes
    <3>3. Resolved(t) \in SUBSET (1..NItems) /\ pending \in SUBSET (1..NItems)
      BY <3>1 DEF Resolved, Items
    <3>4. Cardinality(Resolved(t) \cup pending) = Cardinality(Resolved(t)) + Cardinality(pending)
      BY <3>2, <3>3, DisjointCount
    <3> QED
      BY <1>0, <2>1, <3>1, <3>2, <3>4
  <2>2. CASE t # s
    <3>1. item'[t] = item[t] /\ session'[t] = session[t]
      BY <1>3, <2>2 DEF Decides
    <3>2. Registered(t)' = Registered(t) /\ Resolved(t)' = Resolved(t)
      BY <3>1 DEF Registered, Resolved
    <3> QED
      BY <1>0, <3>1, <3>2
  <2> QED
    BY <2>1, <2>2
<1>4. ASSUME NEW s \in Sessions, Opens(s)
      PROVE  /\ session'[t].registered = Cardinality(Registered(t)')
             /\ session'[t].resolved = Cardinality(Resolved(t)')
             /\ session'[t].registered <= session'[t].declared
  <2>1. UNCHANGED item
    BY <1>4, OpensCounts
  <2>2. Registered(t)' = Registered(t) /\ Resolved(t)' = Resolved(t)
    BY <2>1 DEF Registered, Resolved
  <2>3. CASE t = s
    <3>1. /\ session[s].wave = 0 /\ session'[s].registered = 0 /\ session'[s].resolved = 0
          /\ session'[s].declared \in Nat
      BY <1>4, OpensCounts
    <3>2. Cardinality(Registered(t)) = 0
      BY <1>0, <2>3, <3>1 DEF FreshSessions
    <3>3. IsFiniteSet(Registered(t))
      BY CountIsNat DEF Registered, Items
    <3>4. Registered(t) = {}
      BY <3>2, <3>3, FS_EmptySet
    <3>5. Resolved(t) = {}
      BY <3>4 DEF Registered, Resolved, Outcomes
    <3> QED
      BY <2>2, <2>3, <3>1, <3>4, <3>5, FS_EmptySet
  <2>4. CASE t # s
    BY <1>0, <1>4, <2>2, <2>4, OpensCounts
  <2> QED
    BY <2>3, <2>4
<1> QED
  BY <1>1, <1>2, <1>3, <1>4, FourSteps

(* A session's place changes only when it opens. *)
LEMMA PlacesKept ==
    ASSUME IInv, [Next]_vars, ~ \E s \in Sessions : Opens(s)
    PROVE  \A t \in Sessions : session'[t].wave = session[t].wave
<1> SUFFICES ASSUME NEW t \in Sessions PROVE session'[t].wave = session[t].wave
  OBVIOUS
<1>1. CASE IntakeQuiet
  BY <1>1 DEF IntakeQuiet
<1>2. ASSUME NEW s \in Sessions, Registers(s)
      PROVE  session'[t].wave = session[t].wave
  BY <1>2, RegisterReserves
<1>3. ASSUME NEW s \in Sessions, NEW pending, Decides(s, pending)
      PROVE  session'[t].wave = session[t].wave
  BY <1>3 DEF Decides
<1> QED
  BY <1>1, <1>2, <1>3, FourSteps

(* Opening a session creates no member. *)
LEMMA OpensStay ==
    ASSUME IInv, NEW s \in Sessions, Opens(s)
    PROVE  RowsStay
<1>1. PICK w \in Waves : evidence' = [evidence EXCEPT ![w][SessionKey(s)] = SessionEvidence("open")]
  BY OpensCounts
<1> QED
  BY <1>1, OneSessionEvidence

(* sessionCount and memberCount stay those of the rows. *)
LEMMA NextRowsCounted ==
    ASSUME IInv, RowsCounted, [Next]_vars
    PROVE  RowsCounted'
<1> SUFFICES ASSUME NEW w \in Waves
             PROVE  /\ wave'[w].sessions = Cardinality(SessionsOf(w)')
                    /\ wave'[w].members = Cardinality(Members(w)')
  BY DEF RowsCounted, SessionsOf, Members
<1> TypeOK /\ NSources \in Nat /\ NSessions \in Nat
  BY NumbersAssumption DEF IInv, TypeInv
<1>0. /\ wave[w].sessions = Cardinality(SessionsOf(w))
      /\ wave[w].members = Cardinality(Members(w))
  BY DEF RowsCounted
<1>1. ASSUME NEW s \in Sessions, Opens(s)
      PROVE  /\ wave'[w].sessions = Cardinality(SessionsOf(w)')
             /\ wave'[w].members = Cardinality(Members(w)')
  <2>1. PICK v \in Waves :
          /\ session'[s].wave = v
          /\ wave'[v].sessions = wave[v].sessions + 1
          /\ wave'[v].members = wave[v].members
          /\ \A u \in Waves \ {v} : wave'[u] = wave[u]
    BY <1>1, OpensCounts
  <2>2. session[s].wave = 0 /\ \A t \in Sessions \ {s} : session'[t] = session[t]
    BY <1>1, OpensCounts
  <2>3. Members(w)' = Members(w)
    BY <1>1, OpensStay, StayKept DEF MembersKept
  <2>4. wave'[w].members = wave[w].members
    BY <2>1
  <2>5. CASE w = v
    <3>1. SessionsOf(w)' = SessionsOf(w) \cup {s} /\ s \notin SessionsOf(w)
      BY <2>1, <2>2, <2>5 DEF SessionsOf, Waves
    <3>2. IsFiniteSet(SessionsOf(w))
      BY CountIsNat DEF SessionsOf, Sessions
    <3>3. Cardinality(SessionsOf(w)') = Cardinality(SessionsOf(w)) + 1
      BY <3>1, <3>2, FS_AddElement
    <3> QED
      BY <1>0, <2>1, <2>3, <2>4, <2>5, <3>3
  <2>6. CASE w # v
    <3>1. SessionsOf(w)' = SessionsOf(w)
      BY <2>1, <2>2, <2>6 DEF SessionsOf, Waves
    <3> QED
      BY <1>0, <2>1, <2>3, <2>6, <3>1
  <2> QED
    BY <2>5, <2>6
<1>2. CASE ~ \E s \in Sessions : Opens(s)
  <2>1. SessionsOf(w)' = SessionsOf(w)
    BY <1>2, PlacesKept DEF SessionsOf
  <2>2. ASSUME NEW s \in Sessions, Resolves(s)
        PROVE  /\ wave'[w].sessions = wave[w].sessions
               /\ wave'[w].members = Cardinality(Members(w)')
    <3>1. Gathers(s)
      BY <2>2, ResolveGathers DEF Resolves
    <3>2. CASE w = session[s].wave
      <4>1. PICK new \in SUBSET Sources :
              /\ Members(w)' = Members(w) \cup new /\ new \cap Members(w) = {}
              /\ wave'[w].members = wave[w].members + Cardinality(new)
        BY <3>1, <3>2 DEF Gathers
      <4>2. /\ Members(w) \in SUBSET (1..NSources) /\ new \in SUBSET (1..NSources)
            /\ Members(w) \cap new = {}
        BY <4>1 DEF Members, Sources
      <4>3. Cardinality(Members(w) \cup new) = Cardinality(Members(w)) + Cardinality(new)
        BY <4>1, <4>2, DisjointCount
      <4> QED
        BY <1>0, <3>1, <4>1, <4>3 DEF Gathers
    <3>3. CASE w # session[s].wave
      BY <1>0, <3>1, <3>3 DEF Gathers
    <3> QED
      BY <3>2, <3>3
  <2>3. ASSUME ~ \E s \in Sessions : Resolves(s)
        PROVE  /\ wave'[w].sessions = wave[w].sessions
               /\ wave'[w].members = Cardinality(Members(w)')
    <3>1. Members(w)' = Members(w)
      BY <2>3, OnlyResolving, StayKept DEF MembersKept
    <3> QED
      BY <1>0, <1>2, <2>3, <3>1, RowCountsKept
  <2> QED
    BY <1>0, <2>1, <2>2, <2>3
<1> QED
  BY <1>1, <1>2

(* A session registers only once it is in a wave. *)
LEMMA NextFreshSessions ==
    ASSUME IInv, FreshSessions, [Next]_vars
    PROVE  FreshSessions'
<1> SUFFICES ASSUME NEW t \in Sessions, session'[t].wave = 0
             PROVE  session'[t].registered = 0
  BY DEF FreshSessions
<1>1. CASE IntakeQuiet
  BY <1>1 DEF IntakeQuiet, FreshSessions
<1>2. ASSUME NEW s \in Sessions, Registers(s)
      PROVE  session'[t].registered = 0
  <2>1. session[s].state = "open" /\ session'[s].wave = session[s].wave
    BY <1>2, RegisterReserves
  <2>2. session[s].wave # 0
    BY <2>1 DEF IInv, TypeInv, SessionsPlaced
  <2>3. t # s /\ session'[t] = session[t]
    BY <1>2, <2>1, <2>2, RegisterReserves
  <2> QED
    BY <2>3 DEF FreshSessions
<1>3. ASSUME NEW s \in Sessions, NEW pending, Decides(s, pending)
      PROVE  session'[t].registered = 0
  BY <1>3 DEF Decides, FreshSessions
<1>4. ASSUME NEW s \in Sessions, Opens(s)
      PROVE  session'[t].registered = 0
  BY <1>4, OpensCounts DEF FreshSessions
<1> QED
  BY <1>1, <1>2, <1>3, <1>4, FourSteps

(* Whatever a transaction writes under a session's key is a session's row. *)
LEMMA SessionRowWritten ==
    ASSUME IInv, [Next]_vars, NEW v \in Waves, NEW t \in Sessions
    PROVE  evidence'[v][SessionKey(t)].kind \in {evidence[v][SessionKey(t)].kind, "session"}
<1> DEFINE k == SessionKey(t)
           Goal == evidence'[v][k].kind \in {evidence[v][k].kind, "session"}
<1> SUFFICES Goal
  OBVIOUS
<1> TypeOK
  BY DEF IInv, TypeInv
<1> k \in Keys
  BY BoundsAreNat
<1> \A src \in Sources : k # MemberKey(src)
  BY KeysApart, NumbersAssumption DEF Sources, Sessions, MemberKey, SessionKey
<1> evidence[v] \in [Keys -> EvidenceRow]
  BY DEF TypeOK, Manifest
<1>1. ASSUME UNCHANGED evidence PROVE Goal
  BY <1>1
<1>2. ASSUME NEW w, NEW s \in Sessions, NEW state,
             evidence' = [evidence EXCEPT ![w][SessionKey(s)] = SessionEvidence(state)]
      PROVE  Goal
  <2>1. evidence'[v][k] \in {evidence[v][k], SessionEvidence(state)}
    BY <1>2 DEF TypeOK, Manifest
  <2>2. SessionEvidence(state).kind = "session"
    BY DEF SessionEvidence
  <2> QED
    BY <2>1, <2>2
<1>3. ASSUME NEW w \in Waves, NEW rows, evidence' = [evidence EXCEPT ![w] = rows],
             rows[k].kind = evidence[w][k].kind
      PROVE  Goal
  BY <1>3 DEF TypeOK
<1>4. ASSUME NEW s \in Sessions, Intake(s)
      PROVE  Goal
  <2>1. ASSUME NEW declared \in Declarations, OpenSession(s, declared)
        PROVE  Goal
    <3>1. PICK w \in Waves :
            evidence' = [evidence EXCEPT ![w][SessionKey(s)] = SessionEvidence("open")]
      BY <2>1 DEF OpenSession
    <3> QED
      BY <1>2, <3>1
  <2>2. ASSUME NEW page \in Pages, NEW binding \in [page -> Bindings], ResolveMany(s, binding)
        PROVE  Goal
    <3>1. PICK w \in Waves : w = session[s].wave
      BY <2>2, OpenSessionsWave DEF IInv, ResolveMany
    <3>2. PICK admitted, projected :
            /\ evidence' = [evidence EXCEPT ![w] = WithMembers(evidence[w], admitted, projected)]
            /\ admitted \subseteq Sources
      <4> DEFINE pending == Reserved(s, page)
      <4>1. DOMAIN binding = page /\ page \subseteq Items
        BY DEF Pages
      <4>2. evidence' = [evidence EXCEPT ![w] =
                            WithMembers(evidence[w], Admitted(pending, binding),
                                        Projected(pending, binding))]
        BY <2>2, <3>1, <4>1 DEF ResolveMany
      <4>3. Admitted(pending, binding) \subseteq Sources
        BY <4>1 DEF Admitted, Reserved, Bindings, Admitting
      <4> HIDE DEF pending
      <4> QED
        BY <4>2, <4>3
    <3>3. WithMembers(evidence[w], admitted, projected)[k] = evidence[w][k]
      BY <3>2 DEF WithMembers
    <3> QED
      BY <1>3, <3>2, <3>3
  <2>3. ASSUME Close(s)
        PROVE  Goal
    <3>1. evidence' = [evidence EXCEPT ![session[s].wave][SessionKey(s)] = SessionEvidence("closed")]
      BY <2>3 DEF Close, CloseAs
    <3> QED
      BY <1>2, <3>1
  <2>4. (\E page \in Pages : Register(s, page)) => Goal
    BY <1>1 DEF Register
  <2>5. (\E i \in Items : AdmitFinalize(s, i)) => Goal
    BY <1>1 DEF AdmitFinalize
  <2> HIDE DEF Goal
  <2> QED
    BY <1>4, <2>1, <2>2, <2>3, <2>4, <2>5 DEF Intake
<1>5. ASSUME NEW s \in Sessions, Cancellation(s) \/ Time(s)
      PROVE  Goal
  <2>1. ASSUME CloseAbandoned(s)
        PROVE  Goal
    <3>1. evidence' = [evidence EXCEPT ![session[s].wave][SessionKey(s)] = SessionEvidence("abandoned")]
      BY <2>1 DEF CloseAbandoned, CloseAs
    <3> QED
      BY <1>2, <3>1
  <2> QED
    BY <1>1, <1>5, <2>1 DEF Cancellation, SealExpired, FenceDiscard, AbandonPage,
       Time, LeaseLapses, FinalizeLeaseLapses, DrainEnds
<1>6. ASSUME NEW w \in Waves, BarrierStep(w)
      PROVE  Goal
  <2> evidence[w] \in [Keys -> EvidenceRow]
    BY DEF TypeOK, Manifest
  <2>1. ASSUME NEW seen \in Observations(w), CommitObservations(w, seen) \/ Observe(w, seen)
        PROVE  Goal
    <3>1. evidence' = [evidence EXCEPT ![w] = Observed(w, seen)]
      BY <2>1 DEF CommitObservations, Observe
    <3>2. Observed(w, seen)[k].kind = evidence[w][k].kind
      BY DEF Observed, EvidenceRow
    <3> QED
      BY <1>3, <3>1, <3>2
  <2>2. ASSUME NEW src \in Sources, NEW outcome \in Terminal, Settle(w, src, outcome)
        PROVE  Goal
    <3> DEFINE rows == [evidence[w] EXCEPT ![MemberKey(src)] =
                           [evidence[w][MemberKey(src)] EXCEPT !.state = outcome]]
    <3>1. evidence' = [evidence EXCEPT ![w] = rows]
      BY <2>2 DEF Settle
    <3>2. rows[k] = evidence[w][k]
      OBVIOUS
    <3> HIDE DEF rows
    <3> QED
      BY <1>3, <3>1, <3>2
  <2> QED
    BY <1>1, <1>6, <2>1, <2>2 DEF BarrierStep, PromoteSuccessor, EvaluateRead
<1>7. ASSUME NEW w \in Waves, Publication(w)
      PROVE  Goal
  BY <1>1, <1>7 DEF Publication, ProbeImpossible, ProbeSavePage, CompleteEmpty,
     CommitAssignment, RecordPublicationMembers, CompleteIndexing
<1>8. ASSUME Evaluation \/ EvaluateCrash \/ Enroll \/ UNCHANGED vars
      PROVE  Goal
  BY <1>1, <1>8 DEF Evaluation, EvaluateSavePage, EvaluateHold, EvaluateFreeze,
     EvaluateCrash, Enroll, vars
<1> HIDE DEF Goal
<1> QED
  BY <1>4, <1>5, <1>6, <1>7, <1>8 DEF Next

(* Only an open session is abandoned. *)
LEMMA NextNeverStarted ==
    ASSUME IInv, NeverStarted, [Next]_vars
    PROVE  NeverStarted'
<1> SUFFICES ASSUME NEW t \in Sessions, session'[t].state = "none"
             PROVE  ~ session'[t].abandoning
  BY DEF NeverStarted
<1>1. ASSUME session'[t] = session[t]
      PROVE  ~ session'[t].abandoning
  BY <1>1 DEF NeverStarted
<1>2. CASE IntakeQuiet
  BY <1>1, <1>2 DEF IntakeQuiet
<1>3. ASSUME NEW s \in Sessions, Registers(s)
      PROVE  session'[t] = session[t]
  BY <1>3, RegisterReserves
<1>4. ASSUME NEW s \in Sessions, NEW pending, Decides(s, pending)
      PROVE  session'[t] = session[t]
  BY <1>4 DEF Decides
<1>5. ASSUME NEW s \in Sessions, Opens(s)
      PROVE  session'[t] = session[t]
  BY <1>5, OpensCounts
<1> QED
  BY <1>1, <1>2, <1>3, <1>4, <1>5, FourSteps

(* Every step preserves the invariant. *)
LEMMA NextCount == IInv /\ CountInv /\ [Next]_vars => CountInv'
<1> SUFFICES ASSUME IInv, CountInv, [Next]_vars PROVE CountInv'
  OBVIOUS
<1>1. ItemsCounted' /\ RowsCounted' /\ FreshSessions'
  BY NextItemsCounted, NextRowsCounted, NextFreshSessions DEF CountInv
<1>2. SessionRowsApart'
  BY SessionRowWritten DEF CountInv, SessionRowsApart, SessionKey
<1>3. NeverStarted'
  BY NextNeverStarted DEF CountInv
<1> QED
  BY <1>1, <1>2, <1>3 DEF CountInv

(* The empty library satisfies it. *)
LEMMA InitCount == Init => CountInv
<1> SUFFICES ASSUME Init PROVE CountInv
  OBVIOUS
<1>1. ASSUME NEW s \in Sessions
      PROVE  Registered(s) = {} /\ Resolved(s) = {} /\ session[s] = NoSession
  BY DEF Init, Registered, Resolved, Outcomes, NoItem
<1>2. ItemsCounted /\ FreshSessions
  BY <1>1, FS_EmptySet DEF ItemsCounted, FreshSessions, NoSession
<1>3. ASSUME NEW w \in Waves
      PROVE  SessionsOf(w) = {} /\ Members(w) = {} /\ wave[w] = NoWave
  <2>1. SessionsOf(w) = {}
    BY <1>1 DEF SessionsOf, NoSession, Waves
  <2>2. Members(w) = {}
    BY BoundsAreNat DEF Init, Members, NoRows, Absent
  <2> QED
    BY <2>1, <2>2 DEF Init
<1>4. RowsCounted
  BY <1>3, FS_EmptySet DEF RowsCounted, NoWave
<1>5. SessionRowsApart
  BY BoundsAreNat DEF Init, SessionRowsApart, NoRows, Absent
<1>6. NeverStarted
  BY <1>1 DEF NeverStarted, NoSession
<1> QED
  BY <1>2, <1>4, <1>5, <1>6 DEF CountInv

(* The counters count in every state. *)
LEMMA CountInvariant == Spec => []CountInv
<1>1. Init => CountInv
  BY InitCount
<1>2. IInv /\ CountInv /\ [Next]_vars => CountInv'
  BY NextCount
<1> QED
  BY <1>1, <1>2, InvariantHolds, PTL DEF Spec

(* The counters that decide closing and freezing are the number of rows they
   count, in every state: registeredCount and resolvedCount of a session,
   openSessions, sessionCount and memberCount of a wave. *)
THEOREM CountsAlwaysMatch == Spec => []CountsMatchRows
<1>1. IInv /\ CountInv => CountsMatchRows
  <2> SUFFICES ASSUME IInv, CountInv PROVE CountsMatchRows
    OBVIOUS
  <2>1. \A s \in Sessions :
          /\ session[s].registered = Cardinality({i \in Items : item[s][i].outcome # "none"})
          /\ session[s].resolved = Cardinality({i \in Items : item[s][i].outcome \in Outcomes})
          /\ session[s].registered <= session[s].declared
    BY DEF CountInv, ItemsCounted, Registered, Resolved
  <2>2. ASSUME NEW w \in Waves
        PROVE  /\ wave[w].open = Cardinality({s \in Sessions : session[s].wave = w
                                                          /\ session[s].state = "open"})
               /\ wave[w].sessions = Cardinality({s \in Sessions : session[s].wave = w})
               /\ wave[w].members = Cardinality(RowsOfKind(evidence[w], "member"))
    <3>1. RowsOfKind(evidence[w], "member") = Members(w)
      <4>1. RowsOfKind(evidence[w], "member") = {k \in Keys : evidence[w][k].kind = "member"}
        BY DEF RowsOfKind
      <4>2. ASSUME NEW k \in Keys
            PROVE  k \in Sources \/ \E s \in Sessions : k = SessionKey(s)
        <5>1. CASE k <= NSources
          BY <5>1, NumbersAssumption DEF Keys, Sources
        <5>2. CASE k > NSources
          <6>1. k - NSources \in Sessions /\ k = SessionKey(k - NSources)
            BY <5>2, NumbersAssumption DEF Keys, Sessions, SessionKey
          <6> QED
            BY <6>1
        <5> QED
          BY <5>1, <5>2, NumbersAssumption DEF Keys
      <4>3. \A s \in Sessions : evidence[w][SessionKey(s)].kind # "member"
        BY DEF CountInv, SessionRowsApart
      <4>4. Members(w) \subseteq Keys
        BY BoundsAreNat DEF Members, MemberKey
      <4> QED
        BY <4>1, <4>2, <4>3, <4>4 DEF Members, MemberKey
    <3> QED
      BY <3>1 DEF IInv, TypeInv, OpenCounted, OpenSessions, CountInv, RowsCounted, SessionsOf
  <2> QED
    BY <2>1, <2>2 DEF CountsMatchRows
<1> QED
  BY <1>1, InvariantHolds, CountInvariant, PTL

(* What was stopped stays stopped, whatever else the library does: an
   abandoning or finished session registers nothing more and keeps its place,
   and a resolved item is never rebound. *)
THEOREM StoppedStays == Spec => StoppedStaysStopped
<1> DEFINE Stays(t) ==
      /\ session[t].abandoning =>
            session'[t].abandoning /\ session'[t].registered = session[t].registered
      /\ session[t].state \in {"closed", "abandoned", "absent"} =>
            session'[t].state = session[t].state /\ session'[t].wave = session[t].wave
      /\ \A i \in Items : item[t][i].outcome \in Outcomes =>
            /\ item'[t][i].outcome = item[t][i].outcome
            /\ item'[t][i].src = item[t][i].src
<1>1. IInv /\ CountInv /\ [Next]_vars => \A t \in Sessions : Stays(t)
  <2> SUFFICES ASSUME IInv, CountInv, [Next]_vars, NEW t \in Sessions PROVE Stays(t)
    OBVIOUS
  <2>1. CASE IntakeQuiet
    BY <2>1 DEF IntakeQuiet
  <2>2. ASSUME session'[t] = session[t], item'[t] = item[t]
        PROVE  Stays(t)
    BY <2>2
  <2>3. ASSUME NEW s \in Sessions, Registers(s)
        PROVE  Stays(t)
    <3>1. CASE t = s
      <4>1. session[t].state = "open" /\ ~ session[t].abandoning
        BY <2>3, <3>1, RegisterReserves
      <4>2. PICK new : Reserves(t, new)
        BY <2>3, <3>1, RegisterReserves
      <4> QED
        BY <4>1, <4>2 DEF Reserves, Outcomes
    <3>2. CASE t # s
      BY <2>2, <2>3, <3>2, RegisterReserves
    <3> QED
      BY <3>1, <3>2
  <2>4. ASSUME NEW s \in Sessions, NEW pending, Decides(s, pending)
        PROVE  Stays(t)
    <3>1. CASE t = s
      BY <2>4, <3>1 DEF Decides, Outcomes
    <3>2. CASE t # s
      <4>1. session'[t] = session[t] /\ item'[t] = item[t]
        BY <2>4, <3>2 DEF Decides
      <4> QED
        BY <2>2, <4>1
    <3> QED
      BY <3>1, <3>2
  <2>5. ASSUME NEW s \in Sessions, Opens(s)
        PROVE  Stays(t)
    <3>1. CASE t = s
      BY <2>5, <3>1, OpensCounts DEF CountInv, NeverStarted
    <3>2. CASE t # s
      BY <2>2, <2>5, <3>2, OpensCounts
    <3> QED
      BY <3>1, <3>2
  <2> HIDE DEF Stays
  <2> QED
    BY <2>1, <2>3, <2>4, <2>5, FourSteps
<1>2. IInv /\ CountInv /\ [Next]_vars =>
        [\A s \in Sessions :
          /\ session[s].abandoning =>
                session'[s].abandoning /\ session'[s].registered = session[s].registered
          /\ session[s].state \in {"closed", "abandoned", "absent"} =>
                session'[s].state = session[s].state /\ session'[s].wave = session[s].wave
          /\ \A i \in Items : item[s][i].outcome \in Outcomes =>
                /\ item'[s][i].outcome = item[s][i].outcome
                /\ item'[s][i].src = item[s][i].src]_vars
  BY <1>1
<1> HIDE DEF Stays
<1> QED
  BY <1>2, InvariantHolds, CountInvariant, PTL DEF Spec, StoppedStaysStopped

-----------------------------------------------------------------------------
(* No accepted photo is lost. *)

(* Under a member's key there is a member or nothing. *)
MemberRowsApart ==
    \A w \in Waves, src \in Sources :
        \/ evidence[w][MemberKey(src)].kind = "member"
        \/ evidence[w][MemberKey(src)] = Absent

(* An item that admitted a photo names one, and its session is in a wave. *)
BoundItems ==
    \A s \in Sessions, i \in Items : item[s][i].outcome \in Admitting =>
        item[s][i].src \in Sources /\ session[s].wave \in Waves

(* The two halves of AdmittedAreMembers. *)
Placed(s, i) ==
    LET row == evidence[session[s].wave][MemberKey(item[s][i].src)] IN
    row.kind = "member" /\ (item[s][i].outcome = "accepted" => row.needs)

Brought(w, src) ==
    \E s \in Sessions, i \in Items :
        /\ session[s].wave = w
        /\ item[s][i].outcome \in Admitting
        /\ item[s][i].src = src

AdmittedInv == AdmittedAreMembers /\ MemberRowsApart /\ BoundItems

(* Only resolving binds an item to a photo, and then its session stays in its
   wave. *)
LEMMA OnlyResolvingBinds ==
    ASSUME IInv, CountInv, [Next]_vars, ~ \E s \in Sessions : Resolves(s),
           NEW t \in Sessions, NEW i \in Items,
           item[t][i].outcome \in Admitting \/ item'[t][i].outcome \in Admitting
    PROVE  /\ item'[t][i].outcome = item[t][i].outcome
           /\ item'[t][i].src = item[t][i].src
           /\ session'[t].wave = session[t].wave
<1> USE DEF Admitting
<1>1. CASE IntakeQuiet
  BY <1>1 DEF IntakeQuiet
<1>2. ASSUME NEW s \in Sessions, Registers(s)
      PROVE  /\ item'[t][i].outcome = item[t][i].outcome
             /\ item'[t][i].src = item[t][i].src
             /\ session'[t].wave = session[t].wave
  <2>1. CASE t = s
    <3>1. PICK new : Reserves(s, new)
      BY <1>2, RegisterReserves
    <3>2. session'[s].wave = session[s].wave
      BY <1>2, RegisterReserves
    <3> QED
      BY <2>1, <3>1, <3>2 DEF Reserves
  <2>2. CASE t # s
    BY <1>2, <2>2, RegisterReserves
  <2> QED
    BY <2>1, <2>2
<1>3. ASSUME NEW s \in Sessions, AbandonPage(s)
      PROVE  /\ item'[t][i].outcome = item[t][i].outcome
             /\ item'[t][i].src = item[t][i].src
             /\ session'[t].wave = session[t].wave
  <2>1. PICK pending : Decides(s, pending) /\ \A j \in pending : item'[s][j].outcome = "cancelled"
    BY <1>3, AbandonDecides
  <2>2. CASE t = s
    BY <2>1, <2>2 DEF Decides
  <2>3. CASE t # s
    <3>1. session'[t] = session[t] /\ item'[t] = item[t]
      BY <2>1, <2>3 DEF Decides
    <3> QED
      BY <3>1
  <2> QED
    BY <2>2, <2>3
<1>4. ASSUME NEW s \in Sessions, Opens(s)
      PROVE  /\ item'[t][i].outcome = item[t][i].outcome
             /\ item'[t][i].src = item[t][i].src
             /\ session'[t].wave = session[t].wave
  <2>1. UNCHANGED item /\ session[s].wave = 0 /\ \A u \in Sessions \ {s} : session'[u] = session[u]
    BY <1>4, OpensCounts
  <2>2. t # s
    <3> SUFFICES ASSUME t = s PROVE FALSE
      OBVIOUS
    <3>1. Cardinality(Registered(s)) = 0 /\ IsFiniteSet(Registered(s))
      BY <2>1, CountIsNat, NumbersAssumption DEF CountInv, FreshSessions, ItemsCounted, Registered, Items
    <3>2. Registered(s) = {}
      BY <3>1, FS_EmptySet
    <3> QED
      BY <2>1, <3>2 DEF Registered
  <2> QED
    BY <2>1, <2>2
<1> QED
  BY <1>1, <1>2, <1>3, <1>4, ItemSteps

(* What resolving does to the rows of the session's wave. *)
LEMMA ResolvedRows ==
    ASSUME IInv, MemberRowsApart, NEW s \in Sessions, NEW page \in Pages,
           NEW binding \in [page -> Bindings], ResolveMany(s, binding),
           NEW w \in Waves, w = session[s].wave
    PROVE  /\ \A v \in Waves \ {w} : evidence'[v] = evidence[v]
           /\ \A src \in Sources :
                LET row == evidence[w][MemberKey(src)]
                    new == evidence'[w][MemberKey(src)]
                    admitted == Admitted(Reserved(s, page), binding)
                IN
                /\ src \notin admitted => new = row
                /\ src \in admitted => new.kind = "member" /\ (row.needs => new.needs)
                /\ src \in Projected(Reserved(s, page), binding) => new.needs
<1> DEFINE pending == Reserved(s, page)
           admitted == Admitted(pending, binding)
           projected == Projected(pending, binding)
<1>1. DOMAIN binding = page /\ page \subseteq Items
  BY DEF Pages
<1>2. evidence' = [evidence EXCEPT ![w] = WithMembers(evidence[w], admitted, projected)]
  BY <1>1 DEF ResolveMany
<1>3. projected \subseteq admitted
  BY DEF Admitted, Projected, Admitting
<1> HIDE DEF admitted, projected, pending
<1>4. /\ evidence'[w] = WithMembers(evidence[w], admitted, projected)
      /\ \A v \in Waves \ {w} : evidence'[v] = evidence[v]
  BY <1>2 DEF IInv, TypeInv, TypeOK
<1>5. ASSUME NEW src \in Sources
      PROVE  LET row == evidence[w][MemberKey(src)]
                 new == evidence'[w][MemberKey(src)]
             IN
             /\ src \notin admitted => new = row
             /\ src \in admitted => new.kind = "member" /\ (row.needs => new.needs)
             /\ src \in projected => new.needs
  <2> DEFINE k == MemberKey(src)
             row == evidence[w][k]
             upgraded == [row EXCEPT !.needs = @ \/ k \in projected]
  <2>1. k \in Keys /\ k = src /\ row \in EvidenceRow
    BY BoundsAreNat DEF MemberKey, IInv, TypeInv, TypeOK, Manifest
  <2>2. k \in {MemberKey(x) : x \in admitted} <=> src \in admitted
    BY DEF MemberKey
  <2>3. evidence'[w][k] = IF src \notin admitted THEN row
                          ELSE IF row = Absent THEN Member("pending", k \in projected)
                          ELSE upgraded
    BY <1>4, <2>1, <2>2 DEF WithMembers
  <2>4. /\ Member("pending", k \in projected).kind = "member"
        /\ Member("pending", k \in projected).needs = (k \in projected)
    BY DEF Member
  <2>5. upgraded.kind = row.kind /\ upgraded.needs = (row.needs \/ k \in projected)
    BY <2>1 DEF EvidenceRow
  <2>6. row.kind = "member" \/ row = Absent
    BY DEF MemberRowsApart
  <2>7. ~ Absent.needs
    BY DEF Absent
  <2> HIDE DEF upgraded
  <2>8. CASE src \notin admitted
    BY <1>3, <2>3, <2>8
  <2>9. CASE src \in admitted /\ row = Absent
    BY <2>1, <2>3, <2>4, <2>7, <2>9
  <2>10. CASE src \in admitted /\ row # Absent
    BY <2>1, <2>3, <2>5, <2>6, <2>10
  <2> QED
    BY <2>8, <2>9, <2>10
<1> QED
  BY <1>4, <1>5 DEF admitted, projected, pending

(* No transaction writes anything but a member under a member's key. *)
LEMMA NextMemberRows ==
    ASSUME IInv, MemberRowsApart, [Next]_vars
    PROVE  MemberRowsApart'
<1> SUFFICES ASSUME NEW v \in Waves, NEW src \in Sources
             PROVE  \/ evidence'[v][MemberKey(src)].kind = "member"
                    \/ evidence'[v][MemberKey(src)] = Absent
  BY DEF MemberRowsApart, MemberKey, Absent
<1>0. evidence[v][MemberKey(src)].kind = "member" \/ evidence[v][MemberKey(src)] = Absent
  BY DEF MemberRowsApart
<1>1. CASE ~ \E s \in Sessions : Resolves(s)
  <2>1. RowsStay
    BY <1>1, OnlyResolving
  <2> QED
    BY <1>0, <2>1 DEF RowsStay, Absent
<1>2. ASSUME NEW s \in Sessions, NEW page \in Pages,
             NEW binding \in [page -> Bindings], ResolveMany(s, binding)
      PROVE  \/ evidence'[v][MemberKey(src)].kind = "member"
             \/ evidence'[v][MemberKey(src)] = Absent
  <2>1. PICK w \in Waves : w = session[s].wave
    BY <1>2, OpenSessionsWave DEF IInv, ResolveMany
  <2>2. \A u \in Waves \ {w} : evidence'[u] = evidence[u]
    BY <1>2, <2>1, ResolvedRows
  <2>3. /\ src \notin Admitted(Reserved(s, page), binding) =>
              evidence'[w][MemberKey(src)] = evidence[w][MemberKey(src)]
        /\ src \in Admitted(Reserved(s, page), binding) =>
              evidence'[w][MemberKey(src)].kind = "member"
    BY <1>2, <2>1, ResolvedRows
  <2> QED
    BY <1>0, <2>2, <2>3
<1> QED
  BY <1>1, <1>2 DEF Resolves

(* A step that resolves nothing moves neither items nor rows. *)
LEMMA QuietAdmitted ==
    ASSUME IInv, CountInv, AdmittedInv, [Next]_vars, ~ \E s \in Sessions : Resolves(s)
    PROVE  AdmittedAreMembers' /\ BoundItems'
<1>1. RowsStay
  BY OnlyResolving
<1>2. ASSUME NEW t \in Sessions, NEW i \in Items, item'[t][i].outcome \in Admitting
      PROVE  Placed(t, i)' /\ item'[t][i].src \in Sources /\ session'[t].wave \in Waves
  <2>1. /\ item'[t][i].outcome = item[t][i].outcome /\ item'[t][i].src = item[t][i].src
        /\ session'[t].wave = session[t].wave
    BY <1>2, OnlyResolvingBinds
  <2>2. Placed(t, i) /\ item[t][i].src \in Sources /\ session[t].wave \in Waves
    BY <1>2, <2>1 DEF AdmittedInv, AdmittedAreMembers, BoundItems, Placed
  <2> QED
    BY <1>1, <2>1, <2>2 DEF Placed, RowsStay, MemberKey
<1>3. ASSUME NEW w \in Waves, NEW src \in Sources, evidence'[w][MemberKey(src)].kind = "member"
      PROVE  Brought(w, src)'
  <2>1. evidence[w][MemberKey(src)].kind = "member"
    BY <1>1, <1>3 DEF RowsStay
  <2>2. PICK t \in Sessions, i \in Items :
          session[t].wave = w /\ item[t][i].outcome \in Admitting /\ item[t][i].src = src
    BY <2>1 DEF AdmittedInv, AdmittedAreMembers
  <2>3. /\ item'[t][i].outcome = item[t][i].outcome /\ item'[t][i].src = item[t][i].src
        /\ session'[t].wave = session[t].wave
    BY <2>2, OnlyResolvingBinds
  <2> QED
    BY <2>2, <2>3 DEF Brought
<1> QED
  BY <1>2, <1>3 DEF AdmittedAreMembers, BoundItems, Placed, Brought, MemberKey

(* A resolution makes members of what it binds, and keeps the rest. *)
LEMMA ResolveAdmitted ==
    ASSUME IInv, AdmittedInv, NEW s \in Sessions, NEW page \in Pages,
           NEW binding \in [page -> Bindings], ResolveMany(s, binding)
    PROVE  AdmittedAreMembers' /\ BoundItems'
<1> DEFINE pending == Reserved(s, page)
           admitted == Admitted(pending, binding)
           projected == Projected(pending, binding)
<1>1. PICK w \in Waves : w = session[s].wave
  BY OpenSessionsWave DEF IInv, ResolveMany
<1>2. /\ \A v \in Waves \ {w} : evidence'[v] = evidence[v]
      /\ \A src \in Sources :
            LET row == evidence[w][MemberKey(src)]
                new == evidence'[w][MemberKey(src)]
            IN
            /\ src \notin admitted => new = row
            /\ src \in admitted => new.kind = "member" /\ (row.needs => new.needs)
            /\ src \in projected => new.needs
  BY <1>1, ResolvedRows DEF AdmittedInv
<1>3. /\ Decides(s, pending)
      /\ \A i \in pending : item'[s][i].outcome = binding[i].outcome /\ item'[s][i].src = binding[i].src
      /\ pending \subseteq page
  BY ResolveDecides
<1>4. \A i \in pending : /\ binding[i].outcome \in Admitting => binding[i].src \in admitted
                         /\ binding[i].outcome = "accepted" => binding[i].src \in projected
                         /\ binding[i].outcome \in Admitting => binding[i].src \in Sources
  BY <1>3 DEF Admitted, Projected, Bindings, Admitting
<1>5. \A src \in admitted : \E i \in pending : binding[i].outcome \in Admitting /\ binding[i].src = src
  BY DEF Admitted
<1> HIDE DEF pending, admitted, projected
<1>6. session'[s].wave = w /\ \A t \in Sessions : session'[t].wave = session[t].wave
  BY <1>1, <1>3 DEF Decides
<1>7. ASSUME NEW t \in Sessions, NEW i \in Items, item[t][i].outcome # "reserved"
      PROVE  item'[t][i].outcome = item[t][i].outcome /\ item'[t][i].src = item[t][i].src
  <2>1. CASE t = s
    BY <1>3, <1>7, <2>1 DEF Decides
  <2>2. CASE t # s
    <3>1. item'[t] = item[t]
      BY <1>3, <2>2 DEF Decides
    <3> QED
      BY <3>1
  <2> QED
    BY <2>1, <2>2
<1>8. ASSUME NEW t \in Sessions, NEW i \in Items, item'[t][i].outcome \in Admitting
      PROVE  \/ t = s /\ i \in pending
             \/ /\ item[t][i].outcome \in Admitting
                /\ item'[t][i].outcome = item[t][i].outcome
                /\ item'[t][i].src = item[t][i].src
  <2>1. CASE t = s
    BY <1>3, <1>8, <2>1 DEF Decides
  <2>2. CASE t # s
    <3>1. item'[t] = item[t]
      BY <1>3, <2>2 DEF Decides
    <3> QED
      BY <1>8, <3>1
  <2> QED
    BY <2>1, <2>2
<1>9. ASSUME NEW t \in Sessions, NEW i \in Items, item'[t][i].outcome \in Admitting
      PROVE  Placed(t, i)' /\ item'[t][i].src \in Sources /\ session'[t].wave \in Waves
  <2>1. CASE t = s /\ i \in pending
    <3>1. item'[t][i].src = binding[i].src /\ item'[t][i].outcome = binding[i].outcome
      BY <1>3, <2>1
    <3>2. /\ binding[i].src \in admitted /\ binding[i].src \in Sources
          /\ binding[i].outcome = "accepted" => binding[i].src \in projected
      BY <1>4, <1>9, <2>1, <3>1
    <3> QED
      BY <1>2, <1>6, <2>1, <3>1, <3>2 DEF Placed, MemberKey
  <2>2. CASE /\ item[t][i].outcome \in Admitting
             /\ item'[t][i].outcome = item[t][i].outcome
             /\ item'[t][i].src = item[t][i].src
    <3>1. Placed(t, i) /\ item[t][i].src \in Sources /\ session[t].wave \in Waves
      BY <2>2 DEF AdmittedInv, AdmittedAreMembers, BoundItems, Placed
    <3>2. PICK v \in Waves : v = session[t].wave /\ v = session'[t].wave
      BY <1>6, <3>1
    <3>3. PICK src \in Sources : src = item[t][i].src /\ src = item'[t][i].src
      BY <2>2, <3>1
    <3>4. /\ evidence[v][MemberKey(src)].kind = "member"
          /\ item[t][i].outcome = "accepted" => evidence[v][MemberKey(src)].needs
      BY <3>1, <3>2, <3>3 DEF Placed
    <3>5. /\ evidence'[v][MemberKey(src)].kind = "member"
          /\ item[t][i].outcome = "accepted" => evidence'[v][MemberKey(src)].needs
      BY <1>2, <3>4
    <3> QED
      BY <2>2, <3>2, <3>3, <3>5 DEF Placed, MemberKey
  <2> QED
    BY <1>8, <1>9, <2>1, <2>2
<1>10. ASSUME NEW v \in Waves, NEW src \in Sources, evidence'[v][MemberKey(src)].kind = "member"
       PROVE  Brought(v, src)'
  <2>1. CASE v = w /\ src \in admitted
    <3>1. PICK i \in pending : binding[i].outcome \in Admitting /\ binding[i].src = src
      BY <1>5, <2>1
    <3>2. i \in Items
      BY <1>3 DEF Decides
    <3> QED
      BY <1>3, <1>6, <2>1, <3>1, <3>2 DEF Brought
  <2>2. CASE ~ (v = w /\ src \in admitted)
    <3>1. evidence[v][MemberKey(src)].kind = "member"
      BY <1>2, <1>10, <2>2
    <3>2. PICK t \in Sessions, i \in Items :
            session[t].wave = v /\ item[t][i].outcome \in Admitting /\ item[t][i].src = src
      BY <3>1 DEF AdmittedInv, AdmittedAreMembers
    <3>3. item'[t][i].outcome = item[t][i].outcome /\ item'[t][i].src = item[t][i].src
      BY <1>7, <3>2 DEF Admitting
    <3> QED
      BY <1>6, <3>2, <3>3 DEF Brought
  <2> QED
    BY <2>1, <2>2
<1> QED
  BY <1>9, <1>10 DEF AdmittedAreMembers, BoundItems, Placed, Brought, MemberKey

(* Every step keeps what was admitted. *)
LEMMA NextAdmitted ==
    ASSUME IInv, CountInv, AdmittedInv, [Next]_vars
    PROVE  AdmittedInv'
<1>1. MemberRowsApart'
  BY NextMemberRows DEF AdmittedInv
<1>2. AdmittedAreMembers' /\ BoundItems'
  BY QuietAdmitted, ResolveAdmitted DEF Resolves
<1> QED
  BY <1>1, <1>2 DEF AdmittedInv

(* No accepted photo is lost: for good, a resolved item's photo is a member of
   its session's wave, one that needs projection if the item was accepted, and
   every member was brought by such an item. *)
THEOREM AdmittedStayMembers == Spec => []AdmittedAreMembers
<1>1. Init => AdmittedInv
  <2> SUFFICES ASSUME Init PROVE AdmittedInv
    OBVIOUS
  <2>1. \A s \in Sessions, i \in Items : item[s][i].outcome \notin Admitting
    BY DEF Init, NoItem, Admitting
  <2>2. \A w \in Waves, src \in Sources : evidence[w][MemberKey(src)] = Absent
    BY BoundsAreNat DEF Init, NoRows
  <2> QED
    BY <2>1, <2>2 DEF AdmittedInv, AdmittedAreMembers, MemberRowsApart, BoundItems, Absent
<1>2. IInv /\ CountInv /\ AdmittedInv /\ [Next]_vars => AdmittedInv'
  BY NextAdmitted
<1>3. AdmittedInv => AdmittedAreMembers
  BY DEF AdmittedInv
<1> QED
  BY <1>1, <1>2, <1>3, InvariantHolds, CountInvariant, PTL DEF Spec
=============================================================================
