-------------------------- MODULE UploadWavesBarrier --------------------------
(***************************************************************************)
(* Type correctness of UploadWaves, and the barrier: a frozen wave is final *)
(* and its manifest exact, for any number of sessions, items and photos and *)
(* any page size.                                                          *)
(*                                                                         *)
(* Types.  The one hard case is openSessions, which close decrements: it    *)
(* stays a natural number because it is the number of the wave's open       *)
(* sessions, so that is carried along.                                     *)
(*                                                                         *)
(* The barrier.  A scan that is saved or running agrees with the evidence   *)
(* (ScansExact), because every transaction that writes evidence strands or  *)
(* clears the scans over it; so what evaluate freezes is the evidence.      *)
(* Nobody writes it afterwards, because only an open session or a barrier    *)
(* step does, and a frozen wave has neither: it is not the collecting wave,  *)
(* and evaluate and the no-work probe saw every session row ended.          *)
(***************************************************************************)
EXTENDS UploadWaves, TLAPS, FiniteSetTheorems, WellFoundedInduction

-----------------------------------------------------------------------------
(* Finite sets of numbers and pages. *)

(* A non-empty set of naturals has a least element. *)
LEMMA MinExists ==
    ASSUME NEW S \in SUBSET Nat, S # {}
    PROVE  \E m \in S : \A n \in S : m <= n
<1> DEFINE Less == {p \in Nat \X Nat : p[1] < p[2]}
<1>1. IsWellFoundedOn(Less, Nat)
  BY NatLessThanWellFounded DEF OpToRel
<1> HIDE DEF Less
<1>2. PICK m \in S : \A n \in S : ~ (<<n, m>> \in Less)
  BY <1>1, WFMin
<1>3. \A n \in S : n < m => <<n, m>> \in Less
  BY DEF Less
<1>4. ASSUME NEW n \in S PROVE m <= n
  <2>1. m \in Nat /\ n \in Nat
    OBVIOUS
  <2>2. ~ (n < m)
    BY <1>2, <1>3
  <2> QED
    BY <2>1, <2>2
<1> QED
  BY <1>4

(* A non-empty set of numbers below a bound has a greatest element. *)
LEMMA MaxExists ==
    ASSUME NEW N \in Nat, NEW S \in SUBSET (1..N), S # {}
    PROVE  \E m \in S : \A n \in S : n <= m
<1> DEFINE Mirror == {N - k : k \in S}
<1>1. Mirror \in SUBSET Nat /\ Mirror # {}
  OBVIOUS
<1> HIDE DEF Mirror
<1>2. PICK m \in Mirror : \A n \in Mirror : m <= n
  BY <1>1, MinExists
<1>3. PICK k \in S : m = N - k
  BY DEF Mirror
<1>4. ASSUME NEW n \in S PROVE n <= k
  <2>1. N - n \in Mirror
    BY DEF Mirror
  <2>2. N - k <= N - n
    BY <1>2, <1>3, <2>1
  <2>3. n \in Int /\ k \in Int
    OBVIOUS
  <2> QED
    BY <2>2, <2>3
<1> QED
  BY <1>4

(* A page ends at its greatest key, an empty one where it began. *)
LEMMA LastOfPage ==
    ASSUME NEW N \in Nat, NEW page \in SUBSET (1..N), NEW before \in 0..N
    PROVE  /\ LastOf(page, before) \in 0..N
           /\ page = {} => LastOf(page, before) = before
           /\ page # {} => /\ LastOf(page, before) \in page
                           /\ \A j \in page : j <= LastOf(page, before)
<1>1. CASE page = {}
  BY <1>1 DEF LastOf
<1>2. CASE page # {}
  <2>1. \E k \in page : \A j \in page : j <= k
    BY <1>2, MaxExists
  <2>2. /\ LastOf(page, before) \in page
        /\ \A j \in page : j <= LastOf(page, before)
    BY <1>2, <2>1 DEF LastOf
  <2>3. page \subseteq 0..N
    OBVIOUS
  <2> QED
    BY <1>2, <2>2, <2>3
<1> QED
  BY <1>1, <1>2

(* Counting part of a bounded set of numbers gives a natural number. *)
LEMMA CountIsNat ==
    ASSUME NEW N \in Nat, NEW S \in SUBSET (1..N)
    PROVE  IsFiniteSet(S) /\ Cardinality(S) \in Nat
<1>1. IsFiniteSet(1..N)
  BY FS_Interval
<1>2. IsFiniteSet(S)
  BY <1>1, FS_Subset
<1> QED
  BY <1>2, FS_CardinalityType

(* What a page is: a part of the rest; the whole rest when it is short. *)
LEMMA PageOfRest ==
    ASSUME NEW N \in Nat, NEW rest \in SUBSET (1..N), NEW page,
           IsPage(page, rest, MaxPage)
    PROVE  /\ page \subseteq rest
           /\ Cardinality(page) < MaxPage => page = rest
           /\ ~ Cardinality(page) < MaxPage =>
                 /\ page # {}
                 /\ \A j \in rest, k \in page : j < k => j \in page
<1>1. Cardinality({}) = 0
  BY FS_EmptySet
<1>2. Cardinality(page) \in Nat
  BY CountIsNat DEF IsPage
<1> QED
  BY <1>1, <1>2, NumbersAssumption DEF IsPage

-----------------------------------------------------------------------------
(* Rows. *)

(* The bounds are natural numbers, and the keys cover members and sessions. *)
LEMMA BoundsAreNat ==
    /\ NSessions \in Nat /\ NItems \in Nat /\ NSources \in Nat
    /\ NSources + NSessions \in Nat
    /\ \A src \in Sources : MemberKey(src) \in Keys
    /\ \A s \in Sessions : SessionKey(s) \in Keys
BY NumbersAssumption DEF Sources, Sessions, Keys, MemberKey, SessionKey

(* The blank rows are rows. *)
LEMMA BlankRows ==
    /\ NoItem \in ItemRow
    /\ NoSession \in SessionRow
    /\ NoRows \in Manifest
    /\ NoRevision \in Revision
    /\ NoWave \in WaveRow
    /\ NoAccumulator \in Accumulator
    /\ NoProbe \in Probe
    /\ NoScan \in Scan
<1>1. NoItem \in ItemRow
  BY DEF NoItem, ItemRow, Outcomes
<1>2. NoSession \in SessionRow
  <2>1. 0 \in 0..NItems
    BY BoundsAreNat
  <2> QED
    BY <2>1 DEF NoSession, SessionRow
<1>3. NoRows \in Manifest
  BY DEF NoRows, Manifest, Absent, EvidenceRow
<1>4. NoRevision \in Revision
  BY <1>3 DEF NoRevision, Revision
<1>5. NoWave \in WaveRow
  BY <1>4 DEF NoWave, WaveRow, WaveStates
<1>6. NoAccumulator \in Accumulator
  BY <1>3 DEF NoAccumulator, Accumulator
<1>7. NoProbe \in Probe
  BY DEF NoProbe, Probe
<1>8. NoScan \in Scan
  BY <1>6 DEF NoScan, Scan
<1> QED
  BY <1>1, <1>2, <1>3, <1>4, <1>5, <1>6, <1>7, <1>8

(* The evidence rows the actions write are evidence rows. *)
LEMMA EvidenceRows ==
    /\ \A state \in {"open", "closed", "abandoned"} :
          SessionEvidence(state) \in EvidenceRow
    /\ \A needs \in BOOLEAN : Member("pending", needs) \in EvidenceRow
    /\ \A row \in EvidenceRow, state \in {"pending", "settled"} \cup Terminal :
          [row EXCEPT !.state = state] \in EvidenceRow
    /\ \A row \in EvidenceRow, needs \in BOOLEAN :
          [row EXCEPT !.needs = @ \/ needs] \in EvidenceRow
    /\ \A row \in EvidenceRow : [row EXCEPT !.state = "none"] \in EvidenceRow
BY DEF SessionEvidence, Member, EvidenceRow, Terminal

(* Extending a session's lease, with more items registered or resolved, does
   not move the session. *)
LEMMA ExtendedRow ==
    ASSUME NEW row \in SessionRow, NEW n \in Nat
    PROVE  LET registered == [row EXCEPT !.registered = @ + n, !.lease = Extended(row)]
               extended == [row EXCEPT !.lease = Extended(row)]
           IN /\ registered \in SessionRow
              /\ registered.wave = row.wave /\ registered.state = row.state
              /\ extended \in SessionRow
              /\ extended.wave = row.wave /\ extended.state = row.state
<1>1. Extended(row) \in {"none", "live", "lapsed"}
  BY DEF Extended
<1>2. row.registered + n \in Nat
  BY DEF SessionRow
<1> QED
  BY <1>1, <1>2 DEF SessionRow

(* Resolving items, with the lease extended unless the session is being abandoned,
   does not move the session. *)
LEMMA ResolvedRow ==
    ASSUME NEW row \in SessionRow, NEW n \in Nat
    PROVE  LET new == [row EXCEPT !.resolved = @ + n,
                                  !.lease = IF row.abandoning THEN @
                                            ELSE Extended(row)]
           IN new \in SessionRow /\ new.wave = row.wave /\ new.state = row.state
<1>1. Extended(row) \in {"none", "live", "lapsed"}
  BY DEF Extended
<1>2. row.resolved + n \in Nat
  BY DEF SessionRow
<1> QED
  BY <1>1, <1>2 DEF SessionRow

(* A step that moves no session and ends none. *)
SessionsKept ==
    \A t \in Sessions : /\ session'[t].wave = session[t].wave
                        /\ session'[t].state = session[t].state

(* Rewriting one session row keeps the table typed and, if the row keeps its
   wave and state, every session in its place. *)
LEMMA OneSessionRow ==
    ASSUME TypeOK, NEW s \in Sessions, NEW row \in SessionRow,
           session' = [session EXCEPT ![s] = row]
    PROVE  /\ session' \in [Sessions -> SessionRow]
           /\ session'[s] = row
           /\ \A t \in Sessions \ {s} : session'[t] = session[t]
           /\ (row.wave = session[s].wave /\ row.state = session[s].state) =>
                 SessionsKept
BY DEF TypeOK, SessionsKept

(* A finalize lease is granted, lapses or is dropped without retyping its item. *)
LEMMA ItemFinalizing ==
    ASSUME NEW row \in ItemRow, NEW fin \in {"no", "live", "lapsed"}
    PROVE  [row EXCEPT !.fin = fin] \in ItemRow
BY DEF ItemRow

(* Reopening a wave row keeps its type and adds one open session. *)
LEMMA ReopenedRow ==
    ASSUME NEW row \in WaveRow
    PROVE  /\ Reopened(row) \in WaveRow
           /\ Reopened(row).state = "collecting"
           /\ Reopened(row).open = row.open + 1
<1>1. /\ row.open + 1 \in Nat
      /\ row.sessions + 1 \in Nat
      /\ row.epoch + 1 \in Nat
  BY DEF WaveRow
<1>2. "collecting" \in WaveStates
  BY DEF WaveStates
<1> HIDE DEF WaveStates
<1> QED
  BY <1>1, <1>2 DEF Reopened, WaveRow

-----------------------------------------------------------------------------
(* The invariant. *)

OpenSessions(w) == {s \in Sessions : session[s].wave = w /\ session[s].state = "open"}

OpenCounted == \A w \in Waves : wave[w].open = Cardinality(OpenSessions(w))

SessionsPlaced ==
    \A s \in Sessions :
        session[s].state \in {"open", "closed", "abandoned"} <=> session[s].wave # 0

UnusedWaves == \A w \in Waves : wave[w].state = "none" => wave[w] = NoWave

TypeInv == TypeOK /\ OpenCounted /\ SessionsPlaced /\ UnusedWaves

(* The empty library satisfies the strengthened type invariant. *)
LEMMA InitTypeInv == Init => TypeInv
<1> SUFFICES ASSUME Init PROVE TypeInv
  OBVIOUS
<1> USE DEF Init
<1>1. TypeOK
  <2>1. enrolled \in BOOLEAN
    BY Zenon
  <2> QED
    BY <2>1, BlankRows, NumbersAssumption DEF TypeOK
<1>2. OpenCounted
  <2> SUFFICES ASSUME NEW w \in Waves PROVE wave[w].open = Cardinality(OpenSessions(w))
    BY DEF OpenCounted
  <2>1. OpenSessions(w) = {}
    BY DEF OpenSessions, NoSession
  <2>2. wave[w].open = 0
    BY DEF NoWave
  <2> QED
    BY <2>1, <2>2, FS_EmptySet
<1>3. SessionsPlaced
  BY DEF SessionsPlaced, NoSession
<1>4. UnusedWaves
  BY DEF UnusedWaves
<1> QED
  BY <1>1, <1>2, <1>3, <1>4 DEF TypeInv

-----------------------------------------------------------------------------
(* Effects the transactions share. *)

(* A commit that strands the scans leaves typed ones. *)
LEMMA CommitTypes ==
    ASSUME Commit
    PROVE  /\ evaluation' \in [Waves -> Accumulator]
           /\ probe' \in [Waves -> Probe]
           /\ scan' \in Scan
BY BlankRows DEF Commit

(* So does one that only fails the evaluation in flight. *)
LEMMA CommitKeepingTypes ==
    ASSUME CommitKeepingRevision
    PROVE  scan' \in Scan
BY BlankRows DEF CommitKeepingRevision

(* A step that moves no session and leaves openSessions alone. *)
LEMMA SameCounts ==
    ASSUME OpenCounted, SessionsPlaced,
           SessionsKept,
           \A w \in Waves : wave'[w].open = wave[w].open
    PROVE  OpenCounted' /\ SessionsPlaced'
<1> USE DEF SessionsKept
<1>1. \A w \in Waves : OpenSessions(w)' = OpenSessions(w)
  BY DEF OpenSessions
<1>2. OpenCounted'
  BY <1>1 DEF OpenCounted
<1>3. SessionsPlaced'
  BY DEF SessionsPlaced
<1> QED
  BY <1>2, <1>3

(* A new session adds one to its wave and nothing to the others. *)
LEMMA OneOpened ==
    ASSUME NEW s \in Sessions, NEW w \in Waves, TypeInv,
           session[s].wave = 0,
           session'[s].wave = w, session'[s].state = "open",
           \A t \in Sessions \ {s} : session'[t] = session[t],
           wave'[w].open = wave[w].open + 1,
           \A v \in Waves \ {w} : wave'[v].open = wave[v].open
    PROVE  OpenCounted' /\ SessionsPlaced'
<1>1. OpenSessions(w)' = OpenSessions(w) \cup {s} /\ s \notin OpenSessions(w)
  BY DEF OpenSessions, Waves
<1>2. \A v \in Waves \ {w} : OpenSessions(v)' = OpenSessions(v)
  BY DEF OpenSessions, Waves
<1>3. IsFiniteSet(OpenSessions(w)) /\ Cardinality(OpenSessions(w)) \in Nat
  BY CountIsNat, BoundsAreNat DEF OpenSessions, Sessions
<1>4. Cardinality(OpenSessions(w)') = Cardinality(OpenSessions(w)) + 1
  BY <1>1, <1>3, FS_AddElement
<1>5. OpenCounted'
  BY <1>2, <1>4 DEF TypeInv, OpenCounted
<1>6. SessionsPlaced'
  BY DEF TypeInv, SessionsPlaced, Waves
<1> QED
  BY <1>5, <1>6

(* Ending an open session takes one from its wave, which therefore had one. *)
LEMMA OneEnded ==
    ASSUME NEW s \in Sessions, NEW w \in Waves, TypeInv,
           session[s].wave = w, session[s].state = "open",
           session'[s].wave = w, session'[s].state \in {"closed", "abandoned"},
           \A t \in Sessions \ {s} : session'[t] = session[t],
           wave'[w].open = wave[w].open - 1,
           \A v \in Waves \ {w} : wave'[v].open = wave[v].open
    PROVE  OpenCounted' /\ SessionsPlaced' /\ wave'[w].open \in Nat
<1>1. OpenSessions(w)' = OpenSessions(w) \ {s} /\ s \in OpenSessions(w)
  BY DEF OpenSessions, Waves
<1>2. \A v \in Waves \ {w} : OpenSessions(v)' = OpenSessions(v)
  BY DEF OpenSessions, Waves
<1>3. IsFiniteSet(OpenSessions(w)) /\ Cardinality(OpenSessions(w)) \in Nat
  BY CountIsNat, BoundsAreNat DEF OpenSessions, Sessions
<1>4. /\ IsFiniteSet(OpenSessions(w)')
      /\ Cardinality(OpenSessions(w)') = Cardinality(OpenSessions(w)) - 1
  BY <1>1, <1>3, FS_RemoveElement
<1>5. OpenCounted'
  BY <1>2, <1>4 DEF TypeInv, OpenCounted
<1>6. SessionsPlaced'
  BY DEF TypeInv, SessionsPlaced, Waves
<1>7. Cardinality(OpenSessions(w)') \in Nat
  BY <1>4, FS_CardinalityType
<1> QED
  BY <1>5, <1>6, <1>7 DEF OpenCounted

(* The wave of an open session is in use. *)
LEMMA OpenSessionsWave ==
    ASSUME TypeInv, NEW s \in Sessions, session[s].state = "open"
    PROVE  session[s].wave \in Waves /\ wave[session[s].wave].state # "none"
<1> DEFINE w == session[s].wave
<1>1. session[s] \in SessionRow
  BY DEF TypeInv, TypeOK
<1>2. w \in Waves
  BY <1>1 DEF TypeInv, SessionsPlaced, SessionRow
<1> HIDE DEF w
<1>3. s \in OpenSessions(w)
  BY DEF OpenSessions, w
<1>4. IsFiniteSet(OpenSessions(w))
  BY CountIsNat, BoundsAreNat DEF OpenSessions, Sessions
<1>5. wave[w].open # 0
  BY <1>2, <1>3, <1>4, FS_EmptySet DEF TypeInv, OpenCounted
<1>6. wave[w].state # "none"
  BY <1>2, <1>5 DEF TypeInv, UnusedWaves, NoWave
<1> QED
  BY <1>2, <1>6 DEF w

-----------------------------------------------------------------------------
(* Intake. *)

(* open_session keeps the tables typed and counts its session. *)
LEMMA OpenSessionTypes ==
    ASSUME TypeInv, NEW s \in Sessions, NEW declared \in Declarations,
           OpenSession(s, declared)
    PROVE  TypeInv'
<1> USE DEF OpenSession
<1>1. PICK w \in Waves :
        /\ Joins(w)
        /\ wave' = [wave EXCEPT ![w] =
                       Reopened(IF wave[w].state = "none" THEN FreshWave
                                ELSE wave[w])]
        /\ session' = [session EXCEPT ![s] =
                          [NoSession EXCEPT !.state = "open", !.wave = w,
                                            !.declared = declared,
                                            !.lease = IF enrolled THEN "live" ELSE "none"]]
        /\ evidence' = [evidence EXCEPT ![w][SessionKey(s)] = SessionEvidence("open")]
        /\ control' = CollectingTail(w)
  OBVIOUS
<1> DEFINE base == IF wave[w].state = "none" THEN FreshWave ELSE wave[w]
<1>2. wave' = [wave EXCEPT ![w] = Reopened(base)]
  BY <1>1
<1>3. base \in WaveRow /\ base.open = wave[w].open
  <2>1. CASE wave[w].state = "none"
    <3>1. FreshWave \in WaveRow
      BY BlankRows DEF FreshWave, TypeInv, TypeOK, WaveRow, Waves
    <3>2. FreshWave.open = 0
      BY DEF FreshWave, NoWave
    <3>3. wave[w].open = 0
      BY <2>1 DEF TypeInv, UnusedWaves, NoWave
    <3> QED
      BY <2>1, <3>1, <3>2, <3>3
  <2>2. CASE wave[w].state # "none"
    BY <2>2 DEF TypeInv, TypeOK
  <2> QED
    BY <2>1, <2>2
<1> HIDE DEF base
<1>4. Reopened(base) \in WaveRow /\ Reopened(base).state = "collecting"
      /\ Reopened(base).open = wave[w].open + 1
  BY <1>3, ReopenedRow
<1>5. wave' \in [Waves -> WaveRow]
  BY <1>2, <1>4 DEF TypeInv, TypeOK
<1>6. session' \in [Sessions -> SessionRow]
  <2> DEFINE row == [NoSession EXCEPT !.state = "open", !.wave = w,
                                      !.declared = declared,
                                      !.lease = IF enrolled THEN "live" ELSE "none"]
  <2>1. row \in SessionRow
    BY BlankRows, SessionsAssumption DEF SessionRow
  <2>2. session' = [session EXCEPT ![s] = row]
    BY <1>1
  <2> QED
    BY <2>1, <2>2 DEF TypeInv, TypeOK
<1>7. evidence' \in [Waves -> Manifest]
  BY <1>1, EvidenceRows DEF TypeInv, TypeOK, Manifest
<1>8. control' \in [collecting: Waves \cup {0}, tail: Waves \cup {0}]
  BY <1>1 DEF TypeInv, TypeOK, CollectingTail
<1>9. TypeOK'
  BY <1>5, <1>6, <1>7, <1>8, CommitTypes DEF TypeInv, TypeOK
<1>10. session[s].wave = 0
  BY DEF TypeInv, SessionsPlaced
<1>11. /\ session'[s].wave = w /\ session'[s].state = "open"
       /\ \A t \in Sessions \ {s} : session'[t] = session[t]
  BY <1>1 DEF TypeInv, TypeOK, NoSession
<1>12. /\ wave'[w].open = wave[w].open + 1
       /\ \A v \in Waves \ {w} : wave'[v].open = wave[v].open
  BY <1>2, <1>4 DEF TypeInv, TypeOK
<1>13. OpenCounted' /\ SessionsPlaced'
  BY <1>10, <1>11, <1>12, OneOpened
<1>14. UnusedWaves'
  BY <1>2, <1>4 DEF TypeInv, TypeOK, UnusedWaves
<1> QED
  BY <1>9, <1>13, <1>14 DEF TypeInv

(* register keeps the tables typed and the sessions in place. *)
LEMMA RegisterTypes ==
    ASSUME TypeInv, NEW s \in Sessions, NEW page \in Pages, Register(s, page)
    PROVE  TypeInv' /\ SessionsKept
<1> DEFINE new == {i \in page : item[s][i].outcome = "none"}
<1>1. Cardinality(new) \in Nat
  BY CountIsNat, BoundsAreNat DEF Pages, Items
<1>2. item' \in [Sessions -> [Items -> ItemRow]]
  <2>1. [NoItem EXCEPT !.outcome = "reserved"] \in ItemRow
    BY BlankRows DEF ItemRow
  <2> QED
    BY <2>1 DEF Register, TypeInv, TypeOK
<1> DEFINE row == [session[s] EXCEPT !.registered = @ + Cardinality(new),
                                     !.lease = Extended(session[s])]
<1>3. session[s] \in SessionRow
  BY DEF TypeInv, TypeOK
<1>4. row \in SessionRow /\ row.wave = session[s].wave /\ row.state = session[s].state
  BY <1>1, <1>3, ExtendedRow
<1>5. session' = [session EXCEPT ![s] = row]
  BY DEF Register
<1> HIDE DEF row
<1>6. TypeOK'
  BY <1>2, <1>4, <1>5, OneSessionRow, CommitTypes DEF Register, TypeInv, TypeOK
<1>7. OpenCounted' /\ SessionsPlaced' /\ SessionsKept
  BY <1>4, <1>5, OneSessionRow, SameCounts DEF Register, TypeInv
<1>8. UnusedWaves'
  BY DEF Register, TypeInv, UnusedWaves
<1> QED
  BY <1>6, <1>7, <1>8 DEF TypeInv

(* So does the admission of a finalize request. *)
LEMMA AdmitFinalizeTypes ==
    ASSUME TypeInv, NEW s \in Sessions, NEW i \in Items, AdmitFinalize(s, i)
    PROVE  TypeInv' /\ SessionsKept
<1> DEFINE row == [session[s] EXCEPT !.lease = Extended(session[s])]
           finalizing == [item[s][i] EXCEPT !.fin = "live"]
<1>1. session[s] \in SessionRow /\ item[s][i] \in ItemRow
  BY DEF TypeInv, TypeOK
<1>2. row \in SessionRow /\ row.wave = session[s].wave /\ row.state = session[s].state
  BY <1>1, ExtendedRow
<1>3. finalizing \in ItemRow
  BY <1>1, ItemFinalizing
<1>4. disturb' \in 0..MaxDisturb
  BY NumbersAssumption DEF AdmitFinalize, TypeInv, TypeOK
<1>5. CASE session[s].state = "open"
  <2>1. session' = [session EXCEPT ![s] = row]
    BY <1>5 DEF AdmitFinalize
  <2>2. item' = [item EXCEPT ![s] = [item[s] EXCEPT ![i] = finalizing]]
    BY <1>5 DEF AdmitFinalize
  <2> HIDE DEF row, finalizing
  <2>3. item' \in [Sessions -> [Items -> ItemRow]]
    BY <1>3, <2>2 DEF TypeInv, TypeOK
  <2>4. TypeOK'
    BY <1>2, <1>4, <2>1, <2>3, OneSessionRow, CommitTypes
    DEF AdmitFinalize, TypeInv, TypeOK
  <2>5. OpenCounted' /\ SessionsPlaced' /\ SessionsKept
    BY <1>2, <2>1, OneSessionRow, SameCounts DEF AdmitFinalize, TypeInv
  <2>6. UnusedWaves'
    BY DEF AdmitFinalize, TypeInv, UnusedWaves
  <2> QED
    BY <2>4, <2>5, <2>6 DEF TypeInv
<1>6. CASE session[s].state # "open"
  <2>1. UNCHANGED <<item, session>>
    BY <1>6 DEF AdmitFinalize
  <2>2. TypeOK'
    BY <1>4, <2>1, CommitTypes DEF AdmitFinalize, TypeInv, TypeOK
  <2>3. OpenCounted' /\ SessionsPlaced' /\ SessionsKept
    BY <2>1, SameCounts DEF SessionsKept, AdmitFinalize, TypeInv
  <2>4. UnusedWaves'
    BY DEF AdmitFinalize, TypeInv, UnusedWaves
  <2> QED
    BY <2>2, <2>3, <2>4 DEF TypeInv
<1> QED
  BY <1>5, <1>6

(* Admitting members keeps the evidence rows typed. *)
LEMMA WithMembersTypes ==
    ASSUME NEW rows \in Manifest, NEW admitted \in SUBSET Sources,
           NEW projected \in SUBSET Sources
    PROVE  WithMembers(rows, admitted, projected) \in Manifest
<1> SUFFICES ASSUME NEW k \in Keys
             PROVE  WithMembers(rows, admitted, projected)[k] \in EvidenceRow
  BY DEF WithMembers, Manifest
<1>1. rows[k] \in EvidenceRow
  BY DEF Manifest
<1>2. (k \in projected) \in BOOLEAN
  OBVIOUS
<1>3. /\ Member("pending", k \in projected) \in EvidenceRow
      /\ [rows[k] EXCEPT !.needs = @ \/ k \in projected] \in EvidenceRow
  BY <1>1, <1>2, EvidenceRows
<1> QED
  BY <1>1, <1>3 DEF WithMembers

(* resolve_many keeps the tables typed and the sessions in place. *)
LEMMA ResolveManyTypes ==
    ASSUME TypeInv, NEW s \in Sessions, NEW page \in Pages,
           NEW binding \in [page -> Bindings], ResolveMany(s, binding)
    PROVE  TypeInv' /\ SessionsKept
<1> DEFINE pending == Reserved(s, page)
           w == session[s].wave
           admitted == Admitted(pending, binding)
           projected == Projected(pending, binding)
           fresh == {src \in admitted : evidence[w][MemberKey(src)] = Absent}
           row == [session[s] EXCEPT !.resolved = @ + Cardinality(pending),
                                     !.lease = IF session[s].abandoning THEN @
                                               ELSE Extended(session[s])]
<1>1. DOMAIN binding = page
  OBVIOUS
<1>2. pending \subseteq page /\ page \subseteq Items
  BY DEF Reserved, Pages
<1>3. Cardinality(pending) \in Nat
  BY <1>2, CountIsNat, BoundsAreNat DEF Items
<1>4. session[s] \in SessionRow /\ w \in Waves
  BY DEF TypeInv, TypeOK, SessionsPlaced, SessionRow, ResolveMany
<1>5. admitted \subseteq Sources /\ projected \subseteq Sources
  BY <1>2 DEF Admitted, Projected, Bindings, Admitting
<1>6. Cardinality(fresh) \in Nat
  BY <1>5, CountIsNat, BoundsAreNat DEF Sources
<1>7. session' = [session EXCEPT ![s] = row]
  BY <1>1 DEF ResolveMany
<1>8. wave' = [wave EXCEPT ![w].members = @ + Cardinality(fresh)]
  BY <1>1 DEF ResolveMany
<1>9. evidence' = [evidence EXCEPT ![w] = WithMembers(evidence[w], admitted, projected)]
  BY <1>1 DEF ResolveMany
<1>10. item' = [item EXCEPT ![s] =
                   [i \in Items |->
                       IF i \in pending
                       THEN [item[s][i] EXCEPT !.outcome = binding[i].outcome,
                                               !.src = binding[i].src]
                       ELSE item[s][i]]]
  BY <1>1 DEF ResolveMany
<1>11. row \in SessionRow /\ row.wave = session[s].wave /\ row.state = session[s].state
  BY <1>3, <1>4, ResolvedRow
<1> HIDE DEF pending, w, admitted, projected, fresh, row
<1>12. item' \in [Sessions -> [Items -> ItemRow]]
  <2>1. ASSUME NEW i \in pending
        PROVE  [item[s][i] EXCEPT !.outcome = binding[i].outcome,
                                  !.src = binding[i].src] \in ItemRow
    <3>1. item[s][i] \in ItemRow
      BY <1>2 DEF TypeInv, TypeOK
    <3>2. binding[i] \in Bindings
      BY <1>2
    <3>3. /\ binding[i].outcome \in Outcomes \cup {"none", "reserved"}
          /\ binding[i].src \in Sources \cup {0}
      BY <3>2 DEF Bindings, Admitting, Outcomes
    <3> QED
      BY <3>1, <3>3 DEF ItemRow
  <2> QED
    BY <1>10, <2>1 DEF TypeInv, TypeOK
<1>13. wave' \in [Waves -> WaveRow] /\ \A v \in Waves : wave'[v].open = wave[v].open
                                 /\ wave'[v].state = wave[v].state
  <2>1. wave[w] \in WaveRow
    BY <1>4 DEF TypeInv, TypeOK
  <2>2. wave[w].members + Cardinality(fresh) \in Nat
    BY <1>6, <2>1 DEF WaveRow
  <2> DEFINE grown == [wave[w] EXCEPT !.members = @ + Cardinality(fresh)]
  <2>3. /\ grown \in WaveRow
        /\ grown.open = wave[w].open
        /\ grown.state = wave[w].state
    BY <2>1, <2>2 DEF WaveRow
  <2>4. wave' = [wave EXCEPT ![w] = grown]
    BY <1>8
  <2> HIDE DEF grown
  <2> QED
    BY <1>4, <2>3, <2>4 DEF TypeInv, TypeOK
<1>14. evidence' \in [Waves -> Manifest]
  BY <1>4, <1>5, <1>9, WithMembersTypes DEF TypeInv, TypeOK
<1>15. TypeOK'
  BY <1>7, <1>11, <1>12, <1>13, <1>14, OneSessionRow, CommitTypes
  DEF ResolveMany, TypeInv, TypeOK
<1>16. OpenCounted' /\ SessionsPlaced' /\ SessionsKept
  BY <1>7, <1>11, <1>13, OneSessionRow, SameCounts DEF TypeInv
<1>17. UnusedWaves'
  <2>1. wave[w].state # "none"
    BY OpenSessionsWave DEF ResolveMany, w
  <2> QED
    BY <1>4, <1>8, <1>13, <2>1 DEF TypeInv, TypeOK, UnusedWaves
<1> QED
  BY <1>15, <1>16, <1>17 DEF TypeInv

(* close and the close that ends abandon. *)
LEMMA CloseAsTypes ==
    ASSUME TypeInv, NEW s \in Sessions, NEW state \in {"closed", "abandoned"},
           session[s].state = "open", CloseAs(s, state)
    PROVE  TypeInv'
<1> DEFINE w == session[s].wave
           left == wave[w].open - 1
           next == IF left # 0 THEN "collecting"
                   ELSE IF wave[w].pred # 0 THEN "waiting_predecessor"
                   ELSE "processing_pending"
           ended == [Stopped(session[s]) EXCEPT !.state = state]
           sealed == [wave[w] EXCEPT !.open = left, !.state = next,
                                     !.vision = IF next = "processing_pending"
                                                THEN wave[w].epoch ELSE @]
<1>1. session[s] \in SessionRow /\ w \in Waves
  BY OpenSessionsWave DEF TypeInv, TypeOK
<1>2. wave[w] \in WaveRow
  BY <1>1 DEF TypeInv, TypeOK
<1>3. /\ ended \in SessionRow
      /\ ended.wave = w
      /\ ended.state = state
  BY <1>1 DEF Stopped, SessionRow
<1>4. session' = [session EXCEPT ![s] = ended]
  BY DEF CloseAs
<1>5. /\ sealed.open = left
      /\ sealed.state = next
      /\ left \in Nat => sealed \in WaveRow
  <2>1. next \in WaveStates
    BY DEF WaveStates, Barrier
  <2> HIDE DEF next, left
  <2> QED
    BY <1>2, <2>1 DEF WaveRow
<1>6. wave' = [wave EXCEPT ![w] = sealed]
  BY DEF CloseAs
<1>7. next # "none"
  OBVIOUS
<1>8. /\ item' = [item EXCEPT ![s] = [i \in Items |-> [item[s][i] EXCEPT !.fin = "no"]]]
      /\ visionOut' = [visionOut EXCEPT ![w] =
                         IF next = "processing_pending"
                         THEN @ \cup {wave[w].epoch} ELSE @]
      /\ evidence' = [evidence EXCEPT ![w][SessionKey(s)] = SessionEvidence(state)]
      /\ control' = Detached(w, left)
      /\ Commit
      /\ UNCHANGED <<enrolled, clusterOut, completion, published, disturb>>
  BY DEF CloseAs
<1> HIDE DEF w, ended, sealed, next
<1>9. /\ wave'[w].open = wave[w].open - 1
      /\ \A v \in Waves \ {w} : wave'[v] = wave[v]
  BY <1>1, <1>5, <1>6 DEF TypeInv, TypeOK
<1>10. /\ session'[s] = ended
       /\ \A t \in Sessions \ {s} : session'[t] = session[t]
  BY <1>3, <1>4, OneSessionRow DEF TypeInv
<1>11. OpenCounted' /\ SessionsPlaced' /\ wave'[w].open \in Nat
  <2>1. session[s].wave = w
    BY DEF w
  <2> QED
    BY <1>1, <1>3, <1>9, <1>10, <2>1, OneEnded
<1>12. wave' \in [Waves -> WaveRow]
  BY <1>1, <1>5, <1>6, <1>9, <1>11 DEF TypeInv, TypeOK
<1>13. item' \in [Sessions -> [Items -> ItemRow]]
  BY <1>8, ItemFinalizing DEF TypeInv, TypeOK
<1>14. visionOut' \in [Waves -> SUBSET Nat]
  <2>1. wave[w].epoch \in Nat
    BY <1>2 DEF WaveRow
  <2> QED
    BY <1>1, <1>8, <2>1 DEF TypeInv, TypeOK
<1>15. evidence' \in [Waves -> Manifest]
  BY <1>1, <1>8, EvidenceRows DEF TypeInv, TypeOK, Manifest
<1>16. control' \in [collecting: Waves \cup {0}, tail: Waves \cup {0}]
  BY <1>8 DEF Detached, TypeInv, TypeOK
<1>17. TypeOK'
  BY <1>3, <1>4, <1>8, <1>12, <1>13, <1>14, <1>15, <1>16, OneSessionRow, CommitTypes
  DEF TypeInv, TypeOK
<1>18. UnusedWaves'
  BY <1>1, <1>5, <1>6, <1>7, <1>9 DEF TypeInv, TypeOK, UnusedWaves
<1> QED
  BY <1>11, <1>17, <1>18 DEF TypeInv

-----------------------------------------------------------------------------
(* Expiry, discard and abandonment. *)

(* seal_expired moves no session. *)
LEMMA SealExpiredTypes ==
    ASSUME TypeInv, NEW s \in Sessions, SealExpired(s)
    PROVE  TypeInv' /\ SessionsKept
<1> DEFINE row == [session[s] EXCEPT !.abandoning = TRUE, !.drain = "running"]
<1>1. session[s] \in SessionRow
  BY DEF TypeInv, TypeOK
<1>2. row \in SessionRow /\ row.wave = session[s].wave /\ row.state = session[s].state
  BY <1>1 DEF SessionRow
<1>3. session' = [session EXCEPT ![s] = row]
  BY DEF SealExpired
<1> HIDE DEF row
<1>4. TypeOK'
  BY <1>2, <1>3, OneSessionRow, CommitTypes DEF SealExpired, TypeInv, TypeOK
<1>5. OpenCounted' /\ SessionsPlaced' /\ SessionsKept
  BY <1>2, <1>3, OneSessionRow, SameCounts DEF SealExpired, TypeInv
<1> QED
  BY <1>4, <1>5 DEF SealExpired, TypeInv, UnusedWaves

(* fence_discard moves no session; a tombstone is in no wave. *)
LEMMA FenceDiscardTypes ==
    ASSUME TypeInv, NEW s \in Sessions, FenceDiscard(s)
    PROVE  TypeInv'
<1>1. session[s] \in SessionRow
  BY DEF TypeInv, TypeOK
<1>2. CASE session[s].state = "none"
  <2> DEFINE row == [session[s] EXCEPT !.state = "absent"]
  <2>1. row \in SessionRow /\ row.wave = session[s].wave /\ row.state = "absent"
    BY <1>1 DEF SessionRow
  <2>2. session' = [session EXCEPT ![s] = row]
    BY <1>2 DEF FenceDiscard
  <2> HIDE DEF row
  <2>3. TypeOK'
    BY <2>1, <2>2, OneSessionRow DEF FenceDiscard, TypeInv, TypeOK
  <2>4. \A w \in Waves : OpenSessions(w)' = OpenSessions(w)
    BY <1>2, <2>1, <2>2, OneSessionRow DEF OpenSessions, TypeInv
  <2>5. OpenCounted'
    BY <2>4 DEF FenceDiscard, TypeInv, OpenCounted
  <2>6. SessionsPlaced'
    BY <1>2, <2>1, <2>2, OneSessionRow DEF TypeInv, SessionsPlaced
  <2> QED
    BY <2>3, <2>5, <2>6 DEF FenceDiscard, TypeInv, UnusedWaves
<1>3. CASE session[s].state = "open"
  <2> DEFINE row == [session[s] EXCEPT !.abandoning = TRUE, !.drain = "running"]
  <2>1. row \in SessionRow /\ row.wave = session[s].wave /\ row.state = session[s].state
    BY <1>1 DEF SessionRow
  <2>2. session' = [session EXCEPT ![s] = row]
    BY <1>3 DEF FenceDiscard
  <2> HIDE DEF row
  <2>3. TypeOK'
    BY <2>1, <2>2, OneSessionRow DEF FenceDiscard, TypeInv, TypeOK
  <2>4. OpenCounted' /\ SessionsPlaced'
    BY <2>1, <2>2, OneSessionRow, SameCounts DEF FenceDiscard, TypeInv
  <2> QED
    BY <2>3, <2>4 DEF FenceDiscard, TypeInv, UnusedWaves
<1> QED
  BY <1>2, <1>3 DEF FenceDiscard

(* A page of abandon moves no session. *)
LEMMA AbandonPageTypes ==
    ASSUME TypeInv, NEW s \in Sessions, AbandonPage(s)
    PROVE  TypeInv' /\ SessionsKept
<1> DEFINE rest == {i \in Items : i > session[s].cursor /\ item[s][i].outcome # "none"}
<1>1. PICK page \in SUBSET rest :
        /\ item' = [item EXCEPT ![s] =
                       [i \in Items |-> IF i \in Reserved(s, page)
                                        THEN [item[s][i] EXCEPT !.outcome = "cancelled"]
                                        ELSE item[s][i]]]
        /\ session' = [session EXCEPT ![s] =
                          [session[s] EXCEPT
                              !.abandoning = TRUE,
                              !.cursor = LastOf(page, @),
                              !.scanned = Cardinality(page) < MaxPage,
                              !.resolved = @ + Cardinality(Reserved(s, page))]]
  BY DEF AbandonPage
<1> DEFINE last == LastOf(page, session[s].cursor)
           count == Cardinality(Reserved(s, page))
           short == Cardinality(page) < MaxPage
           row == [session[s] EXCEPT !.abandoning = TRUE, !.cursor = last,
                                     !.scanned = short, !.resolved = @ + count]
<1>2. session[s] \in SessionRow
  BY DEF TypeInv, TypeOK
<1>3. last \in Items \cup {0}
  <2>1. session[s].cursor \in 0..NItems
    BY <1>2, BoundsAreNat DEF SessionRow, Items
  <2>2. page \in SUBSET (1..NItems) /\ NItems \in Nat
    BY BoundsAreNat DEF Items
  <2>3. last \in 0..NItems
    BY <2>1, <2>2, LastOfPage
  <2> QED
    BY <2>2, <2>3 DEF Items
<1>4. count \in Nat
  <2>1. Reserved(s, page) \in SUBSET Items
    BY DEF Reserved
  <2> QED
    BY <2>1, CountIsNat, BoundsAreNat DEF Items
<1>5. short \in BOOLEAN
  OBVIOUS
<1>6. session' = [session EXCEPT ![s] = row]
  BY <1>1
<1> HIDE DEF last, count, short, rest
<1>7. row \in SessionRow /\ row.wave = session[s].wave /\ row.state = session[s].state
  <2>1. session[s].resolved + count \in Nat
    BY <1>2, <1>4 DEF SessionRow
  <2> QED
    BY <1>2, <1>3, <1>5, <2>1 DEF SessionRow
<1> HIDE DEF row
<1>8. item' \in [Sessions -> [Items -> ItemRow]]
  <2>1. ASSUME NEW i \in Items
        PROVE  [item[s][i] EXCEPT !.outcome = "cancelled"] \in ItemRow
    <3>1. item[s][i] \in ItemRow
      BY DEF TypeInv, TypeOK
    <3> QED
      BY <3>1 DEF ItemRow, Outcomes
  <2> QED
    BY <1>1, <2>1 DEF TypeInv, TypeOK
<1>9. TypeOK'
  BY <1>6, <1>7, <1>8, OneSessionRow, CommitTypes DEF AbandonPage, TypeInv, TypeOK
<1>10. OpenCounted' /\ SessionsPlaced' /\ SessionsKept
  BY <1>6, <1>7, OneSessionRow, SameCounts DEF AbandonPage, TypeInv
<1> QED
  BY <1>9, <1>10 DEF AbandonPage, TypeInv, UnusedWaves

-----------------------------------------------------------------------------
(* The barrier. *)

(* A step that rewrites one wave row in use, and no session, keeps the counts
   if it keeps openSessions. *)
LEMMA OneWaveRow ==
    ASSUME TypeInv, NEW w \in Waves, NEW row \in WaveRow,
           wave' = [wave EXCEPT ![w] = row],
           row.open = wave[w].open, row.state # "none",
           UNCHANGED session
    PROVE  /\ wave' \in [Waves -> WaveRow]
           /\ OpenCounted' /\ SessionsPlaced' /\ UnusedWaves'
<1>1. wave'[w] = row /\ \A v \in Waves \ {w} : wave'[v] = wave[v]
  BY DEF TypeInv, TypeOK
<1>2. wave' \in [Waves -> WaveRow]
  BY DEF TypeInv, TypeOK
<1>3. OpenCounted' /\ SessionsPlaced'
  BY <1>1, SameCounts DEF SessionsKept, TypeInv
<1>4. UnusedWaves'
  BY <1>1 DEF TypeInv, UnusedWaves
<1> QED
  BY <1>2, <1>3, <1>4

(* promote_successor rewrites one wave in use and keeps its openSessions. *)
LEMMA PromoteSuccessorTypes ==
    ASSUME TypeInv, NEW w \in Waves, PromoteSuccessor(w)
    PROVE  TypeInv'
<1> DEFINE p == wave[w].pred
           row == [wave[w] EXCEPT !.state = "processing_pending",
                                  !.predFrozen = wave[p].frozen,
                                  !.vision = wave[w].epoch]
<1>1. wave[w] \in WaveRow
  BY DEF TypeInv, TypeOK
<1>2. p \in Waves
  BY <1>1 DEF PromoteSuccessor, WaveRow
<1>3. wave[p].frozen \in Revision
  BY <1>2 DEF TypeInv, TypeOK, WaveRow
<1>4. wave' = [wave EXCEPT ![w] = row]
  BY DEF PromoteSuccessor
<1>5. /\ row \in WaveRow
      /\ row.open = wave[w].open
      /\ row.state # "none"
  <2> DEFINE frozen == wave[p].frozen
  <2>1. "processing_pending" \in WaveStates
    BY DEF WaveStates, Barrier
  <2> HIDE DEF frozen
  <2> QED
    BY <1>1, <1>3, <2>1 DEF WaveRow, frozen
<1> HIDE DEF row
<1>6. visionOut' \in [Waves -> SUBSET Nat]
  BY <1>1 DEF PromoteSuccessor, TypeInv, TypeOK, WaveRow
<1>7. TypeOK'
  BY <1>4, <1>5, <1>6, OneWaveRow, CommitTypes DEF PromoteSuccessor, TypeInv, TypeOK
<1> QED
  BY <1>4, <1>5, <1>7, OneWaveRow DEF PromoteSuccessor, TypeInv

(* An observation keeps the evidence rows typed. *)
LEMMA ObservedTypes ==
    ASSUME TypeInv, NEW w \in Waves, NEW seen \in Observations(w)
    PROVE  Observed(w, seen) \in Manifest
<1>1. \A k \in DOMAIN seen : seen[k] \in {"pending", "settled"}
  BY DEF Observations
<1> SUFFICES ASSUME NEW k \in Keys PROVE Observed(w, seen)[k] \in EvidenceRow
  BY DEF Observed, Manifest
<1>2. evidence[w][k] \in EvidenceRow
  BY DEF TypeInv, TypeOK, Manifest
<1>3. k \in DOMAIN seen => [evidence[w][k] EXCEPT !.state = seen[k]] \in EvidenceRow
  BY <1>1, <1>2, EvidenceRows
<1> QED
  BY <1>2, <1>3 DEF Observed

(* observe and commit_observations write evidence alone. *)
LEMMA ObservationTypes ==
    ASSUME TypeInv, NEW w \in Waves, NEW seen \in Observations(w),
           CommitObservations(w, seen) \/ Observe(w, seen)
    PROVE  TypeInv'
<1>1. evidence' = [evidence EXCEPT ![w] = Observed(w, seen)]
  BY DEF CommitObservations, Observe
<1>2. evidence' \in [Waves -> Manifest]
  BY <1>1, ObservedTypes DEF TypeInv, TypeOK
<1>3. disturb' \in 0..MaxDisturb
  BY NumbersAssumption DEF CommitObservations, Observe, TypeInv, TypeOK
<1>4. /\ evaluation' \in [Waves -> Accumulator]
      /\ probe' \in [Waves -> Probe]
      /\ scan' \in Scan
  BY BlankRows, CommitTypes DEF CommitObservations, Observe, RestartScan, TypeInv, TypeOK
<1>5. UNCHANGED <<enrolled, control, wave, session, item, visionOut, clusterOut,
                  completion, published>>
  BY DEF CommitObservations, Observe
<1>6. TypeOK'
  BY <1>2, <1>3, <1>4, <1>5 DEF TypeInv, TypeOK
<1>7. OpenCounted' /\ SessionsPlaced'
  BY <1>5, SameCounts DEF SessionsKept, TypeInv
<1> QED
  BY <1>5, <1>6, <1>7 DEF TypeInv, UnusedWaves

(* settle writes one member of a wave in use. *)
LEMMA SettleTypes ==
    ASSUME TypeInv, NEW w \in Waves, NEW src \in Sources, NEW outcome \in Terminal,
           Settle(w, src, outcome)
    PROVE  TypeInv'
<1> DEFINE k == MemberKey(src)
           settled == [evidence[w][k] EXCEPT !.state = outcome]
<1>1. k \in Keys
  BY BoundsAreNat
<1>2. settled \in EvidenceRow
  BY <1>1, EvidenceRows DEF TypeInv, TypeOK, Manifest
<1>3. evidence' = [evidence EXCEPT ![w] = [evidence[w] EXCEPT ![k] = settled]]
  BY DEF Settle
<1> HIDE DEF settled
<1>4. evidence' \in [Waves -> Manifest]
  BY <1>1, <1>2, <1>3 DEF TypeInv, TypeOK, Manifest
<1>5. disturb' \in 0..MaxDisturb
  BY NumbersAssumption DEF Settle, TypeInv, TypeOK
<1>6. TypeOK'
  BY <1>4, <1>5, CommitTypes DEF Settle, TypeInv, TypeOK
<1>7. OpenCounted' /\ SessionsPlaced'
  BY SameCounts DEF SessionsKept, Settle, TypeInv
<1> QED
  BY <1>6, <1>7 DEF Settle, TypeInv, UnusedWaves

(* A step of the barrier scan or the probe: no wave, session, item or evidence
   row changes. *)
LEMMA ScanStepTypes ==
    ASSUME TypeInv,
           UNCHANGED <<enrolled, control, wave, session, item, evidence,
                       visionOut, clusterOut, completion>>,
           evaluation' \in [Waves -> Accumulator],
           probe' \in [Waves -> Probe],
           scan' \in Scan,
           published' \in [Sources -> Waves \cup {0}],
           disturb' \in 0..MaxDisturb
    PROVE  TypeInv'
<1>1. TypeOK'
  BY DEF TypeInv, TypeOK
<1>2. OpenCounted' /\ SessionsPlaced'
  BY SameCounts DEF SessionsKept, TypeInv
<1> QED
  BY <1>1, <1>2 DEF TypeInv, UnusedWaves

(* A page read behind a typed accumulator leaves a typed scan. *)
LEMMA EvaluateReadTypes ==
    ASSUME TypeInv, NEW w \in Waves, EvaluateRead(w)
    PROVE  TypeInv'
<1> DEFINE rest == {k \in Present(w) : k > evaluation[w].after}
<1>1. PICK page \in SUBSET rest :
        scan' = [wave |-> w,
                 acc |-> [after |-> LastOf(page, evaluation[w].after),
                          rows |-> [k \in Keys |->
                                       IF k \in page THEN evidence[w][k]
                                       ELSE evaluation[w].rows[k]]],
                 finished |-> Cardinality(page) < MaxPage]
  BY DEF EvaluateRead
<1>2. evaluation[w] \in Accumulator /\ evidence[w] \in Manifest
  BY DEF TypeInv, TypeOK
<1>3. LastOf(page, evaluation[w].after) \in Keys \cup {0}
  <2> DEFINE N == NSources + NSessions
  <2>1. page \in SUBSET (1..N) /\ N \in Nat
    BY BoundsAreNat DEF Present, Keys
  <2>2. evaluation[w].after \in 0..N
    BY <1>2, <2>1 DEF Accumulator, Keys
  <2> HIDE DEF N
  <2>3. LastOf(page, evaluation[w].after) \in 0..N
    BY <2>1, <2>2, LastOfPage
  <2> QED
    BY <2>1, <2>3 DEF Keys, N
<1>4. [k \in Keys |-> IF k \in page THEN evidence[w][k] ELSE evaluation[w].rows[k]]
        \in Manifest
  BY <1>2 DEF Accumulator, Manifest
<1>5. scan' \in Scan
  BY <1>1, <1>3, <1>4 DEF Scan, Accumulator
<1> QED
  BY <1>5, ScanStepTypes DEF EvaluateRead, TypeInv, TypeOK

(* Losing the scan in flight changes no row. *)
LEMMA EvaluateCrashTypes ==
    ASSUME TypeInv, EvaluateCrash
    PROVE  TypeInv'
<1>1. disturb' \in 0..MaxDisturb
  BY NumbersAssumption DEF EvaluateCrash, TypeInv, TypeOK
<1> QED
  BY <1>1, BlankRows, ScanStepTypes DEF EvaluateCrash, TypeInv, TypeOK

(* Saving the scan changes no wave or session row. *)
LEMMA EvaluateSavePageTypes ==
    ASSUME TypeInv, EvaluateSavePage
    PROVE  TypeInv'
<1>1. evaluation' \in [Waves -> Accumulator]
  BY DEF EvaluateSavePage, TypeInv, TypeOK, Scan
<1> QED
  BY <1>1, CommitKeepingTypes, ScanStepTypes DEF EvaluateSavePage, TypeInv, TypeOK

(* A held barrier rewrites one wave in use. *)
LEMMA EvaluateHoldTypes ==
    ASSUME TypeInv, EvaluateHold
    PROVE  TypeInv'
<1> DEFINE w == scan.wave
           row == [wave[w] EXCEPT !.state = "processing"]
<1>1. w \in Waves
  BY DEF EvaluateHold, TypeInv, TypeOK, Scan
<1>2. wave[w] \in WaveRow
  BY <1>1 DEF TypeInv, TypeOK
<1>3. /\ row \in WaveRow
      /\ row.open = wave[w].open
      /\ row.state # "none"
  <2>1. "processing" \in WaveStates
    BY DEF WaveStates, Barrier
  <2> QED
    BY <1>2, <2>1 DEF WaveRow
<1>4. wave' = [wave EXCEPT ![w] = row]
  BY DEF EvaluateHold
<1>5. evaluation' \in [Waves -> Accumulator]
  BY BlankRows DEF EvaluateHold, TypeInv, TypeOK
<1>6. UNCHANGED session
  BY DEF EvaluateHold
<1> HIDE DEF w, row
<1>7. /\ wave' \in [Waves -> WaveRow]
      /\ OpenCounted' /\ SessionsPlaced' /\ UnusedWaves'
  BY <1>1, <1>3, <1>4, <1>6, OneWaveRow
<1>8. TypeOK'
  BY <1>5, <1>7, CommitKeepingTypes DEF EvaluateHold, TypeInv, TypeOK
<1> QED
  BY <1>7, <1>8 DEF TypeInv

(* evaluate's and complete_empty_wave's last transaction: a revision is bound. *)
LEMMA FrozenRow ==
    ASSUME NEW row \in WaveRow, NEW state \in {"ready", "complete"},
           NEW revision \in Revision
    PROVE  LET new == [row EXCEPT !.state = state, !.frozen = revision]
           IN new \in WaveRow /\ new.open = row.open /\ new.state # "none"
<1>1. state \in WaveStates
  BY DEF WaveStates, Frozen
<1> QED
  BY <1>1 DEF WaveRow

(* evaluate binds a typed revision to a wave in use. *)
LEMMA EvaluateFreezeTypes ==
    ASSUME TypeInv, EvaluateFreeze
    PROVE  TypeInv'
<1> DEFINE w == scan.wave
           revision == [path |-> "vision", epoch |-> wave[w].epoch,
                        rows |-> scan.acc.rows]
           row == [wave[w] EXCEPT !.state = "ready", !.frozen = revision]
<1>1. w \in Waves
  BY DEF EvaluateFreeze, TypeInv, TypeOK, Scan
<1>2. wave[w] \in WaveRow /\ scan \in Scan
  BY <1>1 DEF TypeInv, TypeOK
<1>3. revision \in Revision
  BY <1>2 DEF Scan, Accumulator, Revision, WaveRow
<1>4. /\ wave' = [wave EXCEPT ![w] = row]
      /\ clusterOut' = [clusterOut EXCEPT ![w] = revision]
  BY DEF EvaluateFreeze
<1>5. UNCHANGED session
  BY DEF EvaluateFreeze
<1> HIDE DEF w, revision
<1>6. row \in WaveRow /\ row.open = wave[w].open /\ row.state # "none"
  BY <1>2, <1>3, FrozenRow
<1> HIDE DEF row
<1>7. /\ wave' \in [Waves -> WaveRow]
      /\ OpenCounted' /\ SessionsPlaced' /\ UnusedWaves'
  BY <1>1, <1>4, <1>5, <1>6, OneWaveRow
<1>8. clusterOut' \in [Waves -> Revision]
  BY <1>1, <1>3, <1>4 DEF TypeInv, TypeOK
<1>9. TypeOK'
  BY <1>7, <1>8, CommitTypes DEF EvaluateFreeze, TypeInv, TypeOK
<1> QED
  BY <1>7, <1>9 DEF TypeInv

-----------------------------------------------------------------------------
(* The no-work fast path. *)

(* Ruling the no-work path out rewrites one wave in use. *)
LEMMA ProbeImpossibleTypes ==
    ASSUME TypeInv, NEW w \in Waves, ProbeImpossible(w)
    PROVE  TypeInv'
<1> DEFINE row == [wave[w] EXCEPT !.noWorkImpossible = TRUE]
<1>1. wave[w] \in WaveRow
  BY DEF TypeInv, TypeOK
<1>2. wave[w].state # "none"
  BY DEF ProbeImpossible, Probing, Barrier
<1>3. row \in WaveRow /\ row.open = wave[w].open /\ row.state # "none"
  BY <1>1, <1>2 DEF WaveRow
<1>4. /\ wave' = [wave EXCEPT ![w] = row]
      /\ probe' = [probe EXCEPT ![w] = NoProbe]
      /\ CommitKeepingRevision
      /\ UNCHANGED <<enrolled, control, session, item, evidence, evaluation,
                     visionOut, clusterOut, completion, published, disturb>>
  BY DEF ProbeImpossible
<1> HIDE DEF row
<1>5. /\ wave' \in [Waves -> WaveRow]
      /\ OpenCounted' /\ SessionsPlaced' /\ UnusedWaves'
  BY <1>3, <1>4, OneWaveRow
<1>6. probe' \in [Waves -> Probe]
  BY <1>4, BlankRows DEF TypeInv, TypeOK
<1>7. TypeOK'
  BY <1>4, <1>5, <1>6, CommitKeepingTypes DEF TypeInv, TypeOK
<1> QED
  BY <1>5, <1>7 DEF TypeInv

(* Saving the probe changes no wave or session row. *)
LEMMA ProbeSavePageTypes ==
    ASSUME TypeInv, NEW w \in Waves, ProbeSavePage(w)
    PROVE  TypeInv'
<1> DEFINE rest == {k \in Present(w) : k > probe[w].after}
<1>1. PICK page \in SUBSET rest :
        probe' = [probe EXCEPT ![w] = [after |-> LastOf(page, probe[w].after),
                                       seen |-> probe[w].seen \cup page]]
  BY DEF ProbeSavePage
<1>2. probe[w] \in Probe
  BY DEF TypeInv, TypeOK
<1>3. page \subseteq Keys
  BY DEF Present
<1>4. LastOf(page, probe[w].after) \in Keys \cup {0}
  <2> DEFINE N == NSources + NSessions
  <2>1. page \in SUBSET (1..N) /\ N \in Nat
    BY <1>3, BoundsAreNat DEF Keys
  <2>2. probe[w].after \in 0..N
    BY <1>2, <2>1 DEF Probe, Keys
  <2> HIDE DEF N
  <2>3. LastOf(page, probe[w].after) \in 0..N
    BY <2>1, <2>2, LastOfPage
  <2> QED
    BY <2>1, <2>3 DEF Keys, N
<1>5. probe' \in [Waves -> Probe]
  BY <1>1, <1>2, <1>3, <1>4 DEF Probe, TypeInv, TypeOK
<1>6. /\ CommitKeepingRevision
      /\ UNCHANGED <<enrolled, control, wave, session, item, evidence,
                     evaluation, visionOut, clusterOut, completion, published,
                     disturb>>
  BY DEF ProbeSavePage
<1> QED
  BY <1>5, <1>6, CommitKeepingTypes, ScanStepTypes DEF TypeInv, TypeOK

(* The rows a no-work witness digests are evidence rows. *)
LEMMA WitnessType ==
    ASSUME TypeInv, NEW w \in Waves, NEW seen
    PROVE  Witness(w, seen) \in Manifest
<1> SUFFICES ASSUME NEW k \in Keys PROVE Witness(w, seen)[k] \in EvidenceRow
  BY DEF Witness, Manifest
<1>1. evidence[w][k] \in EvidenceRow
  BY DEF TypeInv, TypeOK, Manifest
<1>2. Absent \in EvidenceRow
  BY DEF Absent, EvidenceRow
<1>3. [evidence[w][k] EXCEPT !.state = "none"] \in EvidenceRow
  BY <1>1, EvidenceRows
<1>4. [evidence[w][k] EXCEPT !.state = @] \in EvidenceRow
  BY <1>1 DEF EvidenceRow
<1> QED
  BY <1>1, <1>2, <1>3, <1>4 DEF Witness

(* advance_empty binds a typed revision to a wave in use. *)
LEMMA CompleteEmptyTypes ==
    ASSUME TypeInv, NEW w \in Waves, CompleteEmpty(w)
    PROVE  TypeInv'
<1>1. PICK seen :
        LET revision == [path |-> "no_work", epoch |-> 0, rows |-> Witness(w, seen)]
        IN /\ wave' = [wave EXCEPT ![w] = [wave[w] EXCEPT !.state = "complete",
                                                          !.frozen = revision]]
           /\ completion' = [completion EXCEPT ![w] = revision]
  BY DEF CompleteEmpty
<1> DEFINE revision == [path |-> "no_work", epoch |-> 0, rows |-> Witness(w, seen)]
           row == [wave[w] EXCEPT !.state = "complete", !.frozen = revision]
<1>2. revision \in Revision
  BY WitnessType DEF Revision
<1>3. /\ wave' = [wave EXCEPT ![w] = row]
      /\ completion' = [completion EXCEPT ![w] = revision]
  BY <1>1
<1>4. /\ control' = IF control.collecting = w
                    THEN [control EXCEPT !.collecting = 0] ELSE control
      /\ Commit
      /\ UNCHANGED <<enrolled, session, item, evidence, visionOut, clusterOut,
                     published, disturb>>
  BY DEF CompleteEmpty
<1> HIDE DEF revision
<1>5. row \in WaveRow /\ row.open = wave[w].open /\ row.state # "none"
  BY <1>2, FrozenRow DEF TypeInv, TypeOK
<1> HIDE DEF row
<1>6. /\ wave' \in [Waves -> WaveRow]
      /\ OpenCounted' /\ SessionsPlaced' /\ UnusedWaves'
  BY <1>3, <1>4, <1>5, OneWaveRow
<1>7. completion' \in [Waves -> Revision]
  BY <1>2, <1>3 DEF TypeInv, TypeOK
<1>8. control' \in [collecting: Waves \cup {0}, tail: Waves \cup {0}]
  BY <1>4 DEF TypeInv, TypeOK
<1>9. TypeOK'
  BY <1>4, <1>6, <1>7, <1>8, CommitTypes DEF TypeInv, TypeOK
<1> QED
  BY <1>6, <1>9 DEF TypeInv

-----------------------------------------------------------------------------
(* Assignment, publication and time. *)

(* commit_assignment rewrites one wave in use. *)
LEMMA CommitAssignmentTypes ==
    ASSUME TypeInv, NEW w \in Waves, CommitAssignment(w)
    PROVE  TypeInv'
<1> DEFINE row == [wave[w] EXCEPT !.state = "indexing"]
<1>1. "indexing" \in WaveStates
  BY DEF WaveStates, Frozen
<1>2. wave[w] \in WaveRow
  BY DEF TypeInv, TypeOK
<1>3. row \in WaveRow /\ row.open = wave[w].open /\ row.state # "none"
  BY <1>1, <1>2 DEF WaveRow
<1>4. wave' = [wave EXCEPT ![w] = row] /\ UNCHANGED session
  BY DEF CommitAssignment
<1> HIDE DEF row
<1>5. /\ wave' \in [Waves -> WaveRow]
      /\ OpenCounted' /\ SessionsPlaced' /\ UnusedWaves'
  BY <1>3, <1>4, OneWaveRow
<1>6. TypeOK'
  BY <1>5, CommitTypes DEF CommitAssignment, TypeInv, TypeOK
<1> QED
  BY <1>5, <1>6 DEF TypeInv

(* record_publication_members marks sources with a wave. *)
LEMMA RecordPublicationMembersTypes ==
    ASSUME TypeInv, NEW w \in Waves, RecordPublicationMembers(w)
    PROVE  TypeInv'
<1>1. published' \in [Sources -> Waves \cup {0}]
  BY DEF RecordPublicationMembers, TypeInv, TypeOK
<1> QED
  BY <1>1, CommitKeepingTypes, ScanStepTypes
  DEF RecordPublicationMembers, TypeInv, TypeOK

(* complete_indexing rewrites one wave in use. *)
LEMMA CompleteIndexingTypes ==
    ASSUME TypeInv, NEW w \in Waves, CompleteIndexing(w)
    PROVE  TypeInv'
<1> DEFINE row == [wave[w] EXCEPT !.state = "complete"]
<1>1. "complete" \in WaveStates
  BY DEF WaveStates, Frozen
<1>2. wave[w] \in WaveRow
  BY DEF TypeInv, TypeOK
<1>3. row \in WaveRow /\ row.open = wave[w].open /\ row.state # "none"
  BY <1>1, <1>2 DEF WaveRow
<1>4. wave' = [wave EXCEPT ![w] = row] /\ UNCHANGED session
  BY DEF CompleteIndexing
<1> HIDE DEF row
<1>5. /\ wave' \in [Waves -> WaveRow]
      /\ OpenCounted' /\ SessionsPlaced' /\ UnusedWaves'
  BY <1>3, <1>4, OneWaveRow
<1>6. completion' \in [Waves -> Revision]
  BY <1>2 DEF CompleteIndexing, TypeInv, TypeOK, WaveRow
<1>7. TypeOK'
  BY <1>5, <1>6, CommitTypes DEF CompleteIndexing, TypeInv, TypeOK
<1> QED
  BY <1>5, <1>7 DEF TypeInv

(* The passage of time moves no session. *)
LEMMA TimeTypes ==
    ASSUME TypeInv, NEW s \in Sessions, Time(s)
    PROVE  TypeInv' /\ SessionsKept
<1>1. session[s] \in SessionRow
  BY DEF TypeInv, TypeOK
<1>2. CASE LeaseLapses(s) \/ DrainEnds(s)
  <2>1. PICK row \in SessionRow :
          /\ session' = [session EXCEPT ![s] = row]
          /\ row.wave = session[s].wave /\ row.state = session[s].state
    <3> DEFINE lapsed == [session[s] EXCEPT !.lease = "lapsed"]
               over == [session[s] EXCEPT !.drain = "over"]
    <3>1. /\ lapsed \in SessionRow
          /\ lapsed.wave = session[s].wave /\ lapsed.state = session[s].state
      BY <1>1 DEF SessionRow
    <3>2. /\ over \in SessionRow
          /\ over.wave = session[s].wave /\ over.state = session[s].state
      BY <1>1 DEF SessionRow
    <3>3. session' = [session EXCEPT ![s] = lapsed] \/ session' = [session EXCEPT ![s] = over]
      BY <1>2 DEF LeaseLapses, DrainEnds
    <3> HIDE DEF lapsed, over
    <3> QED
      BY <3>1, <3>2, <3>3
  <2>2. UNCHANGED <<enrolled, control, wave, item, evidence, evaluation, probe,
                    scan, visionOut, clusterOut, completion, published,
                    disturb>>
    BY <1>2 DEF LeaseLapses, DrainEnds
  <2>3. TypeOK'
    BY <2>1, <2>2, OneSessionRow DEF TypeInv, TypeOK
  <2>4. OpenCounted' /\ SessionsPlaced' /\ SessionsKept
    BY <2>1, <2>2, OneSessionRow, SameCounts DEF TypeInv
  <2> QED
    BY <2>2, <2>3, <2>4 DEF TypeInv, UnusedWaves
<1>3. ASSUME NEW i \in Items, FinalizeLeaseLapses(s, i)
      PROVE  TypeInv' /\ SessionsKept
  <2> DEFINE row == [item[s][i] EXCEPT !.fin = "lapsed"]
  <2>1. row \in ItemRow
    <3>1. item[s][i] \in ItemRow
      BY DEF TypeInv, TypeOK
    <3> QED
      BY <3>1, ItemFinalizing
  <2>2. item' = [item EXCEPT ![s] = [item[s] EXCEPT ![i] = row]]
    BY <1>3 DEF FinalizeLeaseLapses
  <2> HIDE DEF row
  <2>3. item' \in [Sessions -> [Items -> ItemRow]]
    BY <2>1, <2>2 DEF TypeInv, TypeOK
  <2>4. TypeOK'
    BY <1>3, <2>3 DEF FinalizeLeaseLapses, TypeInv, TypeOK
  <2>5. OpenCounted' /\ SessionsPlaced' /\ SessionsKept
    BY <1>3, SameCounts DEF SessionsKept, FinalizeLeaseLapses, TypeInv
  <2> QED
    BY <1>3, <2>4, <2>5 DEF FinalizeLeaseLapses, TypeInv, UnusedWaves
<1> QED
  BY <1>2, <1>3 DEF Time

-----------------------------------------------------------------------------
(* A stuttering step keeps the invariant. *)
LEMMA StutterTypes ==
    ASSUME TypeInv, UNCHANGED vars
    PROVE  TypeInv'
<1>1. TypeOK'
  BY DEF vars, TypeInv, TypeOK
<1>2. OpenCounted' /\ SessionsPlaced'
  BY SameCounts DEF SessionsKept, vars, TypeInv
<1> QED
  BY <1>1, <1>2 DEF vars, TypeInv, UnusedWaves

(* enroll_new writes the policy row alone. *)
LEMMA EnrollTypes ==
    ASSUME TypeInv, Enroll
    PROVE  TypeInv' /\ SessionsKept
<1>1. UNCHANGED <<control, wave, session, item, evidence, evaluation, probe,
                  scan, visionOut, clusterOut, completion, published, disturb>>
  BY DEF Enroll
<1>2. enrolled' \in BOOLEAN
  BY Zenon DEF Enroll
<1>3. TypeOK'
  BY <1>1, <1>2 DEF TypeInv, TypeOK
<1>4. SessionsKept
  BY <1>1 DEF SessionsKept
<1>5. OpenCounted' /\ SessionsPlaced'
  BY <1>1, <1>4, SameCounts DEF TypeInv
<1> QED
  BY <1>1, <1>3, <1>4, <1>5 DEF TypeInv, UnusedWaves

(* The strengthened type invariant is inductive. *)
LEMMA NextTypes == TypeInv /\ [Next]_vars => TypeInv'
<1> SUFFICES ASSUME TypeInv, [Next]_vars PROVE TypeInv'
  OBVIOUS
<1>1. ASSUME NEW s \in Sessions, Intake(s)
      PROVE  TypeInv'
  <2>1. ASSUME NEW page \in Pages, NEW binding \in [page -> Bindings],
               ResolveMany(s, binding)
        PROVE  TypeInv'
    BY <2>1, ResolveManyTypes
  <2>2. ASSUME Close(s)
        PROVE  TypeInv'
    BY <2>2, CloseAsTypes DEF Close, Complete
  <2> QED
    BY <1>1, <2>1, <2>2, OpenSessionTypes, RegisterTypes, AdmitFinalizeTypes DEF Intake
<1>2. ASSUME NEW s \in Sessions, Cancellation(s)
      PROVE  TypeInv'
  <2>1. ASSUME CloseAbandoned(s)
        PROVE  TypeInv'
    BY <2>1, CloseAsTypes DEF CloseAbandoned
  <2> QED
    BY <1>2, <2>1, SealExpiredTypes, FenceDiscardTypes, AbandonPageTypes DEF Cancellation
<1>3. ASSUME NEW w \in Waves, BarrierStep(w)
      PROVE  TypeInv'
  BY <1>3, PromoteSuccessorTypes, ObservationTypes, SettleTypes, EvaluateReadTypes
  DEF BarrierStep
<1>4. ASSUME NEW w \in Waves, Publication(w)
      PROVE  TypeInv'
  BY <1>4, ProbeImpossibleTypes, ProbeSavePageTypes, CompleteEmptyTypes,
     CommitAssignmentTypes, RecordPublicationMembersTypes, CompleteIndexingTypes
  DEF Publication
<1>5. ASSUME Evaluation
      PROVE  TypeInv'
  BY <1>5, EvaluateSavePageTypes, EvaluateHoldTypes, EvaluateFreezeTypes DEF Evaluation
<1> QED
  BY <1>1, <1>2, <1>3, <1>4, <1>5, EnrollTypes, TimeTypes, EvaluateCrashTypes, StutterTypes
  DEF Next

(* Every reachable row has the fields and the values the code writes into it; in
   particular openSessions, which close decrements, never goes below zero. *)
THEOREM TypeCorrect == Spec => []TypeOK
<1>1. Spec => []TypeInv
  BY InitTypeInv, NextTypes, PTL DEF Spec
<1>2. TypeInv => TypeOK
  BY DEF TypeInv
<1> QED
  BY <1>1, <1>2, PTL

(* The same for the strengthened invariant, for the proofs built on it. *)
THEOREM TypeInvariant == Spec => []TypeInv
BY InitTypeInv, NextTypes, PTL DEF Spec

-----------------------------------------------------------------------------
-----------------------------------------------------------------------------
(* The invariant. *)

(* The evidence row of a session carries the session's state. *)
SessionEvidenceCurrent ==
    \A s \in Sessions : session[s].wave # 0 =>
        evidence[session[s].wave][SessionKey(s)] = SessionEvidence(session[s].state)

ScanInBarrier == scan.wave # 0 => wave[scan.wave].state \in Barrier

(* The probe has not passed the evidence of an open session. *)
ProbeBeforeOpen ==
    \A s \in Sessions : session[s].state = "open" =>
        probe[session[s].wave].after < SessionKey(s)

FrozenWithoutOpen ==
    \A s \in Sessions : session[s].state = "open" =>
        wave[session[s].wave].state \notin Frozen

CollectingNotFrozen ==
    control.collecting # 0 => wave[control.collecting].state \notin Frozen

OnlyFrozenBound ==
    \A w \in Waves : wave[w].frozen.path = "vision" => wave[w].state \in Frozen

ScanInv == SessionEvidenceCurrent /\ ScansExact /\ ScanInBarrier /\ ProbeBeforeOpen

FreezeInv ==
    FrozenWithoutOpen /\ CollectingNotFrozen /\ OnlyFrozenBound /\ FrozenManifestExact

IInv == TypeInv /\ ScanInv /\ FreezeInv

(* The empty library satisfies the inductive invariant. *)
LEMMA InitIInv == Init => IInv
<1> SUFFICES ASSUME Init PROVE IInv
  OBVIOUS
<1>1. ScanInv
  <2>1. SessionEvidenceCurrent /\ ScanInBarrier /\ ProbeBeforeOpen
    BY DEF Init, SessionEvidenceCurrent, ScanInBarrier, ProbeBeforeOpen, NoSession, NoScan
  <2>2. ASSUME NEW w \in Waves
        PROVE  Prefix(evaluation[w], evidence[w])
    BY DEF Init, Prefix, NoAccumulator, NoRows, Keys
  <2> QED
    BY <2>1, <2>2 DEF Init, NoScan, ScanInv, ScansExact
<1>2. FreezeInv
  BY DEF Init, FreezeInv, FrozenWithoutOpen, CollectingNotFrozen, OnlyFrozenBound,
         FrozenManifestExact, NoSession, NoWave, NoRevision, Frozen
<1> QED
  BY <1>1, <1>2, InitTypeInv DEF IInv

-----------------------------------------------------------------------------
(* What the steps leave alone. *)

(* A member's row and a session's row are different rows. *)
LEMMA KeysApart ==
    /\ \A src \in Sources, s \in Sessions : MemberKey(src) < SessionKey(s)
    /\ \A s, t \in Sessions : SessionKey(s) = SessionKey(t) => s = t
BY NumbersAssumption DEF Sources, Sessions, MemberKey, SessionKey

(* A transaction that strands every scan leaves none to be wrong. *)
LEMMA CommitScans ==
    ASSUME Commit
    PROVE  /\ ScansExact' /\ ScanInBarrier'
           /\ \A w \in Waves : probe'[w].after = 0
<1>1. ASSUME NEW w \in Waves
      PROVE  Prefix(evaluation[w], evidence[w])'
  <2>1. evaluation'[w] = NoAccumulator
    BY DEF Commit
  <2>2. \A k \in Keys : k \in Nat \ {0}
    BY BoundsAreNat DEF Keys
  <2> QED
    BY <2>1, <2>2 DEF Prefix, NoAccumulator, NoRows
<1>2. ScansExact'
  BY <1>1 DEF ScansExact, Commit, NoScan
<1>3. ScanInBarrier'
  BY DEF ScanInBarrier, Commit, NoScan
<1> QED
  BY <1>2, <1>3 DEF Commit, NoProbe

(* The same for the evidence rows: a commit that keeps them current keeps
   ScanInv. *)
LEMMA CommitScanInv ==
    ASSUME IInv, TypeInv', Commit, SessionEvidenceCurrent'
    PROVE  ScanInv'
<1>1. ASSUME NEW s \in Sessions, session'[s].state = "open"
      PROVE  probe'[session'[s].wave].after < SessionKey(s)
  <2>1. session'[s] \in SessionRow /\ session'[s].wave # 0
    BY <1>1 DEF TypeInv, TypeOK, SessionsPlaced
  <2>2. session'[s].wave \in Waves
    BY <2>1 DEF SessionRow
  <2> QED
    BY <2>2, CommitScans, NumbersAssumption DEF SessionKey, Sessions
<1> QED
  BY <1>1, CommitScans DEF ScanInv, ProbeBeforeOpen

(* A commit that writes no evidence and ends or opens no session keeps the
   session evidence current. *)
LEMMA EvidenceKept ==
    ASSUME IInv, SessionsKept,
           \A w \in Waves, s \in Sessions :
               evidence'[w][SessionKey(s)] = evidence[w][SessionKey(s)]
    PROVE  SessionEvidenceCurrent'
<1> SUFFICES ASSUME NEW s \in Sessions, session'[s].wave # 0
             PROVE  evidence'[session'[s].wave][SessionKey(s)]
                       = SessionEvidence(session'[s].state)
  BY DEF SessionEvidenceCurrent
<1>1. session[s].wave \in Waves
  BY DEF IInv, TypeInv, TypeOK, SessionRow, SessionsKept
<1> QED
  BY <1>1 DEF IInv, ScanInv, SessionEvidenceCurrent, SessionsKept

(* A step that touches no evidence, no scan and no wave or session state. *)
LEMMA ScanInvFrame ==
    ASSUME IInv, SessionsKept,
           UNCHANGED <<wave, evidence, evaluation, probe, scan>>
    PROVE  ScanInv'
<1>1. SessionEvidenceCurrent'
  BY EvidenceKept
<1>2. ScansExact' /\ ScanInBarrier'
  BY DEF IInv, ScanInv, ScansExact, ScanInBarrier, Prefix
<1>3. ProbeBeforeOpen'
  BY DEF IInv, ScanInv, ProbeBeforeOpen, SessionsKept
<1> QED
  BY <1>1, <1>2, <1>3 DEF ScanInv

-----------------------------------------------------------------------------
(* Intake and cancellation keep the scans exact. *)

(* open_session writes the evidence of its session and strands the scans. *)
LEMMA OpenSessionScans ==
    ASSUME IInv, TypeInv', NEW s \in Sessions, NEW declared \in Declarations,
           OpenSession(s, declared)
    PROVE  ScanInv'
<1>1. PICK w \in Waves :
        /\ session' = [session EXCEPT ![s] =
                          [NoSession EXCEPT !.state = "open", !.wave = w,
                                            !.declared = declared,
                                            !.lease = IF enrolled THEN "live" ELSE "none"]]
        /\ evidence' = [evidence EXCEPT ![w][SessionKey(s)] = SessionEvidence("open")]
  BY DEF OpenSession
<1>2. session'[s].wave = w /\ session'[s].state = "open"
  BY <1>1 DEF IInv, TypeInv, TypeOK, NoSession
<1>3. \A t \in Sessions \ {s} : session'[t] = session[t]
  BY <1>1 DEF IInv, TypeInv, TypeOK
<1>4. evidence'[w][SessionKey(s)] = SessionEvidence("open")
  BY <1>1, BoundsAreNat DEF IInv, TypeInv, TypeOK, Manifest
<1>5. \A v \in Waves, t \in Sessions \ {s} :
        evidence'[v][SessionKey(t)] = evidence[v][SessionKey(t)]
  BY <1>1, KeysApart, BoundsAreNat DEF IInv, TypeInv, TypeOK, Manifest
<1>6. SessionEvidenceCurrent'
  <2> SUFFICES ASSUME NEW t \in Sessions, session'[t].wave # 0
               PROVE  evidence'[session'[t].wave][SessionKey(t)]
                         = SessionEvidence(session'[t].state)
    BY DEF SessionEvidenceCurrent
  <2>1. CASE t = s
    BY <1>2, <1>4, <2>1
  <2>2. CASE t # s
    <3>1. session[t].wave \in Waves
      BY <1>3, <2>2 DEF IInv, TypeInv, TypeOK, SessionRow
    <3> QED
      BY <1>3, <1>5, <2>2, <3>1 DEF IInv, ScanInv, SessionEvidenceCurrent
  <2> QED
    BY <2>1, <2>2
<1> QED
  BY <1>6, CommitScanInv DEF OpenSession

(* A close writes the evidence of its session and strands the scans. *)
LEMMA CloseAsScans ==
    ASSUME IInv, TypeInv', NEW s \in Sessions, NEW state \in {"closed", "abandoned"},
           session[s].state = "open", CloseAs(s, state)
    PROVE  ScanInv'
<1> DEFINE w == session[s].wave
<1>1. w \in Waves /\ session[s] \in SessionRow
  BY OpenSessionsWave DEF IInv, TypeInv, TypeOK
<1>2. /\ session' = [session EXCEPT ![s] = [Stopped(session[s]) EXCEPT !.state = state]]
      /\ evidence' = [evidence EXCEPT ![w][SessionKey(s)] = SessionEvidence(state)]
      /\ Commit
  BY DEF CloseAs
<1>3. session'[s].wave = w /\ session'[s].state = state
  BY <1>1, <1>2 DEF IInv, TypeInv, TypeOK, Stopped, SessionRow
<1> HIDE DEF w
<1>4. \A t \in Sessions \ {s} : session'[t] = session[t]
  BY <1>2 DEF IInv, TypeInv, TypeOK
<1>5. evidence'[w][SessionKey(s)] = SessionEvidence(state)
  BY <1>1, <1>2, BoundsAreNat DEF IInv, TypeInv, TypeOK, Manifest
<1>6. \A v \in Waves, t \in Sessions \ {s} :
        evidence'[v][SessionKey(t)] = evidence[v][SessionKey(t)]
  BY <1>1, <1>2, KeysApart, BoundsAreNat DEF IInv, TypeInv, TypeOK, Manifest
<1>7. SessionEvidenceCurrent'
  <2> SUFFICES ASSUME NEW t \in Sessions, session'[t].wave # 0
               PROVE  evidence'[session'[t].wave][SessionKey(t)]
                         = SessionEvidence(session'[t].state)
    BY DEF SessionEvidenceCurrent
  <2>1. CASE t = s
    BY <1>3, <1>5, <2>1
  <2>2. CASE t # s
    <3>1. session[t].wave \in Waves
      BY <1>4, <2>2 DEF IInv, TypeInv, TypeOK, SessionRow
    <3> QED
      BY <1>4, <1>6, <2>2, <3>1 DEF IInv, ScanInv, SessionEvidenceCurrent
  <2> QED
    BY <2>1, <2>2
<1> QED
  BY <1>2, <1>7, CommitScanInv

(* resolve_many writes member rows and strands the scans. *)
LEMMA ResolveManyScans ==
    ASSUME IInv, TypeInv', SessionsKept, NEW s \in Sessions, NEW page \in Pages,
           NEW binding \in [page -> Bindings], ResolveMany(s, binding)
    PROVE  ScanInv'
<1> DEFINE w == session[s].wave
           admitted == Admitted(Reserved(s, page), binding)
           projected == Projected(Reserved(s, page), binding)
<1>1. DOMAIN binding = page /\ page \subseteq Items
  BY DEF Pages
<1>2. evidence' = [evidence EXCEPT ![w] = WithMembers(evidence[w], admitted, projected)]
  BY <1>1 DEF ResolveMany
<1>3. admitted \subseteq Sources
  BY <1>1 DEF Admitted, Reserved, Bindings, Admitting
<1>4. w \in Waves
  BY OpenSessionsWave DEF ResolveMany, IInv
<1> HIDE DEF w, admitted, projected
<1>5. ASSUME NEW v \in Waves, NEW t \in Sessions
      PROVE  evidence'[v][SessionKey(t)] = evidence[v][SessionKey(t)]
  <2>1. SessionKey(t) \in Keys /\ \A src \in admitted : MemberKey(src) # SessionKey(t)
    <3>1. \A src \in Sources : MemberKey(src) < SessionKey(t)
      BY KeysApart
    <3>2. SessionKey(t) \in Nat
      BY BoundsAreNat DEF Keys
    <3> QED
      BY <1>3, <3>1, <3>2, BoundsAreNat
  <2>2. WithMembers(evidence[w], admitted, projected)[SessionKey(t)]
           = evidence[w][SessionKey(t)]
    BY <2>1 DEF WithMembers
  <2> QED
    BY <1>2, <1>4, <2>2 DEF IInv, TypeInv, TypeOK
<1> QED
  BY <1>5, EvidenceKept, CommitScanInv DEF ResolveMany

-----------------------------------------------------------------------------
(* Barrier steps keep the scans exact. *)

(* An observation of a wave clears that wave's scans and no other wave's rows. *)
LEMMA ObservationScans ==
    ASSUME IInv, TypeInv', NEW w \in Waves, NEW seen \in Observations(w),
           CommitObservations(w, seen) \/ Observe(w, seen)
    PROVE  ScanInv'
<1>1. evidence' = [evidence EXCEPT ![w] = Observed(w, seen)]
      /\ UNCHANGED <<wave, session>>
  BY DEF CommitObservations, Observe
<1>2. SessionsKept
  BY <1>1 DEF SessionsKept
<1>3. ASSUME NEW v \in Waves, NEW t \in Sessions
      PROVE  evidence'[v][SessionKey(t)] = evidence[v][SessionKey(t)]
  <2>1. SessionKey(t) \in Keys /\ SessionKey(t) \notin DOMAIN seen
    <3>1. \A k \in DOMAIN seen : \E src \in Sources : k = MemberKey(src)
      BY DEF Observations
    <3>2. \A src \in Sources : MemberKey(src) < SessionKey(t)
      BY KeysApart
    <3>3. SessionKey(t) \in Nat
      BY BoundsAreNat DEF Keys
    <3> QED
      BY <3>1, <3>2, <3>3, BoundsAreNat
  <2>2. Observed(w, seen)[SessionKey(t)] = evidence[w][SessionKey(t)]
    BY <2>1 DEF Observed
  <2> QED
    BY <1>1, <2>2 DEF IInv, TypeInv, TypeOK
<1>4. SessionEvidenceCurrent'
  BY <1>2, <1>3, EvidenceKept
<1>5. CASE Observe(w, seen)
  BY <1>4, <1>5, CommitScanInv DEF Observe
<1>6. CASE CommitObservations(w, seen)
  <2>1. RestartScan(w) /\ UNCHANGED probe
    BY <1>6 DEF CommitObservations
  <2>2. \A v \in Waves \ {w} : /\ evidence'[v] = evidence[v]
                              /\ evaluation'[v] = evaluation[v]
    BY <1>1, <2>1 DEF RestartScan, IInv, TypeInv, TypeOK
  <2>3. evaluation'[w] = NoAccumulator
    BY <2>1 DEF RestartScan, IInv, TypeInv, TypeOK
  <2>4. Prefix(NoAccumulator, evidence'[w])
    <3>1. \A k \in Keys : k \in Nat \ {0}
      BY BoundsAreNat DEF Keys
    <3> QED
      BY <3>1 DEF Prefix, NoAccumulator, NoRows
  <2>5. \A v \in Waves : Prefix(evaluation'[v], evidence'[v])
    BY <2>2, <2>3, <2>4 DEF IInv, ScanInv, ScansExact
  <2>6. scan'.wave # 0 => /\ scan' = scan
                          /\ scan.wave \in Waves \ {w}
    BY <2>1 DEF RestartScan, NoScan, IInv, TypeInv, TypeOK, Scan
  <2>7. scan'.wave # 0 => /\ Prefix(scan'.acc, evidence'[scan'.wave])
                          /\ scan'.finished => scan'.acc.rows = evidence'[scan'.wave]
    BY <2>2, <2>6 DEF IInv, ScanInv, ScansExact
  <2>8. ScansExact'
    BY <2>5, <2>7 DEF ScansExact, Prefix
  <2>9. ScanInBarrier'
    BY <1>1, <2>6 DEF IInv, ScanInv, ScanInBarrier
  <2>10. ProbeBeforeOpen'
    BY <1>1, <2>1 DEF IInv, ScanInv, ProbeBeforeOpen
  <2> QED
    BY <1>4, <2>8, <2>9, <2>10 DEF ScanInv
<1> QED
  BY <1>5, <1>6

(* settle writes a member row and strands the scans. *)
LEMMA SettleScans ==
    ASSUME IInv, TypeInv', NEW w \in Waves, NEW src \in Sources,
           NEW outcome \in Terminal, Settle(w, src, outcome)
    PROVE  ScanInv'
<1>1. /\ evidence' = [evidence EXCEPT ![w][MemberKey(src)].state = outcome]
      /\ UNCHANGED session
      /\ Commit
  BY DEF Settle
<1>2. ASSUME NEW v \in Waves, NEW t \in Sessions
      PROVE  evidence'[v][SessionKey(t)] = evidence[v][SessionKey(t)]
  <2>1. MemberKey(src) # SessionKey(t)
    BY KeysApart, BoundsAreNat DEF Keys
  <2> QED
    BY <1>1, <2>1, BoundsAreNat DEF IInv, TypeInv, TypeOK, Manifest
<1>3. SessionEvidenceCurrent'
  BY <1>1, <1>2, EvidenceKept DEF SessionsKept
<1> QED
  BY <1>1, <1>3, CommitScanInv

(* A page read behind an exact accumulator leaves an exact one: what lies
   between the two positions is in the page, or absent. *)
LEMMA EvaluateReadScans ==
    ASSUME IInv, NEW w \in Waves, EvaluateRead(w)
    PROVE  ScanInv'
<1> DEFINE N == NSources + NSessions
           before == evaluation[w].after
           rest == {k \in Present(w) : k > before}
<1>1. PICK page \in SUBSET rest :
        /\ IsPage(page, rest, MaxPage)
        /\ scan' = [wave |-> w,
                    acc |-> [after |-> LastOf(page, before),
                             rows |-> [k \in Keys |->
                                          IF k \in page THEN evidence[w][k]
                                          ELSE evaluation[w].rows[k]]],
                    finished |-> Cardinality(page) < MaxPage]
  BY DEF EvaluateRead
<1>2. UNCHANGED <<wave, session, evidence, evaluation, probe>>
  BY DEF EvaluateRead
<1> DEFINE last == LastOf(page, before)
           acc == [after |-> last,
                   rows |-> [k \in Keys |-> IF k \in page THEN evidence[w][k]
                                            ELSE evaluation[w].rows[k]]]
<1>3. N \in Nat /\ Keys = 1..N
  BY BoundsAreNat DEF Keys
<1>4. before \in 0..N
  BY <1>3 DEF IInv, TypeInv, TypeOK, Accumulator
<1>5. rest \in SUBSET (1..N) /\ page \in SUBSET (1..N)
  BY <1>3 DEF Present
<1>6. /\ last \in 0..N
      /\ page = {} => last = before
      /\ page # {} => last \in page /\ \A j \in page : j <= last
  BY <1>3, <1>4, <1>5, LastOfPage
<1>7. /\ Cardinality(page) < MaxPage => page = rest
      /\ ~ Cardinality(page) < MaxPage =>
            page # {} /\ \A j \in rest, k \in page : j < k => j \in page
  BY <1>1, <1>3, <1>5, PageOfRest
<1>8. \A k \in Keys : evaluation[w].rows[k] = IF k <= before THEN evidence[w][k] ELSE Absent
  BY DEF IInv, ScanInv, ScansExact, Prefix
<1>9. \A k \in Keys : k \in rest <=> k > before /\ evidence[w][k] # Absent
  BY DEF Present
<1>10. last >= before
  BY <1>4, <1>5, <1>6
<1> HIDE DEF N, before, rest, last
<1>11. Prefix(acc, evidence[w])
  <2> SUFFICES ASSUME NEW k \in Keys
               PROVE  acc.rows[k] = IF k <= last THEN evidence[w][k] ELSE Absent
    BY DEF Prefix
  <2>1. k \in Nat /\ before \in Nat /\ last \in Nat
    BY <1>3, <1>4, <1>6
  <2>2. CASE k \in page
    BY <1>6, <2>2
  <2>3. CASE k \notin page /\ k <= before
    BY <1>8, <1>10, <2>1, <2>3
  <2>4. CASE k \notin page /\ k > before
    <3>1. acc.rows[k] = Absent
      BY <1>8, <2>1, <2>4
    <3>2. k <= last => k \notin rest
      <4>1. CASE page = {}
        BY <1>6, <2>1, <2>4, <4>1
      <4>2. CASE page # {}
        <5>1. last \in page
          BY <1>6, <4>2
        <5>2. k <= last => k < last
          BY <2>1, <2>4, <5>1
        <5> QED
          BY <1>7, <2>4, <5>1, <5>2
      <4> QED
        BY <4>1, <4>2
    <3>3. k <= last => evidence[w][k] = Absent
      BY <1>9, <2>4, <3>2
    <3> QED
      BY <3>1, <3>3
  <2> QED
    BY <2>1, <2>2, <2>3, <2>4
<1>12. Cardinality(page) < MaxPage => acc.rows = evidence[w]
  <2> SUFFICES ASSUME page = rest, NEW k \in Keys
               PROVE  acc.rows[k] = evidence[w][k]
    BY <1>7 DEF IInv, TypeInv, TypeOK, Manifest
  <2>1. k \in Nat /\ before \in Nat
    BY <1>3, <1>4
  <2> QED
    BY <1>8, <1>9, <2>1
<1>13. scan' = [wave |-> w, acc |-> acc, finished |-> Cardinality(page) < MaxPage]
  BY <1>1 DEF last
<1> HIDE DEF acc
<1>14. ScansExact'
  <2>1. \A v \in Waves : Prefix(evaluation'[v], evidence'[v])
    BY <1>2 DEF IInv, ScanInv, ScansExact
  <2>2. /\ Prefix(scan'.acc, evidence'[scan'.wave])
        /\ scan'.finished => scan'.acc.rows = evidence'[scan'.wave]
    BY <1>2, <1>11, <1>12, <1>13
  <2> QED
    BY <2>1, <2>2 DEF ScansExact, Prefix
<1>15. ScanInBarrier'
  BY <1>2, <1>13 DEF EvaluateRead, ScanInBarrier
<1>16. SessionEvidenceCurrent' /\ ProbeBeforeOpen'
  BY <1>2 DEF IInv, ScanInv, SessionEvidenceCurrent, ProbeBeforeOpen
<1> QED
  BY <1>14, <1>15, <1>16 DEF ScanInv

(* The commits of the barrier and of publication write no session and no
   evidence row. *)
LEMMA PlainCommitScans ==
    ASSUME IInv, TypeInv', Commit, UNCHANGED <<session, evidence>>
    PROVE  ScanInv'
BY EvidenceKept, CommitScanInv DEF SessionsKept

(* The steps that only lose or save what was read. *)
LEMMA ScanStepScans ==
    ASSUME IInv, scan' = NoScan,
           UNCHANGED <<session, evidence, probe>>,
           \/ UNCHANGED evaluation
           \/ \E w \in Waves : evaluation' = [evaluation EXCEPT ![w] = NoAccumulator]
           \/ /\ scan.wave # 0
              /\ evaluation' = [evaluation EXCEPT ![scan.wave] = scan.acc]
    PROVE  ScanInv'
<1>1. SessionEvidenceCurrent' /\ ProbeBeforeOpen'
  BY DEF IInv, ScanInv, SessionEvidenceCurrent, ProbeBeforeOpen
<1>2. ScanInBarrier'
  BY DEF ScanInBarrier, NoScan
<1>3. ASSUME NEW v \in Waves
      PROVE  Prefix(evaluation'[v], evidence[v])
  <2>1. Prefix(NoAccumulator, evidence[v])
    <3>1. \A k \in Keys : k \in Nat \ {0}
      BY BoundsAreNat DEF Keys
    <3> QED
      BY <3>1 DEF Prefix, NoAccumulator, NoRows
  <2>2. Prefix(evaluation[v], evidence[v])
    BY DEF IInv, ScanInv, ScansExact
  <2>3. scan.wave # 0 => Prefix(scan.acc, evidence[scan.wave])
    BY DEF IInv, ScanInv, ScansExact
  <2>4. evaluation \in [Waves -> Accumulator]
    BY DEF IInv, TypeInv, TypeOK
  <2>5. \/ evaluation'[v] \in {evaluation[v], NoAccumulator}
        \/ scan.wave = v /\ evaluation'[v] = scan.acc
    BY <2>4
  <2>6. v # 0
    BY DEF Waves
  <2> QED
    BY <2>1, <2>2, <2>3, <2>5, <2>6
<1>4. ScansExact'
  BY <1>3 DEF ScansExact, NoScan, Prefix
<1> QED
  BY <1>1, <1>2, <1>4 DEF ScanInv

(* Saving, holding or freezing keeps the scans exact. *)
LEMMA EvaluationScans ==
    ASSUME IInv, TypeInv', Evaluation \/ EvaluateCrash
    PROVE  ScanInv'
<1>1. CASE EvaluateCrash
  BY <1>1, ScanStepScans DEF EvaluateCrash
<1>2. CASE EvaluateSavePage
  BY <1>2, ScanStepScans DEF EvaluateSavePage, CommitKeepingRevision
<1>3. CASE EvaluateHold
  <2>1. scan.wave \in Waves
    BY <1>3 DEF EvaluateHold, IInv, TypeInv, TypeOK, Scan
  <2> QED
    BY <1>3, <2>1, ScanStepScans DEF EvaluateHold, CommitKeepingRevision
<1>4. CASE EvaluateFreeze
  BY <1>4, PlainCommitScans DEF EvaluateFreeze
<1> QED
  BY <1>1, <1>2, <1>3, <1>4 DEF Evaluation

(* A probe page stops before the evidence of an open session. *)
LEMMA ProbeSavePageScans ==
    ASSUME IInv, NEW w \in Waves, ProbeSavePage(w)
    PROVE  ScanInv'
<1> DEFINE N == NSources + NSessions
           before == probe[w].after
           rest == {k \in Present(w) : k > before}
<1>1. PICK page \in SUBSET rest :
        /\ Probing(w, rest, page)
        /\ \A k \in page : Repeats(w, k)
        /\ Cardinality(page) = MaxPage
        /\ probe' = [probe EXCEPT ![w] = [after |-> LastOf(page, before),
                                          seen |-> probe[w].seen \cup page]]
  BY DEF ProbeSavePage
<1>2. /\ scan' = NoScan
      /\ UNCHANGED <<wave, session, evidence, evaluation>>
  BY DEF ProbeSavePage, CommitKeepingRevision
<1>3. N \in Nat /\ Keys = 1..N
  BY BoundsAreNat DEF Keys
<1>4. before \in 0..N
  BY <1>3 DEF IInv, TypeInv, TypeOK, Probe
<1>5. rest \in SUBSET (1..N) /\ page \in SUBSET (1..N) /\ IsPage(page, rest, MaxPage)
  BY <1>1, <1>3 DEF Present, Probing
<1>6. page # {} /\ \A j \in rest, k \in page : j < k => j \in page
  <2>1. ~ Cardinality(page) < MaxPage
    BY <1>1, NumbersAssumption
  <2> QED
    BY <1>3, <1>5, <2>1, PageOfRest
<1>7. LastOf(page, before) \in page
  BY <1>3, <1>4, <1>5, <1>6, LastOfPage
<1>8. ProbeBeforeOpen'
  <2> SUFFICES ASSUME NEW s \in Sessions, session[s].state = "open"
               PROVE  probe'[session[s].wave].after < SessionKey(s)
    BY <1>2 DEF ProbeBeforeOpen
  <2>1. probe[session[s].wave].after < SessionKey(s)
    BY DEF IInv, ScanInv, ProbeBeforeOpen
  <2>2. SessionKey(s) \in 1..N
    BY <1>3, BoundsAreNat
  <2>3. CASE session[s].wave # w
    BY <1>1, <2>1, <2>3 DEF IInv, TypeInv, TypeOK
  <2>4. CASE session[s].wave = w
    <3>1. evidence[w][SessionKey(s)] = SessionEvidence("open")
      BY <2>4 DEF IInv, ScanInv, SessionEvidenceCurrent, Waves
    <3>2. SessionKey(s) \in rest
      BY <1>3, <2>1, <2>2, <2>4, <3>1 DEF Present, SessionEvidence, Absent
    <3>3. ~ Repeats(w, SessionKey(s))
      BY <3>1 DEF Repeats, SessionEvidence
    <3>4. SessionKey(s) \notin page
      BY <1>1, <3>3
    <3>5. ~ (SessionKey(s) < LastOf(page, before)) /\ SessionKey(s) # LastOf(page, before)
      BY <1>6, <1>7, <3>2, <3>4
    <3>6. LastOf(page, before) \in 1..N
      BY <1>5, <1>7
    <3>7. LastOf(page, before) < SessionKey(s)
      BY <1>3, <2>2, <3>5, <3>6
    <3>8. probe'[w].after = LastOf(page, before)
      BY <1>1 DEF IInv, TypeInv, TypeOK
    <3> QED
      BY <2>4, <3>7, <3>8
  <2> QED
    BY <2>3, <2>4
<1>9. SessionEvidenceCurrent' /\ ScansExact' /\ ScanInBarrier'
  BY <1>2 DEF IInv, ScanInv, SessionEvidenceCurrent, ScansExact, ScanInBarrier, Prefix, NoScan
<1> QED
  BY <1>8, <1>9 DEF ScanInv

(* Ruling the no-work path out clears the probe of that wave. *)
LEMMA ProbeImpossibleScans ==
    ASSUME IInv, NEW w \in Waves, ProbeImpossible(w)
    PROVE  ScanInv'
<1>1. /\ probe' = [probe EXCEPT ![w] = NoProbe]
      /\ scan' = NoScan
      /\ UNCHANGED <<session, evidence, evaluation>>
  BY DEF ProbeImpossible, CommitKeepingRevision
<1>2. ProbeBeforeOpen'
  <2> SUFFICES ASSUME NEW s \in Sessions, session[s].state = "open"
               PROVE  probe'[session[s].wave].after < SessionKey(s)
    BY <1>1 DEF ProbeBeforeOpen
  <2>1. probe'[session[s].wave] \in {probe[session[s].wave], NoProbe}
    BY <1>1 DEF IInv, TypeInv, TypeOK
  <2>2. probe[session[s].wave].after < SessionKey(s) /\ 0 < SessionKey(s)
    BY BoundsAreNat DEF IInv, ScanInv, ProbeBeforeOpen, Keys
  <2> QED
    BY <2>1, <2>2 DEF NoProbe
<1>3. SessionEvidenceCurrent' /\ ScansExact' /\ ScanInBarrier'
  BY <1>1 DEF IInv, ScanInv, SessionEvidenceCurrent, ScansExact, ScanInBarrier, Prefix, NoScan
<1> QED
  BY <1>2, <1>3 DEF ScanInv

(* Assignment, publication and the no-work path keep the scans exact. *)
LEMMA PublicationScans ==
    ASSUME IInv, TypeInv', NEW w \in Waves, Publication(w)
    PROVE  ScanInv'
<1>1. CASE CompleteEmpty(w) \/ CommitAssignment(w) \/ CompleteIndexing(w)
  <2>1. Commit /\ UNCHANGED <<session, evidence>>
    BY <1>1 DEF CompleteEmpty, CommitAssignment, CompleteIndexing
  <2> QED
    BY <2>1, PlainCommitScans
<1>2. CASE RecordPublicationMembers(w)
  BY <1>2, ScanStepScans DEF RecordPublicationMembers, CommitKeepingRevision
<1> QED
  BY <1>1, <1>2, ProbeImpossibleScans, ProbeSavePageScans DEF Publication

(* ScanInv is inductive, relative to the types. *)
LEMMA NextScans == IInv /\ TypeInv' /\ [Next]_vars => ScanInv'
<1> SUFFICES ASSUME IInv, TypeInv', [Next]_vars PROVE ScanInv'
  OBVIOUS
<1> USE DEF IInv
<1>1. ASSUME NEW s \in Sessions, Intake(s)
      PROVE  ScanInv'
  <2>1. ASSUME NEW page \in Pages, Register(s, page)
        PROVE  ScanInv'
    <3>1. SessionsKept
      BY <2>1, RegisterTypes
    <3> QED
      BY <2>1, <3>1, EvidenceKept, CommitScanInv DEF Register
  <2>2. ASSUME NEW i \in Items, AdmitFinalize(s, i)
        PROVE  ScanInv'
    <3>1. SessionsKept
      BY <2>2, AdmitFinalizeTypes
    <3> QED
      BY <2>2, <3>1, EvidenceKept, CommitScanInv DEF AdmitFinalize
  <2>3. ASSUME NEW page \in Pages, NEW binding \in [page -> Bindings],
               ResolveMany(s, binding)
        PROVE  ScanInv'
    BY <2>3, ResolveManyTypes, ResolveManyScans
  <2>4. ASSUME Close(s)
        PROVE  ScanInv'
    BY <2>4, CloseAsScans DEF Close, Complete
  <2> QED
    BY <1>1, <2>1, <2>2, <2>3, <2>4, OpenSessionScans DEF Intake
<1>2. ASSUME NEW s \in Sessions, Cancellation(s)
      PROVE  ScanInv'
  <2>1. ASSUME SealExpired(s) \/ AbandonPage(s)
        PROVE  ScanInv'
    <3>1. SessionsKept
      BY <2>1, SealExpiredTypes, AbandonPageTypes
    <3>2. Commit /\ UNCHANGED evidence
      BY <2>1 DEF SealExpired, AbandonPage
    <3> QED
      BY <3>1, <3>2, EvidenceKept, CommitScanInv
  <2>2. ASSUME FenceDiscard(s)
        PROVE  ScanInv'
    <3>1. CASE session[s].state = "open"
      <4>1. SessionsKept
        BY <2>2, <3>1 DEF FenceDiscard, SessionsKept, TypeInv, TypeOK, SessionRow
      <4> QED
        BY <2>2, <4>1, ScanInvFrame DEF FenceDiscard
    <3>2. CASE session[s].state = "none"
      <4>1. session' = [session EXCEPT ![s].state = "absent"]
            /\ UNCHANGED <<wave, evidence, evaluation, probe, scan>>
        BY <2>2, <3>2 DEF FenceDiscard
      <4>2. /\ session'[s].wave = 0
            /\ session'[s].state # "open"
            /\ \A t \in Sessions \ {s} : session'[t] = session[t]
        BY <3>2, <4>1 DEF TypeInv, TypeOK, SessionRow, SessionsPlaced
      <4>3. SessionEvidenceCurrent' /\ ProbeBeforeOpen'
        BY <4>1, <4>2 DEF ScanInv, SessionEvidenceCurrent, ProbeBeforeOpen
      <4>4. ScansExact' /\ ScanInBarrier'
        BY <4>1 DEF ScanInv, ScansExact, ScanInBarrier, Prefix
      <4> QED
        BY <4>3, <4>4 DEF ScanInv
    <3> QED
      BY <2>2, <3>1, <3>2 DEF FenceDiscard
  <2>3. ASSUME CloseAbandoned(s)
        PROVE  ScanInv'
    BY <2>3, CloseAsScans DEF CloseAbandoned
  <2> QED
    BY <1>2, <2>1, <2>2, <2>3 DEF Cancellation
<1>3. ASSUME NEW s \in Sessions, Time(s)
      PROVE  ScanInv'
  <2>1. SessionsKept
    BY <1>3, TimeTypes
  <2> QED
    BY <1>3, <2>1, ScanInvFrame DEF Time, LeaseLapses, FinalizeLeaseLapses, DrainEnds
<1>4. ASSUME NEW w \in Waves, BarrierStep(w)
      PROVE  ScanInv'
  <2>1. ASSUME PromoteSuccessor(w)
        PROVE  ScanInv'
    BY <2>1, PlainCommitScans DEF PromoteSuccessor
  <2> QED
    BY <1>4, <2>1, ObservationScans, SettleScans, EvaluateReadScans DEF BarrierStep
<1>5. ASSUME UNCHANGED vars
      PROVE  ScanInv'
  BY <1>5, ScanInvFrame DEF vars, SessionsKept
<1>6. ASSUME Enroll
      PROVE  ScanInv'
  BY <1>6, EnrollTypes, ScanInvFrame DEF Enroll
<1> QED
  BY <1>1, <1>2, <1>3, <1>4, <1>5, <1>6, PublicationScans, EvaluationScans DEF Next

-----------------------------------------------------------------------------
(* Nothing touches a frozen wave. *)

FrozenKept(w) ==
    /\ wave'[w].state \in Frozen
    /\ wave'[w].frozen = wave[w].frozen
    /\ evidence'[w] = evidence[w]
    /\ clusterOut'[w] = clusterOut[w]

(* Frozen states are apart from those of intake and of the barrier. *)
LEMMA FrozenStates ==
    /\ Frozen \cap Barrier = {}
    /\ "none" \notin Frozen /\ "collecting" \notin Frozen
    /\ "waiting_predecessor" \notin Frozen
BY DEF Frozen, Barrier

(* Intake leaves a frozen wave alone: its sessions are all closed. *)
LEMMA IntakeKeepsFrozen ==
    ASSUME IInv, NEW w \in Waves, wave[w].state \in Frozen,
           NEW s \in Sessions, Intake(s)
    PROVE  FrozenKept(w)
<1> USE DEF IInv, TypeInv, TypeOK
<1>1. ASSUME NEW declared \in Declarations, OpenSession(s, declared)
      PROVE  FrozenKept(w)
  <2>1. PICK v \in Waves :
          /\ Joins(v)
          /\ wave' = [wave EXCEPT ![v] =
                         Reopened(IF wave[v].state = "none" THEN FreshWave
                                  ELSE wave[v])]
          /\ evidence' = [evidence EXCEPT ![v][SessionKey(s)] = SessionEvidence("open")]
    BY <1>1 DEF OpenSession
  <2>2. v # w
    BY <2>1, FrozenStates DEF Joins, FreezeInv, CollectingNotFrozen
  <2>3. wave'[w] = wave[w] /\ evidence'[w] = evidence[w]
    BY <2>1, <2>2
  <2> QED
    BY <1>1, <2>3 DEF FrozenKept, OpenSession
<1>2. ASSUME NEW page \in Pages, Register(s, page)
      PROVE  FrozenKept(w)
  BY <1>2 DEF Register, FrozenKept
<1>3. ASSUME NEW i \in Items, AdmitFinalize(s, i)
      PROVE  FrozenKept(w)
  BY <1>3 DEF AdmitFinalize, FrozenKept
<1>4. ASSUME NEW page \in Pages, NEW binding \in [page -> Bindings],
             ResolveMany(s, binding)
      PROVE  FrozenKept(w)
  <2>1. session[s].wave # w
    BY <1>4 DEF ResolveMany, FreezeInv, FrozenWithoutOpen
  <2>2. wave'[w] = wave[w] /\ evidence'[w] = evidence[w]
    BY <1>4, <2>1 DEF ResolveMany
  <2> QED
    BY <1>4, <2>2 DEF FrozenKept, ResolveMany
<1>5. ASSUME Close(s)
      PROVE  FrozenKept(w)
  <2>1. session[s].wave # w
    BY <1>5 DEF Close, Complete, FreezeInv, FrozenWithoutOpen
  <2>2. wave'[w] = wave[w] /\ evidence'[w] = evidence[w]
    BY <1>5, <2>1 DEF Close, CloseAs
  <2> QED
    BY <1>5, <2>2 DEF FrozenKept, Close, CloseAs
<1> QED
  BY <1>1, <1>2, <1>3, <1>4, <1>5 DEF Intake

(* So do expiry, discard and abandonment. *)
LEMMA CancellationKeepsFrozen ==
    ASSUME IInv, NEW w \in Waves, wave[w].state \in Frozen,
           NEW s \in Sessions, Cancellation(s)
    PROVE  FrozenKept(w)
<1>1. CASE SealExpired(s) \/ FenceDiscard(s) \/ AbandonPage(s)
  BY <1>1 DEF SealExpired, FenceDiscard, AbandonPage, FrozenKept
<1>2. CASE CloseAbandoned(s)
  <2>1. session[s].wave # w
    BY <1>2 DEF CloseAbandoned, IInv, FreezeInv, FrozenWithoutOpen
  <2>2. wave'[w] = wave[w] /\ evidence'[w] = evidence[w]
    BY <1>2, <2>1 DEF CloseAbandoned, CloseAs, IInv, TypeInv, TypeOK
  <2> QED
    BY <1>2, <2>2 DEF FrozenKept, CloseAbandoned, CloseAs
<1> QED
  BY <1>1, <1>2 DEF Cancellation

(* So do promotion, observation, settlement and the reading of a page. *)
LEMMA BarrierKeepsFrozen ==
    ASSUME IInv, NEW w \in Waves, wave[w].state \in Frozen,
           NEW v \in Waves, BarrierStep(v)
    PROVE  FrozenKept(w)
<1> USE DEF IInv, TypeInv, TypeOK
<1>1. CASE PromoteSuccessor(v)
  <2>1. v # w
    BY <1>1, FrozenStates DEF PromoteSuccessor
  <2>2. wave'[w] = wave[w]
    BY <1>1, <2>1 DEF PromoteSuccessor
  <2> QED
    BY <1>1, <2>2 DEF FrozenKept, PromoteSuccessor
<1>2. ASSUME NEW seen \in Observations(v),
             CommitObservations(v, seen) \/ Observe(v, seen)
      PROVE  FrozenKept(w)
  <2>1. v # w /\ evidence' = [evidence EXCEPT ![v] = Observed(v, seen)]
        /\ UNCHANGED <<wave, clusterOut>>
    BY <1>2 DEF CommitObservations, Observe
  <2> QED
    BY <2>1 DEF FrozenKept
<1>3. ASSUME NEW src \in Sources, NEW outcome \in Terminal, Settle(v, src, outcome)
      PROVE  FrozenKept(w)
  <2>1. v # w
    BY <1>3, FrozenStates DEF Settle, Settleable
  <2> QED
    BY <1>3, <2>1 DEF FrozenKept, Settle
<1>4. CASE EvaluateRead(v)
  BY <1>4 DEF EvaluateRead, FrozenKept
<1> QED
  BY <1>1, <1>2, <1>3, <1>4 DEF BarrierStep

(* An evaluation commits on a wave that is behind the barrier, so not frozen. *)
LEMMA EvaluationKeepsFrozen ==
    ASSUME IInv, NEW w \in Waves, wave[w].state \in Frozen,
           Evaluation \/ EvaluateCrash
    PROVE  FrozenKept(w)
<1>1. CASE EvaluateCrash \/ EvaluateSavePage
  BY <1>1 DEF EvaluateCrash, EvaluateSavePage, FrozenKept
<1>2. CASE EvaluateHold \/ EvaluateFreeze
  <2>1. scan.wave # w
    BY <1>2, FrozenStates DEF EvaluateHold, EvaluateFreeze, IInv, ScanInv, ScanInBarrier
  <2>2. wave'[w] = wave[w] /\ clusterOut'[w] = clusterOut[w]
    BY <1>2, <2>1 DEF EvaluateHold, EvaluateFreeze, IInv, TypeInv, TypeOK
  <2> QED
    BY <1>2, <2>2 DEF FrozenKept, EvaluateHold, EvaluateFreeze
<1> QED
  BY <1>1, <1>2 DEF Evaluation

(* Assignment and publication move a frozen wave forward only. *)
LEMMA PublicationKeepsFrozen ==
    ASSUME IInv, NEW w \in Waves, wave[w].state \in Frozen,
           NEW v \in Waves, Publication(v)
    PROVE  FrozenKept(w)
<1> USE DEF IInv, TypeInv, TypeOK
<1>1. CASE ProbeImpossible(v) \/ CompleteEmpty(v)
  <2>1. v # w
    BY <1>1, FrozenStates DEF ProbeImpossible, CompleteEmpty, Probing
  <2>2. wave'[w] = wave[w]
    BY <1>1, <2>1 DEF ProbeImpossible, CompleteEmpty
  <2> QED
    BY <1>1, <2>2 DEF FrozenKept, ProbeImpossible, CompleteEmpty
<1>2. CASE ProbeSavePage(v) \/ RecordPublicationMembers(v)
  BY <1>2 DEF ProbeSavePage, RecordPublicationMembers, FrozenKept
<1>3. CASE CommitAssignment(v) \/ CompleteIndexing(v)
  <2>1. PICK state \in Frozen : wave' = [wave EXCEPT ![v].state = state]
    BY <1>3 DEF CommitAssignment, CompleteIndexing, Frozen
  <2>2. wave[v] \in WaveRow
    OBVIOUS
  <2>3. /\ [wave[v] EXCEPT !.state = state].state = state
        /\ [wave[v] EXCEPT !.state = state].frozen = wave[v].frozen
    BY <2>2 DEF WaveRow
  <2>4. wave'[w].state \in Frozen /\ wave'[w].frozen = wave[w].frozen
    BY <2>1, <2>3
  <2> QED
    BY <1>3, <2>4 DEF FrozenKept, CommitAssignment, CompleteIndexing
<1> QED
  BY <1>1, <1>2, <1>3 DEF Publication

(* Every step keeps a frozen wave frozen, with its revision and evidence. *)
LEMMA NextKeepsFrozen ==
    ASSUME IInv, [Next]_vars, NEW w \in Waves, wave[w].state \in Frozen
    PROVE  FrozenKept(w)
<1>1. ASSUME NEW s \in Sessions, Time(s)
      PROVE  FrozenKept(w)
  BY <1>1 DEF Time, LeaseLapses, FinalizeLeaseLapses, DrainEnds, FrozenKept
<1>2. ASSUME UNCHANGED vars \/ Enroll
      PROVE  FrozenKept(w)
  BY <1>2 DEF vars, Enroll, FrozenKept
<1> QED
  BY <1>1, <1>2, IntakeKeepsFrozen, CancellationKeepsFrozen, BarrierKeepsFrozen,
     EvaluationKeepsFrozen, PublicationKeepsFrozen DEF Next

-----------------------------------------------------------------------------
(* How a wave becomes frozen, and how a session becomes open. *)

FreezesNow(w) == (EvaluateFreeze /\ scan.wave = w) \/ CompleteEmpty(w)

(* The wave neither freezes nor gets a vision revision in this step. *)
StaysThawed(w) ==
    wave'[w].state \notin Frozen /\ wave'[w].frozen.path # "vision"

(* A step that gives the wave a state of intake or of the barrier and keeps its
   revision, or leaves its row alone. *)
LEMMA ThawedRow ==
    ASSUME IInv, NEW w \in Waves, wave[w].state \notin Frozen,
           \/ wave'[w] = wave[w]
           \/ wave'[w].state \notin Frozen /\ wave'[w].frozen \in {wave[w].frozen, NoRevision}
    PROVE  StaysThawed(w)
BY DEF StaysThawed, IInv, FreezeInv, OnlyFrozenBound, NoRevision

(* A close gives the wave a state of intake or of the barrier. *)
LEMMA CloseThawed ==
    ASSUME IInv, NEW w \in Waves, wave[w].state \notin Frozen,
           NEW s \in Sessions, NEW state, CloseAs(s, state)
    PROVE  StaysThawed(w)
<1> DEFINE v == session[s].wave
           left == wave[v].open - 1
           next == IF left # 0 THEN "collecting"
                   ELSE IF wave[v].pred # 0 THEN "waiting_predecessor"
                   ELSE "processing_pending"
           vision == IF next = "processing_pending" THEN wave[v].epoch ELSE wave[v].vision
           sealed == [wave[v] EXCEPT !.open = left, !.state = next, !.vision = vision]
<1>1. wave' = [wave EXCEPT ![v] = sealed]
  BY DEF CloseAs
<1>2. next \notin Frozen
  BY DEF Frozen
<1> HIDE DEF v, left, next, vision
<1>3. v = w => sealed.state = next /\ sealed.frozen = wave[w].frozen
  BY DEF IInv, TypeInv, TypeOK, WaveRow
<1> HIDE DEF sealed
<1>4. \/ wave'[w] = wave[w]
      \/ wave'[w].state = next /\ wave'[w].frozen = wave[w].frozen
  BY <1>1, <1>3 DEF IInv, TypeInv, TypeOK
<1> QED
  BY <1>2, <1>4, ThawedRow

(* Intake leaves a wave that is not frozen so, or unfrozen. *)
LEMMA IntakeThawed ==
    ASSUME IInv, NEW w \in Waves, wave[w].state \notin Frozen,
           NEW s \in Sessions, Intake(s)
    PROVE  StaysThawed(w)
<1> USE DEF IInv, TypeInv, TypeOK
<1>1. ASSUME NEW declared \in Declarations, OpenSession(s, declared)
      PROVE  StaysThawed(w)
  <2>1. PICK v \in Waves :
          wave' = [wave EXCEPT ![v] =
                      Reopened(IF wave[v].state = "none" THEN FreshWave ELSE wave[v])]
    BY <1>1 DEF OpenSession
  <2> DEFINE base == IF wave[v].state = "none" THEN FreshWave ELSE wave[v]
  <2>2. base \in WaveRow /\ base.frozen \in {wave[v].frozen, NoRevision}
    <3>1. FreshWave \in WaveRow
      BY BlankRows DEF FreshWave, WaveRow, Waves
    <3>2. FreshWave.frozen = NoRevision
      BY DEF FreshWave, NoWave
    <3> QED
      BY <3>1, <3>2
  <2>3. wave' = [wave EXCEPT ![v] = Reopened(base)]
    BY <2>1
  <2> HIDE DEF base
  <2>4. Reopened(base).state = "collecting" /\ Reopened(base).frozen = base.frozen
    BY <2>2 DEF Reopened, WaveRow
  <2> QED
    BY <2>2, <2>3, <2>4, ThawedRow, FrozenStates
<1>2. ASSUME NEW page \in Pages, NEW binding \in [page -> Bindings],
             ResolveMany(s, binding)
      PROVE  StaysThawed(w)
  <2>1. PICK v, n : wave' = [wave EXCEPT ![v].members = n]
    BY <1>2 DEF ResolveMany
  <2>2. wave[w] \in WaveRow
    OBVIOUS
  <2>3. wave'[w].state = wave[w].state /\ wave'[w].frozen = wave[w].frozen
    BY <2>1, <2>2 DEF WaveRow
  <2> QED
    BY <2>3, ThawedRow
<1>3. ASSUME Close(s)
      PROVE  StaysThawed(w)
  BY <1>3, CloseThawed DEF Close
<1>4. ASSUME UNCHANGED wave
      PROVE  StaysThawed(w)
  BY <1>4, ThawedRow
<1> QED
  BY <1>1, <1>2, <1>3, <1>4 DEF Intake, Register, AdmitFinalize

(* So do expiry, discard and abandonment. *)
LEMMA CancellationThawed ==
    ASSUME IInv, NEW w \in Waves, wave[w].state \notin Frozen,
           NEW s \in Sessions, Cancellation(s)
    PROVE  StaysThawed(w)
<1>1. CASE SealExpired(s) \/ FenceDiscard(s) \/ AbandonPage(s)
  BY <1>1, ThawedRow DEF SealExpired, FenceDiscard, AbandonPage
<1>2. CASE CloseAbandoned(s)
  BY <1>2, CloseThawed DEF CloseAbandoned
<1> QED
  BY <1>1, <1>2 DEF Cancellation

(* So do promotion, observation, settlement and the reading of a page. *)
LEMMA BarrierThawed ==
    ASSUME IInv, NEW w \in Waves, wave[w].state \notin Frozen,
           NEW v \in Waves, BarrierStep(v)
    PROVE  StaysThawed(w)
<1>1. CASE PromoteSuccessor(v)
  <2>1. PICK a, b : wave' = [wave EXCEPT ![v] =
                                [wave[v] EXCEPT !.state = "processing_pending",
                                                !.predFrozen = a, !.vision = b]]
    BY <1>1 DEF PromoteSuccessor
  <2>2. wave \in [Waves -> WaveRow]
    BY DEF IInv, TypeInv, TypeOK
  <2>3. /\ wave'[w].state \in {wave[w].state, "processing_pending"}
        /\ wave'[w].frozen = wave[w].frozen
    BY <2>1, <2>2 DEF WaveRow
  <2> QED
    BY <2>3, ThawedRow DEF Frozen
<1>2. CASE UNCHANGED wave
  BY <1>2, ThawedRow
<1> QED
  BY <1>1, <1>2 DEF BarrierStep, CommitObservations, Observe, Settle, EvaluateRead

(* Only EvaluateFreeze freezes among the evaluation's commits. *)
LEMMA EvaluationThawed ==
    ASSUME IInv, NEW w \in Waves, wave[w].state \notin Frozen,
           Evaluation \/ EvaluateCrash
    PROVE  StaysThawed(w) \/ FreezesNow(w)
<1>1. CASE EvaluateCrash \/ EvaluateSavePage
  BY <1>1, ThawedRow DEF EvaluateCrash, EvaluateSavePage
<1>2. CASE EvaluateHold
  <2>1. wave[w] \in WaveRow
    BY DEF IInv, TypeInv, TypeOK
  <2>2. /\ wave'[w].state \in {wave[w].state, "processing"}
        /\ wave'[w].frozen = wave[w].frozen
    BY <1>2, <2>1 DEF EvaluateHold, IInv, TypeInv, TypeOK, WaveRow
  <2> QED
    BY <2>2, ThawedRow DEF Frozen
<1>3. CASE EvaluateFreeze
  <2>1. scan.wave # w => wave'[w] = wave[w]
    BY <1>3 DEF EvaluateFreeze, IInv, TypeInv, TypeOK
  <2> QED
    BY <1>3, <2>1, ThawedRow DEF FreezesNow
<1> QED
  BY <1>1, <1>2, <1>3 DEF Evaluation

(* Only CompleteEmpty freezes among the publication's steps. *)
LEMMA PublicationThawed ==
    ASSUME IInv, NEW w \in Waves, wave[w].state \notin Frozen,
           NEW v \in Waves, Publication(v)
    PROVE  StaysThawed(w) \/ FreezesNow(w)
<1> USE DEF IInv, TypeInv, TypeOK
<1>1. CASE ProbeImpossible(v)
  <2>1. wave' = [wave EXCEPT ![v].noWorkImpossible = TRUE]
    BY <1>1 DEF ProbeImpossible
  <2>2. wave[w] \in WaveRow
    OBVIOUS
  <2>3. wave'[w].state = wave[w].state /\ wave'[w].frozen = wave[w].frozen
    BY <2>1, <2>2 DEF WaveRow
  <2> QED
    BY <2>3, ThawedRow
<1>2. CASE ProbeSavePage(v) \/ RecordPublicationMembers(v)
  BY <1>2, ThawedRow DEF ProbeSavePage, RecordPublicationMembers
<1>3. CASE CompleteEmpty(v)
  <2>1. v # w => wave'[w] = wave[w]
    BY <1>3 DEF CompleteEmpty
  <2> QED
    BY <1>3, <2>1, ThawedRow DEF FreezesNow
<1>4. CASE CommitAssignment(v) \/ CompleteIndexing(v)
  <2>1. v # w
    BY <1>4 DEF CommitAssignment, CompleteIndexing, Frozen
  <2>2. wave'[w] = wave[w]
    BY <1>4, <2>1 DEF CommitAssignment, CompleteIndexing
  <2> QED
    BY <2>2, ThawedRow
<1> QED
  BY <1>1, <1>2, <1>3, <1>4 DEF Publication

(* A wave is frozen by EvaluateFreeze or by CompleteEmpty alone. *)
LEMMA NextThawed ==
    ASSUME IInv, [Next]_vars, NEW w \in Waves, wave[w].state \notin Frozen
    PROVE  StaysThawed(w) \/ FreezesNow(w)
<1>1. ASSUME NEW s \in Sessions, Time(s)
      PROVE  StaysThawed(w)
  BY <1>1, ThawedRow DEF Time, LeaseLapses, FinalizeLeaseLapses, DrainEnds
<1>2. ASSUME UNCHANGED vars \/ Enroll
      PROVE  StaysThawed(w)
  BY <1>2, ThawedRow DEF vars, Enroll
<1> QED
  BY <1>1, <1>2, IntakeThawed, CancellationThawed, BarrierThawed, EvaluationThawed,
     PublicationThawed DEF Next

-----------------------------------------------------------------------------
(* What freezing saw. *)

(* evaluate froze a finished, exact scan without an open session row. *)
LEMMA FreezeSaw ==
    ASSUME IInv, NEW w \in Waves, EvaluateFreeze, scan.wave = w
    PROVE  /\ wave'[w].frozen.rows = evidence[w]
           /\ Outstanding(evidence[w]) = {}
           /\ clusterOut'[w] = wave'[w].frozen
           /\ wave'[w].state = "ready"
           /\ evidence'[w] = evidence[w]
           /\ \A s \in Sessions : session[s].wave = w => session[s].state # "open"
<1> DEFINE revision == [path |-> "vision", epoch |-> wave[w].epoch,
                        rows |-> scan.acc.rows]
           row == [wave[w] EXCEPT !.state = "ready", !.frozen = revision]
<1>1. /\ scan.finished
      /\ Outstanding(scan.acc.rows) = {}
      /\ wave' = [wave EXCEPT ![w] = row]
      /\ clusterOut' = [clusterOut EXCEPT ![w] = revision]
      /\ UNCHANGED evidence
  BY DEF EvaluateFreeze
<1>2. scan.acc.rows = evidence[w]
  BY <1>1 DEF IInv, ScanInv, ScansExact, Waves
<1>3. revision.rows = scan.acc.rows
  OBVIOUS
<1> HIDE DEF revision
<1>4. wave[w] \in WaveRow
  BY DEF IInv, TypeInv, TypeOK
<1>5. row.frozen = revision /\ row.state = "ready"
  BY <1>4 DEF WaveRow
<1> HIDE DEF row
<1>6. wave'[w] = row /\ clusterOut'[w] = revision
  BY <1>1 DEF IInv, TypeInv, TypeOK
<1>7. ASSUME NEW s \in Sessions, session[s].wave = w, session[s].state = "open"
      PROVE  FALSE
  <2>1. evidence[w][SessionKey(s)] = SessionEvidence("open")
    BY <1>7 DEF IInv, ScanInv, SessionEvidenceCurrent, Waves
  <2>2. SessionKey(s) \in Outstanding(evidence[w])
    BY <2>1, BoundsAreNat DEF Outstanding, SessionEvidence
  <2> QED
    BY <1>1, <1>2, <2>2
<1> QED
  BY <1>1, <1>2, <1>3, <1>5, <1>6, <1>7

(* The no-work probe reached the end of the rows without an open session. *)
LEMMA CompleteEmptySaw ==
    ASSUME IInv, NEW w \in Waves, CompleteEmpty(w)
    PROVE  /\ wave'[w].frozen.path = "no_work"
           /\ wave'[w].state = "complete"
           /\ \A s \in Sessions : session[s].wave = w => session[s].state # "open"
<1> DEFINE rest == {k \in Present(w) : k > probe[w].after}
<1>1. PICK page \in SUBSET rest :
        LET revision == [path |-> "no_work", epoch |-> 0,
                         rows |-> Witness(w, probe[w].seen \cup page)]
        IN /\ Probing(w, rest, page)
           /\ \A k \in page : Repeats(w, k)
           /\ Cardinality(page) < MaxPage
           /\ wave' = [wave EXCEPT ![w] = [wave[w] EXCEPT !.state = "complete",
                                                          !.frozen = revision]]
  BY DEF CompleteEmpty
<1>2. wave'[w].frozen.path = "no_work" /\ wave'[w].state = "complete"
  <2> DEFINE revision == [path |-> "no_work", epoch |-> 0,
                          rows |-> Witness(w, probe[w].seen \cup page)]
             row == [wave[w] EXCEPT !.state = "complete", !.frozen = revision]
  <2>1. wave' = [wave EXCEPT ![w] = row]
    BY <1>1
  <2>2. revision.path = "no_work"
    OBVIOUS
  <2> HIDE DEF revision
  <2>3. wave[w] \in WaveRow
    BY DEF IInv, TypeInv, TypeOK
  <2>4. row.frozen = revision /\ row.state = "complete"
    BY <2>3 DEF WaveRow
  <2> HIDE DEF row
  <2> QED
    BY <2>1, <2>2, <2>4 DEF IInv, TypeInv, TypeOK
<1>3. page = rest
  <2> DEFINE N == NSources + NSessions
  <2>1. N \in Nat /\ rest \in SUBSET (1..N)
    BY BoundsAreNat DEF Present, Keys
  <2>2. IsPage(page, rest, MaxPage) /\ Cardinality(page) < MaxPage
    BY <1>1 DEF Probing
  <2> HIDE DEF N, rest
  <2> QED
    BY <2>1, <2>2, PageOfRest
<1>4. ASSUME NEW s \in Sessions, session[s].wave = w, session[s].state = "open"
      PROVE  FALSE
  <2>1. evidence[w][SessionKey(s)] = SessionEvidence("open")
    BY <1>4 DEF IInv, ScanInv, SessionEvidenceCurrent, Waves
  <2>2. probe[w].after < SessionKey(s)
    BY <1>4 DEF IInv, ScanInv, ProbeBeforeOpen
  <2>3. probe[w].after \in Int /\ SessionKey(s) \in Int
    BY BoundsAreNat DEF IInv, TypeInv, TypeOK, Probe, Keys
  <2>4. SessionKey(s) \in rest
    BY <2>1, <2>2, <2>3, BoundsAreNat DEF Present, SessionEvidence, Absent
  <2>5. ~ Repeats(w, SessionKey(s))
    BY <2>1 DEF Repeats, SessionEvidence
  <2> QED
    BY <1>1, <1>3, <2>4, <2>5
<1> QED
  BY <1>2, <1>4

(* Whatever freezes a wave left no session of it open. *)
LEMMA FreezesWithoutOpen ==
    ASSUME IInv, NEW w \in Waves, FreezesNow(w)
    PROVE  /\ \A s \in Sessions : session[s].wave = w => session[s].state # "open"
           /\ UNCHANGED session
           /\ control'.collecting # w
<1>1. \A s \in Sessions : session[s].wave = w => session[s].state # "open"
  BY FreezeSaw, CompleteEmptySaw DEF FreezesNow
<1>2. /\ UNCHANGED session
      /\ control' = IF control.collecting = w THEN [control EXCEPT !.collecting = 0]
                    ELSE control
  BY DEF FreezesNow, EvaluateFreeze, CompleteEmpty
<1>3. control'.collecting # w
  BY <1>2 DEF IInv, TypeInv, TypeOK, Waves
<1> QED
  BY <1>1, <1>2, <1>3

(* Only opening a session makes it open, or moves the collecting wave, and the
   wave it joins collects. *)
Opens(s) == \E declared \in Declarations : OpenSession(s, declared)

(* A session opens into a wave that is collecting, so not frozen. *)
LEMMA OpensIntoCollecting ==
    ASSUME IInv, NEW s \in Sessions, Opens(s)
    PROVE  \E w \in Waves :
               /\ wave'[w].state = "collecting"
               /\ session'[s].wave = w
               /\ control'.collecting = w
               /\ \A t \in Sessions \ {s} : session'[t] = session[t]
<1>1. PICK declared \in Declarations : OpenSession(s, declared)
  BY DEF Opens
<1>2. PICK w \in Waves :
        /\ wave' = [wave EXCEPT ![w] =
                       Reopened(IF wave[w].state = "none" THEN FreshWave ELSE wave[w])]
        /\ session' = [session EXCEPT ![s] =
                          [NoSession EXCEPT !.state = "open", !.wave = w,
                                            !.declared = declared,
                                            !.lease = IF enrolled THEN "live" ELSE "none"]]
        /\ control' = CollectingTail(w)
  BY <1>1 DEF OpenSession
<1> DEFINE base == IF wave[w].state = "none" THEN FreshWave ELSE wave[w]
<1>3. base \in WaveRow
  BY BlankRows DEF FreshWave, WaveRow, Waves, IInv, TypeInv, TypeOK
<1>4. wave' = [wave EXCEPT ![w] = Reopened(base)]
  BY <1>2
<1> HIDE DEF base
<1>5. wave'[w].state = "collecting"
  BY <1>3, <1>4, ReopenedRow DEF IInv, TypeInv, TypeOK
<1>6. session'[s].wave = w /\ \A t \in Sessions \ {s} : session'[t] = session[t]
  BY <1>2 DEF IInv, TypeInv, TypeOK, NoSession
<1>7. control'.collecting = w
  BY <1>2 DEF CollectingTail, IInv, TypeInv, TypeOK
<1> QED
  BY <1>5, <1>6, <1>7

(* No other step opens a session. *)
LEMMA OthersOpenNothing ==
    ASSUME IInv, [Next]_vars, ~ \E s \in Sessions : Opens(s)
    PROVE  /\ \A t \in Sessions : session'[t].state = "open" =>
                 session[t].state = "open" /\ session'[t].wave = session[t].wave
           /\ control'.collecting \in {control.collecting, 0}
<1> DEFINE Goal == /\ \A t \in Sessions : session'[t].state = "open" =>
                         session[t].state = "open" /\ session'[t].wave = session[t].wave
                   /\ control'.collecting \in {control.collecting, 0}
<1> SUFFICES Goal
  OBVIOUS
<1> USE DEF IInv
<1>1. ASSUME SessionsKept, UNCHANGED control PROVE Goal
  BY <1>1 DEF SessionsKept
<1>2. ASSUME NEW s \in Sessions, NEW state \in {"closed", "abandoned"}, CloseAs(s, state)
      PROVE  Goal
  <2>1. session[s] \in SessionRow
    BY DEF TypeInv, TypeOK
  <2>2. [Stopped(session[s]) EXCEPT !.state = state].state = state
    BY <2>1 DEF Stopped, SessionRow
  <2>3. session'[s].state = state /\ \A t \in Sessions \ {s} : session'[t] = session[t]
    BY <1>2, <2>2 DEF CloseAs, TypeInv, TypeOK
  <2>4. control'.collecting \in {control.collecting, 0}
    BY <1>2 DEF CloseAs, Detached, TypeInv, TypeOK
  <2> QED
    BY <2>3, <2>4
<1>3. ASSUME NEW s \in Sessions, Intake(s)
      PROVE  Goal
  <2>1. ASSUME NEW page \in Pages, Register(s, page)
        PROVE  Goal
    BY <1>1, <2>1, RegisterTypes DEF Register
  <2>2. ASSUME NEW i \in Items, AdmitFinalize(s, i)
        PROVE  Goal
    BY <1>1, <2>2, AdmitFinalizeTypes DEF AdmitFinalize
  <2>3. ASSUME NEW page \in Pages, NEW binding \in [page -> Bindings],
               ResolveMany(s, binding)
        PROVE  Goal
    BY <1>1, <2>3, ResolveManyTypes DEF ResolveMany
  <2> QED
    BY <1>2, <1>3, <2>1, <2>2, <2>3 DEF Intake, Close, Opens
<1>4. ASSUME NEW s \in Sessions, Cancellation(s)
      PROVE  Goal
  <2>1. ASSUME SealExpired(s)
        PROVE  Goal
    <3>1. SessionsKept
      BY <2>1, SealExpiredTypes
    <3>2. control'.collecting \in {control.collecting, 0}
      BY <2>1 DEF SealExpired, TypeInv, TypeOK
    <3> QED
      BY <3>1, <3>2 DEF SessionsKept
  <2>2. ASSUME FenceDiscard(s)
        PROVE  Goal
    <3>1. session[s] \in SessionRow
      BY DEF TypeInv, TypeOK
    <3>2. PICK row : /\ session' = [session EXCEPT ![s] = row]
                     /\ row.state = "open" =>
                           session[s].state = "open" /\ row.wave = session[s].wave
      <4> DEFINE absent == [session[s] EXCEPT !.state = "absent"]
                 fenced == [session[s] EXCEPT !.abandoning = TRUE, !.drain = "running"]
      <4>1. absent.state = "absent"
        BY <3>1 DEF SessionRow
      <4>2. fenced.state = session[s].state /\ fenced.wave = session[s].wave
        BY <3>1 DEF SessionRow
      <4>3. session' = [session EXCEPT ![s] = absent] \/ session' = [session EXCEPT ![s] = fenced]
        BY <2>2 DEF FenceDiscard
      <4> HIDE DEF absent, fenced
      <4> QED
        BY <4>1, <4>2, <4>3
    <3>3. \A t \in Sessions : session'[t].state = "open" =>
             session[t].state = "open" /\ session'[t].wave = session[t].wave
      BY <3>2 DEF TypeInv, TypeOK
    <3> QED
      BY <2>2, <3>3 DEF FenceDiscard
  <2>3. ASSUME AbandonPage(s)
        PROVE  Goal
    BY <1>1, <2>3, AbandonPageTypes DEF AbandonPage
  <2> QED
    BY <1>2, <1>4, <2>1, <2>2, <2>3 DEF Cancellation, CloseAbandoned
<1>5. ASSUME NEW s \in Sessions, Time(s)
      PROVE  Goal
  BY <1>1, <1>5, TimeTypes DEF Time, LeaseLapses, FinalizeLeaseLapses, DrainEnds
<1>6. ASSUME NEW w \in Waves, BarrierStep(w) \/ Publication(w)
      PROVE  Goal
  <2>1. UNCHANGED session
    BY <1>6 DEF BarrierStep, PromoteSuccessor, CommitObservations, Observe, Settle,
       EvaluateRead, Publication, ProbeImpossible, ProbeSavePage, CompleteEmpty,
       CommitAssignment, RecordPublicationMembers, CompleteIndexing
  <2>2. control' = [control EXCEPT !.collecting = 0] \/ UNCHANGED control
    BY <1>6 DEF BarrierStep, PromoteSuccessor, CommitObservations, Observe, Settle,
       EvaluateRead, Publication, ProbeImpossible, ProbeSavePage, CompleteEmpty,
       CommitAssignment, RecordPublicationMembers, CompleteIndexing
  <2> QED
    BY <2>1, <2>2 DEF TypeInv, TypeOK
<1>7. ASSUME Evaluation \/ EvaluateCrash
      PROVE  Goal
  <2>1. UNCHANGED session
    BY <1>7 DEF Evaluation, EvaluateSavePage, EvaluateHold, EvaluateFreeze, EvaluateCrash
  <2>2. control' = [control EXCEPT !.collecting = 0] \/ UNCHANGED control
    BY <1>7 DEF Evaluation, EvaluateSavePage, EvaluateHold, EvaluateFreeze, EvaluateCrash
  <2> QED
    BY <2>1, <2>2 DEF TypeInv, TypeOK
<1>8. ASSUME UNCHANGED vars \/ Enroll
      PROVE  Goal
  BY <1>8 DEF vars, Enroll
<1> QED
  BY <1>3, <1>4, <1>5, <1>6, <1>7, <1>8 DEF Next

-----------------------------------------------------------------------------
(* FreezeInv is inductive, relative to the types and the scans. *)
LEMMA NextFreeze == IInv /\ TypeInv' /\ [Next]_vars => FreezeInv'
<1> SUFFICES ASSUME IInv, TypeInv', [Next]_vars PROVE FreezeInv'
  OBVIOUS
<1>1. FrozenWithoutOpen'
  <2> SUFFICES ASSUME NEW t \in Sessions, session'[t].state = "open"
               PROVE  wave'[session'[t].wave].state \notin Frozen
    BY DEF FrozenWithoutOpen
  <2>1. ASSUME session[t].state = "open", session'[t].wave = session[t].wave
        PROVE  wave'[session'[t].wave].state \notin Frozen
    <3>1. session[t].wave \in Waves
      BY <2>1, OpenSessionsWave DEF IInv
    <3>2. wave[session[t].wave].state \notin Frozen
      BY <2>1 DEF IInv, FreezeInv, FrozenWithoutOpen
    <3>3. ~ FreezesNow(session[t].wave)
      BY <2>1, <3>1, FreezesWithoutOpen
    <3> QED
      BY <2>1, <3>1, <3>2, <3>3, NextThawed DEF StaysThawed
  <2>2. CASE \E s \in Sessions : Opens(s)
    <3>1. PICK s \in Sessions : Opens(s)
      BY <2>2
    <3>2. CASE t = s
      BY <3>1, <3>2, OpensIntoCollecting, FrozenStates
    <3>3. CASE t # s
      BY <2>1, <3>1, <3>3, OpensIntoCollecting
    <3> QED
      BY <3>2, <3>3
  <2>3. CASE ~ \E s \in Sessions : Opens(s)
    BY <2>1, <2>3, OthersOpenNothing
  <2> QED
    BY <2>2, <2>3
<1>2. CollectingNotFrozen'
  <2> DEFINE c == control'.collecting
  <2> SUFFICES ASSUME c # 0 PROVE wave'[c].state \notin Frozen
    BY DEF CollectingNotFrozen
  <2>1. CASE \E s \in Sessions : Opens(s)
    BY <2>1, OpensIntoCollecting, FrozenStates
  <2>2. CASE ~ \E s \in Sessions : Opens(s)
    <3>1. c = control.collecting
      BY <2>2, OthersOpenNothing
    <3>2. c \in Waves /\ wave[c].state \notin Frozen
      BY <3>1 DEF IInv, TypeInv, TypeOK, FreezeInv, CollectingNotFrozen
    <3>3. ~ FreezesNow(c)
      BY <3>2, FreezesWithoutOpen
    <3> QED
      BY <3>2, <3>3, NextThawed DEF StaysThawed
  <2> QED
    BY <2>1, <2>2
<1>3. OnlyFrozenBound'
  <2> SUFFICES ASSUME NEW w \in Waves, wave'[w].frozen.path = "vision"
               PROVE  wave'[w].state \in Frozen
    BY DEF OnlyFrozenBound
  <2>1. CASE wave[w].state \in Frozen
    BY <2>1, NextKeepsFrozen DEF FrozenKept
  <2>2. CASE wave[w].state \notin Frozen
    BY <2>2, NextThawed, FreezeSaw, CompleteEmptySaw DEF StaysThawed, FreezesNow, Frozen
  <2> QED
    BY <2>1, <2>2
<1>4. FrozenManifestExact'
  <2> SUFFICES ASSUME NEW w \in Waves, wave'[w].frozen.path = "vision"
               PROVE  /\ wave'[w].frozen.rows = evidence'[w]
                      /\ Outstanding(evidence'[w]) = {}
                      /\ clusterOut'[w] = wave'[w].frozen
                      /\ \A s \in Sessions : session'[s].wave = w =>
                             session'[s].state # "open"
    BY DEF FrozenManifestExact, Outstanding
  <2>1. \A s \in Sessions : session'[s].wave = w => session'[s].state # "open"
    BY <1>1, <1>3 DEF FrozenWithoutOpen, OnlyFrozenBound
  <2>2. CASE wave[w].state \in Frozen
    <3>1. FrozenKept(w)
      BY <2>2, NextKeepsFrozen
    <3>2. /\ wave[w].frozen.rows = evidence[w]
          /\ Outstanding(evidence[w]) = {}
          /\ clusterOut[w] = wave[w].frozen
      BY <3>1 DEF FrozenKept, IInv, FreezeInv, FrozenManifestExact
    <3> QED
      BY <2>1, <3>1, <3>2 DEF FrozenKept
  <2>3. CASE wave[w].state \notin Frozen
    <3>1. EvaluateFreeze /\ scan.wave = w
      BY <2>3, NextThawed, CompleteEmptySaw DEF StaysThawed, FreezesNow
    <3> QED
      BY <2>1, <3>1, FreezeSaw
  <2> QED
    BY <2>2, <2>3
<1> QED
  BY <1>1, <1>2, <1>3, <1>4 DEF FreezeInv

(* The inductive invariant is inductive. *)
LEMMA NextIInv == IInv /\ [Next]_vars => IInv'
<1> SUFFICES ASSUME IInv, [Next]_vars PROVE IInv'
  OBVIOUS
<1>1. TypeInv'
  BY NextTypes DEF IInv
<1> QED
  BY <1>1, NextScans, NextFreeze DEF IInv

(* The inductive invariant holds: rows and counts are typed, scans are exact, and
   what is frozen was frozen from an exact scan with no session open. *)
THEOREM InvariantHolds == Spec => []IInv
BY InitIInv, NextIInv, PTL DEF Spec

-----------------------------------------------------------------------------
(* No paged scan mixes two versions of a wave's evidence. *)
THEOREM ScansStayExact == Spec => []ScansExact
<1>1. IInv => ScansExact
  BY DEF IInv, ScanInv
<1> QED
  BY <1>1, InvariantHolds, PTL

(* What evaluate froze is the evidence of the wave, complete and settled. *)
THEOREM FrozenManifestsAreExact == Spec => []FrozenManifestExact
<1>1. IInv => FrozenManifestExact
  BY DEF IInv, FreezeInv
<1> QED
  BY <1>1, InvariantHolds, PTL

(* A frozen wave's revision and evidence never change again. *)
THEOREM FrozenWavesAreFinal == Spec => FrozenIsFinal
<1> DEFINE Final == \A w \in Waves : wave[w].state \in Frozen =>
                        /\ wave'[w].state \in Frozen
                        /\ wave'[w].frozen = wave[w].frozen
                        /\ evidence'[w] = evidence[w]
<1>1. IInv /\ [Next]_vars => Final
  BY NextKeepsFrozen DEF FrozenKept
<1> QED
  BY <1>1, InvariantHolds, PTL DEF Spec, FrozenIsFinal
=============================================================================
