----------------------------- MODULE WaveChain -----------------------------
(***************************************************************************)
(* What the upload-wave protocol promises a library, without sessions,      *)
(* pages, scans or outboxes: a line of waves that gather photos one behind  *)
(* the other, are sealed, enter Vision behind a frozen predecessor, and are *)
(* published behind a published one.  A wave only gains photos, only while  *)
(* it gathers, and a published wave holds the photos it was sealed with.    *)
(***************************************************************************)
EXTENDS Integers

CONSTANTS NWaves, Sources

Waves == 1..NWaves

Phases == {"none", "gathering", "sealed", "vision", "frozen", "indexing", "published"}

VARIABLES phase,    \* where each wave is
          photos    \* the photo revisions each wave holds

vars == <<phase, photos>>

Init ==
    /\ phase = [w \in Waves |-> "none"]
    /\ photos = [w \in Waves |-> {}]

Move(w, from, to) ==
    /\ phase[w] = from
    /\ phase' = [phase EXCEPT ![w] = to]
    /\ UNCHANGED photos

Before(w, allowed) == w = 1 \/ phase[w - 1] \in allowed

(* A selection starts the next wave of the line. *)
Start(w) ==
    /\ Before(w, Phases \ {"none"})
    /\ Move(w, "none", "gathering")

Gather(w) ==
    /\ phase[w] = "gathering"
    /\ \E new \in SUBSET Sources :
          photos' = [photos EXCEPT ![w] = @ \cup new]
    /\ UNCHANGED phase

(* The first wave needs nobody to leave Vision before it. *)
Seal(w) == Move(w, "gathering", IF w = 1 THEN "vision" ELSE "sealed")

EnterVision(w) ==
    /\ Before(w, {"frozen", "indexing", "published"})
    /\ Move(w, "sealed", "vision")

Freeze(w) == Move(w, "vision", "frozen")

Assign(w) ==
    /\ Before(w, {"published"})
    /\ Move(w, "frozen", "indexing")

Publish(w) == Move(w, "indexing", "published")

(* A wave that only repeats published photos has nothing to publish. *)
PublishNothing(w) ==
    /\ Before(w, {"published"})
    /\ Move(w, "vision", "published")

Next == \E w \in Waves :
    Start(w) \/ Gather(w) \/ Seal(w) \/ EnterVision(w) \/ Freeze(w)
        \/ Assign(w) \/ Publish(w) \/ PublishNothing(w)

Spec == Init /\ [][Next]_vars
=============================================================================
