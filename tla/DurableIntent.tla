---------------------------- MODULE DurableIntent ----------------------------
(* What a durable maintenance intent promises the code that asks for it,      *)
(* without queues, leases, attempts or timers: a change that was asked for is *)
(* published, or the intent is given up and says so, and an intent is put     *)
(* away only when nothing that was asked for is missing from the index.       *)
EXTENDS Naturals

VARIABLES
    asked,     \* the newest change of the source whose request has returned
    built,     \* the newest change a published index is known to contain
    status     \* "none", "pending" or "failed"

intentVars == <<asked, built, status>>

Statuses == {"none", "pending", "failed"}

IntentInit == asked = 0 /\ built = 0 /\ status = "none"

(* A request of an edit.  One request may cover several changes, it revives   *)
(* an intent that was given up or leaves it so, and it may leave a pending    *)
(* intent as it is.                                                           *)
Ask ==
    /\ asked' > asked
    /\ status' \in {"pending", "failed"}
    /\ status' = "failed" => status = "failed"
    /\ UNCHANGED built

(* A request that no new change is behind: the recovery of a lost intent.     *)
Remind ==
    /\ status' = "pending"
    /\ UNCHANGED <<asked, built>>

(* A publication.  It may contain changes nobody has asked for yet.           *)
Publish ==
    /\ built' > built
    /\ UNCHANGED <<asked, status>>

(* The intent is put away.                                                    *)
Settle ==
    /\ status = "pending"
    /\ built >= asked
    /\ status' = "none"
    /\ UNCHANGED <<asked, built>>

(* The intent is given up, in a state that shows it.                          *)
GiveUp ==
    /\ status = "pending"
    /\ status' = "failed"
    /\ UNCHANGED <<asked, built>>

IntentNext == Ask \/ Remind \/ Publish \/ Settle \/ GiveUp

IntentSpec == IntentInit /\ [][IntentNext]_intentVars
=============================================================================
