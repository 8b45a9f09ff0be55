----------------------------- MODULE FlowPromise -----------------------------
(***************************************************************************)
(* What the movie flow promises its owner, without stages, attempts,       *)
(* processes or files: one run at a time; its movies settled one by one in *)
(* the order of recommendation, each acquired or skipped; a run that ends  *)
(* by itself has settled every movie it found; a blocked run moves only    *)
(* when its operator resumes, acknowledges or clears it.                   *)
(***************************************************************************)
EXTENDS Integers

CONSTANT Target   \* how many movies a run may recommend

VARIABLES
    round,     \* how many runs were begun
    phase,     \* of the newest run: idle, open, blocked, ended or cleared
    size,      \* how many movies it found, 0 until it knows
    settled,   \* how many of them are acquired or skipped
    acquired   \* the ranks of the acquired ones

promise == <<round, phase, size, settled, acquired>>

Init == /\ round = 0
        /\ phase = "idle"
        /\ size = 0
        /\ settled = 0
        /\ acquired = {}

Begin == /\ phase \in {"idle", "ended", "cleared"}
         /\ round' = round + 1
         /\ phase' = "open"
         /\ size' = 0 /\ settled' = 0 /\ acquired' = {}

Plan == /\ phase = "open" /\ size = 0
        /\ size' \in 1..Target
        /\ UNCHANGED <<round, phase, settled, acquired>>

\* The next movie in order is settled; the last one ends the run with it.
Settle(gained) ==
    /\ settled < size
    /\ settled' = settled + 1
    /\ acquired' = IF gained THEN acquired \cup {settled + 1} ELSE acquired
    /\ phase' = IF settled + 1 = size THEN "ended" ELSE "open"
    /\ UNCHANGED <<round, size>>

SettleNext == phase = "open" /\ \E gained \in BOOLEAN : Settle(gained)

\* Only a cleanup that was left over can be acknowledged, so the movie counts.
Acknowledge == phase = "blocked" /\ Settle(TRUE)

Block == /\ phase = "open"
         /\ phase' = "blocked"
         /\ UNCHANGED <<round, size, settled, acquired>>

Unblock == /\ phase = "blocked"
           /\ phase' = "open"
           /\ UNCHANGED <<round, size, settled, acquired>>

\* A run that found no movie to settle has nothing left to do.
Conclude == /\ phase = "open" /\ size = 0
            /\ phase' = "ended"
            /\ UNCHANGED <<round, size, settled, acquired>>

\* An operator gives the rest of the run up.
Abandon == /\ phase \in {"open", "blocked"}
           /\ phase' = "cleared"
           /\ UNCHANGED <<round, size, settled, acquired>>

Next == Begin \/ Plan \/ SettleNext \/ Acknowledge \/ Block \/ Unblock \/ Conclude \/ Abandon

Spec == Init /\ [][Next]_promise
=============================================================================
