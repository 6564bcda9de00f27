---------------------------- MODULE LoadService ----------------------------
(***************************************************************************)
(* What the object loaders of one queue promise the application that sends *)
(* them.  A load waits for one of Limit places, holds it until its         *)
(* delegate has been told how it ended or it has been withdrawn, and then  *)
(* is over for good.  Its delegate is told once; objects are reported only *)
(* by a load that holds its place, and, where there is a store to keep     *)
(* them, only after their load is settled there.                           *)
(*                                                                         *)
(* The promise has an end: from the first load that fails while it is      *)
(* mapped the service is unreliable, and little of it is left.             *)
(***************************************************************************)
EXTENDS Naturals, FiniteSets

CONSTANTS
    Loaders,
    Limit,
    Managed      \* loads whose objects are kept in a store

VARIABLES
    waiting,     \* loads that wait for a place
    active,      \* loads that hold one
    over,        \* loads that have ended
    heard,       \* what the delegate of each load has been told
    withdrawn,   \* loads the application has cancelled
    settled,     \* loads whose objects are saved, or need not be
    unreliable   \* a load has failed while it was mapped

vars == <<waiting, active, over, heard, withdrawn, settled, unreliable>>

Outcomes == {"nothing", "loaded", "failed"}

Init ==
    /\ waiting = {} /\ active = {} /\ over = {}
    /\ heard = [l \in Loaders |-> "nothing"]
    /\ withdrawn = {} /\ settled = {}
    /\ unreliable = FALSE

Send(l) ==
    /\ l \notin waiting \cup active \cup over
    /\ waiting' = waiting \cup {l}
    /\ UNCHANGED <<active, over, heard, withdrawn, settled>>

\* The load takes a place; it may be refused at once.
Begin(l) ==
    /\ l \in waiting \ withdrawn
    /\ heard[l] = "nothing"
    /\ Cardinality(active) < Limit
    /\ waiting' = waiting \ {l}
    /\ active' = active \cup {l}
    /\ \E o \in {"nothing", "failed"} : heard' = [heard EXCEPT ![l] = o]
    /\ UNCHANGED <<over, withdrawn, settled>>

Settle(l) ==
    /\ l \in Managed \cap (active \cup over)
    /\ settled' = settled \cup {l}
    /\ UNCHANGED <<waiting, active, over, heard, withdrawn>>

ReportObjects(l) ==
    /\ l \in active \ withdrawn
    /\ heard[l] = "nothing"
    /\ l \in Managed => l \in settled
    /\ heard' = [heard EXCEPT ![l] = "loaded"]
    /\ UNCHANGED <<waiting, active, over, withdrawn, settled>>

\* A failure may still be reported to who has withdrawn the load meanwhile.
ReportFailure(l) ==
    /\ l \in active \cup over
    /\ heard[l] = "nothing"
    /\ heard' = [heard EXCEPT ![l] = "failed"]
    /\ UNCHANGED <<waiting, active, over, withdrawn, settled>>

\* No load gives its place back without a word, unless it was withdrawn.
Leave(l) ==
    /\ l \in active
    /\ heard[l] # "nothing" \/ l \in withdrawn
    /\ active' = active \ {l}
    /\ over' = over \cup {l}
    /\ UNCHANGED <<waiting, heard, withdrawn, settled>>

\* A load that waits is over at once; one that holds a place has to give it back.
Withdraw(l) ==
    /\ withdrawn' = withdrawn \cup {l}
    /\ \/ /\ l \in waiting
          /\ waiting' = waiting \ {l}
          /\ over' = over \cup {l}
       \/ /\ l \in active
          /\ UNCHANGED <<waiting, over>>
    /\ UNCHANGED <<active, heard, settled>>

Reliable ==
    /\ ~unreliable
    /\ UNCHANGED unreliable
    /\ \E l \in Loaders :
          \/ Send(l) \/ Begin(l) \/ Settle(l) \/ ReportObjects(l)
          \/ ReportFailure(l) \/ Leave(l) \/ Withdraw(l)

\* What is left once it is unreliable: what is over, withdrawn or settled
\* remains so, and objects are reported only of settled loads.
Unreliable ==
    /\ unreliable' = TRUE
    /\ over \subseteq over'
    /\ withdrawn \subseteq withdrawn'
    /\ settled \subseteq settled'
    /\ heard' \in [Loaders -> Outcomes]
    /\ \A l \in Managed :
          heard'[l] = "loaded" => heard[l] = "loaded" \/ l \in settled

Next == Reliable \/ Unreliable

Spec == Init /\ [][Next]_vars
=============================================================================
