--------------------------- MODULE RequestService ---------------------------
(***************************************************************************)
(* What a request queue promises the code that sends through it, with the  *)
(* counter, the timers, suspension, background policies and notifications  *)
(* of RKRequestQueue hidden: requests stand in one line in the order they  *)
(* were submitted, the first one that is not being served is served next,  *)
(* at most Limit are served at a time, and a request that left the line    *)
(* never comes back.                                                       *)
(***************************************************************************)
EXTENDS Integers, FiniteSets, SequencesExt

CONSTANTS Requests,   \* the requests that may be submitted
          Limit       \* how many may be served at a time

VARIABLES line,       \* submitted requests that have not left, oldest first
          active,     \* those of them that are being served
          left        \* the requests that have left the line

vars == <<line, active, left>>

Init == line = <<>> /\ active = {} /\ left = {}

\* i is the position of the oldest request that is not being served.
IsHead(i) ==
    /\ i \in DOMAIN line
    /\ line[i] \notin active
    /\ \A j \in 1 .. i - 1 : line[j] \in active

Join(r) ==
    /\ r \notin Range(line) \cup left
    /\ line' = Append(line, r)
    /\ UNCHANGED <<active, left>>

Begin(i) ==
    /\ IsHead(i)
    /\ Cardinality(active) < Limit
    /\ active' = active \cup {line[i]}
    /\ UNCHANGED <<line, left>>

\* Service is interrupted: the request keeps its place in the line.
PutBack(r) ==
    /\ r \in active
    /\ active' = active \ {r}
    /\ UNCHANGED <<line, left>>

\* A request is answered, refused or withdrawn.
Leave(i) ==
    /\ i \in DOMAIN line
    /\ line' = RemoveAt(line, i)
    /\ active' = active \ {line[i]}
    /\ left' = left \cup {line[i]}

Clear ==
    /\ line' = <<>>
    /\ active' = {}
    /\ left' = left \cup Range(line)

Next ==
    \/ \E r \in Requests : Join(r) \/ PutBack(r)
    \/ \E i \in DOMAIN line : Begin(i) \/ Leave(i)
    \/ Clear

Spec == Init /\ [][Next]_vars
=============================================================================
