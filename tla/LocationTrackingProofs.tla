----------------------- MODULE LocationTrackingProofs -----------------------
(***************************************************************************)
(* Theorems about LocationTracking, for any number of positions, requests  *)
(* of other screens, trips and places.                                     *)
(*                                                                         *)
(* Two inductive invariants carry them.  QueueInv says which requests wait *)
(* and which hold a place, and that a location which waits was late or     *)
(* has its body; ScreenInv ties the two buttons, the chooser and the       *)
(* manager together.  Neither needs the other.                             *)
(***************************************************************************)
EXTENDS LocationTracking, FiniteSetTheorems, TLAPS

-----------------------------------------------------------------------------
(* The inductive invariants.                                               *)

\* The types of the queue's variables.
QueueTypes ==
    /\ suspended \in BOOLEAN /\ background \in BOOLEAN
    /\ reach \in Hosts \cup {"undetermined"}
    /\ waiting \subseteq Requests /\ loading \subseteq Requests
    /\ waiting \cap loading = {}
    /\ count \in 0 .. Limit
    /\ reported \subseteq Locations /\ late \subseteq Locations
    /\ built \subseteq Locations /\ stale \subseteq Locations
    /\ leaked \in Nat

\* The array is finite and holds no location that was not reported; what is
\* sent has its body, and what is unsent has it too or was late.
ArrayInv ==
    /\ IsFiniteSet(waiting) /\ IsFiniteSet(loading)
    /\ (waiting \cup loading) \cap Locations \subseteq reported
    /\ loading \cap Locations \subseteq built
    /\ waiting \cap Locations \subseteq late \cup built

QueueInv ==
    /\ QueueTypes
    /\ ArrayInv
    /\ OnlyLateLocationsAreStale
    /\ PlacesAccountedFor

\* The types of the screens' variables.
ScreenTypes ==
    /\ screen \in Screens
    /\ trip \in Trips \cup {NoTrip}
    /\ visible \in BOOLEAN /\ loaded \in BOOLEAN
    /\ stopShown \in BOOLEAN /\ tripEnabled \in BOOLEAN /\ running \in BOOLEAN
    /\ mapClosed \in BOOLEAN /\ forgotten \in BOOLEAN

\* The buttons exclude each other, and the chooser is open only without Stop.
ButtonInv ==
    /\ ~(stopShown /\ tripEnabled)
    /\ ~(stopShown /\ screen = "chooser")

ScreenInv ==
    /\ ScreenTypes
    /\ ButtonInv
    /\ ManagerFollowsButtons

-----------------------------------------------------------------------------
(* The queue.                                                              *)

\* The empty queue of a program that has just been launched.
LEMMA EmptyQueue == IsFiniteSet({}) /\ Cardinality({}) = 0
  BY FS_EmptySet

\* What loadNextInQueue keeps, whatever it is called with: k places are lost.
LEMMA LoadNextKeeps ==
    ASSUME NEW q \in SUBSET Requests, NEW active \in SUBSET Requests,
           NEW c \in 0 .. Limit, NEW k \in Nat, NEW fresh,
           q \cap active = {}, IsFiniteSet(q), IsFiniteSet(active),
           c = Cardinality(active) + k, stale \subseteq Locations, built \subseteq Locations,
           active \cap Locations \subseteq built,
           LoadNextInQueue(q, active, c, fresh)
    PROVE  /\ waiting' \subseteq q
           /\ loading' \subseteq q \cup active
           /\ waiting' \cap loading' = {}
           /\ IsFiniteSet(waiting') /\ IsFiniteSet(loading')
           /\ count' \in 0 .. Limit
           /\ count' = Cardinality(loading') + k
           /\ stale' \subseteq stale \cup ((q \cap Locations) \ (fresh \cup built))
           /\ built \subseteq built' /\ built' \subseteq Locations
           /\ loading' \cap Locations \subseteq built'
  <1>0. Limit \in Nat /\ Cardinality(active) \in Nat
    BY TrackingAssumption, FS_CardinalityType
  <1>1. CASE suspended' /\ waiting' = q /\ loading' = active /\ count' = c
             /\ UNCHANGED <<built, stale>>
    BY <1>0, <1>1
  <1>2. CASE ~suspended' /\ reach' = "unreachable"
             /\ waiting' = (IF c < Limit THEN {} ELSE q)
             /\ loading' = active /\ count' = c /\ UNCHANGED <<built, stale>>
    BY <1>0, <1>2, EmptyQueue
  <1>3. ASSUME NEW s \in Batches(q, c), waiting' = q \ s,
               loading' = active \cup s, count' = c + Cardinality(s),
               built' = built \cup (s \cap Locations),
               stale' = stale \cup ((s \cap Locations) \ (fresh \cup built))
        PROVE  /\ waiting' \subseteq q
               /\ loading' \subseteq q \cup active
               /\ waiting' \cap loading' = {}
               /\ IsFiniteSet(waiting') /\ IsFiniteSet(loading')
               /\ count' \in 0 .. Limit
               /\ count' = Cardinality(loading') + k
               /\ stale' \subseteq stale \cup ((q \cap Locations) \ (fresh \cup built))
               /\ built \subseteq built' /\ built' \subseteq Locations
               /\ loading' \cap Locations \subseteq built'
    <2>1. s \subseteq q /\ c + Cardinality(s) <= Limit
      BY DEF Batches
    <2>2. IsFiniteSet(s) /\ IsFiniteSet(q \ s)
      BY <2>1, FS_Subset, q \ s \subseteq q
    <2>3. Cardinality(s) \in Nat
      BY <2>2, FS_CardinalityType
    <2>4. active \cap s = {}
      BY <2>1
    <2>5. IsFiniteSet(active \cup s) /\ Cardinality(active \cup s)
                = Cardinality(active) + Cardinality(s) - Cardinality(active \cap s)
      BY <2>2, FS_Union
    <2>6. Cardinality(active \cup s) = Cardinality(active) + Cardinality(s)
      <3>1. Cardinality(active \cap s) = 0
        BY <2>4, EmptyQueue
      <3> QED BY <1>0, <2>3, <2>5, <3>1
    <2>7. count' \in 0 .. Limit /\ count' = Cardinality(loading') + k
      BY <1>0, <1>3, <2>1, <2>3, <2>6
    <2> QED BY <1>3, <2>1, <2>2, <2>4, <2>5, <2>7
  <1> QED BY <1>1, <1>2, <1>3 DEF LoadNextInQueue

\* Only requests the queue already knew, all of them late or built if they
\* are locations: nothing of the invariant breaks.
LEMMA QueueStep ==
    ASSUME QueueInv, NEW q \in SUBSET Requests, NEW active \in SUBSET Requests,
           NEW c \in 0 .. Limit,
           q \cap active = {}, IsFiniteSet(q), IsFiniteSet(active),
           c = Cardinality(active) + leaked,
           active \cap Locations \subseteq built,
           q \cap Locations \subseteq late \cup built,
           (q \cup active) \cap Locations \subseteq reported,
           suspended' \in BOOLEAN, background' \in BOOLEAN,
           reach' \in Hosts \cup {"undetermined"},
           LoadNextInQueue(q, active, c, {}),
           UNCHANGED <<reported, late, leaked>>
    PROVE  QueueInv'
  <1>1. leaked \in Nat /\ stale \subseteq Locations
        /\ stale \subseteq late /\ built \subseteq Locations
    BY DEF QueueInv, QueueTypes, OnlyLateLocationsAreStale
  <1>2. /\ waiting' \subseteq q
        /\ loading' \subseteq q \cup active
        /\ waiting' \cap loading' = {}
        /\ IsFiniteSet(waiting') /\ IsFiniteSet(loading')
        /\ count' \in 0 .. Limit
        /\ count' = Cardinality(loading') + leaked
        /\ stale' \subseteq stale \cup ((q \cap Locations) \ ({} \cup built))
        /\ built \subseteq built' /\ built' \subseteq Locations
        /\ loading' \cap Locations \subseteq built'
    BY <1>1, LoadNextKeeps
  <1>3. QueueTypes'
    BY <1>1, <1>2 DEF QueueInv, QueueTypes
  <1>4. ArrayInv'
    BY <1>1, <1>2 DEF ArrayInv
  <1>5. OnlyLateLocationsAreStale' /\ PlacesAccountedFor'
    BY <1>1, <1>2 DEF OnlyLateLocationsAreStale, PlacesAccountedFor
  <1> QED BY <1>3, <1>4, <1>5 DEF QueueInv

\* Steps of the screens leave the queue alone.
LEMMA QueueRests ==
    QueueInv /\ UNCHANGED <<background, queueVars, historyVars>> => QueueInv'
  BY DEF QueueInv, QueueTypes, ArrayInv, OnlyLateLocationsAreStale,
         PlacesAccountedFor, queueVars, historyVars

\* Init establishes QueueInv.
LEMMA QueueInitially == Init => QueueInv
  <1> SUFFICES ASSUME Init PROVE QueueInv
    OBVIOUS
  <1>1. Limit \in Nat
    BY TrackingAssumption
  <1>2. QueueTypes
    <2>1. count \in 0 .. Limit /\ leaked \in Nat
      BY <1>1 DEF Init
    <2> QED BY <2>1 DEF Init, QueueTypes, Hosts
  <1>3. ArrayInv
    BY EmptyQueue DEF Init, ArrayInv
  <1>4. OnlyLateLocationsAreStale /\ PlacesAccountedFor
    BY EmptyQueue DEF Init, OnlyLateLocationsAreStale, PlacesAccountedFor
  <1> QED BY <1>2, <1>3, <1>4 DEF QueueInv

\* Every step keeps QueueInv.
LEMMA QueuePreserved == QueueInv /\ [Next]_vars => QueueInv'
  <1> SUFFICES ASSUME QueueInv, [Next]_vars
               PROVE  QueueInv'
    OBVIOUS
  <1>0. /\ Limit \in Nat /\ QueueTypes /\ ArrayInv
        /\ stale \subseteq late /\ built \subseteq Locations
        /\ count = Cardinality(loading) + leaked
        /\ Cardinality(loading) \in Nat
    BY TrackingAssumption, FS_CardinalityType
       DEF QueueInv, QueueTypes, ArrayInv, OnlyLateLocationsAreStale, PlacesAccountedFor
  <1>1. CASE TimerFires
    BY <1>0, <1>1, QueueStep DEF TimerFires, QueueTypes, ArrayInv
  <1>2. ASSUME NEW r \in Requests, Finish(r)
        PROVE  QueueInv'
    <2>1. IsFiniteSet(loading \ {r})
          /\ Cardinality(loading \ {r}) = Cardinality(loading) - 1
      BY <1>0, <1>2, FS_RemoveElement DEF Finish, ArrayInv
    <2>2. Cardinality(loading \ {r}) \in Nat
      BY <2>1, FS_CardinalityType
    <2>3. count - 1 = Cardinality(loading \ {r}) + leaked
          /\ count - 1 \in 0 .. Limit
      BY <1>0, <2>1, <2>2 DEF QueueTypes
    <2>4. /\ waiting \in SUBSET Requests /\ loading \ {r} \in SUBSET Requests
          /\ waiting \cap (loading \ {r}) = {}
          /\ waiting \cap Locations \subseteq late \cup built
          /\ (waiting \cup (loading \ {r})) \cap Locations \subseteq reported
          /\ (loading \ {r}) \cap Locations \subseteq built
          /\ IsFiniteSet(waiting)
      BY <1>0 DEF QueueTypes, ArrayInv
    <2>5. /\ suspended' \in BOOLEAN /\ background' \in BOOLEAN
          /\ reach' \in Hosts \cup {"undetermined"}
          /\ LoadNextInQueue(waiting, loading \ {r}, count - 1, {})
          /\ UNCHANGED <<reported, late, leaked>>
      BY <1>0, <1>2 DEF Finish, QueueTypes
    <2> QED BY <2>1, <2>3, <2>4, <2>5, QueueStep
  <1>3. ASSUME NEW o \in Others, SendOther(o)
        PROVE  QueueInv'
    <2>1. IsFiniteSet(waiting \cup {o})
      BY <1>0, FS_AddElement DEF ArrayInv
    <2>2. o \notin Locations /\ o \in Requests
      BY TrackingAssumption DEF Requests
    <2>3. /\ waiting \cup {o} \in SUBSET Requests /\ loading \in SUBSET Requests
          /\ (waiting \cup {o}) \cap loading = {}
          /\ (waiting \cup {o}) \cap Locations \subseteq late \cup built
          /\ ((waiting \cup {o}) \cup loading) \cap Locations \subseteq reported
          /\ loading \cap Locations \subseteq built
          /\ IsFiniteSet(loading) /\ count \in 0 .. Limit
      BY <1>0, <1>3, <2>2 DEF SendOther, QueueTypes, ArrayInv
    <2>4. /\ suspended' \in BOOLEAN /\ background' \in BOOLEAN
          /\ reach' \in Hosts \cup {"undetermined"}
          /\ LoadNextInQueue(waiting \cup {o}, loading, count, {})
          /\ UNCHANGED <<reported, late, leaked>>
      BY <1>0, <1>3 DEF SendOther, QueueTypes
    <2> QED BY <1>0, <2>1, <2>3, <2>4, QueueStep
  <1>4. ASSUME NEW l \in Locations, Expire(l)
        PROVE  QueueInv'
    <2>1. /\ l \in loading /\ loading' = loading \ {l}
          /\ waiting' = waiting \cup {l}
          /\ leaked' = leaked + 1
          /\ UNCHANGED <<background, suspended, reach, count, built, reported,
                         late, stale>>
      BY <1>4 DEF Expire
    <2>2. IsFiniteSet(loading') /\ Cardinality(loading') = Cardinality(loading) - 1
      BY <1>0, <2>1, FS_RemoveElement DEF ArrayInv
    <2>3. IsFiniteSet(waiting')
      BY <1>0, <2>1, FS_AddElement DEF ArrayInv
    <2>4. QueueTypes'
      BY <1>0, <2>1 DEF QueueTypes, Requests
    <2>5. ArrayInv'
      BY <1>0, <2>1, <2>2, <2>3 DEF ArrayInv
    <2>6. OnlyLateLocationsAreStale'
      BY <1>0, <2>1 DEF OnlyLateLocationsAreStale
    <2>7. PlacesAccountedFor'
      BY <1>0, <2>1, <2>2 DEF PlacesAccountedFor, QueueTypes
    <2> QED BY <2>4, <2>5, <2>6, <2>7 DEF QueueInv
  <1>5. ASSUME NEW v \in Hosts, ReachabilityChanged(v)
        PROVE  QueueInv'
    <2>1. CASE reach = "undetermined"
      BY <1>0, <1>5, <2>1, QueueStep
         DEF ReachabilityChanged, QueueTypes, ArrayInv
    <2>2. CASE reach # "undetermined"
      BY <1>0, <1>5, <2>2
         DEF ReachabilityChanged, QueueInv, QueueTypes, ArrayInv,
             OnlyLateLocationsAreStale, PlacesAccountedFor
    <2> QED BY <2>1, <2>2
  <1>6. CASE EnterBackground
    BY <1>0, <1>6 DEF EnterBackground, historyVars, QueueInv, QueueTypes,
       ArrayInv, OnlyLateLocationsAreStale, PlacesAccountedFor
  <1>7. CASE EnterForeground
    BY <1>0, <1>7, QueueStep DEF EnterForeground, QueueTypes, ArrayInv
  <1>8. ASSUME NEW l \in Locations, LocationUpdated(l)
        PROVE  QueueInv'
    <2> DEFINE q == waiting \cup {l}
               unready == suspended \/ waiting # {} \/ count = Limit
    <2>1. /\ l \notin reported /\ reported' = reported \cup {l}
          /\ late' = IF unready THEN late \cup {l} ELSE late
          /\ LoadNextInQueue(q, loading, count, {l})
          /\ UNCHANGED <<background, suspended, reach, leaked>>
      BY <1>8 DEF LocationUpdated
    <2>2. IsFiniteSet(q)
      BY <1>0, FS_AddElement DEF ArrayInv
    <2>3. l \in Requests /\ l \notin waiting \cup loading
      BY <1>0, <2>1 DEF Requests, ArrayInv
    <2>4. /\ q \in SUBSET Requests /\ loading \in SUBSET Requests
          /\ q \cap loading = {} /\ IsFiniteSet(loading)
          /\ count \in 0 .. Limit /\ leaked \in Nat /\ stale \subseteq Locations
          /\ loading \cap Locations \subseteq built
      BY <1>0, <2>3 DEF QueueTypes, ArrayInv
    <2>5. /\ waiting' \subseteq q
          /\ loading' \subseteq q \cup loading
          /\ waiting' \cap loading' = {}
          /\ IsFiniteSet(waiting') /\ IsFiniteSet(loading')
          /\ count' \in 0 .. Limit
          /\ count' = Cardinality(loading') + leaked
          /\ stale' \subseteq stale \cup ((q \cap Locations) \ ({l} \cup built))
          /\ built \subseteq built' /\ built' \subseteq Locations
          /\ loading' \cap Locations \subseteq built'
      <3> HIDE DEF q
      <3> QED BY <1>0, <2>1, <2>2, <2>4, LoadNextKeeps
    <2>6. ASSUME ~unready
          PROVE  waiting' = {}
      <3>1. q = {l} /\ ~suspended' /\ count # Limit
        BY <2>1, <2>6
      <3>2. CASE reach' = "unreachable"
        BY <1>0, <2>1, <2>4, <3>1, <3>2 DEF LoadNextInQueue
      <3>3. ASSUME NEW s \in Batches(q, count), waiting' = q \ s
            PROVE  waiting' = {}
        <4>1. s = {} \/ s = {l}
          BY <3>1 DEF Batches
        <4>2. s # {}
          BY <2>4, <3>1, EmptyQueue DEF Batches
        <4> QED BY <3>1, <3>3, <4>1, <4>2
      <3> QED BY <2>1, <3>1, <3>2, <3>3 DEF LoadNextInQueue
    <2>7. waiting' \cap Locations \subseteq late' \cup built'
      <3>1. CASE unready
        BY <1>0, <2>1, <2>5, <3>1 DEF ArrayInv
      <3>2. CASE ~unready
        BY <2>6, <3>2
      <3> QED BY <3>1, <3>2
    <2>8. QueueTypes'
      BY <1>0, <2>1, <2>3, <2>4, <2>5 DEF QueueTypes
    <2>9. ArrayInv'
      BY <1>0, <2>1, <2>5, <2>7 DEF ArrayInv
    <2>10. OnlyLateLocationsAreStale'
      BY <1>0, <2>1, <2>5 DEF OnlyLateLocationsAreStale, ArrayInv
    <2>11. PlacesAccountedFor'
      BY <2>1, <2>5 DEF PlacesAccountedFor
    <2> QED BY <2>8, <2>9, <2>10, <2>11 DEF QueueInv
  <1>9. CASE Relaunch
    <2>1. QueueTypes'
      <3>1. count' \in 0 .. Limit /\ leaked' \in Nat
        BY <1>0, <1>9 DEF Relaunch
      <3> QED BY <1>0, <1>9, <3>1 DEF Relaunch, QueueTypes, Hosts
    <2>2. ArrayInv'
      BY <1>9, EmptyQueue DEF Relaunch, ArrayInv
    <2>3. OnlyLateLocationsAreStale' /\ PlacesAccountedFor'
      BY <1>0, <1>9, EmptyQueue
         DEF Relaunch, OnlyLateLocationsAreStale, PlacesAccountedFor
    <2> QED BY <2>1, <2>2, <2>3 DEF QueueInv
  <1>10. CASE \/ SwitchTab \/ SelectTripPressed \/ MapPressed \/ Back
              \/ TrackPressed \/ StopPressed \/ MemoryWarning
              \/ \E t \in Trips : TripChosen(t)
    BY <1>10, QueueRests DEF SwitchTab, SelectTripPressed, MapPressed, Back,
       TrackPressed, StopPressed, MemoryWarning, TripChosen
  <1>11. CASE UNCHANGED vars
    BY <1>11, QueueRests DEF vars
  <1> QED BY <1>1, <1>2, <1>3, <1>4, <1>5, <1>6, <1>7, <1>8, <1>9, <1>10, <1>11
          DEF Next, UserActs

\* QueueInv always holds.
LEMMA QueueAlways == Spec => []QueueInv
  BY QueueInitially, QueuePreserved, PTL DEF Spec

-----------------------------------------------------------------------------
(* The screens.                                                            *)

\* Another screen on the tab, or another tab: the manager follows the map.
LEMMA ShowKeeps ==
    ASSUME ScreenInv, NEW s \in Screens, NEW v \in BOOLEAN, Show(s, v),
           s = "chooser" => screen = "chooser" \/ tripEnabled,
           trip' \in Trips \cup {NoTrip}
    PROVE  ScreenInv'
  <1> DEFINE mapOn == v /\ s = "map"
             load  == v /\ s = "tracker" /\ ~loaded
  <1>1. /\ screen' = s /\ visible' = v
        /\ running' = (IF mapOn # MapOn THEN mapOn ELSE running)
        /\ loaded' = (loaded \/ load)
        /\ stopShown' = (stopShown /\ ~load)
        /\ tripEnabled' = (tripEnabled \/ load)
        /\ mapClosed' = (mapClosed \/ (MapOn /\ ~mapOn))
        /\ forgotten' = (running' /\ (forgotten \/ load))
    BY DEF Show, ManagerAfter
  <1>2. /\ visible \in BOOLEAN /\ loaded \in BOOLEAN /\ stopShown \in BOOLEAN
        /\ tripEnabled \in BOOLEAN /\ running \in BOOLEAN
        /\ mapClosed \in BOOLEAN /\ forgotten \in BOOLEAN
        /\ ~(stopShown /\ tripEnabled)
        /\ ~(stopShown /\ screen = "chooser")
        /\ (running /\ ~stopShown => MapOn \/ forgotten)
        /\ (stopShown /\ ~running => mapClosed)
    BY DEF ScreenInv, ScreenTypes, ButtonInv, ManagerFollowsButtons
  <1>3. MapOn \in BOOLEAN /\ mapOn \in BOOLEAN /\ load \in BOOLEAN
    BY <1>2 DEF MapOn
  <1>4. MapOn' <=> mapOn
    BY <1>1 DEF MapOn
  <1>5. ScreenTypes'
    BY <1>1, <1>2, <1>3 DEF ScreenTypes
  <1>6. ButtonInv'
    BY <1>1, <1>2 DEF ButtonInv
  <1>7. ManagerFollowsButtons'
    <2>1. CASE mapOn # MapOn
      BY <1>1, <1>2, <1>3, <1>4, <2>1 DEF ManagerFollowsButtons
    <2>2. CASE mapOn = MapOn
      <3>1. running' = running
        BY <1>1, <2>2
      <3>2. mapClosed' = mapClosed
        BY <1>1, <1>2, <1>3, <2>2
      <3>3. ASSUME running', ~stopShown'
            PROVE  MapOn' \/ forgotten'
        BY <1>1, <1>2, <1>3, <1>4, <2>2, <3>1, <3>3
      <3>4. ASSUME stopShown', ~running'
            PROVE  mapClosed'
        BY <1>1, <1>2, <3>1, <3>2, <3>4
      <3> QED BY <3>3, <3>4 DEF ManagerFollowsButtons
    <2> QED BY <2>1, <2>2
  <1> QED BY <1>5, <1>6, <1>7 DEF ScreenInv

\* Steps of the queue leave the screens alone.
LEMMA ScreenRests ==
    ScreenInv /\ UNCHANGED <<screenVars, trip, buttonVars>> => ScreenInv'
  BY DEF ScreenInv, ScreenTypes, ButtonInv, ManagerFollowsButtons, MapOn,
         screenVars, buttonVars

\* Init establishes ScreenInv.
LEMMA ScreenInitially == Init => ScreenInv
  BY DEF Init, ScreenInv, ScreenTypes, Screens, ButtonInv,
         ManagerFollowsButtons, MapOn

\* Every step keeps ScreenInv.
LEMMA ScreenPreserved == ScreenInv /\ [Next]_vars => ScreenInv'
  <1> SUFFICES ASSUME ScreenInv, [Next]_vars
               PROVE  ScreenInv'
    OBVIOUS
  <1>0. /\ screen \in Screens /\ visible \in BOOLEAN
        /\ trip \in Trips \cup {NoTrip}
        /\ "tracker" \in Screens /\ "chooser" \in Screens /\ "map" \in Screens
    BY DEF ScreenInv, ScreenTypes, Screens
  <1>1. CASE SwitchTab
    <2>1. (~visible) \in BOOLEAN /\ trip' = trip /\ Show(screen, ~visible)
      BY <1>1 DEF SwitchTab
    <2> QED BY <1>0, <2>1, ShowKeeps
  <1>2. CASE SelectTripPressed
    BY <1>0, <1>2, ShowKeeps DEF SelectTripPressed
  <1>3. ASSUME NEW t \in Trips, TripChosen(t)
        PROVE  ScreenInv'
    <2>1. trip' \in Trips \cup {NoTrip} /\ Show("tracker", TRUE)
      BY <1>0, <1>3 DEF TripChosen
    <2> QED BY <1>0, <2>1, ShowKeeps
  <1>4. CASE MapPressed
    BY <1>0, <1>4, ShowKeeps DEF MapPressed
  <1>5. CASE Back
    BY <1>0, <1>5, ShowKeeps DEF Back
  <1>6. CASE MemoryWarning
    BY <1>6 DEF MemoryWarning, ScreenInv, ScreenTypes, ButtonInv,
       ManagerFollowsButtons, MapOn, buttonVars
  <1>7. CASE TrackPressed
    BY <1>7 DEF TrackPressed, On, ScreenInv, ScreenTypes, ButtonInv,
       ManagerFollowsButtons, MapOn, screenVars
  <1>8. CASE StopPressed
    BY <1>8 DEF StopPressed, ScreenInv, ScreenTypes, ButtonInv,
       ManagerFollowsButtons, MapOn, screenVars
  <1>9. CASE Relaunch
    BY <1>9 DEF Relaunch, ScreenInv, ScreenTypes, Screens, ButtonInv,
       ManagerFollowsButtons, MapOn
  <1>10. CASE \/ \E o \in Others : SendOther(o)
              \/ \E l \in Locations : LocationUpdated(l) \/ Expire(l)
              \/ \E r \in Requests : Finish(r)
              \/ TimerFires
              \/ \E v \in Hosts : ReachabilityChanged(v)
              \/ EnterBackground \/ EnterForeground
    BY <1>10, ScreenRests DEF SendOther, LocationUpdated, Expire, Finish,
       TimerFires, ReachabilityChanged, EnterBackground, EnterForeground
  <1>11. CASE UNCHANGED vars
    BY <1>11, ScreenRests DEF vars
  <1> QED BY <1>1, <1>2, <1>3, <1>4, <1>5, <1>6, <1>7, <1>8, <1>9, <1>10, <1>11
          DEF Next, UserActs

\* ScreenInv always holds.
LEMMA ScreenAlways == Spec => []ScreenInv
  BY ScreenInitially, ScreenPreserved, PTL DEF Spec

-----------------------------------------------------------------------------
(* The theorems.                                                           *)

\* The type invariant; in particular never more than Limit places are taken.
THEOREM TypeCorrect == Spec => []TypeOK
  <1>1. QueueInv /\ ScreenInv => TypeOK
    BY DEF QueueInv, QueueTypes, ScreenInv, ScreenTypes, TypeOK
  <1> QED BY <1>1, QueueAlways, ScreenAlways, PTL

\* The location manager runs and rests as the buttons say, up to the two
\* exceptions ManagerFollowsButtons names: the map and the reloaded tracker.
THEOREM ManagerIsExplained == Spec => []ManagerFollowsButtons
  <1>1. ScreenInv => ManagerFollowsButtons
    BY DEF ScreenInv
  <1> QED BY <1>1, ScreenAlways, PTL

\* Only a location that was late is sent as it is after its deletion.
THEOREM InTimeIsNeverStale == Spec => []OnlyLateLocationsAreStale
  <1>1. QueueInv => OnlyLateLocationsAreStale
    BY DEF QueueInv
  <1> QED BY <1>1, QueueAlways, PTL

\* Every place of the queue is in use or was lost to an expired task.
THEOREM PlacesAreAccountedFor == Spec => []PlacesAccountedFor
  <1>1. QueueInv => PlacesAccountedFor
    BY DEF QueueInv
  <1> QED BY <1>1, QueueAlways, PTL

\* The background tasks that have run out and the requests on the wire share the
\* places of the queue; when all places are lost nothing is on the wire, and no
\* further track is sent before the program is started again.
THEOREM LostPlacesSilenceQueue ==
    Spec => []( /\ Cardinality(loading) + leaked <= Limit
                /\ leaked = Limit => loading = {} )
  <1>1. QueueInv => /\ Cardinality(loading) + leaked <= Limit
                    /\ leaked = Limit => loading = {}
    <2> SUFFICES ASSUME QueueInv
                 PROVE  /\ Cardinality(loading) + leaked <= Limit
                        /\ leaked = Limit => loading = {}
      OBVIOUS
    <2>1. /\ Cardinality(loading) \in Nat /\ leaked \in Nat
          /\ count \in 0 .. Limit /\ count = Cardinality(loading) + leaked
      BY FS_CardinalityType DEF QueueInv, QueueTypes, ArrayInv, PlacesAccountedFor
    <2>2. Cardinality(loading) + leaked <= Limit
      BY <2>1, TrackingAssumption
    <2>3. leaked = Limit => Cardinality(loading) = 0
      BY <2>1, TrackingAssumption
    <2> QED BY <2>2, <2>3, FS_EmptySet DEF QueueInv, ArrayInv
  <1> QED BY <1>1, QueueAlways, PTL

\* A track belongs to one trip.
THEOREM TripIsFixed == Spec => TripFixedWhileTracking
  <1>1. ScreenInv /\ [Next]_vars => [stopShown /\ stopShown' => trip' = trip]_trip
    <2> SUFFICES ASSUME ScreenInv, [Next]_vars, stopShown, stopShown'
                 PROVE  trip' = trip
      OBVIOUS
    <2>1. screen # "chooser"
      BY DEF ScreenInv, ButtonInv
    <2>2. ~ \E t \in Trips : TripChosen(t)
      BY <2>1 DEF TripChosen, On
    <2>3. ~ Relaunch
      BY DEF Relaunch
    <2> QED BY <2>2, <2>3 DEF Next, UserActs, SwitchTab, SelectTripPressed,
         MapPressed, Back, TrackPressed, StopPressed, SendOther, LocationUpdated,
         Expire, Finish, TimerFires, ReachabilityChanged, EnterBackground,
         EnterForeground, MemoryWarning, vars
  <1> QED BY <1>1, ScreenAlways, PTL DEF Spec, TripFixedWhileTracking
=============================================================================
