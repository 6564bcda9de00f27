-------------------------- MODULE LocationTracking --------------------------
(***************************************************************************)
(* The application's tracking of a trip: the tracker screen with its       *)
(* Start, Stop and trip buttons, the trip chooser and the map pushed on    *)
(* top of it, the location manager they all share, the observer that turns *)
(* every position into a location object posted to the server and deleted  *)
(* at once, and the request queue underneath, which may not be able to     *)
(* send the request while the object still exists.                         *)
(*                                                                         *)
(* Everything here runs on the main thread.  The queue is reduced to what  *)
(* tracking can tell apart: which requests wait, which are on the wire and *)
(* how many places are taken.  RequestQueue has its dispatch loop, timer   *)
(* and order step by step.                                                 *)
(***************************************************************************)
EXTENDS Integers, FiniteSets

CONSTANTS
    Locations,   \* the positions the device will report, each once
    Others,      \* requests of the other screens (background policy None)
    Trips,       \* the trips the chooser lists
    NoTrip,      \* trip = nil
    Limit        \* concurrentRequestsLimit

ASSUME TrackingAssumption ==
    /\ Limit \in Nat \ {0}
    /\ NoTrip \notin Trips
    /\ Locations \cap Others = {}

VARIABLES
    screen,       \* top of the tracker tab's navigation stack
    visible,      \* the tracker's tab is the selected one
    loaded,       \* the tracker's view is loaded, and it observes notifications
    trip,         \* the tracker's trip
    stopShown,    \* the right bar button is Stop, not Start
    tripEnabled,  \* tripButton.enabled
    running,      \* the shared location manager is updating
    mapClosed,    \* history: a map has disappeared since Start was pressed
    forgotten,    \* history: the view was loaded anew while the manager ran
    background,   \* the application is in the background
    suspended,    \* _suspended of the queue
    reach,        \* what is known of the server's reachability
    waiting,      \* queued requests that are unsent
    loading,      \* requests on the wire
    count,        \* _loadingCount
    reported,     \* history: positions that became locations
    late,         \* history: of them, those the queue could not send at once
    built,        \* locations whose request has its body (params is not nil)
    stale,        \* history: of them, those that had been deleted before
    leaked        \* history: how many background tasks of this process ran out

screenVars  == <<screen, visible, loaded>>
buttonVars  == <<stopShown, tripEnabled, running, mapClosed, forgotten>>
queueVars   == <<suspended, reach, waiting, loading, count, built>>
historyVars == <<reported, late, stale, leaked>>
vars == <<screenVars, trip, buttonVars, background, queueVars, historyVars>>

Screens == {"tracker", "chooser", "map"}
Hosts == {"reachable", "unreachable"}
Requests == Locations \cup Others

\* The user sees the tracker, or the map on top of it.
On(s) == ~background /\ visible /\ screen = s

MapOn == visible /\ screen = "map"

Init ==
    /\ screen = "tracker" /\ visible = FALSE /\ loaded = FALSE
    /\ trip = NoTrip
    /\ stopShown = FALSE /\ tripEnabled = TRUE /\ running = FALSE
    /\ mapClosed = FALSE /\ forgotten = FALSE
    /\ background = FALSE
    /\ suspended = TRUE /\ reach = "undetermined"
    /\ waiting = {} /\ loading = {} /\ count = 0
    /\ built = {} /\ reported = {} /\ late = {} /\ stale = {} /\ leaked = 0

-----------------------------------------------------------------------------
(* The queue, as tracking sees it.                                         *)

\* Faulty variant: the limit is tested after the request has been sent.
BatchesOneMore(q, c) ==
    {s \in SUBSET q : \/ s = q /\ c + Cardinality(s) <= Limit + 1
                      \/ c + Cardinality(s) = Limit + 1}

\* What loadNextInQueue may send of q when c places are taken: as much as
\* there are places for.  Which of them is the queue's order, left open here.
Batches(q, c) ==
    {s \in SUBSET q : /\ c + Cardinality(s) <= Limit
                      /\ s = q \/ c + Cardinality(s) = Limit}

\* loadNextInQueue with the requests q unsent, active on the wire and c places
\* taken.  Without a network every request is refused as its turn comes, and
\* leaves.  prepareURLRequest serializes the object of a request that has no
\* body yet; unless it is the fresh one that object is deleted by then.
LoadNextInQueue(q, active, c, fresh) ==
    \/ /\ suspended'
       /\ waiting' = q /\ loading' = active /\ count' = c
       /\ UNCHANGED <<built, stale>>
    \/ /\ ~suspended' /\ reach' = "unreachable"
       /\ waiting' = IF c < Limit THEN {} ELSE q
       /\ loading' = active /\ count' = c
       /\ UNCHANGED <<built, stale>>
    \/ /\ ~suspended' /\ reach' # "unreachable"
       /\ \E s \in Batches(q, c) :
             /\ waiting' = q \ s
             /\ loading' = active \cup s
             /\ count' = c + Cardinality(s)
             /\ built' = built \cup (s \cap Locations)
             /\ stale' = stale \cup ((s \cap Locations) \ (fresh \cup built))

\* The retry timer: it matters when a task runs out while nothing suspends the
\* queue.
TimerFires ==
    /\ ~suspended /\ waiting # {} /\ count < Limit
    /\ UNCHANGED <<suspended, reach>>
    /\ LoadNextInQueue(waiting, loading, count, {})
    /\ UNCHANGED <<screenVars, trip, buttonVars, background, reported, late,
                   leaked>>

\* Faulty variant: the place is kept.
FinishUncounted(r) ==
    /\ r \in loading
    /\ UNCHANGED <<suspended, reach>>
    /\ LoadNextInQueue(waiting, loading \ {r}, count, {})
    /\ UNCHANGED <<screenVars, trip, buttonVars, background, reported, late,
                   leaked>>

\* A request is answered: the queue gives its place to the next one.
Finish(r) ==
    /\ r \in loading
    /\ UNCHANGED <<suspended, reach>>
    /\ LoadNextInQueue(waiting, loading \ {r}, count - 1, {})
    /\ UNCHANGED <<screenVars, trip, buttonVars, background, reported, late,
                   leaked>>

\* Another screen sends a request.
SendOther(o) ==
    /\ ~background
    /\ o \notin waiting \cup loading
    /\ UNCHANGED <<suspended, reach>>
    /\ LoadNextInQueue(waiting \cup {o}, loading, count, {})
    /\ UNCHANGED <<screenVars, trip, buttonVars, background, reported, late,
                   leaked>>

\* The background task of a location's request runs out (policy Continue): the
\* request is unsent again, with its body, and still in the queue's array; its
\* place is kept.
Expire(l) ==
    /\ background
    /\ l \in loading
    /\ loading' = loading \ {l}
    /\ waiting' = waiting \cup {l}
    /\ leaked' = leaked + 1
    /\ UNCHANGED <<screenVars, trip, buttonVars, background, suspended, reach,
                   count, built, reported, late, stale>>

\* The first callback of the reachability observer unsuspends the queue,
\* in the background too; later ones only change isNetworkAvailable.
ReachabilityChanged(v) ==
    /\ reach # v
    /\ reach' = v
    /\ IF reach = "undetermined"
       THEN /\ suspended' = FALSE
            /\ LoadNextInQueue(waiting, loading, count, {})
       ELSE UNCHANGED <<suspended, waiting, loading, count, built, stale>>
    /\ UNCHANGED <<screenVars, trip, buttonVars, background, reported, late,
                   leaked>>

\* willTransitionToBackground
EnterBackground ==
    /\ ~background
    /\ background' = TRUE
    /\ suspended' = TRUE
    /\ UNCHANGED <<screenVars, trip, buttonVars, reach, waiting, loading, count,
                   built, historyVars>>

\* willTransitionToForeground
EnterForeground ==
    /\ background
    /\ background' = FALSE
    /\ suspended' = FALSE
    /\ UNCHANGED reach
    /\ LoadNextInQueue(waiting, loading, count, {})
    /\ UNCHANGED <<screenVars, trip, buttonVars, reported, late, leaked>>

-----------------------------------------------------------------------------
(* The screens.                                                            *)

\* Faulty variant: the map leaves the manager as it is when it disappears.
ManagerKept(mapOn) == running \/ mapOn

\* viewDidAppear: and viewDidDisappear: of the map switch the manager on and
\* off, whoever else uses it.
ManagerAfter(mapOn) == IF mapOn # MapOn THEN mapOn ELSE running

\* The tab shows screen s (v), or is hidden behind another one (~v).  The
\* tracker's view is loaded when it is first needed, and again after it was
\* unloaded: viewDidLoad makes a new Start button, and the nib a new, enabled
\* trip button.
Show(s, v) ==
    LET mapOn == v /\ s = "map"
        load  == v /\ s = "tracker" /\ ~loaded
    IN
    /\ screen' = s /\ visible' = v
    /\ running' = ManagerAfter(mapOn)
    /\ loaded' = (loaded \/ load)
    /\ stopShown' = (stopShown /\ ~load)
    /\ tripEnabled' = (tripEnabled \/ load)
    /\ mapClosed' = (mapClosed \/ (MapOn /\ ~mapOn))
    /\ forgotten' = (running' /\ (forgotten \/ load))

SwitchTab ==
    /\ ~background
    /\ Show(screen, ~visible)
    /\ UNCHANGED <<trip, background, queueVars, historyVars>>

\* selectTripPressed:, which the trip button sends when it is enabled
SelectTripPressed ==
    /\ On("tracker")
    /\ tripEnabled
    /\ Show("chooser", TRUE)
    /\ UNCHANGED <<trip, background, queueVars, historyVars>>

\* didSelectRowAtIndexPath: of the chooser posts TripChosenNotification, which
\* a tracker whose view was unloaded does not observe, and pops the chooser.
TripChosen(t) ==
    /\ On("chooser")
    /\ trip' = IF loaded THEN t ELSE trip
    /\ Show("tracker", TRUE)
    /\ UNCHANGED <<background, queueVars, historyVars>>

\* mapPressed:
MapPressed ==
    /\ On("tracker")
    /\ Show("map", TRUE)
    /\ UNCHANGED <<trip, background, queueVars, historyVars>>

\* The navigation bar's back button, on the chooser or the map.
Back ==
    /\ On("chooser") \/ On("map")
    /\ Show("tracker", TRUE)
    /\ UNCHANGED <<trip, background, queueVars, historyVars>>

\* A memory warning unloads the view of a tracker that is not on screen.
MemoryWarning ==
    /\ loaded
    /\ ~visible \/ screen # "tracker"
    /\ loaded' = FALSE
    /\ UNCHANGED <<screen, visible, trip, buttonVars, background, queueVars,
                   historyVars>>

\* Faulty variant: the trip button stays enabled.
TrackKeepsTripButton ==
    /\ On("tracker") /\ ~stopShown
    /\ trip # NoTrip
    /\ running' = TRUE /\ stopShown' = TRUE
    /\ mapClosed' = FALSE /\ forgotten' = FALSE
    /\ UNCHANGED <<screenVars, trip, tripEnabled, background, queueVars, historyVars>>

\* trackPressed; without a trip it only shows an alert.
TrackPressed ==
    /\ On("tracker") /\ ~stopShown
    /\ trip # NoTrip
    /\ running' = TRUE /\ stopShown' = TRUE /\ tripEnabled' = FALSE
    /\ mapClosed' = FALSE /\ forgotten' = FALSE
    /\ UNCHANGED <<screenVars, trip, background, queueVars, historyVars>>

\* stopPressed
StopPressed ==
    /\ On("tracker") /\ stopShown
    /\ running' = FALSE /\ stopShown' = FALSE /\ tripEnabled' = TRUE
    /\ mapClosed' = FALSE /\ forgotten' = FALSE
    /\ UNCHANGED <<screenVars, trip, background, queueVars, historyVars>>

\* Faulty variant: the object is deleted before it is posted.
LocationDeletedFirst(l) ==
    /\ running /\ loaded /\ trip # NoTrip
    /\ l \notin reported
    /\ reported' = reported \cup {l}
    /\ late' = IF suspended \/ waiting # {} \/ count = Limit
               THEN late \cup {l} ELSE late
    /\ UNCHANGED <<suspended, reach>>
    /\ LoadNextInQueue(waiting \cup {l}, loading, count, {})
    /\ UNCHANGED <<screenVars, trip, buttonVars, background, leaked>>

\* didUpdateToLocation: posts LocationUpdateNotification; locationUpdated:,
\* which needs an observer and a trip, makes the location, posts it with the
\* background policy Continue (addRequest: runs loadNextInQueue before it
\* returns) and deletes it.  Positions out of the accuracy's range do nothing.
\* The application runs in the background for them (UIBackgroundModes).
LocationUpdated(l) ==
    /\ running /\ loaded /\ trip # NoTrip
    /\ l \notin reported
    /\ reported' = reported \cup {l}
    /\ late' = IF suspended \/ waiting # {} \/ count = Limit
               THEN late \cup {l} ELSE late
    /\ UNCHANGED <<suspended, reach>>
    /\ LoadNextInQueue(waiting \cup {l}, loading, count, {l})
    /\ UNCHANGED <<screenVars, trip, buttonVars, background, leaked>>

\* The program ends and is launched again: the queue is not kept anywhere.
Relaunch ==
    /\ screen' = "tracker" /\ visible' = FALSE /\ loaded' = FALSE
    /\ trip' = NoTrip
    /\ stopShown' = FALSE /\ tripEnabled' = TRUE /\ running' = FALSE
    /\ mapClosed' = FALSE /\ forgotten' = FALSE
    /\ background' = FALSE
    /\ suspended' = TRUE /\ reach' = "undetermined"
    /\ waiting' = {} /\ loading' = {} /\ count' = 0 /\ built' = {}
    /\ leaked' = 0
    /\ UNCHANGED <<reported, late, stale>>

-----------------------------------------------------------------------------
UserActs ==
    \/ SwitchTab \/ SelectTripPressed \/ MapPressed \/ Back
    \/ TrackPressed \/ StopPressed
    \/ \E t \in Trips : TripChosen(t)
    \/ \E o \in Others : SendOther(o)

Next ==
    \/ UserActs
    \/ \E l \in Locations : LocationUpdated(l) \/ Expire(l)
    \/ \E r \in Requests : Finish(r)
    \/ TimerFires
    \/ \E v \in Hosts : ReachabilityChanged(v)
    \/ EnterBackground \/ EnterForeground
    \/ MemoryWarning
    \/ Relaunch

Spec == Init /\ [][Next]_vars

-----------------------------------------------------------------------------
(* Properties.                                                             *)

\* Types; the queue never has more than Limit places taken.
TypeOK ==
    /\ screen \in Screens
    /\ trip \in Trips \cup {NoTrip}
    /\ visible \in BOOLEAN /\ loaded \in BOOLEAN
    /\ stopShown \in BOOLEAN /\ tripEnabled \in BOOLEAN /\ running \in BOOLEAN
    /\ mapClosed \in BOOLEAN /\ forgotten \in BOOLEAN
    /\ background \in BOOLEAN /\ suspended \in BOOLEAN
    /\ reach \in Hosts \cup {"undetermined"}
    /\ waiting \subseteq Requests /\ loading \subseteq Requests
    /\ waiting \cap loading = {}
    /\ count \in 0 .. Limit
    /\ reported \subseteq Locations /\ late \subseteq Locations
    /\ built \subseteq Locations /\ stale \subseteq Locations
    /\ leaked \in Nat

\* Three screens and two buttons switch one location manager on and off.  It
\* runs without a Stop button only under a map or where the tracker's view was
\* loaded anew beneath a running track; it rests beneath a Stop button only
\* where a map has come and gone.
ManagerFollowsButtons ==
    /\ running /\ ~stopShown => MapOn \/ forgotten
    /\ stopShown /\ ~running => mapClosed

\* All positions of one track go to one trip: however tabs, chooser, map,
\* memory warnings and background transitions come in between, the trip does
\* not change while Stop is shown.
TripFixedWhileTracking == [][stopShown /\ stopShown' => trip' = trip]_trip

\* The object behind a request may be gone when the request is built.  That
\* happens only to a location that found the queue suspended, full or behind
\* another request when it was reported: with places free the position itself
\* is sent, also when the background task runs out and it is sent once more.
OnlyLateLocationsAreStale == stale \subseteq late

\* Every place that is taken is held by a request on the wire or was lost when
\* a background task ran out; nothing gives such a place back before the
\* program ends, so after Limit of them the application sends nothing more.
PlacesAccountedFor == count = Cardinality(loading) + leaked
=============================================================================
