---------------------------- MODULE RequestQueue ----------------------------
(***************************************************************************)
(* RKRequestQueue together with the part of RKRequest and RKClient it      *)
(* drives: adding and dispatching requests under the concurrency limit,    *)
(* the retry timer, suspension until reachability is known and while the   *)
(* application is in the background, the four background policies, and     *)
(* cancellation.                                                           *)
(*                                                                         *)
(* Every method modelled here runs on the main thread.  A handler that     *)
(* calls loadNextInQueue does not return before that method's dispatch     *)
(* loop is over; the loop is unrolled into one step per request, during    *)
(* which (pass = TRUE) nothing else runs.                                  *)
(***************************************************************************)
EXTENDS Integers, FiniteSets, SequencesExt

CONSTANTS
    Requests,    \* request objects, each sent once by the application
    Limit,       \* concurrentRequestsLimit
    Policy,      \* backgroundPolicy of each request
    Delegates,   \* the delegates of the requests
    Owner        \* the delegate of each request

Policies == {"none", "cancel", "continue", "requeue"}

ASSUME QueueAssumption ==
    /\ Limit \in Nat
    /\ Policy \in [Requests -> Policies]
    /\ Owner \in [Requests -> Delegates]

VARIABLES
    requests,      \* _requests, up to repeated entries (see AddToQueue)
    loadingCount,  \* _loadingCount
    suspended,     \* _suspended
    queueTimer,    \* _queueTimer is not nil
    timers,        \* how many scheduled timers will call loadNextInQueue
    pass,          \* the dispatch loop of loadNextInQueue is running
    toCancel,      \* requests cancelRequestsWithDelegate: has yet to cancel
    submitted,     \* requests the application has sent
    isLoading,     \* requests whose _isLoading is set
    bgTask,        \* requests with a background task
    observing,     \* requests that observe UIApplicationDidEnterBackground
    told,          \* the last thing each request's delegate was told
    appState,      \* "foreground" or "background"
    tellQueue,     \* the queue has yet to be told of the background
    tell,          \* requests that have yet to be told of the background
    reach          \* what RKReachabilityObserver knows of the base URL's host

queueVars   == <<requests, loadingCount, suspended>>
timerVars   == <<queueTimer, timers>>
requestVars == <<isLoading, bgTask, observing, told>>
appVars     == <<appState, tellQueue, tell>>
vars == <<queueVars, timerVars, pass, toCancel, submitted, requestVars,
          appVars, reach>>

\* "detached": the queue cancelled the request and set its delegate to nil.
Outcomes == {"none", "loaded", "failed", "cancelled", "timeout", "detached"}

Queued == Range(requests)

\* The main thread's run loop is free to handle the next event.
MainIdle == ~pass /\ toCancel = {} /\ ~tellQueue /\ tell = {}

isNetworkAvailable == reach # "unreachable"

-----------------------------------------------------------------------------
(* Helpers: the queue's array, its timer and its dispatch loop.            *)

Init ==
    /\ requests = <<>> /\ loadingCount = 0 /\ suspended = TRUE
    /\ queueTimer = FALSE /\ timers = 0
    /\ pass = FALSE /\ toCancel = {} /\ submitted = {}
    /\ isLoading = {} /\ bgTask = {} /\ observing = {}
    /\ told = [r \in Requests |-> "none"]
    /\ appState = "foreground" /\ tellQueue = FALSE /\ tell = {}
    /\ reach = "undetermined"

\* -[NSMutableArray addObject:].  A request put back by the Requeue policy is
\* in the array already.  Its second entry is never seen: nextRequest takes the
\* first unsent entry, and removeObject: removes every entry of the object.
AddToQueue(r) == IF r \in Queued THEN requests ELSE Append(requests, r)

\* -[NSMutableArray removeObject:].
PositionOf(r) == CHOOSE i \in DOMAIN requests : requests[i] = r

\* Faulty variant: the request stays in the array.
KeepInQueue(r) == requests

RemoveFromQueue(r) == RemoveAt(requests, PositionOf(r))

\* Faulty variant of removeRequest:decrementCounter: that never counts.
RemoveRequestUncounted(r, decrementCounter) ==
    /\ requests' = RemoveFromQueue(r)
    /\ UNCHANGED loadingCount

\* removeRequest:decrementCounter:
RemoveRequest(r, decrementCounter) ==
    /\ requests' = RemoveFromQueue(r)
    /\ loadingCount' = IF decrementCounter THEN loadingCount - 1 ELSE loadingCount

\* Faulty variant of nextRequest that searches from the end of the array.
IsLastUnsent(i) ==
    /\ i \in DOMAIN requests
    /\ requests[i] \notin isLoading
    /\ \A j \in i + 1 .. Len(requests) : requests[j] \in isLoading

\* i is the entry nextRequest returns.  A queued request is never loaded, so
\* isUnsent is "not loading".
IsNextRequest(i) ==
    /\ i \in DOMAIN requests
    /\ requests[i] \notin isLoading
    /\ \A j \in 1 .. i - 1 : requests[j] \in isLoading

\* A call of loadNextInQueue that sees isSuspended and n scheduled timers.
\* A suspended queue forgets its timer and schedules another; otherwise the
\* timer is forgotten and the dispatch loop starts.
LoadNextInQueue(isSuspended, n) ==
    /\ queueTimer' = isSuspended
    /\ timers' = IF isSuspended THEN n + 1 ELSE n
    /\ pass' = ~isSuspended

\* Faulty variant of suspended = NO that leaves the queue to its timer.
UnsuspendOnly ==
    /\ suspended' = FALSE
    /\ UNCHANGED <<timerVars, pass>>

\* suspended = NO, start: always calls loadNextInQueue.
Unsuspend ==
    /\ suspended' = FALSE
    /\ LoadNextInQueue(FALSE, timers)

\* Faulty variant of suspended = YES that keeps a pointer to the dead timer.
SuspendKeepsTimer ==
    /\ suspended' = TRUE
    /\ timers' = IF queueTimer THEN timers - 1 ELSE timers
    /\ UNCHANGED <<queueTimer, pass>>

\* suspended = YES: invalidates the timer the queue still knows.
Suspend ==
    /\ suspended' = TRUE
    /\ timers' = IF queueTimer THEN timers - 1 ELSE timers
    /\ queueTimer' = FALSE
    /\ UNCHANGED pass

-----------------------------------------------------------------------------
(* Sending, the dispatch loop and the answers of the network.              *)

\* -[RKRequest send] of a request set up by the client.
Send(r) ==
    /\ MainIdle
    /\ r \notin submitted
    /\ submitted' = submitted \cup {r}
    /\ requests' = AddToQueue(r)
    /\ LoadNextInQueue(suspended, timers)
    /\ UNCHANGED <<loadingCount, suspended, toCancel, requestVars, appVars, reach>>

TimerFires ==
    /\ MainIdle
    /\ timers > 0
    /\ LoadNextInQueue(suspended, timers - 1)
    /\ UNCHANGED <<queueVars, toCancel, submitted, requestVars, appVars, reach>>

\* Faulty variant of the loop's condition, off by one.
MayDispatchOneMore(i) == pass /\ IsNextRequest(i) /\ loadingCount <= Limit

\* The condition of the while loop in loadNextInQueue, for entry i.
MayDispatch(i) == pass /\ IsNextRequest(i) /\ loadingCount < Limit

\* sendAsynchronously puts the request on the wire.
Dispatch(i) ==
    LET r == requests[i] IN
    /\ MayDispatch(i)
    /\ isNetworkAvailable
    /\ loadingCount' = loadingCount + 1
    /\ isLoading' = isLoading \cup {r}
    /\ bgTask' = IF Policy[r] = "continue" THEN bgTask \cup {r} ELSE bgTask
    /\ observing' = IF Policy[r] \in {"cancel", "requeue"}
                    THEN observing \cup {r} ELSE observing
    /\ UNCHANGED <<requests, suspended, timerVars, pass, toCancel, submitted,
                   told, appVars, reach>>

\* sendAsynchronously answers at once: from the cache, or with an error when
\* the network is not available.  The count goes up and down again, and the
\* nested loadNextInQueue is the rest of this loop.
AnswerLocally(i, outcome) ==
    LET r == requests[i] IN
    /\ MayDispatch(i)
    /\ outcome = "loaded" \/ (outcome = "failed" /\ ~isNetworkAvailable)
    /\ requests' = RemoveFromQueue(r)
    /\ told' = [told EXCEPT ![r] = outcome]
    /\ UNCHANGED <<loadingCount, suspended, timerVars, pass, toCancel, submitted,
                   isLoading, bgTask, observing, appVars, reach>>

\* Faulty variant: no timer is armed for the requests that are left.
EndPassWithoutTimer ==
    /\ pass
    /\ ~ \E i \in DOMAIN requests : MayDispatch(i)
    /\ pass' = FALSE
    /\ UNCHANGED <<queueVars, timerVars, toCancel, submitted, requestVars, appVars, reach>>

\* The loop ends and loadNextInQueueDelayed arms the timer.
EndPass ==
    /\ pass
    /\ ~ \E i \in DOMAIN requests : MayDispatch(i)
    /\ pass' = FALSE
    /\ IF requests # <<>> /\ ~suspended
       THEN queueTimer' = TRUE /\ timers' = timers + 1
       ELSE UNCHANGED timerVars
    /\ UNCHANGED <<queueVars, toCancel, submitted, requestVars, appVars, reach>>

\* The connection ends (or fails and the cache steps in): the delegate is told
\* and requestFinishedWithNotification: removes the request.  The request is
\* deallocated, and with it its observer; a background task survives, because
\* its expiration handler retains the request.
Answer(r, outcome) ==
    /\ MainIdle
    /\ r \in isLoading
    /\ isLoading' = isLoading \ {r}
    /\ told' = [told EXCEPT ![r] = outcome]
    /\ observing' = observing \ {r}
    /\ RemoveRequest(r, TRUE)
    /\ LoadNextInQueue(suspended, timers)
    /\ UNCHANGED <<suspended, toCancel, submitted, bgTask, appVars, reach>>

-----------------------------------------------------------------------------
(* Cancellation by the application.                                        *)

\* Faulty variant that takes a loading request for an unsent one.
CancelAsUnsent(r) ==
    /\ r \in Queued
    /\ RemoveRequest(r, FALSE)
    /\ told' = [told EXCEPT ![r] = "detached"]
    /\ UNCHANGED <<isLoading, observing, timerVars, pass>>

\* cancelRequest: of a request that is not loading: no decrement, no loading
\* of the next request.
CancelUnsent(r) ==
    /\ r \in Queued \ isLoading
    /\ RemoveRequest(r, FALSE)
    /\ told' = [told EXCEPT ![r] = "detached"]
    /\ UNCHANGED <<isLoading, observing, timerVars, pass>>

\* cancelRequest: of a loading request.
CancelLoading(r) ==
    /\ r \in isLoading
    /\ isLoading' = isLoading \ {r}
    /\ told' = [told EXCEPT ![r] = "detached"]
    /\ observing' = observing \ {r}
    /\ RemoveRequest(r, TRUE)
    /\ LoadNextInQueue(suspended, timers)

CancelRequest(r) ==
    /\ MainIdle
    /\ CancelUnsent(r) \/ CancelLoading(r)
    /\ UNCHANGED <<suspended, toCancel, submitted, bgTask, appVars, reach>>

\* cancelRequestsWithDelegate: copies the array, then cancels one by one.
CancelRequestsWithDelegate(d) ==
    /\ MainIdle
    /\ \E r \in Queued : Owner[r] = d
    /\ toCancel' = {r \in Queued : Owner[r] = d}
    /\ UNCHANGED <<queueVars, timerVars, pass, submitted, requestVars, appVars, reach>>

\* The next cancellation of the copy, in the order of the array.  Each one may
\* have run the dispatch loop, so a request of the copy may be loading by now
\* that was not before, or may have been answered locally and be gone.
CancelNextOfDelegate ==
    /\ ~pass /\ toCancel # {}
    /\ \/ \E i \in DOMAIN requests :
            /\ requests[i] \in toCancel
            /\ \A j \in 1 .. i - 1 : requests[j] \notin toCancel
            /\ CancelUnsent(requests[i]) \/ CancelLoading(requests[i])
            /\ toCancel' = toCancel \ {requests[i]}
       \/ /\ Queued \cap toCancel = {}
          /\ toCancel' = {}
          /\ UNCHANGED <<requests, loadingCount, isLoading, told, observing, timerVars, pass>>
    /\ UNCHANGED <<suspended, submitted, bgTask, appVars, reach>>

\* cancelAllRequests: every entry, without loading the next request.
CancelAllRequests ==
    /\ MainIdle
    /\ requests # <<>>
    /\ requests' = <<>>
    /\ loadingCount' = loadingCount - Cardinality(isLoading)
    /\ isLoading' = {}
    /\ observing' = observing \ Queued
    /\ told' = [r \in Requests |-> IF r \in Queued THEN "detached" ELSE told[r]]
    /\ UNCHANGED <<suspended, timerVars, pass, toCancel, submitted, bgTask, appVars, reach>>

-----------------------------------------------------------------------------
(* The application's transitions and the background policies.              *)

\* UIApplicationDidEnterBackgroundNotification is posted; its observers are
\* told one after the other, in an order Foundation leaves open.
EnterBackground ==
    /\ MainIdle
    /\ appState = "foreground"
    /\ appState' = "background"
    /\ tellQueue' = TRUE
    /\ tell' = observing
    /\ UNCHANGED <<queueVars, timerVars, pass, toCancel, submitted, requestVars, reach>>

\* willTransitionToBackground
TellQueue ==
    /\ ~pass /\ tellQueue
    /\ tellQueue' = FALSE
    /\ Suspend
    /\ UNCHANGED <<requests, loadingCount, toCancel, submitted, requestVars,
                   appState, tell, reach>>

\* appDidEnterBackgroundNotification: under the Cancel policy.  The queue is
\* not involved: the request stays in its array and is unsent again.
TellCancel(r) ==
    /\ ~pass /\ r \in tell /\ Policy[r] = "cancel"
    /\ tell' = tell \ {r}
    /\ observing' = observing \ {r}
    /\ isLoading' = isLoading \ {r}
    /\ told' = [told EXCEPT ![r] = "cancelled"]
    /\ UNCHANGED <<queueVars, timerVars, pass, toCancel, submitted, bgTask,
                   appState, tellQueue, reach>>

\* appDidEnterBackgroundNotification: under the Requeue policy: the request
\* is cancelled without a word and sent again, through the queue it is in.
TellRequeue(r) ==
    /\ ~pass /\ r \in tell /\ Policy[r] = "requeue"
    /\ tell' = tell \ {r}
    /\ observing' = observing \ {r}
    /\ isLoading' = isLoading \ {r}
    /\ requests' = AddToQueue(r)
    /\ LoadNextInQueue(suspended, timers)
    /\ UNCHANGED <<loadingCount, suspended, toCancel, submitted, bgTask, told,
                   appState, tellQueue, reach>>

\* The expiration handler of a background task (Continue policy).  It runs
\* whatever has become of the request in the meantime.
Expire(r) ==
    /\ MainIdle
    /\ appState = "background"
    /\ r \in bgTask
    /\ bgTask' = bgTask \ {r}
    /\ isLoading' = isLoading \ {r}
    /\ told' = [told EXCEPT ![r] = IF @ = "detached" THEN @ ELSE "timeout"]
    /\ UNCHANGED <<queueVars, timerVars, pass, toCancel, submitted, observing,
                   appVars, reach>>

\* willTransitionToForeground
EnterForeground ==
    /\ MainIdle
    /\ appState = "background"
    /\ appState' = "foreground"
    /\ Unsuspend
    /\ UNCHANGED <<requests, loadingCount, toCancel, submitted, requestVars,
                   tellQueue, tell, reach>>

\* The first reachability callback: reachabilityWasDetermined: unsuspends the
\* queue and stops observing.
DetermineReachability(v) ==
    /\ MainIdle
    /\ reach = "undetermined"
    /\ reach' = v
    /\ Unsuspend
    /\ UNCHANGED <<requests, loadingCount, toCancel, submitted, requestVars, appVars>>

\* Later changes are seen only by isNetworkAvailable.
NetworkChanges(v) ==
    /\ MainIdle
    /\ reach \notin {"undetermined", v}
    /\ reach' = v
    /\ UNCHANGED <<queueVars, timerVars, pass, toCancel, submitted, requestVars, appVars>>

-----------------------------------------------------------------------------
Answers == {"loaded", "failed"}
Hosts   == {"reachable", "unreachable"}

\* The steps of a handler that is running.
Continue ==
    \/ \E i \in DOMAIN requests :
          Dispatch(i) \/ \E o \in Answers : AnswerLocally(i, o)
    \/ EndPass
    \/ CancelNextOfDelegate
    \/ TellQueue
    \/ \E r \in Requests : TellCancel(r) \/ TellRequeue(r)

Next ==
    \/ Continue
    \/ TimerFires
    \/ \E r \in Requests :
          \/ Send(r) \/ CancelRequest(r) \/ Expire(r)
          \/ \E o \in Answers : Answer(r, o)
    \/ \E d \in Delegates : CancelRequestsWithDelegate(d)
    \/ CancelAllRequests
    \/ EnterBackground \/ EnterForeground
    \/ \E v \in Hosts : DetermineReachability(v) \/ NetworkChanges(v)

Spec == Init /\ [][Next]_vars

\* A running handler finishes.  The run loop serves every timer and every
\* connection that is ready again and again, however often other events come
\* first; NSURLConnection answers every request, at the latest by timing out.
\* The user, the system and the reachability callback owe nothing.
Fairness ==
    /\ WF_vars(Continue)
    /\ SF_vars(TimerFires)
    /\ \A r \in Requests : SF_vars(\E o \in Answers : Answer(r, o))

FairSpec == Spec /\ Fairness

-----------------------------------------------------------------------------
(* Properties.                                                             *)

\* Types.  A timer the queue knows is a timer that is scheduled.
TypeOK ==
    /\ requests \in Seq(Requests)
    /\ loadingCount \in Nat
    /\ suspended \in BOOLEAN /\ queueTimer \in BOOLEAN /\ pass \in BOOLEAN
    /\ timers \in Nat
    /\ queueTimer => timers > 0
    /\ toCancel \subseteq Requests /\ submitted \subseteq Requests
    /\ isLoading \subseteq Requests /\ bgTask \subseteq Requests
    /\ observing \subseteq Requests /\ tell \subseteq Requests
    /\ told \in [Requests -> Outcomes]
    /\ appState \in {"foreground", "background"}
    /\ tellQueue \in BOOLEAN
    /\ reach \in Hosts \cup {"undetermined"}

\* The counter never says less than is on the wire, and so the queue never has
\* more than Limit requests loading, whatever background transitions, expired
\* tasks and cancellations do to requests behind its back.  It is also why the
\* assertion in removeRequest:decrementCounter: ("Attempted to decrement
\* loading count below zero") cannot fail on the main thread.
LimitRespected ==
    /\ Cardinality(isLoading) <= loadingCount
    /\ loadingCount <= Limit

\* A request on the wire is in the queue's array: the queue keeps it alive, is
\* there to hear of its end, and releases it then and not before, whichever of
\* answer, cancellation, expiry and background transition comes first.
LoadingIsQueued == isLoading \subseteq Queued

\* The array as AddToQueue keeps it, without repeated entries.
EntriesDistinct == \A i, j \in DOMAIN requests : requests[i] = requests[j] => i = j

\* A queue that may send and holds requests is dispatching or has a timer that
\* will: no path through cancellation, suspension and the end of a request
\* leaves it waiting for an event that nobody will deliver.
NoLostWakeup == ~suspended /\ requests # <<>> => pass \/ timers > 0

\* Who observes the background transition, and which handler may be running:
\* only a loading request observes it, and a transition and a cancellation of
\* several requests are never handled at the same time.  A transition has been
\* told to everybody before the application comes back.
ObserversLoad ==
    /\ tell \subseteq observing /\ observing \subseteq isLoading
    /\ \A r \in observing : Policy[r] \in {"cancel", "requeue"}
    /\ \A r \in bgTask : Policy[r] = "continue"
    /\ toCancel # {} => tell = {} /\ ~tellQueue
    /\ tell # {} => appState = "background"

\* A request whose delegate has its answer, or has been detached, was submitted
\* and has left the queue.
AnsweredHasLeft ==
    /\ Queued \subseteq submitted
    /\ \A r \in Requests :
          told[r] \in Answers \cup {"detached"} => r \in submitted \ Queued

\* The inductive invariant behind the theorems of RequestQueueProofs.
IInv ==
    /\ TypeOK
    /\ IsFiniteSet(isLoading)
    /\ LimitRespected
    /\ LoadingIsQueued /\ EntriesDistinct
    /\ ObserversLoad
    /\ AnsweredHasLeft
    /\ NoLostWakeup

\* When no request has a background policy the counter is exact.
CountIsExact ==
    (\A r \in Requests : Policy[r] = "none")
        => loadingCount = Cardinality(isLoading)

\* A delegate hears of one answer per request, and nothing of a request the
\* queue cancelled for it; a late timeout is the one thing that may follow.
AnsweredOnce ==
    [][\A r \in Requests :
          /\ told[r] \in Answers => told'[r] \in {told[r], "timeout"}
          /\ told[r] = "detached" => told'[r] = "detached"]_vars

\* Places of the limit that no loading request holds and no end of a request
\* will give back.
LostPlaces == loadingCount - Cardinality(isLoading)

\* What requests lose to the background they lose for good, and only there: a
\* policy or an expired task takes a request off the wire without the queue
\* hearing of it, the place it held stays counted for the rest of the queue's
\* life, and nothing the foreground application does loses another.
LostPlacesStayLost ==
    [][/\ LostPlaces' >= LostPlaces
       /\ LostPlaces' > LostPlaces => appState = "background"]_vars

\* The queue is a first-come first-served line with Limit places: the counter,
\* the timers, suspension and the notifications only decide when it moves.
Service == INSTANCE RequestService
               WITH line <- requests, active <- isLoading,
                    left <- submitted \ Queued
RefinesService == Service!Spec

\* If the queue ends up unsuspended, every queued request leaves it: it is
\* answered, refused or cancelled.
EventuallyServed ==
    <>[](~suspended) => \A r \in Requests : r \in Queued ~> r \notin Queued

\* RKRequestQueue.m:250: "Make sure that the Request Queue does not fire off
\* any requests until the Reachability state has been determined."
NothingSentBeforeReachability == reach = "undetermined" => isLoading = {}

\* RKRequest.h:78, the Cancel policy: "Cancel the request on transition to the
\* background".  What its delegate was told is cancelled does not load again.
CancelledStaysCancelled ==
    \A r \in Requests : told[r] = "cancelled" => r \notin isLoading

\* RKRequest.h:80, the Requeue policy: "It will fire when the app reopens".
RequeuedFiresAgain ==
    <>[](~suspended) =>
        \A r \in Requests :
            (Policy[r] = "requeue" /\ r \in Queued) ~> r \notin Queued \/ r \in isLoading

\* RKRequest.h:458: requestDidTimeout: "is sent when a backgrounded request
\* expired before completion": never to a delegate that has had its answer.
TimeoutOnlyBeforeCompletion ==
    [][\A r \in Requests : told[r] \in Answers => told'[r] # "timeout"]_vars
=============================================================================
