---------------------------- MODULE ObjectLoader ----------------------------
(***************************************************************************)
(* RKObjectLoader and RKManagedObjectLoader from their dispatch by the     *)
(* request queue to the end of their work.  Answers arrive on the main     *)
(* thread, payloads are mapped and saved on a background thread per load,  *)
(* and results return to the main thread.  A load that fails while it is   *)
(* mapped ends on its background thread, which then takes the queue's      *)
(* array and counter through the steps the main thread takes them through. *)
(*                                                                         *)
(* The queue is reduced to what both threads touch: its array, its counter *)
(* and its lock, which the dispatch loop holds from its first iteration to *)
(* its last and a removal holds while it changes the array.  What is read  *)
(* from the array or the counter outside the lock and used later is a step *)
(* of its own.  RequestQueue shows that the loop does run again while      *)
(* something is queued.                                                    *)
(***************************************************************************)
EXTENDS Integers, FiniteSets

CONSTANTS
    Loaders,       \* object loaders, each sent once by the application
    Limit,         \* concurrentRequestsLimit
    Managed,       \* loaders made while the object manager has a store
    CountModulus   \* one more than the largest NSUInteger

ASSUME LoaderAssumption ==
    /\ IsFiniteSet(Loaders)
    /\ Limit \in Nat
    /\ Managed \subseteq Loaders
    /\ CountModulus \in Nat /\ CountModulus > Limit

VARIABLES
    submitted,     \* loaders the application has sent
    queued,        \* _requests, as a set
    loadingCount,  \* _loadingCount
    isLoading,     \* loaders with _isLoading
    isLoaded,      \* loaders with _isLoaded
    connected,     \* loaders with an open NSURLConnection
    notSuccess,    \* managed loaders whose mapped response is not a 2xx one
    fg,            \* what the main thread is in the middle of, per loader
    fgCount,       \* the count the main thread has read and will write back
    locked,        \* the main thread is in the dispatch loop and has the lock
    bg,            \* where the background thread of each load stands
    bgCount,       \* the count that thread has read and will write back
    detached,      \* loaders whose delegate the queue has set to nil
    told,          \* what each delegate was told last
    committed,     \* loaders whose result was saved in the object store
    raced          \* history: a load has ended on a background thread

queueVars    == <<queued, loadingCount>>
requestVars  == <<isLoading, isLoaded, connected>>
fgVars       == <<fg, fgCount, locked>>
bgVars       == <<bg, bgCount>>
delegateVars == <<detached, told>>
storeVars    == <<notSuccess, committed>>
vars == <<submitted, queueVars, requestVars, fgVars, bgVars,
          delegateVars, storeVars, raced>>

FgPhases == {"idle", "dispatching", "ending", "removing", "decrementing"}

\* "stuck": the thread has returned and the load is not finalized.
BgPhases == {"none", "mapping", "saving", "informing", "telling", "posting",
             "ending", "removing", "counting", "decrementing",
             "saveFailed", "stuck"}

\* The main thread is in the middle of no request ...
BetweenRequests == \A l \in Loaders : fg[l] = "idle"

\* ... and of no pass over the queue.
MainIdle == BetweenRequests /\ ~locked

isUnsent(l) == l \notin isLoading \cup isLoaded

\* Faulty variant of the last line of removeRequest:decrementCounter:.
KeptCount(n) == n

\* The steps of the property loadingCount, an unsigned integer.
Incremented(n) == (n + 1) % CountModulus
Decremented(n) == (n - 1) % CountModulus

\* Faulty variant of cancelRequest: that leaves the delegate in place.
TellAnyway(l, what) == told' = [told EXCEPT ![l] = what]

\* What the delegate hears, if it has not been set to nil.
Tell(l, what) ==
    told' = [told EXCEPT ![l] = IF l \in detached THEN @ ELSE what]

-----------------------------------------------------------------------------
(* The main thread.                                                        *)

Init ==
    /\ submitted = {} /\ queued = {} /\ loadingCount = 0
    /\ isLoading = {} /\ isLoaded = {} /\ connected = {}
    /\ notSuccess = {}
    /\ fg = [l \in Loaders |-> "idle"] /\ fgCount = 0
    /\ locked = FALSE
    /\ bg = [l \in Loaders |-> "none"] /\ bgCount = [l \in Loaders |-> 0]
    /\ detached = {} /\ told = [l \in Loaders |-> "nothing"]
    /\ committed = {} /\ raced = FALSE

\* send, through addRequest:.
Send(l) ==
    /\ MainIdle
    /\ l \notin submitted
    /\ submitted' = submitted \cup {l}
    /\ queued' = queued \cup {l}
    /\ UNCHANGED <<loadingCount, requestVars, fgVars, bgVars,
                   delegateVars, storeVars, raced>>

\* An iteration of loadNextInQueue, the first of a pass or another one: the
\* counter is compared with the limit and read.  (These are two reads; only a
\* decrement that has wrapped the counter would tell them apart.)
BeginDispatch(l) ==
    /\ BetweenRequests
    /\ l \in queued /\ isUnsent(l)
    /\ loadingCount < Limit
    /\ fg' = [fg EXCEPT ![l] = "dispatching"]
    /\ fgCount' = loadingCount
    /\ locked' = TRUE
    /\ UNCHANGED <<submitted, queueVars, requestVars, bgVars,
                   delegateVars, storeVars, raced>>

\* It is written, and sendAsynchronously opens a connection,
Connect(l) ==
    /\ fg[l] = "dispatching"
    /\ loadingCount' = Incremented(fgCount)
    /\ isLoading' = isLoading \cup {l}
    /\ connected' = connected \cup {l}
    /\ fg' = [fg EXCEPT ![l] = "idle"] /\ fgCount' = 0
    /\ UNCHANGED <<submitted, queued, isLoaded, locked, bgVars,
                   delegateVars, storeVars, raced>>

\* or finds an answer in the cache, which is mapped like any other,
LoadFromCache(l) ==
    /\ fg[l] = "dispatching"
    /\ bg[l] = "none"
    /\ loadingCount' = Incremented(fgCount)
    /\ isLoading' = isLoading \cup {l}
    /\ bg' = [bg EXCEPT ![l] = "mapping"]
    /\ fg' = [fg EXCEPT ![l] = "idle"] /\ fgCount' = 0
    /\ UNCHANGED <<submitted, queued, isLoaded, connected, locked, bgCount,
                   delegateVars, storeVars, raced>>

\* Faulty variant: the delegate of a refused loader is not told.
RefuseSilently(l) ==
    /\ fg[l] = "dispatching"
    /\ loadingCount' = Incremented(fgCount)
    /\ fg' = [fg EXCEPT ![l] = "ending"] /\ fgCount' = 0
    /\ UNCHANGED <<submitted, queued, requestVars, locked, bgVars,
                   delegateVars, storeVars, raced>>

\* or is refused: no network, or the source object cannot be serialized.
Refuse(l) ==
    /\ fg[l] = "dispatching"
    /\ loadingCount' = Incremented(fgCount)
    /\ Tell(l, "failed")
    /\ fg' = [fg EXCEPT ![l] = "ending"] /\ fgCount' = 0
    /\ UNCHANGED <<submitted, queued, requestVars, locked, bgVars,
                   detached, storeVars, raced>>

\* The loop ends: nothing is unsent, or no place is free.
EndPass ==
    /\ BetweenRequests /\ locked
    /\ loadingCount >= Limit \/ \A l \in queued : ~isUnsent(l)
    /\ locked' = FALSE
    /\ UNCHANGED <<submitted, queueVars, requestVars, fg, fgCount, bgVars,
                   delegateVars, storeVars, raced>>

\* The connection delivers a response that isResponseMappable lets through.  A
\* loader that was sent twice (see Post) waits for its first thread to return.
Answer(l) ==
    /\ MainIdle
    /\ l \in connected
    /\ bg[l] = "none"
    /\ connected' = connected \ {l}
    /\ bg' = [bg EXCEPT ![l] = "mapping"]
    /\ UNCHANGED <<submitted, queueVars, isLoading, isLoaded, fgVars, bgCount,
                   delegateVars, storeVars, raced>>

\* The connection fails, or delivers an error or what no parser understands.
AnswerFails(l) ==
    /\ MainIdle
    /\ l \in connected
    /\ connected' = connected \ {l}
    /\ isLoading' = isLoading \ {l}
    /\ Tell(l, "failed")
    /\ fg' = [fg EXCEPT ![l] = "ending"]
    /\ UNCHANGED <<submitted, queueVars, isLoaded, fgCount, locked, bgVars,
                   detached, storeVars, raced>>

\* Faulty variant: the background thread informs the delegate by itself.
InformHere(l) ==
    /\ bg[l] = "informing"
    /\ Tell(l, "loaded")
    /\ isLoading' = isLoading \ {l}
    /\ isLoaded' = isLoaded \cup {l}
    /\ bg' = [bg EXCEPT ![l] = "none"]
    /\ fg' = [fg EXCEPT ![l] = "ending"]
    /\ UNCHANGED <<submitted, queueVars, connected, fgCount, locked, bgCount,
                   detached, storeVars, raced>>

\* informDelegateOfObjectLoadWithResultDictionary: and finalizeLoad:error:, for
\* the background thread that waits for them.
Inform(l) ==
    /\ MainIdle
    /\ bg[l] = "informing"
    /\ Tell(l, "loaded")
    /\ isLoading' = isLoading \ {l}
    /\ isLoaded' = isLoaded \cup {l}
    /\ bg' = [bg EXCEPT ![l] = "none"]
    /\ fg' = [fg EXCEPT ![l] = "ending"]
    /\ UNCHANGED <<submitted, queueVars, connected, fgCount, locked, bgCount,
                   detached, storeVars, raced>>

\* Faulty variant: the request stays in the queue's array.
EndKeeps(l) ==
    /\ fg[l] = "ending"
    /\ fg' = [fg EXCEPT ![l] = "idle"]
    /\ UNCHANGED <<submitted, queueVars, requestVars, fgCount, locked, bgVars,
                   delegateVars, storeVars, raced>>

\* requestFinishedWithNotification: or cancelRequest: on the main thread looks
\* the request up.  (The former does so twice; a request that has left the array
\* does not come back, so the second time decides.)
End(l) ==
    /\ fg[l] = "ending"
    /\ fg' = [fg EXCEPT ![l] = IF l \in queued THEN "removing" ELSE "idle"]
    /\ UNCHANGED <<submitted, queueVars, requestVars, fgCount, locked, bgVars,
                   delegateVars, storeVars, raced>>

\* What was found is removed, if it is still there, and the counter is read.  (No
\* thread looks for the request between the two and counts for it.)
Take(l) ==
    /\ fg[l] = "removing"
    /\ queued' = queued \ {l}
    /\ fgCount' = loadingCount
    /\ fg' = [fg EXCEPT ![l] = "decrementing"]
    /\ UNCHANGED <<submitted, loadingCount, requestVars, locked, bgVars,
                   delegateVars, storeVars, raced>>

Decrement(l) ==
    /\ fg[l] = "decrementing"
    /\ loadingCount' = Decremented(fgCount)
    /\ fg' = [fg EXCEPT ![l] = "idle"] /\ fgCount' = 0
    /\ UNCHANGED <<submitted, queued, requestVars, locked, bgVars,
                   delegateVars, storeVars, raced>>

\* Faulty variant that takes a loading request for an unsent one.
CancelUncounted(l) ==
    /\ MainIdle
    /\ l \in queued
    /\ connected' = connected \ {l}
    /\ isLoading' = isLoading \ {l}
    /\ queued' = queued \ {l}
    /\ detached' = detached \cup {l}
    /\ UNCHANGED <<submitted, loadingCount, isLoaded, fgVars, bgVars, told,
                   storeVars, raced>>

\* cancelRequest: of a request of the array that is not loading, which it removes
\* without counting, or that is, which it stops and goes on to look up.  Neither
\* stops the background thread of the load: that thread may make a loading
\* request unsent between the two tests, and then nothing happens, or between the
\* second and the removal.
Cancel(l) ==
    /\ MainIdle
    /\ l \in queued
    /\ \/ /\ isUnsent(l)
          /\ queued' = queued \ {l}
          /\ UNCHANGED <<connected, isLoading, fg>>
       \/ /\ l \in isLoading
          /\ connected' = connected \ {l}
          /\ isLoading' = isLoading \ {l}
          /\ fg' = [fg EXCEPT ![l] = "ending"]
          /\ UNCHANGED queued
    /\ detached' = detached \cup {l}
    /\ UNCHANGED <<submitted, loadingCount, isLoaded, fgCount, locked, bgVars, told,
                   storeVars, raced>>

\* The invocation that tells the delegate of a failed save: its target was read
\* on the background thread.
TellSaveFailed(l) ==
    /\ MainIdle
    /\ bg[l] = "saveFailed"
    /\ told' = [told EXCEPT ![l] = "failed"]
    /\ bg' = [bg EXCEPT ![l] = "stuck"]
    /\ UNCHANGED <<submitted, queueVars, requestVars, fgVars, bgCount,
                   detached, storeVars, raced>>

-----------------------------------------------------------------------------
(* The background thread of a load.                                        *)

\* performMapping finds a result.  What a managed loader maps from a successful
\* response it saves.
Map(l) ==
    /\ bg[l] = "mapping"
    /\ bg' = [bg EXCEPT ![l] = IF l \in Managed THEN "saving" ELSE "informing"]
    /\ UNCHANGED <<submitted, queueVars, requestVars, fgVars, bgCount,
                   delegateVars, storeVars, raced>>

\* What it maps from another one, a redirection say, it passes on unsaved.
MapUnsaved(l) ==
    /\ bg[l] = "mapping" /\ l \in Managed
    /\ notSuccess' = notSuccess \cup {l}
    /\ bg' = [bg EXCEPT ![l] = "informing"]
    /\ UNCHANGED <<submitted, queueVars, requestVars, fgVars, bgCount,
                   delegateVars, committed, raced>>

\* Faulty variant: an error the mapper finds is dropped.
MapFailsSilently(l) ==
    /\ bg[l] = "mapping"
    /\ bg' = [bg EXCEPT ![l] = "none"]
    /\ UNCHANGED <<submitted, queueVars, requestVars, fgVars, bgCount,
                   delegateVars, storeVars, raced>>

\* performMapping fails; didFailLoadWithError: reads the delegate.
MapFails(l) ==
    /\ bg[l] = "mapping"
    /\ bg' = [bg EXCEPT ![l] = IF l \in detached THEN "posting" ELSE "telling"]
    /\ UNCHANGED <<submitted, queueVars, requestVars, fgVars, bgCount,
                   delegateVars, storeVars, raced>>

\* processMappingResult: saves the context of the thread ...
Save(l) ==
    /\ bg[l] = "saving"
    /\ committed' = committed \cup {l}
    /\ bg' = [bg EXCEPT ![l] = "informing"]
    /\ UNCHANGED <<submitted, queueVars, requestVars, fgVars, bgCount,
                   delegateVars, notSuccess, raced>>

\* Faulty variant: the result of save: is not looked at.
SaveFailsUnnoticed(l) ==
    /\ bg[l] = "saving"
    /\ bg' = [bg EXCEPT ![l] = "informing"]
    /\ UNCHANGED <<submitted, queueVars, requestVars, fgVars, bgCount,
                   delegateVars, storeVars, raced>>

\* ... or fails to, reads the delegate and returns.  (Without a delegate there
\* is no method signature, and no invocation.)
SaveFails(l) ==
    /\ bg[l] = "saving"
    /\ bg' = [bg EXCEPT ![l] = IF l \in detached THEN "stuck" ELSE "saveFailed"]
    /\ UNCHANGED <<submitted, queueVars, requestVars, fgVars, bgCount,
                   delegateVars, storeVars, raced>>

\* The delegate hears of the failure on this thread.
TellFailed(l) ==
    /\ bg[l] = "telling"
    /\ told' = [told EXCEPT ![l] = "failed"]
    /\ bg' = [bg EXCEPT ![l] = "posting"]
    /\ UNCHANGED <<submitted, queueVars, requestVars, fgVars, bgCount,
                   detached, storeVars, raced>>

\* finalizeLoad:error: clears _isLoading, so the request is unsent again, and
\* posts.
Post(l) ==
    /\ bg[l] = "posting"
    /\ isLoading' = isLoading \ {l}
    /\ raced' = TRUE
    /\ bg' = [bg EXCEPT ![l] = "ending"]
    /\ UNCHANGED <<submitted, queueVars, isLoaded, connected, fgVars,
                   bgCount, delegateVars, storeVars>>

\* requestFinishedWithNotification: looks the request up, as End does,
LookUp(l) ==
    /\ bg[l] = "ending"
    /\ bg' = [bg EXCEPT ![l] = IF l \in queued THEN "removing" ELSE "none"]
    /\ UNCHANGED <<submitted, queueVars, requestVars, fgVars, bgCount,
                   delegateVars, storeVars, raced>>

\* removes it under the lock, if the main thread has not done so meanwhile,
Remove(l) ==
    /\ bg[l] = "removing"
    /\ ~locked
    /\ queued' = queued \ {l}
    /\ bg' = [bg EXCEPT ![l] = "counting"]
    /\ UNCHANGED <<submitted, loadingCount, requestVars, fgVars, bgCount,
                   delegateVars, storeVars, raced>>

\* and reads the counter and writes it, without the lock.
Count(l) ==
    /\ bg[l] = "counting"
    /\ bgCount' = [bgCount EXCEPT ![l] = loadingCount]
    /\ bg' = [bg EXCEPT ![l] = "decrementing"]
    /\ UNCHANGED <<submitted, queueVars, requestVars, fgVars,
                   delegateVars, storeVars, raced>>

DecrementOffMain(l) ==
    /\ bg[l] = "decrementing"
    /\ loadingCount' = Decremented(bgCount[l])
    /\ bg' = [bg EXCEPT ![l] = "none"] /\ bgCount' = [bgCount EXCEPT ![l] = 0]
    /\ UNCHANGED <<submitted, queued, requestVars, fgVars,
                   delegateVars, storeVars, raced>>

-----------------------------------------------------------------------------
\* What the main thread does of itself, once it has begun.
Foreground(l) ==
    \/ Connect(l) \/ Refuse(l) \/ LoadFromCache(l)
    \/ End(l) \/ Take(l) \/ Decrement(l)

\* What the run loop delivers to the main thread.
Event(l) ==
    \/ BeginDispatch(l)
    \/ AnswerFails(l) \/ Answer(l)
    \/ Inform(l) \/ TellSaveFailed(l)

Background(l) ==
    \/ Map(l) \/ MapUnsaved(l) \/ MapFails(l) \/ Save(l) \/ SaveFails(l)
    \/ TellFailed(l)
    \/ Post(l) \/ LookUp(l) \/ Remove(l) \/ Count(l) \/ DecrementOffMain(l)

Next ==
    \/ EndPass
    \/ \E l \in Loaders :
          \/ Send(l) \/ Cancel(l)
          \/ Foreground(l) \/ Event(l) \/ Background(l)

Spec == Init /\ [][Next]_vars

\* Threads run, the main thread included; the run loop serves each of its
\* sources again and again; every connection ends, at the latest by timing out;
\* and the queue, which does not lose its wake-ups, dispatches when it may.
Fairness ==
    /\ WF_vars(EndPass \/ \E l \in Loaders : Foreground(l))
    /\ \A l \in Loaders : WF_vars(Background(l)) /\ SF_vars(Event(l))

FairSpec == Spec /\ Fairness

-----------------------------------------------------------------------------
(* Properties.                                                             *)

Outcomes == {"nothing", "loaded", "failed"}

\* Types; the main thread is in the middle of at most one thing.
TypeOK ==
    /\ submitted \subseteq Loaders /\ queued \subseteq submitted
    /\ loadingCount \in 0 .. CountModulus - 1
    /\ isLoading \subseteq Loaders /\ isLoaded \subseteq Loaders
    /\ connected \subseteq Loaders
    /\ notSuccess \subseteq Managed
    /\ fg \in [Loaders -> FgPhases]
    /\ \A k, l \in Loaders : fg[k] # "idle" /\ fg[l] # "idle" => k = l
    /\ fgCount \in 0 .. CountModulus - 1
    /\ locked \in BOOLEAN
    /\ bg \in [Loaders -> BgPhases]
    /\ bgCount \in [Loaders -> 0 .. CountModulus - 1]
    /\ detached \subseteq Loaders
    /\ told \in [Loaders -> Outcomes]
    /\ committed \subseteq Managed
    /\ raced \in BOOLEAN

\* As long as every load has ended on the main thread, the counter is exact
\* whenever that thread is between two requests: no sequence of answers, refusals,
\* cancellations during mapping and failed saves takes a place from the queue or
\* gives it one too many.
CountExact ==
    ~raced /\ BetweenRequests => loadingCount = Cardinality(queued \cap isLoading)

\* RKRequestQueue.m:350: "Attempted to decrement loading count below zero".
NotBelowZero ==
    \A l \in Loaders :
        /\ fg[l] = "decrementing" => fgCount > 0
        /\ bg[l] = "decrementing" => bgCount[l] > 0

\* A request in the queue that counts as loading has somebody working on it: a
\* connection, a thread, or the main thread; the one exception is a load
\* whose result could not be saved.
LoadingIsWorkedOn ==
    \A l \in queued \cap isLoading :
        \/ l \in connected
        \/ fg[l] # "idle"
        \/ bg[l] # "none"

\* The delegate of a managed loader is told of loaded objects only after they
\* are in the store, unless the response was not a success to begin with.
LoadedIsCommitted ==
    \A l \in Managed :
        told[l] = "loaded" => l \in committed \cup notSuccess

\* A delegate that has been detached hears only of a failure that a background
\* thread had begun to report when it was detached.
DetachedHearsOnlyFailure ==
    [][\A l \in detached :
          told'[l] # told[l] => bg[l] \in {"telling", "saveFailed"}]_vars

\* As long as every load ends on the main thread, it ends once: a loader whose
\* delegate was told an outcome is not sent again and its delegate hears nothing
\* else.
EndsOnce ==
    [][\A l \in Loaders :
          ~raced /\ told[l] # "nothing" =>
              told'[l] = told[l] /\ (l \in connected' => l \in connected)]_vars

\* A queued load that counts as loading.
Occupied == queued \cap isLoading

\* A load the main thread has still to count down for.
StillCounted(l) ==
    \/ fg[l] \in {"removing", "decrementing"}
    \/ fg[l] = "ending" /\ l \in queued

\* The loads that have a place of the limit.
Active == Occupied \cup {l \in Loaders : StillCounted(l)}

\* As long as every load ends on the main thread, sending a loader is what
\* LoadService says it is: whatever connections, the cache, the mapping threads,
\* failed saves and cancelRequest: do in which order, at most Limit loads are
\* under way, each delegate hears once, of objects only when they are saved, and
\* no load is over without a word unless it was cancelled.
Service == INSTANCE LoadService
               WITH waiting <- queued \ Active, active <- Active,
                    over <- submitted \ (queued \cup Active),
                    heard <- told, withdrawn <- detached,
                    settled <- committed \cup notSuccess,
                    unreliable <- raced
RefinesLoadService == Service!Spec

\* Every loader that was sent leaves the queue, unless its result cannot be
\* saved or a load before it has ended on a background thread.
EventuallyFinalized ==
    \A l \in Loaders :
        l \in queued ~> l \notin queued \/ raced
                        \/ \E k \in Loaders : bg[k] \in {"saveFailed", "stuck"}
=============================================================================
