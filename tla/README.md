# MobileMileageTracker: a verification project

TLA+ specifications of the iOS application *MobileMileageTracker*
(`src/mobilemileagetracker`) and of RestKit (`src/RestKit/Code`), the library
that does its work: queueing requests, talking to the server, mapping responses
to Core Data objects. The modules are written from the Objective-C source; TLC
checks small instances and TLAPS proves theorems for all values of the constants.

    tlc -config QueuePolicies.cfg MCRequestQueue       # the runs are in PROJECT.json
    tlapm RequestQueueProofs.tla

## 1. Inventory

### 1.1 Components

| Component | State | Operations | What makes it correct |
|---|---|---|---|
| `RKRequestQueue` | `_requests`, `_loadingCount`, `_suspended`, `_queueTimer` | add, load next (with timer), cancel one / of a delegate / all, suspend, unsuspend, end of a request, both application transitions | never more than the limit loading; the count is the number loading; first come, first served; a queue that may send never waits for nobody |
| `RKRequest` | `_isLoading`, `_isLoaded`, delegate, queue, background policy, background task, connection | send, dispatch (from the cache, to the network, refused), cancel, end, background notification, expiry | one answer per request; the documented background policies |
| `RKClient` | base URL, queue, reachability observer, cache, credentials | set up a request, suspend until reachability is known, network available | nothing is sent before reachability is known; the queue is unsuspended eventually |
| `RKReachabilityObserver` | established or not; SystemConfiguration's flags | first and later callbacks, status | established once; status follows the flags |
| `RKResponse` | body, failure, HTTP response | connection delegate calls, authentication challenge, status predicates | every connection ends once; predicates partition the statuses |
| `RKRequestCache` | entries, headers with dates | store, look up, invalidate | the entry returned is the one stored for that request; timeouts by its date |
| `RKObjectLoader`, `RKManagedObjectLoader` | response, result, target object, thread | map in the background, inform the delegate, finalise, save, clean orphans | every loader is finalised once, on the main thread, and then leaves the queue |
| `RKManagedObjectStore` | persistent store, one context per thread, one entity cache per thread | new context, find or create by primary key, save, merge | one object per primary key; contexts converge after a save |
| `RKObjectManager` | client, store, online state, mappings, router | loaders for paths and objects; reachability changes | online state follows reachability |
| `RKObjectMapper`, mapping operations | mapping result, errors | find mappable values, map attributes and relations | result determined by response and mappings |
| Mappings, provider, router, serializer | tables filled at start-up | look up, invert, route | inverse mappings undo mappings |
| `MTObjectStore`, `MTObjectCache`, model classes | dictionaries by resource URI, credentials | add, remove, look up, load | what is shown is what the server has; relations as the server has them |
| Location tracking (`LocationController`, tracker, map, delegate) | location manager running or not, current trip, list of locations | start, stop, update, choose a trip | every accurate update while tracking is posted for the chosen trip |
| Device, trip and account screens | edited object, credentials | save (post then delete), login | the server gets what was typed, under the right account |
| Parameters, URLs, OAuth, parsers, seeder, Three20, `ASIHTTPRequest`, `MBProgressHUD` | none that matters here | encoding, third-party or unused code | not modelled |

### 1.2 How they interact

* The application asks `RKObjectManager` for an object loader (a subclass of
  `RKRequest`); the manager sets it up through `RKClient`, which gives it the
  shared queue, and sends it: `send` is `addRequest:`.
* The queue dispatches from the main thread. `sendAsynchronously` answers from the
  cache, starts an `NSURLConnection`, or fails at once when the client says the
  network is not available.
* The connection's end reaches the request (`didFinishLoad:`,
  `didFailLoadWithError:`); the request informs its delegate and posts a
  notification, on which the queue removes it and loads the next one. An object
  loader maps on a background thread first and posts the notification when it is
  finalised.
* Mapping writes into a Core Data context of its thread; saving it merges into the
  main context.
* The first reachability callback unsuspends the queue. Going to the background
  suspends it, coming back unsuspends it; loading requests react to the background
  by their policy: None, Cancel, Continue (a background task with an expiration
  handler) or Requeue. `Info.plist` asks for background location updates, so the
  application goes on running, and posting, in the background.

### 1.3 What is hard

* **Interleaving on the main thread**: answers, cancellations, transitions,
  expiry of background tasks, the timer and reachability come in any order.
* **Who counts**: a request's own cancellation (background policies) does not go
  through the queue that counts it.
* **Background threads**: mapping and failure paths of object loaders.
* **Partial failure**: saving or mapping fails half-way through a loader.
* **Deferred work**: the body of a POST is built when it is dispatched; the
  application deletes the object right after posting it.
* **Liveness**: the queue sleeps on a timer, on an answer or on a transition.

`PROJECT.json` lists every hazard with its line and the properties that cover it.

## 2. Modules

| Step | Module | Models | Related to |
|---|---|---|---|
| A | `RequestService` | what a queue promises: a line with `Limit` places | |
| A | `RequestQueue`, `MCRequestQueue`, `RequestQueueProofs` | `RKRequestQueue` with `RKRequest`'s life cycle and background policies, `RKClient`'s suspension | refines `RequestService` |
| B | `LoadService` | what the loaders of one queue promise: places, one report, saved before reported, and where the promise ends | |
| B | `ObjectLoader`, `MCObjectLoader`, `ObjectLoaderProofs` | object loaders on the main and background threads, from dispatch to finalisation | refines `LoadService`; a queue reduced to the array, counter and lock both threads touch |
| C | `ManagedStore`, `MCManagedStore`, `ManagedStoreProofs` | what the loads do to the rows of one entity: entity caches, find-or-create, orphan cleanup, saves of several contexts | B's `Save` and `SaveFails`, opened up |
| D | `LocationTracking`, `MCLocationTracking`, `LocationTrackingProofs` | tracker, trip chooser and map, the shared location manager, post-then-delete, and the queue underneath | A's queue, its dispatch loop in one step |
| E | `RequestCache`, `MCRequestCache`, `RequestCacheProofs` | cache policies, entries in two files, dates, ETags, deaths and failing writes | what A and B leave to chance as "the cache answers" |

Each of B to E keeps of the queue exactly what its own question needs, so that
its state space stays small; the table in each section says what was kept. The
modules that have theorems use no recursive operator.

## 3. The request queue (A)

### 3.1 `RequestQueue`: state and actions

| Variable | Code |
|---|---|
| `requests` | `_requests` |
| `loadingCount`, `suspended` | `_loadingCount`, `_suspended` |
| `queueTimer`, `timers` | `_queueTimer` is not nil; how many `NSTimer`s are scheduled with `loadNextInQueue` |
| `pass`, `toCancel` | the dispatch loop of `loadNextInQueue`, the loop of `cancelRequestsWithDelegate:` |
| `isLoading` | requests with `_isLoading`, i.e. with a connection |
| `bgTask`, `observing` | requests with a background task; with an observer of the background transition |
| `told` | the last thing the delegate heard (`"detached"`: delegate set to nil by the queue) |
| `submitted` | history: requests that were sent |
| `appState`, `tellQueue`, `tell` | foreground or background; who has not been told of the transition yet |
| `reach` | what `RKReachabilityObserver` knows |

| Action | Code |
|---|---|
| `Send` | `-[RKRequest send]`, `addRequest:` and its `loadNextInQueue` |
| `TimerFires` | the timer's `loadNextInQueue` |
| `Dispatch`, `AnswerLocally`, `EndPass` | one iteration of the loop that starts a connection; one that is answered at once; the end of the loop |
| `Answer` | end of a connection, its notification, `requestFinishedWithNotification:` |
| `CancelRequest`, `CancelRequestsWithDelegate`, `CancelNextOfDelegate`, `CancelAllRequests` | the cancellations |
| `EnterBackground`, `TellQueue`, `TellCancel`, `TellRequeue` | the notification and each of its observers |
| `Expire` | the expiration handler of a background task |
| `EnterForeground` | `willTransitionToForeground` |
| `DetermineReachability`, `NetworkChanges` | first and later reachability callbacks |

Everything here runs on the main thread, so a handler runs to its end before the
next event. A handler with a loop is several steps, during which (`pass`,
`toCancel`, `tell`, `tellQueue`) no other event is taken: `MainIdle`. Observers
of one notification are told in any order, since Foundation fixes none.

Abstractions, and why they lose nothing that the properties see:

* `requests` records each object once. The Requeue policy adds a second entry of
  an object that is in the array; `nextRequest` finds the first entry, both have
  the same state, and `removeObject:` removes both.
* The nested `loadNextInQueue` of a request answered during the loop is folded
  into the loop: when it ends nothing is left for the outer loop, and
  `loadNextInQueueDelayed` arms at most one timer for both (`if (!_queueTimer)`).
* Whether the cache answers is nondeterministic, whatever the policy.
* A failure with a cached fallback counts as an answer `"loaded"`.
* A request is deallocated when it leaves the array, unless a background task's
  handler retains it: the queue is what keeps a sent request alive.
* Each request is sent once; delegates do not send or cancel from inside a
  callback; the base URL has a host name, as the application's has.

Left out: named queues, the network activity indicator, the queue's own delegate
(the program sets none), writes to `suspended` by the user of the library,
synchronous requests, changes of the base URL at run time.

### 3.2 Runs

All instances have three requests, `r1` and `r2` of one delegate and `r3` of
another; a limit of one or two makes the queue fill up, makes requests wait, and
lets a cancellation of one delegate's requests dispatch others of the same and of
the other delegate. The model has no bound of its own: each request is sent once,
and that alone makes the state space finite.

| Run | Instance | Shows |
|---|---|---|
| `queue_policies` | policies Continue, Requeue, Cancel; limit 2 | types, the limit, a loading request is queued, no lost wakeup, answered once, lost places stay lost, refinement of `RequestService` |
| `queue_serves` | policy None; limit 1; fair | the counter is exact; a queue that stays unsuspended serves every request |
| `queue_reachability` | policy None; limit 2 | violated: comment at `RKRequestQueue.m:250` |
| `queue_cancel` | as `queue_policies` | violated: `RKRequest.h:78` |
| `queue_requeue` | policy Requeue; limit 1; fair | violated: `RKRequest.h:80` |
| `queue_timeout` | as `queue_policies` | violated: `RKRequest.h:458-459` |

Three requests are enough for every pair of policies to meet under the same
counter, for the two-place queue to be full with one waiting, and for a
delegate's cancellation to hit a waiting, a loading and a foreign request.
`queue_requeue` has a limit of one because `concurrentRequestsLimit` is a public
property and a smaller limit needs fewer requests; with the default of five the
same happens after five requeues.

The operators described as faulty variants are not part of the specification:
each is a plausible bug that takes the place of the definition below it to
confirm that a property notices it.

### 3.3 Fairness

`FairSpec` assumes that a running handler goes on (weak fairness of `Continue`),
that the run loop serves a scheduled timer again and again (strong fairness of
`TimerFires`: other events may come first, and while one is handled no timer
fires), and that every connection ends (strong fairness of `Answer` per request:
`NSURLConnection` reports success, failure or its timeout). Nothing is assumed of
the user, of transitions, of expiry or of reachability; `EventuallyServed`
therefore speaks of behaviours in which the queue ends up unsuspended.

### 3.4 Findings

1. *Sent before reachability is determined* (`RKRequestQueue.m:484`). A trip to
   the background and back unsuspends the queue that `RKClient` suspended until
   reachability is known.
2. *Cancelled but not removed* (`RKRequest.m:622`). The Cancel policy stops the
   connection of a request that stays in the queue's array as unsent, and its
   delegate hears of the cancellation and then of an answer. For a POST this is a
   duplicate on the server.
3. *Requeued requests use up the queue* (`RKRequest.m:626`). The count is not
   decremented; each requeue costs one place for good.
4. *Timeout after the answer* (`RKRequest.m:406`). The expiration handler retains
   its request, so the end of the request does not end the background task.

The same leak of places follows from `Expire`, which the application uses: it posts
locations with the Continue policy. `LimitRespected` says the counter may be too
high, never too low, `CountIsExact` that only background policies make it so, and
`LostPlacesStayLost` that what it is too high by (`LostPlaces`) never shrinks and
grows only in the background.

### 3.5 Proofs

`RequestQueueProofs` proves, assuming only `QueueAssumption` (`Limit` is a natural
number, each request has a policy and a delegate), for any number of requests:
`TypeCorrect`, `LimitHolds`, `LoadingStaysQueued`, `WakeupNeverLost`,
`AnsweredOnceHolds`, `CountHolds`, `PlacesStayLost` and the refinement
`QueueRefinesService`. Two more theorems say how far two of the findings reach:

* `ExhaustedQueueIsDead`: once `LostPlaces` is `Limit`, nothing is ever put on the wire
  again, whatever the application does. It is the general form of finding 3, which
  the run shows for a limit of one, and of the leak through `Expire`.
* `ForegroundWaits`: in a behaviour that never leaves the foreground the comment at
  `RKRequestQueue.m:250` is true; finding 1 needs the background.

The inductive invariant `IInv` adds to the properties what their proof needs:

* `EntriesDistinct`: removing a request from the array leaves no entry of it;
* `ObserversLoad`: only loading requests observe the background transition, so
  `TellRequeue` finds its request in the array and `Expire` one that does not observe;
  and whoever has yet to be told of the transition is told in the background;
* `AnsweredHasLeft`: a request whose delegate has the last word is not in the
  array, hence neither dispatched nor answered again;
* finiteness of `isLoading`, for its cardinality.

Lemmas on sequences (`RemoveAtFacts`, `RemoveFromQueueFacts`, `AddToQueueFacts`)
describe the array; `LeaveKeepsIInv` covers every way a request leaves the queue
and `UnloadKeepsIInv` every way it comes off the wire but stays; `NextIInv` has one
step per action. For the refinement `RemovalLeaves` and `UnloadingPutsBack` map
these two to `Leave` and to `PutBack`. `CountHolds` needs one more induction,
`StepKeepsCount`, on top of `IInv`; so do `ForegroundWaits` (`Waiting`: until reachability
is known the queue is suspended and nothing loads) and `PlacesStayLost` (`StepKeepsPlaces`,
from which `ExhaustedQueueIsDead` follows with `LimitRespected`: with every place lost,
none can be in use).

Only model-checked: `EventuallyServed` (liveness under fairness is beyond the
prover) and the violations.


## 4. Object loaders (B)

### 4.1 `ObjectLoader`: state and actions

Two threads work on a load: the main thread, which dispatches it, takes its
answer and finalises it, and a background thread of its own, which maps and
saves. `fg` and `bg` say, per loader, what each of them is in the middle of.

| Variable | Code |
|---|---|
| `queued`, `loadingCount` | `_requests`, `_loadingCount` of the queue |
| `isLoading`, `isLoaded`, `connected` | `_isLoading`, `_isLoaded`; an open `NSURLConnection` |
| `fg`, `fgCount` | the handler the main thread runs; the count it has read and will write back |
| `locked` | `@synchronized(self)` of `loadNextInQueue`, from the first iteration of a pass to its last |
| `bg`, `bgCount` | the same for the background thread |
| `detached`, `told` | loaders whose delegate is nil; what each delegate heard last |
| `committed`, `notSuccess` | managed loaders whose result is saved; whose response was mappable and no 2xx |
| `submitted`, `raced` | history: sent; a load has ended on its background thread |

| Action | Code |
|---|---|
| `Send` | `-[RKRequest send]` |
| `BeginDispatch`, `Connect`, `LoadFromCache`, `Refuse` | one iteration of `loadNextInQueue`, and the three ways `sendAsynchronously` ends |
| `EndPass` | the end of its loop and of its lock |
| `Answer`, `AnswerFails` | `didFinishLoad:` with a mappable response; an error response, no parser, or a failed connection |
| `Map`, `MapUnsaved`, `MapFails` | `performMappingOnBackgroundThread` and `processMappingResult:` up to the save |
| `Save`, `SaveFails`, `TellSaveFailed` | the save, its failure, the invocation that reports it |
| `Inform` | `informDelegateOfObjectLoadWithResultDictionary:` and `finalizeLoad:` on the main thread |
| `TellFailed`, `Post` | `didFailLoadWithError:` and `finalizeLoad:` on the background thread |
| `LookUp`, `Remove`, `Count`, `DecrementOffMain` | `requestFinishedWithNotification:` and `removeRequest:decrementCounter:` on that thread |
| `End`, `Take`, `Decrement` | the same on the main thread |
| `Cancel` | `cancelRequest:`: an unsent request is removed; a loading one is stopped, and `End`, `Take` and `Decrement` follow |

Array and counter are shared without a lock that covers their use:

* the counter is a plain property, and its read and its write are separate steps of
  each thread. `loadNextInQueue` holds the lock across them, `removeRequest:` does not;
* `_isLoading` is cleared (`RKObjectLoader.m:96`), the request looked up
  (`RKRequestQueue.m:437`, `:339`), removed (`:342`) and counted (`:350`, `:351`) in steps
  of the background thread between which the main thread may dispatch, end or cancel
  the same request; and cancelling a loading request stops it (`:376`, `:379`), looks it up (`:339`),
  removes it (`:342`) and counts (`:351`) in steps of the main thread. Whoever found the
  request in the array decrements, whether or not it is still there to be removed;
* only the removal itself waits for the lock (`:341`), which the main thread has during a whole
  pass over the queue.

Steps are joined where no other thread can tell: the two look-ups of a notification
(a request that has left the array does not come back, so the second decides), the
assertion and the decrement below it, and the main thread's removal with its read of the counter (a
background decrement that falls between the two may as well come before the removal).
The dispatch compares and reads the counter in one step: between the two, another
thread's decrement can only lower it, unless it wraps. One operation of
the array is atomic; what `NSMutableArray` does when one thread enumerates what
another changes is left out. The counter is an unsigned integer: `Incremented` and
`Decremented` wrap at `CountModulus`. A read of the delegate before a message is a step
of its own where another thread may set it to nil in between.

Left to chance: whether the cache answers (section 7), what the mapper makes of a
payload, whether a save succeeds. Assumed: loaders do not set the policy
`LoadOnError` (the application's never do; with it a cached response that cannot
be mapped is delivered again and again); the parser returns a value or an error,
as JSONKit does, the only one the application links.

### 4.2 Runs

| Run | Instance | Shows |
|---|---|---|
| `object_loads` | three loaders, one managed, two after a race; limit 2; counter modulo 6; fair | types, the counter, what works on a load, commit before report, detached delegates, one end, that every load is finalised, and refinement of `LoadService` |
| `loader_count` | two unmanaged loaders; limit 2 | violated: the assertion of `RKRequestQueue.m:350` |

Three loaders and a limit of two let one wait while two load on threads of their
own, so that both an increment and a decrement of the main thread can fall
between the steps of a background thread. One managed loader is enough for its
own paths, since managed loaders meet only in the store (section 5). The modulus
leaves room above the limit, so that a count that wrapped is told from one that
is full. `RaceBound` cuts a behaviour off when a third loader is sent and a load
has ended on its background thread, in either order: from there on most properties
promise nothing, the few that still do are about one loader at a time, and the
theorems of 4.4 cover the safety properties without any bound. Two loaders keep the races
themselves. Deadlock is not checked: when all loads have ended nothing is left to do.

Fairness: threads run on (weak fairness of the main thread's handler and of each
background thread); the run loop serves each of its sources (strong fairness of
`Event` per loader: answers arrive, at the latest as a timeout, calls performed on
the main thread are delivered, and the queue, whose wake-ups section 3 shows are
not lost, dispatches when it may). Nothing is assumed of the user.

### 4.3 What the properties say, and the finding

`LoadService` is what the application may rely on: a load waits for one of `Limit`
places, holds it until its delegate has been told or it has been withdrawn, and is
then over for good; objects of a managed load are reported only when they are
settled in the store. `RefinesLoadService` maps it onto the loaders:

| `LoadService` | `ObjectLoader` |
|---|---|
| `active` | `Active`: queued loading requests, and those the main thread has still to count down for |
| `waiting` | the other entries of `queued` |
| `over` | sent, and neither of these |
| `heard`, `withdrawn` | `told`, `detached` |
| `settled` | `committed`, and `notSuccess`, whose objects are reported unsaved |
| `unreliable` | `raced` |

Nearly every step of the background thread is a stutter of the service; the
dispatch, cut into two steps, is `Begin` at the second. A failed save is a stutter
too: the load keeps its place and never ends, which the service, a safety property,
allows and `EventuallyFinalized` excepts. The promise ends with the first load that
ends on its background thread; from then on `Unreliable` keeps only that what is over,
withdrawn or settled remains so and that objects are reported of settled loads.

`CountExact`, `EndsOnce` and `EventuallyFinalized` hold as long as every load ends on
the main thread (`raced`), whatever is answered, refused or cancelled.
`EventuallyFinalized` has one more exception: a save that failed.
`processMappingResult:` returns without finalising (`RKManagedObjectLoader.m:150`),
so the request keeps its place in the queue; with as many failed saves as
places the queue sends nothing more. `LoadingIsWorkedOn` names the same exception
as a thread that is `"stuck"`.

*The counter goes below zero* (`RKObjectLoader.m:222`). A mapping that fails ends
the load on its background thread: `_isLoading` is cleared while the request is
still in the array, so that it may be sent a second time, and the counter is
decremented without the lock under which the main thread increments it. Two ways
lead below zero. A request is cancelled while it is mapped: both threads find it in
the array before either has removed it, and both count it down; this is the
shorter one, and the run shows it. Or the main thread dispatches a second load
between the background thread's read of the counter and its write: the increment is
lost, and the end of the second load meets a zero.

### 4.4 Proofs

`ObjectLoaderProofs` proves the four invariants, two action properties and the
refinement `LoaderRefinesService` from `LoaderAssumption`, for any number of loaders. Each property has an inductive
invariant, all on top of `TypeInv` (types; only managed loaders save; what was not
sent is untouched):

* `WorkInv` adds to `LoadingIsWorkedOn` that a request leaves the array before it is
  decremented, on either thread;
* `CommitInv` adds that whoever is about to inform has committed;
* `ExactInv` says of behaviours without a race that work in progress counts as
  loading (`WorkIsLoading`), that the count in the main thread's hands is still
  the queue's (`ForegroundFacts`), and that the counter is the number of queued loading
  requests, or one more while an ended one has yet to be taken off (`CountFacts`);
* `EndInv` adds that a loader whose delegate has an outcome has no connection and is
  on its way out (`ToldIsOver`).

`DetachedHearsOnlyFailure` needs `TypeInv` alone. The refinement rests on all of these:
`DispatchFindsPlace` takes from `ExactInv` that the counter the dispatch compared with
the limit is the number of `Active` loads, `OverStays` and `SilenceStep` that what has
ended or heard stays so, `WorkedOnIsNotWaiting` that a mapping thread's load has its
place; `ReliableStep` maps each action of an unraced behaviour and `UnreliableStep`
every step after the race.

Two theorems say how far the finding reaches. `BelowZeroTakesARace`: the counter
goes below zero only after a load ended on a background thread. `OnePlaceTakesACancel`:
with a limit of one that is not enough, and a request must have been cancelled too.
Until then the request with the one place is the only one that anybody looks up, one
thread does so, and no dispatch reads the counter until that thread has written it
(`OneFacts`, inductive on top of `TypeInv`). So of the two ways above, the lost
increment takes two places, and the double decrement takes a cancellation.

`EventuallyFinalized` is model-checked only.

## 5. The managed object store (C)

### 5.1 `ManagedStore`: state and actions

One Core Data entity with a primary key. The main thread's context and one
context per background load work on the rows of one store.

| Variable | Code |
|---|---|
| `server`, `issued` | the server's resources; every key it has given out |
| `used`, `store`, `key` | object IDs allocated; rows in the persistent store; their primary keys |
| `inserted`, `deleted` | unsaved changes of the main context |
| `phase`, `target`, `isNew` | where a load stands; `targetObject`; `_deleteObjectOnFailure` |
| `response`, `results` | keys in the answer; the objects they were mapped to |
| `created`, `doomed` | insertions and deletions of the load's background context |
| `contended`, `quiet` | history: keys that two loads were mapping at once; loads that nobody else's save has disturbed since they mapped |

| Action | Code |
|---|---|
| `Get`, `PostNew`, `SendExisting` | `RKObjectManager`'s loaders for a path, a new object, an object of the store |
| `DeleteTarget` | the application deletes what it posted (`MTDeviceDetailViewController.m:108`, `MTTripDetailViewController.m:121`, `MTLocationTrackerController.m:160`) |
| `Dispatch` | `prepareURLRequest`: `isNew` is noted and the main context saved |
| `AnswerGet`, `AnswerPost`, `AnswerDelete`, `Remove` | the server (external) |
| `AnswerError` | `handleResponseError`: deletes a new target and saves |
| `MapGet`, `FoundOrCreated` | `mappableObjectForData:` and `findOrCreateInstanceOfEntity:` with the thread's entity cache |
| `MapOntoTarget` | mapping onto `targetObject`, read on the background thread |
| `ProcessMapping` | `processMappingResult:` up to the save: a DELETE's target, `deleteCachedObjectsMissingFromResult:` |
| `Save`, `SaveFails` | `-[RKManagedObjectStore save]` on the background thread |

The elements of one response are mapped in one step: they share one entity
cache, filled at the first lookup, and nothing they read changes afterwards. The
time between mapping, cleanup and save is kept, since other loads' saves fall
there. Under `NSOverwriteMergePolicy` a row that one context changed and another
deleted may or may not come back: `Save` chooses. Merging a background save into
the main context changes what the main thread sees, none of the variables here.
The main context has no changes of its own to attributes. A row is never used
for a second object, so the number of rows bounds the insertions of a run.

### 5.2 Runs

| Run | Instance | Shows |
|---|---|---|
| `store_loads` | two GETs, two POSTs, one DELETE; one key; three rows; paths ask for everything | types, unique keys, an undisturbed GET mirrors the server, refused POSTs leave nothing, error responses spare known rows |
| `store_orphans` | two GETs, two keys, one path asks for one of them | violated: `RKManagedObjectCache.h:18`, `RKManagedObjectLoader.m:123` |

Two loads of a kind are needed for every race here, and enough: the properties
speak of one row, or of two rows with one key, and of two loads. One key is
enough for them too, and the theorems hold for any number. Rows and loads of a
kind are interchangeable (`SYMMETRY`). Deadlock is not checked: each load is sent
once.

*Cleanup deletes what the server has* (`MTObjectCache.m:17`). Whatever the resource
path asks for, the application's cache offers every object of the entity, so a
GET for the locations of one trip deletes the locations of all others.

Worth knowing beside the properties: an object that an earlier request's save of
the main context took along is no longer "new" at its own dispatch, so its refused
POST leaves an orphan until the next cleanup; an application that deletes a posted
object sees that deletion committed by the next dispatch of any loader with a target;
duplicates are removed by the next undisturbed GET.

### 5.3 Proofs

`ManagedStoreProofs` proves the type invariant, three invariants, an action
property and one theorem about the finding from `StoreAssumption`, for any keys, rows, loads and filters. The inductive
invariants:

* `TypeInv` adds to the types what they rest on (`OwnInv`): a load under way has its
  target; rows that a background context inserted are in no other load's hands and
  not yet in the store; what was never saved has no key;
* `ClaimInv`: a key outside `contended` has at most one row and at most one load that
  is about to give it one, and that load is about to use the row the store has;
* `QuietInv`: between mapping and save, the rows, insertions and deletions of an
  undisturbed GET fit the store;
* `NewInv`: a target in `isNew` that was posted once has no key, and no other load
  has mapped anything onto it, until it is answered.

`FullReadsKeepServerRows` says where the cleanup is what its comment says: if the
application makes no resources, a GET of everything that nobody disturbed leaves a
row for every resource the server still has (`CoversServer`: its response has every
such key, since the server's resources only become fewer). The finding therefore
needs one of three things: a path that filters, as in the run, a resource made while
the response was under way, or another load's save between mapping and saving.

## 6. Location tracking (D)

### 6.1 `LocationTracking`: state and actions

| Variable | Code |
|---|---|
| `screen`, `visible`, `loaded` | top of the tracker's navigation stack; its tab is selected; its view is loaded and observes notifications |
| `trip`, `stopShown`, `tripEnabled` | `trip`, the right bar button, `tripButton.enabled` |
| `running` | the shared `CLLocationManager` is updating |
| `background`, `suspended`, `reach` | application state; `_suspended`; reachability |
| `waiting`, `loading`, `count` | unsent requests, requests on the wire, `_loadingCount` |
| `built` | locations whose request has its parameters, serialized at its first dispatch |
| `mapClosed`, `forgotten`, `reported`, `late`, `stale`, `leaked` | history, see the properties |

`SwitchTab`, `SelectTripPressed`, `TripChosen`, `MapPressed`, `Back`, `TrackPressed` and
`StopPressed` are the user; `MemoryWarning` unloads a hidden tracker view
(`viewDidUnload`) and `Show` loads it again (`viewDidLoad`, with fresh buttons);
`ManagerAfter` is the map's `viewDidAppear:` and `viewDidDisappear:`. `LocationUpdated`
is one position from `CLLocationManager` to `deleteObject:` with the dispatch that
`addRequest:` makes in between. `Expire` is the expiration handler of the Continue
policy. The rest is the queue: `LoadNextInQueue` makes its loop one step, with the
order inside it left open, since the loop returns only when places or requests run
out. Without a network a request is refused when its turn comes and leaves; a
location refused so is lost, since its object is deleted. What a request holds that
is serialized after the deletion (`stale`) is up to Core Data and is not modelled.
`Relaunch` ends the program in any state.

### 6.2 Run

`tracking`: three positions, one request of another screen, two trips, two
places; trips and positions are interchangeable. Three positions fill the queue and
leave one waiting; two expiries take every place; two trips show a change of trip.

* `OnlyLateLocationsAreStale`: the comment at `MTLocationTrackerController.m:141` asks
  why RestKit does not work in the background. The body of a POST is built when
  the request is dispatched, and the object is deleted as soon as `postObject:`
  returns. Only a location that finds the queue unsuspended, with a place free and
  nothing before it, is serialized in time; in the background the queue is suspended.
* `PlacesAccountedFor`: each background task that runs out costs a place for good.
* `ManagerFollowsButtons`: the two ways in which the manager and the buttons part.
  The map switches the manager off when it is closed, though Stop is shown
  (`mapClosed`); a memory warning makes a tracker that shows Start while the manager
  runs (`forgotten`). The map also switches the manager on, so positions are
  posted while it is open and a trip is chosen, whether the user tracks or not.
* `TripFixedWhileTracking`: for all that, one track never goes to two trips.

### 6.3 Proofs

`LocationTrackingProofs` proves all five, and `LostPlacesSilenceQueue`, for any number of positions, requests, trips
and places. `QueueInv` and `ScreenInv` are inductive and independent: `QueueInv` says
that a waiting location is late or has its body and that loading ones have it;
`ScreenInv` that Stop and an enabled trip button, or Stop and an open chooser, never
go together, which is why the trip is fixed. `LoadNextKeeps` states once what a
dispatch keeps; every action of the queue cites it. `LostPlacesSilenceQueue` draws the
conclusion from `PlacesAccountedFor` and `TypeOK`: places in use and places lost never
exceed the limit, so as many expired background tasks as there are places end the
posting of locations until the program is launched again.

## 7. The request cache (E)

### 7.1 `RequestCache`: state and actions

| Variable | Code |
|---|---|
| `storage` | `_storagePolicy` |
| `body`, `headers` | the two files of an entry: the version in them; whether its date is recent; what it was last checked against |
| `server` | the version each resource has (external) |
| `phase`, `tag`, `answer`, `got` | where a request stands, its If-None-Match, its answer, its outcome |
| `busy`, `storing`, `removing` | what the main thread is in the middle of |
| `shown`, `overlapped`, `crashed`, `writeFailed` | history |

`LoadFromCache`, `Dispatch` and `RefuseOffline` are `sendAsynchronously` (without a network, a
request with `LoadOnError` still gets what is stored); `ConnectionFails`,
`ErrorStatus`, `NotModified`, `StartStore`, `WriteBody`, `WriteHeaders` and `PassBy` are
`didFailLoadWithError:`, `didFinishLoad:` and `storeResponse:`; `Invalidate` and
`RemoveFile` the invalidations; `Restart` is the death of the process in any state and the
next start, with what `setStoragePolicy:` then removes. A handler is one step per
file; a write may fail, and is atomic otherwise (`NSDataWritingAtomic`; the headers'
`writeToFile:atomically:`). The storage policy is set once, as by `RKClient`. A version of
a resource stands for its content and its ETag. `MaxVersion` bounds the server's changes.

### 7.2 Run

`cache_policies`: three requests for one resource, two with RKClient's default policy
and one with the other three policies, a resource that changes twice, any storage
policy. Two requests may overlap while a third looks at what they left; three
versions are the least that tell "older" from "not the newest". Requests for
different keys do not meet. Deadlock is not checked: each request is sent once.

`EntryWhole` needs neither death nor a failed write; `DateIsHonest` and
`MonotoneReads` survive deaths but not failed writes (an old body under new headers)
nor overlapping requests (a late 200 stored over a newer one, a 304 for one version
answered with the body of another); `RevalidatedIsCurrent` says under the same
conditions that the body delivered for a 304 is the version the server confirmed,
although the tag was read from the headers file alone when the request was sent and
the body is read from the other file when the answer is there; `HollowOnlyAfterFault` says where a success without
a body comes from. For a managed GET such a success is an empty result, from
which the cleanup of section 5 concludes that everything was deleted.

### 7.3 Proofs

`RequestCacheProofs` proves all six from `CacheAssumption`, for any requests, keys,
policies and versions. `BaseInv` adds to the types what is being stored and that a
304 is for the tag that was sent, by a request with the `Etag` policy. On it rest two inductive invariants: `WholeInv`,
where nothing died and every write succeeded, says that an entry is whole unless
it is being removed (then a file off the list is gone) or stored (then the body is
written before the headers); `VersionInv`, without overlaps and failed writes, that
a key has at most one request in flight (`OnePerKey`), that files are no newer than
the server and the body no older than its headers and what was shown (`FileFacts`),
and that an answer is no older than the entry and a tag is the entry's (`FlightFacts`).
Deaths break none of the second, which is why `DateIsHonest` survives them.
`ConfirmedBody` puts these together for `RevalidationIsCurrent`: the tag is the version
in the headers, the body is no older than that, and the answer, which has the tag's
version, no older than the body.

## 8. Not modelled, and what is only checked

Beyond the prover's reach and only model-checked: `EventuallyServed` and
`EventuallyFinalized` (liveness under fairness), and the six violations.

* *Mapping, routing, serialization, parsers*: pure computations on dictionaries and
  strings. The modules have their outcomes. Their correctness is a matter of data, not
  of order, and the specs under `src/RestKit/Specs` test them.
* *Relationships and the application's dictionaries*: each hazard there is one
  assignment (`MTLocationTrackerController.m:138`, `MTObjectStore.m:39`, `:242`); a model
  would restate it.
* *`NSURLConnection`'s calls to `RKResponse`*, the authentication challenge, the decoding of
  SystemConfiguration's flags: protocols of the platform, not of this repository.
* *Run-time changes of base URL, queue or storage policy*, synchronous requests, named
  queues, OAuth, the seeder, Three20, `ASIHTTPRequest`, `MBProgressHUD`: the application
  does not use them.

The program's own code is Objective-C, in `.m` files; the `.h` and `.c` files of the
repository are declarations and vendored libraries (YAJL, JSONKit, ASIHTTPRequest,
MBProgressHUD). The modules therefore model very little of the lines in `.h` and
`.c` files: a few enumerations and instance variables, because that is all the
behaviour those files have.
